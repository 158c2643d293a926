----------------------------- MODULE Ingestion -----------------------------
(***************************************************************************)
(* How the public feed's bars are collected (collector.run_cycle,          *)
(* services/ingestion.py) and read back as they were known                 *)
(* (services/point_in_time.py), for one series: one instrument, timeframe  *)
(* and provider.                                                           *)
(*                                                                         *)
(* A pass is one transaction from the read of the checkpoint to the        *)
(* commit, with every download of the window inside it.  Passes overlap: a *)
(* cycle that outlives its job goes on in its thread while the next one    *)
(* starts.  Each takes the lock of the audit chain's head when it records  *)
(* its start, and holds it until it commits.                               *)
(*                                                                         *)
(* Bar t opens at t * Width and closes Width later.  A value of a bar is   *)
(* the number of times the provider has said something new of it.          *)
(***************************************************************************)
EXTENDS Integers, FiniteSets, FiniteSetsExt

CONSTANTS
    Passes,
    LastBar,
    Width,       \* timeframe.delta
    MaxClock,    \* bound on the clock
    Lag,         \* bound on the time from a cycle's start to the series' turn
    MaxSaid,     \* bound on the values of a bar
    Depth,       \* BACKFILL_DEPTH
    Refresh,     \* REFRESH_WINDOW
    ChunkBars,   \* bars of one request
    MaxRetries,  \* ingest_max_retries
    Nobody       \* not a pass

Bars == 1..LastBar
Times == 0..MaxClock
Rows == [at : Bars, rev : 1..MaxSaid, val : 1..MaxSaid, known : Times]

ASSUME IngestionAssumption ==
    /\ Nobody \notin Passes
    /\ LastBar \in Nat \ {0} /\ Width \in Nat \ {0} /\ MaxClock \in Nat /\ Width <= MaxClock
    /\ Lag \in Nat /\ MaxSaid \in Nat
    /\ Depth \in Nat /\ Refresh \in Nat
    /\ ChunkBars \in Nat \ {0} /\ MaxRetries \in Nat

VARIABLES
    clock,
    said,    \* said[bar]: what the provider says of it now, 0 for nothing
    bars,    \* the rows of ohlcv that are committed
    mark,    \* the committed checkpoint, 0 before the first
    lock,    \* the pass that holds the audit chain's head
    pass     \* pass[p]: its transaction

vars == <<clock, said, bars, mark, lock, pass>>

Idle == [pc |-> "idle", now |-> 0, seen |-> 0, cursor |-> 0, tries |-> 0,
         known |-> 0, moved |-> 0, rows |-> {}, told |-> {}, calm |-> TRUE]

Opens(t) == t * Width
Closes(t) == Opens(t) + Width

\* Passes whose rows are stamped and not yet to be seen.
InFlight == {p \in Passes : pass[p].pc \in {"chunks", "end"}}

RowsOf(R, t) == {r \in R : r.at = t}
Newest(R) == CHOOSE r \in R : \A o \in R : o.rev <= r.rev

-----------------------------------------------------------------------------
(* Reading as of a moment *)

Known(R, moment) == {r \in R : Closes(r.at) <= moment /\ r.known <= moment}

\* The newest revision known then of every bar that had closed.
Visible(R, moment) ==
    {r \in Known(R, moment) : r = Newest(RowsOf(Known(R, moment), r.at))}

-----------------------------------------------------------------------------
(* The provider and the clock *)

Tick ==
    /\ clock < MaxClock
    /\ clock' = clock + 1
    /\ UNCHANGED <<said, bars, mark, lock, pass>>

\* A bar appears, also while it forms, or is said anew: the forming bar as it
\* moves, and a closed one that is corrected.
Say(t) ==
    /\ Opens(t) <= clock
    /\ said[t] < MaxSaid
    /\ said' = [said EXCEPT ![t] = @ + 1]
    /\ pass' = [p \in Passes |-> IF p \in InFlight THEN [pass[p] EXCEPT !.calm = FALSE] ELSE pass[p]]
    /\ UNCHANGED <<clock, bars, mark, lock>>

-----------------------------------------------------------------------------
(* One pass *)

\* _fresh_until: the bar after the newest one fetched can have closed.
Due(now) == mark = 0 \/ now >= Closes(mark)

\* Deeply on first sight, then the recent window.
WindowStart(now) == IF mark = 0 THEN now - Depth ELSE Min({Opens(mark), now - Refresh})
\* A run resumes at the last bar it knows.
EffectiveStart(start) == IF mark = 0 THEN start ELSE Max({start, Opens(mark)})

\* The series' turn in a cycle that began at now: the checkpoint is read, and the
\* start of the run waits for the chain.
OpenRun(p, now) ==
    /\ pass[p] = Idle
    /\ now <= clock /\ clock <= now + Lag
    /\ Due(now)
    /\ pass' = [pass EXCEPT ![p] = [Idle EXCEPT
          !.pc = "waiting", !.now = now, !.seen = mark, !.moved = mark,
          !.cursor = EffectiveStart(WindowStart(now))]]
    /\ UNCHANGED <<clock, said, bars, mark, lock>>

\* Slip: the rows are stamped with the cycle's moment.
RecordStartStamped(p) ==
    /\ pass[p].pc = "waiting" /\ lock = Nobody
    /\ lock' = p
    /\ pass' = [pass EXCEPT ![p].pc = "chunks", ![p].known = pass[p].now]
    /\ UNCHANGED <<clock, said, bars, mark>>
\* INGESTION_STARTED takes the head of the chain; the rows' ingested_at is read.
RecordStart(p) ==
    /\ pass[p].pc = "waiting" /\ lock = Nobody
    /\ lock' = p
    /\ pass' = [pass EXCEPT ![p].pc = "chunks", ![p].known = clock]
    /\ UNCHANGED <<clock, said, bars, mark>>

ChunkEnd(p) == Min({pass[p].cursor + ChunkBars * Width, pass[p].now})
InChunk(p) == {t \in Bars : pass[p].cursor <= Opens(t) /\ Opens(t) < ChunkEnd(p) /\ said[t] # 0}

\* Slip: stored again whether it changed or not.
NewRowsAlways(p) ==
    LET stored(t) == RowsOf(bars \cup pass[p].rows, t)
        rev(t) == IF stored(t) = {} THEN 1 ELSE Newest(stored(t)).rev + 1
    IN  {[at |-> t, rev |-> rev(t), val |-> said[t], known |-> pass[p].known] : t \in InChunk(p)}
\* Slip: a bar that is stored is a duplicate.
NewRowsOnce(p) ==
    LET stored(t) == RowsOf(bars \cup pass[p].rows, t)
        changed == {t \in InChunk(p) : stored(t) = {}}
    IN  {[at |-> t, rev |-> 1, val |-> said[t], known |-> pass[p].known] : t \in changed}
\* A row for every bar of the answer that is new or no longer what was stored.
NewRows(p) ==
    LET stored(t) == RowsOf(bars \cup pass[p].rows, t)
        changed == {t \in InChunk(p) : stored(t) = {} \/ Newest(stored(t)).val # said[t]}
        rev(t) == IF stored(t) = {} THEN 1 ELSE Newest(stored(t)).rev + 1
    IN  {[at |-> t, rev |-> rev(t), val |-> said[t], known |-> pass[p].known] : t \in changed}

\* The insert of a second checkpoint for one series fails, and with it the pass.
CheckpointTaken(p) == pass[p].seen = 0 /\ mark # 0

\* A request is answered, its rows are inserted and the checkpoint advances.
FetchChunk(p) ==
    /\ pass[p].pc = "chunks" /\ pass[p].cursor < pass[p].now
    /\ InChunk(p) # {} => ~CheckpointTaken(p)
    /\ pass' = [pass EXCEPT
          ![p].cursor = @ + ChunkBars * Width,
          ![p].tries = 0,
          ![p].rows = @ \cup NewRows(p),
          ![p].told = @ \cup {<<t, said[t]>> : t \in InChunk(p)},
          ![p].moved = Max(InChunk(p) \cup {@})]
    /\ UNCHANGED <<clock, said, bars, mark, lock>>

\* Slip: one more request than is allowed.
RetryOnceMore(p) ==
    /\ pass[p].pc = "chunks" /\ pass[p].cursor < pass[p].now
    /\ pass[p].tries <= MaxRetries
    /\ pass' = [pass EXCEPT ![p].tries = @ + 1]
    /\ UNCHANGED <<clock, said, bars, mark, lock>>
\* A request fails and is made again after a pause.
Retry(p) ==
    /\ pass[p].pc = "chunks" /\ pass[p].cursor < pass[p].now
    /\ pass[p].tries < MaxRetries
    /\ pass' = [pass EXCEPT ![p].tries = @ + 1]
    /\ UNCHANGED <<clock, said, bars, mark, lock>>

\* It fails once too often: what the earlier requests brought is kept.
GiveUp(p) ==
    /\ pass[p].pc = "chunks" /\ pass[p].cursor < pass[p].now
    /\ pass[p].tries = MaxRetries
    /\ pass' = [pass EXCEPT ![p].pc = "end"]
    /\ UNCHANGED <<clock, said, bars, mark, lock>>

\* The unlucky writer of a revision changes nothing (ON CONFLICT DO NOTHING).
Inserted(p) == {r \in pass[p].rows : \A o \in bars : <<o.at, o.rev>> # <<r.at, r.rev>>}

\* The window is through, or was given up; the report is written and committed.
Commit(p) ==
    /\ pass[p].pc = "end" \/ (pass[p].pc = "chunks" /\ pass[p].cursor >= pass[p].now)
    /\ pass[p].moved # 0 => ~CheckpointTaken(p)
    /\ bars' = bars \cup Inserted(p)
    /\ mark' = IF pass[p].moved # pass[p].seen THEN pass[p].moved ELSE mark
    /\ lock' = IF lock = p THEN Nobody ELSE lock
    /\ pass' = [pass EXCEPT ![p] = Idle]
    /\ UNCHANGED <<clock, said>>

\* The checkpoint is taken, something raises, or the process dies.
Rollback(p) ==
    /\ pass[p].pc \in {"waiting", "chunks", "end"}
    /\ lock' = IF lock = p THEN Nobody ELSE lock
    /\ pass' = [pass EXCEPT ![p] = Idle]
    /\ UNCHANGED <<clock, said, bars, mark>>

-----------------------------------------------------------------------------

Init ==
    /\ clock = Width /\ said = [t \in Bars |-> 0] /\ bars = {} /\ mark = 0
    /\ lock = Nobody /\ pass = [p \in Passes |-> Idle]

RunStep(p) == RecordStart(p) \/ FetchChunk(p) \/ Retry(p) \/ GiveUp(p) \/ Commit(p)

Next ==
    \/ Tick
    \/ \E t \in Bars : Say(t)
    \/ \E p \in Passes, now \in Times : OpenRun(p, now)
    \/ \E p \in Passes : RunStep(p) \/ Rollback(p)

Spec == Init /\ [][Next]_vars

-----------------------------------------------------------------------------
(* Properties *)

TypeOK ==
    /\ clock \in Times /\ said \in [Bars -> 0..MaxSaid]
    /\ bars \subseteq Rows /\ mark \in 0..LastBar
    /\ lock \in Passes \cup {Nobody}
    /\ \A p \in Passes :
          /\ pass[p].pc \in {"idle", "waiting", "chunks", "end"}
          /\ pass[p].now \in Times /\ pass[p].known \in Times
          /\ pass[p].cursor \in Int /\ pass[p].tries \in 0..MaxRetries
          /\ pass[p].seen \in 0..LastBar /\ pass[p].moved \in 0..LastBar
          /\ pass[p].rows \subseteq Rows

\* A later revision of a bar was learnt later and says something else, whichever
\* of two overlapping passes stored it: "a revision is a claim that the provider
\* changed its mind" (ingestion.ingest_ohlcv).
KnowledgeInOrder ==
    \A r, o \in bars : (r.at = o.at /\ r.rev < o.rev) =>
        /\ r.known <= o.known
        /\ o.rev = r.rev + 1 => o.val # r.val

\* What a decision reads as of a moment, once no pass stamped before it is in
\* flight, is what a reconstruction of that moment reads ever after: "A
\* correction backfilled tomorrow must not appear in a decision reconstructed
\* for today".
Settled(moment) == moment < clock /\ \A p \in InFlight : pass[p].known > moment
AsOfIsRepeatable ==
    [][\A moment \in Times : Settled(moment) =>
          Settled(moment)' /\ Visible(bars', moment) = Visible(bars, moment)]_vars

\* A pass that commits leaves the series saying what the provider told it, also
\* when another pass stored a revision meanwhile.
PassIsStored ==
    [][\A p \in Passes : (pass[p].told # {} /\ Commit(p)) =>
          \A a \in pass[p].told : Newest(RowsOf(bars', a[1])).val = a[2]]_vars

\* "Re-fetching a few is cheap, while missing a revision leaves a wrong bar in
\* the record permanently" (REFRESH_WINDOW): a pass that got every answer leaves
\* the refresh window as the provider had it from its start to its end.
RecentIsRight ==
    [][\A p \in Passes : (Commit(p) /\ pass[p].pc = "chunks" /\ pass[p].calm) =>
          \A t \in Bars :
             (pass[p].now - Refresh <= Opens(t) /\ Opens(t) < pass[p].now /\ said[t] # 0) =>
                said[t] \in {r.val : r \in RowsOf(bars', t)}]_vars
=============================================================================
