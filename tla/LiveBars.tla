------------------------------ MODULE LiveBars ------------------------------
(***************************************************************************)
(* How the bars a terminal publishes reach the database                    *)
(* (workers/broker_bars.ingest, services/bar_revisions.append_only_bars)   *)
(* and how coarser candles are derived from them (workers/live_bars), for  *)
(* one symbol, one published timeframe and one derived one.                *)
(*                                                                         *)
(* Two workers read the same file.  The collect cycle ingests and commits. *)
(* The live pass keeps a cache of what it has read, ingests, derives the   *)
(* candles and commits once.  Each pass is one transaction at READ         *)
(* COMMITTED: it sees its own rows and the committed ones.                 *)
(*                                                                         *)
(* Bar s is closed once the clock is past s.  Its stamp in the file is     *)
(* already on UTC: how the broker's clock is measured is left out.         *)
(***************************************************************************)
EXTENDS Integers, Sequences, FiniteSets, FiniteSetsExt, Functions

CONSTANTS
    LastBar,         \* bound on the bars
    FileDepth,       \* bars the expert writes
    Restatable,      \* the newest bars the broker may still restate
    RewriteBars,     \* REWRITE_BARS
    StoredLookback,  \* STORED_LOOKBACK, in bars
    Bucket,          \* bars of a candle
    MinParts,        \* the parts a candle needs
    RestateBuckets,  \* RESTATE_BUCKETS
    DeriveLookback,  \* DERIVE_LOOKBACK, in bars
    Overrun,         \* bound on the bars that close during a collect pass; none does in a live one
    MaxTries,        \* attempts of append_only_bars
    MaxUpsets,       \* bound on late bars, restatements, torn rows, failures
    MaxCollects,     \* bound on the collect cycle's passes
    None             \* no bar

Bars == 0..LastBar
Times == 0..LastBar + 1
Candles == 0..(LastBar \div Bucket)
Workers == {"collect", "live"}

\* What the file says of a bar: as it came, or as it was restated since.
Prices == 1..MaxUpsets + 1

ASSUME LiveBarsAssumption ==
    /\ LastBar \in Nat /\ FileDepth \in Nat \ {0} /\ Bucket \in Nat \ {0}
    /\ Restatable \in Nat /\ RewriteBars \in Nat /\ StoredLookback \in Nat
    /\ MinParts \in 1..Bucket /\ RestateBuckets \in Nat /\ DeriveLookback \in Nat
    /\ Overrun \in Nat /\ MaxTries \in Nat \ {0} /\ MaxUpsets \in Nat /\ MaxCollects \in Nat
    /\ None \notin Int

VARIABLES
    now,
    file,      \* the published bars: stamp |-> price
    stored,    \* stored[s]: the committed revisions of bar s
    candles,   \* candles[b]: the parts the newest revision was folded from
    pass,      \* pass[w]: the transaction of worker w
    cache,     \* the live worker's FileCache
    upsets, collects

vars == <<now, file, stored, candles, pass, cache, upsets, collects>>

NoRows == << >>                 \* the function with an empty domain
Revisions == [price : Prices, at : Times]
Partial(S, T) == UNION {[D -> T] : D \in SUBSET S}

Idle == [pc |-> "idle", moment |-> 0, rows |-> NoRows,
         seen |-> NoRows, tries |-> 0, wrote |-> NoRows, since |-> None,
         published |-> None, calm |-> FALSE, folded |-> NoRows]

Cold == [read |-> FALSE, published |-> None, built |-> FALSE, source |-> None]

Other(w) == CHOOSE o \in Workers : o # w
Last(s) == s[Len(s)]
MaxOf(S) == IF S = {} THEN None ELSE Max(S)

\* What worker w sees of bar s: the committed revisions and its own.
Seen(w, s) ==
    IF s \in DOMAIN pass[w].wrote THEN Append(stored[s], pass[w].wrote[s])
                                  ELSE stored[s]

-----------------------------------------------------------------------------
(* The terminal *)

Upset == upsets < MaxUpsets /\ upsets' = upsets + 1

\* The expert writes the file: its time of writing no longer is the one the
\* live worker remembers, nor the one a live pass under way has taken.
Write(rows) ==
    /\ file' = rows
    /\ cache' = [cache EXCEPT !.read = FALSE]
    /\ pass' = [pass EXCEPT !["live"].calm = FALSE]

\* The file with bar s: the expert writes the newest FileDepth.
With(s) ==
    LET all == DOMAIN file \cup {s}
        kept == IF Cardinality(all) > FileDepth THEN all \ {Min(all)} ELSE all
    IN  [t \in kept |-> IF t = s THEN 1 ELSE file[t]]

\* A bar closes and the expert writes it, at once or not yet.
Tick ==
    /\ now <= LastBar
    /\ pass["live"].pc = "idle"
    /\ pass["collect"].pc # "idle" => now - pass["collect"].moment < Overrun
    /\ now' = now + 1
    /\ \/ now \notin DOMAIN file /\ Write(With(now)) /\ UNCHANGED upsets
       \/ now \notin DOMAIN file /\ Upset /\ UNCHANGED <<file, cache, pass>>
       \/ now \in DOMAIN file /\ UNCHANGED <<file, cache, pass, upsets>>
    /\ UNCHANGED <<stored, candles, collects>>

\* A bar comes after its successors, when the series was not synchronised; or
\* before it has closed here, from a terminal whose clock is ahead.
ComeLate(s) ==
    /\ s <= now /\ s \notin DOMAIN file /\ s \in DOMAIN With(s)
    /\ IF s = now THEN Upset ELSE UNCHANGED upsets
    /\ Write(With(s))
    /\ UNCHANGED <<now, stored, candles, collects>>

\* The broker restates a bar that has closed of late.
Restate(s) ==
    /\ Upset
    /\ s \in DOMAIN file /\ s < now /\ s >= now - Restatable
    /\ Write([file EXCEPT ![s] = @ + 1])
    /\ UNCHANGED <<now, stored, candles, collects>>

-----------------------------------------------------------------------------
(* Ingesting the file *)

\* The newest closed bar on record, if it is recent.
StoredNewest(moment) ==
    MaxOf({s \in Bars : /\ stored[s] # << >>
                        /\ s >= moment - StoredLookback /\ s <= moment - 1})

\* Slip: the forming bar is read like the others.
ClosedEvenForming(D, moment) == D
\* The rows of the file that may be stored.
Closed(D, moment) == {s \in D : s + 1 <= moment}

\* A file the terminal stopped writing, of a symbol with nothing recent.
Dead(w, rows, newest, moment) ==
    /\ w = "live" /\ rows # {}
    /\ Max(rows) < moment - StoredLookback /\ newest = None

\* The live worker reads no file it has read since it was written.
Unread(w) == w = "collect" \/ ~cache.read

\* Rows on record inside a window: every revision is a row.
Counted(lo, hi) ==
    ReduceSet(LAMBDA s, n : n + Len(stored[s]), {s \in Bars : lo <= s /\ s <= hi}, 0)

\* Slip: settled rows are left out without looking whether they are there.
NoHole(settled) == FALSE
\* The settled part of the file holds more bars than the record has rows.
Hole(settled) ==
    settled # {} /\ Counted(Min(settled), Max(settled)) < Cardinality(settled)

\* Bars before the floor are settled.
Floor(newest) == newest - RewriteBars

\* A pass takes its clock and the newest bar on record, reads the file, where
\* a row may be torn, and leaves out what is settled unless a bar of it is
\* missing.  When the reference minute is old the market is shut and nothing
\* is written.
Begin(w) ==
    LET newest == StoredNewest(now)
        whole == IF Unread(w) THEN Closed(DOMAIN file, now) ELSE {}
    IN  /\ pass[w].pc = "idle"
        /\ IF w = "live" THEN UNCHANGED collects
           ELSE collects < MaxCollects /\ collects' = collects + 1
        /\ \E lost \in {{}} \cup {{s} : s \in whole}, shut \in BOOLEAN :
              LET good == whole \ lost
                  rows == IF Dead(w, good, newest, now) THEN {} ELSE good
                  settled == {s \in rows : newest # None /\ s < Floor(newest)}
                  short == Hole(settled)
                  fresh == IF shut THEN {} ELSE IF short THEN rows ELSE rows \ settled
              IN  /\ \/ lost = {} /\ ~shut /\ UNCHANGED upsets
                     \/ (lost # {}) # shut /\ Upset
                  /\ pass' = [pass EXCEPT ![w] = [Idle EXCEPT
                        !.pc = IF fresh = {} THEN "done" ELSE "select",
                        !.moment = now,
                        !.rows = Restrict(file, fresh),
                        !.published = IF w = "live" THEN MaxOf(rows) ELSE None,
                        !.since = IF w = "live" /\ short THEN Min(settled) ELSE None,
                        !.calm = w = "live" /\ Unread(w)]]
        /\ UNCHANGED <<now, file, stored, candles, cache>>

-----------------------------------------------------------------------------
(* Appending revisions *)

\* The row says something the newest revision does not.
Differs(revs, price) == revs = << >> \/ Last(revs).price # price

\* The latest revisions are read: rows that repeat them are dropped.
Select(w) ==
    LET p == pass[w]
        changed == {s \in DOMAIN p.rows : Differs(Seen(w, s), p.rows[s])}
    IN  /\ p.pc = "select"
        /\ p.tries < MaxTries
        /\ \A s \in changed : Seen(w, s) # << >> => p.moment >= Last(Seen(w, s)).at
        /\ pass' = [pass EXCEPT
              ![w].pc = IF changed = {} THEN "done" ELSE "insert",
              ![w].rows = Restrict(p.rows, changed),
              ![w].seen = [s \in changed |-> Len(Seen(w, s))],
              ![w].tries = IF changed = {} THEN 0 ELSE p.tries + 1]
        /\ UNCHANGED <<now, file, stored, candles, cache, upsets, collects>>

\* ON CONFLICT DO NOTHING: the statement waits for a row of the same number
\* that is not committed, and passes over one that is.
Insert(w) ==
    LET p == pass[w]
        new == {s \in DOMAIN p.rows : Len(Seen(w, s)) = p.seen[s]}
        rows == [s \in new |-> [price |-> p.rows[s], at |-> p.moment]]
    IN  /\ p.pc = "insert"
        /\ new \cap DOMAIN pass[Other(w)].wrote = {}
        /\ pass' = [pass EXCEPT
              ![w].pc = IF new = DOMAIN p.rows THEN "done" ELSE "select",
              ![w].tries = IF new = DOMAIN p.rows THEN 0 ELSE @,
              ![w].wrote = [s \in DOMAIN @ \cup new |-> IF s \in new THEN rows[s] ELSE @[s]],
              ![w].rows = Restrict(@, DOMAIN p.rows \ new),
              ![w].seen = NoRows]
        /\ UNCHANGED <<now, file, stored, candles, cache, upsets, collects>>

\* A correction from before the newest observation, or rows left after every
\* attempt: append_only_bars raises.
Raises(w) ==
    LET p == pass[w] IN
    /\ p.pc = "select"
    /\ \/ p.tries = MaxTries /\ DOMAIN p.rows # {}
       \/ \E s \in DOMAIN p.rows :
            /\ Seen(w, s) # << >> /\ Differs(Seen(w, s), p.rows[s])
            /\ p.moment < Last(Seen(w, s)).at

-----------------------------------------------------------------------------
(* Ending a pass *)

\* The ingest fails.  The collect step rolls back and reports; the live pass
\* rolls back to its savepoint and derives.
IngestFails(w) ==
    /\ \/ Raises(w) /\ UNCHANGED upsets
       \/ pass[w].pc \in {"select", "insert"} /\ Upset
    /\ pass' = [pass EXCEPT ![w] =
          IF w = "collect" THEN Idle
          ELSE [Idle EXCEPT !.pc = "failed", !.moment = pass[w].moment]]
    /\ UNCHANGED <<now, file, stored, candles, cache, collects>>

\* What the live worker remembers grows older than RESCAN_EVERY.
MemoryAges ==
    /\ pass["live"].pc = "idle" /\ (cache.read \/ cache.built)
    /\ cache' = [cache EXCEPT !.read = FALSE, !.built = FALSE]
    /\ UNCHANGED <<now, file, stored, candles, pass, upsets, collects>>

-----------------------------------------------------------------------------
(* Deriving the candles *)

BucketStart(t) == (t \div Bucket) * Bucket

\* Slip: candles are built again whenever the newest bar moves, and never else.
DueByNewest(p) == p.since # None \/ cache.source # p.published
\* A candle may have changed since it was last built.
DeriveDue(p) == p.since # None \/ ~cache.built \/ cache.source # p.published

NewestCandle(floor) ==
    MaxOf({b * Bucket : b \in {c \in Candles : candles[c] # NoRows /\ c * Bucket >= floor}})

\* Slip: the first bar read is the one that was missing.
StartAtHole(moment, since) ==
    LET floor == moment - DeriveLookback
        newest == NewestCandle(floor)
        start == IF newest = None THEN floor
                 ELSE Max({floor, newest - RestateBuckets * Bucket})
    IN  IF since = None THEN start ELSE Max({floor, Min({start, since})})
\* The first bar that is read: some candles back, further after a backfill,
\* and never before the lookback.
StartOf(moment, since) ==
    LET floor == moment - DeriveLookback
        newest == NewestCandle(floor)
        start == IF newest = None THEN floor
                 ELSE Max({floor, newest - RestateBuckets * Bucket})
    IN  IF since = None THEN start ELSE Max({floor, Min({start, BucketStart(since)})})

\* The price of a bar as it was known at a moment.
KnownAt(revs, moment) == {k \in DOMAIN revs : revs[k].at <= moment}

\* The closed candles with enough parts among the bars from start on.
Fold(revs, start, moment) ==
    LET part(b) == {s \in Bars : /\ s \div Bucket = b /\ start <= s /\ s <= moment - 1
                                 /\ KnownAt(revs[s], moment) # {}}
        built == {b \in Candles : /\ (b + 1) * Bucket <= moment
                                  /\ Cardinality(part(b)) >= MinParts
                                  /\ b * Bucket >= BucketStart(start)}
    IN  [b \in built |-> [s \in part(b) |-> revs[s][Max(KnownAt(revs[s], moment))].price]]

\* What the pass knows of the newest published bar; nothing when its ingest
\* failed.
Published(p) == IF p.pc = "done" /\ p.published = None THEN cache.published ELSE p.published

\* A file that was read is remembered, unless it was written meanwhile: before
\* anything is committed.
Remembered(p) ==
    IF p.pc = "done" THEN [cache EXCEPT !.read = @ \/ p.calm, !.published = Published(p)]
                     ELSE cache

Deriving == pass["live"].pc \in {"done", "failed"}

Derive ==
    LET p == [pass["live"] EXCEPT !.published = Published(pass["live"])]
        known == Remembered(pass["live"])
        mine == [s \in Bars |-> Seen("live", s)]
    IN  /\ Deriving
        /\ IF DeriveDue(p)
           THEN /\ pass' = [pass EXCEPT !["live"].pc = "commit",
                      !["live"].folded = Fold(mine, StartOf(p.moment, p.since), p.moment)]
                /\ cache' = [known EXCEPT !.built = TRUE, !.source = p.published]
           ELSE /\ pass' = [pass EXCEPT !["live"].pc = "commit"]
                /\ cache' = known
        /\ UNCHANGED <<now, file, stored, candles, upsets, collects>>

\* Its savepoint is rolled back, and with it goes what it knew of a backfill.
DeriveFails ==
    /\ Deriving /\ Upset
    /\ pass' = [pass EXCEPT !["live"].pc = "commit"]
    /\ cache' = Remembered(pass["live"])
    /\ UNCHANGED <<now, file, stored, candles, collects>>

-----------------------------------------------------------------------------
(* The end of a transaction *)

AtEnd(w) == pass[w].pc = IF w = "collect" THEN "done" ELSE "commit"

\* Slip: the rows of a pass stay with its worker.
CommitAndKeep(w) ==
    LET p == pass[w] IN
    /\ AtEnd(w)
    /\ stored' = [s \in Bars |-> Seen(w, s)]
    /\ candles' = [b \in Candles |-> IF b \in DOMAIN p.folded THEN p.folded[b] ELSE candles[b]]
    /\ pass' = [pass EXCEPT ![w].pc = "idle"]
    /\ UNCHANGED <<now, file, cache, upsets, collects>>
Commit(w) ==
    LET p == pass[w] IN
    /\ AtEnd(w)
    /\ stored' = [s \in Bars |-> Seen(w, s)]
    /\ candles' = [b \in Candles |-> IF b \in DOMAIN p.folded THEN p.folded[b] ELSE candles[b]]
    /\ pass' = [pass EXCEPT ![w] = Idle]
    /\ UNCHANGED <<now, file, cache, upsets, collects>>

\* Everything is rolled back, and what the live worker remembers is not.
CommitFails(w) ==
    /\ AtEnd(w) /\ Upset
    /\ pass' = [pass EXCEPT ![w] = Idle]
    /\ UNCHANGED <<now, file, stored, candles, cache, collects>>

\* The worker's process is restarted: its memory goes too.
Restart ==
    /\ cache # Cold /\ Upset
    /\ pass' = [pass EXCEPT !["live"] = Idle]
    /\ cache' = Cold
    /\ UNCHANGED <<now, file, stored, candles, collects>>

-----------------------------------------------------------------------------
Init ==
    /\ now = 0 /\ file = NoRows
    /\ stored = [s \in Bars |-> << >>]
    /\ candles = [b \in Candles |-> NoRows]
    /\ pass = [w \in Workers |-> Idle]
    /\ cache = Cold
    /\ upsets = 0 /\ collects = 0

PassStep(w) == Begin(w) \/ Select(w) \/ Insert(w) \/ IngestFails(w) \/ Commit(w)
LiveStep == PassStep("live") \/ Derive

Next ==
    \/ Tick
    \/ \E s \in Bars : ComeLate(s) \/ Restate(s)
    \/ LiveStep \/ PassStep("collect")
    \/ MemoryAges \/ DeriveFails \/ Restart
    \/ \E w \in Workers : CommitFails(w)

Spec == Init /\ [][Next]_vars

\* Passes are started again and go on.  What is remembered ages with the wall
\* clock; it is looked at when a pass begins, so that passes may interrupt it.
Fairness ==
    /\ WF_vars(PassStep("collect")) /\ WF_vars(LiveStep)
    /\ SF_vars(MemoryAges)

FairSpec == Spec /\ Fairness

-----------------------------------------------------------------------------
\* Every variable has its shape, and a worker between passes holds nothing.
TypeOK ==
    /\ now \in Times /\ upsets \in 0..MaxUpsets /\ collects \in 0..MaxCollects
    /\ file \in Partial(Bars, Prices) /\ Cardinality(DOMAIN file) <= FileDepth
    /\ \A s \in Bars : \A k \in DOMAIN stored[s] : stored[s][k] \in Revisions
    /\ \A b \in Candles : candles[b] \in Partial(Bars, Prices)
    /\ \A w \in Workers :
          /\ pass[w].pc \in {"idle", "select", "insert", "done", "failed", "commit"}
          /\ pass[w].pc = "idle" => [pass[w] EXCEPT !.calm = FALSE] = Idle
          /\ pass[w].tries \in 0..MaxTries
          /\ pass[w].rows \in Partial(Bars, Prices)
          /\ DOMAIN pass[w].wrote \subseteq Bars

\* Whatever two workers write of one bar, its revisions are changes, learnt in
\* order, and none was taken before the bar had closed.
KnowledgeInOrder ==
    \A s \in Bars : \A k \in DOMAIN stored[s] :
        /\ stored[s][k].at > s
        /\ k > 1 => /\ stored[s][k].at >= stored[s][k - 1].at
                    /\ stored[s][k].price # stored[s][k - 1].price

\* A candle that is built again has every part it had, except the one the
\* lookback of the pass cuts in two.
CandlesOnlyGrow ==
    [][\A b \in Candles :
          \/ DOMAIN candles[b] \subseteq DOMAIN candles'[b]
          \/ b * Bucket < pass["live"].moment - DeriveLookback]_vars

\* When the terminal has come to rest, every closed bar of its file is on
\* record however late it came, and as the file says it unless it had settled:
\* but a bar that is missing stays so when a second revision of another makes
\* up the number of rows.
Restated == \E s \in Bars : Len(stored[s]) > 1
Settled(s) == StoredNewest(now) # None /\ s < StoredNewest(now) - RewriteBars
RecordAgrees ==
    \A s \in {t \in DOMAIN file : t < now} :
        IF stored[s] = << >> THEN Settled(s) /\ Restated
                            ELSE Settled(s) \/ Last(stored[s]).price = file[s]
RecordConverges == <>[]RecordAgrees

\* And so are the newest candles, whatever failed on the way.
CandlesAgree ==
    LET floor == now - DeriveLookback
        whole == Fold(stored, 0, now)
    IN  \A b \in DOMAIN whole :
           \/ b * Bucket < floor
           \/ NewestCandle(floor) # None /\ b * Bucket < NewestCandle(floor) - RestateBuckets * Bucket
           \/ candles[b] = whole[b]
CandlesConverge == <>[]CandlesAgree
=============================================================================
