----------------------------- MODULE AuditChain -----------------------------
(***************************************************************************)
(* The chained audit trail (services/audit.py): three processes append to  *)
(* it inside transactions of their own, retention deletes what is old, and *)
(* a walk verifies that nobody touched a row.                              *)
(*                                                                         *)
(* Every statement of a transaction sees what is committed when it runs.   *)
(* A hash is the record of what it is taken of: no two are the same.       *)
(***************************************************************************)
EXTENDS Integers, FiniteSets

CONSTANTS
    Writers,
    MaxEvents,   \* bound on the events
    MaxClock,    \* bound on the clock
    Keep,        \* the retention window of audit_events
    Tail,        \* events of a tail walk (500)
    Nobody       \* not a writer

\* What an event says, as far as retention asks.
Bodies == {"ordinary", "critical"}

Genesis == "genesis"
Start == [sequence |-> -1, entry_hash |-> Genesis]

ASSUME AuditAssumption ==
    /\ Nobody \notin Writers
    /\ MaxEvents \in Nat /\ MaxClock \in Nat \ {0} /\ Keep \in Nat /\ Tail \in Nat \ {0}

VARIABLES
    clock,
    chain,    \* the committed events
    head,     \* the committed row of audit_chain_head
    lock,     \* the writer that holds that row
    tx,       \* tx[w]: a writer's transaction
    walk,     \* a verification between its statements
    touched,  \* history: sequences somebody edited or deleted by hand
    pruned    \* history: sequences retention deleted

vars == <<clock, chain, head, lock, tx, walk, touched, pruned>>

NoTx == [open |-> FALSE, made |-> 0, rows |-> {}, head |-> Start]
NoWalk == [open |-> FALSE, head |-> Start, intact |-> TRUE, raced |-> FALSE]

-----------------------------------------------------------------------------

Hash(sequence, at, body, previous) ==
    [sequence |-> sequence, at |-> at, body |-> body, previous |-> previous]

Tick ==
    /\ clock < MaxClock
    /\ clock' = clock + 1
    /\ UNCHANGED <<chain, head, lock, tx, walk, touched, pruned>>

\* Something is about to be recorded, and waits for the head.
Begin(w) ==
    /\ ~tx[w].open
    /\ tx' = [tx EXCEPT ![w] = [NoTx EXCEPT !.open = TRUE, !.made = clock]]
    /\ UNCHANGED <<clock, chain, head, lock, walk, touched, pruned>>

Event(tail, at, body) ==
    [sequence |-> tail.sequence + 1, previous |-> tail.entry_hash, at |-> at, body |-> body,
     entry_hash |-> Hash(tail.sequence + 1, at, body, tail.entry_hash)]

HeadSeen(w) == IF lock = w THEN tx[w].head ELSE head
Appended(w, event) ==
    tx' = [tx EXCEPT ![w].rows = @ \cup {event},
                     ![w].head = [sequence |-> event.sequence, entry_hash |-> event.entry_hash]]

\* Slip: the head is read without FOR UPDATE.
RecordUnlocked(w, body) ==
    /\ tx[w].open
    /\ HeadSeen(w).sequence < MaxEvents
    /\ Appended(w, Event(IF tx[w].rows = {} THEN head ELSE tx[w].head, clock, body))
    /\ UNCHANGED <<clock, chain, head, lock, walk, touched, pruned>>
\* Slip: stamped when it was made, not when the head was held.
RecordAsMade(w, body) ==
    /\ tx[w].open
    /\ lock \in {Nobody, w}
    /\ HeadSeen(w).sequence < MaxEvents
    /\ lock' = w
    /\ Appended(w, Event(HeadSeen(w), tx[w].made, body))
    /\ UNCHANGED <<clock, chain, head, walk, touched, pruned>>
\* The head is locked until the transaction ends, and the event chained to it.
Record(w, body) ==
    /\ tx[w].open
    /\ lock \in {Nobody, w}
    /\ HeadSeen(w).sequence < MaxEvents
    /\ lock' = w
    /\ Appended(w, Event(HeadSeen(w), clock, body))
    /\ UNCHANGED <<clock, chain, head, walk, touched, pruned>>

Commit(w) ==
    /\ tx[w].open
    /\ chain' = chain \cup tx[w].rows
    /\ head' = IF tx[w].rows # {} THEN tx[w].head ELSE head
    /\ lock' = IF lock = w THEN Nobody ELSE lock
    /\ tx' = [tx EXCEPT ![w] = NoTx]
    /\ UNCHANGED <<clock, walk, touched, pruned>>

\* The request raised or the process died: its events go with its work.
Rollback(w) ==
    /\ tx[w].open
    /\ lock' = IF lock = w THEN Nobody ELSE lock
    /\ tx' = [tx EXCEPT ![w] = NoTx]
    /\ UNCHANGED <<clock, chain, head, walk, touched, pruned>>

\* Retention keeps what is critical at any age.
Prune ==
    LET old == {e \in chain : e.at < clock - Keep /\ e.body # "critical"} IN
    /\ old # {}
    /\ chain' = chain \ old
    /\ pruned' = pruned \cup {e.sequence : e \in old}
    /\ UNCHANGED <<clock, head, lock, tx, walk, touched>>

\* Somebody edits or deletes a row in the database.
Edit(e) ==
    /\ touched = {} /\ e.body # "edited"
    /\ chain' = (chain \ {e}) \cup {[e EXCEPT !.body = "edited"]}
    /\ touched' = {e.sequence}
    /\ UNCHANGED <<clock, head, lock, tx, walk, pruned>>
Delete(e) ==
    /\ touched = {}
    /\ chain' = chain \ {e}
    /\ touched' = {e.sequence}
    /\ UNCHANGED <<clock, head, lock, tx, walk, pruned>>

-----------------------------------------------------------------------------
(* verify *)

Window(events, tail) == {e \in events : e.sequence > tail.sequence - Tail}

First(events) == CHOOSE e \in events : \A o \in events : e.sequence <= o.sequence
Last(events) == CHOOSE e \in events : \A o \in events : o.sequence <= e.sequence

Follows(e, before) ==
    /\ e.previous = before.entry_hash
    /\ before.at <= e.at

\* Slip: the links are walked and no hash is taken again.
IntactByLinks(events, tail, start, previous) ==
    /\ events # {}
    /\ First(events).sequence = start /\ First(events).previous = previous
    /\ \A e \in events :
          e.sequence # start => \E o \in events : o.sequence = e.sequence - 1 /\ Follows(e, o)
    /\ tail.sequence = Last(events).sequence /\ tail.entry_hash = Last(events).entry_hash
\* Every event from the one numbered start follows the one before it, hashes to
\* its own fields, and the head agrees with the last.
Intact(events, tail, start, previous) ==
    /\ events # {}
    /\ First(events).sequence = start /\ First(events).previous = previous
    /\ \A e \in events :
          /\ e.sequence # start => \E o \in events : o.sequence = e.sequence - 1 /\ Follows(e, o)
          /\ e.entry_hash = Hash(e.sequence, e.at, e.body, e.previous)
    /\ tail.sequence = Last(events).sequence /\ tail.entry_hash = Last(events).entry_hash

FullWalk(events, tail) == Intact(events, tail, 0, Genesis)
\* Slip: the tail is anchored like the whole trail.
TailWalkFromGenesis(events, tail) ==
    LET last == Window(events, tail) IN last # {} /\ Intact(last, tail, 0, Genesis)
\* The tail is anchored on what its first event says came before it.
TailWalk(events, tail) ==
    LET last == Window(events, tail)
    IN  last # {} /\ Intact(last, tail, First(last).sequence, First(last).previous)

\* posture.assemble: the head is one statement, the events another.
ReadHead ==
    /\ ~walk.open
    /\ walk' = [NoWalk EXCEPT !.open = TRUE, !.head = head]
    /\ UNCHANGED <<clock, chain, head, lock, tx, touched, pruned>>
ReadEvents ==
    /\ walk.open
    /\ walk' = [walk EXCEPT !.open = FALSE, !.intact = TailWalk(chain, walk.head),
                           !.raced = head # walk.head]
    /\ UNCHANGED <<clock, chain, head, lock, tx, touched, pruned>>

-----------------------------------------------------------------------------

Init ==
    /\ clock = 1 /\ chain = {} /\ head = Start /\ lock = Nobody
    /\ tx = [w \in Writers |-> NoTx] /\ walk = NoWalk
    /\ touched = {} /\ pruned = {}

Next ==
    \/ Tick \/ Prune \/ ReadHead \/ ReadEvents
    \/ \E w \in Writers : Begin(w) \/ Commit(w) \/ Rollback(w)
    \/ \E w \in Writers, body \in Bodies : Record(w, body)
    \/ \E e \in chain : Edit(e) \/ Delete(e)

Spec == Init /\ [][Next]_vars

-----------------------------------------------------------------------------
(* Properties *)

\* The head names a number no event exceeds, and the sequence column is unique.
TypeOK ==
    /\ clock \in 1..MaxClock /\ head.sequence \in -1..MaxEvents
    /\ lock \in Writers \cup {Nobody}
    /\ \A e \in chain :
          /\ e.sequence \in 0..head.sequence /\ e.at \in 1..clock
          /\ e.body \in Bodies \cup {"edited"}
          /\ \A o \in chain : e.sequence = o.sequence => e = o
    /\ touched \subseteq 0..MaxEvents /\ pruned \subseteq 0..MaxEvents

\* "A forked chain verifies as broken through nobody's fault": whatever the order
\* in which transactions append, commit and roll back, a trail nobody touched
\* verifies, the whole of it until retention first deletes and its tail as long
\* as retention has not come so far.
UntouchedVerifies ==
    (touched = {} /\ chain # {}) =>
        /\ pruned = {} => FullWalk(chain, head)
        /\ (\A n \in pruned : n <= head.sequence - Tail) => TailWalk(chain, head)

\* "An edit is provable": a full walk that finds the chain intact finds it
\* untouched, also after later events were appended to an edited one.
TouchIsFound == FullWalk(chain, head) => touched = {}

\* "A chain with three writers and no serialisation forks, and a forked chain
\* verifies as broken through nobody's fault": the check that gates the orders
\* finds a trail nobody touched intact, unless an event was committed between
\* its two statements.
NoFalseAlarm ==
    (touched = {} /\ pruned = {} /\ walk.head # Start) => walk.intact \/ walk.raced
=============================================================================
