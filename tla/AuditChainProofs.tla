-------------------------- MODULE AuditChainProofs --------------------------
(* Proofs about AuditChain, for any writers, bounds, retention and tail: an *)
(* untouched trail verifies, a walk that passes found nothing touched, and  *)
(* an alarm about an untouched trail was raced by an append.                *)
EXTENDS AuditChain, FiniteSetTheorems, WellFoundedInduction, TLAPS

(***************************************************************************)
(* The least of a set of numbers                                            *)
(***************************************************************************)

LEMMA Least ==
    ASSUME NEW S \in SUBSET Nat, S # {}
    PROVE  \E m \in S : \A n \in S : m <= n
<1> DEFINE Below == {0..n : n \in S}
<1>1. Below \subseteq FiniteSubsetsOf(Nat) /\ Below # {}
  <2>1. \A n \in S : 0..n \in SUBSET Nat /\ IsFiniteSet(0..n)
    BY FS_Interval
  <2> QED  BY <2>1 DEF FiniteSubsetsOf
<1>2. \E B \in Below : \A C \in Below : ~(<<C, B>> \in StrictSubsetOrdering(Nat))
  <2> HIDE DEF Below
  <2> QED  BY <1>1, FS_StrictSubsetOrderingWellFounded, WFMin
<1>3. PICK m \in S : \A n \in S : ~(<<0..n, 0..m>> \in StrictSubsetOrdering(Nat))
  BY <1>2
<1>4. ASSUME NEW n \in S, n < m
      PROVE  FALSE
  <2>1. 0..n \subseteq 0..m /\ 0..n # 0..m
    BY <1>4
  <2>2. <<0..n, 0..m>> \in (SUBSET Nat) \X (SUBSET Nat)
    OBVIOUS
  <2>3. <<0..n, 0..m>> \in StrictSubsetOrdering(Nat)
    <3> HIDE DEF StrictSubsetOrdering
    <3> DEFINE ss == <<0..n, 0..m>>
    <3>1. ss \in (SUBSET Nat) \X (SUBSET Nat) /\ ss[1] \subseteq ss[2] /\ ss[1] # ss[2]
      BY <2>1, <2>2
    <3> HIDE DEF ss
    <3>2. ss \in StrictSubsetOrdering(Nat)
      BY <3>1 DEF StrictSubsetOrdering
    <3> QED  BY <3>2 DEF ss
  <2> QED  BY <2>3, <1>3
<1> QED  BY <1>4

\* Numbers with an upper bound have a greatest one.
LEMMA Greatest ==
    ASSUME NEW S \in SUBSET Nat, S # {}, NEW b \in Nat, \A n \in S : n <= b
    PROVE  \E m \in S : \A n \in S : n <= m
<1> DEFINE T == {b - n : n \in S}
<1>1. T \in SUBSET Nat /\ T # {}
  <2>1. \A n \in S : b - n \in Nat
    OBVIOUS
  <2> QED  BY <2>1
<1>2. PICK t \in T : \A u \in T : t <= u
  <2> HIDE DEF T
  <2> QED  BY <1>1, Least
<1>3. PICK m \in S : t = b - m
  OBVIOUS
<1>4. \A n \in S : b - m <= b - n
  BY <1>2, <1>3
<1> QED  BY <1>4

(***************************************************************************)
(* The invariant                                                            *)
(***************************************************************************)

\* What the holder of the lock has chained and not committed, the head as it
\* sees it, and the trail as it would be committed.
Pending == IF lock = Nobody THEN {} ELSE tx[lock].rows
Tip == IF lock = Nobody THEN head ELSE tx[lock].head
Trail == chain \cup Pending

\* A row hashes to its own fields.
Hashes(e) == e.entry_hash = Hash(e.sequence, e.at, e.body, e.previous)

IsEvent(e) ==
    e = [sequence |-> e.sequence, previous |-> e.previous, at |-> e.at, body |-> e.body,
         entry_hash |-> e.entry_hash]

IsTransaction(t) == t = [open |-> t.open, made |-> t.made, rows |-> t.rows, head |-> t.head]

\* Only the holder of the lock has rows of its own.
Transactions ==
    /\ tx = [w \in Writers |-> tx[w]]
    /\ \A w \in Writers : IsTransaction(tx[w])
    /\ lock \in Writers \cup {Nobody}
    /\ \A w \in Writers : lock # w => tx[w].rows = {}
    /\ lock # Nobody => tx[lock].open /\ tx[lock].rows # {}

\* Every number up to the tip is an event's, or was taken by retention or by
\* hand; the committed events come before the pending ones.
Numbered ==
    /\ head.sequence \in Int /\ Tip.sequence \in Int
    /\ -1 <= head.sequence /\ head.sequence <= Tip.sequence /\ Tip.sequence <= MaxEvents
    /\ \A e \in chain : e.sequence \in 0..head.sequence
    /\ \A e \in Pending : e.sequence \in (head.sequence + 1)..Tip.sequence
    /\ touched \subseteq 0..head.sequence /\ pruned \subseteq 0..head.sequence
    /\ \A n \in 0..Tip.sequence :
          n \in touched \/ n \in pruned \/ \E e \in Trail : e.sequence = n
    /\ \A e \in Trail : e.sequence \notin pruned
    /\ \A e, o \in Trail : e.sequence = o.sequence => e = o

\* Every event follows the one before it, and its hash tells whether it was
\* touched.
Linked ==
    /\ clock \in 1..MaxClock
    /\ \A e \in Trail :
          /\ IsEvent(e) /\ e.at \in 1..clock /\ e.body \in Bodies \cup {"edited"}
          /\ e.body = "edited" => e.sequence \in touched
          /\ e.sequence = 0 => e.previous = Genesis
          /\ Hashes(e) <=> e.sequence \notin touched
          /\ e.sequence = head.sequence => e.entry_hash = head.entry_hash
          /\ e.sequence = Tip.sequence => e.entry_hash = Tip.entry_hash
    /\ \A e, o \in Trail : e.sequence = o.sequence + 1 => Follows(e, o)
    /\ head.sequence = -1 => head = Start
    /\ Tip.sequence = -1 => Tip = Start

Chained == Transactions /\ Numbered /\ Linked

LEMMA ChainedInit == Init /\ AuditAssumption => Chained
<1> SUFFICES ASSUME Init, AuditAssumption
             PROVE  Chained
  OBVIOUS
<1>1. Transactions
  BY DEF Init, Transactions, IsTransaction, NoTx
<1>2. Trail = {} /\ Pending = {} /\ Tip = Start /\ head = Start
  BY DEF Init, Trail, Pending, Tip
<1>3. Numbered
  BY <1>2 DEF Init, Numbered, Start, AuditAssumption
<1>4. Linked
  BY <1>2 DEF Init, Linked, Start, AuditAssumption
<1> QED  BY <1>1, <1>3, <1>4 DEF Chained

(***************************************************************************)
(* Its steps                                                                *)
(***************************************************************************)

\* The holder of the head appends to the trail, and takes the head with it.
LEMMA RecordExtends ==
    ASSUME AuditAssumption, Transactions, NEW w \in Writers, NEW body \in Bodies, Record(w, body)
    PROVE  /\ Transactions'
           /\ Tip.sequence < MaxEvents
           /\ Pending' = Pending \cup {Event(Tip, clock, body)}
           /\ Tip' = [sequence |-> Tip.sequence + 1,
                      entry_hash |-> Hash(Tip.sequence + 1, clock, body, Tip.entry_hash)]
           /\ UNCHANGED <<clock, chain, head, walk, touched, pruned>>
<1> DEFINE event == Event(HeadSeen(w), clock, body)
<1>1. /\ w # Nobody /\ lock \in {Nobody, w} /\ lock' = w /\ tx[w].open
      /\ HeadSeen(w).sequence < MaxEvents
      /\ UNCHANGED <<clock, chain, head, walk, touched, pruned>>
  BY DEF Record, AuditAssumption
<1>2. HeadSeen(w) = Tip
  BY <1>1 DEF HeadSeen, Tip
<1>3. Pending = tx[w].rows
  BY <1>1 DEF Pending, Transactions
<1>4. tx' = [tx EXCEPT ![w].rows = @ \cup {event},
                       ![w].head = [sequence |-> event.sequence, entry_hash |-> event.entry_hash]]
  BY DEF Record, Appended
<1>5. tx'[w] = [open |-> tx[w].open, made |-> tx[w].made, rows |-> tx[w].rows \cup {event},
                head |-> [sequence |-> event.sequence, entry_hash |-> event.entry_hash]]
  <2> HIDE DEF event
  <2>1. tx'[w] = [tx[w] EXCEPT !.rows = @ \cup {event},
                     !.head = [sequence |-> event.sequence, entry_hash |-> event.entry_hash]]
    BY <1>4 DEF Transactions
  <2>2. IsTransaction(tx[w])
    BY DEF Transactions
  <2> QED  BY <2>1, <2>2 DEF IsTransaction
<1>6. \A v \in Writers : v # w => tx'[v] = tx[v]
  <2> HIDE DEF event
  <2> QED  BY <1>4 DEF Transactions
<1>7. Transactions'
  <2> HIDE DEF event
  <2>1. tx' = [v \in Writers |-> IF v = w THEN tx'[w] ELSE tx[v]]
    BY <1>4 DEF Transactions
  <2>2. tx' = [v \in Writers |-> tx'[v]] /\ \A v \in Writers : IsTransaction(tx'[v])
    BY <2>1, <1>5, <1>6 DEF Transactions, IsTransaction
  <2>3. \A v \in Writers : lock' # v => tx'[v].rows = {}
    BY <1>1, <1>6 DEF Transactions
  <2> QED  BY <2>2, <2>3, <1>1, <1>5 DEF Transactions
<1>8. event.sequence = Tip.sequence + 1
      /\ event.entry_hash = Hash(Tip.sequence + 1, clock, body, Tip.entry_hash)
  BY <1>2 DEF Event
<1>9. Pending' = Pending \cup {event} /\ Tip' = [sequence |-> event.sequence, entry_hash |-> event.entry_hash]
  <2> HIDE DEF event
  <2> QED  BY <1>1, <1>3, <1>5 DEF Pending, Tip
<1> QED  BY <1>1, <1>2, <1>7, <1>8, <1>9

\* What is committed is what was chained, if anything was.
LEMMA CommitMoves ==
    ASSUME AuditAssumption, Transactions, NEW w \in Writers, Commit(w)
    PROVE  /\ Transactions'
           /\ UNCHANGED <<clock, walk, touched, pruned>>
           /\ \/ chain' = Trail /\ head' = Tip /\ lock' = Nobody
              \/ UNCHANGED <<chain, head, lock, Pending, Tip>>
<1>1. w # Nobody /\ tx' = [tx EXCEPT ![w] = NoTx]
  BY DEF Commit, AuditAssumption
<1>2. tx' = [v \in Writers |-> IF v = w THEN NoTx ELSE tx[v]]
  BY <1>1 DEF Transactions
<1>3. Transactions'
  <2>1. tx' = [v \in Writers |-> tx'[v]]
    BY <1>2
  <2>2. \A v \in Writers : IsTransaction(tx'[v])
    BY <1>2 DEF Transactions, IsTransaction, NoTx
  <2>3. lock' = IF lock = w THEN Nobody ELSE lock
    BY DEF Commit
  <2>4. lock' \in Writers \cup {Nobody} /\ \A v \in Writers : lock' # v => tx'[v].rows = {}
    BY <2>3, <1>2 DEF Transactions, NoTx
  <2>5. ASSUME lock' # Nobody
        PROVE  tx'[lock'].open /\ tx'[lock'].rows # {}
    BY <2>3, <2>5, <1>2 DEF Transactions
  <2> QED  BY <2>1, <2>2, <2>4, <2>5 DEF Transactions
<1>4. CASE lock = w
  BY <1>1, <1>3, <1>4 DEF Commit, Transactions, Trail, Pending, Tip
<1>5. CASE lock # w
  <2>1. chain' = chain /\ head' = head /\ lock' = lock
    BY <1>5 DEF Commit, Transactions
  <2>2. lock # Nobody => tx'[lock] = tx[lock]
    BY <1>2, <1>5 DEF Transactions
  <2> QED  BY <1>3, <2>1, <2>2 DEF Commit, Pending, Tip
<1> QED  BY <1>4, <1>5

\* What is rolled back is as if it had not been chained.
LEMMA RollbackLeaves ==
    ASSUME AuditAssumption, Transactions, NEW w \in Writers, Rollback(w)
    PROVE  /\ Transactions'
           /\ UNCHANGED <<clock, chain, head, walk, touched, pruned>>
           /\ \/ lock' = Nobody
              \/ UNCHANGED <<lock, Pending, Tip>>
<1>1. w # Nobody /\ tx' = [tx EXCEPT ![w] = NoTx]
  BY DEF Rollback, AuditAssumption
<1>2. tx' = [v \in Writers |-> IF v = w THEN NoTx ELSE tx[v]]
  BY <1>1 DEF Transactions
<1>3. Transactions'
  <2>1. tx' = [v \in Writers |-> tx'[v]]
    BY <1>2
  <2>2. \A v \in Writers : IsTransaction(tx'[v])
    BY <1>2 DEF Transactions, IsTransaction, NoTx
  <2>3. lock' = IF lock = w THEN Nobody ELSE lock
    BY DEF Rollback
  <2>4. lock' \in Writers \cup {Nobody} /\ \A v \in Writers : lock' # v => tx'[v].rows = {}
    BY <2>3, <1>2 DEF Transactions, NoTx
  <2>5. ASSUME lock' # Nobody
        PROVE  tx'[lock'].open /\ tx'[lock'].rows # {}
    BY <2>3, <2>5, <1>2 DEF Transactions
  <2> QED  BY <2>1, <2>2, <2>4, <2>5 DEF Transactions
<1>4. CASE lock = w
  BY <1>3, <1>4 DEF Rollback
<1>5. CASE lock # w
  <2>1. lock' = lock
    BY <1>5 DEF Rollback
  <2>2. lock # Nobody => tx'[lock] = tx[lock]
    BY <1>2, <1>5 DEF Transactions
  <2> QED  BY <1>3, <2>1, <2>2 DEF Rollback, Pending, Tip
<1> QED  BY <1>4, <1>5

LEMMA ChainedRecord ==
    ASSUME AuditAssumption, Chained, NEW w \in Writers, NEW body \in Bodies, Record(w, body)
    PROVE  Chained'
<1> DEFINE e == Event(Tip, clock, body)
<1>1. /\ Transactions'
      /\ Tip.sequence < MaxEvents
      /\ Pending' = Pending \cup {e}
      /\ Tip' = [sequence |-> Tip.sequence + 1,
                 entry_hash |-> Hash(Tip.sequence + 1, clock, body, Tip.entry_hash)]
      /\ UNCHANGED <<clock, chain, head, walk, touched, pruned>>
  BY RecordExtends DEF Chained
<1>2. Trail' = Trail \cup {e}
  <2> HIDE DEF e
  <2> QED  BY <1>1 DEF Trail
<1>3. /\ e.sequence = Tip.sequence + 1 /\ e.previous = Tip.entry_hash
      /\ e.at = clock /\ e.body = body /\ e.entry_hash = Tip'.entry_hash
      /\ Tip'.sequence = Tip.sequence + 1
      /\ IsEvent(e) /\ Hashes(e)
  BY <1>1 DEF Event, IsEvent, Hashes
<1> HIDE DEF e
<1>4. Numbered'
  <2>1. /\ head'.sequence \in Int /\ Tip'.sequence \in Int
        /\ -1 <= head'.sequence /\ head'.sequence <= Tip'.sequence /\ Tip'.sequence <= MaxEvents
    BY <1>1, <1>3 DEF Chained, Numbered, AuditAssumption
  <2>2. /\ \A x \in chain' : x.sequence \in 0..head'.sequence
        /\ \A x \in Pending' : x.sequence \in (head'.sequence + 1)..Tip'.sequence
    BY <1>1, <1>3 DEF Chained, Numbered
  <2>3. \A n \in 0..Tip'.sequence :
           n \in touched \/ n \in pruned \/ \E x \in Trail' : x.sequence = n
    BY <1>2, <1>3 DEF Chained, Numbered
  <2>4. \A x \in Trail : x.sequence <= Tip.sequence /\ x.sequence \in Int
    BY DEF Chained, Numbered, Trail
  <2>5. \A x, y \in Trail' : x.sequence = y.sequence => x = y
    BY <1>2, <1>3, <2>4 DEF Chained, Numbered
  <2>6. \A x \in Trail' : x.sequence \notin pruned
    BY <1>2, <1>3 DEF Chained, Numbered
  <2> QED  BY <1>1, <2>1, <2>2, <2>3, <2>5, <2>6 DEF Chained, Numbered
<1>5. Linked'
  <2>1. \A x \in Trail : x.sequence <= Tip.sequence /\ x.sequence \in Nat
    BY DEF Chained, Numbered, Trail
  <2>2. ASSUME NEW x \in Trail'
        PROVE  /\ IsEvent(x) /\ x.at \in 1..clock /\ x.body \in Bodies \cup {"edited"}
               /\ x.body = "edited" => x.sequence \in touched
               /\ x.sequence = 0 => x.previous = Genesis
               /\ Hashes(x) <=> x.sequence \notin touched
               /\ x.sequence = head.sequence => x.entry_hash = head.entry_hash
               /\ x.sequence = Tip'.sequence => x.entry_hash = Tip'.entry_hash
    <3>1. CASE x \in Trail
      <4>1. x.sequence # Tip'.sequence
        BY <1>3, <2>1, <3>1 DEF Chained, Numbered
      <4> QED  BY <3>1, <4>1 DEF Chained, Linked
    <3>2. CASE x = e
      <4>1. e.sequence # head.sequence /\ e.sequence \notin touched
        BY <1>3 DEF Chained, Numbered
      <4>2. e.sequence = 0 => e.previous = Genesis
        BY <1>3 DEF Chained, Numbered, Linked, Start
      <4>3. e.at \in 1..clock /\ e.body \in Bodies /\ e.body # "edited"
        BY <1>3 DEF Chained, Linked, Bodies
      <4> QED  BY <1>3, <3>2, <4>1, <4>2, <4>3
    <3> QED  BY <1>2, <3>1, <3>2
  <2>3. ASSUME NEW x \in Trail', NEW y \in Trail', x.sequence = y.sequence + 1
        PROVE  Follows(x, y)
    <3>1. CASE x \in Trail /\ y \in Trail
      BY <2>3, <3>1 DEF Chained, Linked
    <3>2. CASE x = e /\ y \in Trail
      <4>1. y.sequence = Tip.sequence
        BY <1>3, <2>1, <2>3, <3>2 DEF Chained, Numbered
      <4>2. y.entry_hash = Tip.entry_hash /\ y.at \in 1..clock
        BY <4>1, <3>2 DEF Chained, Linked
      <4> QED  BY <1>3, <3>2, <4>2 DEF Follows, Chained, Linked
    <3>3. CASE y = e
      BY <1>2, <1>3, <2>1, <2>3, <3>3 DEF Chained, Numbered
    <3> QED  BY <1>2, <3>1, <3>2, <3>3
  <2>4. Tip'.sequence # -1
    BY <1>3 DEF Chained, Numbered
  <2> QED  BY <1>1, <2>2, <2>3, <2>4 DEF Chained, Linked, Hashes, IsEvent, Follows
<1> QED  BY <1>1, <1>4, <1>5 DEF Chained

LEMMA ChainedCommit ==
    ASSUME AuditAssumption, Chained, NEW w \in Writers, Commit(w)
    PROVE  Chained'
<1>1. /\ Transactions'
      /\ UNCHANGED <<clock, walk, touched, pruned>>
      /\ \/ chain' = Trail /\ head' = Tip /\ lock' = Nobody
         \/ UNCHANGED <<chain, head, lock, Pending, Tip>>
  BY CommitMoves DEF Chained
<1>2. CASE chain' = Trail /\ head' = Tip /\ lock' = Nobody
  <2>1. Pending' = {} /\ Tip' = Tip /\ Trail' = Trail
    BY <1>2 DEF Pending, Tip, Trail
  <2>2. \A e \in Trail : e.sequence \in 0..Tip.sequence
    BY DEF Chained, Numbered, Trail
  <2>3. Numbered'
    BY <1>1, <1>2, <2>1, <2>2 DEF Chained, Numbered
  <2>4. Linked'
    BY <1>1, <1>2, <2>1 DEF Chained, Linked, Hashes, IsEvent, Follows
  <2> QED  BY <1>1, <2>3, <2>4 DEF Chained
<1>3. CASE UNCHANGED <<chain, head, lock, Pending, Tip>>
  <2>1. Trail' = Trail
    BY <1>3 DEF Trail
  <2>2. Numbered' /\ Linked'
    BY <1>1, <1>3, <2>1 DEF Chained, Numbered, Linked, Hashes, IsEvent, Follows
  <2> QED  BY <1>1, <2>2 DEF Chained
<1> QED  BY <1>1, <1>2, <1>3

LEMMA ChainedRollback ==
    ASSUME AuditAssumption, Chained, NEW w \in Writers, Rollback(w)
    PROVE  Chained'
<1>1. /\ Transactions'
      /\ UNCHANGED <<clock, chain, head, walk, touched, pruned>>
      /\ \/ lock' = Nobody
         \/ UNCHANGED <<lock, Pending, Tip>>
  BY RollbackLeaves DEF Chained
<1>2. CASE lock' = Nobody
  <2>1. Pending' = {} /\ Tip' = head /\ Trail' = chain
    BY <1>1, <1>2 DEF Pending, Tip, Trail
  <2>2. \A e \in Trail : e.sequence \in 0..head.sequence => e \in chain
    BY DEF Chained, Numbered, Trail
  <2>3. \A n \in 0..head.sequence :
           n \in touched \/ n \in pruned \/ \E e \in chain : e.sequence = n
    BY <2>2 DEF Chained, Numbered
  <2>4. Numbered'
    BY <1>1, <2>1, <2>3 DEF Chained, Numbered, Trail
  <2>5. Linked'
    BY <1>1, <2>1 DEF Chained, Linked, Trail, Hashes, IsEvent, Follows
  <2> QED  BY <1>1, <2>4, <2>5 DEF Chained
<1>3. CASE UNCHANGED <<lock, Pending, Tip>>
  <2>1. Trail' = Trail
    BY <1>1, <1>3 DEF Trail
  <2>2. Numbered' /\ Linked'
    BY <1>1, <1>3, <2>1 DEF Chained, Numbered, Linked, Hashes, IsEvent, Follows
  <2> QED  BY <1>1, <2>2 DEF Chained
<1> QED  BY <1>1, <1>2, <1>3

\* Retention, and whoever edits, leave the head and the pending rows alone.
LEMMA ByHand ==
    ASSUME Chained, UNCHANGED <<lock, tx, head>>
    PROVE  Transactions' /\ Pending' = Pending /\ Tip' = Tip
<1>1. Transactions'
  BY DEF Chained, Transactions, IsTransaction
<1> QED  BY <1>1 DEF Pending, Tip

LEMMA ChainedPrune ==
    ASSUME Chained, Prune
    PROVE  Chained'
<1> DEFINE old == {e \in chain : e.at < clock - Keep /\ e.body # "critical"}
<1>1. /\ old \subseteq chain /\ chain' = chain \ old
      /\ pruned' = pruned \cup {e.sequence : e \in old}
      /\ UNCHANGED <<clock, head, lock, tx, walk, touched>>
  BY DEF Prune
<1> HIDE DEF old
<1>2. Transactions' /\ Pending' = Pending /\ Tip' = Tip
  BY <1>1, ByHand
<1>3. Trail' = Trail \ old
  <2>1. old \cap Pending = {}
    BY <1>1 DEF Chained, Numbered
  <2> QED  BY <1>1, <1>2, <2>1 DEF Trail
<1>4. Numbered'
  <2>1. \A n \in 0..Tip.sequence :
           n \in touched \/ n \in pruned' \/ \E e \in Trail' : e.sequence = n
    BY <1>1, <1>3 DEF Chained, Numbered
  <2>2. \A e \in Trail' : e.sequence \notin pruned'
    BY <1>1, <1>3 DEF Chained, Numbered, Trail
  <2>3. pruned' \subseteq 0..head.sequence
    <3>1. \A e \in old : e.sequence \in 0..head.sequence
      BY <1>1 DEF Chained, Numbered
    <3>2. pruned \subseteq 0..head.sequence /\ head' = head
      BY <1>1 DEF Chained, Numbered
    <3> QED  BY <1>1, <3>1, <3>2
  <2>4. \A e, o \in Trail' : e.sequence = o.sequence => e = o
    BY <1>3 DEF Chained, Numbered
  <2> QED  BY <1>1, <1>2, <2>1, <2>2, <2>3, <2>4 DEF Chained, Numbered
<1>5. Linked'
  BY <1>1, <1>2, <1>3 DEF Chained, Linked, Hashes, IsEvent, Follows
<1> QED  BY <1>2, <1>4, <1>5 DEF Chained

LEMMA ChainedDelete ==
    ASSUME Chained, NEW d \in chain, Delete(d)
    PROVE  Chained'
<1>1. /\ touched = {} /\ chain' = chain \ {d} /\ touched' = {d.sequence}
      /\ UNCHANGED <<clock, head, lock, tx, walk, pruned>>
  BY DEF Delete
<1>2. Transactions' /\ Pending' = Pending /\ Tip' = Tip
  BY <1>1, ByHand
<1>3. Trail' = Trail \ {d} /\ d \in Trail
  <2>1. d \notin Pending
    BY DEF Chained, Numbered
  <2> QED  BY <1>1, <1>2, <2>1 DEF Trail
<1>4. \A e \in Trail' : e.sequence # d.sequence
  BY <1>3 DEF Chained, Numbered
<1>5. Numbered'
  <2>1. \A n \in 0..Tip.sequence :
           n \in touched' \/ n \in pruned \/ \E e \in Trail' : e.sequence = n
    BY <1>1, <1>3 DEF Chained, Numbered
  <2> QED  BY <1>1, <1>2, <1>3, <2>1 DEF Chained, Numbered
<1>6. Linked'
  BY <1>1, <1>2, <1>3, <1>4 DEF Chained, Linked, Hashes, IsEvent, Follows
<1> QED  BY <1>2, <1>5, <1>6 DEF Chained

\* An edited row keeps its place and its hash, which is no longer that of its
\* fields.
LEMMA ChainedEdit ==
    ASSUME Chained, NEW d \in chain, Edit(d)
    PROVE  Chained'
<1> DEFINE x == [d EXCEPT !.body = "edited"]
<1>1. /\ touched = {} /\ d.body # "edited"
      /\ chain' = (chain \ {d}) \cup {x} /\ touched' = {d.sequence}
      /\ UNCHANGED <<clock, head, lock, tx, walk, pruned>>
  BY DEF Edit
<1>2. Transactions' /\ Pending' = Pending /\ Tip' = Tip
  BY <1>1, ByHand
<1>3. d \in Trail /\ d \notin Pending /\ IsEvent(d) /\ Hashes(d)
  BY <1>1 DEF Chained, Numbered, Linked, Trail
<1>4. /\ x.sequence = d.sequence /\ x.previous = d.previous /\ x.at = d.at
      /\ x.body = "edited" /\ x.entry_hash = d.entry_hash /\ IsEvent(x)
  BY <1>3 DEF IsEvent
<1>5. ~Hashes(x)
  <2>1. d.entry_hash.body = d.body /\ Hash(x.sequence, x.at, x.body, x.previous).body = "edited"
    BY <1>3, <1>4 DEF Hashes, Hash
  <2> QED  BY <2>1, <1>1, <1>4 DEF Hashes
<1> HIDE DEF x
<1>6. Trail' = (Trail \ {d}) \cup {x}
  BY <1>1, <1>2, <1>3 DEF Trail
<1>7. \A e \in Trail : e # d => e.sequence # d.sequence
  BY <1>3 DEF Chained, Numbered
<1>8. Numbered'
  <2>1. \A n \in 0..Tip.sequence :
           n \in touched' \/ n \in pruned \/ \E e \in Trail' : e.sequence = n
    BY <1>1, <1>3, <1>4, <1>6 DEF Chained, Numbered
  <2>2. \A e \in Trail' : e.sequence \notin pruned
    BY <1>3, <1>4, <1>6 DEF Chained, Numbered
  <2>3. \A e, o \in Trail' : e.sequence = o.sequence => e = o
    BY <1>4, <1>6, <1>7 DEF Chained, Numbered
  <2>4. \A e \in chain' : e.sequence \in 0..head.sequence
    BY <1>1, <1>4 DEF Chained, Numbered
  <2>5. touched' \subseteq 0..head.sequence
    BY <1>1 DEF Chained, Numbered
  <2> QED  BY <1>1, <1>2, <2>1, <2>2, <2>3, <2>4, <2>5 DEF Chained, Numbered
<1>9. Linked'
  <2>1. ASSUME NEW e \in Trail'
        PROVE  /\ IsEvent(e) /\ e.at \in 1..clock /\ e.body \in Bodies \cup {"edited"}
               /\ e.body = "edited" => e.sequence \in touched'
               /\ e.sequence = 0 => e.previous = Genesis
               /\ Hashes(e) <=> e.sequence \notin touched'
               /\ e.sequence = head.sequence => e.entry_hash = head.entry_hash
               /\ e.sequence = Tip.sequence => e.entry_hash = Tip.entry_hash
    <3>1. CASE e = x
      BY <1>1, <1>3, <1>4, <1>5, <3>1 DEF Chained, Linked
    <3>2. CASE e \in Trail \ {d}
      BY <1>1, <1>7, <3>2 DEF Chained, Linked
    <3> QED  BY <1>6, <3>1, <3>2
  <2>2. ASSUME NEW e \in Trail', NEW o \in Trail', e.sequence = o.sequence + 1
        PROVE  Follows(e, o)
    <3> DEFINE was(y) == IF y = x THEN d ELSE y
    <3>1. /\ was(e) \in Trail /\ was(o) \in Trail
          /\ was(e).sequence = e.sequence /\ was(o).sequence = o.sequence
          /\ was(e).previous = e.previous /\ was(o).entry_hash = o.entry_hash
          /\ was(e).at = e.at /\ was(o).at = o.at
      BY <1>3, <1>4, <1>6
    <3> HIDE DEF was
    <3>2. Follows(was(e), was(o))
      BY <2>2, <3>1 DEF Chained, Linked
    <3> QED  BY <3>1, <3>2 DEF Follows
  <2> QED  BY <1>1, <1>2, <2>1, <2>2 DEF Chained, Linked, Hashes, IsEvent, Follows
<1> QED  BY <1>2, <1>8, <1>9 DEF Chained

\* The rest touches neither the events nor the head.
LEMMA ChainedElse ==
    ASSUME AuditAssumption, Chained,
           Tick \/ ReadHead \/ ReadEvents \/ (\E w \in Writers : Begin(w)) \/ UNCHANGED vars
    PROVE  Chained'
<1>1. UNCHANGED <<chain, head, lock, touched, pruned>>
  BY DEF Tick, ReadHead, ReadEvents, Begin, vars
<1>2. Transactions' /\ Pending' = Pending /\ Tip' = Tip
  <2>1. ASSUME NEW w \in Writers, Begin(w)
        PROVE  Transactions' /\ Pending' = Pending /\ Tip' = Tip
    <3>1. tx' = [v \in Writers |-> IF v = w THEN [NoTx EXCEPT !.open = TRUE, !.made = clock]
                                            ELSE tx[v]]
      BY <2>1 DEF Begin, Chained, Transactions
    <3>2. lock # w
      BY <2>1 DEF Begin, Chained, Transactions, AuditAssumption
    <3>3. \A v \in Writers : IsTransaction(tx'[v]) /\ (lock # v => tx'[v].rows = {})
      BY <3>1, <3>2 DEF Chained, Transactions, IsTransaction, NoTx
    <3>4. tx' = [v \in Writers |-> tx'[v]] /\ (lock # Nobody => tx'[lock] = tx[lock])
      BY <3>1, <3>2 DEF Chained, Transactions
    <3> QED  BY <1>1, <3>3, <3>4 DEF Chained, Transactions, Pending, Tip
  <2>2. CASE tx' = tx
    BY <1>1, <2>2, ByHand
  <2> QED  BY <2>1, <2>2 DEF Tick, ReadHead, ReadEvents, vars
<1>3. Trail' = Trail
  BY <1>1, <1>2 DEF Trail
<1>4. Numbered'
  BY <1>1, <1>2, <1>3 DEF Chained, Numbered
<1>5. clock \in Int /\ clock' \in Int /\ clock <= clock' /\ clock' \in 1..MaxClock
  BY DEF Chained, Linked, Tick, ReadHead, ReadEvents, Begin, vars, AuditAssumption
<1>6. Linked'
  BY <1>1, <1>2, <1>3, <1>5 DEF Chained, Linked, Hashes, IsEvent, Follows
<1> QED  BY <1>2, <1>4, <1>6 DEF Chained

LEMMA ChainedAlways == Spec => []Chained
<1> USE AuditAssumption
<1>1. Init => Chained
  BY ChainedInit
<1>2. Chained /\ [Next]_vars => Chained'
  BY ChainedRecord, ChainedCommit, ChainedRollback, ChainedPrune, ChainedEdit, ChainedDelete,
     ChainedElse DEF Next
<1> QED  BY <1>1, <1>2, PTL DEF Spec

(***************************************************************************)
(* The properties                                                           *)
(***************************************************************************)

\* The head names a number no event exceeds, and no two events have one number.
THEOREM Types == Spec => []TypeOK
<1>1. Chained => TypeOK
  <2> SUFFICES ASSUME Chained
               PROVE  TypeOK
    OBVIOUS
  <2>1. head.sequence \in -1..MaxEvents /\ clock \in 1..MaxClock /\ lock \in Writers \cup {Nobody}
    BY AuditAssumption DEF Chained, Transactions, Numbered, Linked
  <2>2. ASSUME NEW e \in chain
        PROVE  /\ e.sequence \in 0..head.sequence /\ e.at \in 1..clock
               /\ e.body \in Bodies \cup {"edited"}
               /\ \A o \in chain : e.sequence = o.sequence => e = o
    BY DEF Chained, Numbered, Linked, Trail
  <2>3. touched \subseteq 0..MaxEvents /\ pruned \subseteq 0..MaxEvents
    BY <2>1, AuditAssumption DEF Chained, Numbered
  <2> QED  BY <2>1, <2>2, <2>3 DEF TypeOK
<1> QED  BY <1>1, ChainedAlways, PTL

\* An event whose number is the smallest is the one CHOOSE picks.
LEMMA FirstIs ==
    ASSUME Chained, NEW events \in SUBSET chain, NEW f \in events,
           \A o \in events : f.sequence <= o.sequence
    PROVE  First(events) = f
<1>1. \A e \in events : e.sequence \in Int
  BY DEF Chained, Numbered
<1>2. \A e \in events : (\A o \in events : e.sequence <= o.sequence) => e = f
  BY <1>1 DEF Chained, Numbered, Trail
<1> QED  BY <1>2 DEF First

LEMMA LastIs ==
    ASSUME Chained, NEW events \in SUBSET chain, NEW l \in events,
           \A o \in events : o.sequence <= l.sequence
    PROVE  Last(events) = l
<1>1. \A e \in events : e.sequence \in Int
  BY DEF Chained, Numbered
<1>2. \A e \in events : (\A o \in events : o.sequence <= e.sequence) => e = l
  BY <1>1 DEF Chained, Numbered, Trail
<1> QED  BY <1>2 DEF Last

\* Of an untouched trail, every stretch up to the head of which nothing was
\* deleted is intact.
LEMMA StretchIsIntact ==
    ASSUME Chained, touched = {}, NEW from \in 0..head.sequence,
           \A n \in pruned : n < from
    PROVE  LET events == {e \in chain : from <= e.sequence}
           IN  /\ events # {}
               /\ First(events).sequence = from
               /\ from = 0 => First(events).previous = Genesis
               /\ Intact(events, head, from, First(events).previous)
<1> DEFINE events == {e \in chain : from <= e.sequence}
<1>1. \A n \in from..head.sequence : \E e \in events : e.sequence = n
  <2> SUFFICES ASSUME NEW n \in from..head.sequence
               PROVE  \E e \in events : e.sequence = n
    OBVIOUS
  <2>1. PICK e \in Trail : e.sequence = n
    BY DEF Chained, Numbered
  <2>2. e \in chain
    BY <2>1 DEF Chained, Numbered, Trail
  <2> QED  BY <2>1, <2>2
<1>2. \A e \in events : e \in chain /\ e \in Trail /\ e.sequence \in from..head.sequence
  BY DEF Chained, Numbered, Trail
<1>3. from \in Nat /\ head.sequence \in Int /\ from <= head.sequence
  BY DEF Chained, Numbered
<1> HIDE DEF events
<1>4. PICK f \in events : f.sequence = from
  BY <1>1, <1>3
<1>5. PICK l \in events : l.sequence = head.sequence
  BY <1>1, <1>3
<1>6. First(events) = f
  <2>1. \A o \in events : f.sequence <= o.sequence
    BY <1>2, <1>3, <1>4
  <2> QED  BY <1>2, <2>1, FirstIs
<1>7. Last(events) = l
  <2>1. \A o \in events : o.sequence <= l.sequence
    BY <1>2, <1>3, <1>5
  <2> QED  BY <1>2, <2>1, LastIs
<1>8. ASSUME NEW e \in events
      PROVE  /\ e.sequence # from => \E o \in events : o.sequence = e.sequence - 1 /\ Follows(e, o)
             /\ e.entry_hash = Hash(e.sequence, e.at, e.body, e.previous)
  <2>1. ASSUME e.sequence # from
        PROVE  \E o \in events : o.sequence = e.sequence - 1 /\ Follows(e, o)
    <3>1. e.sequence - 1 \in from..head.sequence
      BY <1>2, <1>3, <2>1
    <3>2. PICK o \in events : o.sequence = e.sequence - 1
      BY <1>1, <3>1
    <3>3. e.sequence = o.sequence + 1
      BY <1>2, <1>3, <3>2
    <3> QED  BY <1>2, <3>2, <3>3 DEF Chained, Linked
  <2>2. Hashes(e)
    BY <1>2 DEF Chained, Linked
  <2> QED  BY <2>1, <2>2 DEF Hashes
<1>9. l.entry_hash = head.entry_hash /\ (from = 0 => f.previous = Genesis)
  BY <1>2, <1>4, <1>5 DEF Chained, Linked
<1>10. Intact(events, head, from, First(events).previous)
  BY <1>4, <1>5, <1>6, <1>7, <1>8, <1>9 DEF Intact
<1> QED  BY <1>4, <1>6, <1>9, <1>10 DEF events

LEMMA ChainedVerifies == Chained /\ AuditAssumption => UntouchedVerifies
<1> SUFFICES ASSUME Chained, AuditAssumption, touched = {}, chain # {}
             PROVE  /\ pruned = {} => FullWalk(chain, head)
                    /\ (\A n \in pruned : n <= head.sequence - Tail) => TailWalk(chain, head)
  BY DEF UntouchedVerifies
<1>1. head.sequence \in Nat /\ \A e \in chain : e.sequence \in 0..head.sequence
  BY DEF Chained, Numbered
<1>2. ASSUME pruned = {}
      PROVE  FullWalk(chain, head)
  <2>1. {e \in chain : 0 <= e.sequence} = chain
    BY <1>1
  <2> QED  BY <1>1, <1>2, <2>1, StretchIsIntact DEF FullWalk
<1>3. ASSUME \A n \in pruned : n <= head.sequence - Tail
      PROVE  TailWalk(chain, head)
  <2> DEFINE from == IF Tail <= head.sequence THEN head.sequence - Tail + 1 ELSE 0
  <2>1. from \in 0..head.sequence /\ \A n \in pruned : n < from
    BY <1>1, <1>3 DEF AuditAssumption, Chained, Numbered
  <2>2. Window(chain, head) = {e \in chain : from <= e.sequence}
    BY <1>1 DEF Window, AuditAssumption
  <2> HIDE DEF from
  <2> QED  BY <2>1, <2>2, StretchIsIntact DEF TailWalk
<1> QED  BY <1>2, <1>3

\* A trail nobody touched verifies, whatever the order in which its writers
\* appended, committed and rolled back.
THEOREM Verifies == Spec => []UntouchedVerifies
<1>1. Chained => UntouchedVerifies
  BY ChainedVerifies, AuditAssumption
<1> QED  BY <1>1, ChainedAlways, PTL

\* Nothing is missing below an event of an intact trail: its least event above a
\* gap has no predecessor.
LEMMA IntactHasAll ==
    ASSUME Chained, FullWalk(chain, head), NEW s \in 0..head.sequence
    PROVE  \E e \in chain : e.sequence = s
<1>1. \A e \in chain : e.sequence \in Nat /\ e.sequence <= head.sequence
  BY DEF Chained, Numbered
<1>2. head.sequence \in Nat
  BY DEF Chained, Numbered
<1>3. \E e \in chain : e.sequence = head.sequence
  <2> DEFINE S == {e.sequence : e \in chain}
  <2>1. S \in SUBSET Nat /\ S # {} /\ \A n \in S : n <= head.sequence
    BY <1>1 DEF FullWalk, Intact
  <2> HIDE DEF S
  <2>2. PICK m \in S : \A n \in S : n <= m
    BY <1>2, <2>1, Greatest
  <2>3. PICK l \in chain : l.sequence = m
    BY DEF S
  <2>4. \A o \in chain : o.sequence <= l.sequence
    BY <2>2, <2>3 DEF S
  <2>5. Last(chain) = l
    BY <2>4, LastIs
  <2> QED  BY <2>5 DEF FullWalk, Intact
<1> SUFFICES ASSUME \A e \in chain : e.sequence # s
             PROVE  FALSE
  OBVIOUS
<1> DEFINE Above == {n \in Nat : s < n /\ \E e \in chain : e.sequence = n}
<1>4. Above \in SUBSET Nat /\ Above # {}
  BY <1>1, <1>2, <1>3
<1>5. PICK m \in Above : \A n \in Above : m <= n
  <2> HIDE DEF Above
  <2> QED  BY <1>4, Least
<1>6. PICK e \in chain : e.sequence = m /\ s < m /\ m \in Nat
  BY <1>5
<1>7. m # 0
  BY <1>6
<1>8. PICK o \in chain : o.sequence = m - 1
  BY <1>6, <1>7 DEF FullWalk, Intact
<1>9. m - 1 \in Above
  BY <1>1, <1>6, <1>8
<1> QED  BY <1>5, <1>6, <1>9

LEMMA ChainedFinds == Chained => TouchIsFound
<1> SUFFICES ASSUME Chained, FullWalk(chain, head), NEW s \in touched
             PROVE  FALSE
  BY DEF TouchIsFound
<1>1. s \in 0..head.sequence
  BY DEF Chained, Numbered
<1>2. PICK e \in chain : e.sequence = s
  BY <1>1, IntactHasAll
<1>3. ~Hashes(e)
  BY <1>2 DEF Chained, Linked, Trail
<1> QED  BY <1>3 DEF FullWalk, Intact, Hashes

\* A full walk that passes found a trail nobody edited and nobody deleted from.
THEOREM TouchesAreFound == Spec => []TouchIsFound
<1> QED  BY ChainedFinds, ChainedAlways, PTL

\* While a walk is between its statements it has said nothing.
WalkIsFair ==
    /\ NoFalseAlarm
    /\ walk.open => walk.intact
    /\ walk = [open |-> walk.open, head |-> walk.head, intact |-> walk.intact,
               raced |-> walk.raced]

LEMMA WalkInit == Init => WalkIsFair
  BY DEF Init, WalkIsFair, NoFalseAlarm, NoWalk

LEMMA WalkStep ==
    ASSUME AuditAssumption, Chained, UntouchedVerifies, WalkIsFair, [Next]_vars
    PROVE  WalkIsFair'
<1>1. CASE ReadHead
  <2>1. walk' = [open |-> TRUE, head |-> head, intact |-> TRUE, raced |-> FALSE]
    BY <1>1 DEF ReadHead, NoWalk
  <2> QED  BY <2>1 DEF WalkIsFair, NoFalseAlarm
<1>2. CASE ReadEvents
  <2>1. walk' = [open |-> FALSE, head |-> walk.head, intact |-> TailWalk(chain, walk.head),
                 raced |-> head # walk.head]
    BY <1>2 DEF ReadEvents, WalkIsFair
  <2>2. UNCHANGED <<touched, pruned>>
    BY <1>2 DEF ReadEvents
  <2>3. ASSUME touched = {}, pruned = {}, head # Start
        PROVE  TailWalk(chain, head)
    <3>1. 0 \in 0..head.sequence /\ 0 \in 0..Tip.sequence
      BY <2>3 DEF Chained, Numbered, Linked
    <3>2. PICK e \in Trail : e.sequence = 0
      BY <2>3, <3>1 DEF Chained, Numbered
    <3>3. e \in chain
      BY <3>1, <3>2 DEF Chained, Numbered, Trail
    <3> QED  BY <2>3, <3>3 DEF UntouchedVerifies
  <2>4. NoFalseAlarm'
    <3>1. CASE head = walk.head
      BY <2>1, <2>2, <2>3, <3>1 DEF NoFalseAlarm
    <3>2. CASE head # walk.head
      BY <2>1, <3>2 DEF NoFalseAlarm
    <3> QED  BY <3>1, <3>2
  <2> QED  BY <2>1, <2>4 DEF WalkIsFair
<1>3. ASSUME walk' = walk, touched' = {} => touched = {}, pruned' = {} => pruned = {}
      PROVE  WalkIsFair'
  BY <1>3 DEF WalkIsFair, NoFalseAlarm
<1>4. CASE Tick \/ Prune
  <2>1. walk' = walk /\ touched' = touched /\ (pruned' = {} => pruned = {})
    BY <1>4 DEF Tick, Prune
  <2> QED  BY <1>3, <2>1
<1>5. CASE \E e \in chain : Edit(e) \/ Delete(e)
  <2>1. walk' = walk /\ touched' # {} /\ pruned' = pruned
    BY <1>5 DEF Edit, Delete
  <2> QED  BY <1>3, <2>1
<1>6. CASE \/ \E w \in Writers : Begin(w) \/ Commit(w) \/ Rollback(w)
           \/ \E w \in Writers, body \in Bodies : Record(w, body)
  <2>1. UNCHANGED <<walk, touched, pruned>>
    BY <1>6 DEF Begin, Commit, Rollback, Record
  <2> QED  BY <1>3, <2>1
<1>7. CASE UNCHANGED vars
  BY <1>3, <1>7 DEF vars
<1> QED  BY <1>1, <1>2, <1>4, <1>5, <1>6, <1>7 DEF Next

\* A walk that finds a trail nobody touched broken was raced by a commit between
\* its two statements.
THEOREM AlarmsAreRaced == Spec => []NoFalseAlarm
<1>1. WalkIsFair => NoFalseAlarm
  BY DEF WalkIsFair
<1>2. AuditAssumption /\ Chained /\ UntouchedVerifies /\ WalkIsFair /\ [Next]_vars => WalkIsFair'
  BY WalkStep
<1> QED  BY <1>1, <1>2, WalkInit, AuditAssumption, ChainedAlways, Verifies, PTL DEF Spec
=============================================================================
