-------------------------- MODULE IngestionProofs --------------------------
(* Proofs about Ingestion, for any passes, bars, widths and windows: what   *)
(* overlapping passes store of a bar is in the order it was learnt, what is *)
(* read as of a settled moment stays, and a pass that commits is stored.    *)
EXTENDS Ingestion, FiniteSetTheorems, WellFoundedInduction, TLAPS

(***************************************************************************)
(* The greatest of a set of numbers                                         *)
(***************************************************************************)

\* A strictly increasing chain of sets of numbers below a bound ends.
LEMMA Greatest ==
    ASSUME NEW S \in SUBSET Nat, S # {}, NEW b \in Nat, \A n \in S : n <= b
    PROVE  \E m \in S : \A n \in S : n <= m
<1> DEFINE Above == {n..b : n \in S}
<1>1. Above \subseteq FiniteSubsetsOf(Nat) /\ Above # {}
  <2>1. \A n \in S : n..b \in SUBSET Nat /\ IsFiniteSet(n..b)
    BY FS_Interval
  <2> QED  BY <2>1 DEF FiniteSubsetsOf
<1>2. \E B \in Above : \A C \in Above : ~(<<C, B>> \in StrictSubsetOrdering(Nat))
  <2> HIDE DEF Above
  <2> QED  BY <1>1, FS_StrictSubsetOrderingWellFounded, WFMin
<1>3. PICK m \in S : \A n \in S : ~(<<n..b, m..b>> \in StrictSubsetOrdering(Nat))
  BY <1>2
<1>4. ASSUME NEW n \in S, m < n
      PROVE  FALSE
  <2>1. n..b \subseteq m..b /\ m \in m..b /\ m \notin n..b
    BY <1>4
  <2> DEFINE ss == <<n..b, m..b>>
  <2>2. ss \in (SUBSET Nat) \X (SUBSET Nat) /\ ss[1] \subseteq ss[2] /\ ss[1] # ss[2]
    BY <2>1
  <2> HIDE DEF ss
  <2>3. ss \in StrictSubsetOrdering(Nat)
    BY <2>2 DEF StrictSubsetOrdering
  <2> QED  BY <1>3, <2>3 DEF ss
<1> QED  BY <1>4

LEMMA MaxIs ==
    ASSUME NEW S \in SUBSET Nat, S # {}, NEW b \in Nat, \A n \in S : n <= b
    PROVE  Max(S) \in S /\ \A n \in S : n <= Max(S)
<1>1. PICK m \in S : \A n \in S : n <= m
  BY Greatest
<1> QED  BY <1>1 DEF Max

LEMMA OfTwo ==
    ASSUME NEW a \in Int, NEW b \in Int
    PROVE  /\ Min({a, b}) \in Int /\ Min({a, b}) <= a /\ Min({a, b}) <= b
           /\ Max({a, b}) \in Int /\ a <= Max({a, b}) /\ b <= Max({a, b})
<1>1. \E x \in {a, b} : \A y \in {a, b} : x <= y
  OBVIOUS
<1>2. \E x \in {a, b} : \A y \in {a, b} : x >= y
  OBVIOUS
<1>3. Min({a, b}) \in {a, b} /\ \A y \in {a, b} : Min({a, b}) <= y
  BY <1>1 DEF Min
<1>4. Max({a, b}) \in {a, b} /\ \A y \in {a, b} : Max({a, b}) >= y
  BY <1>2 DEF Max
<1> QED  BY <1>3, <1>4

(***************************************************************************)
(* The invariant                                                            *)
(***************************************************************************)

\* What a pass sees stored: what is committed and what it has inserted.
Stored(p) == bars \cup pass[p].rows

IsNewest(r, R) == r \in R /\ \A o \in R : o.rev <= r.rev

\* The revisions of a bar are numbered in the order in which they were learnt,
\* and each says something newer than the one before it.
Ordered(R) ==
    /\ \A r \in R : r \in Rows /\ r.rev <= r.val /\ r.val <= said[r.at]
    /\ \A r, o \in R : r.at = o.at =>
          /\ r.rev = o.rev => r = o
          /\ r.rev < o.rev => r.known <= o.known /\ r.val < o.val

IsPass(s) ==
    s = [pc |-> s.pc, now |-> s.now, seen |-> s.seen, cursor |-> s.cursor, tries |-> s.tries,
         known |-> s.known, moved |-> s.moved, rows |-> s.rows, told |-> s.told, calm |-> s.calm]

PassType(s) ==
    /\ s.pc \in {"idle", "waiting", "chunks", "end"}
    /\ s.now \in Times /\ s.known \in Times
    /\ s.cursor \in Int /\ s.tries \in 0..MaxRetries
    /\ s.seen \in 0..LastBar /\ s.moved \in 0..LastBar

\* The clock, and the passes of which one at most is in flight: the one that
\* holds the chain.
Held ==
    /\ clock \in Times /\ said \in [Bars -> 0..MaxSaid] /\ mark \in 0..LastBar
    /\ lock \in Passes \cup {Nobody}
    /\ pass = [p \in Passes |-> pass[p]]
    /\ \A p \in Passes : IsPass(pass[p]) /\ PassType(pass[p])
    /\ \A p \in Passes : p \in InFlight <=> lock = p
    /\ \A p \in Passes : p \notin InFlight => pass[p].rows = {} /\ pass[p].told = {}

\* What is committed was learnt by now, and before any pass in flight began;
\* what a pass inserts is learnt at its beginning.
Learnt ==
    /\ \A r \in bars : r.known <= clock
    /\ \A p \in InFlight :
          /\ pass[p].known <= clock
          /\ \A r \in bars : r.known <= pass[p].known
          /\ \A r \in pass[p].rows : r.known = pass[p].known

\* What a pass was told of a bar it is through with is the newest it sees stored.
Told(p) ==
    \A a \in pass[p].told :
        /\ a[1] \in Bars /\ Opens(a[1]) < pass[p].cursor
        /\ \E r \in RowsOf(Stored(p), a[1]) : IsNewest(r, RowsOf(Stored(p), a[1])) /\ r.val = a[2]

Collected ==
    /\ Held /\ Learnt
    /\ Ordered(bars)
    /\ \A p \in Passes : Ordered(Stored(p)) /\ Told(p)

LEMMA CollectedInit == Init /\ IngestionAssumption => Collected
<1> SUFFICES ASSUME Init, IngestionAssumption
             PROVE  Collected
  OBVIOUS
<1>1. Held
  BY DEF Init, IngestionAssumption, Held, Idle, IsPass, PassType, InFlight, Times
<1>2. Learnt
  BY DEF Init, Learnt, Idle, InFlight
<1>3. Ordered(bars) /\ \A p \in Passes : Ordered(Stored(p)) /\ Told(p)
  BY DEF Init, Ordered, Stored, Told, Idle
<1> QED  BY <1>1, <1>2, <1>3 DEF Collected

(***************************************************************************)
(* The newest revision                                                      *)
(***************************************************************************)

LEMMA NewestExists ==
    ASSUME IngestionAssumption, NEW R \in SUBSET Rows, R # {}
    PROVE  \E r \in R : IsNewest(r, R)
<1> DEFINE S == {r.rev : r \in R}
<1>1. S \in SUBSET Nat /\ S # {} /\ MaxSaid \in Nat /\ \A n \in S : n <= MaxSaid
  BY DEF Rows, IngestionAssumption
<1> HIDE DEF S
<1>2. PICK m \in S : \A n \in S : n <= m
  BY <1>1, Greatest
<1> QED  BY <1>2 DEF S, IsNewest

LEMMA NewestIs ==
    ASSUME NEW R, Ordered(R), NEW t, NEW r, IsNewest(r, RowsOf(R, t))
    PROVE  Newest(RowsOf(R, t)) = r
<1>1. \A o \in RowsOf(R, t) : o.rev \in Int
  BY DEF Ordered, Rows, RowsOf
<1>2. \A q \in RowsOf(R, t) : (\A o \in RowsOf(R, t) : o.rev <= q.rev) => q = r
  BY <1>1 DEF Ordered, RowsOf, IsNewest
<1> QED  BY <1>2 DEF Newest, IsNewest

(***************************************************************************)
(* The answer to a request                                                  *)
(***************************************************************************)

StoredAt(p, t) == RowsOf(Stored(p), t)
Changed(p) ==
    {t \in InChunk(p) : StoredAt(p, t) = {} \/ Newest(StoredAt(p, t)).val # said[t]}
NextRev(p, t) == IF StoredAt(p, t) = {} THEN 1 ELSE Newest(StoredAt(p, t)).rev + 1
RowFor(p, t) == [at |-> t, rev |-> NextRev(p, t), val |-> said[t], known |-> pass[p].known]

LEMMA NewRowsAre ==
    ASSUME NEW p
    PROVE  NewRows(p) = {RowFor(p, t) : t \in Changed(p)}
  BY DEF NewRows, RowFor, NextRev, Changed, StoredAt, Stored

\* A row of an answer is the newest of its bar, and says the newest of it.
LEMMA RowIsNewest ==
    ASSUME IngestionAssumption, Collected, NEW p \in Passes, NEW t \in Changed(p)
    PROVE  /\ RowFor(p, t) \in Rows /\ RowFor(p, t).rev <= said[t]
           /\ \A o \in StoredAt(p, t) : o.rev < NextRev(p, t) /\ o.val < said[t]
<1>1. t \in Bars /\ said[t] \in 1..MaxSaid /\ pass[p].known \in Times
  BY DEF Changed, InChunk, Collected, Held, PassType
<1>2. Ordered(Stored(p)) /\ StoredAt(p, t) \in SUBSET Rows
  BY DEF Collected, Ordered, StoredAt, RowsOf
<1>3. CASE StoredAt(p, t) = {}
  BY <1>1, <1>3 DEF RowFor, NextRev, Rows
<1>4. CASE StoredAt(p, t) # {}
  <2>1. PICK r \in StoredAt(p, t) : IsNewest(r, StoredAt(p, t))
    BY <1>2, <1>4, NewestExists
  <2>2. Newest(StoredAt(p, t)) = r
    BY <1>2, <2>1, NewestIs DEF StoredAt
  <2>3. r.val # said[t] /\ NextRev(p, t) = r.rev + 1
    BY <1>4, <2>2 DEF Changed, NextRev
  <2>4. r \in Rows /\ r.rev <= r.val /\ r.val <= said[t] /\ r.at = t
    BY <1>2, <2>1 DEF Ordered, StoredAt, RowsOf
  <2>5. r.rev \in 1..MaxSaid /\ r.val \in 1..MaxSaid
    BY <2>4 DEF Rows
  <2>6. NextRev(p, t) \in 1..MaxSaid /\ NextRev(p, t) <= said[t]
    BY <1>1, <2>3, <2>4, <2>5, IngestionAssumption DEF IngestionAssumption
  <2>7. ASSUME NEW o \in StoredAt(p, t)
        PROVE  o.rev < NextRev(p, t) /\ o.val < said[t]
    <3>1. o \in Rows /\ o.at = t /\ o.rev <= r.rev
      BY <1>2, <2>1 DEF StoredAt, RowsOf, IsNewest
    <3>2. o.rev \in Int /\ o.val \in Int
      BY <3>1 DEF Rows
    <3>3. o = r \/ o.val < r.val
      BY <1>2, <2>4, <2>5, <3>1, <3>2 DEF Ordered, StoredAt, RowsOf
    <3> QED  BY <1>1, <2>3, <2>4, <2>5, <3>1, <3>2, <3>3
  <2> QED  BY <1>1, <2>6, <2>7 DEF RowFor, Rows
<1> QED  BY <1>3, <1>4

\* What a fetch leaves stored, for the pass that makes it.
LEMMA FetchStores ==
    ASSUME IngestionAssumption, Collected, NEW p \in Passes, FetchChunk(p)
    PROVE  Stored(p)' = Stored(p) \cup {RowFor(p, t) : t \in Changed(p)}
<1>1. bars' = bars /\ pass'[p].rows = pass[p].rows \cup NewRows(p)
  BY DEF FetchChunk, Collected, Held, IsPass
<1> QED  BY <1>1, NewRowsAre DEF Stored

LEMMA FetchOrdered ==
    ASSUME IngestionAssumption, Collected, NEW p \in Passes, FetchChunk(p)
    PROVE  Ordered(Stored(p))'
<1> DEFINE R == Stored(p)
           N == {RowFor(p, t) : t \in Changed(p)}
<1>1. Stored(p)' = R \cup N /\ said' = said
  BY FetchStores DEF FetchChunk
<1>2. Ordered(R) /\ \A r \in R : r.known <= pass[p].known
  <2>1. p \in InFlight /\ pass[p].known \in Int
    BY DEF FetchChunk, InFlight, Collected, Held, PassType, Times
  <2> QED  BY <2>1 DEF Collected, Learnt, Stored
<1>3. ASSUME NEW n \in N
      PROVE  /\ n \in Rows /\ n.rev <= n.val /\ n.val <= said[n.at] /\ n.known = pass[p].known
             /\ \A o \in R : o.at = n.at => o.rev < n.rev /\ o.val < n.val
             /\ \A o \in N : o.at = n.at => o = n
  <2>1. PICK t \in Changed(p) : n = RowFor(p, t)
    OBVIOUS
  <2>2. n.at = t /\ n.val = said[t] /\ n.rev = NextRev(p, t) /\ n.known = pass[p].known
    BY <2>1 DEF RowFor
  <2>3. \A o \in R : o.at = t => o \in StoredAt(p, t)
    BY DEF StoredAt, RowsOf
  <2>4. \A o \in N : o.at = t => o = n
    BY <2>1 DEF RowFor
  <2>5. said[t] \in Int
    BY DEF Changed, InChunk, Collected, Held
  <2> QED  BY <2>1, <2>2, <2>3, <2>4, <2>5, RowIsNewest
<1> HIDE DEF R, N
<1>4. \A r \in R \cup N : r \in Rows /\ r.rev <= r.val /\ r.val <= said[r.at]
  BY <1>2, <1>3 DEF Ordered
<1>5. ASSUME NEW r \in R \cup N, NEW o \in R \cup N, r.at = o.at
      PROVE  /\ r.rev = o.rev => r = o
             /\ r.rev < o.rev => r.known <= o.known /\ r.val < o.val
  <2>1. /\ r.rev \in Int /\ o.rev \in Int /\ r.known \in Int /\ o.known \in Int
    BY <1>4 DEF Rows, Times
  <2>2. CASE r \in R /\ o \in R
    BY <1>2, <1>5, <2>2 DEF Ordered
  <2>3. CASE r \in R /\ o \in N
    BY <1>2, <1>3, <1>5, <2>1, <2>3
  <2>4. CASE r \in N /\ o \in R
    BY <1>3, <1>5, <2>1, <2>4
  <2>5. CASE r \in N /\ o \in N
    BY <1>3, <1>5, <2>1, <2>5
  <2> QED  BY <2>2, <2>3, <2>4, <2>5
<1> QED  BY <1>1, <1>4, <1>5 DEF Ordered

\* The cursor is past every bar of an answer.
LEMMA CursorPasses ==
    ASSUME IngestionAssumption, Collected, NEW p \in Passes, FetchChunk(p)
    PROVE  /\ pass'[p].cursor \in Int /\ pass[p].cursor <= pass'[p].cursor
           /\ \A t \in InChunk(p) : /\ t \in Bars /\ said[t] # 0 /\ Opens(t) \in Int
                                    /\ pass[p].cursor <= Opens(t) /\ Opens(t) < pass'[p].cursor
<1>1. pass[p].cursor \in Int /\ pass[p].now \in Int /\ ChunkBars * Width \in Nat
  BY DEF Collected, Held, PassType, Times, IngestionAssumption
<1>2. pass'[p].cursor = pass[p].cursor + ChunkBars * Width
  BY DEF FetchChunk, Collected, Held, IsPass
<1>3. ChunkEnd(p) \in Int /\ ChunkEnd(p) <= pass'[p].cursor
  <2> DEFINE width == ChunkBars * Width
  <2>1. width \in Nat /\ pass'[p].cursor = pass[p].cursor + width
        /\ ChunkEnd(p) = Min({pass[p].cursor + width, pass[p].now})
    BY <1>1, <1>2 DEF ChunkEnd
  <2> HIDE DEF width
  <2>2. pass[p].cursor + width \in Int
    BY <1>1, <2>1
  <2> QED  BY <1>1, <2>1, <2>2, OfTwo
<1>4. \A t \in Bars : Opens(t) \in Int
  BY DEF Opens, Bars, IngestionAssumption
<1>5. pass'[p].cursor \in Int /\ pass[p].cursor <= pass'[p].cursor
  BY <1>1, <1>2
<1>6. ASSUME NEW t \in InChunk(p)
      PROVE  /\ t \in Bars /\ said[t] # 0 /\ Opens(t) \in Int
             /\ pass[p].cursor <= Opens(t) /\ Opens(t) < pass'[p].cursor
  BY <1>3, <1>4, <1>5 DEF InChunk
<1> QED  BY <1>5, <1>6

LEMMA FetchTold ==
    ASSUME IngestionAssumption, Collected, NEW p \in Passes, FetchChunk(p)
    PROVE  Told(p)'
<1> SUFFICES ASSUME NEW a \in pass'[p].told
             PROVE  /\ a[1] \in Bars /\ Opens(a[1]) < pass'[p].cursor
                    /\ \E r \in RowsOf(Stored(p)', a[1]) :
                          IsNewest(r, RowsOf(Stored(p)', a[1])) /\ r.val = a[2]
  BY DEF Told, Stored, RowsOf, IsNewest, Opens
<1>1. pass'[p].told = pass[p].told \cup {<<t, said[t]>> : t \in InChunk(p)}
  BY DEF FetchChunk, Collected, Held, IsPass
<1>2. \A t \in Bars : Opens(t) \in Int
  BY DEF Opens, Bars, IngestionAssumption
<1>3. /\ Stored(p)' = Stored(p) \cup {RowFor(p, t) : t \in Changed(p)}
      /\ \A t \in Changed(p) : t \in InChunk(p) /\ RowFor(p, t).at = t
  BY FetchStores DEF Changed, RowFor
<1>4. CASE a \in pass[p].told
  <2>1. /\ a[1] \in Bars /\ Opens(a[1]) < pass[p].cursor
        /\ \E r \in RowsOf(Stored(p), a[1]) :
              IsNewest(r, RowsOf(Stored(p), a[1])) /\ r.val = a[2]
    BY <1>4 DEF Collected, Told
  <2>2. pass[p].cursor \in Int
    BY DEF Collected, Held, PassType
  <2>3. a[1] \notin Changed(p)
    BY <1>2, <1>3, <2>1, <2>2, CursorPasses
  <2>4. RowsOf(Stored(p)', a[1]) = RowsOf(Stored(p), a[1])
    BY <1>3, <2>3 DEF RowsOf
  <2> QED  BY <1>2, <2>1, <2>2, <2>4, CursorPasses
<1>5. CASE \E t \in InChunk(p) : a = <<t, said[t]>>
  <2>1. PICK t \in InChunk(p) : a = <<t, said[t]>>
    BY <1>5
  <2>2. a[1] = t /\ a[2] = said[t] /\ t \in Bars /\ Opens(t) < pass'[p].cursor /\ said[t] # 0
    BY <2>1, CursorPasses
  <2>3. CASE t \in Changed(p)
    <3>1. RowsOf(Stored(p)', t) = StoredAt(p, t) \cup {RowFor(p, t)}
      BY <1>3, <2>3 DEF RowsOf, StoredAt, RowFor
    <3>2. \A o \in StoredAt(p, t) : o.rev < NextRev(p, t) /\ o.rev \in Int
      BY <2>3, RowIsNewest DEF Collected, Ordered, StoredAt, RowsOf, Rows
    <3>3. RowFor(p, t).rev = NextRev(p, t) /\ RowFor(p, t).val = said[t]
      BY DEF RowFor
    <3>4. NextRev(p, t) \in Int
      BY <2>3, <3>3, RowIsNewest DEF Rows
    <3>5. IsNewest(RowFor(p, t), RowsOf(Stored(p)', t))
      BY <3>1, <3>2, <3>3, <3>4 DEF IsNewest
    <3> QED  BY <2>2, <3>1, <3>3, <3>5
  <2>4. CASE t \notin Changed(p)
    <3>1. StoredAt(p, t) # {} /\ Newest(StoredAt(p, t)).val = said[t]
      BY <2>1, <2>4 DEF Changed
    <3>2. PICK r \in StoredAt(p, t) : IsNewest(r, StoredAt(p, t))
      BY <3>1, NewestExists DEF Collected, Ordered, StoredAt, RowsOf
    <3>3. Newest(StoredAt(p, t)) = r
      BY <3>2, NewestIs DEF Collected, StoredAt
    <3>4. RowsOf(Stored(p)', t) = StoredAt(p, t)
      BY <1>3, <2>4 DEF RowsOf, StoredAt
    <3> QED  BY <2>2, <3>1, <3>2, <3>3, <3>4
  <2> QED  BY <2>3, <2>4
<1> QED  BY <1>1, <1>4, <1>5

(***************************************************************************)
(* The invariant is kept                                                    *)
(***************************************************************************)

\* The window of a run, and where it resumes, are numbers.
LEMMA CursorType ==
    ASSUME IngestionAssumption, NEW now \in Times, mark \in 0..LastBar
    PROVE  EffectiveStart(WindowStart(now)) \in Int
<1>1. now \in Int /\ Depth \in Int /\ Refresh \in Int /\ Opens(mark) \in Int
  BY DEF Times, Opens, IngestionAssumption
<1>2. now - Refresh \in Int /\ now - Depth \in Int
  BY <1>1
<1>3. WindowStart(now) \in Int
  BY <1>1, <1>2, OfTwo DEF WindowStart
<1> QED  BY <1>1, <1>3, OfTwo DEF EffectiveStart

\* The checkpoint advances to a bar of the answer, if it moves.
LEMMA MovedType ==
    ASSUME IngestionAssumption, Collected, NEW p \in Passes
    PROVE  Max(InChunk(p) \cup {pass[p].moved}) \in 0..LastBar
<1> DEFINE S == InChunk(p) \cup {pass[p].moved}
<1>1. S \in SUBSET Nat /\ S # {} /\ LastBar \in Nat /\ S \subseteq 0..LastBar
  BY DEF InChunk, Bars, IngestionAssumption, Collected, Held, PassType
<1> HIDE DEF S
<1>2. \A n \in S : n <= LastBar
  BY <1>1
<1>3. Max(S) \in S
  BY <1>1, <1>2, MaxIs
<1> QED  BY <1>1, <1>3 DEF S

\* A pass is the record of its parts.
Record(pc, now, seen, cursor, tries, known, moved, rows, told, calm) ==
    [pc |-> pc, now |-> now, seen |-> seen, cursor |-> cursor, tries |-> tries,
     known |-> known, moved |-> moved, rows |-> rows, told |-> told, calm |-> calm]

LEMMA RecordParts ==
    ASSUME NEW pc, NEW now, NEW seen, NEW cursor, NEW tries, NEW known, NEW moved, NEW rows,
           NEW told, NEW calm
    PROVE  LET s == Record(pc, now, seen, cursor, tries, known, moved, rows, told, calm)
           IN  /\ IsPass(s)
               /\ s.pc = pc /\ s.now = now /\ s.seen = seen /\ s.cursor = cursor
               /\ s.tries = tries /\ s.known = known /\ s.moved = moved /\ s.rows = rows
               /\ s.told = told
  BY DEF IsPass, Record

LEMMA HeldStep == IngestionAssumption /\ Collected /\ [Next]_vars => Held'
<1> SUFFICES ASSUME IngestionAssumption, Collected, [Next]_vars
             PROVE  Held'
  OBVIOUS
<1> USE DEF Collected, Held
<1>1. CASE Tick
  BY <1>1 DEF Tick, Times, InFlight, IngestionAssumption
<1>2. ASSUME NEW t \in Bars, Say(t)
      PROVE  Held'
  <2>1. /\ clock' \in Times /\ mark' \in 0..LastBar /\ lock' = lock
        /\ said' \in [Bars -> 0..MaxSaid]
    BY <1>2 DEF Say, IngestionAssumption
  <2>2. \A p \in Passes : pass'[p] = pass[p] \/ pass'[p] = [pass[p] EXCEPT !.calm = FALSE]
    BY <1>2 DEF Say
  <2>3. ASSUME NEW p \in Passes
        PROVE  /\ IsPass(pass'[p]) /\ PassType(pass'[p]) /\ pass'[p].pc = pass[p].pc
               /\ pass'[p].rows = pass[p].rows /\ pass'[p].told = pass[p].told
    <3> DEFINE s == pass[p]
    <3>1. IsPass(s) /\ PassType(s) /\ (pass'[p] = s \/ pass'[p] = [s EXCEPT !.calm = FALSE])
      BY <2>2
    <3> HIDE DEF s
    <3>2. CASE pass'[p] = [s EXCEPT !.calm = FALSE]
      <4> DEFINE calm == FALSE
      <4>1. pass'[p] = Record(s.pc, s.now, s.seen, s.cursor, s.tries, s.known, s.moved,
                              s.rows, s.told, calm)
        <5> HIDE DEF Collected, Held
        <5> QED  BY <3>1, <3>2 DEF IsPass, Record
      <4> HIDE DEF calm
      <4>2. /\ IsPass(pass'[p])
            /\ pass'[p].pc = s.pc /\ pass'[p].now = s.now /\ pass'[p].seen = s.seen
            /\ pass'[p].cursor = s.cursor /\ pass'[p].tries = s.tries
            /\ pass'[p].known = s.known /\ pass'[p].moved = s.moved
            /\ pass'[p].rows = s.rows /\ pass'[p].told = s.told
        BY <4>1, RecordParts
      <4> QED  BY <3>1, <4>2 DEF PassType, s
    <3> QED  BY <3>1, <3>2 DEF s
  <2>4. pass' = [p \in Passes |-> pass'[p]]
    BY <1>2 DEF Say
  <2> QED  BY <2>1, <2>3, <2>4 DEF InFlight
<1>3. ASSUME NEW p \in Passes,
             pass' = [pass EXCEPT ![p] = pass'[p]], IsPass(pass'[p]), PassType(pass'[p]),
             clock' = clock, said' = said, mark' \in 0..LastBar,
             lock' \in Passes \cup {Nobody},
             \A q \in Passes \ {p} : lock' = q <=> lock = q,
             pass'[p].pc \in {"chunks", "end"} <=> lock' = p,
             pass'[p].pc \notin {"chunks", "end"} => pass'[p].rows = {} /\ pass'[p].told = {}
      PROVE  Held'
  <2>1. \A q \in Passes : q # p => pass'[q] = pass[q]
    BY <1>3
  <2>2. pass' = [q \in Passes |-> pass'[q]]
    BY <1>3
  <2>3. ASSUME NEW q \in Passes
        PROVE  /\ IsPass(pass'[q]) /\ PassType(pass'[q])
               /\ q \in InFlight' <=> lock' = q
               /\ q \notin InFlight' => pass'[q].rows = {} /\ pass'[q].told = {}
    BY <1>3, <2>1 DEF InFlight
  <2> QED  BY <1>3, <2>2, <2>3
<1>4. ASSUME NEW p \in Passes, NEW now \in Times, OpenRun(p, now)
      PROVE  Held'
  <2>1. pass'[p] = [Idle EXCEPT !.pc = "waiting", !.now = now, !.seen = mark, !.moved = mark,
                                !.cursor = EffectiveStart(WindowStart(now))]
    BY <1>4 DEF OpenRun
  <2>2. IsPass(pass'[p]) /\ PassType(pass'[p])
    <3> DEFINE calm == TRUE
    <3>1. pass'[p] = Record("waiting", now, mark, EffectiveStart(WindowStart(now)), 0, 0, mark,
                            {}, {}, calm)
      BY <2>1 DEF Idle, Record
    <3> HIDE DEF calm
    <3>2. EffectiveStart(WindowStart(now)) \in Int /\ 0 \in Times /\ 0 \in 0..MaxRetries
      BY CursorType DEF Times, IngestionAssumption
    <3>3. mark \in 0..LastBar
      OBVIOUS
    <3> HIDE DEF Collected, Held
    <3> QED  BY <3>1, <3>2, <3>3, RecordParts DEF PassType
  <2>3. p \notin InFlight
    BY <1>4 DEF OpenRun, Idle, InFlight
  <2> QED  BY <1>3, <1>4, <2>1, <2>2, <2>3 DEF OpenRun, Idle
<1>5. ASSUME NEW p \in Passes, RecordStart(p)
      PROVE  Held'
  <2>1. pass'[p] = [pass[p] EXCEPT !.pc = "chunks", !.known = clock]
    BY <1>5 DEF RecordStart
  <2>2. IsPass(pass'[p]) /\ PassType(pass'[p]) /\ pass'[p].pc = "chunks"
    <3> DEFINE s == pass[p]
    <3>1. pass'[p] = [s EXCEPT !.pc = "chunks", !.known = clock] /\ IsPass(s)
      BY <2>1
    <3> HIDE DEF s
    <3>2. pass'[p] = Record("chunks", s.now, s.seen, s.cursor, s.tries, clock, s.moved,
                            s.rows, s.told, s.calm)
      <4> HIDE DEF Collected, Held
      <4> QED  BY <3>1 DEF IsPass, Record
    <3> QED  BY <3>2, RecordParts DEF PassType, s
  <2>3. pass' = [pass EXCEPT ![p] = pass'[p]] /\ lock = Nobody /\ lock' = p
        /\ UNCHANGED <<clock, said, mark>>
    BY <1>5 DEF RecordStart
  <2> QED  BY <1>3, <2>2, <2>3 DEF IngestionAssumption
<1>6. ASSUME NEW p \in Passes, FetchChunk(p)
      PROVE  Held'
  <2>1. pass'[p] = [pass[p] EXCEPT
          !.cursor = @ + ChunkBars * Width, !.tries = 0, !.rows = @ \cup NewRows(p),
          !.told = @ \cup {<<t, said[t]>> : t \in InChunk(p)},
          !.moved = Max(InChunk(p) \cup {@})]
    BY <1>6 DEF FetchChunk
  <2>2. ChunkBars * Width \in Int /\ 0 \in 0..MaxRetries
    BY DEF IngestionAssumption
  <2>3. IsPass(pass'[p]) /\ PassType(pass'[p]) /\ pass'[p].pc = "chunks"
    <3> DEFINE s == pass[p]
               moved == Max(InChunk(p) \cup {pass[p].moved})
               told == pass[p].told \cup {<<t, said[t]>> : t \in InChunk(p)}
               cursor == pass[p].cursor + ChunkBars * Width
    <3>1. /\ IsPass(s) /\ s.pc = "chunks"
          /\ pass'[p] = [s EXCEPT !.cursor = cursor, !.tries = 0, !.rows = @ \cup NewRows(p),
                                  !.told = told, !.moved = moved]
      BY <1>6, <2>1 DEF FetchChunk
    <3>2. moved \in 0..LastBar /\ cursor \in Int
      BY <2>2, MovedType DEF PassType
    <3> HIDE DEF s, moved, told, cursor
    <3>3. pass'[p] = Record("chunks", s.now, s.seen, cursor, 0, s.known, moved,
                            s.rows \cup NewRows(p), told, s.calm)
      <4> HIDE DEF Collected, Held
      <4> QED  BY <3>1 DEF IsPass, Record
    <3> QED  BY <2>2, <3>2, <3>3, RecordParts DEF PassType, s
  <2>4. lock = p
    BY <1>6 DEF FetchChunk, InFlight
  <2>5. pass' = [pass EXCEPT ![p] = pass'[p]] /\ UNCHANGED <<clock, said, mark, lock>>
    BY <1>6 DEF FetchChunk
  <2> QED  BY <1>3, <2>3, <2>4, <2>5
<1>7. ASSUME NEW p \in Passes, Retry(p) \/ GiveUp(p)
      PROVE  Held'
  <2>1. \/ pass[p].tries < MaxRetries /\ pass'[p] = [pass[p] EXCEPT !.tries = @ + 1]
        \/ pass'[p] = [pass[p] EXCEPT !.pc = "end"]
    BY <1>7 DEF Retry, GiveUp
  <2>2. pass[p].pc = "chunks" /\ lock = p
    BY <1>7 DEF Retry, GiveUp, InFlight
  <2>3. IsPass(pass'[p]) /\ PassType(pass'[p]) /\ pass'[p].pc \in {"chunks", "end"}
    BY <2>1, <2>2 DEF IsPass, PassType, IngestionAssumption
  <2>4. pass' = [pass EXCEPT ![p] = pass'[p]] /\ UNCHANGED <<clock, said, mark, lock>>
    BY <1>7 DEF Retry, GiveUp
  <2> QED  BY <1>3, <2>2, <2>3, <2>4
<1>8. ASSUME NEW p \in Passes, Commit(p) \/ Rollback(p)
      PROVE  Held'
  <2>1. /\ pass' = [pass EXCEPT ![p] = Idle] /\ clock' = clock /\ said' = said
        /\ lock' = IF lock = p THEN Nobody ELSE lock
        /\ mark' \in {mark, pass[p].moved}
    BY <1>8 DEF Commit, Rollback
  <2>2. IsPass(Idle) /\ PassType(Idle)
    BY DEF IsPass, PassType, Idle, Times, IngestionAssumption
  <2>3. pass'[p] = Idle /\ mark' \in 0..LastBar /\ lock' \in Passes \cup {Nobody} /\ lock' # p
    BY <2>1, IngestionAssumption DEF PassType, IngestionAssumption
  <2>4. \A q \in Passes \ {p} : lock' = q <=> lock = q
    BY <2>1, IngestionAssumption DEF IngestionAssumption
  <2> QED  BY <1>3, <2>1, <2>2, <2>3, <2>4 DEF Idle
<1>9. CASE UNCHANGED vars
  BY <1>9 DEF vars, InFlight
<1> QED  BY <1>1, <1>2, <1>4, <1>5, <1>6, <1>7, <1>8, <1>9 DEF Next, RunStep

\* Who is in flight is alone with what it sees stored.
LEMMA Alone ==
    ASSUME IngestionAssumption, Held
    PROVE  /\ \A p, q \in InFlight : p = q
           /\ \A p \in Passes : p \notin InFlight => Stored(p) = bars
  BY DEF Held, Stored, InFlight

\* What a pass commits is all it inserted: nobody else stored a revision since.
LEMMA AllInserted ==
    ASSUME Collected, NEW p \in Passes
    PROVE  bars \cup Inserted(p) = Stored(p)
<1>1. \A r \in pass[p].rows, o \in bars : o.at = r.at /\ o.rev = r.rev => r = o
  BY DEF Collected, Ordered, Stored
<1>2. \A r \in pass[p].rows : r \in bars \/ r \in Inserted(p)
  BY <1>1 DEF Inserted
<1> QED  BY <1>2 DEF Stored, Inserted

LEMMA LearntStep == IngestionAssumption /\ Collected /\ [Next]_vars => Learnt'
<1> SUFFICES ASSUME IngestionAssumption, Collected, [Next]_vars
             PROVE  Learnt'
  OBVIOUS
<1>1. /\ clock \in Int /\ clock' \in Int
      /\ \A r \in bars : r.known \in Int
      /\ \A p \in Passes : pass[p].known \in Int
  BY HeldStep DEF Collected, Held, Ordered, Rows, Times, PassType
<1>2. /\ \A r \in bars : r.known <= clock
      /\ \A p \in InFlight : /\ pass[p].known <= clock
                             /\ \A r \in bars : r.known <= pass[p].known
                             /\ \A r \in pass[p].rows : r.known = pass[p].known
  BY DEF Collected, Learnt
<1>3. ASSUME bars' = bars, clock <= clock',
             \A p \in Passes : p \in InFlight' =>
                p \in InFlight /\ pass'[p].known = pass[p].known /\ pass'[p].rows = pass[p].rows
      PROVE  Learnt'
  <2>1. \A r \in bars' : r.known <= clock'
    BY <1>1, <1>2, <1>3
  <2>2. ASSUME NEW p \in InFlight'
        PROVE  /\ pass'[p].known <= clock'
               /\ \A r \in bars' : r.known <= pass'[p].known
               /\ \A r \in pass'[p].rows : r.known = pass'[p].known
    <3>1. p \in Passes
      BY DEF InFlight
    <3> QED  BY <1>1, <1>2, <1>3, <3>1
  <2> QED  BY <2>1, <2>2 DEF Learnt
<1>4. CASE Tick
  <2>1. clock <= clock' /\ bars' = bars /\ pass' = pass
    BY <1>1, <1>4 DEF Tick
  <2> QED  BY <1>3, <2>1 DEF InFlight
<1>5. ASSUME NEW t \in Bars, Say(t)
      PROVE  Learnt'
  <2>1. bars' = bars /\ clock' = clock
    BY <1>5 DEF Say
  <2>2. ASSUME NEW p \in Passes
        PROVE  /\ pass'[p].pc = pass[p].pc /\ pass'[p].known = pass[p].known
               /\ pass'[p].rows = pass[p].rows
    <3>1. IsPass(pass[p])
      BY DEF Collected, Held
    <3> QED  BY <1>5, <3>1 DEF Say, IsPass
  <2> QED  BY <1>1, <1>3, <2>1, <2>2 DEF InFlight
<1>6. ASSUME NEW p \in Passes, NEW now \in Times, OpenRun(p, now)
      PROVE  Learnt'
  <2>1. bars' = bars /\ clock' = clock /\ pass'[p].pc = "waiting"
        /\ \A q \in Passes : q # p => pass'[q] = pass[q]
    BY <1>6 DEF OpenRun, Idle, Collected, Held
  <2> QED  BY <1>1, <1>3, <2>1 DEF InFlight
<1>7. ASSUME NEW p \in Passes, RecordStart(p)
      PROVE  Learnt'
  <2>1. p \notin InFlight /\ lock = Nobody /\ bars' = bars /\ clock' = clock
    BY <1>7 DEF RecordStart, InFlight
  <2>2. pass[p].rows = {} /\ \A q \in Passes : q \notin InFlight
    BY <2>1, IngestionAssumption DEF Collected, Held, IngestionAssumption
  <2>3. /\ pass'[p].known = clock /\ pass'[p].rows = {}
        /\ \A q \in Passes : q # p => pass'[q] = pass[q]
    <3>1. IsPass(pass[p])
      BY DEF Collected, Held
    <3> QED  BY <1>7, <2>2, <3>1 DEF RecordStart, IsPass, Collected, Held
  <2>4. \A q \in InFlight' : q = p
    BY <2>2, <2>3 DEF InFlight
  <2> QED  BY <1>1, <1>2, <2>1, <2>3, <2>4 DEF Learnt
<1>8. ASSUME NEW p \in Passes, FetchChunk(p)
      PROVE  Learnt'
  <2>1. p \in InFlight /\ bars' = bars /\ clock' = clock
    BY <1>8 DEF FetchChunk, InFlight
  <2>2. /\ pass'[p].known = pass[p].known /\ pass'[p].rows = pass[p].rows \cup NewRows(p)
        /\ \A q \in Passes : q # p => pass'[q] = pass[q]
    <3>1. IsPass(pass[p])
      BY DEF Collected, Held
    <3> QED  BY <1>8, <3>1 DEF FetchChunk, IsPass, Collected, Held
  <2>3. \A r \in NewRows(p) : r.known = pass[p].known
    BY NewRowsAre DEF RowFor
  <2>4. ASSUME NEW q \in InFlight'
        PROVE  /\ pass'[q].known <= clock'
               /\ \A r \in bars' : r.known <= pass'[q].known
               /\ \A r \in pass'[q].rows : r.known = pass'[q].known
    <3>1. q \in Passes /\ (q # p => q \in InFlight)
      BY <2>2 DEF InFlight
    <3> QED  BY <1>2, <2>1, <2>2, <2>3, <3>1
  <2> QED  BY <1>2, <2>1, <2>4 DEF Learnt
<1>9. ASSUME NEW p \in Passes, Retry(p) \/ GiveUp(p)
      PROVE  Learnt'
  <2>1. p \in InFlight /\ bars' = bars /\ clock' = clock
    BY <1>9 DEF Retry, GiveUp, InFlight
  <2>2. /\ pass'[p].known = pass[p].known /\ pass'[p].rows = pass[p].rows
        /\ \A q \in Passes : q # p => pass'[q] = pass[q]
    <3>1. IsPass(pass[p])
      BY DEF Collected, Held
    <3> QED  BY <1>9, <3>1 DEF Retry, GiveUp, IsPass, Collected, Held
  <2> QED  BY <1>1, <1>3, <2>1, <2>2 DEF InFlight
<1>10. ASSUME NEW p \in Passes, Commit(p)
       PROVE  Learnt'
  <2>1. p \in InFlight /\ clock' = clock /\ bars' = bars \cup Inserted(p)
        /\ pass'[p] = Idle /\ \A q \in Passes : q # p => pass'[q] = pass[q]
    BY <1>10 DEF Commit, InFlight, Collected, Held
  <2>2. \A r \in bars' : r.known <= clock'
    BY <1>2, <2>1 DEF Inserted
  <2>3. \A q \in Passes : q \notin InFlight'
    BY <2>1, Alone DEF InFlight, Idle, Collected
  <2> QED  BY <2>2, <2>3 DEF Learnt, InFlight
<1>11. ASSUME NEW p \in Passes, Rollback(p)
       PROVE  Learnt'
  <2>1. clock' = clock /\ bars' = bars /\ pass'[p] = Idle
        /\ \A q \in Passes : q # p => pass'[q] = pass[q]
    BY <1>11 DEF Rollback, Collected, Held
  <2> QED  BY <1>1, <1>3, <2>1 DEF InFlight, Idle
<1>12. CASE UNCHANGED vars
  BY <1>1, <1>3, <1>12 DEF vars, InFlight
<1> QED  BY <1>4, <1>5, <1>6, <1>7, <1>8, <1>9, <1>10, <1>11, <1>12 DEF Next, RunStep

\* What is stored stays in order while the provider only says more.
LEMMA StaysOrdered ==
    ASSUME NEW R, Ordered(R), Held, Held', \A t \in Bars : said[t] <= said'[t]
    PROVE  \A r \in R : r \in Rows /\ r.rev <= r.val /\ r.val <= said'[r.at]
<1>1. \A r \in R : r \in Rows /\ r.at \in Bars /\ r.val \in Int /\ r.rev <= r.val /\ r.val <= said[r.at]
  BY DEF Ordered, Rows
<1>2. \A t \in Bars : said[t] \in Int /\ said'[t] \in Int
  BY DEF Held
<1> QED  BY <1>1, <1>2

LEMMA SaidMore == Held /\ [Next]_vars => \A t \in Bars : said[t] <= said'[t]
<1> SUFFICES ASSUME Held, [Next]_vars, NEW t \in Bars
             PROVE  said[t] <= said'[t]
  OBVIOUS
<1>1. said[t] \in Int
  BY DEF Held
<1>2. ASSUME NEW u \in Bars, Say(u)
      PROVE  said[t] <= said'[t]
  BY <1>1, <1>2 DEF Say, Held
<1>3. \A p \in Passes, now \in Times : OpenRun(p, now) => said' = said
  BY DEF OpenRun
<1>4. \A p \in Passes : RunStep(p) \/ Rollback(p) => said' = said
  BY DEF RunStep, RecordStart, FetchChunk, Retry, GiveUp, Commit, Rollback
<1>5. Tick \/ UNCHANGED vars => said' = said
  BY DEF Tick, vars
<1> QED  BY <1>1, <1>2, <1>3, <1>4, <1>5 DEF Next

\* Only a fetch and a commit change what is stored; what a pass was told stands.
LEMMA StoredFrame ==
    ASSUME IngestionAssumption, Collected, [Next]_vars, NEW p \in Passes, ~FetchChunk(p)
    PROVE  \/ /\ Stored(p)' = Stored(p)
              /\ pass'[p].told = pass[p].told /\ pass'[p].cursor = pass[p].cursor
           \/ pass'[p].told = {} /\ Stored(p)' = bars'
<1> USE DEF Collected, Held
<1>1. IsPass(pass[p])
  OBVIOUS
<1>3. ASSUME NEW t \in Bars, Say(t)
      PROVE  /\ Stored(p)' = Stored(p)
             /\ pass'[p].told = pass[p].told /\ pass'[p].cursor = pass[p].cursor
  BY <1>1, <1>3 DEF Say, Stored, IsPass
<1>4. ASSUME NEW q \in Passes, q # p,
             \/ \E now \in Times : OpenRun(q, now)
             \/ RecordStart(q) \/ FetchChunk(q) \/ Retry(q) \/ GiveUp(q) \/ Rollback(q)
      PROVE  pass'[p] = pass[p] /\ bars' = bars
  BY <1>4 DEF OpenRun, RecordStart, FetchChunk, Retry, GiveUp, Rollback
<1>5. ASSUME NEW q \in Passes, q # p, Commit(q)
      PROVE  pass'[p].told = {} /\ Stored(p)' = bars'
  <2>1. q \in InFlight /\ pass'[p] = pass[p]
    BY <1>5 DEF Commit, InFlight
  <2>2. p \notin InFlight
    BY <1>5, <2>1, Alone
  <2> QED  BY <2>1, <2>2 DEF Stored
<1>6. ASSUME NEW now \in Times, OpenRun(p, now)
      PROVE  pass'[p].told = {} /\ Stored(p)' = bars'
  BY <1>6 DEF OpenRun, Idle, Stored
<1>7. CASE RecordStart(p) \/ Retry(p) \/ GiveUp(p)
  <2>1. /\ pass'[p].told = pass[p].told /\ pass'[p].cursor = pass[p].cursor
        /\ pass'[p].rows = pass[p].rows /\ bars' = bars
    BY <1>1, <1>7 DEF RecordStart, Retry, GiveUp, IsPass
  <2> QED  BY <2>1 DEF Stored
<1>8. CASE Commit(p) \/ Rollback(p)
  BY <1>8 DEF Commit, Rollback, Idle, Stored
<1> DEFINE Framed ==
             \/ /\ Stored(p)' = Stored(p)
                /\ pass'[p].told = pass[p].told /\ pass'[p].cursor = pass[p].cursor
             \/ pass'[p].told = {} /\ Stored(p)' = bars'
<1>9. pass'[p] = pass[p] /\ bars' = bars => Framed
  BY DEF Stored
<1>10. CASE Tick \/ UNCHANGED vars
  BY <1>9, <1>10 DEF Tick, vars
<1>11. CASE \E t \in Bars : Say(t)
  BY <1>3, <1>11
<1>12. ASSUME NEW q \in Passes, NEW now \in Times, OpenRun(q, now)
       PROVE  Framed
  BY <1>4, <1>6, <1>9, <1>12
<1>13. ASSUME NEW q \in Passes, RunStep(q) \/ Rollback(q)
       PROVE  Framed
  <2> HIDE DEF Framed, Collected, Held
  <2>1. CASE q = p
    <3>1. Framed
      BY <1>7, <1>8, <1>13, <2>1 DEF RunStep, Framed
    <3> QED  BY <3>1
  <2>2. CASE q # p
    BY <1>4, <1>5, <1>9, <1>13, <2>2 DEF RunStep, Framed
  <2> QED  BY <2>1, <2>2
<1> QED
  <2> HIDE DEF Framed, Collected, Held
  <2>1. Framed
    BY <1>10, <1>11, <1>12, <1>13 DEF Next, Framed
  <2> QED  BY <2>1 DEF Framed

\* What is committed next is what was, or what the pass that commits sees stored.
LEMMA BarsFrame ==
    ASSUME Collected, [Next]_vars
    PROVE  bars' = bars \/ \E p \in Passes : Commit(p) /\ bars' = Stored(p)
<1>1. \A p \in Passes : Commit(p) => bars' = Stored(p)
  BY AllInserted DEF Commit
<1>2. \A p \in Passes : RunStep(p) \/ Rollback(p) => Commit(p) \/ bars' = bars
  BY DEF RunStep, RecordStart, FetchChunk, Retry, GiveUp, Rollback
<1>3. \A p \in Passes, now \in Times : OpenRun(p, now) => bars' = bars
  BY DEF OpenRun
<1>4. Tick \/ (\E t \in Bars : Say(t)) \/ UNCHANGED vars => bars' = bars
  BY DEF Tick, Say, vars
<1> QED  BY <1>1, <1>2, <1>3, <1>4 DEF Next

LEMMA OrderedStep ==
    ASSUME IngestionAssumption, Collected, [Next]_vars
    PROVE  Ordered(bars)' /\ \A p \in Passes : Ordered(Stored(p))'
<1>1. Held /\ Held' /\ \A t \in Bars : said[t] <= said'[t]
  BY HeldStep, SaidMore DEF Collected
<1>2. Ordered(bars)'
  <2>1. PICK R : R = bars' /\ Ordered(R)
    BY BarsFrame DEF Collected
  <2>2. \A r \in R : r \in Rows /\ r.rev <= r.val /\ r.val <= said'[r.at]
    BY <1>1, <2>1, StaysOrdered
  <2> QED  BY <2>1, <2>2 DEF Ordered
<1>3. ASSUME NEW p \in Passes
      PROVE  Ordered(Stored(p))'
  <2>1. CASE FetchChunk(p)
    BY <2>1, FetchOrdered
  <2>2. CASE ~FetchChunk(p) /\ Stored(p)' = Stored(p)
    <3>1. Ordered(Stored(p))
      BY DEF Collected
    <3>2. \A r \in Stored(p) : r \in Rows /\ r.rev <= r.val /\ r.val <= said'[r.at]
      BY <1>1, <3>1, StaysOrdered
    <3> QED  BY <2>2, <3>1, <3>2 DEF Ordered
  <2>3. CASE ~FetchChunk(p) /\ Stored(p)' = bars'
    BY <1>2, <2>3 DEF Ordered
  <2> QED  BY <2>1, <2>2, <2>3, StoredFrame
<1> QED  BY <1>2, <1>3

LEMMA ToldStep ==
    ASSUME IngestionAssumption, Collected, [Next]_vars, NEW p \in Passes
    PROVE  Told(p)'
<1>1. CASE FetchChunk(p)
  BY <1>1, FetchTold
<1>2. CASE /\ Stored(p)' = Stored(p)
           /\ pass'[p].told = pass[p].told /\ pass'[p].cursor = pass[p].cursor
  <2>1. Told(p)
    BY DEF Collected
  <2> QED  BY <1>2, <2>1 DEF Told, RowsOf, IsNewest, Opens
<1>3. CASE pass'[p].told = {}
  BY <1>3 DEF Told
<1> QED  BY <1>1, <1>2, <1>3, StoredFrame

LEMMA CollectedAlways == Spec => []Collected
<1>1. IngestionAssumption /\ Collected /\ [Next]_vars => Collected'
  <2> SUFFICES ASSUME IngestionAssumption, Collected, [Next]_vars
               PROVE  Collected'
    OBVIOUS
  <2>1. Held' /\ Learnt' /\ Ordered(bars)'
    BY HeldStep, LearntStep, OrderedStep
  <2>2. \A p \in Passes : Ordered(Stored(p))' /\ Told(p)'
    BY OrderedStep, ToldStep
  <2> QED  BY <2>1, <2>2 DEF Collected
<1> QED  BY <1>1, CollectedInit, IngestionAssumption, PTL DEF Spec

(***************************************************************************)
(* Theorems                                                                 *)
(***************************************************************************)

\* The stored rows, the checkpoint and the passes are of their types: no revision
\* is numbered past what the provider said, nor the checkpoint past its bars.
THEOREM Types == Spec => []TypeOK
<1>1. Collected => TypeOK
  <2> SUFFICES ASSUME Collected
               PROVE  TypeOK
    OBVIOUS
  <2>1. bars \subseteq Rows /\ \A p \in Passes : pass[p].rows \subseteq Rows
    BY DEF Collected, Ordered, Stored
  <2> QED  BY <2>1 DEF Collected, Held, PassType, TypeOK
<1> QED  BY <1>1, CollectedAlways, PTL

\* The revisions of a bar are in the order in which they were learnt, and no two
\* in a row say the same, whichever passes stored them.
THEOREM InOrder == Spec => []KnowledgeInOrder
<1>1. Collected => KnowledgeInOrder
  <2> SUFFICES ASSUME Collected, NEW r \in bars, NEW o \in bars, r.at = o.at, r.rev < o.rev
               PROVE  r.known <= o.known /\ o.val # r.val
    BY DEF KnowledgeInOrder
  <2>1. r.val \in Int /\ o.val \in Int
    BY DEF Collected, Ordered, Rows
  <2> QED  BY <2>1 DEF Collected, Ordered
<1> QED  BY <1>1, CollectedAlways, PTL

\* What was known at a settled moment is known of it ever after: whatever is in
\* flight, or begins later, is stamped later.
THEOREM Repeatable == Spec => AsOfIsRepeatable
<1> DEFINE Step == \A moment \in Times : Settled(moment) =>
              Settled(moment)' /\ Visible(bars', moment) = Visible(bars, moment)
<1>1. IngestionAssumption /\ Collected /\ Collected' /\ [Next]_vars => Step
  <2> SUFFICES ASSUME IngestionAssumption, Collected, Collected', [Next]_vars,
                      NEW moment \in Times, Settled(moment)
               PROVE  Settled(moment)' /\ Visible(bars', moment) = Visible(bars, moment)
    OBVIOUS
  <2>1. moment \in Int /\ clock \in Int /\ clock' \in Int /\ moment < clock
        /\ \A p \in InFlight : moment < pass[p].known
    BY DEF Settled, Collected, Held, Times, InFlight, PassType
  <2>2. clock <= clock'
    <3>1. \A p \in Passes, now \in Times : OpenRun(p, now) => clock' = clock
      BY DEF OpenRun
    <3>2. \A p \in Passes : RunStep(p) \/ Rollback(p) => clock' = clock
      BY DEF RunStep, RecordStart, FetchChunk, Retry, GiveUp, Commit, Rollback
    <3>3. (\E t \in Bars : Say(t)) \/ UNCHANGED vars => clock' = clock
      BY DEF Say, vars
    <3>4. Tick => clock' = clock + 1
      BY DEF Tick
    <3> QED  BY <2>1, <3>1, <3>2, <3>3, <3>4 DEF Next
  <2>3. ASSUME NEW p \in InFlight'
        PROVE  moment < pass'[p].known
    <3>1. p \in Passes /\ IsPass(pass[p])
      BY DEF InFlight, Collected, Held
    <3>2. CASE p \in InFlight /\ pass'[p].known = pass[p].known
      BY <2>1, <3>2
    <3>3. CASE RecordStart(p)
      <4>1. pass'[p].known = clock
        BY <3>1, <3>3 DEF RecordStart, IsPass, Collected, Held
      <4> QED  BY <2>1, <4>1
    <3>4. ASSUME NEW q \in Passes, RunStep(q) \/ Rollback(q), ~RecordStart(p)
          PROVE  p \in InFlight /\ pass'[p].known = pass[p].known
      <4>1. CASE q # p
        <5>1. pass'[p] = pass[p]
          BY <3>1, <3>4, <4>1 DEF RunStep, RecordStart, FetchChunk, Retry, GiveUp, Commit,
             Rollback, Collected, Held
        <5> QED  BY <5>1 DEF InFlight
      <4>2. CASE q = p
        <5>1. FetchChunk(p) \/ Retry(p) \/ GiveUp(p) \/ Commit(p) \/ Rollback(p)
          BY <3>4, <4>2 DEF RunStep
        <5>2. CASE Commit(p) \/ Rollback(p)
          BY <3>1, <5>2 DEF Commit, Rollback, InFlight, Idle, Collected, Held
        <5>3. CASE FetchChunk(p) \/ Retry(p) \/ GiveUp(p)
          BY <3>1, <5>3 DEF FetchChunk, Retry, GiveUp, InFlight, IsPass, Collected, Held
        <5> QED  BY <5>1, <5>2, <5>3
      <4> QED  BY <4>1, <4>2
    <3>5. ASSUME NEW q \in Passes, NEW now \in Times, OpenRun(q, now)
          PROVE  p \in InFlight /\ pass'[p].known = pass[p].known
      BY <3>1, <3>5 DEF OpenRun, InFlight, Idle, Collected, Held
    <3>6. ASSUME NEW t \in Bars, Say(t)
          PROVE  p \in InFlight /\ pass'[p].known = pass[p].known
      BY <3>1, <3>6 DEF Say, InFlight, IsPass
    <3>7. CASE Tick \/ UNCHANGED vars
      BY <3>2, <3>7 DEF Tick, vars, InFlight
    <3> QED  BY <3>2, <3>3, <3>4, <3>5, <3>6, <3>7 DEF Next
  <2>4. Known(bars', moment) = Known(bars, moment)
    <3>1. CASE bars' = bars
      BY <3>1
    <3>2. ASSUME NEW p \in Passes, Commit(p), bars' = Stored(p)
          PROVE  Known(bars', moment) = Known(bars, moment)
      <4>1. p \in InFlight
        BY <3>2 DEF Commit, InFlight
      <4>2. \A r \in pass[p].rows : moment < r.known /\ r.known \in Int
        BY <2>1, <4>1 DEF Collected, Learnt, Ordered, Stored, Rows, Times
      <4>3. \A r \in pass[p].rows : ~(r.known <= moment)
        BY <2>1, <4>2
      <4> QED  BY <3>2, <4>3 DEF Known, Stored
    <3> QED  BY <3>1, <3>2, BarsFrame
  <2>5. Visible(bars', moment) = Visible(bars, moment)
    BY <2>4 DEF Visible
  <2>6. Settled(moment)'
    BY <2>1, <2>2, <2>3 DEF Settled
  <2> QED  BY <2>5, <2>6
<1> QED  BY <1>1, CollectedAlways, IngestionAssumption, PTL DEF Spec, AsOfIsRepeatable

\* A pass that commits leaves every bar it was told of saying what it was told.
THEOREM Stays == Spec => PassIsStored
<1> DEFINE Step == \A p \in Passes : (pass[p].told # {} /\ Commit(p)) =>
              \A a \in pass[p].told : Newest(RowsOf(bars', a[1])).val = a[2]
<1>1. Collected => Step
  <2> SUFFICES ASSUME Collected, NEW p \in Passes, Commit(p), NEW a \in pass[p].told
               PROVE  Newest(RowsOf(bars', a[1])).val = a[2]
    OBVIOUS
  <2>1. bars' = Stored(p)
    BY AllInserted DEF Commit
  <2>2. PICK r \in RowsOf(Stored(p), a[1]) : IsNewest(r, RowsOf(Stored(p), a[1])) /\ r.val = a[2]
    BY DEF Collected, Told
  <2>3. Newest(RowsOf(Stored(p), a[1])) = r
    BY <2>2, NewestIs DEF Collected
  <2> QED  BY <2>1, <2>2, <2>3
<1> QED  BY <1>1, CollectedAlways, PTL DEF PassIsStored
=============================================================================
