--------------------------- MODULE JournalProofs ---------------------------
(* Proofs about Journal, for any series, symbols, brains, horizon, batch    *)
(* and bars: a verdict is the market's and stays so as bars come late, what *)
(* was decided stands, and a verdict that was withdrawn is kept.            *)
EXTENDS Journal, FiniteSetTheorems, WellFoundedInduction, TLAPS

(***************************************************************************)
(* Finite sets                                                              *)
(***************************************************************************)

LEMMA Part ==
    ASSUME NEW S, IsFiniteSet(S), NEW T \in SUBSET S
    PROVE  /\ IsFiniteSet(T) /\ Cardinality(T) \in Nat /\ Cardinality(S) \in Nat
           /\ Cardinality(T) <= Cardinality(S)
  BY FS_Subset, FS_CardinalityType

LEMMA SlotsFinite ==
    ASSUME JournalAssumption, NEW T \in SUBSET Slots
    PROVE  IsFiniteSet(T) /\ Cardinality(T) \in Nat
<1>1. IsFiniteSet(Slots)
  BY FS_Interval DEF Slots, JournalAssumption
<1> QED  BY <1>1, Part

\* The slots from a later one on are strictly fewer.
LEMMA Latest ==
    ASSUME JournalAssumption, NEW T \in SUBSET Slots, T # {}
    PROVE  \E m \in T : \A t \in T : t <= m
<1> DEFINE Above == {n..LastSlot : n \in T}
<1>1. LastSlot \in Nat /\ T \in SUBSET Nat /\ \A t \in T : t <= LastSlot
  BY DEF Slots, JournalAssumption
<1>2. Above \subseteq FiniteSubsetsOf(Nat) /\ Above # {}
  <2>1. \A n \in T : n..LastSlot \in SUBSET Nat
    BY <1>1
  <2>2. \A n \in T : IsFiniteSet(n..LastSlot)
    BY <1>1, FS_Interval
  <2>3. \A n \in T : n..LastSlot \in FiniteSubsetsOf(Nat)
    BY <2>1, <2>2 DEF FiniteSubsetsOf
  <2> QED  BY <2>3
<1>3. \E B \in Above : \A C \in Above : ~(<<C, B>> \in StrictSubsetOrdering(Nat))
  <2> HIDE DEF Above
  <2> QED  BY <1>2, FS_StrictSubsetOrderingWellFounded, WFMin
<1>4. PICK m \in T : \A n \in T : ~(<<n..LastSlot, m..LastSlot>> \in StrictSubsetOrdering(Nat))
  BY <1>3
<1>5. ASSUME NEW n \in T, m < n
      PROVE  FALSE
  <2>1. n..LastSlot \subseteq m..LastSlot /\ m \in m..LastSlot /\ m \notin n..LastSlot
    BY <1>1, <1>5
  <2> DEFINE ss == <<n..LastSlot, m..LastSlot>>
  <2>2. ss \in (SUBSET Nat) \X (SUBSET Nat) /\ ss[1] \subseteq ss[2] /\ ss[1] # ss[2]
    BY <1>1, <2>1
  <2> HIDE DEF ss
  <2>3. ss \in StrictSubsetOrdering(Nat)
    BY <2>2 DEF StrictSubsetOrdering
  <2> QED  BY <1>4, <2>3 DEF ss
<1>6. \A t \in T : t <= m
  BY <1>1, <1>5
<1> QED  BY <1>6

\* The latest of some slots is the one CHOOSE picks.
LEMMA LastOfIs ==
    ASSUME JournalAssumption, NEW T \in SUBSET Slots, T # {}
    PROVE  LastOf(T) \in T
<1>1. PICK m \in T : \A t \in T : t <= m
  BY Latest
<1> QED  BY <1>1 DEF LastOf

\* There are finitely many entries to be had.
LEMMA KeysFinite == ASSUME JournalAssumption PROVE IsFiniteSet(Keys)
<1> DEFINE P == (Strategies \X Arms) \X (Series \X (Symbols \X (1..(LastSlot - 1))))
           key == [x \in P |-> [strategy |-> x[1][1], arm |-> x[1][2], series |-> x[2][1],
                                symbol |-> x[2][2][1], at |-> x[2][2][2]]]
<1>1. IsFiniteSet(Arms)
  <2>1. IsFiniteSet({"rule"} \cup {"control"})
    BY FS_Singleton, FS_AddElement
  <2>2. Arms = {"rule"} \cup {"control"}
    BY DEF Arms
  <2> QED  BY <2>1, <2>2
<1>2. IsFiniteSet(1..(LastSlot - 1))
  BY FS_Interval DEF JournalAssumption
<1>3. IsFiniteSet(Strategies \X Arms) /\ IsFiniteSet(Symbols \X (1..(LastSlot - 1)))
  BY <1>1, <1>2, FS_Product DEF JournalAssumption
<1>4. IsFiniteSet(Series \X (Symbols \X (1..(LastSlot - 1))))
  BY <1>3, FS_Product DEF JournalAssumption
<1>5. IsFiniteSet(P)
  BY <1>3, <1>4, FS_Product
<1>6. key \in Surjection(P, Keys)
  <2>1. key \in [P -> Keys]
    BY DEF Keys
  <2>2. ASSUME NEW k \in Keys
        PROVE  \E x \in P : key[x] = k
    <3> DEFINE x == <<<<k.strategy, k.arm>>, <<k.series, <<k.symbol, k.at>>>>>>
    <3>1. x \in P /\ key[x] = k
      BY DEF Keys
    <3> QED  BY <3>1
  <2> HIDE DEF P, key
  <2> QED  BY <2>1, <2>2 DEF Surjection
<1> HIDE DEF P, key
<1> QED  BY <1>5, <1>6, FS_Surjection

(***************************************************************************)
(* The earliest of a set of slots                                           *)
(***************************************************************************)

UpTo(T, t) == {u \in T : u <= t}

LEMMA EarliestAre ==
    ASSUME NEW T, NEW k
    PROVE  Earliest(T, k) = {t \in T : Cardinality(UpTo(T, t)) <= k}
  BY DEF Earliest, UpTo

\* They are no more than were asked for: all of them are up to the latest.
LEMMA EarliestSmall ==
    ASSUME JournalAssumption, NEW T \in SUBSET Slots, NEW k \in Nat
    PROVE  Cardinality(Earliest(T, k)) \in Nat /\ Cardinality(Earliest(T, k)) <= k
<1> DEFINE E == Earliest(T, k)
<1>1. E \in SUBSET Slots /\ E \subseteq T
  BY DEF Earliest
<1>2. CASE E = {}
  BY <1>2, FS_EmptySet
<1>3. CASE E # {}
  <2>1. PICK m \in E : \A t \in E : t <= m
    BY <1>1, <1>3, Latest
  <2>2. E \subseteq UpTo(T, m) /\ UpTo(T, m) \in SUBSET Slots
    BY <1>1, <2>1 DEF UpTo
  <2>3. Cardinality(UpTo(T, m)) <= k
    BY <2>1, EarliestAre
  <2>4. IsFiniteSet(UpTo(T, m)) /\ Cardinality(UpTo(T, m)) \in Nat
    BY <2>2, SlotsFinite
  <2>5. Cardinality(E) \in Nat /\ Cardinality(E) <= Cardinality(UpTo(T, m))
    BY <2>2, <2>4, Part
  <2> HIDE DEF E
  <2>6. Cardinality(E) <= k
    BY <2>3, <2>4, <2>5
  <2> QED  BY <2>5, <2>6 DEF E
<1> QED  BY <1>2, <1>3

\* A later slot takes no place of the ones before it, and has one only where
\* there are fewer of them than asked for.
LEMMA EarliestGrows ==
    ASSUME JournalAssumption, NEW T \in SUBSET Slots, NEW k \in Nat,
           NEW u \in Slots, \A t \in T : t < u
    PROVE  /\ Earliest(T, k) \subseteq Earliest(T \cup {u}, k)
           /\ Earliest(T \cup {u}, k) \subseteq Earliest(T, k) \cup {u}
           /\ Cardinality(Earliest(T, k)) = k => Earliest(T \cup {u}, k) = Earliest(T, k)
<1> DEFINE U == T \cup {u}
<1>1. u \in Int /\ \A t \in T : t \in Int /\ t < u
  BY DEF Slots
<1>2. \A t \in T : UpTo(U, t) = UpTo(T, t)
  BY <1>1 DEF UpTo
<1>3. Earliest(T, k) \subseteq Earliest(U, k) /\ Earliest(U, k) \subseteq Earliest(T, k) \cup {u}
  <2> HIDE DEF U
  <2>1. U = T \cup {u}
    BY DEF U
  <2> QED  BY <1>2, <2>1, EarliestAre
<1>4. ASSUME Cardinality(Earliest(T, k)) = k
      PROVE  Earliest(U, k) = Earliest(T, k)
  <2> SUFFICES ASSUME u \in Earliest(U, k)
               PROVE  FALSE
    BY <1>3
  <2>1. u \notin T
    BY <1>1
  <2>2. \A v \in U : v <= u
    BY <1>1
  <2>3. UpTo(U, u) = U
    BY <2>2 DEF UpTo
  <2>4. IsFiniteSet(T) /\ Cardinality(T) \in Nat
    BY SlotsFinite
  <2>5. Cardinality(U) = Cardinality(T) + 1
    BY <2>1, <2>4, FS_AddElement
  <2>6. Cardinality(U) <= k
    BY <2>3, EarliestAre
  <2>7. Earliest(T, k) \in SUBSET T
    BY DEF Earliest
  <2>8. Cardinality(Earliest(T, k)) <= Cardinality(T)
    BY <2>4, <2>7, Part
  <2> HIDE DEF U
  <2> QED  BY <1>4, <2>4, <2>5, <2>6, <2>8
<1> QED  BY <1>3, <1>4

(***************************************************************************)
(* Rows                                                                     *)
(***************************************************************************)

RowType == [outcome : Outcomes, side : Sides, levels : BOOLEAN, r : Int,
            closedAt : Slots \cup {0}, bars : Nat, misread : BOOLEAN, retracted : Outcomes]

\* Only rows of the hourly series were written without levels, and only rows of
\* the faster ones are ever withdrawn: nothing that is retired was withdrawn.
Rows ==
    /\ TypeOK
    /\ \A k \in Keys :
          /\ entry[k].outcome = "none" => entry[k].retracted = "none"
          /\ entry[k].outcome # "none" /\ ~entry[k].levels => k.series \in Hourly
          /\ k.series \in Hourly => entry[k].retracted = "none"

\* The rank of a stamp is a number.
LEMMA DenseType ==
    ASSUME JournalAssumption, NEW f, NEW live \in SUBSET Keys
    PROVE  Dense(f, live) \in [Keys -> Nat]
<1>1. ASSUME NEW k \in Keys
      PROVE  Cardinality({f[j] : j \in {i \in live : f[i] < f[k]}}) \in Nat
  <2> DEFINE S == {i \in live : f[i] < f[k]}
             T == {f[j] : j \in S}
             of == [j \in S |-> f[j]]
  <2>1. IsFiniteSet(live)
    BY KeysFinite, Part
  <2>2. IsFiniteSet(S)
    <3>1. S \in SUBSET live
      OBVIOUS
    <3> HIDE DEF S
    <3> QED  BY <2>1, <3>1, Part
  <2>3. of \in Surjection(S, T)
    BY DEF Surjection
  <2> HIDE DEF S, T, of
  <2>4. IsFiniteSet(T)
    BY <2>2, <2>3, FS_Surjection
  <2>5. Cardinality(T) \in Nat
    BY <2>4, FS_CardinalityType
  <2> QED  BY <2>5 DEF T, S
<1>2. 0 \in Nat
  OBVIOUS
<1> QED  BY <1>1, <1>2 DEF Dense

LEMMA StampType ==
    ASSUME JournalAssumption, NEW keys, NEW value, NEW live \in SUBSET Keys
    PROVE  Stamped(keys, value, live) \in [Keys -> Nat]
  BY DenseType DEF Stamped

LEMMA EvidenceIs ==
    ASSUME JournalAssumption, NEW k \in Keys
    PROVE  /\ Evidence(k) \in SUBSET Slots /\ Evidence(k) = MarketRecord(k)
           /\ Cardinality(Evidence(k)) \in Nat /\ Cardinality(Evidence(k)) <= Horizon
<1> DEFINE C == {t \in ClosedBars(k.series, k.symbol) : t > k.at}
           M == {t \in Slots : k.at < t /\ t < now /\ Stored(k.series, k.symbol, t)}
<1>1. C = M /\ C \in SUBSET Slots
  BY DEF ClosedBars, Keys, Slots, JournalAssumption
<1>2. Horizon \in Nat
  BY DEF JournalAssumption
<1> HIDE DEF C, M
<1>3. Cardinality(Earliest(C, Horizon)) \in Nat /\ Cardinality(Earliest(C, Horizon)) <= Horizon
  BY <1>1, <1>2, EarliestSmall
<1>4. Earliest(C, Horizon) \in SUBSET Slots
  BY <1>1 DEF Earliest
<1> QED  BY <1>1, <1>3, <1>4 DEF Evidence, MarketRecord, C, M

\* Some bar touched a level where there is an outcome.
LEMMA OutcomeIs ==
    ASSUME NEW k, NEW T
    PROVE  /\ Outcome(k, T) \in {"open", "loss", "win"}
           /\ Outcome(k, T) # "open" => T # {}
  BY DEF Outcome

\* What a pass makes of an open entry.
Retired(e) ==
    [[e EXCEPT !.retracted = "none"] EXCEPT !.outcome = "excluded", !.closedAt = now]
GivenUp(e) == [e EXCEPT !.outcome = "abandoned", !.misread = FALSE, !.closedAt = now]
Scored(e, v, last, count, r) ==
    [e EXCEPT !.outcome = v, !.misread = FALSE, !.closedAt = last, !.bars = count, !.r = r]
Return(k, v) == IF v = "win" THEN TargetOf(k.arm) ELSE -Stop

LEMMA ExaminedIs ==
    ASSUME Rows, NEW k \in Keys
    PROVE  LET e == entry[k] T == Evidence(k) v == Outcome(k, T) IN
           \/ Examined(k) = e
           \/ ~e.levels /\ Examined(k) = Retired(e)
           \/ /\ e.levels /\ v # "open"
              /\ Examined(k) = Scored(e, v, LastOf(T), Cardinality(T), Return(k, v))
           \/ /\ e.levels /\ v = "open" /\ Cardinality(T) >= Horizon
              /\ Examined(k) = GivenUp(e)
<1> DEFINE e == entry[k]
           T == Evidence(k)
           v == Outcome(k, T)
<1>1. e \in RowType
  BY DEF Rows, TypeOK, RowType
<1> HIDE DEF T, v
<1>2. CASE k.symbol \notin Listed
  BY <1>2 DEF Examined
<1>3. CASE k.symbol \in Listed /\ ~e.levels
  BY <1>3 DEF Examined, Retired
<1>4. CASE k.symbol \in Listed /\ e.levels /\ v # "open"
  <2> DEFINE row == [e EXCEPT !.retracted = "none"]
             verdict == [row EXCEPT !.outcome = v, !.misread = FALSE, !.closedAt = LastOf(T),
                                    !.bars = Cardinality(T),
                                    !.r = IF v = "win" THEN TargetOf(k.arm) ELSE -Stop]
  <2>1. row.levels = e.levels
    BY <1>1 DEF RowType
  <2>2. Examined(k) = WithRetraction(e, verdict)
    BY <1>4, <2>1 DEF Examined, T, v
  <2>3. WithRetraction(e, verdict) = Scored(e, v, LastOf(T), Cardinality(T), Return(k, v))
    BY <1>1 DEF WithRetraction, Scored, Return, RowType
  <2> QED  BY <1>4, <2>2, <2>3 DEF T, v
<1>5. CASE k.symbol \in Listed /\ e.levels /\ v = "open" /\ Cardinality(T) >= Horizon
  <2> DEFINE row == [e EXCEPT !.retracted = "none"]
             verdict == [row EXCEPT !.outcome = "abandoned", !.misread = FALSE, !.closedAt = now]
  <2>1. row.levels = e.levels
    BY <1>1 DEF RowType
  <2>2. Examined(k) = WithRetraction(e, verdict)
    BY <1>5, <2>1 DEF Examined, T, v
  <2>3. WithRetraction(e, verdict) = GivenUp(e)
    BY <1>1 DEF WithRetraction, GivenUp, RowType
  <2> QED  BY <1>5, <2>2, <2>3 DEF T, v
<1>6. CASE k.symbol \in Listed /\ e.levels /\ v = "open" /\ ~(Cardinality(T) >= Horizon)
  BY <1>1, <1>6 DEF Examined, T, v, RowType
<1> QED  BY <1>2, <1>3, <1>4, <1>5, <1>6 DEF T, v

\* The row a pass leaves is a row of the same decision.
LEMMA ExaminedType ==
    ASSUME JournalAssumption, Rows, NEW k \in Open
    PROVE  LET e == entry[k] x == Examined(k) IN
           /\ x \in RowType /\ x.side = e.side /\ x.levels = e.levels
           /\ x.outcome = "open" => x = e
           /\ x.outcome # "none"
           /\ e.retracted # "none" => x.retracted # "none"
           /\ k.series \in Hourly => x.retracted = "none"
<1> DEFINE e == entry[k]
           x == Examined(k)
<1>1. k \in Keys /\ e \in RowType /\ e.outcome = "open" /\ now \in Slots
  BY DEF Open, Rows, TypeOK, RowType
<1>2. /\ ~e.levels => k.series \in Hourly
      /\ k.series \in Hourly => e.retracted = "none"
  BY <1>1 DEF Rows
<1>3. CASE x = e
  BY <1>1, <1>2, <1>3
<1>4. CASE ~e.levels /\ x = Retired(e)
  <2> HIDE DEF e, x
  <2>1. /\ x \in RowType /\ x.side = e.side /\ x.levels = e.levels
        /\ x.outcome = "excluded" /\ x.retracted = "none"
    BY <1>1, <1>4 DEF Retired, RowType, Outcomes, Verdicts
  <2> QED  BY <1>2, <1>4, <2>1 DEF x, e
<1>5. CASE /\ Outcome(k, Evidence(k)) # "open"
           /\ x = Scored(e, Outcome(k, Evidence(k)), LastOf(Evidence(k)),
                         Cardinality(Evidence(k)), Return(k, Outcome(k, Evidence(k))))
  <2> DEFINE v == Outcome(k, Evidence(k))
             last == LastOf(Evidence(k))
             count == Cardinality(Evidence(k))
             r == Return(k, Outcome(k, Evidence(k)))
  <2>1. v \in {"loss", "win"} /\ last \in Slots /\ count \in Nat
    BY <1>1, <1>5, OutcomeIs, EvidenceIs, LastOfIs
  <2>2. r \in Int
    BY DEF Return, TargetOf, JournalAssumption
  <2> HIDE DEF e, x, v, last, count, r
  <2>3. /\ x \in RowType /\ x.side = e.side /\ x.levels = e.levels
        /\ x.outcome = v /\ x.retracted = e.retracted
    BY <1>1, <1>5, <2>1, <2>2 DEF Scored, RowType, Outcomes, Verdicts, v, last, count, r
  <2> QED  BY <1>2, <2>1, <2>3 DEF x, e
<1>6. CASE x = GivenUp(e)
  <2> HIDE DEF e, x
  <2>1. /\ x \in RowType /\ x.side = e.side /\ x.levels = e.levels
        /\ x.outcome = "abandoned" /\ x.retracted = e.retracted
    BY <1>1, <1>6 DEF GivenUp, RowType, Outcomes, Verdicts
  <2> QED  BY <1>2, <2>1 DEF x, e
<1> QED  BY <1>1, <1>3, <1>4, <1>5, <1>6, ExaminedIs

LEMMA NoRowType == NoRow \in RowType /\ NoRow.retracted = "none" /\ NoRow.outcome = "none"
  BY DEF NoRow, RowType, Outcomes, Verdicts, Sides

LEMMA OpenRowType ==
    ASSUME NEW side \in Sides
    PROVE  /\ OpenRow(side, TRUE) \in RowType /\ OpenRow(side, FALSE) \in RowType
           /\ OpenRow(side, TRUE).retracted = "none" /\ OpenRow(side, FALSE).retracted = "none"
           /\ OpenRow(side, TRUE).outcome = "open" /\ OpenRow(side, FALSE).outcome = "open"
           /\ OpenRow(side, TRUE).levels
<1>1. "open" \in Outcomes
  BY DEF Outcomes
<1> QED  BY <1>1, NoRowType DEF OpenRow, RowType

LEMMA RowsInit == JournalAssumption /\ Init => Rows
<1> SUFFICES ASSUME JournalAssumption, Init
             PROVE  Rows
  OBVIOUS
<1>1. \A k \in Keys : k.at \in Slots
  BY DEF Keys, Slots, JournalAssumption
<1>2. -Stop \in Int /\ 0 \in Nat
  BY DEF JournalAssumption
<1>3. ASSUME NEW k \in Keys
      PROVE  /\ entry[k] \in RowType /\ entry[k].retracted = "none"
             /\ entry[k].outcome # "none" /\ ~entry[k].levels => k.series \in Hourly
  <2>1. CASE k \in Unscored
    <3>1. entry[k] = OpenRow(1, FALSE) /\ k.series \in Hourly
      BY <2>1 DEF Init, JournalAssumption
    <3>2. 1 \in Sides
      BY DEF Sides
    <3> QED  BY <3>1, <3>2, OpenRowType
  <2>2. CASE k \notin Unscored /\ k \in Misread
    <3>1. entry[k] = [OpenRow(1, TRUE) EXCEPT !.outcome = "loss", !.r = -Stop,
                                              !.closedAt = k.at, !.misread = TRUE]
      BY <2>2 DEF Init
    <3> QED
      BY <1>1, <1>2, <3>1 DEF OpenRow, NoRow, RowType, Outcomes, Verdicts, Sides
  <2>3. CASE k \notin Unscored /\ k \notin Misread
    <3>1. entry[k] = NoRow
      BY <2>3 DEF Init
    <3> QED  BY <3>1, NoRowType
  <2> QED  BY <2>1, <2>2, <2>3
<1>4. entry \in [Keys -> RowType]
  BY <1>3 DEF Init
<1>5. bar \in [Series -> [Symbols -> [Slots -> [high : Int, low : Int, partial : BOOLEAN]]]]
  <2>1. NoBar \in [high : Int, low : Int, partial : BOOLEAN]
    BY DEF NoBar
  <2>2. bar = [s \in Series |-> [y \in Symbols |-> [t \in Slots |-> NoBar]]]
    BY DEF Init
  <2> QED  BY <2>1, <2>2
<1>6. now = FixedAt /\ stamp = [k \in Keys |-> 0] /\ rescores = 0
  BY DEF Init
<1>7. now \in Slots /\ stamp \in [Keys -> Nat] /\ rescores \in 0..MaxRescores
  BY <1>6 DEF JournalAssumption
<1> QED  BY <1>3, <1>4, <1>5, <1>7 DEF Rows, TypeOK, RowType

\* A bar that arrives, as Arrive has it.
Arrival(s, y, t, rng) ==
    /\ \A u \in Slots : u > t => ~Stored(s, y, u)
    /\ \A u \in Slots : u < t => ~bar[s][y][u].partial
    /\ Stored(s, y, t) => bar[s][y][t].partial /\ t < now
    /\ t = now => s = Public
    /\ bar' = [bar EXCEPT ![s][y][t] =
                 [high |-> rng.high, low |-> rng.low, partial |-> t = now]]
    /\ UNCHANGED <<now, entry, stamp, rescores>>

LEMMA ArriveIs ==
    ASSUME NEW s, NEW y, Arrive(s, y)
    PROVE  \E t \in 1..now, rng \in Ranges[s] : Arrival(s, y, t, rng)
  BY DEF Arrive, Arrival

LEMMA RowsStep == JournalAssumption /\ Rows /\ [Next]_vars => Rows'
<1> SUFFICES ASSUME JournalAssumption, Rows, [Next]_vars
             PROVE  Rows'
  OBVIOUS
<1>1. /\ now \in Slots /\ entry \in [Keys -> RowType] /\ stamp \in [Keys -> Nat]
      /\ bar \in [Series -> [Symbols -> [Slots -> [high : Int, low : Int, partial : BOOLEAN]]]]
      /\ rescores \in 0..MaxRescores
  BY DEF Rows, TypeOK, RowType
<1>2. CASE Tick
  <2>1. now' \in Slots /\ UNCHANGED <<bar, entry, stamp, rescores>>
    BY <1>1, <1>2 DEF Tick, Slots, JournalAssumption
  <2> QED  BY <2>1 DEF Rows, TypeOK
<1>3. ASSUME NEW s \in Series, NEW y \in Symbols, Arrive(s, y)
      PROVE  Rows'
  <2>1. UNCHANGED <<now, entry, stamp, rescores>>
    BY <1>3 DEF Arrive
  <2>6. PICK t \in 1..now, rng \in Ranges[s] : Arrival(s, y, t, rng)
    BY <1>3, ArriveIs
  <2>2. bar' = [bar EXCEPT ![s][y][t] = [high |-> rng.high, low |-> rng.low, partial |-> t = now]]
    BY <2>6 DEF Arrival
  <2>3. t \in Slots /\ rng.high \in Int /\ rng.low \in Int
    BY <1>1 DEF Slots, JournalAssumption
  <2>4. [high |-> rng.high, low |-> rng.low, partial |-> t = now]
          \in [high : Int, low : Int, partial : BOOLEAN]
    BY <2>3
  <2>5. bar' \in [Series -> [Symbols -> [Slots -> [high : Int, low : Int, partial : BOOLEAN]]]]
    BY <1>1, <2>2, <2>3, <2>4
  <2> QED  BY <2>1, <2>5 DEF Rows, TypeOK
<1>4. ASSUME entry' \in [Keys -> RowType], stamp' \in [Keys -> Nat], rescores' \in 0..MaxRescores,
             UNCHANGED <<now, bar>>,
             \A k \in Keys :
                /\ entry'[k].outcome = "none" => entry'[k].retracted = "none"
                /\ entry'[k].outcome # "none" /\ ~entry'[k].levels => k.series \in Hourly
                /\ k.series \in Hourly => entry'[k].retracted = "none"
      PROVE  Rows'
  BY <1>4 DEF Rows, TypeOK, RowType
<1>5. ASSUME NEW s \in Series, Record(s)
      PROVE  Rows'
  <2>1. PICK picks \in Picks :
          LET new == NewKeys(s, Instant(s), picks) IN
          /\ entry' = [k \in Keys |-> IF k \in new THEN Row(k, picks) ELSE entry[k]]
          /\ stamp' = Stamped(new, LatestStamp, Open \cup new)
    BY <1>5 DEF Record
  <2> DEFINE new == NewKeys(s, Instant(s), picks)
  <2>2. new \subseteq Keys /\ Open \cup new \in SUBSET Keys
    BY DEF NewKeys, Open
  <2>3. stamp' \in [Keys -> Nat]
    BY <2>1, <2>2, StampType
  <2>4. ASSUME NEW k \in new
        PROVE  /\ Row(k, picks) \in RowType /\ Row(k, picks).retracted = "none"
               /\ Row(k, picks).outcome = "open" /\ Row(k, picks).levels
    <3> DEFINE side == IF k.arm = "rule" THEN picks[k.strategy][k.symbol] ELSE Coin[k.symbol][k.at]
    <3>1. /\ k.symbol \in Symbols /\ k.strategy \in Strategies /\ k.at \in Slots
          /\ picks[k.strategy][k.symbol] # 0
      BY DEF NewKeys, Keys, Slots, JournalAssumption
    <3>2. picks[k.strategy][k.symbol] \in Sides /\ Coin[k.symbol][k.at] \in Sides
      BY <3>1 DEF Picks, Sides, JournalAssumption
    <3>3. side \in Sides
      BY <3>2
    <3>4. Row(k, picks) = OpenRow(side, TRUE)
      BY DEF Row
    <3> HIDE DEF side, new
    <3> QED  BY <3>3, <3>4, OpenRowType
  <2>5. UNCHANGED <<now, bar, rescores>>
    BY <1>5 DEF Record
  <2>6. ASSUME NEW k \in Keys
        PROVE  entry'[k] = IF k \in new THEN Row(k, picks) ELSE entry[k]
    BY <2>1
  <2> HIDE DEF new
  <2>7. entry' \in [Keys -> RowType]
    BY <1>1, <2>1, <2>4, <2>6 DEF new
  <2>8. ASSUME NEW k \in Keys
        PROVE  /\ entry'[k].outcome = "none" => entry'[k].retracted = "none"
               /\ entry'[k].outcome # "none" /\ ~entry'[k].levels => k.series \in Hourly
               /\ k.series \in Hourly => entry'[k].retracted = "none"
    BY <2>4, <2>6 DEF Rows
  <2> QED  BY <1>1, <1>4, <2>3, <2>5, <2>7, <2>8
<1>6. ASSUME NEW k \in Keys, OrderWritten(k)
      PROVE  Rows'
  <2>1. Open \in SUBSET Keys
    BY DEF Open
  <2>2. stamp' \in [Keys -> Nat] /\ UNCHANGED <<now, bar, entry, rescores>>
    BY <1>6, <2>1, StampType DEF OrderWritten
  <2> QED  BY <2>2 DEF Rows, TypeOK
<1>7. CASE ResolvePass
  <2>1. PICK B \in SUBSET Open :
          LET after == [k \in Keys |-> IF k \in B THEN Examined(k) ELSE entry[k]] IN
          /\ entry' = after
          /\ stamp' = Stamped(B, LatestStamp, {k \in Open : after[k].outcome = "open"})
    BY <1>7 DEF ResolvePass
  <2> DEFINE after == [k \in Keys |-> IF k \in B THEN Examined(k) ELSE entry[k]]
             live == {k \in Open : after[k].outcome = "open"}
  <2>2. live \in SUBSET Keys
    BY DEF Open
  <2>3. stamp' = Stamped(B, LatestStamp, live)
    BY <2>1
  <2>4. stamp' \in [Keys -> Nat]
    <3> HIDE DEF live
    <3> QED  BY <2>2, <2>3, StampType
  <2>5. UNCHANGED <<now, bar, rescores>>
    BY <1>7 DEF ResolvePass
  <2>6. ASSUME NEW k \in Keys
        PROVE  entry'[k] = IF k \in B THEN Examined(k) ELSE entry[k]
    BY <2>1
  <2>7. ASSUME NEW k \in Keys
        PROVE  /\ entry'[k] \in RowType
               /\ entry'[k].outcome = "none" => entry'[k].retracted = "none"
               /\ entry'[k].outcome # "none" /\ ~entry'[k].levels => k.series \in Hourly
               /\ k.series \in Hourly => entry'[k].retracted = "none"
    <3>1. CASE k \in B
      <4>1. k \in Open /\ entry'[k] = Examined(k)
        BY <2>6, <3>1
      <4>2. ~entry[k].levels => k.series \in Hourly
        BY <4>1 DEF Rows, Open
      <4> QED  BY <4>1, <4>2, ExaminedType
    <3>2. CASE k \notin B
      BY <1>1, <2>6, <3>2 DEF Rows
    <3> QED  BY <3>1, <3>2
  <2>8. entry' \in [Keys -> RowType]
    BY <2>1, <2>7
  <2> QED  BY <1>1, <1>4, <2>4, <2>5, <2>7, <2>8
<1>8. CASE Rescore
  <2>1. Open \cup RescoreCandidates \in SUBSET Keys
    BY DEF Open, RescoreCandidates
  <2>2. stamp' \in [Keys -> Nat]
    BY <1>8, <2>1, StampType DEF Rescore
  <2>3. rescores' \in 0..MaxRescores /\ UNCHANGED <<now, bar>>
    <3>1. rescores < MaxRescores /\ rescores' = rescores + 1 /\ UNCHANGED <<now, bar>>
      BY <1>8 DEF Rescore
    <3>2. MaxRescores \in Nat
      BY DEF JournalAssumption
    <3> QED  BY <1>1, <3>1, <3>2
  <2>4. ASSUME NEW k \in Keys
        PROVE  /\ entry'[k] \in RowType
               /\ entry'[k].outcome = "none" => entry'[k].retracted = "none"
               /\ entry'[k].outcome # "none" /\ ~entry'[k].levels => k.series \in Hourly
               /\ k.series \in Hourly => entry'[k].retracted = "none"
    <3>1. CASE k \in RescoreCandidates
      <4> DEFINE e == entry[k]
      <4>1. /\ entry'[k] = [e EXCEPT !.outcome = "open", !.r = 0, !.closedAt = 0, !.bars = 0,
                                     !.retracted = e.outcome]
            /\ e \in RowType
        BY <1>1, <1>8, <3>1 DEF Rescore
      <4> HIDE DEF e
      <4>2. entry'[k] \in RowType /\ entry'[k].levels = e.levels /\ entry'[k].outcome = "open"
        <5>1. "open" \in Outcomes /\ 0 \in Slots \cup {0} /\ 0 \in Nat /\ 0 \in Int
          BY DEF Outcomes
        <5> QED  BY <4>1, <5>1 DEF RowType
      <4>3. k.series \notin Hourly /\ e.outcome # "none"
        BY <3>1 DEF RescoreCandidates, Closed, Verdicts, e
      <4> QED  BY <4>2, <4>3 DEF Rows, e
    <3>2. CASE k \notin RescoreCandidates
      <4>1. entry'[k] = entry[k]
        BY <1>8, <3>2 DEF Rescore
      <4> QED  BY <1>1, <4>1 DEF Rows
    <3> QED  BY <3>1, <3>2
  <2>5. entry' \in [Keys -> RowType]
    <3>1. entry' = [k \in Keys |-> entry'[k]]
      BY <1>8 DEF Rescore
    <3> QED  BY <2>4, <3>1
  <2> QED  BY <1>4, <2>2, <2>3, <2>4, <2>5
<1>9. CASE UNCHANGED vars
  BY <1>9 DEF vars, Rows, TypeOK
<1> QED  BY <1>2, <1>3, <1>5, <1>6, <1>7, <1>8, <1>9 DEF Next

(***************************************************************************)
(* The market's record                                                      *)
(***************************************************************************)

BarOf(k, t) == bar[k.series][k.symbol][t]
Candidates(k) == {t \in Slots : k.at < t /\ t < now /\ Stored(k.series, k.symbol, t)}

LEMMA RecordIs ==
    ASSUME NEW k
    PROVE  /\ MarketRecord(k) = Earliest(Candidates(k), Horizon)
           /\ Candidates(k) \in SUBSET Slots /\ MarketRecord(k) \subseteq Candidates(k)
  BY DEF MarketRecord, Candidates, Earliest

\* A bar that is stored is later than those that were, or replaces the forming
\* version of the latest one; a bar that closes is later than those that had.
LEMMA ArrivesLast ==
    ASSUME JournalAssumption, Rows, NEW k \in Keys,
           Tick \/ \E s \in Series, y \in Symbols : Arrive(s, y)
    PROVE  /\ \/ Candidates(k)' = Candidates(k)
              \/ \E u \in Slots : /\ \A t \in Candidates(k) : t < u
                                  /\ Candidates(k)' = Candidates(k) \cup {u}
           /\ \A t \in Candidates(k) : ~BarOf(k, t).partial =>
                 \A v \in Candidates(k) : v <= t => BarOf(k, v)' = BarOf(k, v)
<1>1. now \in Slots /\ Slots \subseteq Int /\ k.series \in Series /\ k.symbol \in Symbols
      /\ k.at \in Int
  BY DEF Rows, TypeOK, Slots, Keys
<1>2. CASE Tick
  <2>1. now' = now + 1 /\ bar' = bar
    BY <1>2 DEF Tick
  <2>2. Candidates(k)' = IF k.at < now /\ Stored(k.series, k.symbol, now)
                         THEN Candidates(k) \cup {now} ELSE Candidates(k)
    <3>1. \A t \in Slots : t < now' <=> t < now \/ t = now
      BY <1>1, <2>1
    <3>2. Candidates(k)' = {t \in Slots : k.at < t /\ (t < now \/ t = now)
                                          /\ Stored(k.series, k.symbol, t)}
      BY <2>1, <3>1 DEF Candidates, Stored
    <3> QED  BY <1>1, <3>2 DEF Candidates
  <2>3. \A t \in Candidates(k) : t < now
    BY DEF Candidates
  <2> QED  BY <1>1, <2>1, <2>2, <2>3 DEF BarOf
<1>3. ASSUME NEW s \in Series, NEW y \in Symbols, Arrive(s, y)
      PROVE  /\ \/ Candidates(k)' = Candidates(k)
                \/ \E u \in Slots : /\ \A t \in Candidates(k) : t < u
                                    /\ Candidates(k)' = Candidates(k) \cup {u}
             /\ \A t \in Candidates(k) : ~BarOf(k, t).partial =>
                   \A v \in Candidates(k) : v <= t => BarOf(k, v)' = BarOf(k, v)
  <2>6. PICK u \in 1..now, rng \in Ranges[s] : Arrival(s, y, u, rng)
    BY <1>3, ArriveIs
  <2>1. /\ \A v \in Slots : v > u => ~Stored(s, y, v)
        /\ Stored(s, y, u) => bar[s][y][u].partial /\ u < now
        /\ bar' = [bar EXCEPT ![s][y][u] =
                     [high |-> rng.high, low |-> rng.low, partial |-> u = now]]
    BY <2>6 DEF Arrival
  <2>2. now' = now /\ u \in Slots /\ rng.high \in Nat \ {0}
    <3>1. now' = now
      BY <1>3 DEF Arrive
    <3>2. u \in Slots
      BY <1>1 DEF Slots, JournalAssumption
    <3>3. rng \in [high : Nat \ {0}, low : Int]
      BY DEF JournalAssumption
    <3> QED  BY <3>1, <3>2, <3>3
  <2>3. bar \in [Series -> [Symbols -> [Slots -> [high : Int, low : Int, partial : BOOLEAN]]]]
    BY DEF Rows, TypeOK
  <2>4. CASE ~(s = k.series /\ y = k.symbol)
    <3>1. \A t \in Slots : BarOf(k, t)' = BarOf(k, t)
      BY <1>1, <2>1, <2>2, <2>3, <2>4 DEF BarOf
    <3>2. Candidates(k)' = Candidates(k)
      BY <2>2, <3>1 DEF Candidates, Stored, BarOf
    <3> QED  BY <3>1, <3>2 DEF Candidates
  <2>5. CASE s = k.series /\ y = k.symbol
    <3>1. \A t \in Slots : t # u => BarOf(k, t)' = BarOf(k, t)
      BY <1>1, <2>1, <2>2, <2>3, <2>5 DEF BarOf
    <3>2. BarOf(k, u)' = [high |-> rng.high, low |-> rng.low, partial |-> u = now]
      BY <1>1, <2>1, <2>2, <2>3, <2>5 DEF BarOf
    <3>3. BarOf(k, u)'.high # NoBar.high
      BY <2>2, <3>2 DEF NoBar
    <3>4. BarOf(k, u)' # NoBar
      BY <3>3
    <3>5. \A t \in Slots : t \in Candidates(k) <=> k.at < t /\ t < now /\ BarOf(k, t) # NoBar
      BY DEF Candidates, Stored, BarOf
    <3>6. \A t \in Slots : t \in Candidates(k)' <=> k.at < t /\ t < now /\ BarOf(k, t)' # NoBar
      BY <2>2 DEF Candidates, Stored, BarOf
    <3>7. u \in Int /\ \A t \in Candidates(k) : t \in Slots /\ t \in Int /\ t <= u
      <4>1. u \in Int
        BY <1>1, <2>2
      <4>2. \A t \in Candidates(k) : t \in Slots /\ ~(t > u)
        BY <2>1, <2>5 DEF Candidates
      <4>3. \A t \in Candidates(k) : t \in Int
        BY <1>1, <4>2
      <4> QED  BY <4>1, <4>2, <4>3
    <3> DEFINE C == Candidates(k)
               D == Candidates(k)'
    <3>8. \A t : t # u => (t \in D <=> t \in C)
      <4>1. \A t \in Slots : t # u => (t \in D <=> t \in C)
        BY <3>1, <3>5, <3>6
      <4>2. C \subseteq Slots /\ D \subseteq Slots
        BY DEF Candidates
      <4> HIDE DEF C, D
      <4> QED  BY <4>1, <4>2
    <3>9. u \in C => u \in D
      BY <2>2, <3>4, <3>5, <3>6
    <3>10. \/ D = C
           \/ \E w \in Slots : (\A t \in C : t < w) /\ D = C \cup {w}
      <4>1. \A t \in C : t \in Int /\ t <= u
        BY <3>7
      <4> HIDE DEF C, D
      <4>2. CASE u \in C <=> u \in D
        <5>1. \A t : t \in D <=> t \in C
          BY <3>8, <4>2
        <5> QED  BY <5>1
      <4>3. CASE u \notin C /\ u \in D
        <5>1. \A t \in C : t < u
          BY <3>7, <4>1, <4>3
        <5>2. \A t : t \in D <=> t \in C \cup {u}
          BY <3>8, <4>3
        <5>3. D = C \cup {u}
          BY <5>2
        <5> QED  BY <2>2, <5>1, <5>3
      <4> QED  BY <3>9, <4>2, <4>3
    <3>11. ASSUME NEW t \in Candidates(k), ~BarOf(k, t).partial,
                  NEW v \in Candidates(k), v <= t
           PROVE  BarOf(k, v)' = BarOf(k, v)
      <4>1. u \in Candidates(k) => BarOf(k, u).partial
        BY <2>1, <2>5, <3>5, <2>2 DEF Stored, BarOf
      <4>2. t # u
        BY <3>11, <4>1
      <4>3. v # u
        <5>1. t \in Int /\ v \in Int /\ u \in Int /\ t <= u
          BY <3>7
        <5> QED  BY <3>11, <4>2, <5>1
      <4> QED  BY <3>1, <3>7, <4>3
    <3> QED  BY <3>10, <3>11
  <2> QED  BY <2>4, <2>5
<1> QED  BY <1>2, <1>3

\* What a bar did to an entry depends on the bar and the entry's side.
LEMMA SameBar ==
    ASSUME NEW k, NEW t, BarOf(k, t)' = BarOf(k, t), entry'[k].side = entry[k].side
    PROVE  /\ HitsStop(k, t)' <=> HitsStop(k, t)
           /\ HitsTarget(k, t)' <=> HitsTarget(k, t)
           /\ Touches(k, t)' <=> Touches(k, t)
  BY DEF HitsStop, HitsTarget, Touches, BarOf

(***************************************************************************)
(* Verdicts                                                                 *)
(***************************************************************************)

\* A verdict and what it rests on: bars that will not be restated, and none to
\* come before them.
Final(k, t) == ~BarOf(k, t).partial /\ Decides(k, t)
Grounded(k) ==
    ~entry[k].misread =>
        /\ entry[k].outcome = "win" => \E t \in MarketRecord(k) : Final(k, t) /\ HitsTarget(k, t)
        /\ entry[k].outcome = "loss" => \E t \in MarketRecord(k) : Final(k, t) /\ HitsStop(k, t)
        /\ entry[k].outcome = "abandoned" =>
              /\ Cardinality(MarketRecord(k)) = Horizon
              /\ \A t \in MarketRecord(k) : ~BarOf(k, t).partial /\ ~Decides(k, t)

\* The record of the market up to a bar that is final is final.
LEMMA RecordSettles ==
    ASSUME JournalAssumption, Rows, NEW k \in Keys,
           Tick \/ \E s \in Series, y \in Symbols : Arrive(s, y)
    PROVE  /\ \A t \in MarketRecord(k) : ~BarOf(k, t).partial =>
                 /\ t \in MarketRecord(k)'
                 /\ \A v \in MarketRecord(k)' : v <= t => v \in MarketRecord(k)
                 /\ \A v \in MarketRecord(k) : v <= t => BarOf(k, v)' = BarOf(k, v)
           /\ Cardinality(MarketRecord(k)) = Horizon => MarketRecord(k)' = MarketRecord(k)
<1> DEFINE C == Candidates(k)
           D == Candidates(k)'
           M == MarketRecord(k)
           N == MarketRecord(k)'
<1>1. /\ M = Earliest(C, Horizon) /\ M \subseteq C
      /\ C \in SUBSET Slots /\ Slots \subseteq Int /\ Horizon \in Nat
  BY RecordIs DEF Slots, JournalAssumption
<1>2. N = Earliest(D, Horizon)
  BY DEF MarketRecord, Candidates
<1>3. /\ D = C \/ \E u \in Slots : (\A t \in C : t < u) /\ D = C \cup {u}
      /\ \A t \in C : ~BarOf(k, t).partial => \A v \in C : v <= t => BarOf(k, v)' = BarOf(k, v)
  BY ArrivesLast
<1> HIDE DEF C, D, M, N
<1>4. /\ M \subseteq N
      /\ \A v \in N, t \in M : v <= t => v \in M
      /\ Cardinality(M) = Horizon => N = M
  <2>1. CASE D = C
    BY <1>1, <1>2, <2>1
  <2>2. ASSUME NEW u \in Slots, \A t \in C : t < u, D = C \cup {u}
        PROVE  /\ M \subseteq N
               /\ \A v \in N, t \in M : v <= t => v \in M
               /\ Cardinality(M) = Horizon => N = M
    <3>1. M \subseteq N /\ N \subseteq M \cup {u} /\ (Cardinality(M) = Horizon => N = M)
      BY <1>1, <1>2, <2>2, EarliestGrows
    <3>2. \A t \in M : ~(u <= t)
      BY <1>1, <2>2
    <3> QED  BY <3>1, <3>2
  <2> QED  BY <1>3, <2>1, <2>2
<1>5. \A t \in M : ~BarOf(k, t).partial => \A v \in M : v <= t => BarOf(k, v)' = BarOf(k, v)
  BY <1>1, <1>3
<1>6. ASSUME NEW t \in M, ~BarOf(k, t).partial
      PROVE  /\ t \in N
             /\ \A v \in N : v <= t => v \in M
             /\ \A v \in M : v <= t => BarOf(k, v)' = BarOf(k, v)
  BY <1>4, <1>5, <1>6
<1> QED  BY <1>4, <1>6 DEF M, N

\* A verdict that is grounded stays so however late and however often bars come.
LEMMA StaysGrounded ==
    ASSUME JournalAssumption, Rows, NEW k \in Keys, Grounded(k),
           Tick \/ \E s \in Series, y \in Symbols : Arrive(s, y)
    PROVE  Grounded(k)'
<1>1. entry' = entry
  BY DEF Tick, Arrive
<1>2. MarketRecord(k) \subseteq Slots /\ Slots \subseteq Int
  BY RecordIs DEF Slots
<1>3. ASSUME NEW t \in MarketRecord(k), Final(k, t)
      PROVE  /\ t \in MarketRecord(k)' /\ Final(k, t)'
             /\ HitsStop(k, t)' <=> HitsStop(k, t)
             /\ HitsTarget(k, t)' <=> HitsTarget(k, t)
  <2>1. /\ t \in MarketRecord(k)' /\ t \in Int
        /\ \A v \in MarketRecord(k)' : v <= t => v \in MarketRecord(k)
        /\ \A v \in MarketRecord(k) : v <= t => BarOf(k, v)' = BarOf(k, v)
    BY <1>2, <1>3, RecordSettles DEF Final
  <2>2. BarOf(k, t)' = BarOf(k, t)
    BY <2>1
  <2>3. /\ HitsStop(k, t)' <=> HitsStop(k, t)
        /\ HitsTarget(k, t)' <=> HitsTarget(k, t)
        /\ Touches(k, t)' <=> Touches(k, t)
    BY <1>1, <2>2, SameBar
  <2>4. ASSUME NEW u \in MarketRecord(k)', u < t
        PROVE  ~Touches(k, u)'
    <3>1. u \in MarketRecord(k) /\ u \in Int /\ u <= t
      <4>1. MarketRecord(k)' \subseteq Slots
        BY DEF MarketRecord, Earliest
      <4>2. u \in Int /\ t \in Int
        BY <1>2, <2>1, <2>4, <4>1
      <4>3. u <= t
        BY <2>4, <4>2
      <4>4. u \in MarketRecord(k)
        BY <2>1, <2>4, <4>3
      <4> QED  BY <4>2, <4>3, <4>4
    <3>2. BarOf(k, u)' = BarOf(k, u) /\ ~Touches(k, u)
      BY <1>3, <2>1, <2>4, <3>1 DEF Final, Decides
    <3> QED  BY <1>1, <3>2, SameBar
  <2>5. Final(k, t)'
    BY <1>3, <2>1, <2>2, <2>3, <2>4 DEF Final, Decides
  <2> QED  BY <2>1, <2>3, <2>5
<1>4. ASSUME Cardinality(MarketRecord(k)) = Horizon,
             \A t \in MarketRecord(k) : ~BarOf(k, t).partial /\ ~Decides(k, t)
      PROVE  /\ Cardinality(MarketRecord(k)') = Horizon
             /\ \A t \in MarketRecord(k)' : ~BarOf(k, t)'.partial /\ ~Decides(k, t)'
  <2>1. MarketRecord(k)' = MarketRecord(k)
    BY <1>4, RecordSettles
  <2>2. \A t \in MarketRecord(k) : BarOf(k, t)' = BarOf(k, t)
    <3> SUFFICES ASSUME NEW t \in MarketRecord(k)
                 PROVE  BarOf(k, t)' = BarOf(k, t)
      OBVIOUS
    <3>1. ~BarOf(k, t).partial /\ t \in Int
      BY <1>2, <1>4
    <3>2. \A v \in MarketRecord(k) : v <= t => BarOf(k, v)' = BarOf(k, v)
      BY <3>1, RecordSettles
    <3>3. t <= t
      BY <3>1
    <3> QED  BY <3>2, <3>3
  <2>3. \A t \in MarketRecord(k) : /\ HitsStop(k, t)' <=> HitsStop(k, t)
                                   /\ HitsTarget(k, t)' <=> HitsTarget(k, t)
                                   /\ Touches(k, t)' <=> Touches(k, t)
    BY <1>1, <2>2, SameBar
  <2>4. \A t \in MarketRecord(k) : Decides(k, t)' <=> Decides(k, t)
    BY <2>1, <2>3 DEF Decides
  <2> QED  BY <1>4, <2>1, <2>2, <2>4
<1> QED  BY <1>1, <1>3, <1>4 DEF Grounded

\* What the bars did to an entry is what decides it.
LEMMA OutcomeDecides ==
    ASSUME JournalAssumption, NEW k \in Keys
    PROVE  LET v == Outcome(k, Evidence(k)) IN
           /\ v = "win" => \E t \in MarketRecord(k) : Decides(k, t) /\ HitsTarget(k, t)
           /\ v = "loss" => \E t \in MarketRecord(k) : Decides(k, t) /\ HitsStop(k, t)
           /\ v = "open" => \A t \in MarketRecord(k) : ~Decides(k, t)
<1> DEFINE M == MarketRecord(k)
           first == {t \in M : Touches(k, t) /\ \A u \in M : u < t => ~Touches(k, u)}
<1>1. Evidence(k) = M /\ M \subseteq Int
  BY EvidenceIs DEF Slots
<1>2. Outcome(k, M) = IF first = {} \/ \E t \in first : HitsStop(k, t) /\ HitsTarget(k, t)
                      THEN "open"
                      ELSE IF \E t \in first : HitsStop(k, t) THEN "loss" ELSE "win"
  BY DEF Outcome
<1>3. \A t, u \in first : t = u
  BY <1>1
<1>4. \A t \in M : Decides(k, t) <=> t \in first /\ ~(HitsStop(k, t) /\ HitsTarget(k, t))
  BY DEF Decides
<1>5. \A t \in first : t \in M /\ (HitsStop(k, t) \/ HitsTarget(k, t))
  BY DEF Touches
<1> HIDE DEF M, first
<1>6. ASSUME Outcome(k, M) = "win"
      PROVE  \E t \in M : Decides(k, t) /\ HitsTarget(k, t)
  BY <1>2, <1>4, <1>5, <1>6
<1>7. ASSUME Outcome(k, M) = "loss"
      PROVE  \E t \in M : Decides(k, t) /\ HitsStop(k, t)
  BY <1>2, <1>4, <1>5, <1>7
<1>8. ASSUME Outcome(k, M) = "open"
      PROVE  \A t \in M : ~Decides(k, t)
  BY <1>2, <1>3, <1>4, <1>8
<1> QED  BY <1>1, <1>6, <1>7, <1>8 DEF M

\* What a step may make of a row: a new decision opens it, a pass examines it
\* while it is open, the rescore command withdraws its verdict.
Withdrawn(e) ==
    [e EXCEPT !.outcome = "open", !.r = 0, !.closedAt = 0, !.bars = 0, !.retracted = e.outcome]

LEMMA RowSteps ==
    ASSUME JournalAssumption, Rows, [Next]_vars, NEW k \in Keys
    PROVE  \/ entry'[k] = entry[k]
           \/ entry[k].outcome = "none" /\ entry'[k].outcome = "open"
           \/ ResolvePass /\ k \in Open /\ entry'[k] = Examined(k)
           \/ k \in RescoreCandidates /\ entry'[k] = Withdrawn(entry[k])
<1>1. ASSUME NEW s \in Series, Record(s)
      PROVE  \/ entry'[k] = entry[k]
             \/ entry[k].outcome = "none" /\ entry'[k].outcome = "open"
  <2>1. PICK picks \in Picks :
          LET new == NewKeys(s, Instant(s), picks) IN
          entry' = [j \in Keys |-> IF j \in new THEN Row(j, picks) ELSE entry[j]]
    BY <1>1 DEF Record
  <2> DEFINE new == NewKeys(s, Instant(s), picks)
  <2>2. k \in new => entry[k].outcome = "none"
    BY DEF NewKeys
  <2>3. Row(k, picks).outcome = "open"
    BY DEF Row, OpenRow, NoRow
  <2>4. entry'[k] = IF k \in new THEN Row(k, picks) ELSE entry[k]
    BY <2>1
  <2> HIDE DEF new
  <2> QED  BY <2>2, <2>3, <2>4
<1>2. CASE ResolvePass
  <2>1. PICK B \in SUBSET Open :
          entry' = [j \in Keys |-> IF j \in B THEN Examined(j) ELSE entry[j]]
    BY <1>2 DEF ResolvePass
  <2>2. entry'[k] = IF k \in B THEN Examined(k) ELSE entry[k]
    BY <2>1
  <2> QED  BY <1>2, <2>2
<1>3. CASE Rescore
  BY <1>3 DEF Rescore, Withdrawn
<1>4. ASSUME Tick \/ (\E s \in Series, y \in Symbols : Arrive(s, y))
             \/ (\E j \in Keys : OrderWritten(j)) \/ UNCHANGED vars
      PROVE  entry'[k] = entry[k]
  BY <1>4 DEF Tick, Arrive, OrderWritten, vars
<1> QED  BY <1>1, <1>2, <1>3, <1>4 DEF Next

\* The market's record is read off the bars and the clock.
LEMMA SameRecord ==
    ASSUME NEW k, UNCHANGED <<now, bar>>, entry'[k].side = entry[k].side
    PROVE  /\ MarketRecord(k)' = MarketRecord(k)
           /\ \A t : /\ BarOf(k, t)' = BarOf(k, t)
                     /\ HitsStop(k, t)' <=> HitsStop(k, t)
                     /\ HitsTarget(k, t)' <=> HitsTarget(k, t)
                     /\ Decides(k, t)' <=> Decides(k, t)
                     /\ Final(k, t)' <=> Final(k, t)
<1>1. MarketRecord(k)' = MarketRecord(k)
  BY DEF MarketRecord, Earliest, Stored
<1>2. \A t : BarOf(k, t)' = BarOf(k, t)
  BY DEF BarOf
<1>3. \A t : /\ HitsStop(k, t)' <=> HitsStop(k, t)
             /\ HitsTarget(k, t)' <=> HitsTarget(k, t)
             /\ Touches(k, t)' <=> Touches(k, t)
  BY <1>2, SameBar
<1>4. \A t : Decides(k, t)' <=> Decides(k, t)
  BY <1>1, <1>3 DEF Decides
<1>5. \A t : Final(k, t)' <=> Final(k, t)
  BY <1>2, <1>4 DEF Final
<1> QED  BY <1>1, <1>2, <1>3, <1>4, <1>5

LEMMA SameGround ==
    ASSUME NEW k, UNCHANGED <<now, bar>>, entry'[k] = entry[k], Grounded(k)
    PROVE  Grounded(k)'
<1>1. entry'[k].side = entry[k].side
  OBVIOUS
<1>2. /\ MarketRecord(k)' = MarketRecord(k)
      /\ \A t : /\ BarOf(k, t)' = BarOf(k, t)
                /\ HitsStop(k, t)' <=> HitsStop(k, t)
                /\ HitsTarget(k, t)' <=> HitsTarget(k, t)
                /\ Decides(k, t)' <=> Decides(k, t)
                /\ Final(k, t)' <=> Final(k, t)
  BY <1>1, SameRecord
<1> QED  BY <1>2 DEF Grounded

LEMMA GroundedInit ==
    ASSUME JournalAssumption, Init, NEW k \in Keys
    PROVE  Grounded(k)
<1>1. CASE k \in Unscored
  <2>1. entry[k].outcome = "open"
    BY <1>1 DEF Init, OpenRow, NoRow
  <2> QED  BY <2>1 DEF Grounded
<1>2. CASE k \notin Unscored /\ k \in Misread
  <2>1. entry[k] = [OpenRow(1, TRUE) EXCEPT !.outcome = "loss", !.r = -Stop,
                                            !.closedAt = k.at, !.misread = TRUE]
    BY <1>2 DEF Init
  <2>2. entry[k].misread
    BY <2>1 DEF OpenRow, NoRow
  <2> QED  BY <2>2 DEF Grounded
<1>3. CASE k \notin Unscored /\ k \notin Misread
  <2>1. entry[k].outcome = "none"
    BY <1>3 DEF Init, NoRow
  <2> QED  BY <2>1 DEF Grounded
<1> QED  BY <1>1, <1>2, <1>3

\* A pass that follows its fetch grounds the verdicts it reaches, however many
\* bars late it runs: the bars it reads are the market's record, and none of
\* them is a version that will be replaced.
LEMMA ExaminedGrounded ==
    ASSUME JournalAssumption, Rows, ResolvePass, ~FetchFails, NEW k \in Open,
           Grounded(k), entry'[k] = Examined(k)
    PROVE  Grounded(k)'
<1> DEFINE e == entry[k]
           T == Evidence(k)
           v == Outcome(k, T)
<1>1. k \in Keys /\ e \in RowType /\ e.outcome = "open"
  BY DEF Open, Rows, TypeOK, RowType
<1>2. UNCHANGED <<now, bar>>
  BY DEF ResolvePass
<1>3. entry'[k].side = entry[k].side
  BY ExaminedType
<1>4. /\ MarketRecord(k)' = MarketRecord(k)
      /\ \A t : /\ BarOf(k, t)' = BarOf(k, t)
                /\ HitsStop(k, t)' <=> HitsStop(k, t)
                /\ HitsTarget(k, t)' <=> HitsTarget(k, t)
                /\ Decides(k, t)' <=> Decides(k, t)
                /\ Final(k, t)' <=> Final(k, t)
  BY <1>2, <1>3, SameRecord
<1>5. \A t \in MarketRecord(k) : ~BarOf(k, t).partial
  <2>1. \A t \in MarketRecord(k) : t \in ClosedBars(k.series, k.symbol)
    BY DEF MarketRecord, Earliest, ClosedBars
  <2>2. k.series \in Series /\ k.symbol \in Symbols
    BY <1>1 DEF Keys
  <2> QED  BY <2>1, <2>2 DEF ResolvePass, Refreshed, BarOf
<1>6. CASE Examined(k) = e
  BY <1>2, <1>6, SameGround
<1>7. CASE Examined(k) = Retired(e)
  <2>1. entry'[k].outcome = "excluded"
    BY <1>1, <1>7 DEF Retired, RowType
  <2> QED  BY <2>1 DEF Grounded
<1>8. CASE /\ v # "open"
           /\ Examined(k) = Scored(e, v, LastOf(T), Cardinality(T), Return(k, v))
  <2>1. entry'[k].outcome = v
    BY <1>1, <1>8 DEF Scored, RowType
  <2>2. v \in {"loss", "win"}
    BY <1>8, OutcomeIs
  <2>3. /\ v = "win" => \E t \in MarketRecord(k) : Decides(k, t) /\ HitsTarget(k, t)
        /\ v = "loss" => \E t \in MarketRecord(k) : Decides(k, t) /\ HitsStop(k, t)
    BY <1>1, OutcomeDecides
  <2>4. /\ v = "win" => \E t \in MarketRecord(k) : Final(k, t) /\ HitsTarget(k, t)
        /\ v = "loss" => \E t \in MarketRecord(k) : Final(k, t) /\ HitsStop(k, t)
    BY <1>5, <2>3 DEF Final
  <2> HIDE DEF v
  <2> QED  BY <1>4, <2>1, <2>2, <2>4 DEF Grounded
<1>9. CASE v = "open" /\ Cardinality(T) >= Horizon /\ Examined(k) = GivenUp(e)
  <2>1. entry'[k].outcome = "abandoned"
    BY <1>1, <1>9 DEF GivenUp, RowType
  <2>2. Cardinality(MarketRecord(k)) = Horizon
    <3>1. /\ T = MarketRecord(k) /\ Cardinality(T) \in Nat /\ Cardinality(T) <= Horizon
          /\ Horizon \in Nat
      BY <1>1, EvidenceIs DEF JournalAssumption
    <3> QED  BY <1>9, <3>1
  <2>3. \A t \in MarketRecord(k) : ~Decides(k, t)
    BY <1>1, <1>9, OutcomeDecides
  <2> QED  BY <1>4, <1>5, <2>1, <2>2, <2>3 DEF Grounded
<1> QED  BY <1>1, <1>6, <1>7, <1>8, <1>9, ExaminedIs

LEMMA GroundedStep ==
    ASSUME JournalAssumption, Rows, [Next]_vars, ~FetchFails, NEW k \in Keys, Grounded(k)
    PROVE  Grounded(k)'
<1>1. CASE Tick \/ \E s \in Series, y \in Symbols : Arrive(s, y)
  BY <1>1, StaysGrounded
<1>2. CASE UNCHANGED <<now, bar>>
  <2>1. CASE entry'[k] = entry[k]
    BY <1>2, <2>1, SameGround
  <2>2. CASE entry'[k].outcome = "open"
    BY <2>2 DEF Grounded
  <2>3. CASE ResolvePass /\ k \in Open /\ entry'[k] = Examined(k)
    BY <2>3, ExaminedGrounded
  <2>4. entry'[k] = Withdrawn(entry[k]) => entry'[k].outcome = "open"
    <3>1. entry[k] \in RowType
      BY DEF Rows, TypeOK, RowType
    <3> QED  BY <3>1 DEF Withdrawn, RowType
  <2> QED  BY <2>1, <2>2, <2>3, <2>4, RowSteps
<1>3. ~(Tick \/ \E s \in Series, y \in Symbols : Arrive(s, y)) => UNCHANGED <<now, bar>>
  BY DEF Next, Record, OrderWritten, ResolvePass, Rescore, vars
<1> QED  BY <1>1, <1>2, <1>3

(***************************************************************************)
(* Theorems                                                                 *)
(***************************************************************************)

\* Rows that hold together and, where no cycle goes on after its fetch failed,
\* verdicts that rest on bars that will not change.
Scrupulous ==
    Rows /\ (~FetchFails => \A k \in Keys : Grounded(k))

LEMMA AlwaysScrupulous == Spec => []Scrupulous
<1>1. Init => Scrupulous
  BY JournalAssumption, RowsInit, GroundedInit DEF Scrupulous
<1>2. Scrupulous /\ [Next]_vars => Scrupulous'
  <2> SUFFICES ASSUME Scrupulous, [Next]_vars
               PROVE  Scrupulous'
    OBVIOUS
  <2>1. Rows'
    BY JournalAssumption, RowsStep DEF Scrupulous
  <2>2. ASSUME ~FetchFails, NEW k \in Keys
        PROVE  Grounded(k)'
    BY JournalAssumption, <2>2, GroundedStep DEF Scrupulous
  <2> QED  BY <2>1, <2>2 DEF Scrupulous
<1> QED  BY <1>1, <1>2, PTL DEF Spec

\* The journal's state is of its type: an outcome is one of the six, a side is
\* long or short, and a row is dated within the clock's range.
THEOREM Types == Spec => []TypeOK
<1>1. Scrupulous => TypeOK
  BY DEF Scrupulous, Rows
<1> QED  BY <1>1, AlwaysScrupulous, PTL

\* Where every cycle that goes on has fetched first, a verdict is the market's
\* for good: the first bar after the entry, on its own series, that touched one
\* level and not the other, and nothing that arrives later makes it another
\* (resolve_open, _outcome).
THEOREM VerdictsAreTheMarkets ==
    ASSUME ~FetchFails
    PROVE  Spec => []VerdictIsTheMarkets
<1>1. Scrupulous => VerdictIsTheMarkets
  <2> SUFFICES ASSUME Scrupulous, NEW k \in Recorded
               PROVE  ~entry[k].misread =>
                        /\ entry[k].outcome = "win" =>
                             \E t \in MarketRecord(k) : Decides(k, t) /\ HitsTarget(k, t)
                        /\ entry[k].outcome = "loss" =>
                             \E t \in MarketRecord(k) : Decides(k, t) /\ HitsStop(k, t)
                        /\ entry[k].outcome = "abandoned" =>
                             /\ Cardinality(MarketRecord(k)) = Horizon
                             /\ \A t \in MarketRecord(k) : ~Decides(k, t)
    BY DEF VerdictIsTheMarkets
  <2>1. Grounded(k)
    BY DEF Scrupulous, Recorded
  <2> QED  BY <2>1 DEF Grounded, Final
<1> QED  BY <1>1, AlwaysScrupulous, PTL

\* What was decided is never rewritten, and a verdict gives way only to the
\* rescore command, which keeps it beside the row it reopens (record_decision,
\* resolve_open, rescore).
THEOREM HistoryIsKept == Spec => HistoryStands
<1>1. Scrupulous /\ [Next]_vars =>
        \A k \in Recorded :
          /\ entry'[k].side = entry[k].side /\ entry'[k].levels = entry[k].levels
          /\ Closed(k) /\ entry'[k] # entry[k] =>
                entry'[k].outcome = "open" /\ entry'[k].retracted = entry[k].outcome
  <2> SUFFICES ASSUME Scrupulous, [Next]_vars, NEW k \in Recorded
               PROVE  /\ entry'[k].side = entry[k].side /\ entry'[k].levels = entry[k].levels
                      /\ Closed(k) /\ entry'[k] # entry[k] =>
                            /\ entry'[k].outcome = "open"
                            /\ entry'[k].retracted = entry[k].outcome
    OBVIOUS
  <2>1. Rows /\ k \in Keys /\ entry[k].outcome # "none" /\ entry[k] \in RowType
    BY DEF Scrupulous, Recorded, Rows, TypeOK, RowType
  <2>2. CASE entry'[k] = entry[k]
    BY <2>2
  <2>3. CASE k \in Open /\ entry'[k] = Examined(k)
    <3>1. ~Closed(k)
      BY <2>3 DEF Closed, Open, Verdicts
    <3> QED  BY JournalAssumption, <2>1, <2>3, <3>1, ExaminedType
  <2>4. CASE entry'[k] = Withdrawn(entry[k])
    <3> DEFINE e == entry[k]
               x == entry'[k]
    <3>1. x = Withdrawn(e) /\ e \in RowType
      BY <2>1, <2>4
    <3> HIDE DEF e, x
    <3>2. /\ x.side = e.side /\ x.levels = e.levels
          /\ x.outcome = "open" /\ x.retracted = e.outcome
      BY <3>1 DEF Withdrawn, RowType
    <3> QED  BY <3>2 DEF e, x
  <2> QED  BY <2>1, <2>2, <2>3, <2>4, JournalAssumption, RowSteps
<1> QED  BY <1>1, AlwaysScrupulous, PTL DEF Spec, HistoryStands

\* A verdict that was withdrawn stays on the row however often the row is
\* scored again (_with_retraction).
THEOREM RetractionsAreKept == Spec => RetractionKept
<1>1. Scrupulous /\ [Next]_vars =>
        \A k \in Keys : entry[k].retracted # "none" => entry'[k].retracted # "none"
  <2> SUFFICES ASSUME Scrupulous, [Next]_vars, NEW k \in Keys, entry[k].retracted # "none"
               PROVE  entry'[k].retracted # "none"
    OBVIOUS
  <2>1. Rows /\ entry[k] \in RowType /\ entry[k].outcome # "none"
    BY DEF Scrupulous, Rows, TypeOK, RowType
  <2>2. CASE ResolvePass /\ k \in Open /\ entry'[k] = Examined(k)
    BY JournalAssumption, <2>1, <2>2, ExaminedType
  <2>3. CASE entry'[k] = Withdrawn(entry[k])
    <3> DEFINE e == entry[k]
               x == entry'[k]
    <3>1. x = Withdrawn(e) /\ e \in RowType /\ e.outcome # "none"
      BY <2>1, <2>3
    <3> HIDE DEF e, x
    <3>2. x.retracted = e.outcome
      BY <3>1 DEF Withdrawn, RowType
    <3> QED  BY <3>1, <3>2 DEF x
  <2> QED  BY <2>1, <2>2, <2>3, JournalAssumption, RowSteps
<1> QED  BY <1>1, AlwaysScrupulous, PTL DEF Spec, RetractionKept
=============================================================================
