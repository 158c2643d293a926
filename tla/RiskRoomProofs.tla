--------------------------- MODULE RiskRoomProofs ---------------------------
(* Proofs about RiskRoom: where a cycle sends one order and never reads a   *)
(* book that is ahead, an account outlives every stop it has open, for any  *)
(* balance, floors, settings and number of positions.                       *)
EXTENDS RiskRoom, TLAPS

(***************************************************************************)
(* Rounding                                                                 *)
(***************************************************************************)

\* A size rounded down to the step is no more than what was asked for.
LEMMA DividesDown ==
    ASSUME NEW a \in Nat, NEW b \in Nat \ {0}
    PROVE  b * (a \div b) \in Nat /\ b * (a \div b) <= a
  OBVIOUS

LEMMA TakesAway ==
    ASSUME NEW a \in Nat, NEW m \in 0..100
    PROVE  (a * m) \div 100 \in Nat /\ (a * m) \div 100 <= a
<1>1. a * m <= a * 100
  OBVIOUS
<1>2. a * m \in Nat
  OBVIOUS
<1> QED  BY <1>1, <1>2

LEMMA SizedIsPermitted ==
    ASSUME RiskAssumption, permitted \in Nat, NEW m \in Conviction
    PROVE  Sized(m) \in Nat /\ Sized(m) <= permitted
<1>1. m \in 0..100 /\ LotStep \in Nat \ {0}
  BY DEF RiskAssumption
<1>2. (permitted * m) \div 100 \in Nat /\ (permitted * m) \div 100 <= permitted
  BY <1>1, TakesAway
<1>3. /\ Lots((permitted * m) \div 100) \in Nat
      /\ Lots((permitted * m) \div 100) <= (permitted * m) \div 100
  BY <1>1, <1>2, DividesDown DEF Lots
<1>4. Lots(permitted) \in Nat /\ Lots(permitted) <= permitted
  BY <1>1, DividesDown DEF Lots
<1> QED  BY <1>2, <1>3, <1>4 DEF Sized

(***************************************************************************)
(* Types                                                                    *)
(***************************************************************************)

LEMMA PermittedIsMoney ==
    ASSUME RiskAssumption, TypeOK, BeginCycle
    PROVE  permitted' \in Nat /\ peak' \in Int
<1>1. PICK e \in Published :
        /\ peak' = Most(peak, e)
        /\ GuardPasses(e)
        /\ permitted' = Least(Least(BrainPermits(e), Budget(e)), Least(OpenRoom(e), OrderCap(e)))
        /\ permitted' > 0
  BY DEF BeginCycle
<1>2. e \in Int
  BY DEF Published, TypeOK
<1>3. BrainPermits(e) \in Int
  BY <1>2 DEF BrainPermits, OneR, RiskAssumption
<1>4. Budget(e) \in Int /\ OpenRoom(e) \in Int /\ OrderCap(e) \in Int
  BY <1>2 DEF Budget, OpenRoom, OrderCap, Most, Least, ShareOfDay, DailyRoom, TotalRoom,
              GapToGoal, TypeOK, RiskAssumption
<1>5. permitted' \in Int
  BY <1>1, <1>3, <1>4 DEF Least
<1> QED  BY <1>1, <1>2, <1>5 DEF Most, TypeOK

\* Every variable keeps its type.
THEOREM Types == Spec => []TypeOK
<1> USE RiskAssumption
<1>1. Init => TypeOK
  BY DEF Init, TypeOK, Idle, RiskAssumption
<1>2. TypeOK /\ [Next]_vars => TypeOK'
  <2> SUFFICES ASSUME TypeOK, [Next]_vars
               PROVE  TypeOK'
    OBVIOUS
  <2>1. CASE BeginCycle
    BY <2>1, PermittedIsMoney DEF BeginCycle, TypeOK
  <2>2. CASE RefuseCycle
    BY <2>2 DEF RefuseCycle, TypeOK, Published, Most
  <2>3. ASSUME NEW s \in Slots, Send(s)
        PROVE  TypeOK'
    <3>1. PICK m \in Conviction : /\ open' = [open EXCEPT ![s] = Sized(m)]
                                  /\ stops' = stops + Sized(m)
      BY <2>3 DEF Send
    <3>2. Sized(m) \in Nat
      BY SizedIsPermitted DEF TypeOK
    <3> QED  BY <2>3, <3>1, <3>2 DEF Send, TypeOK, Idle, RiskAssumption
  <2>4. CASE EndCycle
    BY <2>4 DEF EndCycle, TypeOK
  <2>5. ASSUME NEW s \in Slots, Close(s)
        PROVE  TypeOK'
    BY <2>5 DEF Close, TypeOK
  <2>6. CASE NewDay
    BY <2>6 DEF NewDay, TypeOK, Most
  <2>7. CASE UNCHANGED vars
    BY <2>7 DEF vars, TypeOK
  <2> QED  BY <2>1, <2>2, <2>3, <2>4, <2>5, <2>6, <2>7 DEF Next
<1> QED  BY <1>1, <1>2, PTL DEF Spec

(***************************************************************************)
(* Survival                                                                 *)
(***************************************************************************)

\* What a cycle may still send is as good as lost: the account would outlive it.
Solvent ==
    /\ StopsFitTheDay
    /\ Survives
    /\ sent = 0 =>
         /\ 10 * (stops + permitted) <= 7 * Allowance
         /\ balance - stops - permitted > dayOpen - Allowance
         /\ balance - stops - permitted > Start - TotalLoss

\* The permitted risk leaves something before both floors, because each share is
\* taken of what the open stops have left.
LEMMA BudgetLeavesRoom ==
    ASSUME RiskAssumption, TypeOK, ~ReadAhead, NEW e \in Published, NEW r \in Nat,
           r > 0, r <= Budget(e)
    PROVE  /\ 10 * (stops + r) <= 7 * Allowance
           /\ balance - stops - r > dayOpen - Allowance
           /\ balance - stops - r > Start - TotalLoss
<1>1. e \in Int /\ e <= balance
  BY DEF Published, TypeOK
<1>2. /\ ShareOfDay \in Int /\ DailyRoom(e) \in Int
      /\ TotalRoom(e) \in Int /\ GapToGoal(e) \in Int
  BY <1>1 DEF ShareOfDay, DailyRoom, TotalRoom, GapToGoal, TypeOK, RiskAssumption
<1>3. r <= ShareOfDay /\ r <= DailyRoom(e) /\ r <= TotalRoom(e)
  BY <1>2 DEF Budget, Least, Most
<1>4. 10 * (stops + r) <= 7 * Allowance
  BY <1>3 DEF ShareOfDay, TypeOK, RiskAssumption
<1>5. balance - stops - r > dayOpen - Allowance
  BY <1>1, <1>3 DEF DailyRoom, TypeOK, RiskAssumption
<1>6. balance - stops - r > Start - TotalLoss
  BY <1>1, <1>3 DEF TotalRoom, TypeOK, RiskAssumption
<1> QED  BY <1>4, <1>5, <1>6

LEMMA SolventInit == Init /\ RiskAssumption => Solvent
  BY DEF Init, Solvent, Survives, StopsFitTheDay, RiskAssumption, Idle

LEMMA SolventNext ==
    ASSUME RiskAssumption, PerCycle = 1, ~ReadAhead, TypeOK, TypeOK', Solvent, [Next]_vars
    PROVE  Solvent'
<1> USE DEF Solvent, Survives, StopsFitTheDay
<1>1. CASE BeginCycle
  <2>1. PICK e \in Published :
          /\ permitted' = Least(Least(BrainPermits(e), Budget(e)), Least(OpenRoom(e), OrderCap(e)))
          /\ permitted' > 0
    BY <1>1 DEF BeginCycle
  <2>2. e \in Int
    BY DEF Published, TypeOK
  <2>3. /\ BrainPermits(e) \in Int /\ Budget(e) \in Int
        /\ OpenRoom(e) \in Int /\ OrderCap(e) \in Int
    BY <2>2 DEF BrainPermits, OneR, Budget, OpenRoom, OrderCap, Most, Least, ShareOfDay,
                DailyRoom, TotalRoom, GapToGoal, TypeOK, RiskAssumption
  <2>4. permitted' \in Nat /\ permitted' <= Budget(e)
    BY <2>1, <2>3 DEF Least
  <2>5. /\ 10 * (stops + permitted') <= 7 * Allowance
        /\ balance - stops - permitted' > dayOpen - Allowance
        /\ balance - stops - permitted' > Start - TotalLoss
    BY <2>1, <2>4, BudgetLeavesRoom
  <2> QED  BY <1>1, <2>5 DEF BeginCycle
<1>2. CASE RefuseCycle
  BY <1>2 DEF RefuseCycle, Idle
<1>3. ASSUME NEW s \in Slots, Send(s)
      PROVE  Solvent'
  <2>1. PICK m \in Conviction : stops' = stops + Sized(m)
    BY <1>3 DEF Send
  <2>2. Sized(m) \in Nat /\ Sized(m) <= permitted
    BY SizedIsPermitted DEF TypeOK
  <2>3. sent = 0 /\ sent' = 1
    BY <1>3 DEF Send, RiskAssumption
  <2> QED  BY <1>3, <2>1, <2>2, <2>3 DEF Send, TypeOK, RiskAssumption
<1>4. CASE EndCycle
  BY <1>4 DEF EndCycle, Idle
<1>5. ASSUME NEW s \in Slots, Close(s)
      PROVE  Solvent'
  \* A stop that fills moves the same money from the stops to the balance.
  <2>1. PICK result \in (-open[s])..((3 * open[s]) \div 2) : balance' = balance + result
    BY <1>5 DEF Close
  <2>2. open[s] \in Nat /\ result \in Int /\ result >= -open[s]
    BY <2>1 DEF TypeOK
  <2> QED  BY <1>5, <2>1, <2>2 DEF Close, TypeOK, RiskAssumption
<1>6. CASE NewDay
  \* The day's floor follows the balance, and the stops fit in a day.
  BY <1>6 DEF NewDay, TypeOK, RiskAssumption, Idle
<1>7. CASE UNCHANGED vars
  BY <1>7 DEF vars
<1> QED  BY <1>1, <1>2, <1>3, <1>4, <1>5, <1>6, <1>7 DEF Next

LEMMA AlwaysSolvent ==
    ASSUME PerCycle = 1, ~ReadAhead
    PROVE  Spec => []Solvent
<1>1. TypeOK /\ TypeOK' /\ Solvent /\ [Next]_vars => Solvent'
  BY SolventNext, RiskAssumption
<1>2. Init => Solvent
  BY SolventInit, RiskAssumption
<1> QED  BY <1>1, <1>2, Types, PTL DEF Spec

\* Whatever an account of one order a cycle does over any days, every stop it
\* has open may fill at once without reaching the day's floor or the total one.
THEOREM Outlives ==
    ASSUME PerCycle = 1, ~ReadAhead
    PROVE  Spec => []Survives
<1>1. Solvent => Survives
  BY DEF Solvent
<1> QED  BY <1>1, AlwaysSolvent, PTL

\* The stops of such an account always fit their share of the daily allowance.
THEOREM StopsFit ==
    ASSUME PerCycle = 1, ~ReadAhead
    PROVE  Spec => []StopsFitTheDay
<1>1. Solvent => StopsFitTheDay
  BY DEF Solvent
<1> QED  BY <1>1, AlwaysSolvent, PTL
=============================================================================
