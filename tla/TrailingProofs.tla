--------------------------- MODULE TrailingProofs ---------------------------
(***************************************************************************)
(* What Trailing promises of every stop, for any tickets, accounts, prices *)
(* and shapes of position: it never widens, and once moved it locks in     *)
(* profit.                                                                 *)
(*                                                                         *)
(* The expert may execute requests in any order and at any age, so the     *)
(* invariant speaks of every request outstanding and of the stop as last   *)
(* published, beside the stop at the broker.                               *)
(***************************************************************************)
EXTENDS Trailing, TLAPS

\* What a stop that has moved guarantees.
Secure(t, level) ==
    \/ 5 * Ahead(born[t].side, level, born[t].entry) >= 2 * Sized(t)
    \/ holder[t] \in Locked /\ level = born[t].entry

\* A level the stop of a position may be at.
Proper(t, level) ==
    \/ level = born[t].stop
    \/ born[t].stop # 0 /\ level # 0 /\ Secure(t, level)

StopsProper  == \A t \in Tickets : Exists(t) => Proper(t, stop[t])

\* A book may still show no stop for a position just opened.
BooksProper ==
    \A t \in Tickets :
        /\ Exists(t) /\ book[t] # 0 => Proper(t, book[t])
        /\ ~Exists(t) => stop[t] = 0 /\ book[t] = 0

OnlyExisting ==
    \A t \in listed \cup queue : Exists(t)

RequestsSecure ==
    \A q \in request :
        /\ Exists(q[1])
        /\ born[q[1]].stop # 0
        /\ Secure(q[1], q[2])

Sound ==
    /\ TypeOK
    /\ StopsProper
    /\ BooksProper
    /\ OnlyExisting
    /\ RequestsSecure

----------------------------------------------------------------------------
(* Facts of the arithmetic.                                                *)

\* The trail keeps two fifths of the risk at the least.
LEMMA LagIsBounded ==
    ASSUME NEW r \in Nat
    PROVE  Lag(r) \in Nat /\ 5 * Lag(r) <= 3 * r
  BY SMT DEF Lag

\* The distance of two levels is a natural number.
LEMMA DistanceType ==
    ASSUME NEW x \in Nat, NEW y \in Nat
    PROVE  Distance(x, y) \in Nat
  BY DEF Distance

\* The risk of a position is a natural number.
LEMMA RiskType ==
    ASSUME NEW s \in Shapes, NEW level \in Nat
    PROVE  OriginalRisk(s, level) \in Nat
<1>1. s.entry \in Nat /\ s.target \in Nat
  BY LevelAssumption
<1>2. Distance(s.target, s.entry) \in Nat /\ Distance(s.entry, level) \in Nat
  BY <1>1, DistanceType
<1>3. (2 * Distance(s.target, s.entry)) \div 3 \in Nat
  BY <1>2, SMT
<1> QED
  BY <1>2, <1>3 DEF OriginalRisk

\* A stop is proposed only ahead of the one the book shows, and it is either
\* the entry, for a locked account, or two fifths of the risk beyond it.
LEMMA ProposalIsEarned ==
    ASSUME NEW s \in Shapes, NEW level \in Nat, NEW at \in Nat,
           NEW risk \in Nat, NEW locks \in BOOLEAN,
           level # 0,
           ProposedStop(s, level, at, risk, locks) # NoLevel
    PROVE  LET to == ProposedStop(s, level, at, risk, locks) IN
           /\ to \in Nat
           /\ risk > 0
           /\ Ahead(s.side, to, level) > 0
           /\ \/ locks /\ to = s.entry
              \/ 5 * Ahead(s.side, to, s.entry) >= 2 * risk
<1> DEFINE to    == ProposedStop(s, level, at, risk, locks)
           ahead == Ahead(s.side, at, s.entry)
           trail == IF s.side = "buy" THEN at - Lag(risk) ELSE at + Lag(risk)
<1>1. s.entry \in Nat /\ s.side \in {"buy", "sell"}
  BY LevelAssumption
<1>2. Lag(risk) \in Nat /\ 5 * Lag(risk) <= 3 * risk
  BY LagIsBounded
<1>3. risk > 0
  BY DEF ProposedStop
<1>4. CASE /\ locks /\ 10 * ahead >= 3 * risk /\ ahead < risk
           /\ Ahead(s.side, s.entry, level) > 0
  <2>1. to = s.entry
    BY <1>3, <1>4 DEF ProposedStop
  <2> QED
    BY <1>1, <1>3, <1>4, <2>1
<1>5. CASE ahead >= risk /\ Ahead(s.side, trail, level) > 0
  <2>1. to = trail
    BY <1>1, <1>3, <1>5 DEF ProposedStop, Ahead
  <2>2. trail \in Nat
    BY <1>1, <1>2, <1>5 DEF Ahead
  <2>3. 5 * Ahead(s.side, trail, s.entry) >= 2 * risk
    BY <1>1, <1>2, <1>5 DEF Ahead
  <2> QED
    BY <1>3, <1>5, <2>1, <2>2, <2>3
<1> QED
  BY <1>3, <1>4, <1>5 DEF ProposedStop

----------------------------------------------------------------------------
(* The invariant.                                                          *)

\* The requests the sweep writes are secure whatever the age of the book and
\* of the quote it reads.
LEMMA CandidateIsSecure ==
    ASSUME Sound, NEW t \in Tickets, Exists(t), book[t] # 0,
           Candidate(t) # NoLevel
    PROVE  /\ Candidate(t) \in Nat
           /\ born[t].stop # 0
           /\ Secure(t, Candidate(t))
<1> DEFINE s     == born[t]
           level == book[t]
           risk  == OriginalRisk(s, level)
           to    == ProposedStop(s, level, quote[t], risk, LocksOn(holder[t]))
<1>1. /\ s \in Shapes /\ s.entry \in Nat /\ s.target \in Nat /\ s.stop \in Nat
      /\ s.side \in {"buy", "sell"} /\ level \in Nat /\ level # 0
      /\ quote[t] \in Nat /\ LocksOn(holder[t]) \in BOOLEAN
  BY LevelAssumption DEF Sound, TypeOK, Exists, Levels, LocksOn
<1>2. Candidate(t) = to /\ to # NoLevel
  BY DEF Candidate
<1>3. risk \in Nat /\ Sized(t) \in Nat
  BY <1>1, RiskType DEF Sized
<1>4. /\ to \in Nat /\ risk > 0 /\ Ahead(s.side, to, level) > 0
      /\ \/ LocksOn(holder[t]) /\ to = s.entry
         \/ 5 * Ahead(s.side, to, s.entry) >= 2 * risk
  <2> HIDE DEF s, level, risk
  <2> QED
    BY <1>1, <1>2, <1>3, ProposalIsEarned
<1>5. Proper(t, level)
  BY DEF Sound, BooksProper
<1>6. born[t].stop # 0
  BY <1>1, <1>5 DEF Proper
<1>7. CASE LocksOn(holder[t]) /\ to = s.entry
  BY <1>2, <1>4, <1>6, <1>7 DEF Secure, LocksOn
<1>8. CASE 5 * Ahead(s.side, to, s.entry) >= 2 * risk
  <2>1. CASE risk = Sized(t)
    BY <1>2, <1>4, <1>6, <1>8, <2>1 DEF Secure
  <2>2. CASE risk # Sized(t)
    <3>1. risk = Distance(s.entry, level) /\ level # s.stop
      BY <2>2 DEF OriginalRisk, Sized
    <3>2. level # s.entry
      BY <1>1, <1>4, <3>1 DEF Distance
    <3>3. 5 * Ahead(s.side, level, s.entry) >= 2 * Sized(t)
      BY <1>5, <3>1, <3>2 DEF Proper, Secure
    <3>4. 5 * Ahead(s.side, to, s.entry) >= 2 * Sized(t)
      <4> HIDE DEF s, level, to
      <4> QED
        BY <1>1, <1>3, <1>4, <3>3 DEF Ahead
    <3> QED
      BY <1>2, <1>4, <1>6, <3>4 DEF Secure
  <2> QED
    BY <2>1, <2>2
<1> QED
  BY <1>4, <1>7, <1>8

LEMMA SoundInitially == Init => Sound
<1> SUFFICES ASSUME Init PROVE Sound
  OBVIOUS
<1>1. TypeOK
  <2>1. /\ price \in Prices /\ weekend \in BOOLEAN
        /\ born \in [Tickets -> Shapes \cup {NoShape}]
        /\ holder \in [Tickets -> Accounts]
    BY DEF Init
  <2>2. /\ stop \in [Tickets -> Levels] /\ book \in [Tickets -> Levels]
        /\ quote \in [Tickets -> Prices]
    BY DEF Init, Levels
  <2>3. /\ closed \subseteq Tickets /\ listed \subseteq Tickets
        /\ request \subseteq Tickets \X (Levels \ {NoLevel})
        /\ pc \in {"idle", "sweeping", "amending"} /\ queue \subseteq Tickets
        /\ locking \in BOOLEAN /\ unprotected \subseteq Tickets
        /\ alarmed \subseteq Tickets
    BY DEF Init
  <2> QED
    BY <2>1, <2>2, <2>3 DEF TypeOK
<1>2. \A t \in Tickets : ~Exists(t) /\ stop[t] = 0 /\ book[t] = 0
  BY DEF Init, Exists
<1>3. listed = {} /\ queue = {} /\ request = {}
  BY DEF Init
<1> QED
  BY <1>1, <1>2, <1>3
     DEF Sound, StopsProper, BooksProper, OnlyExisting, RequestsSecure

\* Steps that move neither a position nor its stop.
Untouched ==
    /\ UNCHANGED <<born, holder, stop>>
    /\ \A t \in Tickets : book'[t] \in {book[t], stop[t]}
    /\ \A t \in listed' \cup queue' : t \in listed \cup queue \/ Exists(t)
    /\ \A q \in request' :
         \/ q \in request
         \/ Exists(q[1]) /\ born[q[1]].stop # 0 /\ Secure(q[1], q[2])

LEMMA BrokerUntouched ==
    ASSUME Sound, TypeOK', Untouched
    PROVE  Sound'
<1> USE DEF Untouched
<1>1. StopsProper'
  BY DEF Sound, StopsProper, Exists, Proper, Secure, Sized
<1>2. BooksProper'
  <2> SUFFICES ASSUME NEW t \in Tickets
               PROVE  /\ Exists(t)' /\ book'[t] # 0 => Proper(t, book[t])'
                      /\ ~Exists(t)' => stop'[t] = 0 /\ book'[t] = 0
    BY DEF BooksProper
  <2>1. Exists(t)' <=> Exists(t)
    BY DEF Exists
  <2>2. Proper(t, book[t])' <=>
          \/ book'[t] = born[t].stop
          \/ born[t].stop # 0 /\ book'[t] # 0 /\ Secure(t, book'[t])
    BY DEF Proper, Secure, Sized
  <2>3. ~Exists(t) => stop[t] = 0 /\ book[t] = 0
    BY DEF Sound, BooksProper
  <2>4. Exists(t) /\ book'[t] # 0 => Proper(t, book'[t])
    BY DEF Sound, BooksProper, StopsProper
  <2> QED
    BY <2>1, <2>2, <2>3, <2>4 DEF Proper
<1>3. OnlyExisting'
  BY DEF Sound, OnlyExisting, Exists
<1>4. RequestsSecure'
  BY DEF Sound, RequestsSecure, Exists, Secure, Sized
<1> QED
  BY <1>1, <1>2, <1>3, <1>4 DEF Sound

LEMMA SoundIsKept == Sound /\ [Next]_vars => Sound'
<1> SUFFICES ASSUME Sound, [Next]_vars PROVE Sound'
  OBVIOUS
<1> USE DEF marketVars, brokerVars, shownVars, sweepVars
<1>1. ASSUME NEW t \in Tickets, NEW s \in Shapes, OpenPosition(t, s)
      PROVE  Sound'
  <2> DEFINE Other(u) == u \in Tickets /\ u # t
  <2>1. TypeOK'
    BY <1>1, LevelAssumption DEF OpenPosition, Sound, TypeOK, Levels
  <2>2. /\ ~Exists(t) /\ Exists(t)' /\ born'[t] = s /\ stop'[t] = s.stop
        /\ book'[t] = 0
    BY <1>1, LevelAssumption
       DEF OpenPosition, Sound, TypeOK, BooksProper, Exists
  <2>3. \A u \in Tickets : u # t =>
          born'[u] = born[u] /\ stop'[u] = stop[u] /\ book'[u] = book[u]
    BY <1>1 DEF OpenPosition, Sound, TypeOK
  <2>4. StopsProper'
    BY <1>1, <2>2, <2>3
       DEF OpenPosition, Sound, StopsProper, Exists, Proper, Secure, Sized
  <2>5. BooksProper'
    BY <1>1, <2>2, <2>3
       DEF OpenPosition, Sound, BooksProper, Exists, Proper, Secure, Sized
  <2>6. OnlyExisting'
    BY <1>1, <2>2, <2>3 DEF OpenPosition, Sound, TypeOK, OnlyExisting, Exists
  <2>7. RequestsSecure'
    <3> SUFFICES ASSUME NEW q \in request
                 PROVE  Exists(q[1])' /\ born'[q[1]].stop # 0
                        /\ Secure(q[1], q[2])'
      BY <1>1 DEF OpenPosition, RequestsSecure
    <3>1. q[1] \in Tickets /\ q[1] # t
      BY <2>2 DEF Sound, TypeOK, RequestsSecure
    <3> QED
      BY <1>1, <2>3, <3>1
         DEF OpenPosition, Sound, RequestsSecure, Exists, Secure, Sized
  <2> QED
    BY <2>1, <2>4, <2>5, <2>6, <2>7 DEF Sound
<1>2. ASSUME NEW p \in Prices, MovePrice(p)
      PROVE  Sound'
  <2>1. TypeOK'
    BY <1>2 DEF MovePrice, Sound, TypeOK
  <2> QED
    BY <1>2, <2>1, BrokerUntouched DEF Untouched, MovePrice
<1>3. CASE WeekendChanges
  <2>1. TypeOK'
    BY <1>3 DEF WeekendChanges, Sound, TypeOK
  <2> QED
    BY <1>3, <2>1, BrokerUntouched DEF Untouched, WeekendChanges
<1>4. ASSUME NEW t \in Tickets, PublishPosition(t)
      PROVE  Sound'
  <2>1. TypeOK'
    BY <1>4 DEF PublishPosition, Sound, TypeOK, Levels
  <2>2. \A u \in Tickets : book'[u] \in {book[u], stop[u]}
    BY <1>4 DEF PublishPosition, Sound, TypeOK
  <2> QED
    BY <1>4, <2>1, <2>2, BrokerUntouched DEF Untouched, PublishPosition, Open
<1>5. ASSUME NEW t \in Tickets, PublishQuote(t)
      PROVE  Sound'
  <2>1. TypeOK'
    BY <1>5 DEF PublishQuote, Sound, TypeOK
  <2> QED
    BY <1>5, <2>1, BrokerUntouched DEF Untouched, PublishQuote
<1>6. ASSUME NEW readable \in SUBSET Accounts, StartSweep(readable)
      PROVE  Sound'
  <2>1. TypeOK'
    BY <1>6 DEF StartSweep, Sound, TypeOK
  <2> QED
    BY <1>6, <2>1, BrokerUntouched DEF Untouched, StartSweep
<1>7. ASSUME NEW t \in Tickets, NameUnprotected(t)
      PROVE  Sound'
  <2>1. TypeOK'
    BY <1>7 DEF NameUnprotected, Sound, TypeOK
  <2> QED
    BY <1>7, <2>1, BrokerUntouched DEF Untouched, NameUnprotected
<1>8. ASSUME NEW t \in Tickets, NEW quoted \in BOOLEAN, PassOver(t, quoted)
      PROVE  Sound'
  <2>1. TypeOK'
    BY <1>8 DEF PassOver, Sound, TypeOK
  <2> QED
    BY <1>8, <2>1, BrokerUntouched DEF Untouched, PassOver
<1>9. ASSUME NEW t \in Tickets, Amend(t)
      PROVE  Sound'
  <2>1. Exists(t)
    BY <1>9 DEF Amend, Sound, OnlyExisting
  <2>2. /\ Candidate(t) \in Nat /\ Candidate(t) # NoLevel
        /\ born[t].stop # 0 /\ Secure(t, Candidate(t))
    BY <1>9, <2>1, CandidateIsSecure DEF Amend
  <2>3. TypeOK'
    BY <1>9, <2>2 DEF Amend, Sound, TypeOK, Levels
  <2>4. \A q \in request' : q \in request \/ q = <<t, Candidate(t)>>
    BY <1>9 DEF Amend
  <2> QED
    BY <1>9, <2>1, <2>2, <2>3, <2>4, BrokerUntouched DEF Untouched, Amend
<1>10. CASE AmendReturns
  <2>1. TypeOK'
    BY <1>10 DEF AmendReturns, Sound, TypeOK
  <2> QED
    BY <1>10, <2>1, BrokerUntouched DEF Untouched, AmendReturns
<1>11. ASSUME NEW recorded \in BOOLEAN, EndSweep(recorded)
       PROVE  Sound'
  <2>1. TypeOK'
    BY <1>11 DEF EndSweep, Sound, TypeOK
  <2> QED
    BY <1>11, <2>1, BrokerUntouched DEF Untouched, EndSweep
<1>12. CASE CollectorDies
  <2>1. TypeOK'
    BY <1>12 DEF CollectorDies, Sound, TypeOK
  <2> QED
    BY <1>12, <2>1, BrokerUntouched DEF Untouched, CollectorDies
<1>13. ASSUME NEW q \in request, ExecuteAmend(q)
       PROVE  Sound'
  <2>1. /\ q[1] \in Tickets /\ q[2] \in Nat /\ q[2] # 0
        /\ born[q[1]].stop # 0 /\ Secure(q[1], q[2])
    BY DEF Sound, TypeOK, RequestsSecure, Levels, NoLevel
  <2>2. TypeOK'
    BY <1>13, <2>1 DEF ExecuteAmend, Sound, TypeOK, Levels
  <2>3. StopsProper'
    BY <1>13, <2>1
       DEF ExecuteAmend, Sound, TypeOK, StopsProper, Exists, Proper, Secure,
           Sized
  <2>4. BooksProper'
    BY <1>13, <2>1
       DEF ExecuteAmend, Amends, Open, Sound, TypeOK, BooksProper, Exists,
           Proper, Secure, Sized
  <2>5. OnlyExisting'
    BY <1>13 DEF ExecuteAmend, Sound, OnlyExisting, Exists
  <2>6. RequestsSecure'
    BY <1>13 DEF ExecuteAmend, Sound, RequestsSecure, Exists, Secure, Sized
  <2> QED
    BY <2>2, <2>3, <2>4, <2>5, <2>6 DEF Sound
<1>14. ASSUME NEW q \in request, DropAmend(q)
       PROVE  Sound'
  <2>1. TypeOK'
    BY <1>14 DEF DropAmend, Sound, TypeOK
  <2> QED
    BY <1>14, <2>1, BrokerUntouched DEF Untouched, DropAmend
<1>15. CASE UNCHANGED vars
  <2>1. TypeOK'
    BY <1>15 DEF vars, Sound, TypeOK
  <2> QED
    BY <1>15, <2>1, BrokerUntouched DEF Untouched, vars
<1> QED
  BY <1>1, <1>2, <1>3, <1>4, <1>5, <1>6, <1>7, <1>8, <1>9, <1>10, <1>11,
     <1>12, <1>13, <1>14, <1>15 DEF Next, SweepStep

----------------------------------------------------------------------------
(* What follows.                                                           *)

THEOREM Invariance == Spec => []Sound
<1>1. Init => Sound
  BY SoundInitially
<1>2. Sound /\ [Next]_vars => Sound'
  BY SoundIsKept
<1> QED
  BY <1>1, <1>2, PTL DEF Spec

\* Every variable keeps its type: in particular no request asks for the
\* "nothing" of a proposal as if it were a level (trailing.run).
THEOREM Types == Spec => []TypeOK
<1>1. Sound => TypeOK
  BY DEF Sound
<1> QED
  BY <1>1, Invariance, PTL

\* A stop that has moved locks in profit, however old the book and the quote
\* it was computed from, and whichever request the expert took (proposed_stop,
\* original_risk).
THEOREM LockedIn == Spec => []MovesLockIn
<1>1. Sound => MovesLockIn
  <2> SUFFICES ASSUME Sound, NEW t \in Tickets, Moved(t)
               PROVE  \/ 5 * Ahead(born[t].side, stop[t], born[t].entry)
                            >= 2 * Sized(t)
                      \/ holder[t] \in Locked /\ stop[t] = born[t].entry
    BY DEF MovesLockIn
  <2>1. Proper(t, stop[t]) /\ stop[t] # born[t].stop
    BY DEF Sound, StopsProper, Moved
  <2> QED
    BY <2>1 DEF Proper, Secure
<1> QED
  BY <1>1, Invariance, PTL

\* A stop never widens, and one the broker does not have is never invented
\* (AmendOne, and the skip of trailing.run).
THEOREM NeverWidens == Spec => StopNeverWidens
<1>1. Sound /\ [Next]_vars => [\A t \in Tickets : Tightens(t)]_vars
  <2> SUFFICES ASSUME Sound, Next, NEW t \in Tickets, Exists(t),
                      stop'[t] # stop[t]
               PROVE  stop[t] # 0 /\ Ahead(born[t].side, stop'[t], stop[t]) > 0
    BY DEF Tightens
  <2>1. ASSUME NEW u \in Tickets, NEW s \in Shapes, OpenPosition(u, s)
        PROVE  FALSE
    BY <2>1 DEF OpenPosition, Sound, TypeOK
  <2>2. ASSUME NEW q \in request, ExecuteAmend(q)
        PROVE  stop[t] # 0 /\ Ahead(born[t].side, stop'[t], stop[t]) > 0
    <3>1. q[1] = t /\ stop'[t] = q[2] /\ q[2] \in Nat
      BY <2>2 DEF ExecuteAmend, Sound, TypeOK, Levels
    <3>2. born[t].side \in {"buy", "sell"} /\ stop[t] \in Nat
      BY LevelAssumption DEF Sound, TypeOK, Exists, Levels
    <3>3. stop[t] # 0
      BY <3>1 DEF Sound, RequestsSecure, StopsProper, Proper
    <3>4. q[2] # stop[t] /\ Ahead(born[t].side, q[2], stop[t]) >= 0
      BY <2>2, <3>1, <3>3 DEF ExecuteAmend, Amends
    <3> QED
      BY <3>1, <3>2, <3>3, <3>4 DEF Ahead
  <2>3. CASE UNCHANGED stop
    BY <2>3
  <2> QED
    BY <2>1, <2>2, <2>3
       DEF Next, SweepStep, brokerVars, MovePrice, WeekendChanges,
           PublishPosition, PublishQuote, StartSweep, NameUnprotected, Amend,
           PassOver, AmendReturns, EndSweep, CollectorDies, DropAmend
<1> QED
  BY <1>1, Invariance, PTL DEF Spec, StopNeverWidens
=============================================================================
