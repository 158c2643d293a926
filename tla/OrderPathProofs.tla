-------------------------- MODULE OrderPathProofs --------------------------
(***************************************************************************)
(* Proofs about OrderPath.                                                 *)
(*                                                                         *)
(* What holds however passes overlap (the types, who owns what, that an    *)
(* answer of "ok" has a deal behind it) comes first; what needs passes to  *)
(* run one at a time (JobTimeouts = FALSE) follows.                        *)
(***************************************************************************)
EXTENDS OrderPath, FiniteSetTheorems, TLAPS

Typed == TypeOK /\ Owned

\* Type correctness, with the ownership it rests on: TypeOK alone is not
\* inductive, because what a pass takes from an intent's owner has the right
\* type only when the intent has one.
LEMMA TypedInit == Init => Typed
  BY NumberingAssumption, SymbolAssumption DEF Init, Typed, TypeOK, Owned, Keys, NoOwner,
     Sending, OrderStates, PassStates

\* The sizes run_cycle subtracts are numbers.
LEMMA BookIsFinite ==
  ASSUME TypeOK, NEW a \in Accounts
  PROVE  Cardinality(published[a]) \in Nat
  <1>1. published[a] \subseteq Intents
    BY DEF TypeOK
  <1> QED
    BY <1>1, IntentAssumption, FS_Subset, FS_CardinalityType

LEMMA NoOwnerIsNoKey == NoOwner \notin Keys
  BY NumberingAssumption DEF NoOwner, Keys

LEMMA TypedPass ==
  ASSUME Typed, NEW w \in Workers, PassStep(w)
  PROVE  Typed'
  <1> USE DEF Typed
  <1>1. ASSUME NEW a \in Accounts, SkipAccount(w, a)
        PROVE  Typed'
    BY <1>1 DEF SkipAccount, TypeOK, Owned, Keys, journalVars, switchVars,
       bridgeVars, terminalVars
  <1>2. ASSUME NEW a \in Accounts, BeginAccount(w, a)
        PROVE  Typed'
    <2>1. MaxOpen - Cardinality(published[a]) \in Nat
      BY <1>2, BookIsFinite, SymbolAssumption DEF BeginAccount, GatesOpen
    <2>2. HeldSymbols(published[a]) \subseteq Symbols
      BY SymbolAssumption DEF HeldSymbols, Owned, Keys, TypeOK
    <2>3. TypeOK'
      BY <1>2, <2>1, <2>2 DEF BeginAccount, TypeOK, PassStates, journalVars,
         switchVars, bridgeVars, terminalVars
    <2>4. Owned'
      BY <1>2 DEF BeginAccount, TypeOK, Owned, Sending, Keys, journalVars,
         switchVars, bridgeVars, terminalVars
    <2> QED
      BY <2>3, <2>4
  <1>3. ASSUME NEW d \in Decisions, RefuseDecision(w, d)
        PROVE  Typed'
    BY <1>3 DEF RefuseDecision, TypeOK, Owned, Keys, journalVars, switchVars,
       bridgeVars, terminalVars
  <1>4. ASSUME NEW d \in Decisions, NEW i \in Intents, MarkSubmitting(w, d, i)
        PROVE  Typed'
    <2>1. <<acct[w], d>> \in Keys
      BY <1>4 DEF MarkSubmitting, Owned, Keys
    <2>2. TypeOK'
      BY <1>4, <2>1 DEF MarkSubmitting, TypeOK, OrderStates, PassStates,
         switchVars, bridgeVars, terminalVars
    <2>3. \A j \in Intents : owner[j] \in Keys \/ j = i => owner'[j] \in Keys
      BY <1>4, <2>1 DEF MarkSubmitting, TypeOK
    <2>4. /\ UNCHANGED <<acct, body, deal, published>>
          /\ pc' = [pc EXCEPT ![w] = "marked"]
          /\ job' = [job EXCEPT ![w] = i]
          /\ pc[w] = "loop"
      BY <1>4 DEF MarkSubmitting, bridgeVars, terminalVars
    <2>5. Owned'
      BY <2>3, <2>4 DEF TypeOK, Owned, Sending
    <2> QED
      BY <2>2, <2>5
  <1>5. CASE CreateRequest(w)
    BY <1>5 DEF CreateRequest, TypeOK, Owned, PassStates, Sending, Keys,
       journalVars, switchVars, terminalVars
  <1>6. CASE WriteRequest(w)
    BY <1>6 DEF WriteRequest, TypeOK, Owned, PassStates, Sending, Keys,
       journalVars, switchVars, terminalVars
  <1>7. ASSUME pc[w] \in Sending, NEW state \in OrderStates, Settle(w, state),
               \/ sent' = sent /\ held' = held
               \/ /\ sent' = [sent EXCEPT ![w] = @ \cup {owner[job[w]][2]}]
                  /\ held' = [held EXCEPT ![w] = @ \cup {Symbol[owner[job[w]][2]]}]
        PROVE  Typed'
    <2>1. /\ job[w] \in Intents
          /\ owner[job[w]] \in Keys
          /\ owner[job[w]][2] \in Decisions
      BY <1>7 DEF Owned, Keys
    <2>2. sent' \in [Workers -> SUBSET Decisions]
      BY <1>7, <2>1 DEF TypeOK
    <2>3. held' \in [Workers -> SUBSET Symbols]
      BY <1>7, <2>1, SymbolAssumption DEF TypeOK
    <2>4. TypeOK'
      BY <1>7, <2>1, <2>2, <2>3 DEF Settle, TypeOK, PassStates, switchVars,
         bridgeVars, terminalVars
    <2>5. Owned'
      BY <1>7 DEF Settle, TypeOK, Owned, Sending, switchVars, bridgeVars,
         terminalVars
    <2> QED
      BY <2>4, <2>5
  <1>8. CASE WriteFails(w)
    BY <1>7, <1>8 DEF WriteFails, Rejected, Sending, OrderStates
  <1>9. CASE ReadAnswer(w)
    BY <1>7, <1>9 DEF ReadAnswer, Accepted, Rejected, Sending, OrderStates
  <1>10. CASE AnswerTimesOut(w)
    BY <1>7, <1>10 DEF AnswerTimesOut, Accepted, Sending, OrderStates
  <1>11. CASE EndAccount(w)
    BY <1>11 DEF EndAccount, TypeOK, Owned, PassStates, Sending, Keys,
       journalVars, switchVars, bridgeVars, terminalVars
  <1>12. CASE EndPass(w)
    BY <1>12 DEF EndPass, TypeOK, Owned, PassStates, Sending, Keys,
       journalVars, switchVars, bridgeVars, terminalVars
  <1> QED
    BY <1>1, <1>2, <1>3, <1>4, <1>5, <1>6, <1>8, <1>9, <1>10, <1>11, <1>12
       DEF PassStep

LEMMA TypedExpert ==
  ASSUME Typed, NEW a \in Accounts, ExpertStep(a)
  PROVE  Typed'
  <1> USE DEF Typed, TypeOK, Owned, journalVars, switchVars, passVars
  <1>1. CASE OnTimer(a)
    <2>1. OpenAt(a) \subseteq {i \in Intents : owner[i] \in Keys}
      BY DEF OpenAt
    <2>2. \/ published' = published
          \/ published' = [published EXCEPT ![a] = OpenAt(a)]
      BY <1>1 DEF OnTimer
    <2>3. published' \in [Accounts -> SUBSET Intents]
      <3>1. published \in [Accounts -> SUBSET Intents] /\ OpenAt(a) \in SUBSET Intents
        BY <2>1
      <3> HIDE DEF Typed, TypeOK, Owned
      <3> QED
        BY <2>2, <3>1
    <2>4. UNCHANGED <<owner, body, deal, pc, acct, job>>
      BY <1>1 DEF OnTimer, bridgeVars
    <2>5. Owned'
      BY <2>1, <2>2, <2>4 DEF Sending
    <2>6. TypeOK'
      BY <1>1, <2>3 DEF OnTimer, bridgeVars
    <2> QED
      BY <2>5, <2>6
  <1>2. ASSUME NEW i \in Intents, Claim(a, i)
        PROVE  Typed'
    BY <1>2 DEF Claim
  <1>3. ASSUME NEW i \in Intents, CannotClaim(a, i)
        PROVE  Typed'
    BY <1>3 DEF CannotClaim, bridgeVars
  <1>4. CASE RefuseRequest(a)
    BY <1>4 DEF RefuseRequest, bridgeVars
  <1>5. CASE SendOrder(a)
    <2>1. \A i \in Intents :
             deal'[i] # deal[i] => deal'[i] = "open" /\ body[i]
      BY <1>5 DEF SendOrder
    <2>2. reply' \in [Accounts -> {"none", "ok", "refused"}]
      BY <1>5 DEF SendOrder
    <2>3. deal' \in [Intents -> {"none", "open", "closed"}]
      BY <1>5 DEF SendOrder
    <2>4. expert' \in [Accounts -> {"off", "idle", "scanning", "claimed", "sent"}]
      BY <1>5 DEF SendOrder
    <2>5. UNCHANGED <<task, listing, published, usable, journalVars, switchVars,
                      passVars, bridgeVars>>
      BY <1>5 DEF SendOrder
    <2> QED
      BY <2>1, <2>2, <2>3, <2>4, <2>5 DEF bridgeVars
  <1>6. CASE WriteResult(a)
    BY <1>6 DEF WriteResult
  <1>7. CASE EndTimer(a)
    BY <1>7 DEF EndTimer, bridgeVars
  <1> QED
    BY <1>1, <1>2, <1>3, <1>4, <1>5, <1>6, <1>7 DEF ExpertStep

LEMMA TypedStep == Typed /\ [Next]_vars => Typed'
  <1> SUFFICES ASSUME Typed, [Next]_vars
               PROVE  Typed'
    OBVIOUS
  <1>1. ASSUME NEW d \in Decisions, RecordDecision(d)
        PROVE  Typed'
    BY <1>1 DEF RecordDecision, Typed, TypeOK, Owned, switchVars, passVars,
       bridgeVars, terminalVars
  <1>2. CASE MoveKillSwitch
    BY <1>2 DEF MoveKillSwitch, Typed, TypeOK, Owned, journalVars, passVars,
       bridgeVars, terminalVars
  <1>3. ASSUME NEW a \in Accounts, MoveAccountSwitch(a)
        PROVE  Typed'
    BY <1>3 DEF MoveAccountSwitch, Typed, TypeOK, Owned, journalVars, passVars,
       bridgeVars, terminalVars
  <1>4. ASSUME NEW w \in Workers, StartPass(w)
        PROVE  Typed'
    BY <1>4 DEF StartPass, Typed, TypeOK, Owned, PassStates, Sending,
       journalVars, switchVars, bridgeVars, terminalVars
  <1>5. ASSUME NEW w \in Workers, JobTimesOut(w)
        PROVE  Typed'
    BY <1>5 DEF JobTimesOut, Typed, TypeOK, Owned, journalVars, switchVars,
       bridgeVars, terminalVars
  <1>6. ASSUME NEW w \in Workers, PassStep(w)
        PROVE  Typed'
    BY <1>6, TypedPass
  <1>7. ASSUME NEW w \in Workers, AccountRaises(w)
        PROVE  Typed'
    BY <1>7 DEF AccountRaises, Typed, TypeOK, Owned, PassStates, Sending,
       journalVars, switchVars, bridgeVars, terminalVars
  <1>8. CASE CollectorDies
    BY <1>8 DEF CollectorDies, Typed, TypeOK, Owned, PassStates, Sending,
       journalVars, switchVars, bridgeVars, terminalVars
  <1>9. ASSUME NEW a \in Accounts, TerminalStarts(a)
        PROVE  Typed'
    BY <1>9 DEF TerminalStarts, Typed, TypeOK, Owned, journalVars, switchVars,
       passVars, bridgeVars
  <1>10. ASSUME NEW a \in Accounts, TerminalStops(a)
         PROVE  Typed'
    BY <1>10 DEF TerminalStops, Typed, TypeOK, Owned, journalVars, switchVars,
       passVars, bridgeVars
  <1>11. ASSUME NEW a \in Accounts, ExpertStep(a)
         PROVE  Typed'
    BY <1>11, TypedExpert
  <1>12. ASSUME NEW a \in Accounts, HeartbeatGoesStale(a)
         PROVE  Typed'
    BY <1>12 DEF HeartbeatGoesStale, Typed, TypeOK, Owned, journalVars,
       switchVars, passVars, bridgeVars
  <1>13. ASSUME NEW i \in Intents, ClosePosition(i)
         PROVE  Typed'
    BY <1>13 DEF ClosePosition, Typed, TypeOK, Owned, journalVars, switchVars,
       passVars, bridgeVars, terminalVars
  <1>14. CASE UNCHANGED vars
    BY <1>14 DEF vars, Typed, TypeOK, Owned, journalVars, switchVars, passVars,
       bridgeVars, terminalVars
  <1> QED
    BY <1>1, <1>2, <1>3, <1>4, <1>5, <1>6, <1>7, <1>8, <1>9, <1>10, <1>11,
       <1>12, <1>13, <1>14 DEF Next

\* Every variable keeps its type, however passes overlap: in particular the
\* slots of a pass are never negative and every symbol it holds is known.
THEOREM Types == Spec => []TypeOK
  <1>1. Typed => TypeOK
    BY DEF Typed
  <1> QED
    BY <1>1, TypedInit, TypedStep, PTL DEF Spec

----------------------------------------------------------------------------
(* Answers.                                                                *)

\* What neither a pass nor the terminal of an account does to an answer.
LEMMA AnswersInit == Init => AnswersAreTrue /\ FilledIsDealt
  BY DEF Init, AnswersAreTrue, FilledIsDealt

LEMMA AnswersExpert ==
  ASSUME Typed, AnswersAreTrue, NEW a \in Accounts, ExpertStep(a)
  PROVE  AnswersAreTrue'
  <1> USE DEF Typed, TypeOK, AnswersAreTrue
  <1>1. CASE OnTimer(a)
    BY <1>1 DEF OnTimer, bridgeVars
  <1>2. ASSUME NEW i \in Intents, Claim(a, i)
        PROVE  AnswersAreTrue'
    BY <1>2 DEF Claim
  <1>3. ASSUME NEW i \in Intents, CannotClaim(a, i)
        PROVE  AnswersAreTrue'
    BY <1>3 DEF CannotClaim, bridgeVars
  <1>4. CASE RefuseRequest(a)
    BY <1>4 DEF RefuseRequest, bridgeVars
  <1>5. CASE SendOrder(a)
    <2>1. \A i \in Intents : deal[i] # "none" \/ i = task[a] => deal'[i] # "none"
      BY <1>5 DEF SendOrder
    <2>2. UNCHANGED <<task, answer>>
      BY <1>5 DEF SendOrder, bridgeVars
    <2>3. /\ expert[a] = "claimed"
          /\ expert' = [expert EXCEPT ![a] = "sent"]
          /\ \A b \in Accounts : b # a => reply'[b] = reply[b]
      BY <1>5 DEF SendOrder
    <2> QED
      BY <2>1, <2>2, <2>3
  <1>6. CASE WriteResult(a)
    BY <1>6 DEF WriteResult
  <1>7. CASE EndTimer(a)
    BY <1>7 DEF EndTimer, bridgeVars
  <1> QED
    BY <1>1, <1>2, <1>3, <1>4, <1>5, <1>6, <1>7 DEF ExpertStep

\* Only the terminals and the broker move what AnswersAreTrue speaks of.
LEMMA PassLeavesTerminals ==
  ASSUME NEW w \in Workers, PassStep(w) \/ AccountRaises(w) \/ StartPass(w)
                             \/ JobTimesOut(w)
  PROVE  UNCHANGED <<expert, task, reply, answer, deal>>
  BY DEF PassStep, SkipAccount, BeginAccount, RefuseDecision, MarkSubmitting,
     CreateRequest, WriteRequest, WriteFails, ReadAnswer, AnswerTimesOut,
     Accepted, Rejected, Settle, EndAccount, EndPass, AccountRaises, StartPass,
     JobTimesOut, bridgeVars, terminalVars

LEMMA AnswersStep ==
  Typed /\ AnswersAreTrue /\ [Next]_vars => AnswersAreTrue'
  <1> SUFFICES ASSUME Typed, AnswersAreTrue, [Next]_vars
               PROVE  AnswersAreTrue'
    OBVIOUS
  <1> USE DEF AnswersAreTrue
  <1>1. CASE \/ \E d \in Decisions : RecordDecision(d)
             \/ MoveKillSwitch
             \/ \E a \in Accounts : MoveAccountSwitch(a) \/ HeartbeatGoesStale(a)
             \/ CollectorDies
             \/ UNCHANGED vars
    BY <1>1 DEF RecordDecision, MoveKillSwitch, MoveAccountSwitch,
       HeartbeatGoesStale, CollectorDies, vars, bridgeVars, terminalVars
  <1>2. ASSUME NEW w \in Workers,
               PassStep(w) \/ AccountRaises(w) \/ StartPass(w) \/ JobTimesOut(w)
        PROVE  AnswersAreTrue'
    BY <1>2, PassLeavesTerminals
  <1>3. ASSUME NEW a \in Accounts, TerminalStarts(a) \/ TerminalStops(a)
        PROVE  AnswersAreTrue'
    <2>1. CASE TerminalStarts(a)
      BY <2>1 DEF TerminalStarts, Typed, TypeOK, bridgeVars
    <2>2. CASE TerminalStops(a)
      BY <2>2 DEF TerminalStops, Typed, TypeOK, bridgeVars
    <2> QED
      BY <1>3, <2>1, <2>2
  <1>4. ASSUME NEW a \in Accounts, ExpertStep(a)
        PROVE  AnswersAreTrue'
    BY <1>4, AnswersExpert
  <1>5. ASSUME NEW i \in Intents, ClosePosition(i)
        PROVE  AnswersAreTrue'
    BY <1>5 DEF ClosePosition, Typed, TypeOK, bridgeVars, terminalVars
  <1> QED
    BY <1>1, <1>2, <1>3, <1>4, <1>5 DEF Next

\* Only a pass writes orders in the journal, and only a pass writes requests.
OutsideStep ==
    \/ \E d \in Decisions : RecordDecision(d)
    \/ MoveKillSwitch
    \/ \E a \in Accounts : MoveAccountSwitch(a)
    \/ \E a \in Accounts : TerminalStarts(a) \/ TerminalStops(a)
    \/ \E a \in Accounts : ExpertStep(a) \/ HeartbeatGoesStale(a)
    \/ \E i \in Intents : ClosePosition(i)
    \/ UNCHANGED vars

LEMMA OutsideLeavesJournal ==
  ASSUME OutsideStep
  PROVE  UNCHANGED <<order, stamp, owner, body, passVars>>
  <1>1. ASSUME NEW a \in Accounts, ExpertStep(a)
        PROVE  UNCHANGED <<order, stamp, owner, body, passVars>>
    BY <1>1 DEF ExpertStep, OnTimer, Claim, CannotClaim, RefuseRequest,
       SendOrder, WriteResult, EndTimer, journalVars, bridgeVars
  <1> QED
    BY <1>1 DEF OutsideStep, RecordDecision, MoveKillSwitch, MoveAccountSwitch,
       TerminalStarts, TerminalStops, HeartbeatGoesStale, ClosePosition, vars,
       journalVars, bridgeVars

\* A deal, once made, stays made.
LEMMA DealsStand ==
  ASSUME TypeOK, [Next]_vars, NEW i \in Intents, deal[i] # "none"
  PROVE  deal'[i] # "none"
  <1>1. ASSUME NEW a \in Accounts, ExpertStep(a)
        PROVE  deal'[i] # "none"
    BY <1>1 DEF ExpertStep, OnTimer, Claim, CannotClaim, RefuseRequest,
       SendOrder, WriteResult, EndTimer, TypeOK
  <1>2. ASSUME NEW w \in Workers,
               PassStep(w) \/ AccountRaises(w) \/ StartPass(w) \/ JobTimesOut(w)
        PROVE  deal'[i] # "none"
    BY <1>2, PassLeavesTerminals
  <1>3. ASSUME NEW j \in Intents, ClosePosition(j)
        PROVE  deal'[i] # "none"
    BY <1>3 DEF ClosePosition, TypeOK
  <1> QED
    BY <1>1, <1>2, <1>3 DEF Next, RecordDecision, MoveKillSwitch,
       MoveAccountSwitch, CollectorDies, TerminalStarts, TerminalStops,
       HeartbeatGoesStale, vars

\* The steps of a pass that leave the journal alone.
LEMMA PassLeavesJournal ==
  ASSUME NEW w \in Workers,
         \/ \E a \in Accounts : SkipAccount(w, a) \/ BeginAccount(w, a)
         \/ \E d \in Decisions : RefuseDecision(w, d)
         \/ CreateRequest(w) \/ WriteRequest(w)
         \/ EndAccount(w) \/ EndPass(w)
         \/ AccountRaises(w) \/ StartPass(w) \/ JobTimesOut(w) \/ CollectorDies
  PROVE  UNCHANGED <<order, stamp, owner>>
  BY DEF SkipAccount, BeginAccount, RefuseDecision, CreateRequest,
     WriteRequest, EndAccount, EndPass, AccountRaises, StartPass, JobTimesOut,
     CollectorDies, journalVars

LEMMA FilledStep ==
  Typed /\ AnswersAreTrue /\ FilledIsDealt /\ [Next]_vars => FilledIsDealt'
  <1> SUFFICES ASSUME Typed, AnswersAreTrue, FilledIsDealt, [Next]_vars
               PROVE  FilledIsDealt'
    OBVIOUS
  <1> USE DEF Typed
  <1>1. CASE UNCHANGED <<order, stamp>>
    BY <1>1, DealsStand DEF FilledIsDealt
  <1>2. ASSUME NEW w \in Workers, NEW d \in Decisions, NEW i \in Intents,
               MarkSubmitting(w, d, i)
        PROVE  FilledIsDealt'
    <2>1. \A k \in Keys :
             order'[k] = "filled" => order[k] = "filled" /\ stamp'[k] = stamp[k]
      BY <1>2 DEF MarkSubmitting, TypeOK
    <2> QED
      BY <2>1, DealsStand DEF FilledIsDealt
  <1>3. ASSUME NEW w \in Workers, pc[w] \in Sending, NEW state \in OrderStates,
               Settle(w, state),
               state = "filled" => deal[job[w]] # "none"
        PROVE  FilledIsDealt'
    <2>1. job[w] \in Intents /\ owner[job[w]] \in Keys
      BY <1>3 DEF Owned
    <2>2. \A k \in Keys : k # owner[job[w]] =>
             order'[k] = order[k] /\ stamp'[k] = stamp[k]
      BY <1>3, <2>1 DEF Settle, TypeOK
    <2>3. order'[owner[job[w]]] = state /\ stamp'[owner[job[w]]] = job[w]
      BY <1>3, <2>1 DEF Settle, TypeOK
    <2>4. state = "filled" => deal'[job[w]] # "none"
      BY <1>3, <2>1, DealsStand
    <2>5. \A k \in Keys : order[k] = "filled" =>
             stamp[k] \in Intents /\ deal'[stamp[k]] # "none"
      BY DealsStand DEF FilledIsDealt
    <2> QED
      BY <2>1, <2>2, <2>3, <2>4, <2>5 DEF FilledIsDealt
  <1>4. ASSUME NEW w \in Workers, WriteFails(w) \/ ReadAnswer(w) \/ AnswerTimesOut(w)
        PROVE  FilledIsDealt'
    <2>1. pc[w] = "waiting" => job[w] \in Intents
      BY DEF Owned, Sending
    <2> QED
      BY <1>3, <1>4, <2>1 DEF WriteFails, ReadAnswer, AnswerTimesOut, Accepted,
         Rejected, Sending, OrderStates, AnswersAreTrue
  <1>5. ASSUME NEW w \in Workers, PassStep(w) \/ AccountRaises(w) \/ StartPass(w)
                                 \/ JobTimesOut(w) \/ CollectorDies
        PROVE  FilledIsDealt'
    BY <1>1, <1>2, <1>4, <1>5, PassLeavesJournal DEF PassStep
  <1>6. CASE CollectorDies
    BY <1>1, <1>6 DEF CollectorDies, journalVars
  <1> QED
    BY <1>1, <1>5, <1>6, OutsideLeavesJournal DEF Next, OutsideStep

\* A decision recorded as filled has a deal behind it, however passes overlap
\* and whatever the terminal loses: an "ok" is written only after OrderSend.
THEOREM FilledHasADeal == Spec => []FilledIsDealt
  <1>1. Typed /\ AnswersAreTrue /\ FilledIsDealt /\ [Next]_vars
        => (Typed /\ AnswersAreTrue /\ FilledIsDealt)'
    BY TypedStep, AnswersStep, FilledStep
  <1> QED
    BY <1>1, TypedInit, AnswersInit, PTL DEF Spec

----------------------------------------------------------------------------
(* One order per instrument in an account's pass.                          *)

OneOrderEach == SentIsHeld /\ OnePerSymbolInAPass

\* What one pass does to its own slots.
LEMMA OneOrderEachOwn ==
  ASSUME Symbol = TradedAs, Typed, OneOrderEach,
         NEW w \in Workers, PassStep(w) \/ AccountRaises(w)
  PROVE  /\ \A d \in sent'[w] : TradedAs[d] \in held'[w]
         /\ pc'[w] \in Sending => TradedAs[owner'[job'[w]][2]] \notin held'[w]
         /\ pc'[w] \in {"idle", "accounts"} => sent'[w] = {}
         /\ \A d, e \in sent'[w] : TradedAs[d] = TradedAs[e] => d = e
  <1> DEFINE Goal == /\ \A d \in sent'[w] : TradedAs[d] \in held'[w]
                     /\ pc'[w] \in Sending =>
                           TradedAs[owner'[job'[w]][2]] \notin held'[w]
                     /\ pc'[w] \in {"idle", "accounts"} => sent'[w] = {}
                     /\ \A d, e \in sent'[w] : TradedAs[d] = TradedAs[e] => d = e
  <1> USE DEF Typed, TypeOK, OneOrderEach, SentIsHeld, OnePerSymbolInAPass
  <1>1. ASSUME NEW a \in Accounts, SkipAccount(w, a) \/ BeginAccount(w, a)
        PROVE  Goal
    BY <1>1 DEF SkipAccount, BeginAccount, Sending
  <1>2. ASSUME NEW d \in Decisions, RefuseDecision(w, d)
        PROVE  Goal
    BY <1>2 DEF RefuseDecision, Sending
  <1>3. ASSUME NEW d \in Decisions, NEW i \in Intents, MarkSubmitting(w, d, i)
        PROVE  Goal
    BY <1>3 DEF MarkSubmitting, Sending
  <1>4. CASE CreateRequest(w) \/ WriteRequest(w)
    BY <1>4 DEF CreateRequest, WriteRequest, Sending, journalVars
  <1>5. ASSUME NEW state, Rejected(w, state)
        PROVE  Goal
    BY <1>5 DEF Rejected, Settle, Sending
  <1>6. ASSUME NEW state, Accepted(w, state), pc[w] \in Sending
        PROVE  Goal
    <2>1. owner[job[w]][2] \in Decisions
      BY <1>6 DEF Owned, Keys
    <2>2. /\ sent'[w] = sent[w] \cup {owner[job[w]][2]}
          /\ held'[w] = held[w] \cup {TradedAs[owner[job[w]][2]]}
          /\ pc'[w] = "loop"
      BY <1>6 DEF Accepted, Settle
    <2> QED
      BY <1>6, <2>1, <2>2 DEF Sending
  <1>7. CASE EndAccount(w) \/ EndPass(w) \/ AccountRaises(w)
    BY <1>7 DEF EndAccount, EndPass, AccountRaises, Sending
  <1> QED
    BY <1>1, <1>2, <1>3, <1>4, <1>5, <1>6, <1>7
       DEF PassStep, WriteFails, ReadAnswer, AnswerTimesOut, Sending

\* An intent keeps the order it was made for.
LEMMA OwnersStand ==
  ASSUME Typed, [Next]_vars, NEW i \in Intents, owner[i] \in Keys
  PROVE  owner'[i] = owner[i]
  <1>1. ASSUME NEW w \in Workers, NEW d \in Decisions, NEW j \in Intents,
               MarkSubmitting(w, d, j)
        PROVE  owner'[i] = owner[i]
    BY <1>1, NoOwnerIsNoKey DEF MarkSubmitting, Typed, TypeOK
  <1>2. ASSUME NEW w \in Workers,
               WriteFails(w) \/ ReadAnswer(w) \/ AnswerTimesOut(w)
        PROVE  owner'[i] = owner[i]
    BY <1>2 DEF WriteFails, ReadAnswer, AnswerTimesOut, Accepted, Rejected,
       Settle
  <1>3. CASE \E w \in Workers : PassStep(w) \/ AccountRaises(w) \/ StartPass(w)
                               \/ JobTimesOut(w) \/ CollectorDies
    BY <1>1, <1>2, <1>3, PassLeavesJournal DEF PassStep
  <1>4. CASE CollectorDies
    BY <1>4 DEF CollectorDies, journalVars
  <1> QED
    BY <1>3, <1>4, OutsideLeavesJournal DEF Next, OutsideStep

\* A pass moves nothing of another pass.
LEMMA PassesAreApart ==
  ASSUME TypeOK, NEW w \in Workers, PassStep(w) \/ AccountRaises(w),
         NEW v \in Workers, v # w
  PROVE  /\ pc'[v] = pc[v]
         /\ sent'[v] = sent[v]
         /\ held'[v] = held[v]
         /\ job'[v] = job[v]
  <1> DEFINE Goal == /\ pc'[v] = pc[v]
                     /\ sent'[v] = sent[v]
                     /\ held'[v] = held[v]
                     /\ job'[v] = job[v]
  <1> USE DEF TypeOK
  <1>1. ASSUME NEW a \in Accounts, SkipAccount(w, a) \/ BeginAccount(w, a)
        PROVE  Goal
    BY <1>1 DEF SkipAccount, BeginAccount
  <1>2. ASSUME NEW d \in Decisions,
               RefuseDecision(w, d) \/ \E i \in Intents : MarkSubmitting(w, d, i)
        PROVE  Goal
    BY <1>2 DEF RefuseDecision, MarkSubmitting
  <1>3. CASE WriteFails(w) \/ ReadAnswer(w) \/ AnswerTimesOut(w)
    BY <1>3 DEF WriteFails, ReadAnswer, AnswerTimesOut, Accepted, Rejected,
       Settle
  <1>4. CASE CreateRequest(w) \/ WriteRequest(w) \/ EndAccount(w) \/ EndPass(w)
             \/ AccountRaises(w)
    BY <1>4 DEF CreateRequest, WriteRequest, EndAccount, EndPass, AccountRaises
  <1> QED
    BY <1>1, <1>2, <1>3, <1>4 DEF PassStep

LEMMA OneOrderEachStep ==
  ASSUME Symbol = TradedAs, Typed, OneOrderEach, [Next]_vars
  PROVE  OneOrderEach'
  <1> SUFFICES ASSUME NEW v \in Workers
               PROVE  /\ \A d \in sent'[v] : TradedAs[d] \in held'[v]
                      /\ pc'[v] \in Sending =>
                            TradedAs[owner'[job'[v]][2]] \notin held'[v]
                      /\ pc'[v] \in {"idle", "accounts"} => sent'[v] = {}
                      /\ \A d, e \in sent'[v] : TradedAs[d] = TradedAs[e] => d = e
    BY DEF OneOrderEach, SentIsHeld, OnePerSymbolInAPass
  <1> USE DEF OneOrderEach, SentIsHeld, OnePerSymbolInAPass
  <1>1. pc[v] \in Sending => owner'[job[v]] = owner[job[v]]
    BY OwnersStand DEF Typed, Owned
  <1>2. CASE PassStep(v) \/ AccountRaises(v)
    BY <1>2, OneOrderEachOwn
  <1>3. ASSUME NEW w \in Workers, w # v, PassStep(w) \/ AccountRaises(w)
        PROVE  UNCHANGED <<pc[v], sent[v], held[v], job[v]>>
    BY <1>3, PassesAreApart DEF Typed
  <1>4. ASSUME NEW w \in Workers, StartPass(w) \/ JobTimesOut(w)
        PROVE  /\ UNCHANGED <<sent[v], held[v], job[v]>>
               /\ \/ pc'[v] = pc[v]
                  \/ pc[v] = "idle" /\ pc'[v] = "accounts"
    BY <1>4 DEF StartPass, JobTimesOut, Typed, TypeOK
  <1>5. CASE CollectorDies
    BY <1>5 DEF CollectorDies, Sending
  <1>6. CASE OutsideStep
    BY <1>1, <1>6, OutsideLeavesJournal DEF passVars
  <1> QED
    BY <1>1, <1>2, <1>3, <1>4, <1>5, <1>6 DEF Next, OutsideStep, Sending

\* When every decision is held under the name it is sent as, two decisions of
\* one instrument never both go through in an account's pass, however many
\* passes overlap.
THEOREM OneEach == ASSUME Symbol = TradedAs PROVE Spec => []OnePerSymbolInAPass
  <1>1. Init => OneOrderEach
    BY DEF Init, OneOrderEach, SentIsHeld, OnePerSymbolInAPass, Sending
  <1>2. Typed /\ OneOrderEach /\ [Next]_vars => (Typed /\ OneOrderEach)'
    BY TypedStep, OneOrderEachStep
  <1>3. OneOrderEach => OnePerSymbolInAPass
    BY DEF OneOrderEach
  <1> QED
    BY <1>1, <1>2, <1>3, TypedInit, PTL DEF Spec

----------------------------------------------------------------------------
(* One pass at a time.                                                     *)

LEMMA OnePassStep ==
  ASSUME JobTimeouts = FALSE, TypeOK, OnePass, [Next]_vars
  PROVE  OnePass'
  <1> USE DEF OnePass, TypeOK
  <1>1. CASE OutsideStep
    BY <1>1, OutsideLeavesJournal DEF passVars
  <1>2. ASSUME NEW w \in Workers, StartPass(w)
        PROVE  OnePass'
    BY <1>2 DEF StartPass, NoJobRunning
  <1>3. ASSUME NEW w \in Workers, JobTimesOut(w)
        PROVE  OnePass'
    BY <1>3 DEF JobTimesOut
  <1>4. ASSUME NEW w \in Workers, PassStep(w) \/ AccountRaises(w)
        PROVE  OnePass'
    <2>1. pc[w] # "idle" /\ abandoned' \subseteq abandoned
      BY <1>4 DEF PassStep, SkipAccount, BeginAccount, RefuseDecision,
         MarkSubmitting, CreateRequest, WriteRequest, WriteFails, ReadAnswer,
         AnswerTimesOut, Accepted, Rejected, Settle, EndAccount, EndPass,
         AccountRaises
    <2>2. \A v \in Workers : v # w => pc'[v] = pc[v]
      <3>1. CASE WriteFails(w) \/ ReadAnswer(w) \/ AnswerTimesOut(w)
        BY <3>1 DEF WriteFails, ReadAnswer, AnswerTimesOut, Accepted, Rejected,
           Settle
      <3>2. ASSUME NEW a \in Accounts, SkipAccount(w, a) \/ BeginAccount(w, a)
            PROVE  \A v \in Workers : v # w => pc'[v] = pc[v]
        BY <3>2 DEF SkipAccount, BeginAccount
      <3>3. ASSUME NEW d \in Decisions,
                   RefuseDecision(w, d) \/ \E i \in Intents : MarkSubmitting(w, d, i)
            PROVE  \A v \in Workers : v # w => pc'[v] = pc[v]
        BY <3>3 DEF RefuseDecision, MarkSubmitting
      <3>4. CASE CreateRequest(w) \/ WriteRequest(w) \/ EndAccount(w)
                 \/ EndPass(w) \/ AccountRaises(w)
        BY <3>4 DEF CreateRequest, WriteRequest, EndAccount, EndPass,
           AccountRaises
      <3> QED
        BY <1>4, <3>1, <3>2, <3>3, <3>4 DEF PassStep
    <2> QED
      BY <2>1, <2>2
  <1>5. CASE CollectorDies
    BY <1>5 DEF CollectorDies
  <1> QED
    BY <1>1, <1>2, <1>3, <1>4, <1>5 DEF Next, OutsideStep

LEMMA JournalInit == Init => OnePass /\ JournalIsAhead
  BY DEF Init, OnePass, JournalIsAhead, ReadableIsNamed, SendingIsMarked,
     HeldIsOwed, StampNamesOwn, Sending

\* The "submitting" record: the decision was still owed, so no request of any
\* other intent can be read for it.
LEMMA JournalMark ==
  ASSUME Typed, OnePass, JournalIsAhead,
         NEW w \in Workers, NEW d \in Decisions, NEW i \in Intents,
         MarkSubmitting(w, d, i)
  PROVE  JournalIsAhead'
  <1> DEFINE key == <<acct[w], d>>
  <1> USE DEF Typed, JournalIsAhead
  <1>1. /\ key \in Keys
        /\ NeedsAnOrder(key)
        /\ pc[w] = "loop"
        /\ d \in cand[w]
    BY DEF MarkSubmitting, Owned, HeldIsOwed, Keys, First
  <1>2. \A j \in Intents : body[j] => owner[j] # key /\ j # i
    BY <1>1, NoOwnerIsNoKey DEF MarkSubmitting, ReadableIsNamed, Owned
  <1>3. \A v \in Workers : v # w => pc[v] = "idle"
    BY <1>1 DEF OnePass
  <1>4. /\ body' = body
        /\ acct' = acct
        /\ pc' = [pc EXCEPT ![w] = "marked"]
        /\ job' = [job EXCEPT ![w] = i]
        /\ cand' = [cand EXCEPT ![w] = @ \ {d}]
    BY DEF MarkSubmitting, bridgeVars
  <1>5. /\ \A j \in Intents : owner'[j] = IF j = i THEN key ELSE owner[j]
        /\ \A l \in Keys : order'[l] = IF l = key THEN "submitting" ELSE order[l]
        /\ \A l \in Keys : stamp'[l] = IF l = key THEN i ELSE stamp[l]
    BY <1>1 DEF MarkSubmitting, TypeOK
  <1>6. ReadableIsNamed'
    BY <1>2, <1>4, <1>5 DEF ReadableIsNamed, Owned, NeedsAnOrder
  <1>7. SendingIsMarked'
    <2>1. /\ job'[w] = i /\ owner'[i] = key
          /\ stamp'[key] = i /\ order'[key] = "submitting"
      BY <1>1, <1>4, <1>5 DEF TypeOK
    <2>2. \A v \in Workers :
             v # w => pc'[v] \notin Sending /\ pc'[v] \notin {"marked", "writing"}
      BY <1>3, <1>4 DEF TypeOK, Sending
    <2>3. ~body'[i]
      BY <1>2, <1>4
    <2> QED
      BY <2>1, <2>2, <2>3 DEF SendingIsMarked
  <1>8. HeldIsOwed'
    <2>1. ASSUME NEW e \in cand[w], e # d
          PROVE  order'[<<acct[w], e>>] \in {"none", "never_sent"}
      <3>1. NeedsAnOrder(<<acct[w], e>>) /\ <<acct[w], e>> \in Keys
        BY <1>1 DEF HeldIsOwed, Owned, TypeOK, Keys
      <3> QED
        BY <2>1, <3>1, <1>5 DEF NeedsAnOrder
    <2> QED
      BY <1>3, <1>4, <2>1 DEF HeldIsOwed, NeedsAnOrder, TypeOK, Sending
  <1>9. StampNamesOwn'
    <2>1. ASSUME NEW l \in Keys, stamp[l] # NoIntent, l # key
          PROVE  owner'[stamp[l]] = l
      <3>1. stamp[l] \in Intents /\ owner[stamp[l]] = l
        BY <2>1 DEF StampNamesOwn, TypeOK
      <3>2. stamp[l] # i
        BY <3>1, NoOwnerIsNoKey DEF MarkSubmitting
      <3> QED
        BY <3>1, <3>2, <1>5
    <2> QED
      BY <2>1, <1>5, IntentAssumption DEF StampNamesOwn
  <1> QED
    BY <1>6, <1>7, <1>8, <1>9

\* The record of what became of an order: only one whose request was never
\* readable becomes owed again.
LEMMA JournalSettle ==
  ASSUME Typed, OnePass, JournalIsAhead,
         NEW w \in Workers, pc[w] \in Sending,
         NEW state \in {"filled", "rejected", "never_sent", "unknown"},
         Settle(w, state), state = "never_sent" => ~body[job[w]]
  PROVE  JournalIsAhead'
  <1> DEFINE key == owner[job[w]]
  <1> USE DEF Typed, JournalIsAhead
  <1>1. /\ job[w] \in Intents
        /\ key \in Keys
        /\ stamp[key] = job[w]
        /\ order[key] = "submitting"
    BY DEF Owned, SendingIsMarked
  <1>2. \A v \in Workers : v # w => pc[v] = "idle"
    BY DEF OnePass, Sending
  <1>3. /\ UNCHANGED <<body, acct, owner, cand>>
        /\ pc' = [pc EXCEPT ![w] = "loop"]
    BY DEF Settle, bridgeVars
  <1>4. /\ \A l \in Keys : order'[l] = IF l = key THEN state ELSE order[l]
        /\ \A l \in Keys : stamp'[l] = stamp[l]
    BY <1>1 DEF Settle, TypeOK
  <1>5. ReadableIsNamed'
    BY <1>1, <1>3, <1>4 DEF ReadableIsNamed, Owned, NeedsAnOrder
  <1>6. SendingIsMarked'
    BY <1>2, <1>3 DEF SendingIsMarked, TypeOK, Sending
  <1>7. HeldIsOwed'
    <2>1. ASSUME NEW e \in cand[w]
          PROVE  order'[<<acct[w], e>>] \in {"none", "never_sent"}
      <3>1. NeedsAnOrder(<<acct[w], e>>) /\ <<acct[w], e>> \in Keys
        BY DEF HeldIsOwed, Owned, TypeOK, Keys
      <3> QED
        BY <3>1, <1>1, <1>4 DEF NeedsAnOrder
    <2> QED
      BY <1>2, <1>3, <2>1 DEF HeldIsOwed, NeedsAnOrder, TypeOK, Sending
  <1>8. StampNamesOwn'
    BY <1>1, <1>3, <1>4 DEF StampNamesOwn, TypeOK
  <1> QED
    BY <1>5, <1>6, <1>7, <1>8

LEMMA JournalStep ==
  ASSUME Typed, OnePass, JournalIsAhead, [Next]_vars
  PROVE  JournalIsAhead'
  <1> USE DEF JournalIsAhead
  <1>1. CASE OutsideStep
    <2>1. UNCHANGED <<order, stamp, owner, body, pc, job, cand, acct>>
      BY <1>1, OutsideLeavesJournal DEF passVars
    <2> QED
      BY <2>1 DEF ReadableIsNamed, SendingIsMarked, HeldIsOwed, StampNamesOwn,
         NeedsAnOrder
  <1>2. ASSUME UNCHANGED <<order, stamp, owner, body>>,
               \A v \in Workers : pc'[v] \in Sending =>
                  pc[v] \in Sending /\ job'[v] = job[v],
               \A v \in Workers : pc'[v] \in {"marked", "writing"} =>
                  pc[v] \in {"marked", "writing"} /\ job'[v] = job[v],
               \A v \in Workers : pc'[v] \in {"loop"} \cup Sending =>
                  /\ pc[v] \in {"loop"} \cup Sending
                  /\ cand'[v] \subseteq cand[v]
                  /\ acct'[v] = acct[v]
        PROVE  JournalIsAhead'
    <2>1. ReadableIsNamed' /\ StampNamesOwn'
      BY <1>2 DEF ReadableIsNamed, StampNamesOwn, NeedsAnOrder
    <2>2. SendingIsMarked'
      <3> SUFFICES ASSUME NEW v \in Workers
                   PROVE  /\ pc'[v] \in Sending =>
                                /\ stamp'[owner'[job'[v]]] = job'[v]
                                /\ order'[owner'[job'[v]]] = "submitting"
                          /\ pc'[v] \in {"marked", "writing"} => ~body'[job'[v]]
        BY DEF SendingIsMarked
      <3> QED
        BY <1>2 DEF SendingIsMarked
    <2>3. HeldIsOwed'
      BY <1>2 DEF HeldIsOwed, NeedsAnOrder
    <2> QED
      BY <2>1, <2>2, <2>3
  <1> USE DEF Typed, TypeOK
  <1>3. ASSUME NEW w \in Workers, StartPass(w)
        PROVE  JournalIsAhead'
    BY <1>2, <1>3 DEF StartPass, Sending, journalVars, bridgeVars
  <1>4. ASSUME NEW w \in Workers, JobTimesOut(w)
        PROVE  JournalIsAhead'
    BY <1>2, <1>4 DEF JobTimesOut, journalVars, bridgeVars
  <1>5. ASSUME NEW w \in Workers, NEW a \in Accounts, SkipAccount(w, a)
        PROVE  JournalIsAhead'
    BY <1>2, <1>5 DEF SkipAccount, journalVars, bridgeVars
  <1>6. ASSUME NEW w \in Workers, NEW a \in Accounts, BeginAccount(w, a)
        PROVE  JournalIsAhead'
    <2>1. UNCHANGED <<order, stamp, owner, body, job>>
      BY <1>6 DEF BeginAccount, journalVars, bridgeVars
    <2>2. /\ pc' = [pc EXCEPT ![w] = "loop"]
          /\ acct' = [acct EXCEPT ![w] = a]
          /\ cand' = [cand EXCEPT ![w] = {d \in recorded : NeedsAnOrder(<<a, d>>)}]
      BY <1>6 DEF BeginAccount
    <2>3. ReadableIsNamed' /\ StampNamesOwn'
      BY <2>1 DEF ReadableIsNamed, StampNamesOwn, NeedsAnOrder
    <2>4. SendingIsMarked'
      BY <2>1, <2>2 DEF SendingIsMarked, Sending
    <2>5. HeldIsOwed'
      BY <2>1, <2>2 DEF HeldIsOwed, NeedsAnOrder
    <2> QED
      BY <2>3, <2>4, <2>5
  <1>7. ASSUME NEW w \in Workers, NEW d \in Decisions, RefuseDecision(w, d)
        PROVE  JournalIsAhead'
    BY <1>2, <1>7 DEF RefuseDecision, journalVars, bridgeVars
  <1>8. ASSUME NEW w \in Workers, NEW d \in Decisions, NEW i \in Intents,
               MarkSubmitting(w, d, i)
        PROVE  JournalIsAhead'
    BY <1>8, JournalMark
  <1>9. ASSUME NEW w \in Workers, CreateRequest(w)
        PROVE  JournalIsAhead'
    BY <1>2, <1>9 DEF CreateRequest, Sending, journalVars
  <1>10. ASSUME NEW w \in Workers, WriteRequest(w)
         PROVE  JournalIsAhead'
    <2>1. /\ pc[w] \in Sending
          /\ job[w] \in Intents
          /\ stamp[owner[job[w]]] = job[w]
          /\ order[owner[job[w]]] = "submitting"
      BY <1>10 DEF WriteRequest, Sending, Owned, SendingIsMarked
    <2>2. /\ UNCHANGED <<order, stamp, owner, job, cand, acct>>
          /\ body' = [body EXCEPT ![job[w]] = TRUE]
          /\ pc' = [pc EXCEPT ![w] = "waiting"]
      BY <1>10 DEF WriteRequest, journalVars
    <2>3. \A v \in Workers : v # w => pc[v] = "idle"
      BY <2>1 DEF OnePass, Sending
    <2>4. ReadableIsNamed'
      BY <2>1, <2>2 DEF ReadableIsNamed, NeedsAnOrder
    <2>5. SendingIsMarked'
      BY <2>1, <2>2, <2>3 DEF SendingIsMarked, Sending
    <2>6. HeldIsOwed' /\ StampNamesOwn'
      BY <2>1, <2>2 DEF HeldIsOwed, StampNamesOwn, NeedsAnOrder, Sending
    <2> QED
      BY <2>4, <2>5, <2>6
  <1>11. ASSUME NEW w \in Workers,
                WriteFails(w) \/ ReadAnswer(w) \/ AnswerTimesOut(w)
         PROVE  JournalIsAhead'
    <2>1. WriteFails(w) => ~body[job[w]]
      BY DEF WriteFails, SendingIsMarked
    <2> QED
      BY <1>11, <2>1, JournalSettle DEF WriteFails, ReadAnswer, AnswerTimesOut,
         Accepted, Rejected, Sending
  <1>12. ASSUME NEW w \in Workers, EndAccount(w)
         PROVE  JournalIsAhead'
    BY <1>2, <1>12 DEF EndAccount, Sending, journalVars, bridgeVars
  <1>13. ASSUME NEW w \in Workers, EndPass(w)
         PROVE  JournalIsAhead'
    BY <1>2, <1>13 DEF EndPass, Sending, journalVars, bridgeVars
  <1>14. ASSUME NEW w \in Workers, AccountRaises(w)
         PROVE  JournalIsAhead'
    BY <1>2, <1>14 DEF AccountRaises, Sending, journalVars, bridgeVars
  <1>15. CASE CollectorDies
    BY <1>2, <1>15 DEF CollectorDies, Sending, journalVars, bridgeVars
  <1> QED
    BY <1>1, <1>3, <1>4, <1>5, <1>6, <1>7, <1>8, <1>9, <1>10, <1>11, <1>12,
       <1>13, <1>14, <1>15 DEF Next, PassStep, OutsideStep

Safe == Typed /\ OnePass /\ JournalIsAhead

\* While no job outlives its timeout, the journal is ahead of the bridge in
\* every reachable state.
THEOREM Ahead == ASSUME JobTimeouts = FALSE PROVE Spec => []Safe
  <1>1. Init => Safe
    BY TypedInit, JournalInit DEF Safe
  <1>2. Safe /\ [Next]_vars => Safe'
    BY TypedStep, OnePassStep, JournalStep DEF Safe, Typed
  <1> QED
    BY <1>1, <1>2, PTL DEF Spec

\* A deal can always be traced to the journal, whatever dies in between.
THEOREM DealsAreOnRecord ==
  ASSUME JobTimeouts = FALSE PROVE Spec => []EveryDealIsOnRecord
  <1>1. Safe => EveryDealIsOnRecord
    BY DEF Safe, Typed, Owned, JournalIsAhead, ReadableIsNamed,
       EveryDealIsOnRecord
  <1> QED
    BY <1>1, Ahead, PTL

\* Once-ever per account: two deals of one decision on one account are the
\* same deal, because the journal names only one intent for them.
THEOREM Once == ASSUME JobTimeouts = FALSE PROVE Spec => []AtMostOnce
  <1>1. EveryDealIsOnRecord => AtMostOnce
    BY DEF EveryDealIsOnRecord, AtMostOnce
  <1> QED
    BY <1>1, DealsAreOnRecord, PTL

\* The one rejection that is retried proves that nothing was sent.
THEOREM NeverSentProves ==
  ASSUME JobTimeouts = FALSE PROVE Spec => []NeverSentIsProof
  <1>1. ASSUME Safe, NEW k \in Keys, order[k] = "never_sent"
        PROVE  deal[stamp[k]] = "none" /\ ~body[stamp[k]]
    <2>1. stamp[k] \in Intents /\ owner[stamp[k]] = k
      BY <1>1 DEF Safe, Typed, TypeOK, JournalIsAhead, StampNamesOwn
    <2>2. ~body[stamp[k]]
      BY <1>1, <2>1 DEF Safe, JournalIsAhead, ReadableIsNamed, NeedsAnOrder
    <2> QED
      BY <1>1, <2>1, <2>2 DEF Safe, Typed, Owned
  <1>2. Safe => NeverSentIsProof
    BY <1>1 DEF NeverSentIsProof
  <1> QED
    BY <1>2, Ahead, PTL

----------------------------------------------------------------------------
(* The record of an order only moves forward.                              *)

LEMMA ForwardStep ==
  ASSUME Safe, [Next]_vars, NEW k \in Keys
  PROVE  MovesForward(k)
  <1> USE DEF Safe, Typed
  <1>1. CASE UNCHANGED order
    BY <1>1 DEF MovesForward
  <1>2. ASSUME NEW w \in Workers, NEW d \in Decisions, NEW i \in Intents,
               MarkSubmitting(w, d, i)
        PROVE  MovesForward(k)
    <2>1. NeedsAnOrder(<<acct[w], d>>)
      BY <1>2 DEF MarkSubmitting, JournalIsAhead, HeldIsOwed, First
    <2>2. stamp[k] # i
      BY <1>2, NoOwnerIsNoKey, IntentAssumption
         DEF MarkSubmitting, JournalIsAhead, StampNamesOwn
    <2> QED
      BY <1>2, <2>1, <2>2 DEF MarkSubmitting, MovesForward, NeedsAnOrder, TypeOK
  <1>3. ASSUME NEW w \in Workers, pc[w] \in Sending,
               NEW state \in {"filled", "rejected", "never_sent", "unknown"},
               Settle(w, state)
        PROVE  MovesForward(k)
    <2>1. /\ owner[job[w]] \in Keys
          /\ stamp[owner[job[w]]] = job[w]
          /\ order[owner[job[w]]] = "submitting"
      BY <1>3 DEF Owned, JournalIsAhead, SendingIsMarked
    <2> QED
      BY <1>3, <2>1 DEF Settle, MovesForward, TypeOK
  <1>4. ASSUME NEW w \in Workers, WriteFails(w) \/ ReadAnswer(w) \/ AnswerTimesOut(w)
        PROVE  MovesForward(k)
    BY <1>3, <1>4 DEF WriteFails, ReadAnswer, AnswerTimesOut, Accepted,
       Rejected, Sending
  <1>5. ASSUME NEW w \in Workers, PassStep(w) \/ AccountRaises(w) \/ StartPass(w)
                                 \/ JobTimesOut(w)
        PROVE  MovesForward(k)
    BY <1>1, <1>2, <1>4, <1>5, PassLeavesJournal DEF PassStep
  <1>6. CASE CollectorDies
    BY <1>1, <1>6 DEF CollectorDies, journalVars
  <1> QED
    BY <1>1, <1>5, <1>6, OutsideLeavesJournal DEF Next, OutsideStep

\* No answer is overwritten and no order is reopened: the record goes to
\* "submitting" when an order is owed, and from there once to its end.
THEOREM Forward == ASSUME JobTimeouts = FALSE PROVE Spec => RecordMovesForward
  <1>1. Safe /\ [Next]_vars => [\A k \in Keys : MovesForward(k)]_vars
    BY ForwardStep
  <1> QED
    BY <1>1, Ahead, PTL DEF Spec, RecordMovesForward

----------------------------------------------------------------------------
(* The path keeps its promise.                                             *)

LEMMA PromiseInit == Init => Promise!Init
  <1> SUFFICES ASSUME Init
               PROVE  Promise!Init
    OBVIOUS
  <1>1. \A k \in Keys : DealsOf(k) = {} /\ NeedsAnOrder(k)
    BY DEF Init, DealsOf, NeedsAnOrder
  <1>2. \A k \in Keys : Cardinality(DealsOf(k)) = 0
    BY <1>1, FS_EmptySet
  <1> QED
    BY <1>1, <1>2 DEF Promise!Init, Dealt, Standing

\* A deal of a key is the one intent its record names.
LEMMA DealIsNamed ==
  ASSUME Safe, NEW k \in Keys, NEW i \in DealsOf(k)
  PROVE  body[i] /\ stamp[k] = i /\ ~NeedsAnOrder(k)
  BY DEF Safe, Typed, Owned, JournalIsAhead, ReadableIsNamed, DealsOf

LEMMA PromiseStep ==
  ASSUME Safe, [Next]_vars
  PROVE  [Promise!Next]_<<Standing, Dealt>>
  <1> USE DEF Safe, Typed
  <1>1. ASSUME \A k \in Keys : /\ DealsOf(k)' = DealsOf(k)
                               /\ DealsOf(k) # {} \/ NeedsAnOrder(k)' = NeedsAnOrder(k)
        PROVE  UNCHANGED <<Standing, Dealt>>
    BY <1>1 DEF Standing, Dealt
  <1>2. CASE UNCHANGED <<order, owner, deal>>
    BY <1>1, <1>2 DEF DealsOf, NeedsAnOrder
  <1>3. ASSUME NEW w \in Workers, NEW d \in Decisions, NEW i \in Intents,
               MarkSubmitting(w, d, i)
        PROVE  Promise!Next
    <2> DEFINE key == <<acct[w], d>>
    <2>1. key \in Keys /\ NeedsAnOrder(key)
      BY <1>3 DEF MarkSubmitting, Owned, JournalIsAhead, HeldIsOwed, Keys, First
    <2>2. DealsOf(key) = {}
      BY <2>1, DealIsNamed
    <2>3. deal[i] = "none" /\ deal' = deal
      BY <1>3, NoOwnerIsNoKey DEF MarkSubmitting, Owned
    <2>4. \A j \in Intents : j # i => owner'[j] = owner[j]
      BY <1>3 DEF MarkSubmitting, TypeOK
    <2>5. \A k \in Keys : DealsOf(k)' = DealsOf(k)
      BY <2>3, <2>4 DEF DealsOf
    <2>6. \A k \in Keys : NeedsAnOrder(k)' = (k # key /\ NeedsAnOrder(k))
      BY <1>3, <2>1 DEF MarkSubmitting, TypeOK, NeedsAnOrder
    <2>7. Promise!Commit(key)
      BY <2>1, <2>2, <2>5, <2>6 DEF Promise!Commit, Standing, Dealt
    <2> QED
      BY <2>1, <2>7 DEF Promise!Next
  <1>4. ASSUME NEW w \in Workers, pc[w] \in Sending,
               NEW state \in {"filled", "rejected", "never_sent", "unknown"},
               Settle(w, state), state = "never_sent" => ~body[job[w]]
        PROVE  [Promise!Next]_<<Standing, Dealt>>
    <2> DEFINE key == owner[job[w]]
    <2>1. /\ key \in Keys
          /\ stamp[key] = job[w]
          /\ order[key] = "submitting"
      BY <1>4 DEF Owned, JournalIsAhead, SendingIsMarked
    <2>2. \A k \in Keys : DealsOf(k)' = DealsOf(k)
      BY <1>4 DEF Settle, DealsOf
    <2>3. \A k \in Keys :
             NeedsAnOrder(k)' = IF k = key THEN state = "never_sent" ELSE NeedsAnOrder(k)
      BY <1>4, <2>1 DEF Settle, TypeOK, NeedsAnOrder
    <2>4. ~NeedsAnOrder(key)
      BY <2>1 DEF NeedsAnOrder
    <2>5. CASE state = "never_sent"
      <3>1. DealsOf(key) = {}
        BY <1>4, <2>1, <2>5, DealIsNamed
      <3>2. Promise!Void(key)
        BY <2>1, <2>2, <2>3, <2>4, <2>5, <3>1 DEF Promise!Void, Standing, Dealt
      <3> QED
        BY <2>1, <3>2 DEF Promise!Next
    <2>6. CASE state # "never_sent"
      BY <1>1, <2>2, <2>3, <2>4, <2>6 DEF NeedsAnOrder
    <2> QED
      BY <2>5, <2>6
  <1>5. ASSUME NEW a \in Accounts, SendOrder(a)
        PROVE  [Promise!Next]_<<Standing, Dealt>>
    <2>1. UNCHANGED <<order, owner>>
      BY <1>5 DEF SendOrder, journalVars
    <2>2. deal' = [deal EXCEPT ![task[a]] = "open"] /\ body[task[a]]
      BY <1>5 DEF SendOrder
    <2>3. CASE task[a] \notin Intents \/ deal[task[a]] # "none"
      <3>1. \A k \in Keys : DealsOf(k)' = DealsOf(k)
        BY <2>1, <2>2, <2>3 DEF DealsOf, TypeOK
      <3> QED
        BY <1>1, <2>1, <3>1 DEF NeedsAnOrder
    <2>4. CASE task[a] \in Intents /\ deal[task[a]] = "none"
      <3>1. PICK i \in Intents : i = task[a] /\ deal[i] = "none" /\ body[i]
        BY <2>2, <2>4
      <3>2. PICK key \in Keys : key = owner[i]
        BY <3>1 DEF Owned
      <3>3. stamp[key] = i /\ ~NeedsAnOrder(key)
        BY <3>1, <3>2 DEF JournalIsAhead, ReadableIsNamed
      <3>4. DealsOf(key) = {}
        <4>1. ASSUME NEW j \in DealsOf(key)
              PROVE  FALSE
          BY <3>1, <3>3, <4>1, DealIsNamed DEF DealsOf
        <4> QED
          BY <4>1
      <3>5. DealsOf(key)' = {i}
        BY <2>1, <2>2, <3>1, <3>2, <3>4 DEF DealsOf, TypeOK
      <3>6. \A k \in Keys : k # key => DealsOf(k)' = DealsOf(k)
        BY <2>1, <2>2, <3>1, <3>2 DEF DealsOf, TypeOK
      <3>7. Cardinality(DealsOf(key)') = 1
        BY <3>5, FS_Singleton
      <3>8. \A k \in Keys : NeedsAnOrder(k)' = NeedsAnOrder(k)
        BY <2>1 DEF NeedsAnOrder
      <3>9. Standing[key] = "committed" /\ Standing'[key] = "opened"
        BY <3>3, <3>4, <3>5 DEF Standing
      <3>10. Standing' = [Standing EXCEPT ![key] = "opened"]
        BY <3>5, <3>6, <3>8 DEF Standing
      <3>11. Dealt' = [Dealt EXCEPT ![key] = 1]
        BY <3>6, <3>7 DEF Dealt
      <3> QED
        BY <3>9, <3>10, <3>11 DEF Promise!Open, Promise!Next
    <2> QED
      BY <2>3, <2>4
  <1>6. ASSUME NEW i \in Intents, ClosePosition(i)
        PROVE  UNCHANGED <<Standing, Dealt>>
    <2>1. \A k \in Keys : DealsOf(k)' = DealsOf(k)
      BY <1>6 DEF ClosePosition, DealsOf, TypeOK, journalVars
    <2> QED
      BY <1>1, <1>6, <2>1 DEF ClosePosition, NeedsAnOrder, journalVars
  <1>7. ASSUME NEW w \in Workers, PassStep(w) \/ AccountRaises(w) \/ StartPass(w)
                                 \/ JobTimesOut(w)
        PROVE  [Promise!Next]_<<Standing, Dealt>>
    <2>1. CASE WriteFails(w) \/ ReadAnswer(w) \/ AnswerTimesOut(w)
      <3>1. WriteFails(w) => ~body[job[w]]
        BY DEF WriteFails, JournalIsAhead, SendingIsMarked
      <3> QED
        BY <1>4, <2>1, <3>1 DEF WriteFails, ReadAnswer, AnswerTimesOut, Accepted,
           Rejected, Sending
    <2> QED
      BY <1>2, <1>3, <1>7, <2>1, PassLeavesJournal, PassLeavesTerminals
         DEF PassStep
  <1>8. ASSUME NEW a \in Accounts, ExpertStep(a)
        PROVE  [Promise!Next]_<<Standing, Dealt>>
    BY <1>2, <1>5, <1>8 DEF ExpertStep, OnTimer, Claim, CannotClaim,
       RefuseRequest, WriteResult, EndTimer, journalVars
  <1> QED
    BY <1>2, <1>6, <1>7, <1>8 DEF Next, RecordDecision, MoveKillSwitch,
       MoveAccountSwitch, CollectorDies, TerminalStarts, TerminalStops,
       HeartbeatGoesStale, vars, journalVars

\* The detailed path implements OrderPromise: committed on record before it
\* is dealt, dealt once, and void only when nothing was sent.
THEOREM Promised == ASSUME JobTimeouts = FALSE PROVE Spec => KeepsPromise
  <1>1. Safe /\ [Next]_vars => [Promise!Next]_<<Standing, Dealt>>
    BY PromiseStep
  <1> QED
    BY <1>1, PromiseInit, Ahead, PTL DEF Spec, KeepsPromise, Promise!Spec
============================================================================
