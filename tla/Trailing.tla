------------------------------ MODULE Trailing ------------------------------
(***************************************************************************)
(* Tightening the stops of open positions: the sweep of the collector      *)
(* (`tighten_stops`, `trailing.run`), the amend requests it leaves in the  *)
(* bridge directories (`MetaTraderBroker.amend`) and the expert that       *)
(* executes them (`AmendOne`), late or never, in any order, on a market    *)
(* and a book that have moved since.                                       *)
(*                                                                         *)
(* Prices are whole numbers of a unit small enough for the fractions the   *)
(* code takes of a distance. A position keeps the entry and the target it  *)
(* was opened with; only its stop moves.                                   *)
(***************************************************************************)
EXTENDS Integers, FiniteSets

CONSTANTS
    Tickets,
    Accounts,
    Shapes,    \* what a position may look like when the sweep first sees it:
               \* [side, entry, stop, target], 0 for a level it does not have
    Prices,    \* the prices the market visits
    Trailing,  \* accounts whose policy switches trailing on
    Locked,    \* prop accounts, locked over the weekend
    NoShape

ASSUME LevelAssumption ==
    /\ Prices \subseteq Nat \ {0}
    /\ Shapes \subseteq [side : {"buy", "sell"}, entry : Nat \ {0},
                         stop : Nat, target : Nat]
    /\ NoShape \notin Shapes

ASSUME AccountAssumption ==
    /\ Trailing \subseteq Accounts
    /\ Locked \subseteq Accounts

VARIABLES
    price,       \* the price every position would close at
    weekend,     \* _weekend_ahead(now)
    born,        \* born[t]: the shape of t's position
    holder,      \* holder[t]: the account it is on
    stop,        \* stop[t]: the stop the broker holds, 0 for none
    closed,      \* positions the broker has closed
    book, quote, \* book[t], quote[t]: its stop and price, as last published
    listed,      \* positions in the published books
    request,     \* amend requests left for the expert: <<ticket, stop>>
    pc, queue, locking, unprotected,  \* the sweep
    alarmed      \* positions named by an "unprotected-position" incident

marketVars == <<price, weekend>>
brokerVars == <<born, holder, stop, closed>>
shownVars  == <<book, quote, listed>>
sweepVars  == <<pc, queue, locking, unprotected, alarmed>>

vars == <<marketVars, brokerVars, shownVars, request, sweepVars>>

----------------------------------------------------------------------------
\* How far x is ahead of y for a position on that side.
Ahead(side, x, y) == IF side = "buy" THEN x - y ELSE y - x

Distance(x, y) == IF x >= y THEN x - y ELSE y - x

\* original_risk: the target was placed at 1.5 times the sized distance, so
\* it still carries it when the stop no longer does.
OriginalRisk(s, level) ==
    LET implied == (2 * Distance(s.target, s.entry)) \div 3 IN
    IF s.target # 0 /\ implied > 0 THEN implied ELSE Distance(s.entry, level)

\* TRAIL_FRACTION of the risk.
Lag(risk) == (3 * risk) \div 5

NoLevel == 0

\* Slip: the trail starts with the position, not once it has earned it.
ProposedStopAtOnce(s, level, at, risk, locks) ==
    LET ahead == Ahead(s.side, at, s.entry)
        trail == IF s.side = "buy" THEN at - Lag(risk) ELSE at + Lag(risk) IN
    IF risk <= 0 \/ ahead < 0 THEN NoLevel
    ELSE IF Ahead(s.side, trail, level) > 0 THEN trail ELSE NoLevel

\* proposed_stop: nothing below START_AT_R, but for the weekend lock to entry
\* from WEEKEND_LOCK_AT_R; then a trail, if it tightens.
ProposedStop(s, level, at, risk, locks) ==
    LET ahead == Ahead(s.side, at, s.entry)
        trail == IF s.side = "buy" THEN at - Lag(risk) ELSE at + Lag(risk) IN
    IF risk <= 0 THEN NoLevel
    ELSE IF locks /\ 10 * ahead >= 3 * risk /\ ahead < risk
         THEN IF Ahead(s.side, s.entry, level) > 0 THEN s.entry ELSE NoLevel
    ELSE IF ahead >= risk /\ Ahead(s.side, trail, level) > 0 THEN trail
    ELSE NoLevel

\* MIN_STEP_FRACTION: the smallest move worth sending.
WorthSending(level, to, risk) == 10 * Distance(to, level) >= risk

Exists(t) == born[t] # NoShape
Open(t)   == Exists(t) /\ t \notin closed

\* Slip: the weekend lock of one account pulls the stops of all.
LocksEverywhere(a) == locking

\* trailing.run: the weekend lock is for the locked accounts, by login.
LocksOn(a) == locking /\ a \in Locked

\* tighten_stops: the accounts asked for trailing, and over the weekend the
\* locked ones.
Asked == Trailing \cup (IF weekend THEN Locked ELSE {})

----------------------------------------------------------------------------
Levels == Nat

TypeOK ==
    /\ price \in Prices
    /\ weekend \in BOOLEAN
    /\ born \in [Tickets -> Shapes \cup {NoShape}]
    /\ holder \in [Tickets -> Accounts]
    /\ stop \in [Tickets -> Levels]
    /\ closed \subseteq Tickets
    /\ book \in [Tickets -> Levels]
    /\ quote \in [Tickets -> Prices]
    /\ listed \subseteq Tickets
    /\ request \subseteq Tickets \X (Levels \ {NoLevel})
    /\ pc \in {"idle", "sweeping", "amending"}
    /\ queue \subseteq Tickets
    /\ locking \in BOOLEAN
    /\ unprotected \subseteq Tickets
    /\ alarmed \subseteq Tickets

Init ==
    /\ price \in Prices
    /\ weekend = FALSE
    /\ born = [t \in Tickets |-> NoShape]
    /\ holder \in [Tickets -> Accounts]
    /\ stop = [t \in Tickets |-> 0]
    /\ closed = {}
    /\ book = [t \in Tickets |-> 0]
    /\ quote = [t \in Tickets |-> price]
    /\ listed = {}
    /\ request = {}
    /\ pc = "idle"
    /\ queue = {}
    /\ locking = FALSE
    /\ unprotected = {}
    /\ alarmed = {}

----------------------------------------------------------------------------
(* The market and the broker.                                              *)

\* A position appears on an account, opened and re-anchored by the expert,
\* opened and left as sent, or opened by hand. A ticket is never reused.
OpenPosition(t, s) ==
    /\ ~Exists(t)
    /\ price = s.entry
    /\ born' = [born EXCEPT ![t] = s]
    /\ stop' = [stop EXCEPT ![t] = s.stop]
    /\ UNCHANGED <<holder, closed, marketVars, shownVars, request,
                   sweepVars>>

\* The broker closes a position whose stop or target the price has reached.
Reached(t, p) ==
    /\ Open(t)
    /\ \/ stop[t] # 0 /\ Ahead(born[t].side, p, stop[t]) <= 0
       \/ born[t].target # 0 /\ Ahead(born[t].side, p, born[t].target) >= 0

MovePrice(p) ==
    /\ p # price
    /\ price' = p
    /\ closed' = closed \cup {t \in Tickets : Reached(t, p)}
    /\ UNCHANGED <<weekend, born, holder, stop, shownVars, request, sweepVars>>

WeekendChanges ==
    /\ weekend' = ~weekend
    /\ UNCHANGED <<price, brokerVars, shownVars, request, sweepVars>>

\* The expert publishes: the positions, and elsewhere in its pass the quotes.
\* What the sweep reads of a position may be of any age.
PublishPosition(t) ==
    /\ listed' = IF Open(t) THEN listed \cup {t} ELSE listed \ {t}
    /\ book' = [book EXCEPT ![t] = stop[t]]
    /\ UNCHANGED <<quote, marketVars, brokerVars, request, sweepVars>>

PublishQuote(t) ==
    /\ quote' = [quote EXCEPT ![t] = price]
    /\ UNCHANGED <<book, listed, marketVars, brokerVars, request, sweepVars>>

----------------------------------------------------------------------------
(* The sweep.                                                              *)

\* tighten_stops: the logins and the weekend are read once; with no login at
\* all the sweep returns. A terminal that cannot be read is passed over.
StartSweep(readable) ==
    /\ pc = "idle"
    /\ Asked # {}
    /\ pc' = "sweeping"
    /\ locking' = weekend
    /\ queue' = {t \in listed : holder[t] \in Asked \cap readable}
    /\ UNCHANGED <<unprotected, alarmed, marketVars, brokerVars, shownVars,
                   request>>

\* Slip: a position without a stop is counted as a skip, and nothing more.
SkipUnprotected(t) ==
    /\ pc = "sweeping"
    /\ t \in queue
    /\ book[t] = 0
    /\ queue' = queue \ {t}
    /\ UNCHANGED <<pc, locking, unprotected, alarmed, marketVars, brokerVars,
                   shownVars, request>>

\* A position without a stop is only named.
NameUnprotected(t) ==
    /\ pc = "sweeping"
    /\ t \in queue
    /\ book[t] = 0
    /\ queue' = queue \ {t}
    /\ unprotected' = unprotected \cup {t}
    /\ UNCHANGED <<pc, locking, alarmed, marketVars, brokerVars, shownVars,
                   request>>

Candidate(t) ==
    LET risk == OriginalRisk(born[t], book[t])
        to   == ProposedStop(born[t], book[t], quote[t], risk, LocksOn(holder[t]))
    IN  IF to # NoLevel /\ WorthSending(book[t], to, risk) THEN to ELSE NoLevel

\* Nothing to move: no quote is read, or it is not far enough ahead, or the
\* move is less than one step.
PassOver(t, quoted) ==
    /\ pc = "sweeping"
    /\ t \in queue
    /\ book[t] # 0
    /\ quoted => Candidate(t) = NoLevel
    /\ queue' = queue \ {t}
    /\ UNCHANGED <<pc, locking, unprotected, alarmed, marketVars, brokerVars,
                   shownVars, request>>

\* Slip: a proposal of nothing is sent as a level.
AmendAnyway(t) ==
    /\ pc = "sweeping"
    /\ t \in queue
    /\ book[t] # 0
    /\ queue' = queue \ {t}
    /\ request' = request \cup {<<t, Candidate(t)>>}
    /\ pc' = "amending"
    /\ UNCHANGED <<locking, unprotected, alarmed, marketVars, brokerVars,
                   shownVars>>

\* amend: the request is written, and the sweep waits for its answer; or it
\* cannot be written.
Amend(t) ==
    /\ pc = "sweeping"
    /\ t \in queue
    /\ book[t] # 0
    /\ Candidate(t) # NoLevel
    /\ queue' = queue \ {t}
    /\ request' \in {request, request \cup {<<t, Candidate(t)>>}}
    /\ pc' = "amending"
    /\ UNCHANGED <<locking, unprotected, alarmed, marketVars, brokerVars,
                   shownVars>>

\* The answer is read, or the wait expires and the request stays behind.
AmendReturns ==
    /\ pc = "amending"
    /\ pc' = "sweeping"
    /\ UNCHANGED <<queue, locking, unprotected, alarmed, marketVars,
                   brokerVars, shownVars, request>>

\* The positions named are recorded as an incident, or that fails.
EndSweep(recorded) ==
    /\ pc = "sweeping"
    /\ queue = {}
    /\ pc' = "idle"
    /\ alarmed' = IF recorded THEN alarmed \cup unprotected ELSE alarmed
    /\ unprotected' = {}
    /\ UNCHANGED <<queue, locking, marketVars, brokerVars, shownVars, request>>

CollectorDies ==
    /\ pc # "idle"
    /\ pc' = "idle"
    /\ queue' = {}
    /\ unprotected' = {}
    /\ UNCHANGED <<locking, alarmed, marketVars, brokerVars, shownVars,
                   request>>

----------------------------------------------------------------------------
(* The expert.                                                             *)

\* Slip: the expert does as it is asked, whichever way the stop moves.
AmendsAsAsked(t, level) ==
    /\ Open(t)
    /\ level # stop[t]
    /\ Ahead(born[t].side, price, level) > 0

\* AmendOne: never away from the price, never on the wrong side of it.
Amends(t, level) ==
    /\ Open(t)
    /\ level # stop[t]
    /\ stop[t] # 0 => Ahead(born[t].side, level, stop[t]) >= 0
    /\ Ahead(born[t].side, price, level) > 0

ExecuteAmend(q) ==
    /\ q \in request
    /\ Amends(q[1], q[2])
    /\ stop' = [stop EXCEPT ![q[1]] = q[2]]
    /\ request' = request \ {q}
    /\ UNCHANGED <<born, holder, closed, marketVars, shownVars, sweepVars>>

\* The expert answers without amending (nothing to amend, a refusal of its own
\* or of the venue), or dies with the claim in its hand.
DropAmend(q) ==
    /\ q \in request
    /\ request' = request \ {q}
    /\ UNCHANGED <<marketVars, brokerVars, shownVars, sweepVars>>

----------------------------------------------------------------------------
SweepStep ==
    \/ \E t \in Tickets : NameUnprotected(t) \/ Amend(t)
    \/ \E t \in Tickets, quoted \in BOOLEAN : PassOver(t, quoted)
    \/ AmendReturns

Next ==
    \/ \E t \in Tickets, s \in Shapes : OpenPosition(t, s)
    \/ \E p \in Prices : MovePrice(p)
    \/ WeekendChanges
    \/ \E t \in Tickets : PublishPosition(t) \/ PublishQuote(t)
    \/ \E readable \in SUBSET Accounts : StartSweep(readable)
    \/ SweepStep
    \/ \E recorded \in BOOLEAN : EndSweep(recorded)
    \/ CollectorDies
    \/ \E q \in request : ExecuteAmend(q) \/ DropAmend(q)

Spec == Init /\ [][Next]_vars

\* The scheduling the code has: the collector starts a sweep every quarter of
\* an hour, does not die in every one of them, and a running expert publishes
\* on its timer. No terminal is unreadable and no incident unwritable for ever.
FairSpec ==
    /\ Spec
    /\ SF_vars(StartSweep(Accounts))
    /\ SF_vars(SweepStep)
    /\ WF_vars(EndSweep(FALSE))
    /\ SF_vars(EndSweep(TRUE) /\ unprotected # {})
    /\ \A t \in Tickets : WF_vars(PublishPosition(t))

----------------------------------------------------------------------------
(* What the sweep promises.                                                *)

\* "A stop never widens", and the sweep never invents one: whatever is left in
\* the bridge from earlier sweeps, and in whatever order the expert takes it.
Tightens(t) ==
    Exists(t) /\ stop'[t] # stop[t] =>
        stop[t] # 0 /\ Ahead(born[t].side, stop'[t], stop[t]) > 0

StopNeverWidens == [][\A t \in Tickets : Tightens(t)]_vars

\* The distance a position was sized against.
Sized(t) == OriginalRisk(born[t], born[t].stop)

Moved(t) == Exists(t) /\ stop[t] # born[t].stop

\* "At 1 R ahead the stop lands at +0.4 R, locked in": a stop that has moved
\* locks in at least that, or is at the entry of a position on an account
\* locked for the weekend.
MovesLockIn ==
    \A t \in Tickets : Moved(t) =>
        \/ 5 * Ahead(born[t].side, stop[t], born[t].entry) >= 2 * Sized(t)
        \/ holder[t] \in Locked /\ stop[t] = born[t].entry

\* "The one place that sees them all and runs on its own": on an account that
\* trails, a position the broker holds no stop for is named in an incident, or
\* closed.
Stopless(t) == Exists(t) /\ stop[t] = 0 /\ holder[t] \in Trailing

StoplessIsNamed ==
    \A t \in Tickets : Stopless(t) ~> t \in alarmed \cup closed
=============================================================================
