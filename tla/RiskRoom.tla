------------------------------ MODULE RiskRoom ------------------------------
(***************************************************************************)
(* The money an account may still put behind stops: the risk brain's daily *)
(* and drawdown limits (brain/risk.py, _account_state), the share of a     *)
(* prop challenge's daily and total floors that the next trade may use     *)
(* (_prop_guard, _risk_budget), the cap on all open stops together         *)
(* (_open_risk_room), and the rounding of a size down to the broker's step *)
(* (calculators.lot_size).                                                 *)
(*                                                                         *)
(* Money is whole units.  Each limit is read once, when a cycle begins, and *)
(* every order of the cycle is sized by it.                                *)
(***************************************************************************)
EXTENDS Integers

CONSTANTS
    Slots,        \* the places a position may take
    Start,        \* the balance the challenge was registered with
    Allowance,    \* what a day may lose
    TotalLoss,    \* what the challenge may lose
    Goal,         \* the equity that passes the phase
    DaysNeeded,   \* days to be traded before the phase can pass
    Percent,      \* the configured risk per trade, in per cent of equity
    LotStep,      \* the money one volume step puts behind a stop
    Conviction,   \* multipliers, in per cent, that may take some away
    PerCycle,     \* orders one cycle may send
    Tick,         \* the grain at which equities and results are told apart
    ReadAhead,    \* whether a cycle may read a book that is ahead
    LastDay       \* bound: the last day

ASSUME RiskAssumption ==
    /\ Start \in Nat /\ Allowance \in Nat \ {0} /\ TotalLoss \in Nat
    /\ TotalLoss <= Start /\ Allowance <= TotalLoss
    /\ Goal \in Nat /\ DaysNeeded \in Nat /\ Percent \in Nat /\ LotStep \in Nat \ {0}
    /\ Conviction \subseteq 0..100
    /\ PerCycle \in Nat \ {0} /\ Tick \in Nat \ {0} /\ ReadAhead \in BOOLEAN /\ LastDay \in Nat

VARIABLES
    day,
    balance,
    open,         \* open[slot]: the money behind the stop of a position
    stops,        \* what every open stop would lose together
    dayOpen,      \* the balance at today's boundary
    peakDayOpen,  \* the highest balance recorded at any boundary
    peak,         \* the highest equity recorded
    permitted,    \* what an order of the running cycle may risk
    sent          \* orders of the running cycle; -1 between cycles

vars == <<day, balance, open, stops, dayOpen, peakDayOpen, peak, permitted, sent>>

Idle == -1
Least(a, b) == IF a <= b THEN a ELSE b
Most(a, b) == IF a <= b THEN b ELSE a

\* What the terminal may publish as equity: the open positions are somewhere
\* between their stops and, at one and a half times the risk, their targets.
Published ==
    {e \in (balance - stops)..(balance + IF ReadAhead THEN (3 * stops) \div 2 ELSE 0) :
        e % Tick = 0}

-----------------------------------------------------------------------------
(* The risk brain *)

OneR(equity) == (equity * Percent) \div 100

\* What the day is measured from is the highest balance of any boundary.
DayPnl(equity) == equity - peakDayOpen
Drawdown(equity) == Most(0, Most(peak, equity) - equity)

DayLossBreached(equity) == DayPnl(equity) <= -3 * OneR(equity)
BrainApproves(equity) ==
    /\ OneR(equity) > 0
    /\ 10 * Drawdown(equity) < Most(peak, equity)
    /\ ~DayLossBreached(equity)

\* Halved for each: nothing is calibrated, no dataset has passed the gate, the
\* drawdown is half-way to its limit, the day is.
BrainPermits(equity) ==
    LET quarter == OneR(equity) \div 4
        deep == 20 * Drawdown(equity) >= Most(peak, equity)
        badDay == 2 * DayPnl(equity) <= -3 * OneR(equity) IN
    IF deep /\ badDay THEN quarter \div 4 ELSE IF deep \/ badDay THEN quarter \div 2 ELSE quarter

-----------------------------------------------------------------------------
(* The prop guard *)

\* Slip: the day's room is not reduced by what the open stops may still take.
RoomOfTheDayAlone(equity) == (equity - (dayOpen - Allowance)) \div 4
\* A quarter of what is left before the daily floor, open stops counted.
DailyRoom(equity) == (equity - stops - (dayOpen - Allowance)) \div 4
\* An eighth of what is left before the total floor.
TotalRoom(equity) == (equity - stops - (Start - TotalLoss)) \div 8
\* Slip: each order is checked against the share alone.
ShareAlone == (7 * Allowance) \div 10
\* Seven tenths of the daily allowance for all stops together.
ShareOfDay == (7 * Allowance) \div 10 - stops
\* Half of what is missing to the goal, counted at 1.5 R.
GapToGoal(equity) == IF Goal > equity THEN (Goal - equity) \div 3 ELSE ShareOfDay

Budget(equity) ==
    Most(0, Least(Least(ShareOfDay, DailyRoom(equity)),
                  Least(TotalRoom(equity), GapToGoal(equity))))

\* The guard refuses on too much behind stops, half the day lost, and a phase
\* that is passed.
GuardPasses(equity) ==
    /\ 10 * stops <= 7 * Allowance
    /\ 2 * (dayOpen - equity) < Allowance
    /\ equity >= Goal => day < DaysNeeded
    /\ Budget(equity) > 0

-----------------------------------------------------------------------------
(* Every account *)

OpenRoom(equity) == (6 * equity) \div 100 - stops
OrderCap(equity) == (2 * equity) \div 100

\* Rounded down to the broker's volume step, always.
Lots(money) == LotStep * (money \div LotStep)

\* What conviction leaves of the permitted risk, unless the step is too coarse
\* to express it.
Sized(multiplier) ==
    LET reduced == Lots((permitted * multiplier) \div 100) IN
    IF reduced = 0 THEN Lots(permitted) ELSE reduced

-----------------------------------------------------------------------------

Init ==
    /\ day = 1 /\ balance = Start
    /\ open = [s \in Slots |-> 0] /\ stops = 0
    /\ dayOpen = Start /\ peakDayOpen = Start /\ peak = Start
    /\ permitted = 0 /\ sent = Idle

\* The equity is sampled and every limit read.
BeginCycle ==
    /\ sent = Idle
    /\ \E equity \in Published :
        /\ peak' = Most(peak, equity)
        /\ BrainApproves(equity)
        /\ GuardPasses(equity)
        /\ OpenRoom(equity) > 0
        /\ permitted' = Least(Least(BrainPermits(equity), Budget(equity)),
                              Least(OpenRoom(equity), OrderCap(equity)))
        /\ permitted' > 0
    /\ sent' = 0
    /\ UNCHANGED <<day, balance, open, stops, dayOpen, peakDayOpen>>

\* A cycle that is refused leaves only its equity sample.
RefuseCycle ==
    /\ sent = Idle
    /\ \E equity \in Published :
        /\ peak' = Most(peak, equity)
        /\ peak' # peak
    /\ UNCHANGED <<day, balance, open, stops, dayOpen, peakDayOpen, permitted, sent>>

\* Slip: the cap of the cycle is asked after the order.
SendPastTheCap(s) ==
    /\ sent \in 0..PerCycle
    /\ open[s] = 0
    /\ \E multiplier \in Conviction :
        /\ open' = [open EXCEPT ![s] = Sized(multiplier)]
        /\ stops' = stops + Sized(multiplier)
    /\ sent' = sent + 1
    /\ UNCHANGED <<day, balance, dayOpen, peakDayOpen, peak, permitted>>
Send(s) ==
    /\ sent \in 0..(PerCycle - 1)
    /\ open[s] = 0
    /\ \E multiplier \in Conviction :
        /\ Sized(multiplier) > 0
        /\ open' = [open EXCEPT ![s] = Sized(multiplier)]
        /\ stops' = stops + Sized(multiplier)
    /\ sent' = sent + 1
    /\ UNCHANGED <<day, balance, dayOpen, peakDayOpen, peak, permitted>>

EndCycle ==
    /\ sent # Idle
    /\ sent' = Idle
    /\ permitted' = 0
    /\ UNCHANGED <<day, balance, open, stops, dayOpen, peakDayOpen, peak>>

\* A position reaches its stop or its target, or is closed between the two.
Close(s) ==
    /\ open[s] > 0
    /\ \E result \in (-open[s])..((3 * open[s]) \div 2) :
        /\ result % Tick = 0
        /\ balance' = balance + result
    /\ stops' = stops - open[s]
    /\ open' = [open EXCEPT ![s] = 0]
    /\ UNCHANGED <<day, dayOpen, peakDayOpen, peak, permitted, sent>>

\* The first balance after midnight is the day's open.
NewDay ==
    /\ day < LastDay
    /\ day' = day + 1
    /\ dayOpen' = balance
    /\ peakDayOpen' = Most(peakDayOpen, balance)
    /\ UNCHANGED <<balance, open, stops, peak, permitted, sent>>

Next ==
    \/ BeginCycle
    \/ RefuseCycle
    \/ \E s \in Slots : Send(s)
    \/ EndCycle
    \/ \E s \in Slots : Close(s)
    \/ NewDay

Spec == Init /\ [][Next]_vars

-----------------------------------------------------------------------------
(* Properties *)

TypeOK ==
    /\ day \in Nat /\ balance \in Int
    /\ open \in [Slots -> Nat] /\ stops \in Int
    /\ dayOpen \in Int /\ peakDayOpen \in Int /\ peak \in Int
    /\ permitted \in Nat /\ sent \in {Idle} \cup 0..PerCycle

\* "So four losses in a row still leave the day alive ... eight before the
\* total floor": if every open stop fills, at any moment and after any sequence
\* of trades over any days, neither floor is reached (_risk_budget,
\* _prop_guard; no gap past a stop).
Survives ==
    /\ balance - stops > dayOpen - Allowance
    /\ balance - stops > Start - TotalLoss

\* "Share of the daily allowance that open stops may hold together."
StopsFitTheDay == 10 * stops <= 7 * Allowance

\* "The day's P&L expressed in R": a cycle refused for the day's loss is one
\* whose account has lost that much since today's boundary.
DayLossIsTodays ==
    \A equity \in Published : OneR(equity) > 0 /\ DayLossBreached(equity) =>
        dayOpen - equity >= 3 * OneR(equity)
=============================================================================
