------------------------------ MODULE Journal ------------------------------
(***************************************************************************)
(* The forward journal: the recorder that writes each brain's picks beside *)
(* a coin flip on the same bar (workers/forward.py, journal_log.py), the   *)
(* bounded pass that closes what the market has answered                   *)
(* (workers/resolve.py), the command that withdraws verdicts reached on    *)
(* the wrong bars (workers/rescore.py), and the readers that pair the arms *)
(* and fold repeats into positions.                                        *)
(*                                                                         *)
(* A series is one provider's bars at one timeframe.  Slot t is the bar    *)
(* that opens at t; it is closed once now > t.  Bars reach a series in     *)
(* order, with gaps and late; a feed that carries the forming bar stores   *)
(* a partial version of it first.  Every bar closes at the level Close and *)
(* its range is what tells bars apart.                                     *)
(***************************************************************************)
EXTENDS Integers, FiniteSets

CONSTANTS
    Series,        \* price series: provider and timeframe
    Public,        \* the public feed's series
    Hourly,        \* the series whose timeframe is H1
    Symbols,       \* active instruments
    Listed,        \* symbols that (still) have an instrument row
    Offered,       \* symbols the broker publishes a contract for
    Traded,        \* the traded list
    Strategies,    \* the brains
    Incumbent,     \* the brain that ranks the cross-section
    LastSlot,      \* bound: the clock stops here
    FixedAt,       \* the slot at which the repaired resolver went live
    Horizon,       \* bars after which an entry is given up (120)
    Limit,         \* open entries examined in one pass (500)
    MinSection,    \* instruments a ranking needs (20)
    MaxFeedLag,    \* bars a series may sit behind the public one (2)
    StaleAfter,    \* bars a series may sit behind the clock (3)
    FreshFor,      \* slots during which an order may write to an entry
    MaxDecisions,  \* bound: rows in the journal
    MaxRescores,   \* bound: uses of the rescore command
    Ranges,        \* Ranges[series]: [high, low] of the bars it may print
    Close, Stop, Target,  \* the close of every bar; stop and target distance
    Coin,          \* Coin[symbol][slot]: the side the hash gives the control
    Unscored,      \* rows written before levels were recorded
    Misread,       \* rows closed by the broken resolver on H1 bars
    FetchFails,    \* whether a cycle may go on after its fetch failed
    Watched        \* the entries whose liveness is checked

Slots == 1..LastSlot
NoBar == [high |-> 0, low |-> 0, partial |-> FALSE]
Arms == {"rule", "control"}
Sides == {1, -1}
Keys == [strategy : Strategies, arm : Arms, series : Series,
         symbol : Symbols, at : 1..(LastSlot - 1)]
Verdicts == {"win", "loss", "abandoned", "excluded"}
Outcomes == {"none", "open"} \cup Verdicts

ASSUME JournalAssumption ==
    /\ Public \in Series /\ Hourly \subseteq Series
    /\ IsFiniteSet(Series) /\ IsFiniteSet(Symbols) /\ IsFiniteSet(Strategies)
    /\ Listed \subseteq Symbols /\ Offered \subseteq Symbols
    /\ Traded \subseteq Symbols /\ Incumbent \in Strategies
    /\ LastSlot \in Nat /\ FixedAt \in Slots
    /\ Horizon \in Nat \ {0} /\ Limit \in Nat \ {0} /\ MinSection \in Nat
    /\ MaxFeedLag \in Nat /\ StaleAfter \in Nat /\ FreshFor \in Nat
    /\ MaxDecisions \in Nat /\ MaxRescores \in Nat
    /\ Ranges \in [Series -> SUBSET [high : Nat \ {0}, low : Int]]
    /\ Close \in Int /\ Stop \in Nat \ {0} /\ Target \in Nat \ {0}
    /\ Coin \in [Symbols -> [Slots -> Sides]]
    /\ Unscored \subseteq Keys /\ Misread \subseteq Keys
    /\ Unscored \cap Misread = {}
    /\ \A k \in Unscored : k.series \in Hourly
    /\ FetchFails \in BOOLEAN /\ Watched \subseteq Keys

VARIABLES
    now,       \* the slot that is forming
    bar,       \* bar[series][symbol][slot]: the latest stored revision
    entry,     \* journal_entries
    stamp,     \* updated_at of the open entries, as a dense rank
    rescores

vars == <<now, bar, entry, stamp, rescores>>

NoRow == [outcome |-> "none", side |-> 1, levels |-> FALSE, r |-> 0,
          closedAt |-> 0, bars |-> 0, misread |-> FALSE, retracted |-> "none"]
OpenRow(side, levels) ==
    [NoRow EXCEPT !.outcome = "open", !.side = side, !.levels = levels]

Recorded == {k \in Keys : entry[k].outcome # "none"}
Open == {k \in Keys : entry[k].outcome = "open"}
Closed(k) == entry[k].outcome \in Verdicts

-----------------------------------------------------------------------------
(* Bars *)

Stored(s, y, t) == bar[s][y][t] # NoBar
\* Stored bars that were closed when the clock stood at now.
ClosedBars(s, y) == {t \in Slots : t < now /\ Stored(s, y, t)}

\* The k-th and earlier of a set of slots: LIMIT k over ORDER BY event_time.
Earliest(T, k) == {t \in T : Cardinality({u \in T : u <= t}) <= k}

\* Slip: the entry's own bar is evidence about what happened next.
EvidenceFromEntry(k) ==
    Earliest({t \in ClosedBars(k.series, k.symbol) : t >= k.at}, Horizon)
\* The bars an entry is scored on: its own series, strictly after its own
\* bar, closed, and no more of them than the horizon.
Evidence(k) ==
    Earliest({t \in ClosedBars(k.series, k.symbol) : t > k.at}, Horizon)

\* The control is formed by entry_for's default target, one stop distance.
TargetOf(arm) == IF arm = "rule" THEN Target ELSE Stop

HitsStop(k, t) ==
    LET b == bar[k.series][k.symbol][t] IN
    IF entry[k].side = 1 THEN b.low <= Close - Stop ELSE b.high >= Close + Stop
HitsTarget(k, t) ==
    LET b == bar[k.series][k.symbol][t]
        d == TargetOf(k.arm) IN
    IF entry[k].side = 1 THEN b.high >= Close + d ELSE b.low <= Close - d
Touches(k, t) == HitsStop(k, t) \/ HitsTarget(k, t)

\* What the bars did to the entry: the first bar that touched a level decides,
\* and one that touched both decides nothing.
Outcome(k, T) ==
    LET first == {t \in T : Touches(k, t) /\ \A u \in T : u < t => ~Touches(k, u)}
    IN  IF first = {} \/ \E t \in first : HitsStop(k, t) /\ HitsTarget(k, t)
        THEN "open"
        ELSE IF \E t \in first : HitsStop(k, t) THEN "loss" ELSE "win"

-----------------------------------------------------------------------------
(* The clock and the feeds *)

Tick == /\ now < LastSlot
        /\ now' = now + 1
        /\ UNCHANGED <<bar, entry, stamp, rescores>>

\* One bar of one series is stored.  Series arrive in order; a slot passed
\* over stays empty (a shut market).  A fetch starts at the last stored bar, so
\* a forming version is replaced before anything newer is stored.
Arrive(s, y) ==
    \E t \in 1..now, rng \in Ranges[s] :
        /\ \A u \in Slots : u > t => ~Stored(s, y, u)
        /\ \A u \in Slots : u < t => ~bar[s][y][u].partial
        /\ Stored(s, y, t) => bar[s][y][t].partial /\ t < now
        /\ t = now => s = Public
        /\ bar' = [bar EXCEPT ![s][y][t] =
                     [high |-> rng.high, low |-> rng.low, partial |-> t = now]]
        /\ UNCHANGED <<now, entry, stamp, rescores>>

\* The collect step ran before this one: no closed bar is a forming version.
Refreshed ==
    FetchFails \/ \A s \in Series, y \in Symbols :
                     \A t \in ClosedBars(s, y) : ~bar[s][y][t].partial

-----------------------------------------------------------------------------
(* Recording *)

\* The most recent closed slot that enough instruments share.
Instants(s) ==
    {t \in Slots : Cardinality({y \in Symbols : t \in ClosedBars(s, y)}) >= MinSection}
Instant(s) == CHOOSE t \in Instants(s) : \A u \in Instants(s) : u <= t

\* Instruments with enough bars up to the instant.
Snapshot(s, at) == {y \in Listed : \E t \in ClosedBars(s, y) : t <= at}

\* A narrowing that leaves too few to rank is not applied.
Narrow(have, keep) ==
    IF Cardinality(have \cap keep) >= MinSection THEN have \cap keep ELSE have

\* Instruments whose next bar is already stored: the market has answered.
MovedOn(s, at) == {y \in Symbols : \E t \in ClosedBars(s, y) : t > at}

\* A series far behind the public one is not decided on.
FeedKeepsUp(s, at) ==
    s = Public \/ \A y \in Symbols : \A t \in ClosedBars(Public, y) : t - at <= MaxFeedLag

Section(s, at) ==
    Narrow(Narrow(Snapshot(s, at), Offered), Symbols \ MovedOn(s, at))

\* The ranking leaves out an instrument whose last bar is too far behind.
Ranked(s, at) ==
    {y \in Section(s, at) : \E t \in ClosedBars(s, y) : t <= at /\ at - t <= 2}

Row(k, picks) ==
    IF k.arm = "rule" THEN OpenRow(picks[k.strategy][k.symbol], TRUE)
                      ELSE OpenRow(Coin[k.symbol][k.at], TRUE)

\* Slip: the same decision, republished, is written over the first.
Rewritten(s, at, picks) ==
    {k \in Keys : k.series = s /\ k.at = at /\ picks[k.strategy][k.symbol] # 0}
\* Slip: an instrument nobody picked is written down too.
Unpicked(s, at, picks) ==
    {k \in Keys : k.series = s /\ k.at = at /\ entry[k].outcome = "none"}
\* The keys of the picks, both arms, that are not in the journal yet.
NewKeys(s, at, picks) ==
    {k \in Keys : /\ k.series = s /\ k.at = at
                  /\ picks[k.strategy][k.symbol] # 0
                  /\ entry[k].outcome = "none"}

\* The dense rank of updated_at: only the order of the stamps matters.
Dense(f, live) == [k \in Keys |->
    IF k \in live THEN Cardinality({f[j] : j \in {i \in live : f[i] < f[k]}}) ELSE 0]
LatestStamp == Cardinality(Keys)
Stamped(keys, value, live) ==
    Dense([k \in Keys |-> IF k \in keys THEN value ELSE stamp[k]], live)

Picks == [Strategies -> [Symbols -> {-1, 0, 1}]]
Allowed(picks, s, at) ==
    \A b \in Strategies, y \in Symbols : picks[b][y] # 0 =>
        /\ y \in Traded
        /\ y \in (IF b = Incumbent THEN Ranked(s, at) ELSE Section(s, at))

Record(s) ==
    /\ Refreshed
    /\ Instants(s) # {}
    /\ LET at == Instant(s) IN
       /\ FeedKeepsUp(s, at)
       /\ \E clockIsRead \in BOOLEAN :
             s # Public /\ clockIsRead => now - at - 1 <= StaleAfter
       /\ Cardinality(Ranked(s, at)) >= MinSection
       /\ \E picks \in Picks :
          /\ Allowed(picks, s, at)
          /\ LET new == NewKeys(s, at, picks) IN
             /\ new # {}
             /\ Cardinality(Recorded \cup new) <= MaxDecisions
             /\ entry' = [k \in Keys |-> IF k \in new THEN Row(k, picks) ELSE entry[k]]
             /\ stamp' = Stamped(new, LatestStamp, Open \cup new)
    /\ UNCHANGED <<now, bar, rescores>>

\* Sending an order writes to the rule's row while it is fresh, and any write
\* re-stamps the row (onupdate).
OrderWritten(k) ==
    /\ k \in Open /\ k.arm = "rule" /\ now - k.at <= FreshFor
    /\ stamp' = Stamped({k}, LatestStamp, Open)
    /\ UNCHANGED <<now, bar, entry, rescores>>

-----------------------------------------------------------------------------
(* Resolving *)

LastOf(T) == CHOOSE t \in T : \A u \in T : u <= t

\* Slip: the new verdict is written whole.
VerdictAlone(row, verdict) == verdict
\* The new verdict, carrying a withdrawn one along with it.
WithRetraction(row, verdict) == [verdict EXCEPT !.retracted = row.retracted]

\* What a pass makes of one open entry: the verdict its bars give, retired
\* without levels, given up at the horizon, or left open.
Examined(k) ==
    LET row == [entry[k] EXCEPT !.retracted = "none"]
        T == Evidence(k)
        v == Outcome(k, T) IN
    CASE k.symbol \notin Listed -> entry[k]
      [] k.symbol \in Listed /\ ~row.levels ->
           [row EXCEPT !.outcome = "excluded", !.closedAt = now]
      [] k.symbol \in Listed /\ row.levels /\ v # "open" ->
           WithRetraction(entry[k],
             [row EXCEPT !.outcome = v, !.misread = FALSE, !.closedAt = LastOf(T),
                         !.bars = Cardinality(T),
                         !.r = IF v = "win" THEN TargetOf(k.arm) ELSE -Stop])
      [] k.symbol \in Listed /\ row.levels /\ v = "open" /\ Cardinality(T) >= Horizon ->
           WithRetraction(entry[k],
             [row EXCEPT !.outcome = "abandoned", !.misread = FALSE, !.closedAt = now])
      [] OTHER -> entry[k]

\* Slip: the oldest decisions first, whenever they were last examined.
OldestFirst(i, j) == i.at <= j.at
\* ORDER BY updated_at, opened_at; equal ones in any order.
Before(i, j) == stamp[i] < stamp[j] \/ (stamp[i] = stamp[j] /\ i.at <= j.at)
IsBatch(B) ==
    /\ B \subseteq Open
    /\ Cardinality(B) <= Limit
    /\ B = Open \/ Cardinality(B) = Limit
    /\ \A i \in B, j \in Open \ B : Before(i, j)

\* A whole pass: every entry of the batch is stamped, whatever becomes of it.
ResolvePass ==
    /\ Refreshed
    /\ Open # {}
    /\ \E B \in SUBSET Open :
        /\ IsBatch(B)
        /\ LET after == [k \in Keys |-> IF k \in B THEN Examined(k) ELSE entry[k]] IN
           /\ entry' = after
           /\ stamp' = Stamped(B, LatestStamp, {k \in Open : after[k].outcome = "open"})
    /\ UNCHANGED <<now, bar, rescores>>

-----------------------------------------------------------------------------
(* Withdrawing verdicts *)

\* Verdicts of the faster timeframes that are dated before the repair.
RescoreCandidates ==
    {k \in Keys : k.series \notin Hourly /\ Closed(k) /\ entry[k].closedAt < FixedAt}

Rescore ==
    /\ rescores < MaxRescores
    /\ RescoreCandidates # {}
    /\ rescores' = rescores + 1
    /\ entry' = [k \in Keys |->
         IF k \in RescoreCandidates
         THEN [entry[k] EXCEPT !.outcome = "open", !.r = 0, !.closedAt = 0, !.bars = 0,
                               !.retracted = entry[k].outcome]
         ELSE entry[k]]
    /\ stamp' = Stamped(RescoreCandidates, -1, Open \cup RescoreCandidates)
    /\ UNCHANGED <<now, bar>>

-----------------------------------------------------------------------------

\* The table as the repaired resolver found it: rows without levels still
\* open, rows of the faster timeframes closed on the wrong bars.
Init ==
    /\ now = FixedAt
    /\ bar = [s \in Series |-> [y \in Symbols |-> [t \in Slots |-> NoBar]]]
    /\ entry = [k \in Keys |->
         CASE k \in Unscored -> OpenRow(1, FALSE)
           [] k \in Misread ->
                [OpenRow(1, TRUE) EXCEPT !.outcome = "loss", !.r = -Stop,
                                         !.closedAt = k.at, !.misread = TRUE]
           [] OTHER -> NoRow]
    /\ stamp = [k \in Keys |-> 0]
    /\ rescores = 0

Next ==
    \/ Tick
    \/ \E s \in Series, y \in Symbols : Arrive(s, y)
    \/ \E s \in Series : Record(s)
    \/ \E k \in Keys : OrderWritten(k)
    \/ ResolvePass
    \/ Rescore

\* The collector's cron runs a cycle every few minutes; a cycle fetches the
\* feeds at its head and ends in a resolve pass.
Fairness == /\ WF_vars(ResolvePass)
            /\ \A s \in Series, y \in Symbols : WF_vars(Arrive(s, y))

Spec == Init /\ [][Next]_vars /\ Fairness

-----------------------------------------------------------------------------
(* Properties *)

TypeOK ==
    /\ now \in Slots
    /\ bar \in [Series -> [Symbols -> [Slots ->
                  [high : Int, low : Int, partial : BOOLEAN]]]]
    /\ entry \in [Keys -> [outcome : Outcomes, side : Sides, levels : BOOLEAN,
                           r : Int, closedAt : Slots \cup {0}, bars : Nat,
                           misread : BOOLEAN, retracted : Outcomes]]
    /\ stamp \in [Keys -> Nat]
    /\ rescores \in 0..MaxRescores

\* The market's record, read without the resolver: the closed bars of the
\* entry's own series after its own bar, up to the horizon.
MarketRecord(k) == Earliest({t \in Slots : k.at < t /\ t < now /\ Stored(k.series, k.symbol, t)},
                       Horizon)
Decides(k, t) == /\ t \in MarketRecord(k) /\ Touches(k, t)
                 /\ ~(HitsStop(k, t) /\ HitsTarget(k, t))
                 /\ \A u \in MarketRecord(k) : u < t => ~Touches(k, u)

\* A verdict is the market's: the first bar that touched a level, on the series
\* the decision was taken on and after it, touched that level and no other;
\* what was given up had its whole horizon and no such bar.  The pass may have
\* run at any time, any number of bars late (resolve_open, _outcome).
VerdictIsTheMarkets ==
    \A k \in Recorded : ~entry[k].misread =>
        /\ entry[k].outcome = "win" => \E t \in MarketRecord(k) : Decides(k, t) /\ HitsTarget(k, t)
        /\ entry[k].outcome = "loss" => \E t \in MarketRecord(k) : Decides(k, t) /\ HitsStop(k, t)
        /\ entry[k].outcome = "abandoned" =>
             Cardinality(MarketRecord(k)) = Horizon /\ \A t \in MarketRecord(k) : ~Decides(k, t)

\* What was decided is never rewritten, and how it turned out changes only by
\* being withdrawn, with the withdrawn verdict kept beside it (record_decision,
\* resolve_open's open-only query, rescore).
HistoryStands ==
    [][\A k \in Recorded :
          /\ entry'[k].side = entry[k].side /\ entry'[k].levels = entry[k].levels
          /\ Closed(k) /\ entry'[k] # entry[k] =>
                entry'[k].outcome = "open" /\ entry'[k].retracted = entry[k].outcome]_vars

\* A verdict that was withdrawn stays on the row when the row is scored again
\* (_with_retraction).
RetractionKept ==
    [][\A k \in Keys : entry[k].retracted # "none" => entry'[k].retracted # "none"]_vars

\* An entry the market has answered is closed, however many unanswered ones
\* were recorded before it and however small the batch (resolve_open: the
\* bound has to rotate).
Answerable(k) ==
    /\ entry[k].outcome = "open" /\ k.symbol \in Listed
    /\ \/ ~entry[k].levels
       \/ Cardinality(MarketRecord(k)) = Horizon
       \/ \E t \in MarketRecord(k) : Decides(k, t)
AnsweredIsClosed == \A k \in Watched : Answerable(k) ~> Closed(k)
=============================================================================
