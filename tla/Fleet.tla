------------------------------- MODULE Fleet -------------------------------
(***************************************************************************)
(* One pass over the fleet's accounts and the caps it keeps                *)
(* (autotrade.run_all_accounts, the counting gates of run_cycle): how many *)
(* accounts may hold one symbol on one side, how many of one account's     *)
(* positions may lean on one currency, how many positions it may hold, and *)
(* which side of the market the brains' votes allow.                       *)
(*                                                                         *)
(* The fleet's books are counted once, when the pass begins, and its own   *)
(* orders are added as they are accepted; each account's book is read when *)
(* its turn comes.  What the terminals hold, and so publish, changes all   *)
(* the while: stops fill, people trade, late orders are dealt.             *)
(***************************************************************************)
EXTENDS Integers, FiniteSets

CONSTANTS
    Accounts,
    Prop,         \* accounts registered for a challenge
    Symbols,
    Base, Quote,  \* the two currencies of a symbol
    Decisions,    \* records with a symbol, a side and a brain
    Books,        \* what a terminal may publish
    Silenced,     \* brains whose vote does not count
    Brains,       \* Brains[account]: the ones it trades
    SymbolCap,    \* accounts that may hold one symbol on one side (2)
    OwnCap,       \* positions of an account leaning one way on a currency (2)
    PropCap,      \* accounts that may trade a currency on one side (3)
    OpenCap       \* positions of an account (8)

Sides == {"buy", "sell"}
Bets == [symbol : Symbols, side : Sides]
Currencies == {Base[s] : s \in Symbols} \cup {Quote[s] : s \in Symbols}
Leans == Currencies \X Sides

ASSUME FleetAssumption ==
    /\ Prop \subseteq Accounts /\ IsFiniteSet(Accounts)
    /\ DOMAIN Base = Symbols /\ DOMAIN Quote = Symbols
    /\ DOMAIN Brains = Accounts
    /\ \A d \in Decisions : d.symbol \in Symbols /\ d.side \in Sides
    /\ Books \subseteq SUBSET Bets /\ \A B \in Books : IsFiniteSet(B)
    /\ SymbolCap \in Nat /\ OwnCap \in Nat /\ PropCap \in Nat /\ OpenCap \in Nat

VARIABLES
    book,      \* book[account]: the positions its terminal last published
    readable,  \* accounts whose book can be read now
    fresh,     \* decisions that are open and fresh
    pc,        \* "idle", between "accounts", or in an account's "loop"
    todo,      \* accounts the pass has not come to
    acct,      \* the account at hand
    cand,      \* its decisions that are still to be looked at
    has,       \* symbols it holds or has ordered
    own,       \* own[lean]: its positions and orders leaning so
    room,      \* orders it may still send
    fleet,     \* fleet[bet]: accounts counted as holding it
    money,     \* money[currency, side]: accounts counted as trading it so
    counted,   \* history: the books the pass was counted from
    mine,      \* history: the account's book when its turn came
    placed     \* history: placed[account]: orders of this pass

vars == <<book, readable, fresh, pc, todo, acct, cand, has, own, room, fleet, money,
          counted, mine, placed>>
world == <<book, readable, fresh>>
turn == <<acct, cand, has, own, room, mine>>

BetOf(d) == [symbol |-> d.symbol, side |-> d.side]
SymbolsOf(B) == {b.symbol : b \in B}
Other(side) == IF side = "buy" THEN "sell" ELSE "buy"

\* Long the base and short the quote, or the other way round.
Legs(b) == {<<Base[b.symbol], b.side>>, <<Quote[b.symbol], Other(b.side)>>}
\* Both currencies with the side of the order.
Trades(b) == {Base[b.symbol], Quote[b.symbol]} \X {b.side}

-----------------------------------------------------------------------------
(* The world *)

Publish(a) ==
    /\ \E B \in Books : book' = [book EXCEPT ![a] = B]
    /\ UNCHANGED <<readable, fresh, pc, todo, fleet, money, counted, placed>>
    /\ UNCHANGED turn

\* A terminal stops publishing, or its file cannot be read, and recovers.
BookFails(a) ==
    /\ readable' = IF a \in readable THEN readable \ {a} ELSE readable \cup {a}
    /\ UNCHANGED <<book, fresh, pc, todo, fleet, money, counted, placed>>
    /\ UNCHANGED turn

\* Decisions are recorded, grow old and are closed by the steps of the
\* collector's cycle before and after its order pass.
Decide(d) ==
    /\ pc = "idle"
    /\ fresh' = IF d \in fresh THEN fresh \ {d} ELSE fresh \cup {d}
    /\ UNCHANGED <<book, readable, pc, todo, fleet, money, counted, placed>>
    /\ UNCHANGED turn

-----------------------------------------------------------------------------
(* The pass *)

\* An unread book counts for nothing.
Readable(a) == IF a \in readable THEN book[a] ELSE {}

\* _fleet_holdings: each account counts once for a bet and once for a currency.
StartPass ==
    /\ pc = "idle"
    /\ pc' = "accounts"
    /\ todo' = Accounts
    /\ fleet' = [b \in Bets |-> Cardinality({a \in Accounts : b \in Readable(a)})]
    /\ money' = [l \in Leans |->
                   Cardinality({a \in Accounts : \E b \in Readable(a) : l \in Trades(b)})]
    /\ counted' = [a \in Accounts |-> Readable(a)]
    /\ placed' = [a \in Accounts |-> {}]
    /\ UNCHANGED world /\ UNCHANGED turn

\* Paused, refused by a gate or raised, its book unread or full among others.
SkipAccount(a) ==
    /\ pc = "accounts" /\ a \in todo
    /\ todo' = todo \ {a}
    /\ UNCHANGED <<pc, fleet, money, counted, placed>>
    /\ UNCHANGED world /\ UNCHANGED turn

\* Slip: an unread book is read as an empty one.
BeginAccountUnread(a) ==
    /\ pc = "accounts" /\ a \in todo
    /\ pc' = "loop"
    /\ todo' = todo \ {a}
    /\ acct' = a
    /\ cand' = {d \in fresh : d.brain \in Brains[a]}
    /\ has' = SymbolsOf(Readable(a))
    /\ own' = [l \in Leans |-> Cardinality({b \in Readable(a) : l \in Legs(b)})]
    /\ room' = OpenCap - Cardinality(Readable(a))
    /\ mine' = book[a]
    /\ UNCHANGED <<fleet, money, counted, placed>>
    /\ UNCHANGED world
BeginAccount(a) ==
    /\ pc = "accounts" /\ a \in todo
    /\ a \in readable
    /\ Cardinality(book[a]) < OpenCap
    /\ pc' = "loop"
    /\ todo' = todo \ {a}
    /\ acct' = a
    /\ cand' = {d \in fresh : d.brain \in Brains[a]}
    /\ has' = SymbolsOf(book[a])
    /\ own' = [l \in Leans |-> Cardinality({b \in book[a] : l \in Legs(b)})]
    /\ room' = OpenCap - Cardinality(book[a])
    /\ mine' = book[a]
    /\ UNCHANGED <<fleet, money, counted, placed>>
    /\ UNCHANGED world

Votes(symbol, side) ==
    {d.brain : d \in {e \in fresh : e.symbol = symbol /\ e.side = side /\ e.brain \notin Silenced}}

\* Slip: only a majority against is a refusal.
OutvotedOnly(b) ==
    Cardinality(Votes(b.symbol, Other(b.side))) > Cardinality(Votes(b.symbol, b.side))
\* The other side has at least as many brains behind it: a tie refuses.
Outvoted(b) ==
    Cardinality(Votes(b.symbol, Other(b.side))) >= Cardinality(Votes(b.symbol, b.side))

FleetIsFull(b) == fleet[b] >= SymbolCap
LeansTooFar(b) == \E l \in Legs(b) : own[l] >= OwnCap
\* Slip: the currency is asked for on the side the symbol leans to.
MoneyLeans(b) == acct \in Prop /\ \E l \in Legs(b) : money[l] >= PropCap
MoneyIsFull(b) == acct \in Prop /\ \E l \in Trades(b) : money[l] >= PropCap

\* Slip: the room is that of the account's turn, not what the orders left.
AdmittedPastRoom(b) ==
    /\ b.symbol \notin has
    /\ ~FleetIsFull(b) /\ ~LeansTooFar(b) /\ ~MoneyIsFull(b) /\ ~Outvoted(b)
Admitted(b) ==
    /\ b.symbol \notin has
    /\ ~FleetIsFull(b)
    /\ ~LeansTooFar(b)
    /\ ~MoneyIsFull(b)
    /\ room > 0
    /\ ~Outvoted(b)

Add(count, keys) == [k \in DOMAIN count |-> IF k \in keys THEN count[k] + 1 ELSE count[k]]

\* It has had its order, a gate refuses it, or the broker does.
Refuse(d) ==
    /\ pc = "loop" /\ d \in cand
    /\ cand' = cand \ {d}
    /\ UNCHANGED <<pc, todo, acct, has, own, room, fleet, money, counted, mine, placed>>
    /\ UNCHANGED world

\* Slip: the fleet is counted by the pass's start alone.
SendUncounted(d) ==
    /\ pc = "loop" /\ d \in cand
    /\ Admitted(BetOf(d))
    /\ cand' = cand \ {d}
    /\ has' = has \cup {d.symbol}
    /\ own' = Add(own, Legs(BetOf(d)))
    /\ room' = room - 1
    /\ placed' = [placed EXCEPT ![acct] = @ \cup {BetOf(d)}]
    /\ UNCHANGED <<pc, todo, acct, fleet, money, counted, mine>>
    /\ UNCHANGED world
\* An order the broker filled, or left without an answer.
Send(d) ==
    /\ pc = "loop" /\ d \in cand
    /\ Admitted(BetOf(d))
    /\ cand' = cand \ {d}
    /\ has' = has \cup {d.symbol}
    /\ own' = Add(own, Legs(BetOf(d)))
    /\ room' = room - 1
    /\ fleet' = Add(fleet, {BetOf(d)})
    /\ money' = Add(money, Trades(BetOf(d)))
    /\ placed' = [placed EXCEPT ![acct] = @ \cup {BetOf(d)}]
    /\ UNCHANGED <<pc, todo, acct, counted, mine>>
    /\ UNCHANGED world

\* The account's candidates are done, or it raised among them.
EndAccount ==
    /\ pc = "loop"
    /\ pc' = "accounts"
    /\ cand' = {} /\ has' = {} /\ room' = 0 /\ mine' = {}
    /\ own' = [l \in Leans |-> 0]
    /\ UNCHANGED <<todo, acct, fleet, money, counted, placed>>
    /\ UNCHANGED world

EndPass ==
    /\ pc = "accounts" /\ todo = {}
    /\ pc' = "idle"
    /\ fleet' = [b \in Bets |-> 0] /\ money' = [l \in Leans |-> 0]
    /\ counted' = [a \in Accounts |-> {}] /\ placed' = [a \in Accounts |-> {}]
    /\ UNCHANGED todo
    /\ UNCHANGED world /\ UNCHANGED turn

-----------------------------------------------------------------------------

Init ==
    /\ book = [a \in Accounts |-> {}] /\ readable = Accounts /\ fresh = {}
    /\ pc = "idle" /\ todo = {} /\ acct \in Accounts /\ cand = {}
    /\ has = {} /\ own = [l \in Leans |-> 0] /\ room = 0
    /\ fleet = [b \in Bets |-> 0] /\ money = [l \in Leans |-> 0]
    /\ counted = [a \in Accounts |-> {}] /\ mine = {}
    /\ placed = [a \in Accounts |-> {}]

Next ==
    \/ \E a \in Accounts : Publish(a) \/ BookFails(a) \/ SkipAccount(a) \/ BeginAccount(a)
    \/ \E d \in Decisions : Decide(d) \/ Refuse(d) \/ Send(d)
    \/ StartPass
    \/ EndAccount
    \/ EndPass

Spec == Init /\ [][Next]_vars

-----------------------------------------------------------------------------
(* Properties *)

TypeOK ==
    /\ book \in [Accounts -> SUBSET Bets] /\ readable \subseteq Accounts
    /\ fresh \subseteq Decisions
    /\ pc \in {"idle", "accounts", "loop"}
    /\ todo \subseteq Accounts /\ acct \in Accounts /\ cand \subseteq Decisions
    /\ has \subseteq Symbols /\ own \in [Leans -> Nat] /\ room \in 0..OpenCap
    /\ fleet \in [Bets -> Nat] /\ money \in [Leans -> Nat]
    /\ counted \in [Accounts -> SUBSET Bets] /\ mine \subseteq Bets
    /\ placed \in [Accounts -> SUBSET Bets]

\* "How many accounts may hold one symbol in one direction at once": an order is
\* sent only while the accounts that hold the bet by the books the pass could
\* read, or were sent it earlier in the pass, leave it a place (_fleet_holdings
\* and the increments after each order).
FleetCapKept ==
    [][\A a \in Accounts, b \in Bets : b \in placed'[a] \ placed[a] =>
          Cardinality({c \in Accounts : b \in counted[c] \cup placed'[c]}) <= SymbolCap]_vars

\* The same of a currency and the prop accounts: "CHFJPY and USDJPY are two
\* symbols but one bet on JPY".
PropCapKept ==
    [][\A a \in Prop, b \in Bets : b \in placed'[a] \ placed[a] =>
          \A l \in Trades(b) :
             Cardinality({c \in Accounts : \E o \in counted[c] \cup placed'[c] : l \in Trades(o)})
                <= PropCap]_vars

\* An account's own book, with what the pass adds to it, keeps one position per
\* symbol, its number of positions and its lean on every currency it adds to.
AccountCapsKept ==
    [][\A b \in placed'[acct] \ placed[acct] : pc = "loop" =>
          LET all == mine \cup placed'[acct] IN
          /\ \A o \in mine \cup placed[acct] : o.symbol # b.symbol
          /\ Cardinality(all) <= OpenCap
          /\ \A l \in Legs(b) : Cardinality({o \in all : l \in Legs(o)}) <= OwnCap]_vars

\* "The fleet ends up flat and pays two spreads for the privilege": the orders
\* of one pass for one symbol are all on one side, whichever brains the
\* accounts trade.
OneSideOfTheMarket ==
    \A a, c \in Accounts : \A b \in placed[a], o \in placed[c] :
        b.symbol = o.symbol => b.side = o.side
=============================================================================
