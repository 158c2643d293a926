---------------------------- MODULE FleetProofs ----------------------------
(* Proofs about Fleet, for any accounts, symbols, decisions, books and caps: *)
(* an order of a pass keeps the caps of the fleet, of the prop accounts and  *)
(* of its own account, and the orders of a pass are on one side of a symbol. *)
EXTENDS Fleet, FiniteSetTheorems, TLAPS

(***************************************************************************)
(* Bets and counts                                                          *)
(***************************************************************************)

LEMMA BetIsBet ==
    ASSUME FleetAssumption, NEW d \in Decisions
    PROVE  BetOf(d) \in Bets
  BY DEF FleetAssumption, BetOf, Bets

\* What a bet leans on and trades are currencies with a side.
LEMMA LegsAreLeans ==
    ASSUME NEW b \in Bets
    PROVE  Legs(b) \subseteq Leans /\ Trades(b) \subseteq Leans
<1>1. b.symbol \in Symbols /\ b.side \in Sides /\ Other(b.side) \in Sides
  BY DEF Bets, Sides, Other
<1>2. Base[b.symbol] \in Currencies /\ Quote[b.symbol] \in Currencies
  BY <1>1 DEF Currencies
<1>3. \A c \in Currencies, s \in Sides : <<c, s>> \in Leans
  BY DEF Leans
<1>4. Legs(b) \subseteq Leans
  BY <1>1, <1>2, <1>3 DEF Legs
<1>5. Trades(b) \subseteq Leans
  BY <1>1, <1>2 DEF Trades, Leans
<1> QED  BY <1>4, <1>5

\* A counter that every key is added to at most one of its own.
LEMMA AddType ==
    ASSUME NEW S, NEW count \in [S -> Nat], NEW keys
    PROVE  /\ Add(count, keys) \in [S -> Nat]
           /\ \A k \in S : Add(count, keys)[k] = IF k \in keys THEN count[k] + 1 ELSE count[k]
  BY DEF Add

\* A part of a finite set is counted by a number that is no greater.
LEMMA Part ==
    ASSUME NEW S, IsFiniteSet(S), NEW T \in SUBSET S
    PROVE  /\ IsFiniteSet(T) /\ Cardinality(T) \in Nat /\ Cardinality(S) \in Nat
           /\ Cardinality(T) <= Cardinality(S)
  BY FS_Subset, FS_CardinalityType

\* One more element is one more at the most.
LEMMA OneMore ==
    ASSUME NEW S, IsFiniteSet(S), NEW x, NEW T \in SUBSET (S \cup {x})
    PROVE  Cardinality(T) \in Nat /\ Cardinality(S) \in Nat /\ Cardinality(T) <= Cardinality(S) + 1
<1>1. Cardinality(S) \in Nat
  BY Part
<1>2. /\ IsFiniteSet(S \cup {x})
      /\ Cardinality(S \cup {x}) = IF x \in S THEN Cardinality(S) ELSE Cardinality(S) + 1
  BY FS_AddElement
<1>3. Cardinality(T) \in Nat /\ Cardinality(T) <= Cardinality(S \cup {x})
  BY <1>2, Part
<1> QED  BY <1>1, <1>2, <1>3

\* The brains behind a side are finitely many where the decisions are.
LEMMA VotesAreCounted ==
    ASSUME IsFiniteSet(fresh), NEW symbol, NEW side
    PROVE  Cardinality(Votes(symbol, side)) \in Nat
<1> DEFINE open == {e \in fresh : e.symbol = symbol /\ e.side = side /\ e.brain \notin Silenced}
           brain == [d \in open |-> d.brain]
<1>1. IsFiniteSet(open)
  BY FS_Subset
<1>2. brain \in Surjection(open, Votes(symbol, side))
  BY DEF Surjection, Votes
<1> HIDE DEF open, brain
<1>3. IsFiniteSet(Votes(symbol, side))
  BY <1>1, <1>2, FS_Surjection
<1> QED  BY <1>3, FS_CardinalityType

(***************************************************************************)
(* The invariant                                                            *)
(***************************************************************************)

Finite ==
    /\ IsFiniteSet(fresh) /\ IsFiniteSet(mine)
    /\ \A a \in Accounts : IsFiniteSet(book[a]) /\ IsFiniteSet(placed[a])

\* The accounts that hold a bet, or trade a currency, by the count of the pass.
Holders(b) == {c \in Accounts : b \in counted[c] \cup placed[c]}
Traders(l) == {c \in Accounts : \E o \in counted[c] \cup placed[c] : l \in Trades(o)}

\* The counters of a pass count no fewer accounts than there are.
Counts ==
    pc # "idle" =>
        /\ \A b \in Bets : Cardinality(Holders(b)) <= fleet[b]
        /\ \A l \in Leans : Cardinality(Traders(l)) <= money[l]

\* What the account at hand has, by its book and its orders of this pass.
All == mine \cup placed[acct]

\* The account at hand is through with its turn before it gets another, and its
\* counters leave it no more than its book and its orders do.
Turn ==
    /\ \A a \in todo : placed[a] = {}
    /\ pc = "loop" =>
          /\ acct \notin todo
          /\ SymbolsOf(All) \subseteq has
          /\ Cardinality(All) + room <= OpenCap
          /\ \A l \in Leans : Cardinality({o \in All : l \in Legs(o)}) <= own[l]

\* No order of the pass is outvoted, and the votes stand still while it runs.
Backed ==
    /\ pc = "idle" => \A a \in Accounts : placed[a] = {}
    /\ \A a \in Accounts : \A b \in placed[a] : ~Outvoted(b)

Kept == TypeOK /\ Finite /\ Counts /\ Turn /\ Backed

LEMMA KeptInit == Init /\ FleetAssumption => Kept
<1> SUFFICES ASSUME Init, FleetAssumption
             PROVE  Kept
  OBVIOUS
<1>1. TypeOK
  BY DEF Init, TypeOK, FleetAssumption
<1>2. Finite
  BY FS_EmptySet DEF Init, Finite
<1>3. Counts /\ Turn /\ Backed
  BY DEF Init, Counts, Turn, Backed
<1> QED  BY <1>1, <1>2, <1>3 DEF Kept

LEMMA TypeStep == FleetAssumption /\ TypeOK /\ Finite /\ [Next]_vars => TypeOK'
<1> SUFFICES ASSUME FleetAssumption, TypeOK, Finite, [Next]_vars
             PROVE  TypeOK'
  OBVIOUS
<1> USE DEF TypeOK
<1>1. ASSUME NEW a \in Accounts, Publish(a)
      PROVE  TypeOK'
  BY <1>1 DEF Publish, turn, FleetAssumption
<1>2. ASSUME NEW a \in Accounts, BookFails(a)
      PROVE  TypeOK'
  BY <1>2 DEF BookFails, turn
<1>3. ASSUME NEW a \in Accounts, SkipAccount(a)
      PROVE  TypeOK'
  BY <1>3 DEF SkipAccount, turn, world
<1>4. ASSUME NEW a \in Accounts, BeginAccount(a)
      PROVE  TypeOK'
  <2>1. Cardinality(book[a]) \in Nat /\ OpenCap \in Nat
    BY FS_CardinalityType DEF Finite, FleetAssumption
  <2>2. room' \in 0..OpenCap
    BY <1>4, <2>1 DEF BeginAccount
  <2>3. own' \in [Leans -> Nat]
    <3>1. \A l \in Leans : Cardinality({b \in book[a] : l \in Legs(b)}) \in Nat
      BY Part DEF Finite
    <3> QED  BY <1>4, <3>1 DEF BeginAccount
  <2>4. has' \subseteq Symbols /\ cand' \subseteq Decisions /\ mine' \subseteq Bets
    BY <1>4 DEF BeginAccount, SymbolsOf, Bets
  <2>5. pc' = "loop" /\ todo' \subseteq Accounts /\ acct' \in Accounts
    BY <1>4 DEF BeginAccount
  <2> QED  BY <1>4, <2>2, <2>3, <2>4, <2>5 DEF BeginAccount, world
<1>5. ASSUME NEW d \in Decisions, Decide(d)
      PROVE  TypeOK'
  BY <1>5 DEF Decide, turn
<1>6. ASSUME NEW d \in Decisions, Refuse(d)
      PROVE  TypeOK'
  BY <1>6 DEF Refuse, world
<1>7. ASSUME NEW d \in Decisions, Send(d)
      PROVE  TypeOK'
  <2>1. BetOf(d) \in Bets /\ d.symbol \in Symbols /\ OpenCap \in Nat
    BY BetIsBet DEF FleetAssumption
  <2>2. fleet' \in [Bets -> Nat] /\ money' \in [Leans -> Nat] /\ own' \in [Leans -> Nat]
    BY <1>7, AddType DEF Send
  <2>3. room' \in 0..OpenCap
    BY <1>7, <2>1 DEF Send, Admitted
  <2>4. placed' \in [Accounts -> SUBSET Bets] /\ has' \subseteq Symbols /\ cand' \subseteq Decisions
    BY <1>7, <2>1 DEF Send
  <2> QED  BY <1>7, <2>2, <2>3, <2>4 DEF Send, world
<1>8. CASE StartPass
  <2>1. /\ \A b \in Bets : Cardinality({a \in Accounts : b \in Readable(a)}) \in Nat
        /\ \A l \in Leans :
              Cardinality({a \in Accounts : \E b \in Readable(a) : l \in Trades(b)}) \in Nat
    BY Part DEF FleetAssumption
  <2>2. fleet' \in [Bets -> Nat] /\ money' \in [Leans -> Nat]
    BY <1>8, <2>1 DEF StartPass
  <2>3. counted' \in [Accounts -> SUBSET Bets] /\ placed' \in [Accounts -> SUBSET Bets]
    BY <1>8 DEF StartPass, Readable
  <2> QED  BY <1>8, <2>2, <2>3 DEF StartPass, world, turn
<1>9. CASE EndAccount
  BY <1>9 DEF EndAccount, world, FleetAssumption
<1>10. CASE EndPass
  BY <1>10 DEF EndPass, world, turn
<1>11. CASE UNCHANGED vars
  BY <1>11 DEF vars
<1> QED  BY <1>1, <1>2, <1>3, <1>4, <1>5, <1>6, <1>7, <1>8, <1>9, <1>10, <1>11 DEF Next

LEMMA FiniteStep == FleetAssumption /\ TypeOK /\ Finite /\ [Next]_vars => Finite'
<1> SUFFICES ASSUME FleetAssumption, TypeOK, Finite, [Next]_vars
             PROVE  Finite'
  OBVIOUS
<1>1. IsFiniteSet(fresh')
  <2>1. ASSUME NEW d \in Decisions, Decide(d)
        PROVE  IsFiniteSet(fresh')
    BY <2>1, FS_AddElement, FS_RemoveElement DEF Decide, Finite
  <2>2. CASE fresh' = fresh
    BY <2>2 DEF Finite
  <2> QED
    BY <2>1, <2>2 DEF Next, vars, world, Publish, BookFails, SkipAccount, BeginAccount,
       Refuse, Send, StartPass, EndAccount, EndPass
<1>2. IsFiniteSet(mine')
  <2>1. ASSUME NEW a \in Accounts, BeginAccount(a)
        PROVE  IsFiniteSet(mine')
    BY <2>1 DEF BeginAccount, Finite
  <2>2. CASE EndAccount
    BY <2>2, FS_EmptySet DEF EndAccount
  <2>3. CASE mine' = mine
    BY <2>3 DEF Finite
  <2> QED
    BY <2>1, <2>2, <2>3 DEF Next, vars, turn, Publish, BookFails, SkipAccount, Decide,
       Refuse, Send, StartPass, EndPass
<1>3. \A a \in Accounts : IsFiniteSet(book'[a])
  <2>1. ASSUME NEW a \in Accounts, Publish(a)
        PROVE  \A c \in Accounts : IsFiniteSet(book'[c])
    BY <2>1 DEF Publish, Finite, TypeOK, FleetAssumption
  <2>2. CASE book' = book
    BY <2>2 DEF Finite
  <2> QED
    BY <2>1, <2>2 DEF Next, vars, world, Decide, BookFails, SkipAccount, BeginAccount,
       Refuse, Send, StartPass, EndAccount, EndPass
<1>4. \A a \in Accounts : IsFiniteSet(placed'[a])
  <2>1. ASSUME NEW d \in Decisions, Send(d), NEW a \in Accounts
        PROVE  IsFiniteSet(placed'[a])
    <3>1. placed'[a] = placed[a] \/ placed'[a] = placed[a] \cup {BetOf(d)}
      BY <2>1 DEF Send, TypeOK
    <3>2. IsFiniteSet(placed[a]) /\ IsFiniteSet(placed[a] \cup {BetOf(d)})
      BY FS_AddElement DEF Finite
    <3> QED  BY <3>1, <3>2
  <2>2. CASE StartPass \/ EndPass
    BY <2>2, FS_EmptySet DEF StartPass, EndPass
  <2>3. CASE placed' = placed
    BY <2>3 DEF Finite
  <2> QED
    BY <2>1, <2>2, <2>3 DEF Next, vars, Publish, BookFails, SkipAccount, BeginAccount,
       Decide, Refuse, EndAccount
<1> QED  BY <1>1, <1>2, <1>3, <1>4 DEF Finite

LEMMA HoldersStep ==
    ASSUME TypeOK, FleetAssumption, NEW d \in Decisions, Send(d), NEW b \in Bets,
           Cardinality(Holders(b)) <= fleet[b]
    PROVE  Cardinality(Holders(b)') <= fleet'[b] /\ (b = BetOf(d) => fleet'[b] <= SymbolCap)
<1>1. fleet[b] \in Nat /\ SymbolCap \in Nat /\ BetOf(d) \in Bets
  BY BetIsBet DEF TypeOK, FleetAssumption
<1>2. fleet'[b] = IF b = BetOf(d) THEN fleet[b] + 1 ELSE fleet[b]
  BY AddType DEF Send, TypeOK
<1>3. IsFiniteSet(Holders(b))
  BY Part DEF Holders, FleetAssumption
<1>4. CASE b = BetOf(d)
  <2>1. Holders(b)' \subseteq Holders(b) \cup {acct}
    BY DEF Send, Holders, TypeOK
  <2>2. fleet[b] < SymbolCap
    BY <1>1, <1>4 DEF Send, Admitted, FleetIsFull
  <2>3. Cardinality(Holders(b)') \in Nat /\ Cardinality(Holders(b)') <= Cardinality(Holders(b)) + 1
    BY <1>3, <2>1, OneMore
  <2>4. Cardinality(Holders(b)) \in Nat
    BY <1>3, Part
  <2> QED  BY <1>1, <1>2, <1>4, <2>2, <2>3, <2>4
<1>5. CASE b # BetOf(d)
  <2>1. Holders(b)' \subseteq Holders(b)
    BY <1>5 DEF Send, Holders, TypeOK
  <2>2. Cardinality(Holders(b)') <= Cardinality(Holders(b))
        /\ Cardinality(Holders(b)') \in Nat /\ Cardinality(Holders(b)) \in Nat
    BY <1>3, <2>1, Part
  <2> QED  BY <1>1, <1>2, <1>5, <2>2
<1> QED  BY <1>4, <1>5

\* The currencies of an order get one account more at the most, and each had a
\* place where the account is a prop account.
LEMMA TradersStep ==
    ASSUME TypeOK, FleetAssumption, NEW d \in Decisions, Send(d), NEW l \in Leans,
           Cardinality(Traders(l)) <= money[l]
    PROVE  /\ Cardinality(Traders(l)') <= money'[l]
           /\ acct \in Prop /\ l \in Trades(BetOf(d)) => money'[l] <= PropCap
<1>1. money[l] \in Nat /\ PropCap \in Nat /\ BetOf(d) \in Bets
  BY BetIsBet DEF TypeOK, FleetAssumption
<1>2. money'[l] = IF l \in Trades(BetOf(d)) THEN money[l] + 1 ELSE money[l]
  BY AddType DEF Send, TypeOK
<1>3. IsFiniteSet(Traders(l))
  BY Part DEF Traders, FleetAssumption
<1>4. CASE l \in Trades(BetOf(d))
  <2>1. Traders(l)' \subseteq Traders(l) \cup {acct}
    BY DEF Send, Traders, TypeOK
  <2>2. acct \in Prop => money[l] < PropCap
    BY <1>1, <1>4 DEF Send, Admitted, MoneyIsFull
  <2>3. Cardinality(Traders(l)') \in Nat /\ Cardinality(Traders(l)') <= Cardinality(Traders(l)) + 1
    BY <1>3, <2>1, OneMore
  <2>4. Cardinality(Traders(l)) \in Nat
    BY <1>3, Part
  <2> QED  BY <1>1, <1>2, <1>4, <2>2, <2>3, <2>4
<1>5. CASE l \notin Trades(BetOf(d))
  <2>1. Traders(l)' \subseteq Traders(l)
    BY <1>5 DEF Send, Traders, TypeOK
  <2>2. Cardinality(Traders(l)') <= Cardinality(Traders(l))
        /\ Cardinality(Traders(l)') \in Nat /\ Cardinality(Traders(l)) \in Nat
    BY <1>3, <2>1, Part
  <2> QED  BY <1>1, <1>2, <1>5, <2>2
<1> QED  BY <1>4, <1>5

LEMMA CountsStep == FleetAssumption /\ TypeOK /\ Counts /\ [Next]_vars => Counts'
<1> SUFFICES ASSUME FleetAssumption, TypeOK, Counts, [Next]_vars
             PROVE  Counts'
  OBVIOUS
<1>1. ASSUME NEW d \in Decisions, Send(d)
      PROVE  Counts'
  <2>1. pc = "loop" /\ pc' = "loop"
    BY <1>1 DEF Send
  <2>2. \A b \in Bets : Cardinality(Holders(b)') <= fleet'[b]
    BY <1>1, <2>1, HoldersStep DEF Counts
  <2>3. \A l \in Leans : Cardinality(Traders(l)') <= money'[l]
    BY <1>1, <2>1, TradersStep DEF Counts
  <2> QED  BY <2>2, <2>3 DEF Counts, Holders, Traders
<1>2. CASE StartPass
  <2>1. \A a \in Accounts : counted'[a] \cup placed'[a] = Readable(a)
    BY <1>2 DEF StartPass
  <2>2. ASSUME NEW b \in Bets
        PROVE  Cardinality(Holders(b)') <= fleet'[b]
    <3>1. Holders(b)' = {a \in Accounts : b \in Readable(a)}
      BY <2>1 DEF Holders
    <3>2. fleet'[b] = Cardinality({a \in Accounts : b \in Readable(a)})
      BY <1>2 DEF StartPass
    <3>3. Cardinality({a \in Accounts : b \in Readable(a)}) \in Nat
      BY Part DEF FleetAssumption
    <3> QED  BY <3>1, <3>2, <3>3
  <2>3. ASSUME NEW l \in Leans
        PROVE  Cardinality(Traders(l)') <= money'[l]
    <3>1. Traders(l)' = {a \in Accounts : \E o \in Readable(a) : l \in Trades(o)}
      BY <2>1 DEF Traders
    <3>2. money'[l] = Cardinality({a \in Accounts : \E o \in Readable(a) : l \in Trades(o)})
      BY <1>2 DEF StartPass
    <3>3. Cardinality({a \in Accounts : \E o \in Readable(a) : l \in Trades(o)}) \in Nat
      BY Part DEF FleetAssumption
    <3> QED  BY <3>1, <3>2, <3>3
  <2> QED  BY <2>2, <2>3 DEF Counts, Holders, Traders
<1>3. CASE EndPass
  BY <1>3 DEF EndPass, Counts
<1>4. ASSUME UNCHANGED <<fleet, money, counted, placed>>, pc = "idle" => pc' = "idle"
      PROVE  Counts'
  BY <1>4 DEF Counts, Holders, Traders
<1>5. CASE \E a \in Accounts : Publish(a) \/ BookFails(a) \/ SkipAccount(a) \/ BeginAccount(a)
  BY <1>4, <1>5 DEF Publish, BookFails, SkipAccount, BeginAccount
<1>6. CASE \E d \in Decisions : Decide(d) \/ Refuse(d)
  BY <1>4, <1>6 DEF Decide, Refuse
<1>7. CASE EndAccount \/ UNCHANGED vars
  BY <1>4, <1>7 DEF EndAccount, vars
<1> QED  BY <1>1, <1>2, <1>3, <1>5, <1>6, <1>7 DEF Next

LEMMA TurnStep ==
    FleetAssumption /\ TypeOK /\ Finite /\ Backed /\ Turn /\ [Next]_vars => Turn'
<1> SUFFICES ASSUME FleetAssumption, TypeOK, Finite, Backed, Turn, [Next]_vars
             PROVE  Turn'
  OBVIOUS
<1>1. ASSUME NEW a \in Accounts, BeginAccount(a)
      PROVE  Turn'
  <2>1. placed[a] = {} /\ All' = book[a]
    BY <1>1 DEF BeginAccount, Turn, All
  <2>2. \A c \in todo' : placed'[c] = {}
    BY <1>1 DEF BeginAccount, Turn
  <2>3. acct' \notin todo' /\ SymbolsOf(All') \subseteq has'
    BY <1>1, <2>1 DEF BeginAccount, SymbolsOf
  <2>4. Cardinality(All') + room' <= OpenCap
    <3>1. Cardinality(book[a]) \in Nat /\ OpenCap \in Nat
      BY FS_CardinalityType DEF Finite, FleetAssumption
    <3> QED  BY <1>1, <2>1, <3>1 DEF BeginAccount
  <2>5. ASSUME NEW l \in Leans
        PROVE  Cardinality({o \in All' : l \in Legs(o)}) <= own'[l]
    <3>1. own'[l] = Cardinality({b \in book[a] : l \in Legs(b)})
      BY <1>1 DEF BeginAccount
    <3>2. Cardinality({b \in book[a] : l \in Legs(b)}) \in Nat
      BY Part DEF Finite
    <3> QED  BY <2>1, <3>1, <3>2
  <2> QED  BY <2>2, <2>3, <2>4, <2>5 DEF Turn
<1>2. ASSUME NEW d \in Decisions, Send(d)
      PROVE  Turn'
  <2>1. /\ pc = "loop" /\ acct' = acct /\ mine' = mine /\ todo' = todo
        /\ placed' = [placed EXCEPT ![acct] = @ \cup {BetOf(d)}]
    BY <1>2 DEF Send
  <2>2. All' = All \cup {BetOf(d)} /\ IsFiniteSet(All)
    BY <2>1, FS_Union DEF All, TypeOK, Finite
  <2>3. acct' \notin todo' /\ \A c \in todo' : placed'[c] = {}
    BY <2>1 DEF Turn, TypeOK
  <2>4. SymbolsOf(All') \subseteq has'
    BY <1>2, <2>1, <2>2 DEF Send, Turn, SymbolsOf, BetOf
  <2>5. Cardinality(All') + room' <= OpenCap
    <3>1. Cardinality(All') \in Nat /\ Cardinality(All) \in Nat
          /\ Cardinality(All') <= Cardinality(All) + 1
      <4> DEFINE S == All
                 T == All'
                 x == BetOf(d)
      <4>1. IsFiniteSet(S) /\ T \in SUBSET (S \cup {x})
        BY <2>2
      <4> HIDE DEF S, T, x
      <4>2. Cardinality(T) \in Nat /\ Cardinality(S) \in Nat
            /\ Cardinality(T) <= Cardinality(S) + 1
        BY <4>1, OneMore
      <4> QED  BY <4>2 DEF S, T
    <3>2. room' = room - 1 /\ room \in Int /\ OpenCap \in Nat
      BY <1>2 DEF Send, TypeOK, FleetAssumption
    <3> QED  BY <2>1, <3>1, <3>2 DEF Turn
  <2>6. ASSUME NEW l \in Leans
        PROVE  Cardinality({o \in All' : l \in Legs(o)}) <= own'[l]
    <3> DEFINE leaning == {o \in All : l \in Legs(o)}
               after == {o \in All' : l \in Legs(o)}
    <3>1. IsFiniteSet(leaning) /\ Cardinality(leaning) <= own[l]
      BY <2>1, <2>2, Part DEF Turn
    <3>2. own'[l] = IF l \in Legs(BetOf(d)) THEN own[l] + 1 ELSE own[l]
      BY <1>2, AddType DEF Send, TypeOK
    <3>3. CASE l \in Legs(BetOf(d))
      <4>1. after \in SUBSET (leaning \cup {BetOf(d)})
        BY <2>2
      <4> HIDE DEF leaning, after
      <4>2. Cardinality(after) \in Nat /\ Cardinality(leaning) \in Nat
            /\ Cardinality(after) <= Cardinality(leaning) + 1
        BY <3>1, <4>1, OneMore
      <4>3. own[l] \in Nat
        BY DEF TypeOK
      <4> QED  BY <3>1, <3>2, <3>3, <4>2, <4>3 DEF after
    <3>4. CASE l \notin Legs(BetOf(d))
      <4>1. after = leaning
        BY <2>2, <3>4
      <4> QED  BY <3>1, <3>2, <3>4, <4>1
    <3> QED  BY <3>3, <3>4
  <2> QED  BY <2>3, <2>4, <2>5, <2>6 DEF Turn
<1>3. CASE StartPass
  <2>1. pc' = "accounts" /\ \A a \in todo' : placed'[a] = {}
    BY <1>3 DEF StartPass
  <2> QED  BY <2>1 DEF Turn
<1>4. CASE EndPass
  BY <1>4 DEF EndPass, Turn
<1>5. CASE EndAccount
  BY <1>5 DEF EndAccount, Turn
<1>6. ASSUME NEW a \in Accounts, SkipAccount(a)
      PROVE  Turn'
  BY <1>6 DEF SkipAccount, Turn, turn, world
<1>7. CASE UNCHANGED <<pc, todo, acct, mine, placed, has, room, own>>
  <2>1. All' = All
    BY <1>7 DEF All
  <2> QED  BY <1>7, <2>1 DEF Turn
<1>8. CASE \E a \in Accounts : Publish(a) \/ BookFails(a)
  BY <1>7, <1>8 DEF Publish, BookFails, turn
<1>9. CASE \E d \in Decisions : Decide(d) \/ Refuse(d)
  BY <1>7, <1>9 DEF Decide, Refuse, turn
<1>10. CASE UNCHANGED vars
  BY <1>7, <1>10 DEF vars
<1> QED  BY <1>1, <1>2, <1>3, <1>4, <1>5, <1>6, <1>8, <1>9, <1>10 DEF Next

LEMMA BackedStep == TypeOK /\ Backed /\ [Next]_vars => Backed'
<1> SUFFICES ASSUME TypeOK, Backed, [Next]_vars
             PROVE  Backed'
  OBVIOUS
<1>1. ASSUME NEW d \in Decisions, Send(d)
      PROVE  Backed'
  <2>1. pc' = "loop" /\ fresh' = fresh /\ ~Outvoted(BetOf(d))
    BY <1>1 DEF Send, Admitted, world
  <2>2. ASSUME NEW a \in Accounts, NEW b \in placed'[a]
        PROVE  b \in placed[a] \/ b = BetOf(d)
    BY <1>1, <2>2 DEF Send, TypeOK
  <2> QED  BY <2>1, <2>2 DEF Backed, Outvoted, Votes
<1>2. CASE StartPass \/ EndPass
  <2>1. \A a \in Accounts : placed'[a] = {}
    BY <1>2 DEF StartPass, EndPass
  <2> QED  BY <2>1 DEF Backed
<1>3. ASSUME NEW d \in Decisions, Decide(d)
      PROVE  Backed'
  <2>1. pc = "idle" /\ placed' = placed
    BY <1>3 DEF Decide
  <2> QED  BY <2>1 DEF Backed
<1>4. ASSUME fresh' = fresh, placed' = placed, pc' = "idle" => pc = "idle"
      PROVE  Backed'
  BY <1>4 DEF Backed, Outvoted, Votes
<1>5. CASE \E a \in Accounts : Publish(a) \/ BookFails(a) \/ SkipAccount(a) \/ BeginAccount(a)
  BY <1>4, <1>5 DEF Publish, BookFails, SkipAccount, BeginAccount, world
<1>6. CASE \E d \in Decisions : Refuse(d)
  BY <1>4, <1>6 DEF Refuse, world
<1>7. CASE EndAccount \/ UNCHANGED vars
  BY <1>4, <1>7 DEF EndAccount, vars, world
<1> QED  BY <1>1, <1>2, <1>3, <1>5, <1>6, <1>7 DEF Next

LEMMA KeptAlways == Spec => []Kept
<1>1. FleetAssumption /\ Kept /\ [Next]_vars => Kept'
  BY TypeStep, FiniteStep, CountsStep, TurnStep, BackedStep DEF Kept
<1> QED  BY <1>1, KeptInit, FleetAssumption, PTL DEF Spec

(***************************************************************************)
(* Theorems                                                                 *)
(***************************************************************************)

\* The pass's counters are counts, whatever the terminals publish while it runs.
THEOREM Types == Spec => []TypeOK
<1>1. Kept => TypeOK
  BY DEF Kept
<1> QED  BY <1>1, KeptAlways, PTL

\* Two orders of a pass for one symbol are on one side: each had more brains
\* behind it than against it, and the votes stood still between them.
THEOREM OneSide == Spec => []OneSideOfTheMarket
<1>1. Kept => OneSideOfTheMarket
  <2> SUFFICES ASSUME Kept, NEW a \in Accounts, NEW c \in Accounts,
                      NEW b \in placed[a], NEW o \in placed[c], b.symbol = o.symbol,
                      b.side # o.side
               PROVE  FALSE
    BY DEF OneSideOfTheMarket
  <2>1. b.side \in Sides /\ o.side \in Sides
    BY DEF Kept, TypeOK, Bets
  <2>2. o.side = Other(b.side) /\ b.side = Other(o.side)
    BY <2>1 DEF Sides, Other
  <2>3. ~Outvoted(b) /\ ~Outvoted(o)
    BY DEF Kept, Backed
  <2> DEFINE pro == Cardinality(Votes(b.symbol, b.side))
             con == Cardinality(Votes(b.symbol, o.side))
  <2>4. ~(con >= pro) /\ ~(pro >= con)
    BY <2>2, <2>3 DEF Outvoted
  <2>5. pro \in Nat /\ con \in Nat
    BY VotesAreCounted DEF Kept, Finite
  <2> HIDE DEF pro, con
  <2> QED  BY <2>4, <2>5
<1> QED  BY <1>1, KeptAlways, PTL

\* A bet appears among the orders of a pass only by being sent.
LEMMA NewOrder ==
    ASSUME TypeOK, [Next]_vars, NEW a \in Accounts, NEW b \in placed'[a] \ placed[a]
    PROVE  \E d \in Decisions : Send(d) /\ a = acct /\ b = BetOf(d)
<1>1. ASSUME NEW d \in Decisions, Send(d)
      PROVE  a = acct /\ b = BetOf(d)
  BY <1>1 DEF Send, TypeOK
<1>2. CASE StartPass \/ EndPass
  <2>1. placed'[a] = {}
    BY <1>2 DEF StartPass, EndPass
  <2> QED  BY <2>1
<1>3. CASE placed' = placed
  BY <1>3
<1> QED
  BY <1>1, <1>2, <1>3 DEF Next, vars, Publish, BookFails, SkipAccount, BeginAccount,
     Decide, Refuse, EndAccount

\* An order for a bet keeps the accounts that hold it within the cap, by the
\* books the pass was counted from and the orders of the pass itself.
THEOREM FleetCap == Spec => FleetCapKept
<1> DEFINE Step == \A a \in Accounts, b \in Bets : b \in placed'[a] \ placed[a] =>
              Cardinality({c \in Accounts : b \in counted[c] \cup placed'[c]}) <= SymbolCap
<1>1. Kept /\ [Next]_vars => Step
  <2> SUFFICES ASSUME Kept, [Next]_vars,
                      NEW a \in Accounts, NEW b \in Bets, b \in placed'[a] \ placed[a]
               PROVE  Cardinality({c \in Accounts : b \in counted[c] \cup placed'[c]}) <= SymbolCap
    OBVIOUS
  <2>1. PICK d \in Decisions : Send(d) /\ a = acct /\ b = BetOf(d)
    BY NewOrder DEF Kept
  <2>2. pc = "loop" /\ counted' = counted
    BY <2>1 DEF Send
  <2>3. Cardinality(Holders(b)) <= fleet[b]
    BY <2>2 DEF Kept, Counts
  <2>4. Cardinality(Holders(b)') <= fleet'[b] /\ fleet'[b] <= SymbolCap
    BY <2>1, <2>3, HoldersStep, FleetAssumption DEF Kept
  <2>5. Holders(b)' = {c \in Accounts : b \in counted[c] \cup placed'[c]}
    BY <2>2 DEF Holders
  <2>6. IsFiniteSet(Holders(b)') /\ Cardinality(Holders(b)') \in Nat
    BY <2>5, FleetAssumption, Part DEF FleetAssumption
  <2>7. fleet'[b] \in Nat /\ SymbolCap \in Nat
    BY <2>1, TypeStep, FleetAssumption DEF Kept, TypeOK, FleetAssumption
  <2> QED  BY <2>4, <2>5, <2>6, <2>7
<1> QED  BY <1>1, KeptAlways, PTL DEF Spec, FleetCapKept

\* An order of a prop account keeps the accounts that trade either of its
\* currencies on its side within the cap.
THEOREM MoneyCap == Spec => PropCapKept
<1> DEFINE Step == \A a \in Prop, b \in Bets : b \in placed'[a] \ placed[a] =>
              \A l \in Trades(b) :
                 Cardinality({c \in Accounts :
                                 \E o \in counted[c] \cup placed'[c] : l \in Trades(o)}) <= PropCap
<1>1. Kept /\ [Next]_vars => Step
  <2> SUFFICES ASSUME Kept, [Next]_vars, NEW a \in Prop, NEW b \in Bets,
                      b \in placed'[a] \ placed[a], NEW l \in Trades(b)
               PROVE  Cardinality({c \in Accounts :
                          \E o \in counted[c] \cup placed'[c] : l \in Trades(o)}) <= PropCap
    OBVIOUS
  <2>1. a \in Accounts /\ l \in Leans
    BY FleetAssumption, LegsAreLeans DEF FleetAssumption
  <2>2. PICK d \in Decisions : Send(d) /\ a = acct /\ b = BetOf(d)
    BY <2>1, NewOrder DEF Kept
  <2>3. pc = "loop" /\ counted' = counted
    BY <2>2 DEF Send
  <2>4. Cardinality(Traders(l)) <= money[l]
    BY <2>1, <2>3 DEF Kept, Counts
  <2>5. Cardinality(Traders(l)') <= money'[l] /\ money'[l] <= PropCap
    BY <2>1, <2>2, <2>4, TradersStep, FleetAssumption DEF Kept
  <2>6. Traders(l)' = {c \in Accounts : \E o \in counted[c] \cup placed'[c] : l \in Trades(o)}
    BY <2>3 DEF Traders
  <2>7. IsFiniteSet(Traders(l)') /\ Cardinality(Traders(l)') \in Nat
    BY <2>6, FleetAssumption, Part DEF FleetAssumption
  <2>8. money'[l] \in Nat /\ PropCap \in Nat
    BY <2>1, TypeStep, FleetAssumption DEF Kept, TypeOK, FleetAssumption
  <2> QED  BY <2>5, <2>6, <2>7, <2>8
<1> QED  BY <1>1, KeptAlways, PTL DEF Spec, PropCapKept

\* An order keeps its account's caps on the book its turn began with: one
\* position per symbol, so many positions, and no further lean on a currency.
THEOREM AccountCaps == Spec => AccountCapsKept
<1> DEFINE Step == \A b \in placed'[acct] \ placed[acct] : pc = "loop" =>
              LET all == mine \cup placed'[acct] IN
              /\ \A o \in mine \cup placed[acct] : o.symbol # b.symbol
              /\ Cardinality(all) <= OpenCap
              /\ \A l \in Legs(b) : Cardinality({o \in all : l \in Legs(o)}) <= OwnCap
<1>1. Kept /\ [Next]_vars => Step
  <2> DEFINE all == mine \cup placed'[acct]
  <2> SUFFICES ASSUME Kept, [Next]_vars, NEW b \in placed'[acct] \ placed[acct], pc = "loop"
               PROVE  /\ \A o \in All : o.symbol # b.symbol
                      /\ Cardinality(all) <= OpenCap
                      /\ \A l \in Legs(b) : Cardinality({o \in all : l \in Legs(o)}) <= OwnCap
    BY DEF All
  <2>1. PICK d \in Decisions : Send(d) /\ b = BetOf(d)
    BY NewOrder DEF Kept, TypeOK
  <2>2. all = All \cup {b} /\ IsFiniteSet(All) /\ b \in Bets
    BY <2>1, FS_Union, BetIsBet, FleetAssumption DEF All, Kept, TypeOK, Finite, Send
  <2> HIDE DEF all
  <2>3. Admitted(b)
    BY <2>1 DEF Send
  <2>4. \A o \in All : o.symbol # b.symbol
    BY <2>3 DEF Admitted, Kept, Turn, SymbolsOf
  <2>5. Cardinality(all) <= OpenCap
    <3>1. /\ Cardinality(all) \in Nat /\ Cardinality(All) \in Nat
          /\ Cardinality(all) <= Cardinality(All) + 1
      BY <2>2, OneMore
    <3>2. room > 0 /\ room \in Int /\ Cardinality(All) + room <= OpenCap /\ OpenCap \in Nat
      BY <2>3, FleetAssumption DEF Admitted, Kept, Turn, TypeOK, FleetAssumption
    <3> QED  BY <3>1, <3>2
  <2>6. ASSUME NEW l \in Legs(b)
        PROVE  Cardinality({o \in all : l \in Legs(o)}) <= OwnCap
    <3> DEFINE leaning == {o \in All : l \in Legs(o)}
               after == {o \in all : l \in Legs(o)}
    <3>1. l \in Leans
      BY <2>2, LegsAreLeans
    <3>2. IsFiniteSet(leaning) /\ Cardinality(leaning) <= own[l] /\ own[l] \in Nat
      BY <2>2, <3>1, Part DEF Kept, Turn, TypeOK
    <3>3. own[l] < OwnCap /\ OwnCap \in Nat
      BY <2>3, <3>2, FleetAssumption DEF Admitted, LeansTooFar, FleetAssumption
    <3>4. after \in SUBSET (leaning \cup {b})
      BY <2>2
    <3> HIDE DEF leaning, after
    <3>5. /\ Cardinality(after) \in Nat /\ Cardinality(leaning) \in Nat
          /\ Cardinality(after) <= Cardinality(leaning) + 1
      BY <3>2, <3>4, OneMore
    <3>6. Cardinality(after) <= OwnCap
      BY <3>2, <3>3, <3>5
    <3> QED  BY <3>6 DEF after
  <2> QED  BY <2>4, <2>5, <2>6
<1> QED  BY <1>1, KeptAlways, PTL DEF Spec, AccountCapsKept
=============================================================================
