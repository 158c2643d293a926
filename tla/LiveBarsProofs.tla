--------------------------- MODULE LiveBarsProofs ---------------------------
(* Proofs about LiveBars, for any file, windows, bucket and number of       *)
(* faults: what the two workers append to a bar is in the order it was      *)
(* learnt, and a candle that is derived again loses no part.                *)
EXTENDS LiveBars, FiniteSetTheorems, FunctionTheorems, SequenceTheorems,
        WellFoundedInduction, TLAPS

(***************************************************************************)
(* Finite sets of numbers                                                   *)
(***************************************************************************)

\* The sets of those beyond each element are strictly fewer as it goes on.
LEMMA Extremes ==
    ASSUME NEW S \in SUBSET Int, IsFiniteSet(S), S # {}
    PROVE  /\ \E m \in S : \A n \in S : n <= m
           /\ \E m \in S : \A n \in S : n >= m
<1>1. ASSUME NEW B \in [S -> SUBSET S]
      PROVE  \E m \in S : \A n \in S : ~(B[n] \subseteq B[m] /\ B[n] # B[m])
  <2> DEFINE All == {B[n] : n \in S}
  <2>1. All \subseteq FiniteSubsetsOf(S) /\ All # {}
    <3>1. \A n \in S : B[n] \in SUBSET S /\ IsFiniteSet(B[n])
      BY FS_Subset
    <3> QED  BY <3>1 DEF FiniteSubsetsOf
  <2>2. \E X \in All : \A Y \in All : ~(<<Y, X>> \in StrictSubsetOrdering(S))
    <3> HIDE DEF All
    <3> QED  BY <2>1, FS_StrictSubsetOrderingWellFounded, WFMin
  <2>3. PICK m \in S : \A n \in S : ~(<<B[n], B[m]>> \in StrictSubsetOrdering(S))
    BY <2>2
  <2>4. ASSUME NEW n \in S, B[n] \subseteq B[m], B[n] # B[m]
        PROVE  FALSE
    <3> DEFINE ss == <<B[n], B[m]>>
    <3>1. ss \in (SUBSET S) \X (SUBSET S) /\ ss[1] \subseteq ss[2] /\ ss[1] # ss[2]
      BY <2>4
    <3> HIDE DEF ss
    <3>2. ss \in StrictSubsetOrdering(S)
      BY <3>1 DEF StrictSubsetOrdering
    <3> QED  BY <2>3, <3>2 DEF ss
  <2> QED  BY <2>4
<1>2. \E m \in S : \A n \in S : n <= m
  <2> DEFINE Above == [n \in S |-> {x \in S : x >= n}]
  <2>1. Above \in [S -> SUBSET S]
    OBVIOUS
  <2>2. PICK m \in S : \A n \in S : ~(Above[n] \subseteq Above[m] /\ Above[n] # Above[m])
    <3> HIDE DEF Above
    <3> QED  BY <1>1, <2>1
  <2>3. ASSUME NEW n \in S, m < n
        PROVE  FALSE
    <3>1. Above[n] = {x \in S : x >= n} /\ Above[m] = {x \in S : x >= m}
      OBVIOUS
    <3>2. m \in Int /\ n \in Int /\ \A x \in S : x \in Int
      OBVIOUS
    <3> HIDE DEF Above
    <3>3. \A x \in S : x >= n => x >= m
      BY <2>3, <3>2
    <3>4. m >= m /\ ~(m >= n)
      BY <2>3, <3>2
    <3>5. Above[n] \subseteq Above[m] /\ m \in Above[m] /\ m \notin Above[n]
      BY <3>1, <3>3, <3>4
    <3> QED  BY <2>2, <3>5
  <2> QED  BY <2>3
<1>3. \E m \in S : \A n \in S : n >= m
  <2> DEFINE Below == [n \in S |-> {x \in S : x <= n}]
  <2>1. Below \in [S -> SUBSET S]
    OBVIOUS
  <2>2. PICK m \in S : \A n \in S : ~(Below[n] \subseteq Below[m] /\ Below[n] # Below[m])
    <3> HIDE DEF Below
    <3> QED  BY <1>1, <2>1
  <2>3. ASSUME NEW n \in S, n < m
        PROVE  FALSE
    <3>1. Below[n] = {x \in S : x <= n} /\ Below[m] = {x \in S : x <= m}
      OBVIOUS
    <3>2. m \in Int /\ n \in Int /\ \A x \in S : x \in Int
      OBVIOUS
    <3> HIDE DEF Below
    <3>3. \A x \in S : x <= n => x <= m
      BY <2>3, <3>2
    <3>4. m <= m /\ ~(m <= n)
      BY <2>3, <3>2
    <3>5. Below[n] \subseteq Below[m] /\ m \in Below[m] /\ m \notin Below[n]
      BY <3>1, <3>3, <3>4
    <3> QED  BY <2>2, <3>5
  <2> QED  BY <2>3
<1> QED  BY <1>2, <1>3

LEMMA MinMax ==
    ASSUME NEW S \in SUBSET Int, IsFiniteSet(S), S # {}
    PROVE  /\ Max(S) \in S /\ \A n \in S : n <= Max(S)
           /\ Min(S) \in S /\ \A n \in S : Min(S) <= n
<1>1. Max(S) \in S /\ \A n \in S : Max(S) >= n
  <2>1. \E m \in S : \A n \in S : m >= n
    BY Extremes
  <2> QED  BY <2>1 DEF Max
<1>2. Min(S) \in S /\ \A n \in S : Min(S) <= n
  <2>1. \E m \in S : \A n \in S : m <= n
    BY Extremes
  <2> QED  BY <2>1 DEF Min
<1> QED  BY <1>1, <1>2

LEMMA OfTwo ==
    ASSUME NEW a \in Int, NEW b \in Int
    PROVE  Min({a, b}) \in {a, b} /\ Max({a, b}) \in {a, b}
           /\ a <= Max({a, b}) /\ b <= Max({a, b})
<1>1. \E x \in {a, b} : \A y \in {a, b} : x <= y
  OBVIOUS
<1>2. \E x \in {a, b} : \A y \in {a, b} : x >= y
  OBVIOUS
<1>3. Min({a, b}) \in {a, b}
  BY <1>1 DEF Min
<1>4. Max({a, b}) \in {a, b} /\ \A y \in {a, b} : Max({a, b}) >= y
  BY <1>2 DEF Max
<1> QED  BY <1>3, <1>4

LEMMA BarsFinite ==
    ASSUME LiveBarsAssumption, NEW T \in SUBSET Bars
    PROVE  IsFiniteSet(T) /\ T \in SUBSET Int /\ Cardinality(T) \in Nat
<1>1. IsFiniteSet(Bars) /\ Bars \subseteq Int
  BY FS_Interval DEF Bars, LiveBarsAssumption
<1> QED  BY <1>1, FS_Subset, FS_CardinalityType

LEMMA NewestOf ==
    ASSUME NEW S \in SUBSET Int, IsFiniteSet(S)
    PROVE  MaxOf(S) \in S \cup {None}
  BY MinMax DEF MaxOf

(***************************************************************************)
(* Functions and sequences                                                  *)
(***************************************************************************)

LEMMA PartialIs ==
    ASSUME NEW S, NEW T, NEW f
    PROVE  /\ f \in Partial(S, T) => DOMAIN f \subseteq S /\ f \in [DOMAIN f -> T]
           /\ \A D \in SUBSET S : f \in [D -> T] => f \in Partial(S, T)
  BY DEF Partial

LEMMA NoRowsIs == NoRows = [x \in {} |-> x] /\ DOMAIN NoRows = {}
                  /\ \A S, T : NoRows \in Partial(S, T)
<1>1. NoRows \in Seq({}) /\ Len(NoRows) = 0
  BY EmptySeq DEF NoRows
<1>2. NoRows \in [1..0 -> {}] /\ 1..0 = {}
  BY <1>1, LenProperties
<1>3. NoRows = [x \in {} |-> x] /\ DOMAIN NoRows = {}
  BY <1>2
<1>4. \A S, T : NoRows \in Partial(S, T)
  <2> TAKE S, T
  <2>1. NoRows \in [{} -> T]
    BY <1>3
  <2> QED  BY <2>1, PartialIs
<1> QED  BY <1>3, <1>4

LEMMA RestrictIs ==
    ASSUME NEW S, NEW T, NEW f \in Partial(S, T), NEW D \in SUBSET DOMAIN f
    PROVE  /\ Restrict(f, D) \in Partial(S, T) /\ DOMAIN Restrict(f, D) = D
           /\ \A x \in D : Restrict(f, D)[x] = f[x]
<1>1. DOMAIN f \subseteq S /\ f \in [DOMAIN f -> T]
  BY PartialIs
<1>2. Restrict(f, D) \in [D -> T] /\ D \in SUBSET S
  BY <1>1 DEF Restrict
<1> QED  BY <1>2, PartialIs DEF Restrict

LEMMA AppendIs ==
    ASSUME NEW T, NEW q \in Seq(T), NEW r \in T
    PROVE  /\ Append(q, r) \in Seq(T) /\ Len(Append(q, r)) = Len(q) + 1
           /\ DOMAIN q = 1..Len(q) /\ DOMAIN Append(q, r) = 1..(Len(q) + 1)
           /\ \A k \in 1..Len(q) : Append(q, r)[k] = q[k] /\ q[k] \in T
           /\ Append(q, r)[Len(q) + 1] = r
           /\ Len(q) \in Nat /\ (q = << >> <=> Len(q) = 0)
  BY LenProperties, EmptySeq, AppendProperties

(***************************************************************************)
(* The invariant                                                            *)
(***************************************************************************)

\* A revision that may come after those of bar s: learnt no earlier than the
\* newest of them, after the bar had closed, and saying something else.
Follows(r, revs, s) ==
    /\ r.at > s
    /\ revs # << >> => r.at >= Last(revs).at /\ r.price # Last(revs).price

InOrder(revs, s) ==
    \A k \in DOMAIN revs :
        /\ revs[k].at > s
        /\ k > 1 => revs[k].at >= revs[k - 1].at /\ revs[k].price # revs[k - 1].price

Known(revs, moment) == \E k \in DOMAIN revs : revs[k].at <= moment

IsPass(p) ==
    p = [pc |-> p.pc, moment |-> p.moment, rows |-> p.rows, seen |-> p.seen,
         tries |-> p.tries, wrote |-> p.wrote, since |-> p.since,
         published |-> p.published, calm |-> p.calm, folded |-> p.folded]

PassType(p) ==
    /\ p.pc \in {"idle", "select", "insert", "done", "failed", "commit"}
    /\ p.moment \in Times /\ p.tries \in 0..MaxTries
    /\ p.since \in Bars \cup {None}
    /\ p.rows \in Partial(Bars, Prices)
    /\ p.wrote \in Partial(Bars, Revisions)
    /\ p.folded \in Partial(Candles, Partial(Bars, Prices))

Blank(p) ==
    /\ p.moment = 0 /\ p.rows = NoRows /\ p.seen = NoRows /\ p.tries = 0
    /\ p.wrote = NoRows /\ p.since = None /\ p.published = None /\ p.folded = NoRows

\* A pass holds rows of bars that closed before it began; what it has written
\* follows what is committed, and so does what it is about to insert of the
\* bars that nobody has revised since it looked.
Held(p, st) ==
    /\ IsPass(p) /\ PassType(p)
    /\ p.pc = "idle" => Blank(p)
    /\ p.pc # "commit" => DOMAIN p.folded = {}
    /\ \A s \in DOMAIN p.rows : s < p.moment /\ s \notin DOMAIN p.wrote
    /\ \A s \in DOMAIN p.wrote : Follows(p.wrote[s], st[s], s)
    /\ p.pc = "insert" =>
          \A s \in DOMAIN p.rows :
             /\ p.seen[s] \in Nat /\ p.seen[s] <= Len(st[s])
             /\ p.seen[s] = Len(st[s]) =>
                   Follows([price |-> p.rows[s], at |-> p.moment], st[s], s)

\* What a pass sees of a bar.
SeenBy(p, s) ==
    IF s \in DOMAIN p.wrote THEN Append(stored[s], p.wrote[s]) ELSE stored[s]

CandleOf(s) == s \div Bucket
Opens(b) == b * Bucket

\* A part of a candle is a bar of its that had closed and was known: now, and
\* when the live pass under way began.
Kept(p) ==
    \A b \in Candles : \A s \in DOMAIN candles[b] :
        /\ s \in Bars /\ CandleOf(s) = b
        /\ s < now /\ Known(stored[s], now)
        /\ p.pc # "idle" => s < p.moment /\ Known(stored[s], p.moment)

\* So are the parts of the candles it has folded, and of those it had before
\* none is missing from a candle within the lookback.
Covered(p) ==
    \A b \in DOMAIN p.folded :
        /\ \A s \in DOMAIN p.folded[b] :
              /\ s \in Bars /\ CandleOf(s) = b
              /\ s < p.moment /\ Known(SeenBy(p, s), p.moment)
        /\ \/ DOMAIN candles[b] \subseteq DOMAIN p.folded[b]
           \/ Opens(b) < p.moment - DeriveLookback

FileHeld ==
    /\ file \in Partial(Bars, Prices) /\ Cardinality(DOMAIN file) <= FileDepth
    /\ \A s \in DOMAIN file : file[s] <= upsets + 1

Tables ==
    /\ stored \in [Bars -> Seq(Revisions)]
    /\ candles \in [Candles -> Partial(Bars, Prices)]
    /\ \A s \in Bars : InOrder(stored[s], s)

Passes ==
    /\ pass = [w \in Workers |-> pass[w]]
    /\ \A w \in Workers : Held(pass[w], stored) /\ pass[w].moment <= now
    /\ DOMAIN pass["live"].wrote \cap DOMAIN pass["collect"].wrote = {}
    /\ DOMAIN pass["collect"].folded = {}

Consistent ==
    /\ now \in Times /\ upsets \in 0..MaxUpsets /\ collects \in 0..MaxCollects
    /\ FileHeld /\ Tables /\ Passes
    /\ Kept(pass["live"]) /\ Covered(pass["live"])

(***************************************************************************)
(* Revisions                                                                *)
(***************************************************************************)

LEMMA Appended ==
    ASSUME NEW revs \in Seq(Revisions), NEW r \in Revisions, NEW s
    PROVE  /\ InOrder(revs, s) /\ Follows(r, revs, s) => InOrder(Append(revs, r), s)
           /\ \A m : Known(revs, m) => Known(Append(revs, r), m)
<1> DEFINE q == Append(revs, r)
           n == Len(revs)
<1>1. /\ DOMAIN revs = 1..n /\ DOMAIN q = 1..(n + 1) /\ n \in Nat
      /\ \A k \in 1..n : q[k] = revs[k]
      /\ q[n + 1] = r /\ (revs = << >> <=> n = 0)
  BY AppendIs
<1> HIDE DEF q
<1>2. ASSUME InOrder(revs, s), Follows(r, revs, s), NEW k \in DOMAIN q
      PROVE  /\ q[k].at > s
             /\ k > 1 => q[k].at >= q[k - 1].at /\ q[k].price # q[k - 1].price
  <2>1. CASE k \in 1..n
    <3>1. k - 1 \in 1..n \/ ~(k > 1)
      BY <1>1, <2>1
    <3> QED  BY <1>1, <1>2, <2>1, <3>1 DEF InOrder
  <2>2. CASE k = n + 1
    <3>1. k > 1 => n \in 1..n /\ k - 1 = n /\ revs # << >>
      BY <1>1, <2>2
    <3> QED  BY <1>1, <1>2, <2>2, <3>1 DEF Follows, Last
  <2> QED  BY <1>1, <1>2, <2>1, <2>2
<1>3. ASSUME NEW m, Known(revs, m)
      PROVE  Known(q, m)
  BY <1>1, <1>3 DEF Known
<1> QED  BY <1>2, <1>3 DEF InOrder, q

LEMMA KnownLater ==
    ASSUME LiveBarsAssumption, NEW revs \in Seq(Revisions),
           NEW m \in Int, NEW n \in Int, m <= n, Known(revs, m)
    PROVE  Known(revs, n)
<1>1. PICK k \in DOMAIN revs : revs[k].at <= m
  BY DEF Known
<1>2. revs[k] \in Revisions /\ LastBar \in Nat
  BY LenProperties DEF LiveBarsAssumption
<1>3. revs[k].at \in Int
  BY <1>2 DEF Revisions, Times
<1> QED  BY <1>1, <1>3 DEF Known

LEMMA NoPass == Blank(Idle) /\ Idle.pc = "idle" /\ IsPass(Idle) /\ DOMAIN Idle.folded = {}
                /\ DOMAIN Idle.rows = {} /\ DOMAIN Idle.wrote = {}
  BY NoRowsIs DEF Blank, Idle, IsPass

LEMMA NoPassHeld ==
    ASSUME LiveBarsAssumption, NEW st, NEW p, IsPass(p), PassType(p), DOMAIN p.rows = {},
           DOMAIN p.wrote = {}, DOMAIN p.folded = {}, p.pc = "idle" => Blank(p)
    PROVE  Held(p, st)
  BY DEF Held

LEMMA IdleHeld == ASSUME LiveBarsAssumption, NEW st PROVE Held(Idle, st)
<1>1. PassType(Idle)
  BY NoRowsIs DEF PassType, Idle, Times, LiveBarsAssumption
<1> QED  BY <1>1, NoPass, NoPassHeld

LEMMA ConsistentInit == LiveBarsAssumption /\ Init => Consistent
<1> SUFFICES ASSUME LiveBarsAssumption, Init
             PROVE  Consistent
  OBVIOUS
<1>1. now \in Times /\ upsets \in 0..MaxUpsets /\ collects \in 0..MaxCollects /\ now = 0
  BY DEF Init, Times, LiveBarsAssumption
<1>2. FileHeld
  <2>1. file \in Partial(Bars, Prices) /\ DOMAIN file = {}
    BY NoRowsIs DEF Init
  <2>2. Cardinality(DOMAIN file) = 0
    BY <2>1, FS_EmptySet
  <2> QED  BY <2>1, <2>2 DEF FileHeld, LiveBarsAssumption
<1>3. Tables
  <2>1. << >> \in Seq(Revisions) /\ DOMAIN << >> = {}
    BY EmptySeq, NoRowsIs DEF NoRows
  <2>2. \A s \in Bars : stored[s] = << >>
    BY DEF Init
  <2>3. \A s \in Bars : InOrder(stored[s], s)
    BY <2>1, <2>2 DEF InOrder
  <2>4. stored \in [Bars -> Seq(Revisions)]
    BY <2>1 DEF Init
  <2>5. candles \in [Candles -> Partial(Bars, Prices)]
    BY NoRowsIs DEF Init
  <2> QED  BY <2>3, <2>4, <2>5 DEF Tables
<1>4. pass = [w \in Workers |-> Idle] /\ \A w \in Workers : pass[w] = Idle
  BY DEF Init
<1>5. "live" \in Workers /\ "collect" \in Workers
  BY DEF Workers
<1>6. Passes
  <2>1. \A w \in Workers : Held(pass[w], stored) /\ pass[w].moment <= now
    <3>1. Idle.moment = 0
      BY DEF Idle
    <3> QED  BY <1>1, <1>4, <3>1, IdleHeld
  <2>2. /\ DOMAIN pass["live"].wrote \cap DOMAIN pass["collect"].wrote = {}
        /\ DOMAIN pass["collect"].folded = {}
    BY <1>4, <1>5, NoPass
  <2> QED  BY <1>4, <2>1, <2>2 DEF Passes
<1>7. Kept(pass["live"]) /\ Covered(pass["live"])
  <2>1. \A b \in Candles : DOMAIN candles[b] = {}
    BY NoRowsIs DEF Init
  <2> QED  BY <1>4, <1>5, <2>1, NoPass DEF Kept, Covered
<1> QED  BY <1>1, <1>2, <1>3, <1>6, <1>7 DEF Consistent

(***************************************************************************)
(* The terminal's steps                                                     *)
(***************************************************************************)

Alike(p, q) ==
    /\ IsPass(q) /\ q.pc = p.pc /\ q.moment = p.moment /\ q.rows = p.rows /\ q.seen = p.seen
    /\ q.tries = p.tries /\ q.wrote = p.wrote /\ q.since = p.since
    /\ q.published = p.published /\ q.folded = p.folded

LEMMA AlikeHeld ==
    ASSUME NEW p, NEW q, NEW st, Alike(p, q), Held(p, st)
    PROVE  Held(q, st)
<1>1. PassType(q) /\ (q.pc = "idle" => Blank(q)) /\ IsPass(q)
  BY DEF Alike, Held, PassType, Blank
<1> QED  BY <1>1 DEF Alike, Held

\* The expert's writing is felt by a live pass as a file it may not remember.
LEMMA Disturbed ==
    ASSUME Passes, pass' = [pass EXCEPT !["live"].calm = FALSE] \/ pass' = pass
    PROVE  /\ \A w \in Workers : Alike(pass[w], pass'[w])
           /\ pass' = [w \in Workers |-> pass'[w]]
<1>1. pass = [w \in Workers |-> pass[w]] /\ \A w \in Workers : IsPass(pass[w])
  BY DEF Passes, Held
<1>2. CASE pass' = pass
  BY <1>1, <1>2 DEF Alike
<1>3. CASE pass' = [pass EXCEPT !["live"].calm = FALSE]
  <2>1. pass' = [w \in Workers |-> pass'[w]]
    BY <1>1, <1>3
  <2>2. ASSUME NEW w \in Workers
        PROVE  Alike(pass[w], pass'[w])
    <3> DEFINE p == pass[w]
               q == pass'[w]
    <3>1. q = p \/ q = [p EXCEPT !.calm = FALSE]
      BY <1>1, <1>3
    <3>2. IsPass(p)
      BY <1>1
    <3> HIDE DEF p, q
    <3>3. Alike(p, q)
      BY <3>1, <3>2 DEF IsPass, Alike
    <3> QED  BY <3>3 DEF p, q
  <2> QED  BY <2>1, <2>2
<1> QED  BY <1>2, <1>3

LEMMA TerminalStep ==
    ASSUME LiveBarsAssumption, Consistent, FileHeld', upsets' \in 0..MaxUpsets,
           now' \in Times, now <= now', UNCHANGED <<stored, candles, collects>>,
           pass' = [pass EXCEPT !["live"].calm = FALSE] \/ pass' = pass
    PROVE  Consistent'
<1>1. /\ \A w \in Workers : Alike(pass[w], pass'[w])
      /\ pass' = [w \in Workers |-> pass'[w]]
  BY Disturbed DEF Consistent
<1>2. "live" \in Workers /\ "collect" \in Workers
  BY DEF Workers
<1>3. \A w \in Workers : /\ pass[w].moment \in Int /\ now \in Int /\ now' \in Int
                         /\ Held(pass[w], stored) /\ pass[w].moment <= now
  <2>1. Times \subseteq Int
    BY DEF Times, LiveBarsAssumption
  <2>2. \A w \in Workers : Held(pass[w], stored) /\ pass[w].moment <= now
    BY DEF Consistent, Passes
  <2>3. \A w \in Workers : pass[w].moment \in Times
    BY <2>2 DEF Held, PassType
  <2> QED  BY <2>1, <2>2, <2>3 DEF Consistent
<1>4. Passes'
  <2>1. \A w \in Workers : Held(pass'[w], stored')
    BY <1>1, <1>3, AlikeHeld
  <2>2. \A w \in Workers : pass'[w].moment <= now'
    BY <1>1, <1>3 DEF Alike
  <2>3. /\ DOMAIN pass'["live"].wrote \cap DOMAIN pass'["collect"].wrote = {}
        /\ DOMAIN pass'["collect"].folded = {}
    BY <1>1, <1>2 DEF Alike, Consistent, Passes
  <2> QED  BY <1>1, <2>1, <2>2, <2>3 DEF Passes
<1>5. Kept(pass["live"])'
  <2> SUFFICES ASSUME NEW b \in Candles, NEW s \in DOMAIN candles[b]
               PROVE  /\ s \in Bars /\ CandleOf(s) = b
                      /\ s < now' /\ Known(stored[s], now')
                      /\ pass'["live"].pc # "idle" =>
                           s < pass'["live"].moment /\ Known(stored[s], pass'["live"].moment)
    BY DEF Consistent, Kept
  <2>1. /\ s \in Bars /\ CandleOf(s) = b /\ s < now /\ Known(stored[s], now)
        /\ pass["live"].pc # "idle" =>
             s < pass["live"].moment /\ Known(stored[s], pass["live"].moment)
    BY DEF Consistent, Kept
  <2>2. stored[s] \in Seq(Revisions) /\ s \in Int
    BY <2>1 DEF Consistent, Tables, Bars
  <2>3. Known(stored[s], now')
    BY <1>2, <1>3, <2>1, <2>2, KnownLater
  <2>4. pass'["live"].pc = pass["live"].pc /\ pass'["live"].moment = pass["live"].moment
    BY <1>1, <1>2 DEF Alike
  <2>5. s < now'
    <3>1. now \in Int /\ now' \in Int
      BY <1>2, <1>3
    <3>2. s \in Int /\ s < now
      BY <2>1, <2>2
    <3> QED  BY <3>1, <3>2
  <2>6. ASSUME pass'["live"].pc # "idle"
        PROVE  s < pass'["live"].moment /\ Known(stored[s], pass'["live"].moment)
    <3> DEFINE m == pass["live"].moment
               n == pass'["live"].moment
    <3>1. n = m /\ s < m /\ Known(stored[s], m)
      BY <2>1, <2>4, <2>6
    <3> HIDE DEF m, n
    <3>2. s < n /\ Known(stored[s], n)
      BY <3>1
    <3> QED  BY <3>2 DEF n
  <2> QED  BY <2>1, <2>3, <2>5, <2>6
<1>6. Covered(pass["live"])'
  BY <1>1, <1>2 DEF Alike, Consistent, Covered, SeenBy
<1> QED  BY <1>4, <1>5, <1>6 DEF Consistent, Tables

\* The expert keeps no more than the newest bars.
LEMMA WithIs ==
    ASSUME LiveBarsAssumption, FileHeld, NEW s \in Bars
    PROVE  /\ With(s) \in Partial(Bars, Prices)
           /\ Cardinality(DOMAIN With(s)) <= FileDepth
           /\ \A t \in DOMAIN With(s) : With(s)[t] = 1 \/ (t \in DOMAIN file /\ With(s)[t] = file[t])
<1> DEFINE all == DOMAIN file \cup {s}
           kept == IF Cardinality(all) > FileDepth THEN all \ {Min(all)} ELSE all
<1>1. /\ DOMAIN file \in SUBSET Bars /\ file \in [DOMAIN file -> Prices]
      /\ Cardinality(DOMAIN file) <= FileDepth
  BY PartialIs DEF FileHeld
<1>2. With(s) = [t \in kept |-> IF t = s THEN 1 ELSE file[t]]
  BY DEF With
<1>3. all \in SUBSET Bars /\ all # {} /\ s \in all
  BY <1>1
<1>4. /\ IsFiniteSet(all) /\ all \in SUBSET Int /\ Cardinality(all) \in Nat
      /\ IsFiniteSet(DOMAIN file) /\ Cardinality(DOMAIN file) \in Nat
  BY <1>1, <1>3, BarsFinite
<1>5. Cardinality(all) <= Cardinality(DOMAIN file) + 1
  BY <1>4, FS_AddElement
<1>6. 1 \in Prices
  BY DEF Prices, LiveBarsAssumption
<1>7. kept \in SUBSET all
  OBVIOUS
<1>8. Cardinality(kept) <= FileDepth
  <2>1. Min(all) \in all
    BY <1>3, <1>4, MinMax
  <2> HIDE DEF all
  <2>2. Cardinality(all \ {Min(all)}) = Cardinality(all) - 1
    BY <1>4, <2>1, FS_RemoveElement
  <2>3. FileDepth \in Nat
    BY DEF LiveBarsAssumption
  <2> QED  BY <1>1, <1>4, <1>5, <2>2, <2>3
<1>9. \A t \in kept : t # s => t \in DOMAIN file
  BY <1>7
<1> HIDE DEF kept
<1>10. DOMAIN With(s) = kept /\ \A t \in kept : With(s)[t] = IF t = s THEN 1 ELSE file[t]
  BY <1>2
<1>11. With(s) \in [kept -> Prices]
  BY <1>1, <1>2, <1>6, <1>9
<1>12. With(s) \in Partial(Bars, Prices)
  BY <1>3, <1>7, <1>11, PartialIs
<1>13. Cardinality(DOMAIN With(s)) <= FileDepth
  BY <1>8, <1>10
<1>14. ASSUME NEW t \in DOMAIN With(s)
       PROVE  With(s)[t] = 1 \/ (t \in DOMAIN file /\ With(s)[t] = file[t])
  <2>1. t \in kept
    BY <1>10
  <2>2. CASE t = s
    BY <1>10, <2>1, <2>2
  <2>3. CASE t # s
    BY <1>9, <1>10, <2>1, <2>3
  <2> QED  BY <2>2, <2>3
<1> QED  BY <1>12, <1>13, <1>14

\* What the file says of a bar is a number.
LEMMA FileSays ==
    ASSUME LiveBarsAssumption, FileHeld
    PROVE  \A t \in DOMAIN file : file[t] \in Int
<1>1. file \in [DOMAIN file -> Prices]
  BY PartialIs DEF FileHeld
<1>2. Prices \subseteq Int
  BY DEF Prices, LiveBarsAssumption
<1> QED  BY <1>1, <1>2

LEMMA WritesHeld ==
    ASSUME LiveBarsAssumption, Consistent, NEW s \in Bars, file' = With(s),
           upsets' \in Nat, upsets <= upsets'
    PROVE  FileHeld'
<1>1. FileHeld /\ upsets \in Nat
  BY DEF Consistent, LiveBarsAssumption
<1>2. \A t \in DOMAIN With(s) : With(s)[t] <= upsets' + 1
  <2>1. \A t \in DOMAIN file : file[t] <= upsets + 1 /\ file[t] \in Int
    BY <1>1, FileSays DEF FileHeld
  <2> QED  BY <1>1, <2>1, WithIs
<1> QED  BY <1>1, <1>2, WithIs DEF FileHeld

LEMMA TerminalSteps ==
    ASSUME LiveBarsAssumption, Consistent,
           Tick \/ \E s \in Bars : ComeLate(s) \/ Restate(s)
    PROVE  Consistent'
<1>1. /\ now \in Times /\ now \in Int /\ upsets \in 0..MaxUpsets /\ FileHeld
      /\ LastBar \in Nat /\ MaxUpsets \in Nat
  BY DEF Consistent, Times, LiveBarsAssumption
<1>2. Upset => upsets' \in 0..MaxUpsets /\ upsets <= upsets' /\ upsets' = upsets + 1
  BY <1>1 DEF Upset
<1>3. CASE Tick
  <2>1. /\ now <= LastBar /\ now' = now + 1 /\ UNCHANGED <<stored, candles, collects>>
        /\ \/ Write(With(now)) /\ UNCHANGED upsets
           \/ Upset /\ UNCHANGED <<file, cache, pass>>
           \/ UNCHANGED <<file, cache, pass, upsets>>
    BY <1>3 DEF Tick
  <2>2. now \in Bars /\ now' \in Times /\ now <= now'
    BY <1>1, <2>1 DEF Bars, Times
  <2>3. CASE Write(With(now)) /\ UNCHANGED upsets
    <3>1. file' = With(now) /\ pass' = [pass EXCEPT !["live"].calm = FALSE]
      BY <2>3 DEF Write
    <3>2. FileHeld'
      BY <1>1, <2>2, <2>3, <3>1, WritesHeld
    <3> QED  BY <1>1, <2>1, <2>2, <2>3, <3>1, <3>2, TerminalStep
  <2>4. CASE UNCHANGED <<file, pass>> /\ (Upset \/ UNCHANGED upsets)
    <3>1. FileHeld'
      <4>1. \A t \in DOMAIN file : file[t] \in Int
        BY <1>1, FileSays
      <4> QED  BY <1>1, <1>2, <2>4, <4>1 DEF FileHeld
    <3>2. upsets' \in 0..MaxUpsets
      BY <1>1, <1>2, <2>4
    <3> QED  BY <2>1, <2>2, <2>4, <3>1, <3>2, TerminalStep
  <2> QED  BY <2>1, <2>3, <2>4
<1>4. ASSUME NEW s \in Bars, ComeLate(s)
      PROVE  Consistent'
  <2>1. /\ file' = With(s) /\ pass' = [pass EXCEPT !["live"].calm = FALSE]
        /\ Upset \/ UNCHANGED upsets
        /\ UNCHANGED <<now, stored, candles, collects>>
    BY <1>4 DEF ComeLate, Write
  <2>2. upsets' \in 0..MaxUpsets /\ upsets <= upsets'
    BY <1>1, <1>2, <2>1
  <2>3. FileHeld'
    BY <1>1, <2>1, <2>2, WritesHeld
  <2> QED  BY <1>1, <2>1, <2>2, <2>3, TerminalStep
<1>5. ASSUME NEW s \in Bars, Restate(s)
      PROVE  Consistent'
  <2>1. /\ Upset /\ s \in DOMAIN file /\ file' = [file EXCEPT ![s] = @ + 1]
        /\ pass' = [pass EXCEPT !["live"].calm = FALSE]
        /\ UNCHANGED <<now, stored, candles, collects>>
    BY <1>5 DEF Restate, Write
  <2>2. FileHeld'
    <3>1. /\ DOMAIN file \in SUBSET Bars /\ file \in [DOMAIN file -> Prices]
          /\ \A t \in DOMAIN file : file[t] <= upsets + 1 /\ file[t] \in 1..(MaxUpsets + 1)
      <4>1. DOMAIN file \in SUBSET Bars /\ file \in [DOMAIN file -> Prices]
        BY <1>1, PartialIs DEF FileHeld
      <4> QED  BY <1>1, <4>1 DEF FileHeld, Prices
    <3>2. DOMAIN file' = DOMAIN file /\ \A t \in DOMAIN file : file'[t] = IF t = s THEN file[s] + 1 ELSE file[t]
      BY <2>1, <3>1
    <3>3. \A t \in DOMAIN file : file'[t] \in Prices /\ file'[t] <= upsets' + 1
      BY <1>1, <1>2, <2>1, <3>1, <3>2 DEF Prices
    <3>4. file' \in [DOMAIN file -> Prices]
      BY <2>1, <3>1, <3>2, <3>3
    <3> QED  BY <1>1, <3>1, <3>2, <3>3, <3>4, PartialIs DEF FileHeld
  <2> QED  BY <1>1, <1>2, <2>1, <2>2, TerminalStep
<1> QED  BY <1>3, <1>4, <1>5

(***************************************************************************)
(* The steps of a pass                                                      *)
(***************************************************************************)

LEMMA TheOther ==
    ASSUME NEW w \in Workers
    PROVE  Other(w) \in Workers /\ Other(w) # w /\ \A v \in Workers : v = w \/ v = Other(w)
<1>1. \E o \in Workers : o # w
  BY DEF Workers
<1>2. Other(w) \in Workers /\ Other(w) # w
  BY <1>1 DEF Other
<1> QED  BY <1>2 DEF Workers

LEMMA InFlight ==
    ASSUME LiveBarsAssumption, Consistent, NEW w \in Workers
    PROVE  /\ Held(pass[w], stored) /\ IsPass(pass[w]) /\ PassType(pass[w])
           /\ pass[w].moment \in Int /\ now \in Int /\ pass[w].moment <= now
           /\ pass = [v \in Workers |-> pass[v]]
           /\ DOMAIN pass[w].wrote \cap DOMAIN pass[Other(w)].wrote = {}
           /\ w = "collect" => DOMAIN pass[w].folded = {}
           /\ w = "live" => Kept(pass[w]) /\ Covered(pass[w])
<1>1. Times \subseteq Int
  BY DEF Times, LiveBarsAssumption
<1>2. /\ Held(pass[w], stored) /\ pass[w].moment <= now
      /\ pass = [v \in Workers |-> pass[v]]
      /\ DOMAIN pass["live"].wrote \cap DOMAIN pass["collect"].wrote = {}
      /\ DOMAIN pass["collect"].folded = {}
      /\ Kept(pass["live"]) /\ Covered(pass["live"])
  BY DEF Consistent, Passes
<1>3. now \in Int /\ pass[w].moment \in Int
  BY <1>1, <1>2 DEF Consistent, Held, PassType
<1>4. DOMAIN pass[w].wrote \cap DOMAIN pass[Other(w)].wrote = {}
  BY <1>2, TheOther DEF Workers
<1> QED  BY <1>2, <1>3, <1>4 DEF Held

\* A step of one pass that leaves the tables alone.
LEMMA OnePass ==
    ASSUME LiveBarsAssumption, Consistent, NEW w \in Workers, NEW q,
           pass' = [pass EXCEPT ![w] = q], UNCHANGED <<now, file, stored, candles>>,
           upsets' \in 0..MaxUpsets, upsets <= upsets', collects' \in 0..MaxCollects,
           Held(q, stored), q.moment <= now,
           DOMAIN q.wrote \cap DOMAIN pass[Other(w)].wrote = {},
           w = "collect" => DOMAIN q.folded = {},
           w = "live" => Kept(q) /\ Covered(q)
    PROVE  Consistent'
<1>1. /\ pass = [v \in Workers |-> pass[v]]
      /\ \A v \in Workers : Held(pass[v], stored) /\ pass[v].moment <= now
      /\ DOMAIN pass["collect"].folded = {}
      /\ Kept(pass["live"]) /\ Covered(pass["live"])
  BY DEF Consistent, Passes
<1>2. /\ pass' = [v \in Workers |-> pass'[v]]
      /\ pass'[w] = q /\ \A v \in Workers : v # w => pass'[v] = pass[v]
  BY <1>1
<1>3. "live" \in Workers /\ "collect" \in Workers
  BY DEF Workers
<1>4. Passes'
  <2>1. \A v \in Workers : Held(pass'[v], stored') /\ pass'[v].moment <= now'
    BY <1>1, <1>2
  <2>2. DOMAIN pass'["live"].wrote \cap DOMAIN pass'["collect"].wrote = {}
    <3>1. pass'[Other(w)] = pass[Other(w)]
      BY <1>2, TheOther
    <3>2. DOMAIN pass'[w].wrote \cap DOMAIN pass'[Other(w)].wrote = {}
      BY <1>2, <3>1
    <3>3. (w = "live" /\ Other(w) = "collect") \/ (w = "collect" /\ Other(w) = "live")
      BY TheOther DEF Workers
    <3> QED  BY <3>2, <3>3
  <2>3. DOMAIN pass'["collect"].folded = {}
    BY <1>1, <1>2, <1>3
  <2> QED  BY <1>2, <2>1, <2>2, <2>3 DEF Passes
<1>5. Kept(pass'["live"]) /\ Covered(pass'["live"])
  BY <1>1, <1>2, <1>3
<1>6. Kept(pass["live"])' /\ Covered(pass["live"])'
  BY <1>5 DEF Kept, Covered, SeenBy
<1>7. FileHeld'
  <2>1. \A t \in DOMAIN file : file[t] \in Int
    BY FileSays DEF Consistent
  <2>2. upsets \in Int /\ upsets' \in Int
    BY DEF Consistent, LiveBarsAssumption
  <2> QED  BY <2>1, <2>2 DEF Consistent, FileHeld
<1>8. Tables'
  BY DEF Consistent, Tables
<1> QED  BY <1>4, <1>6, <1>7, <1>8 DEF Consistent

LEMMA KeptBy ==
    ASSUME NEW p, NEW q, Kept(p),
           q.pc = "idle" \/ q.moment = now \/ (p.pc # "idle" /\ q.moment = p.moment)
    PROVE  Kept(q)
  BY DEF Kept

LEMMA NothingFolded ==
    ASSUME NEW q, DOMAIN q.folded = {}
    PROVE  Covered(q)
  BY DEF Covered

LEMMA Counters ==
    ASSUME LiveBarsAssumption, Consistent
    PROVE  /\ Upset => upsets' \in 0..MaxUpsets /\ upsets <= upsets'
           /\ upsets \in 0..MaxUpsets /\ upsets <= upsets /\ collects \in 0..MaxCollects
  BY DEF Consistent, Upset, LiveBarsAssumption

\* A pass that is over, failed or gone leaves nothing behind.
LEMMA EndedStep ==
    ASSUME LiveBarsAssumption, Consistent, NEW w \in Workers, NEW q,
           pass' = [pass EXCEPT ![w] = q], UNCHANGED <<now, file, stored, candles, collects>>,
           Upset \/ UNCHANGED upsets,
           q = Idle \/ (q = [Idle EXCEPT !.pc = "failed", !.moment = pass[w].moment]
                        /\ pass[w].pc # "idle")
    PROVE  Consistent'
<1>1. /\ PassType(pass[w]) /\ pass[w].moment <= now /\ now \in Int
      /\ w = "live" => Kept(pass[w])
  BY InFlight
<1>2. 0 <= now
  BY DEF Consistent, Times, LiveBarsAssumption
<1>3. /\ IsPass(q) /\ PassType(q) /\ DOMAIN q.rows = {} /\ DOMAIN q.wrote = {}
      /\ DOMAIN q.folded = {} /\ (q.pc = "idle" => Blank(q)) /\ q.moment <= now
      /\ q.pc = "idle" \/ (pass[w].pc # "idle" /\ q.moment = pass[w].moment)
  <2>1. CASE q = Idle
    BY <1>2, <2>1, NoPass, IdleHeld DEF Held, Blank
  <2>2. CASE q = [Idle EXCEPT !.pc = "failed", !.moment = pass[w].moment] /\ pass[w].pc # "idle"
    <3>1. /\ q.pc = "failed" /\ q.moment = pass[w].moment /\ q.rows = Idle.rows
          /\ q.wrote = Idle.wrote /\ q.folded = Idle.folded /\ q.tries = Idle.tries
          /\ q.since = Idle.since /\ IsPass(q)
      BY <2>2 DEF Idle, IsPass
    <3>2. PassType(Idle)
      BY IdleHeld DEF Held
    <3>3. PassType(q)
      BY <1>1, <3>1, <3>2 DEF PassType
    <3> QED  BY <1>1, <2>2, <3>1, <3>3, NoPass
  <2> QED  BY <2>1, <2>2
<1>4. Held(q, stored)
  BY <1>3, NoPassHeld
<1>5. w = "live" => Kept(q) /\ Covered(q)
  BY <1>1, <1>3, KeptBy, NothingFolded
<1> QED  BY <1>3, <1>4, <1>5, OnePass, Counters

\* A pass begins with rows of bars that have closed, out of the file.
LEMMA BeginStep ==
    ASSUME LiveBarsAssumption, Consistent, NEW w \in Workers, Begin(w)
    PROVE  Consistent'
<1> DEFINE newest == StoredNewest(now)
           whole == IF Unread(w) THEN Closed(DOMAIN file, now) ELSE {}
<1>1. PICK lost \in {{}} \cup {{s} : s \in whole}, shut \in BOOLEAN :
        LET good == whole \ lost
            rows == IF Dead(w, good, newest, now) THEN {} ELSE good
            settled == {s \in rows : newest # None /\ s < Floor(newest)}
            short == Hole(settled)
            fresh == IF shut THEN {} ELSE IF short THEN rows ELSE rows \ settled
        IN  /\ \/ lost = {} /\ ~shut /\ UNCHANGED upsets
               \/ (lost # {}) # shut /\ Upset
            /\ pass' = [pass EXCEPT ![w] = [Idle EXCEPT
                  !.pc = IF fresh = {} THEN "done" ELSE "select",
                  !.moment = now,
                  !.rows = Restrict(file, fresh),
                  !.published = IF w = "live" THEN MaxOf(rows) ELSE None,
                  !.since = IF w = "live" /\ short THEN Min(settled) ELSE None,
                  !.calm = w = "live" /\ Unread(w)]]
  BY DEF Begin
<1> DEFINE good == whole \ lost
           rows == IF Dead(w, good, newest, now) THEN {} ELSE good
           settled == {s \in rows : newest # None /\ s < Floor(newest)}
           short == Hole(settled)
           fresh == IF shut THEN {} ELSE IF short THEN rows ELSE rows \ settled
           taken == Restrict(file, fresh)
           since == IF w = "live" /\ short THEN Min(settled) ELSE None
           to == IF fresh = {} THEN "done" ELSE "select"
           told == IF w = "live" THEN MaxOf(rows) ELSE None
           calm == w = "live" /\ Unread(w)
           q == [Idle EXCEPT !.pc = to, !.moment = now, !.rows = taken, !.published = told,
                             !.since = since, !.calm = calm]
<1>2. pass' = [pass EXCEPT ![w] = q] /\ (Upset \/ UNCHANGED upsets)
  BY <1>1
<1>3. /\ file \in Partial(Bars, Prices) /\ DOMAIN file \in SUBSET Bars
      /\ now \in Times /\ Bars \subseteq Int /\ now \in Int
  <2>1. file \in Partial(Bars, Prices) /\ now \in Times
    BY DEF Consistent, FileHeld
  <2>2. DOMAIN file \in SUBSET Bars
    BY <2>1, PartialIs
  <2>3. Bars \subseteq Int /\ Times \subseteq Int
    BY DEF Bars, Times, LiveBarsAssumption
  <2> QED  BY <2>1, <2>2, <2>3
<1>4. fresh \subseteq rows /\ settled \subseteq rows
  OBVIOUS
<1>5. rows \subseteq DOMAIN file /\ \A s \in rows : s < now
  <2>1. \A s \in whole : s \in DOMAIN file /\ s + 1 <= now
    BY DEF Closed
  <2> HIDE DEF whole
  <2>2. rows \subseteq whole
    OBVIOUS
  <2>3. \A s \in rows : s \in DOMAIN file /\ s + 1 <= now /\ s \in Int
    BY <1>3, <2>1, <2>2
  <2> HIDE DEF rows
  <2> QED  BY <1>3, <2>3
<1>6. since \in Bars \cup {None}
  <2>1. short => settled # {}
    BY DEF Hole
  <2>2. settled \in SUBSET Bars
    BY <1>3, <1>4, <1>5
  <2> HIDE DEF settled
  <2>3. IsFiniteSet(settled) /\ settled \in SUBSET Int
    BY <2>2, BarsFinite
  <2>4. settled # {} => Min(settled) \in settled
    BY <2>3, MinMax
  <2> QED  BY <2>1, <2>2, <2>4
<1> HIDE DEF rows, settled, short, fresh
<1>7. /\ taken \in Partial(Bars, Prices) /\ DOMAIN taken = fresh
      /\ \A s \in fresh : s < now
  BY <1>3, <1>4, <1>5, RestrictIs
<1> HIDE DEF taken, since
<1>8. to \in {"done", "select"}
  OBVIOUS
<1> HIDE DEF to, told, calm
<1>9. /\ IsPass(q) /\ q.pc \in {"done", "select"} /\ q.moment = now /\ q.rows = taken
      /\ q.since = since /\ q.tries = 0 /\ q.wrote = NoRows /\ q.folded = NoRows
  <2>1. q = [Idle EXCEPT !.pc = to, !.moment = now, !.rows = taken, !.published = told,
                         !.since = since, !.calm = calm]
    OBVIOUS
  <2> HIDE DEF q
  <2>2. q = [pc |-> to, moment |-> now, rows |-> taken, seen |-> NoRows, tries |-> 0,
             wrote |-> NoRows, since |-> since, published |-> told, calm |-> calm,
             folded |-> NoRows]
    BY <2>1 DEF Idle
  <2> QED  BY <1>8, <2>2 DEF IsPass
<1> HIDE DEF q
<1>10. PassType(q)
  BY <1>3, <1>6, <1>7, <1>9, NoRowsIs DEF PassType, LiveBarsAssumption
<1>11. Held(q, stored)
  BY <1>7, <1>9, <1>10, NoRowsIs DEF Held
<1>12. w = "live" => Kept(q) /\ Covered(q)
  BY <1>9, NoRowsIs, InFlight, KeptBy, NothingFolded
<1>13. UNCHANGED <<now, file, stored, candles>> /\ collects' \in 0..MaxCollects
  <2>1. UNCHANGED <<now, file, stored, candles>>
        /\ (UNCHANGED collects \/ (collects < MaxCollects /\ collects' = collects + 1))
    BY DEF Begin
  <2> QED  BY <2>1 DEF Consistent, LiveBarsAssumption
<1>14. upsets' \in 0..MaxUpsets /\ upsets <= upsets'
  BY <1>2, Counters
<1>15. /\ q.moment <= now /\ DOMAIN q.wrote \cap DOMAIN pass[Other(w)].wrote = {}
       /\ DOMAIN q.folded = {}
  BY <1>3, <1>9, NoRowsIs
<1> QED  BY <1>2, <1>11, <1>12, <1>13, <1>14, <1>15, OnePass

LEMMA SeenIs ==
    ASSUME NEW w \in Workers, NEW s
    PROVE  Seen(w, s) = SeenBy(pass[w], s)
  BY DEF Seen, SeenBy

\* What is left to insert follows what is committed.
LEMMA SelectStep ==
    ASSUME LiveBarsAssumption, Consistent, NEW w \in Workers, Select(w)
    PROVE  Consistent'
<1> DEFINE p == pass[w]
           changed == {s \in DOMAIN p.rows : Differs(Seen(w, s), p.rows[s])}
           looked == [s \in changed |-> Len(Seen(w, s))]
           left == Restrict(p.rows, changed)
           count == IF changed = {} THEN 0 ELSE p.tries + 1
           to == IF changed = {} THEN "done" ELSE "insert"
           q == [p EXCEPT !.pc = to, !.rows = left, !.seen = looked, !.tries = count]
<1>1. /\ Held(p, stored) /\ IsPass(p) /\ PassType(p) /\ p.moment <= now
      /\ pass = [v \in Workers |-> pass[v]]
      /\ DOMAIN p.wrote \cap DOMAIN pass[Other(w)].wrote = {}
      /\ w = "live" => Kept(p)
  BY InFlight
<1>2. /\ p.pc = "select" /\ p.tries < MaxTries
      /\ \A s \in changed : Seen(w, s) # << >> => p.moment >= Last(Seen(w, s)).at
      /\ UNCHANGED <<now, file, stored, candles, upsets, collects>>
  BY DEF Select
<1>3. pass' = [pass EXCEPT ![w] = q]
  <2>1. pass' = [pass EXCEPT
              ![w].pc = to, ![w].rows = left, ![w].seen = looked, ![w].tries = count]
    BY DEF Select
  <2> HIDE DEF to, changed, looked, left, count
  <2> QED  BY <1>1, <2>1
<1>4. \A s \in changed : Seen(w, s) = stored[s] /\ s \in DOMAIN p.rows /\ s \in Bars
  <2>1. \A s \in DOMAIN p.rows : s \notin DOMAIN p.wrote /\ s \in Bars
    BY <1>1, PartialIs DEF Held, PassType
  <2> QED  BY <2>1 DEF Seen
<1>5. \A s \in changed :
        /\ looked[s] = Len(stored[s]) /\ Len(stored[s]) \in Nat
        /\ Follows([price |-> p.rows[s], at |-> p.moment], stored[s], s)
  <2> SUFFICES ASSUME NEW s \in changed
               PROVE  /\ looked[s] = Len(stored[s]) /\ Len(stored[s]) \in Nat
                      /\ Follows([price |-> p.rows[s], at |-> p.moment], stored[s], s)
    OBVIOUS
  <2>1. looked[s] = Len(stored[s])
    BY <1>4
  <2>2. Len(stored[s]) \in Nat
    BY <1>4, LenProperties DEF Consistent, Tables
  <2>3. p.moment > s
    <3>1. s < p.moment /\ s \in Int /\ p.moment \in Int
      BY <1>1, <1>4, InFlight DEF Held, Bars
    <3> QED  BY <3>1
  <2>4. stored[s] # << >> => p.moment >= Last(stored[s]).at /\ p.rows[s] # Last(stored[s]).price
    BY <1>2, <1>4 DEF Differs
  <2> QED  BY <2>1, <2>2, <2>3, <2>4 DEF Follows
<1>6. left \in Partial(Bars, Prices) /\ DOMAIN left = changed /\ \A s \in changed : left[s] = p.rows[s]
  <2>1. p.rows \in Partial(Bars, Prices) /\ changed \in SUBSET DOMAIN p.rows
    BY <1>1 DEF PassType
  <2> HIDE DEF changed
  <2> QED  BY <2>1, RestrictIs
<1>7. count \in 0..MaxTries
  <2>1. p.tries \in 0..MaxTries /\ p.tries < MaxTries /\ MaxTries \in Nat
    BY <1>1, <1>2 DEF PassType, LiveBarsAssumption
  <2> HIDE DEF p, changed
  <2> QED  BY <2>1
<1>8. changed \subseteq DOMAIN p.rows /\ to \in {"done", "insert"}
  OBVIOUS
<1> HIDE DEF p, changed, looked, left, count, to
<1>9. /\ IsPass(q) /\ q.pc \in {"done", "insert"} /\ q.moment = p.moment /\ q.rows = left
      /\ q.since = p.since /\ q.tries = count /\ q.wrote = p.wrote /\ q.folded = p.folded
      /\ q.seen = looked
  <2>1. q = [p EXCEPT !.pc = to, !.rows = left, !.seen = looked, !.tries = count]
    OBVIOUS
  <2> HIDE DEF q
  <2>2. q = [pc |-> to, moment |-> p.moment, rows |-> left, seen |-> looked,
             tries |-> count, wrote |-> p.wrote, since |-> p.since,
             published |-> p.published, calm |-> p.calm, folded |-> p.folded]
    BY <1>1, <2>1 DEF IsPass
  <2> QED  BY <1>8, <2>2 DEF IsPass
<1> HIDE DEF q
<1>10. PassType(q)
  BY <1>1, <1>6, <1>7, <1>9 DEF PassType
<1>11. Held(q, stored)
  <2>1. /\ DOMAIN q.folded = {}
        /\ \A s \in DOMAIN q.rows : s < q.moment /\ s \notin DOMAIN q.wrote
        /\ \A s \in DOMAIN q.wrote : Follows(q.wrote[s], stored[s], s)
    BY <1>1, <1>2, <1>6, <1>8, <1>9 DEF Held
  <2>2. \A s \in DOMAIN q.rows :
             /\ q.seen[s] \in Nat /\ q.seen[s] <= Len(stored[s])
             /\ Follows([price |-> q.rows[s], at |-> q.moment], stored[s], s)
    BY <1>5, <1>6, <1>9
  <2> QED  BY <1>9, <1>10, <2>1, <2>2 DEF Held
<1>12. w = "live" => Kept(q) /\ Covered(q)
  BY <1>1, <1>2, <1>9, <1>11, KeptBy, NothingFolded DEF Held
<1>13. w = "collect" => DOMAIN q.folded = {}
  BY <1>9, <1>11 DEF Held
<1> QED  BY <1>1, <1>2, <1>3, <1>9, <1>11, <1>12, <1>13, OnePass, Counters

\* What is inserted was of a number that nobody has taken.
LEMMA InsertStep ==
    ASSUME LiveBarsAssumption, Consistent, NEW w \in Workers, Insert(w)
    PROVE  Consistent'
<1> DEFINE p == pass[w]
           new == {s \in DOMAIN p.rows : Len(Seen(w, s)) = p.seen[s]}
           row == [s \in new |-> [price |-> p.rows[s], at |-> p.moment]]
           wrote == [s \in DOMAIN p.wrote \cup new |-> IF s \in new THEN row[s] ELSE p.wrote[s]]
           rest == DOMAIN p.rows \ new
           left == Restrict(p.rows, rest)
           to == IF new = DOMAIN p.rows THEN "done" ELSE "select"
           count == IF new = DOMAIN p.rows THEN 0 ELSE p.tries
           q == [p EXCEPT !.pc = to, !.tries = count, !.wrote = wrote, !.rows = left,
                          !.seen = NoRows]
<1>1. /\ Held(p, stored) /\ IsPass(p) /\ PassType(p) /\ p.moment <= now
      /\ pass = [v \in Workers |-> pass[v]]
      /\ DOMAIN p.wrote \cap DOMAIN pass[Other(w)].wrote = {}
      /\ w = "live" => Kept(p)
  BY InFlight
<1>2. /\ p.pc = "insert" /\ new \cap DOMAIN pass[Other(w)].wrote = {}
      /\ UNCHANGED <<now, file, stored, candles, upsets, collects>>
  BY DEF Insert
<1>3. pass' = [pass EXCEPT ![w] = q]
  <2>1. pass' = [pass EXCEPT
              ![w].pc = to, ![w].tries = count, ![w].wrote = wrote, ![w].rows = left,
              ![w].seen = NoRows]
    BY <1>1 DEF Insert
  <2> HIDE DEF new, row, wrote, left, to, count
  <2> QED  BY <1>1, <2>1
<1>4. /\ p.rows \in Partial(Bars, Prices) /\ p.wrote \in Partial(Bars, Revisions)
      /\ p.moment \in Times /\ p.tries \in 0..MaxTries
      /\ DOMAIN p.rows \subseteq Bars /\ p.rows \in [DOMAIN p.rows -> Prices]
      /\ DOMAIN p.wrote \subseteq Bars /\ p.wrote \in [DOMAIN p.wrote -> Revisions]
  BY <1>1, PartialIs DEF PassType
<1>5. \A s \in new : /\ s \in DOMAIN p.rows /\ s \notin DOMAIN p.wrote /\ p.seen[s] = Len(stored[s])
                     /\ row[s] \in Revisions /\ Follows(row[s], stored[s], s)
  <2> SUFFICES ASSUME NEW s \in new
               PROVE  /\ s \in DOMAIN p.rows /\ s \notin DOMAIN p.wrote
                      /\ p.seen[s] = Len(stored[s])
                      /\ row[s] \in Revisions /\ Follows(row[s], stored[s], s)
    OBVIOUS
  <2>1. s \in DOMAIN p.rows /\ s \notin DOMAIN p.wrote
    BY <1>1 DEF Held
  <2>2. p.seen[s] = Len(stored[s])
    BY <2>1 DEF Seen
  <2>3. row[s] = [price |-> p.rows[s], at |-> p.moment]
    OBVIOUS
  <2>4. Follows([price |-> p.rows[s], at |-> p.moment], stored[s], s)
    BY <1>1, <1>2, <2>1, <2>2 DEF Held
  <2>5. [price |-> p.rows[s], at |-> p.moment] \in Revisions
    BY <1>4, <2>1 DEF Revisions
  <2> QED  BY <2>1, <2>2, <2>3, <2>4, <2>5
<1>6. left \in Partial(Bars, Prices) /\ DOMAIN left = rest /\ \A s \in rest : left[s] = p.rows[s]
  <2>1. rest \in SUBSET DOMAIN p.rows
    OBVIOUS
  <2> HIDE DEF rest
  <2> QED  BY <1>4, <2>1, RestrictIs
<1>7. /\ wrote \in Partial(Bars, Revisions) /\ DOMAIN wrote = DOMAIN p.wrote \cup new
      /\ \A s \in DOMAIN wrote : Follows(wrote[s], stored[s], s)
  <2>1. \A s \in DOMAIN p.wrote : Follows(p.wrote[s], stored[s], s) /\ p.wrote[s] \in Revisions
    BY <1>1, <1>4 DEF Held
  <2>2. new \subseteq DOMAIN p.rows
    OBVIOUS
  <2> HIDE DEF new, row
  <2>3. DOMAIN wrote = DOMAIN p.wrote \cup new
        /\ \A s \in DOMAIN wrote : wrote[s] = IF s \in new THEN row[s] ELSE p.wrote[s]
    OBVIOUS
  <2>4. \A s \in DOMAIN wrote : Follows(wrote[s], stored[s], s) /\ wrote[s] \in Revisions
    BY <1>5, <2>1, <2>3
  <2>5. DOMAIN wrote \in SUBSET Bars /\ wrote \in [DOMAIN wrote -> Revisions]
    BY <1>4, <2>2, <2>3, <2>4
  <2> HIDE DEF wrote
  <2>6. wrote \in Partial(Bars, Revisions)
    BY <2>5, PartialIs
  <2> QED  BY <2>3, <2>4, <2>6
<1>8. count \in 0..MaxTries /\ to \in {"done", "select"}
  <2>1. 0 \in 0..MaxTries
    BY DEF LiveBarsAssumption
  <2> HIDE DEF p, new
  <2> QED  BY <1>4, <2>1
<1>9. rest \subseteq DOMAIN p.rows /\ rest \cap new = {}
  OBVIOUS
<1> HIDE DEF p, new, row, wrote, rest, left, to, count
<1>10. /\ IsPass(q) /\ q.pc = to /\ q.moment = p.moment /\ q.rows = left
       /\ q.since = p.since /\ q.tries = count /\ q.wrote = wrote /\ q.folded = p.folded
  <2>1. q = [p EXCEPT !.pc = to, !.tries = count, !.wrote = wrote, !.rows = left,
                      !.seen = NoRows]
    OBVIOUS
  <2> HIDE DEF q
  <2>2. q = [pc |-> to, moment |-> p.moment, rows |-> left, seen |-> NoRows,
             tries |-> count, wrote |-> wrote, since |-> p.since,
             published |-> p.published, calm |-> p.calm, folded |-> p.folded]
    BY <1>1, <2>1 DEF IsPass
  <2> QED  BY <2>2 DEF IsPass
<1> HIDE DEF q
<1>11. PassType(q)
  BY <1>1, <1>6, <1>7, <1>8, <1>10 DEF PassType
<1>12. Held(q, stored)
  <2>1. DOMAIN q.folded = {}
    BY <1>1, <1>2, <1>10 DEF Held
  <2>2. \A s \in DOMAIN q.rows : s < q.moment /\ s \notin DOMAIN q.wrote
    BY <1>1, <1>6, <1>7, <1>9, <1>10 DEF Held
  <2>3. \A s \in DOMAIN q.wrote : Follows(q.wrote[s], stored[s], s)
    BY <1>7, <1>10
  <2>4. q.pc # "insert" /\ q.pc # "idle"
    BY <1>8, <1>10
  <2> QED  BY <1>10, <1>11, <2>1, <2>2, <2>3, <2>4 DEF Held
<1>13. w = "live" => Kept(q) /\ Covered(q)
  <2>1. DOMAIN q.folded = {}
    BY <1>1, <1>2, <1>10 DEF Held
  <2> QED  BY <1>1, <1>2, <1>10, <2>1, KeptBy, NothingFolded
<1>14. w = "collect" => DOMAIN q.folded = {}
  BY <1>1, <1>2, <1>10 DEF Held
<1>15. DOMAIN q.wrote \cap DOMAIN pass[Other(w)].wrote = {}
  BY <1>1, <1>2, <1>7, <1>10
<1> QED  BY <1>1, <1>2, <1>3, <1>10, <1>12, <1>13, <1>14, <1>15, OnePass, Counters

(***************************************************************************)
(* Committing                                                               *)
(***************************************************************************)

\* What a worker sees of a bar is in order, and a pass that commits leaves what
\* the other sees in order too: they have written different bars.
LEMMA CommitStep ==
    ASSUME LiveBarsAssumption, Consistent, NEW w \in Workers, Commit(w)
    PROVE  Consistent'
<1> DEFINE p == pass[w]
           o == Other(w)
<1>1. /\ Held(p, stored) /\ IsPass(p) /\ PassType(p) /\ p.moment <= now
      /\ p.moment \in Int /\ now \in Int
      /\ pass = [v \in Workers |-> pass[v]]
      /\ DOMAIN p.wrote \cap DOMAIN pass[o].wrote = {}
      /\ w = "live" => Kept(p) /\ Covered(p)
      /\ w = "collect" => DOMAIN p.folded = {}
  BY InFlight
<1>2. /\ stored' = [s \in Bars |-> Seen(w, s)]
      /\ candles' = [b \in Candles |-> IF b \in DOMAIN p.folded THEN p.folded[b] ELSE candles[b]]
      /\ pass' = [pass EXCEPT ![w] = Idle]
      /\ UNCHANGED <<now, file, upsets, collects>>
  BY DEF Commit
<1>3. /\ o \in Workers /\ o # w /\ \A v \in Workers : v = w \/ v = o
      /\ w \in {"live", "collect"} /\ o \in {"live", "collect"}
  BY TheOther DEF Workers
<1>4. pass'[w] = Idle /\ pass'[o] = pass[o] /\ pass' = [v \in Workers |-> pass'[v]]
  BY <1>1, <1>2, <1>3
<1>5. /\ stored \in [Bars -> Seq(Revisions)] /\ candles \in [Candles -> Partial(Bars, Prices)]
      /\ \A s \in Bars : InOrder(stored[s], s)
  BY DEF Consistent, Tables
<1>6. /\ DOMAIN p.wrote \subseteq Bars /\ p.wrote \in [DOMAIN p.wrote -> Revisions]
      /\ \A s \in DOMAIN p.wrote : Follows(p.wrote[s], stored[s], s)
  <2>1. p.wrote \in Partial(Bars, Revisions)
    BY <1>1 DEF PassType
  <2>2. \A s \in DOMAIN p.wrote : Follows(p.wrote[s], stored[s], s)
    BY <1>1 DEF Held
  <2> QED  BY <2>1, <2>2, PartialIs
<1>7. \A s \in Bars : stored'[s] = SeenBy(p, s)
  BY <1>2, SeenIs
<1>8. \A s \in Bars :
        /\ stored'[s] \in Seq(Revisions) /\ InOrder(stored'[s], s)
        /\ \A m : Known(stored[s], m) => Known(stored'[s], m)
        /\ s \notin DOMAIN p.wrote => stored'[s] = stored[s]
        /\ s \in DOMAIN p.wrote => Len(stored'[s]) = Len(stored[s]) + 1
        /\ Len(stored[s]) \in Nat
  <2> SUFFICES ASSUME NEW s \in Bars
               PROVE  /\ stored'[s] \in Seq(Revisions) /\ InOrder(stored'[s], s)
                      /\ \A m : Known(stored[s], m) => Known(stored'[s], m)
                      /\ s \notin DOMAIN p.wrote => stored'[s] = stored[s]
                      /\ s \in DOMAIN p.wrote => Len(stored'[s]) = Len(stored[s]) + 1
                      /\ Len(stored[s]) \in Nat
    OBVIOUS
  <2>1. stored[s] \in Seq(Revisions) /\ InOrder(stored[s], s) /\ Len(stored[s]) \in Nat
    BY <1>5, LenProperties
  <2>2. CASE s \notin DOMAIN p.wrote
    <3>1. stored'[s] = stored[s]
      BY <1>7, <2>2 DEF SeenBy
    <3> QED  BY <2>1, <2>2, <3>1
  <2>3. CASE s \in DOMAIN p.wrote
    <3>1. stored'[s] = Append(stored[s], p.wrote[s])
      BY <1>7, <2>3 DEF SeenBy
    <3>2. p.wrote[s] \in Revisions /\ Follows(p.wrote[s], stored[s], s)
      BY <1>6, <2>3
    <3>3. /\ Append(stored[s], p.wrote[s]) \in Seq(Revisions)
          /\ Len(Append(stored[s], p.wrote[s])) = Len(stored[s]) + 1
      BY <2>1, <3>2, AppendIs
    <3> QED  BY <2>1, <2>3, <3>1, <3>2, <3>3, Appended
  <2> QED  BY <2>2, <2>3
<1>9. \A b \in Candles : candles'[b] = IF b \in DOMAIN p.folded THEN p.folded[b] ELSE candles[b]
  BY <1>2
<1>10. Tables'
  <2>1. /\ DOMAIN p.folded \subseteq Candles
        /\ p.folded \in [DOMAIN p.folded -> Partial(Bars, Prices)]
    BY <1>1, PartialIs DEF PassType
  <2>2. \A b \in Candles : candles'[b] \in Partial(Bars, Prices)
    BY <1>5, <1>9, <2>1
  <2>3. candles' \in [Candles -> Partial(Bars, Prices)]
    BY <1>2, <1>9, <2>2
  <2>4. stored' \in [Bars -> Seq(Revisions)]
    BY <1>2, <1>8
  <2> QED  BY <1>8, <2>3, <2>4 DEF Tables
<1>11. Held(pass[o], stored')
  <2> DEFINE x == pass[o]
  <2>1. Held(x, stored) /\ PassType(x) /\ DOMAIN x.rows \subseteq Bars /\ DOMAIN x.wrote \subseteq Bars
    BY <1>3, InFlight, PartialIs DEF PassType
  <2>2. \A s \in DOMAIN x.wrote : Follows(x.wrote[s], stored'[s], s)
    <3>1. \A s \in DOMAIN x.wrote : s \in Bars /\ s \notin DOMAIN p.wrote
      BY <1>1, <2>1
    <3> QED  BY <1>8, <2>1, <3>1 DEF Held
  <2>3. ASSUME x.pc = "insert", NEW s \in DOMAIN x.rows
        PROVE  /\ x.seen[s] \in Nat /\ x.seen[s] <= Len(stored'[s])
               /\ x.seen[s] = Len(stored'[s]) =>
                     Follows([price |-> x.rows[s], at |-> x.moment], stored'[s], s)
    <3>1. /\ x.seen[s] \in Nat /\ x.seen[s] <= Len(stored[s])
          /\ x.seen[s] = Len(stored[s]) =>
                Follows([price |-> x.rows[s], at |-> x.moment], stored[s], s)
      BY <2>1, <2>3 DEF Held
    <3>2. s \in Bars
      BY <2>1
    <3>3. CASE s \notin DOMAIN p.wrote
      BY <1>8, <3>1, <3>2, <3>3
    <3>4. CASE s \in DOMAIN p.wrote
      <4>1. Len(stored'[s]) = Len(stored[s]) + 1 /\ Len(stored[s]) \in Nat
        BY <1>8, <3>2, <3>4
      <4> QED  BY <3>1, <4>1
    <3> QED  BY <3>3, <3>4
  <2> HIDE DEF x
  <2>4. Held(x, stored')
    BY <2>1, <2>2, <2>3 DEF Held
  <2> QED  BY <2>4 DEF x
<1>12. Passes'
  <2>1. Held(Idle, stored') /\ Idle.moment = 0 /\ 0 <= now
    <3>1. Held(Idle, stored')
      BY IdleHeld
    <3>2. 0 <= now
      BY DEF Consistent, Times, LiveBarsAssumption
    <3> QED  BY <3>1, <3>2 DEF Idle
  <2>2. \A v \in Workers : Held(pass'[v], stored') /\ pass'[v].moment <= now'
    <3>1. pass[o].moment <= now
      BY <1>3, InFlight
    <3> QED  BY <1>2, <1>3, <1>4, <1>11, <2>1, <3>1
  <2>3. DOMAIN pass'["live"].wrote \cap DOMAIN pass'["collect"].wrote = {}
    BY <1>3, <1>4, NoPass
  <2>4. DOMAIN pass'["collect"].folded = {}
    BY <1>3, <1>4, NoPass, InFlight
  <2> QED  BY <1>4, <2>2, <2>3, <2>4 DEF Passes
<1>13. CASE w = "live"
  <2>1. pass'["live"] = Idle
    BY <1>4, <1>13
  <2>2. ASSUME NEW b \in Candles, NEW s \in DOMAIN candles'[b]
        PROVE  s \in Bars /\ CandleOf(s) = b /\ s < now /\ Known(stored'[s], now)
    <3>1. CASE b \in DOMAIN p.folded
      <4>1. s \in DOMAIN p.folded[b]
        BY <1>9, <2>2, <3>1
      <4>2. s \in Bars /\ CandleOf(s) = b /\ s < p.moment /\ Known(SeenBy(p, s), p.moment)
        BY <1>1, <1>13, <3>1, <4>1 DEF Covered
      <4>3. Known(stored'[s], p.moment) /\ stored'[s] \in Seq(Revisions) /\ s \in Int
        BY <1>7, <1>8, <4>2 DEF Bars
      <4>4. Known(stored'[s], now)
        BY <1>1, <4>3, KnownLater
      <4>5. s < now
        <5>1. p.moment \in Int /\ now \in Int /\ p.moment <= now
          BY <1>1
        <5>2. s \in Int /\ s < p.moment
          BY <4>2, <4>3
        <5> QED  BY <5>1, <5>2
      <4> QED  BY <4>2, <4>4, <4>5
    <3>2. CASE b \notin DOMAIN p.folded
      <4>1. s \in DOMAIN candles[b]
        BY <1>9, <2>2, <3>2
      <4>2. s \in Bars /\ CandleOf(s) = b /\ s < now /\ Known(stored[s], now)
        BY <1>1, <1>13, <4>1 DEF Kept
      <4> QED  BY <1>8, <4>2
    <3> QED  BY <3>1, <3>2
  <2>3. Kept(pass["live"])'
    <3>1. pass'["live"].pc = "idle" /\ now' = now
      BY <1>2, <2>1, NoPass
    <3> QED  BY <2>2, <3>1 DEF Kept
  <2>4. Covered(pass["live"])'
    BY <2>1, NoPass DEF Covered
  <2> QED  BY <1>2, <1>10, <1>12, <2>3, <2>4 DEF Consistent, FileHeld
<1>14. CASE w = "collect"
  <2> DEFINE x == pass["live"]
  <2>1. pass'["live"] = x /\ o = "live"
    BY <1>3, <1>4, <1>14
  <2>2. \A b \in Candles : candles'[b] = candles[b]
    BY <1>1, <1>9, <1>14
  <2>3. Kept(x) /\ Covered(x) /\ DOMAIN x.folded \subseteq Candles
    <3>1. "live" \in Workers
      BY DEF Workers
    <3> QED  BY <3>1, InFlight, PartialIs DEF PassType
  <2> HIDE DEF x
  <2>4. Kept(pass["live"])'
    <3> SUFFICES ASSUME NEW b \in Candles, NEW s \in DOMAIN candles'[b]
                 PROVE  /\ s \in Bars /\ CandleOf(s) = b
                        /\ s < now /\ Known(stored'[s], now)
                        /\ x.pc # "idle" => s < x.moment /\ Known(stored'[s], x.moment)
      BY <1>2, <2>1 DEF Kept
    <3>1. /\ s \in Bars /\ CandleOf(s) = b /\ s < now /\ Known(stored[s], now)
          /\ x.pc # "idle" => s < x.moment /\ Known(stored[s], x.moment)
      BY <2>2, <2>3 DEF Kept
    <3> QED  BY <1>8, <3>1
  <2>5. ASSUME NEW b \in DOMAIN x.folded, NEW s \in DOMAIN x.folded[b]
        PROVE  /\ s \in Bars /\ CandleOf(s) = b /\ s < x.moment
               /\ Known(IF s \in DOMAIN x.wrote THEN Append(stored'[s], x.wrote[s])
                                              ELSE stored'[s], x.moment)
    <3>1. s \in Bars /\ CandleOf(s) = b /\ s < x.moment /\ Known(SeenBy(x, s), x.moment)
      BY <2>3, <2>5 DEF Covered
    <3>2. CASE s \in DOMAIN x.wrote
      <4>1. s \notin DOMAIN p.wrote
        BY <1>1, <2>1, <3>2 DEF x
      <4>2. stored'[s] = stored[s]
        BY <1>8, <3>1, <4>1
      <4> QED  BY <3>1, <3>2, <4>2 DEF SeenBy
    <3>3. CASE s \notin DOMAIN x.wrote
      <4>1. Known(stored[s], x.moment)
        BY <3>1, <3>3 DEF SeenBy
      <4> QED  BY <1>8, <3>1, <3>3, <4>1
    <3> QED  BY <3>2, <3>3
  <2>6. Covered(pass["live"])'
    <3>1. \A b \in DOMAIN x.folded :
             \/ DOMAIN candles'[b] \subseteq DOMAIN x.folded[b]
             \/ Opens(b) < x.moment - DeriveLookback
      BY <2>2, <2>3 DEF Covered
    <3> QED  BY <2>1, <2>5, <3>1 DEF Covered, SeenBy
  <2> QED  BY <1>2, <1>10, <1>12, <2>4, <2>6 DEF Consistent, FileHeld
<1> QED  BY <1>3, <1>13, <1>14

(***************************************************************************)
(* Deriving                                                                 *)
(***************************************************************************)

LEMMA Division ==
    ASSUME LiveBarsAssumption, NEW s \in Int
    PROVE  CandleOf(s) \in Int /\ Opens(CandleOf(s)) <= s /\ s < Opens(CandleOf(s)) + Bucket
  BY DEF CandleOf, Opens, LiveBarsAssumption

LEMMA OpensAt ==
    ASSUME LiveBarsAssumption, NEW c \in Int
    PROVE  CandleOf(Opens(c)) = c
<1>1. Bucket \in Nat \ {0} /\ Opens(c) \in Int
  BY DEF Opens, LiveBarsAssumption
<1> DEFINE d == CandleOf(Opens(c))
<1>2. d \in Int /\ Opens(d) <= Opens(c) /\ Opens(c) < Opens(d) + Bucket
  BY <1>1, Division
<1> HIDE DEF d
<1>3. d * Bucket <= c * Bucket /\ c * Bucket < d * Bucket + Bucket
  BY <1>2 DEF Opens
<1>4. ~(d >= c + 1)
  BY <1>1, <1>2, <1>3
<1>5. ~(c >= d + 1)
  BY <1>1, <1>2, <1>3
<1> QED  BY <1>2, <1>4, <1>5 DEF d

\* The bars are read from the lookback or from the opening of a candle on.
LEMMA StartIs ==
    ASSUME LiveBarsAssumption, NEW moment \in Int, NEW since \in Bars \cup {None}
    PROVE  \/ StartOf(moment, since) = moment - DeriveLookback
           \/ \E c \in Int : StartOf(moment, since) = Opens(c)
<1> DEFINE floor == moment - DeriveLookback
           newest == NewestCandle(floor)
           start == IF newest = None THEN floor
                    ELSE Max({floor, newest - RestateBuckets * Bucket})
<1>1. /\ Bucket \in Nat /\ RestateBuckets \in Nat /\ floor \in Int
      /\ DeriveLookback \in Nat /\ LastBar \in Nat
  BY DEF LiveBarsAssumption
<1>2. newest = None \/ \E c \in Int : newest = Opens(c)
  <2> DEFINE C == {c \in Candles : candles[c] # NoRows /\ c * Bucket >= floor}
             S == {c * Bucket : c \in C}
             opens == [c \in C |-> c * Bucket]
  <2>1. Candles \subseteq Int /\ IsFiniteSet(Candles)
    <3>1. LastBar \div Bucket \in Int
      BY <1>1 DEF LiveBarsAssumption
    <3> QED  BY <3>1, FS_Interval DEF Candles
  <2>2. C \in SUBSET Candles
    OBVIOUS
  <2>3. newest = MaxOf(S)
    BY DEF NewestCandle
  <2> HIDE DEF C
  <2>4. IsFiniteSet(C)
    BY <2>1, <2>2, FS_Subset
  <2>5. opens \in Surjection(C, S)
    BY DEF Surjection
  <2>6. S \in SUBSET Int
    BY <1>1, <2>1, <2>2
  <2>7. \A x \in S : \E c \in C : x = c * Bucket
    OBVIOUS
  <2> HIDE DEF S, opens, newest
  <2>8. IsFiniteSet(S)
    BY <2>4, <2>5, FS_Surjection
  <2>9. newest \in S \cup {None}
    BY <2>3, <2>6, <2>8, NewestOf
  <2> QED  BY <2>1, <2>2, <2>7, <2>9 DEF Opens
<1>3. start \in Int /\ (start = floor \/ \E c \in Int : start = Opens(c))
  <2>1. CASE newest = None
    BY <1>1, <2>1
  <2>2. CASE newest # None
    <3>1. PICK c \in Int : newest = Opens(c)
      BY <1>2, <2>2
    <3> DEFINE back == newest - RestateBuckets * Bucket
    <3>2. c - RestateBuckets \in Int /\ back = Opens(c - RestateBuckets)
      BY <1>1, <3>1 DEF Opens
    <3>3. back \in Int
      BY <1>1, <3>2 DEF Opens
    <3>4. start = Max({floor, back})
      BY <2>2
    <3> HIDE DEF back, floor, start
    <3>5. Max({floor, back}) \in {floor, back}
      BY <1>1, <3>3, OfTwo
    <3> QED  BY <1>1, <3>2, <3>3, <3>4, <3>5
  <2> QED  BY <2>1, <2>2
<1>4. CASE since = None
  <2>1. StartOf(moment, since) = start
    BY <1>4 DEF StartOf
  <2> QED  BY <1>3, <2>1
<1>5. CASE since # None
  <2> DEFINE opening == BucketStart(since)
             first == Min({start, opening})
  <2>1. since \in Int
    BY <1>1, <1>5 DEF Bars
  <2>2. CandleOf(since) \in Int /\ opening = Opens(CandleOf(since))
    BY <2>1, Division DEF BucketStart, CandleOf, Opens
  <2>3. opening \in Int
    BY <1>1, <2>2 DEF Opens
  <2>4. StartOf(moment, since) = Max({floor, first})
    BY <1>5 DEF StartOf
  <2> HIDE DEF floor, start, opening
  <2>5. first \in {start, opening}
    BY <1>3, <2>3, OfTwo
  <2> HIDE DEF first
  <2>6. Max({floor, first}) \in {floor, first}
    BY <1>1, <1>3, <2>3, <2>5, OfTwo
  <2> QED  BY <1>3, <2>2, <2>4, <2>5, <2>6 DEF floor
<1> QED  BY <1>4, <1>5

\* A candle that is built from there on is built from its first bar on, unless
\* it opened before the lookback.
LEMMA WholeCandle ==
    ASSUME LiveBarsAssumption, NEW moment \in Int, NEW since \in Bars \cup {None},
           NEW b \in Int, NEW s \in Int, CandleOf(s) = b,
           Opens(b) >= BucketStart(StartOf(moment, since)),
           ~(Opens(b) < moment - DeriveLookback)
    PROVE  StartOf(moment, since) <= s
<1> DEFINE start == StartOf(moment, since)
<1>1. Opens(b) <= s /\ Opens(b) \in Int /\ DeriveLookback \in Nat
  <2>1. Opens(b) \in Int /\ DeriveLookback \in Nat
    BY DEF Opens, LiveBarsAssumption
  <2> QED  BY <2>1, Division
<1>2. start = moment - DeriveLookback \/ \E c \in Int : start = Opens(c)
  BY StartIs
<1> HIDE DEF start
<1>3. CASE start = moment - DeriveLookback
  BY <1>1, <1>3 DEF start
<1>4. ASSUME NEW c \in Int, start = Opens(c)
      PROVE  start <= s
  <2>1. BucketStart(start) = Opens(CandleOf(Opens(c)))
    BY <1>4 DEF BucketStart, Opens, CandleOf
  <2>2. BucketStart(start) = start
    BY <1>4, <2>1, OpensAt
  <2>3. start \in Int
    BY <1>4 DEF Opens, LiveBarsAssumption
  <2> QED  BY <1>1, <2>2, <2>3 DEF start
<1> QED  BY <1>2, <1>3, <1>4 DEF start

LEMMA SeenInOrder ==
    ASSUME LiveBarsAssumption, Consistent, NEW w \in Workers, NEW s \in Bars
    PROVE  /\ SeenBy(pass[w], s) \in Seq(Revisions)
           /\ \A m : Known(stored[s], m) => Known(SeenBy(pass[w], s), m)
<1>1. stored[s] \in Seq(Revisions)
  BY DEF Consistent, Tables
<1>2. s \in DOMAIN pass[w].wrote => pass[w].wrote[s] \in Revisions
  <2>1. pass[w].wrote \in Partial(Bars, Revisions)
    BY InFlight DEF PassType
  <2> QED  BY <2>1, PartialIs
<1>3. CASE s \in DOMAIN pass[w].wrote
  BY <1>1, <1>2, <1>3, AppendIs, Appended DEF SeenBy
<1>4. CASE s \notin DOMAIN pass[w].wrote
  BY <1>1, <1>4 DEF SeenBy
<1> QED  BY <1>3, <1>4

\* The candles a pass folds are made of bars it sees, and have every part of
\* theirs that a candle on record had.
LEMMA FoldIs ==
    ASSUME LiveBarsAssumption, Consistent, pass["live"].pc # "idle",
           NEW since \in Bars \cup {None}
    PROVE  LET p == pass["live"]
               F == Fold([s \in Bars |-> Seen("live", s)], StartOf(p.moment, since), p.moment)
           IN  /\ F \in Partial(Candles, Partial(Bars, Prices))
               /\ \A b \in DOMAIN F :
                     /\ \A s \in DOMAIN F[b] : /\ s \in Bars /\ CandleOf(s) = b
                                               /\ s < p.moment /\ Known(SeenBy(p, s), p.moment)
                     /\ \/ DOMAIN candles[b] \subseteq DOMAIN F[b]
                        \/ Opens(b) < p.moment - DeriveLookback
<1> DEFINE p == pass["live"]
           mine == [s \in Bars |-> Seen("live", s)]
           moment == p.moment
           start == StartOf(moment, since)
           part == [b \in Candles |->
                      {s \in Bars : /\ CandleOf(s) = b /\ start <= s /\ s <= moment - 1
                                    /\ KnownAt(mine[s], moment) # {}}]
           built == {b \in Candles : /\ (b + 1) * Bucket <= moment
                                     /\ Cardinality(part[b]) >= MinParts
                                     /\ b * Bucket >= BucketStart(start)}
           price == [s \in Bars |-> mine[s][Max(KnownAt(mine[s], moment))].price]
           F == Fold(mine, start, moment)
<1>1. "live" \in Workers
  BY DEF Workers
<1>2. moment \in Int /\ Kept(p) /\ Bars \subseteq Int /\ Candles \subseteq Int
  <2>1. Bars \subseteq Int
    BY DEF Bars, LiveBarsAssumption
  <2>2. LastBar \div Bucket \in Int
    BY DEF LiveBarsAssumption
  <2>3. Candles \subseteq Int
    BY <2>2 DEF Candles
  <2> QED  BY <1>1, <2>1, <2>3, InFlight
<1>3. F = [b \in built |-> [s \in part[b] |-> price[s]]]
  BY DEF Fold, CandleOf
<1>4. \A s \in Bars : mine[s] = SeenBy(p, s) /\ mine[s] \in Seq(Revisions)
  BY <1>1, SeenIs, SeenInOrder
<1>5. ASSUME NEW s \in Bars
      PROVE  /\ KnownAt(mine[s], moment) # {} <=> Known(SeenBy(p, s), moment)
             /\ KnownAt(mine[s], moment) # {} => price[s] \in Prices
  <2> DEFINE revs == mine[s]
             K == KnownAt(revs, moment)
             k == Max(K)
  <2>1. revs = SeenBy(p, s) /\ revs \in Seq(Revisions) /\ price[s] = revs[k].price
    BY <1>4
  <2>2. Len(revs) \in Nat /\ DOMAIN revs = 1..Len(revs)
        /\ \A i \in 1..Len(revs) : revs[i] \in Revisions
    BY <2>1, LenProperties
  <2>3. K \in SUBSET (1..Len(revs)) /\ (K # {} <=> Known(revs, moment))
    <3>1. K = {i \in DOMAIN revs : revs[i].at <= moment}
      BY DEF KnownAt
    <3> HIDE DEF K, revs, moment
    <3> QED  BY <2>2, <3>1 DEF Known
  <2> HIDE DEF mine, K, revs
  <2>4. IsFiniteSet(1..Len(revs)) /\ K \in SUBSET Int
    <3>1. 1 \in Int /\ Len(revs) \in Int /\ 1..Len(revs) \subseteq Int
      BY <2>2
    <3> QED  BY <2>3, <3>1, FS_Interval
  <2>5. IsFiniteSet(K)
    BY <2>3, <2>4, FS_Subset
  <2>6. K # {} => k \in K
    BY <2>4, <2>5, MinMax
  <2>7. K # {} => revs[k].price \in Prices
    BY <2>2, <2>3, <2>6 DEF Revisions
  <2> QED  BY <2>1, <2>3, <2>7 DEF K, revs
<1>6. \A b \in Candles : part[b] \in SUBSET Bars
      /\ \A s \in part[b] : /\ CandleOf(s) = b /\ s <= moment - 1
                            /\ price[s] \in Prices /\ Known(SeenBy(p, s), moment)
  <2> HIDE DEF mine, moment, start, price, p
  <2> QED  BY <1>5
<1>7. ASSUME NEW b \in built, NEW s \in DOMAIN candles[b], ~(Opens(b) < moment - DeriveLookback)
      PROVE  s \in part[b]
  <2>1. b \in Candles /\ Opens(b) >= BucketStart(start)
    BY DEF Opens
  <2>2. /\ s \in Bars /\ CandleOf(s) = b /\ s < moment /\ Known(stored[s], moment)
    BY <1>2, <2>1 DEF Kept
  <2>3. start <= s
    <3> HIDE DEF moment, p
    <3> QED  BY <1>2, <1>7, <2>1, <2>2, WholeCandle
  <2>4. KnownAt(mine[s], moment) # {}
    <3>1. Known(stored[s], moment) => Known(SeenBy(p, s), moment)
      BY <1>1, <2>2, SeenInOrder
    <3>2. KnownAt(mine[s], moment) # {} <=> Known(SeenBy(p, s), moment)
      BY <1>5, <2>2
    <3> HIDE DEF mine, moment, p
    <3> QED  BY <2>2, <3>1, <3>2
  <2>5. s <= moment - 1
    <3>1. s \in Int /\ moment \in Int /\ s < moment
      BY <1>2, <2>2
    <3> HIDE DEF moment
    <3> QED  BY <3>1
  <2> HIDE DEF mine, moment, start, p
  <2> QED  BY <2>1, <2>2, <2>3, <2>4, <2>5
<1>8. built \in SUBSET Candles
  OBVIOUS
<1> HIDE DEF mine, moment, start, part, built, price, F
<1>9. DOMAIN F = built /\ \A b \in built : F[b] = [s \in part[b] |-> price[s]]
  BY <1>3
<1>10. \A b \in built : F[b] \in Partial(Bars, Prices) /\ DOMAIN F[b] = part[b]
  <2> SUFFICES ASSUME NEW b \in built
               PROVE  F[b] \in Partial(Bars, Prices) /\ DOMAIN F[b] = part[b]
    OBVIOUS
  <2>1. F[b] = [s \in part[b] |-> price[s]] /\ part[b] \in SUBSET Bars
        /\ \A s \in part[b] : price[s] \in Prices
    BY <1>6, <1>8, <1>9
  <2>2. F[b] \in [part[b] -> Prices]
    BY <2>1
  <2> QED  BY <2>1, <2>2, PartialIs
<1>11. F \in Partial(Candles, Partial(Bars, Prices))
  <2>1. F \in [built -> Partial(Bars, Prices)]
    BY <1>3, <1>9, <1>10
  <2> QED  BY <1>8, <2>1, PartialIs
<1>12. ASSUME NEW b \in DOMAIN F
       PROVE  /\ \A s \in DOMAIN F[b] : /\ s \in Bars /\ CandleOf(s) = b
                                        /\ s < moment /\ Known(SeenBy(p, s), moment)
              /\ \/ DOMAIN candles[b] \subseteq DOMAIN F[b]
                 \/ Opens(b) < moment - DeriveLookback
  <2>1. b \in built /\ b \in Candles /\ DOMAIN F[b] = part[b]
    BY <1>8, <1>9, <1>10
  <2>2. \A s \in part[b] : s \in Bars /\ s \in Int /\ CandleOf(s) = b /\ s <= moment - 1
                           /\ Known(SeenBy(p, s), moment)
    BY <1>2, <1>6, <2>1
  <2>3. \A s \in part[b] : s < moment
    BY <1>2, <2>2
  <2> QED  BY <1>7, <2>1, <2>2, <2>3
<1> QED  BY <1>11, <1>12 DEF F, mine, start, moment

LEMMA Derives ==
    ASSUME LiveBarsAssumption, Consistent, Derive \/ DeriveFails
    PROVE  Consistent'
<1> DEFINE p == pass["live"]
           mine == [s \in Bars |-> Seen("live", s)]
           F == Fold(mine, StartOf(p.moment, p.since), p.moment)
<1>1. "live" \in Workers
  BY DEF Workers
<1>2. /\ Held(p, stored) /\ IsPass(p) /\ PassType(p) /\ p.moment <= now
      /\ pass = [v \in Workers |-> pass[v]]
      /\ DOMAIN p.wrote \cap DOMAIN pass[Other("live")].wrote = {}
      /\ Kept(p) /\ Covered(p)
  BY <1>1, InFlight
<1>3. p.pc \in {"done", "failed"} /\ UNCHANGED <<now, file, stored, candles, collects>>
      /\ (Upset \/ UNCHANGED upsets)
  BY DEF Derive, DeriveFails, Deriving
<1>4. \/ pass' = [pass EXCEPT !["live"].pc = "commit", !["live"].folded = F]
      \/ pass' = [pass EXCEPT !["live"].pc = "commit"]
  <2> DEFINE r == [p EXCEPT !.published = Published(p)]
  <2>1. r.moment = p.moment /\ r.since = p.since
    BY <1>2 DEF IsPass
  <2>2. Derive => \/ pass' = [pass EXCEPT !["live"].pc = "commit",
                        !["live"].folded = Fold(mine, StartOf(r.moment, r.since), r.moment)]
                  \/ pass' = [pass EXCEPT !["live"].pc = "commit"]
    BY DEF Derive
  <2> HIDE DEF r
  <2> QED  BY <2>1, <2>2 DEF DeriveFails
<1>5. /\ F \in Partial(Candles, Partial(Bars, Prices))
      /\ \A b \in DOMAIN F :
            /\ \A s \in DOMAIN F[b] : /\ s \in Bars /\ CandleOf(s) = b
                                      /\ s < p.moment /\ Known(SeenBy(p, s), p.moment)
            /\ \/ DOMAIN candles[b] \subseteq DOMAIN F[b]
               \/ Opens(b) < p.moment - DeriveLookback
  <2>1. p.pc # "idle" /\ p.since \in Bars \cup {None}
    BY <1>2, <1>3 DEF PassType
  <2> QED  BY <2>1, FoldIs
<1> HIDE DEF F
<1>6. PICK q : /\ pass' = [pass EXCEPT !["live"] = q]
               /\ \/ q = [p EXCEPT !.pc = "commit", !.folded = F]
                  \/ q = [p EXCEPT !.pc = "commit"]
  <2>1. CASE pass' = [pass EXCEPT !["live"].pc = "commit", !["live"].folded = F]
    <3>1. pass' = [pass EXCEPT !["live"] = [p EXCEPT !.pc = "commit", !.folded = F]]
      BY <1>1, <1>2, <2>1
    <3> QED  BY <3>1
  <2>2. CASE pass' = [pass EXCEPT !["live"].pc = "commit"]
    <3>1. pass' = [pass EXCEPT !["live"] = [p EXCEPT !.pc = "commit"]]
      BY <1>1, <1>2, <2>2
    <3> QED  BY <3>1
  <2> QED  BY <1>4, <2>1, <2>2
<1> HIDE DEF p
<1>7. /\ IsPass(q) /\ q.pc = "commit" /\ q.moment = p.moment /\ q.rows = p.rows
      /\ q.tries = p.tries /\ q.wrote = p.wrote /\ q.since = p.since
      /\ q.folded = F \/ q.folded = p.folded
  BY <1>2, <1>6 DEF IsPass
<1>8. PassType(q)
  BY <1>2, <1>5, <1>7 DEF PassType
<1>9. Held(q, stored)
  BY <1>2, <1>7, <1>8 DEF Held
<1>10. Kept(q)
  BY <1>2, <1>3, <1>7, KeptBy
<1>11. Covered(q)
  <2>1. \A s : SeenBy(q, s) = SeenBy(p, s)
    BY <1>7 DEF SeenBy
  <2>2. CASE q.folded = F
    BY <1>5, <1>7, <2>1, <2>2 DEF Covered
  <2>3. CASE q.folded = p.folded
    BY <1>2, <1>7, <2>1, <2>3 DEF Covered
  <2> QED  BY <1>7, <2>2, <2>3
<1>12. /\ q.moment <= now /\ DOMAIN q.wrote \cap DOMAIN pass[Other("live")].wrote = {}
       /\ collects' \in 0..MaxCollects /\ upsets' \in 0..MaxUpsets /\ upsets <= upsets'
  BY <1>2, <1>3, <1>7, Counters
<1> QED  BY <1>1, <1>3, <1>6, <1>9, <1>10, <1>11, <1>12, OnePass

(***************************************************************************)
(* Every step                                                               *)
(***************************************************************************)

LEMMA ConsistentStep == LiveBarsAssumption /\ Consistent /\ [Next]_vars => Consistent'
<1> SUFFICES ASSUME LiveBarsAssumption, Consistent, [Next]_vars
             PROVE  Consistent'
  OBVIOUS
<1>1. CASE Tick \/ \E s \in Bars : ComeLate(s) \/ Restate(s)
  BY <1>1, TerminalSteps
<1>2. ASSUME NEW w \in Workers, PassStep(w)
      PROVE  Consistent'
  <2>1. CASE IngestFails(w)
    <3> DEFINE q == IF w = "collect" THEN Idle
                    ELSE [Idle EXCEPT !.pc = "failed", !.moment = pass[w].moment]
    <3>1. pass' = [pass EXCEPT ![w] = q] /\ UNCHANGED <<now, file, stored, candles, collects>>
          /\ (Upset \/ UNCHANGED upsets)
      BY <2>1 DEF IngestFails
    <3>2. q = Idle \/ q = [Idle EXCEPT !.pc = "failed", !.moment = pass[w].moment]
      OBVIOUS
    <3>3. pass[w].pc # "idle"
      BY <2>1 DEF IngestFails, Raises
    <3> HIDE DEF q
    <3> QED  BY <3>1, <3>2, <3>3, EndedStep
  <2> QED  BY <1>2, <2>1, BeginStep, SelectStep, InsertStep, CommitStep DEF PassStep
<1>3. CASE Derive \/ DeriveFails
  BY <1>3, Derives
<1>4. CASE MemoryAges \/ UNCHANGED vars
  <2>1. UNCHANGED <<now, file, stored, candles, pass, upsets, collects>>
    BY <1>4 DEF MemoryAges, vars
  <2>2. Kept(pass["live"])' /\ Covered(pass["live"])'
    BY <2>1 DEF Consistent, Kept, Covered, SeenBy
  <2> QED  BY <2>1, <2>2 DEF Consistent, FileHeld, Tables, Passes
<1>5. CASE Restart
  <2>1. "live" \in Workers
    BY DEF Workers
  <2> QED  BY <1>5, <2>1, EndedStep DEF Restart
<1>6. ASSUME NEW w \in Workers, CommitFails(w)
      PROVE  Consistent'
  BY <1>6, EndedStep DEF CommitFails
<1>7. "live" \in Workers /\ "collect" \in Workers
  BY DEF Workers
<1> QED  BY <1>1, <1>2, <1>3, <1>4, <1>5, <1>6, <1>7 DEF Next, LiveStep

LEMMA AlwaysConsistent == Spec => []Consistent
<1>1. Init => Consistent
  BY LiveBarsAssumption, ConsistentInit
<1>2. Consistent /\ [Next]_vars => Consistent'
  BY LiveBarsAssumption, ConsistentStep
<1> QED  BY <1>1, <1>2, PTL DEF Spec

(***************************************************************************)
(* Theorems                                                                 *)
(***************************************************************************)

\* Every variable has its shape, the file is no longer than the expert writes
\* it, and a worker between passes holds nothing.
THEOREM Types == Spec => []TypeOK
<1>1. Consistent => TypeOK
  <2> SUFFICES ASSUME Consistent
               PROVE  TypeOK
    OBVIOUS
  <2>1. \A s \in Bars : \A k \in DOMAIN stored[s] : stored[s][k] \in Revisions
    <3>1. \A s \in Bars : stored[s] \in Seq(Revisions)
      BY DEF Consistent, Tables
    <3> QED  BY <3>1, LenProperties
  <2>2. ASSUME NEW w \in Workers
        PROVE  /\ pass[w].pc \in {"idle", "select", "insert", "done", "failed", "commit"}
               /\ pass[w].pc = "idle" => [pass[w] EXCEPT !.calm = FALSE] = Idle
               /\ pass[w].tries \in 0..MaxTries
               /\ pass[w].rows \in Partial(Bars, Prices)
               /\ DOMAIN pass[w].wrote \subseteq Bars
    <3> DEFINE p == pass[w]
    <3>1. Held(p, stored) /\ IsPass(p) /\ PassType(p)
      BY LiveBarsAssumption, InFlight
    <3>2. DOMAIN p.wrote \subseteq Bars
      BY <3>1, PartialIs DEF PassType
    <3> HIDE DEF p
    <3>3. ASSUME p.pc = "idle"
          PROVE  [p EXCEPT !.calm = FALSE] = Idle
      <4>1. PICK c : p = [pc |-> "idle", moment |-> 0, rows |-> NoRows, seen |-> NoRows,
                          tries |-> 0, wrote |-> NoRows, since |-> None,
                          published |-> None, calm |-> c, folded |-> NoRows]
        BY <3>1, <3>3 DEF IsPass, Held, Blank
      <4> DEFINE calm == FALSE
                 q == [p EXCEPT !.calm = calm]
      <4>2. q = [p EXCEPT !.calm = calm]
        OBVIOUS
      <4> HIDE DEF calm, q
      <4>3. q = [pc |-> "idle", moment |-> 0, rows |-> NoRows, seen |-> NoRows, tries |-> 0,
                 wrote |-> NoRows, since |-> None, published |-> None, calm |-> calm,
                 folded |-> NoRows]
        BY <4>1, <4>2
      <4>4. q = Idle
        BY <4>3 DEF Idle, calm
      <4> QED  BY <4>4 DEF q, calm
    <3> QED  BY <3>1, <3>2, <3>3 DEF PassType, p
  <2> QED  BY <2>1, <2>2 DEF TypeOK, Consistent, FileHeld, Tables
<1> QED  BY <1>1, AlwaysConsistent, PTL

\* Whatever the two workers write of one bar, and however their transactions
\* overlap, its revisions are changes learnt in order, and none was taken
\* before the bar had closed (append_only_bars, ingest).
THEOREM InOrderAlways == Spec => []KnowledgeInOrder
<1>1. Consistent => KnowledgeInOrder
  BY DEF Consistent, Tables, InOrder, KnowledgeInOrder
<1> QED  BY <1>1, AlwaysConsistent, PTL

\* A candle that is built again has every part it had, except the one the
\* lookback of the pass cuts in two (derive, the live pass).
THEOREM CandlesKeepTheirParts == Spec => CandlesOnlyGrow
<1>1. Consistent /\ [Next]_vars =>
        \A b \in Candles : \/ DOMAIN candles[b] \subseteq DOMAIN candles'[b]
                           \/ b * Bucket < pass["live"].moment - DeriveLookback
  <2> SUFFICES ASSUME Consistent, [Next]_vars, NEW b \in Candles
               PROVE  \/ DOMAIN candles[b] \subseteq DOMAIN candles'[b]
                      \/ b * Bucket < pass["live"].moment - DeriveLookback
    OBVIOUS
  <2>1. CASE candles' = candles
    BY <2>1
  <2>2. ASSUME NEW w \in Workers, Commit(w)
        PROVE  \/ DOMAIN candles[b] \subseteq DOMAIN candles'[b]
               \/ b * Bucket < pass["live"].moment - DeriveLookback
    <3> DEFINE p == pass[w]
    <3>1. candles'[b] = IF b \in DOMAIN p.folded THEN p.folded[b] ELSE candles[b]
      BY <2>2 DEF Commit
    <3>2. w \in {"live", "collect"}
      BY DEF Workers
    <3>3. CASE w = "live"
      <4>1. Covered(p) /\ p = pass["live"]
        BY LiveBarsAssumption, <3>3, InFlight
      <4> HIDE DEF p
      <4>2. CASE b \in DOMAIN p.folded
        BY <3>1, <4>1, <4>2 DEF Covered, Opens
      <4>3. CASE b \notin DOMAIN p.folded
        BY <3>1, <4>3
      <4> QED  BY <4>2, <4>3
    <3>4. CASE w = "collect"
      BY LiveBarsAssumption, <3>1, <3>4, InFlight
    <3> QED  BY <3>2, <3>3, <3>4
  <2>3. candles' = candles \/ \E w \in Workers : Commit(w)
    <3>1. CASE Tick \/ (\E s \in Bars : ComeLate(s) \/ Restate(s)) \/ MemoryAges
               \/ Derive \/ DeriveFails \/ Restart \/ UNCHANGED vars
               \/ \E w \in Workers : CommitFails(w)
      BY <3>1 DEF Tick, ComeLate, Restate, MemoryAges, Derive, DeriveFails, Restart,
                  CommitFails, vars
    <3>2. ASSUME NEW w \in Workers, PassStep(w), ~Commit(w)
          PROVE  candles' = candles
      BY <3>2 DEF PassStep, Begin, Select, Insert, IngestFails
    <3>3. "live" \in Workers /\ "collect" \in Workers
      BY DEF Workers
    <3> QED  BY <3>1, <3>2, <3>3 DEF Next, LiveStep
  <2> QED  BY <2>1, <2>2, <2>3
<1> QED  BY <1>1, AlwaysConsistent, PTL DEF Spec, CandlesOnlyGrow
=============================================================================
