----------------------------- MODULE OrderPath -----------------------------
(***************************************************************************)
(* The path of an order, from a journal decision to a deal at the broker.  *)
(*                                                                         *)
(*  - a pass: one `send_orders` thread of the collector, which walks the   *)
(*    accounts (`autotrade.run_all_accounts`) and, for each, the decisions *)
(*    that still owe it an order (`autotrade.run_cycle`);                  *)
(*  - the journal: `JournalEntry.during["orders"][login]`, the record that *)
(*    makes a decision spendable once per account;                         *)
(*  - the bridge directory: request, claim and result files                *)
(*    (`MetaTraderBroker`), with writes that are not atomic;               *)
(*  - the expert on the terminal (`MolidoBridge.mq5`), which claims each   *)
(*    request by renaming it, sends it and answers it, and may die         *)
(*    between any two of those steps.                                      *)
(*                                                                         *)
(* Prices, sizes and the reasons of refusals are left out: every gate of   *)
(* `run_cycle` that reads them may refuse (or not) in any state.           *)
(***************************************************************************)
EXTENDS Naturals, FiniteSets

CONSTANTS
    Accounts,     \* keys of bridge_dirs(), visited in sorted order
    Decisions,    \* journal entries, in the order of opened_at
    Intents,      \* OrderIntent.intent_id, fresh uuids: bounds the orders sent
    Workers,      \* threads that may run send_orders
    Symbols,
    Symbol,       \* Symbol[d]: the instrument the rule ranked
    TradedAs,     \* TradedAs[d]: the instrument the order is sent as
    MaxOpen,      \* the open-position cap
    JobTimeouts,  \* whether a collect job may exceed its job_timeout
    Paper,        \* whether autopilot.mode_now answers paper
    NoIntent

ASSUME NumberingAssumption ==
    /\ Accounts \subseteq Nat \ {0}
    /\ Decisions \subseteq Nat \ {0}

ASSUME IntentAssumption ==
    /\ IsFiniteSet(Intents)
    /\ NoIntent \notin Intents

ASSUME SymbolAssumption ==
    /\ Symbol \in [Decisions -> Symbols]
    /\ TradedAs \in [Decisions -> Symbols]
    /\ MaxOpen \in Nat
    /\ JobTimeouts \in BOOLEAN
    /\ Paper \in BOOLEAN

VARIABLES
    \* The journal.
    recorded,   \* decisions the forward recorder has written
    order,      \* order[k]: the state written for a <<login, decision>>
    stamp,      \* stamp[k]: the intent_id written beside it
    owner,      \* owner[i]: the <<login, decision>> intent i was made for
    \* What humans switch.
    killed, paused,
    \* The passes.
    pc, todo, acct, cand, held, room, sent, job, abandoned, spoiled,
    \* The bridge directories.
    request, body, answer,
    \* The terminals.
    expert, task, listing, reply, published, usable,
    \* The broker.
    deal

journalVars  == <<recorded, order, stamp, owner>>
switchVars   == <<killed, paused>>
passVars     == <<pc, todo, acct, cand, held, room, sent, job, abandoned,
                  spoiled>>
bridgeVars   == <<request, body, answer>>
terminalVars == <<expert, task, listing, reply, published, usable>>

vars == <<journalVars, switchVars, passVars, bridgeVars, terminalVars, deal>>

----------------------------------------------------------------------------
Keys     == Accounts \X Decisions
NoOwner  == <<0, 0>>

\* The states `during["orders"][login]["state"]` takes. "never_sent" is the
\* rejection whose reason says the request could not be written.
OrderStates ==
    {"none", "submitting", "filled", "rejected", "never_sent", "unknown"}

\* Where a pass stands.
PassStates == {"idle", "accounts", "loop", "marked", "writing", "waiting"}

\* A pass holds an intent from the record that says "submitting" until the
\* record that says what became of it.
Sending == {"marked", "writing", "waiting"}

First(x, S) == x \in S /\ \A y \in S : x <= y

AccountOf(i) == owner[i][1]

\* Slip: an order that timed out, or was refused, is tried again.
NeedsAnOrderAfterTimeout(k) == order[k] \in {"none", "never_sent", "unknown"}
NeedsAnOrderAfterRefusal(k) == order[k] \in {"none", "never_sent", "rejected"}

\* `_needs_an_order`: a decision with no order for this account, or one whose
\* request was never written.
NeedsAnOrder(k) == order[k] \in {"none", "never_sent"}

\* What a terminal publishes: its open positions and their symbols.
OpenAt(a)      == {i \in Intents : deal[i] = "open" /\ AccountOf(i) = a}
HeldSymbols(S) == {TradedAs[owner[i][2]] : i \in S}

\* What run_all_accounts and run_cycle ask of an account before its decisions.
GatesOpen(a) ==
    /\ a \notin paused
    /\ ~killed
    /\ usable[a]
    /\ Cardinality(published[a]) < MaxOpen

\* run_cycle's `sender`: in paper mode, the broker it was given if it was
\* given one, and run_all_accounts always gives it the account's bridge.
BrokerIsGiven == TRUE
SendsToBridge == BrokerIsGiven \/ ~Paper

\* No collect job is running: its thread is idle, or has outlived its job.
NoJobRunning == \A w \in Workers : pc[w] = "idle" \/ w \in abandoned

----------------------------------------------------------------------------
TypeOK ==
    /\ recorded \subseteq Decisions
    /\ order \in [Keys -> OrderStates]
    /\ stamp \in [Keys -> Intents \cup {NoIntent}]
    /\ owner \in [Intents -> Keys \cup {NoOwner}]
    /\ killed \in BOOLEAN
    /\ paused \subseteq Accounts
    /\ pc \in [Workers -> PassStates]
    /\ todo \in [Workers -> SUBSET Accounts]
    /\ acct \in [Workers -> Accounts \cup {0}]
    /\ cand \in [Workers -> SUBSET Decisions]
    /\ held \in [Workers -> SUBSET Symbols]
    /\ room \in [Workers -> Nat]
    /\ sent \in [Workers -> SUBSET Decisions]
    /\ job \in [Workers -> Intents \cup {NoIntent}]
    /\ abandoned \subseteq Workers
    /\ spoiled \subseteq Workers
    /\ request \in [Intents -> {"none", "waiting", "claimed"}]
    /\ body \in [Intents -> BOOLEAN]
    /\ answer \in [Intents -> {"none", "ok", "refused"}]
    /\ expert \in [Accounts -> {"off", "idle", "scanning", "claimed", "sent"}]
    /\ task \in [Accounts -> Intents \cup {NoIntent}]
    /\ listing \in [Accounts -> SUBSET Intents]
    /\ reply \in [Accounts -> {"none", "ok", "refused"}]
    /\ published \in [Accounts -> SUBSET Intents]
    /\ usable \in [Accounts -> BOOLEAN]
    /\ deal \in [Intents -> {"none", "open", "closed"}]

Init ==
    /\ recorded = {}
    /\ order = [k \in Keys |-> "none"]
    /\ stamp = [k \in Keys |-> NoIntent]
    /\ owner = [i \in Intents |-> NoOwner]
    /\ killed = TRUE \* a switch nobody has released is engaged
    /\ paused = {}
    /\ pc = [w \in Workers |-> "idle"]
    /\ todo = [w \in Workers |-> {}]
    /\ acct = [w \in Workers |-> 0]
    /\ cand = [w \in Workers |-> {}]
    /\ held = [w \in Workers |-> {}]
    /\ room = [w \in Workers |-> 0]
    /\ sent = [w \in Workers |-> {}]
    /\ job = [w \in Workers |-> NoIntent]
    /\ abandoned = {}
    /\ spoiled = {}
    /\ request = [i \in Intents |-> "none"]
    /\ body = [i \in Intents |-> FALSE]
    /\ answer = [i \in Intents |-> "none"]
    /\ expert = [a \in Accounts |-> "off"]
    /\ task = [a \in Accounts |-> NoIntent]
    /\ listing = [a \in Accounts |-> {}]
    /\ reply = [a \in Accounts |-> "none"]
    /\ published = [a \in Accounts |-> {}]
    /\ usable = [a \in Accounts |-> FALSE]
    /\ deal = [i \in Intents |-> "none"]

----------------------------------------------------------------------------
(* The journal's other writer, and the humans.                             *)

\* The forward recorder writes a decision.
RecordDecision(d) ==
    /\ d \notin recorded
    /\ recorded' = recorded \cup {d}
    /\ UNCHANGED <<order, stamp, owner, switchVars, passVars, bridgeVars,
                   terminalVars, deal>>

\* `python -m app.execution.killswitch engage | release`, on the host.
MoveKillSwitch ==
    /\ killed' = ~killed
    /\ UNCHANGED <<journalVars, paused, passVars, bridgeVars, terminalVars,
                   deal>>

\* The owner pauses or resumes one account.
MoveAccountSwitch(a) ==
    /\ paused' = IF a \in paused THEN paused \ {a} ELSE paused \cup {a}
    /\ UNCHANGED <<journalVars, killed, passVars, bridgeVars, terminalVars,
                   deal>>

----------------------------------------------------------------------------
(* The pass.                                                               *)

\* The collector reaches send_orders; run_all_accounts lists the bridges.
StartPass(w) ==
    /\ pc[w] = "idle"
    /\ NoJobRunning
    /\ pc' = [pc EXCEPT ![w] = "accounts"]
    /\ todo' = [todo EXCEPT ![w] = Accounts]
    /\ UNCHANGED <<acct, cand, held, room, sent, job, abandoned, spoiled,
                   journalVars, switchVars, bridgeVars, terminalVars, deal>>

\* The job exceeds job_timeout: arq cancels the coroutine, and the thread
\* that asyncio.to_thread started runs on.
JobTimesOut(w) ==
    /\ JobTimeouts
    /\ pc[w] # "idle"
    /\ w \notin abandoned
    /\ abandoned' = abandoned \cup {w}
    /\ UNCHANGED <<pc, todo, acct, cand, held, room, sent, job, spoiled,
                   journalVars, switchVars, bridgeVars, terminalVars, deal>>

\* An account is paused, or a gate of run_cycle before the loop refuses: the
\* kill switch, the mode, the account, the book, the risk brain, the
\* authorization, the rulebook, the weekend, the open risk, the cap. Or one
\* of them raises, and a database error spoils the session of the whole pass.
SkipAccount(w, a) ==
    /\ pc[w] = "accounts"
    /\ First(a, todo[w])
    /\ todo' = [todo EXCEPT ![w] = @ \ {a}]
    /\ spoiled' \in {spoiled, spoiled \cup {w}}
    /\ UNCHANGED <<pc, acct, cand, held, room, sent, job, abandoned,
                   journalVars, switchVars, bridgeVars, terminalVars, deal>>

\* Slip: the kill switch lives in a per-request object and is never asked.
BeginAccountUnswitched(w, a) ==
    /\ pc[w] = "accounts"
    /\ First(a, todo[w])
    /\ w \notin spoiled
    /\ a \notin paused
    /\ usable[a]
    /\ Cardinality(published[a]) < MaxOpen
    /\ pc' = [pc EXCEPT ![w] = "loop"]
    /\ todo' = [todo EXCEPT ![w] = @ \ {a}]
    /\ acct' = [acct EXCEPT ![w] = a]
    /\ held' = [held EXCEPT ![w] = HeldSymbols(published[a])]
    /\ room' = [room EXCEPT ![w] = MaxOpen - Cardinality(published[a])]
    /\ cand' = [cand EXCEPT ![w] = {d \in recorded : NeedsAnOrder(<<a, d>>)}]
    /\ UNCHANGED <<sent, job, abandoned, spoiled, journalVars, switchVars,
                   bridgeVars, terminalVars, deal>>

\* Every gate passes. The switches, the book and the candidates are read
\* here, once for the account, and not again before its pass ends.
BeginAccount(w, a) ==
    /\ pc[w] = "accounts"
    /\ First(a, todo[w])
    /\ w \notin spoiled
    /\ GatesOpen(a)
    /\ pc' = [pc EXCEPT ![w] = "loop"]
    /\ todo' = [todo EXCEPT ![w] = @ \ {a}]
    /\ acct' = [acct EXCEPT ![w] = a]
    /\ held' = [held EXCEPT ![w] = HeldSymbols(published[a])]
    /\ room' = [room EXCEPT ![w] = MaxOpen - Cardinality(published[a])]
    /\ cand' = [cand EXCEPT ![w] = {d \in recorded : NeedsAnOrder(<<a, d>>)}]
    /\ UNCHANGED <<sent, job, abandoned, spoiled, journalVars, switchVars,
                   bridgeVars, terminalVars, deal>>

\* One of the gates inside the loop refuses the decision.
RefuseDecision(w, d) ==
    /\ pc[w] = "loop"
    /\ First(d, cand[w])
    /\ cand' = [cand EXCEPT ![w] = @ \ {d}]
    /\ UNCHANGED <<pc, todo, acct, held, room, sent, job, abandoned, spoiled,
                   journalVars, switchVars, bridgeVars, terminalVars, deal>>

\* Slip: the order is written down only once the broker has answered.
MarkNothing(w, d, i) ==
    /\ pc[w] = "loop"
    /\ First(d, cand[w])
    /\ TradedAs[d] \notin held[w]
    /\ Cardinality(sent[w]) < room[w]
    /\ owner[i] = NoOwner
    /\ owner' = [owner EXCEPT ![i] = <<acct[w], d>>]
    /\ cand' = [cand EXCEPT ![w] = @ \ {d}]
    /\ job' = [job EXCEPT ![w] = i]
    /\ pc' = [pc EXCEPT ![w] = "marked"]
    /\ UNCHANGED <<recorded, order, stamp, todo, acct, held, room, sent,
                   abandoned, spoiled, switchVars, bridgeVars, terminalVars,
                   deal>>

\* Every gate passes: the intent is made, "submitting" is committed.
MarkSubmitting(w, d, i) ==
    LET k == <<acct[w], d>> IN
    /\ pc[w] = "loop"
    /\ First(d, cand[w])
    /\ TradedAs[d] \notin held[w]
    /\ Cardinality(sent[w]) < room[w]
    /\ owner[i] = NoOwner
    /\ owner' = [owner EXCEPT ![i] = k]
    /\ order' = [order EXCEPT ![k] = "submitting"]
    /\ stamp' = [stamp EXCEPT ![k] = i]
    /\ cand' = [cand EXCEPT ![w] = @ \ {d}]
    /\ job' = [job EXCEPT ![w] = i]
    /\ pc' = [pc EXCEPT ![w] = "marked"]
    /\ UNCHANGED <<recorded, todo, acct, held, room, sent, abandoned, spoiled,
                   switchVars, bridgeVars, terminalVars, deal>>

\* submit: write_text opens the request file, which is empty until ...
CreateRequest(w) ==
    /\ pc[w] = "marked"
    /\ SendsToBridge
    /\ request' = [request EXCEPT ![job[w]] = "waiting"]
    /\ pc' = [pc EXCEPT ![w] = "writing"]
    /\ UNCHANGED <<body, answer, todo, acct, cand, held, room, sent, job,
                   abandoned, spoiled, journalVars, switchVars, terminalVars,
                   deal>>

\* ... the text is written, wherever the expert has moved the file by then.
WriteRequest(w) ==
    /\ pc[w] = "writing"
    /\ body' = [body EXCEPT ![job[w]] = TRUE]
    /\ pc' = [pc EXCEPT ![w] = "waiting"]
    /\ UNCHANGED <<request, answer, todo, acct, cand, held, room, sent, job,
                   abandoned, spoiled, journalVars, switchVars, terminalVars,
                   deal>>

\* What run_cycle commits once submit has returned.
Settle(w, state) ==
    /\ order' = [order EXCEPT ![owner[job[w]]] = state]
    /\ stamp' = [stamp EXCEPT ![owner[job[w]]] = job[w]]
    /\ job' = [job EXCEPT ![w] = NoIntent]
    /\ pc' = [pc EXCEPT ![w] = "loop"]
    /\ UNCHANGED <<recorded, owner, todo, acct, cand, room, abandoned,
                   spoiled, switchVars, bridgeVars, terminalVars, deal>>

\* A rejected order is not an order: it takes no slot and holds no symbol.
Rejected(w, state) ==
    /\ Settle(w, state)
    /\ UNCHANGED <<held, sent>>

\* Slip: only the terminal's own book is consulted, never this pass's orders.
AcceptedUnheld(w, state) ==
    /\ Settle(w, state)
    /\ sent' = [sent EXCEPT ![w] = @ \cup {owner[job[w]][2]}]
    /\ UNCHANGED held

\* Anything else is an order sent: it takes a slot, and the decision's own
\* symbol is held from here to the end of the account's pass.
Accepted(w, state) ==
    /\ Settle(w, state)
    /\ sent' = [sent EXCEPT ![w] = @ \cup {owner[job[w]][2]}]
    /\ held' = [held EXCEPT ![w] = @ \cup {Symbol[owner[job[w]][2]]}]

\* Slip: a reply that never came is taken for a request never written.
WriteFailsLate(w) ==
    /\ pc[w] \in {"marked", "writing", "waiting"}
    /\ Rejected(w, "never_sent")

\* submit: OSError, before the file exists or after it was opened.
WriteFails(w) ==
    /\ pc[w] \in {"marked", "writing"}
    /\ Rejected(w, "never_sent")

\* _await_result finds the expert's answer ...
ReadAnswer(w) ==
    /\ pc[w] = "waiting"
    /\ \/ answer[job[w]] = "ok" /\ Accepted(w, "filled")
       \/ answer[job[w]] = "refused" /\ Rejected(w, "rejected")

\* Slip: the wait has no deadline.
AnswerNeverTimesOut(w) == FALSE /\ UNCHANGED vars

\* Slip: an expired wait is recorded as a state the journal does not know.
AnswerTimesOutAnew(w) ==
    /\ pc[w] = "waiting"
    /\ Accepted(w, "timed_out")

\* ... or gives up: there is no answer, or none that can be read.
AnswerTimesOut(w) ==
    /\ pc[w] = "waiting"
    /\ Accepted(w, "unknown")

\* run_cycle raises, between two orders or when the answer is to be committed.
\* run_all_accounts catches it; a database error spoils the session.
AccountRaises(w) ==
    /\ pc[w] \in {"loop", "waiting"}
    /\ pc' = [pc EXCEPT ![w] = "accounts"]
    /\ acct' = [acct EXCEPT ![w] = 0]
    /\ cand' = [cand EXCEPT ![w] = {}]
    /\ held' = [held EXCEPT ![w] = {}]
    /\ room' = [room EXCEPT ![w] = 0]
    /\ sent' = [sent EXCEPT ![w] = {}]
    /\ job' = [job EXCEPT ![w] = NoIntent]
    /\ spoiled' \in {spoiled, spoiled \cup {w}}
    /\ UNCHANGED <<todo, abandoned, journalVars, switchVars, bridgeVars,
                   terminalVars, deal>>

EndAccount(w) ==
    /\ pc[w] = "loop"
    /\ cand[w] = {}
    /\ pc' = [pc EXCEPT ![w] = "accounts"]
    /\ acct' = [acct EXCEPT ![w] = 0]
    /\ held' = [held EXCEPT ![w] = {}]
    /\ room' = [room EXCEPT ![w] = 0]
    /\ sent' = [sent EXCEPT ![w] = {}]
    /\ UNCHANGED <<todo, cand, job, abandoned, spoiled, journalVars,
                   switchVars, bridgeVars, terminalVars, deal>>

EndPass(w) ==
    /\ pc[w] = "accounts"
    /\ todo[w] = {}
    /\ pc' = [pc EXCEPT ![w] = "idle"]
    /\ abandoned' = abandoned \ {w}
    /\ spoiled' = spoiled \ {w}
    /\ UNCHANGED <<todo, acct, cand, held, room, sent, job, journalVars,
                   switchVars, bridgeVars, terminalVars, deal>>

\* The collector's process dies: every pass forgets what it held in memory.
CollectorDies ==
    /\ \E w \in Workers : pc[w] # "idle"
    /\ pc' = [w \in Workers |-> "idle"]
    /\ todo' = [w \in Workers |-> {}]
    /\ acct' = [w \in Workers |-> 0]
    /\ cand' = [w \in Workers |-> {}]
    /\ held' = [w \in Workers |-> {}]
    /\ room' = [w \in Workers |-> 0]
    /\ sent' = [w \in Workers |-> {}]
    /\ job' = [w \in Workers |-> NoIntent]
    /\ abandoned' = {}
    /\ spoiled' = {}
    /\ UNCHANGED <<journalVars, switchVars, bridgeVars, terminalVars, deal>>

----------------------------------------------------------------------------
(* The terminal.                                                           *)

TerminalStarts(a) ==
    /\ expert[a] = "off"
    /\ expert' = [expert EXCEPT ![a] = "idle"]
    /\ UNCHANGED <<task, listing, reply, published, usable, journalVars,
                   switchVars, passVars, bridgeVars, deal>>

\* The terminal stops between any two steps of the expert. What it had
\* claimed stays claimed.
TerminalStops(a) ==
    /\ expert[a] # "off"
    /\ expert' = [expert EXCEPT ![a] = "off"]
    /\ task' = [task EXCEPT ![a] = NoIntent]
    /\ listing' = [listing EXCEPT ![a] = {}]
    /\ reply' = [reply EXCEPT ![a] = "none"]
    /\ UNCHANGED <<published, usable, journalVars, switchVars, passVars,
                   bridgeVars, deal>>

\* OnTimer: Publish writes the heartbeat, and the positions unless their file
\* cannot be opened; then ExecutePending lists the request files.
OnTimer(a) ==
    /\ expert[a] = "idle"
    /\ published' \in {published, [published EXCEPT ![a] = OpenAt(a)]}
    /\ usable' = [usable EXCEPT ![a] = TRUE]
    /\ listing' = [listing EXCEPT ![a] =
                     {i \in Intents : /\ request[i] = "waiting"
                                      /\ AccountOf(i) = a}]
    /\ expert' = [expert EXCEPT ![a] = "scanning"]
    /\ UNCHANGED <<task, reply, journalVars, switchVars, passVars, bridgeVars,
                   deal>>

\* The last publication is older than the 90 s a reader trusts it for.
HeartbeatGoesStale(a) ==
    /\ usable[a]
    /\ usable' = [usable EXCEPT ![a] = FALSE]
    /\ UNCHANGED <<expert, task, listing, reply, published, journalVars,
                   switchVars, passVars, bridgeVars, deal>>

\* ExecuteOne: the request is claimed by renaming it ...
Claim(a, i) ==
    /\ expert[a] = "scanning"
    /\ i \in listing[a]
    /\ request[i] = "waiting"
    /\ listing' = [listing EXCEPT ![a] = @ \ {i}]
    /\ request' = [request EXCEPT ![i] = "claimed"]
    /\ task' = [task EXCEPT ![a] = i]
    /\ expert' = [expert EXCEPT ![a] = "claimed"]
    /\ UNCHANGED <<reply, published, usable, body, answer, journalVars,
                   switchVars, passVars, deal>>

\* ... or left alone, when the rename fails.
CannotClaim(a, i) ==
    /\ expert[a] = "scanning"
    /\ i \in listing[a]
    /\ listing' = [listing EXCEPT ![a] = @ \ {i}]
    /\ UNCHANGED <<expert, task, reply, published, usable, journalVars,
                   switchVars, passVars, bridgeVars, deal>>

\* Slip: the expert answers ok without looking at the return code.
RefuseRequestAsDone(a) ==
    /\ expert[a] = "claimed"
    /\ reply' = [reply EXCEPT ![a] = "ok"]
    /\ expert' = [expert EXCEPT ![a] = "sent"]
    /\ UNCHANGED <<task, listing, published, usable, journalVars, switchVars,
                   passVars, bridgeVars, deal>>

\* The claimed file cannot be read, is empty, names no symbol or no size, is
\* too large, or AllowTrading is off; or the broker says no.
RefuseRequest(a) ==
    /\ expert[a] = "claimed"
    /\ reply' = [reply EXCEPT ![a] = "refused"]
    /\ expert' = [expert EXCEPT ![a] = "sent"]
    /\ UNCHANGED <<task, listing, published, usable, journalVars, switchVars,
                   passVars, bridgeVars, deal>>

\* OrderSend deals a request whose text is there to be read. It may still
\* report a failure, when the venue dealt and its confirmation was lost.
SendOrder(a) ==
    /\ expert[a] = "claimed"
    /\ body[task[a]]
    /\ deal' = [deal EXCEPT ![task[a]] = "open"]
    /\ \E said \in {"ok", "refused"} : reply' = [reply EXCEPT ![a] = said]
    /\ expert' = [expert EXCEPT ![a] = "sent"]
    /\ UNCHANGED <<task, listing, published, usable, journalVars, switchVars,
                   passVars, bridgeVars>>

\* The answer is written, unless its file cannot be opened.
WriteResult(a) ==
    /\ expert[a] = "sent"
    /\ answer' \in {answer, [answer EXCEPT ![task[a]] = reply[a]]}
    /\ reply' = [reply EXCEPT ![a] = "none"]
    /\ task' = [task EXCEPT ![a] = NoIntent]
    /\ expert' = [expert EXCEPT ![a] = "scanning"]
    /\ UNCHANGED <<listing, published, usable, request, body, journalVars,
                   switchVars, passVars, deal>>

EndTimer(a) ==
    /\ expert[a] = "scanning"
    /\ listing[a] = {}
    /\ expert' = [expert EXCEPT ![a] = "idle"]
    /\ UNCHANGED <<task, listing, reply, published, usable, journalVars,
                   switchVars, passVars, bridgeVars, deal>>

\* A stop, a target or a hand closes a position.
ClosePosition(i) ==
    /\ deal[i] = "open"
    /\ deal' = [deal EXCEPT ![i] = "closed"]
    /\ UNCHANGED <<journalVars, switchVars, passVars, bridgeVars,
                   terminalVars>>

----------------------------------------------------------------------------
PassStep(w) ==
    \/ \E a \in Accounts : SkipAccount(w, a) \/ BeginAccount(w, a)
    \/ \E d \in Decisions : RefuseDecision(w, d)
    \/ \E d \in Decisions, i \in Intents : MarkSubmitting(w, d, i)
    \/ CreateRequest(w)
    \/ WriteRequest(w)
    \/ WriteFails(w)
    \/ ReadAnswer(w)
    \/ AnswerTimesOut(w)
    \/ EndAccount(w)
    \/ EndPass(w)

ExpertStep(a) ==
    \/ OnTimer(a)
    \/ \E i \in Intents : Claim(a, i) \/ CannotClaim(a, i)
    \/ RefuseRequest(a)
    \/ SendOrder(a)
    \/ WriteResult(a)
    \/ EndTimer(a)

Next ==
    \/ \E d \in Decisions : RecordDecision(d)
    \/ MoveKillSwitch
    \/ \E a \in Accounts : MoveAccountSwitch(a)
    \/ \E w \in Workers : StartPass(w) \/ JobTimesOut(w) \/ PassStep(w)
    \/ \E w \in Workers : AccountRaises(w)
    \/ CollectorDies
    \/ \E a \in Accounts : TerminalStarts(a) \/ TerminalStops(a)
    \/ \E a \in Accounts : ExpertStep(a) \/ HeartbeatGoesStale(a)
    \/ \E i \in Intents : ClosePosition(i)

Spec == Init /\ [][Next]_vars

\* The scheduling the code has: a pass that is running keeps running, its
\* waits bounded by their timeout. Nothing makes a pass start, a terminal
\* answer or a human act.
FairSpec == Spec /\ \A w \in Workers : WF_vars(PassStep(w))

----------------------------------------------------------------------------
(* What the order path promises.                                           *)

\* "Once-ever is a per-account promise": however often a pass is repeated,
\* cut short or left unanswered, a decision opens at most one deal on an
\* account.
AtMostOnce ==
    \A i, j \in Intents :
        deal[i] # "none" /\ deal[j] # "none" /\ owner[i] = owner[j] => i = j

\* A deal at the broker can always be traced to the journal: the decision it
\* came from names that very intent, in a state that is never sent again.
EveryDealIsOnRecord ==
    \A i \in Intents :
        deal[i] # "none" => /\ owner[i] \in Keys
                            /\ stamp[owner[i]] = i
                            /\ ~NeedsAnOrder(owner[i])

\* NEVER_SENT "proves nothing reached the broker": nothing of that intent has
\* been dealt, and no request of it can still be read by the expert, even
\* when a blank file was left behind.
NeverSentIsProof ==
    \A k \in Keys :
        order[k] = "never_sent" => /\ deal[stamp[k]] = "none"
                                   /\ ~body[stamp[k]]

\* A decision recorded as filled has a deal behind it.
FilledIsDealt ==
    \A k \in Keys :
        order[k] = "filled" => stamp[k] \in Intents /\ deal[stamp[k]] # "none"

\* Inside one account's pass, two decisions the broker would fill on the same
\* instrument do not both go through.
OnePerSymbolInAPass ==
    \A w \in Workers : \A d, e \in sent[w] :
        TradedAs[d] = TradedAs[e] => d = e

MovesForward(k) ==
    order'[k] # order[k] =>
        \/ /\ order[k] \in {"none", "never_sent"}
           /\ order'[k] = "submitting"
           /\ stamp'[k] # stamp[k]
        \/ /\ order[k] = "submitting"
           /\ order'[k] \in {"filled", "rejected", "never_sent", "unknown"}
           /\ stamp'[k] = stamp[k]

\* The record of an order only moves forward: to "submitting" when an order
\* is owed, and from there, once, to what became of that same intent.
RecordMovesForward == [][\A k \in Keys : MovesForward(k)]_vars

\* A pass ends, whether or not any terminal ever answers it.
PassEnds == \A w \in Workers : pc[w] # "idle" ~> pc[w] = "idle"

\* A kill switch that stays engaged stops the trading on every account: the
\* account's pass that had read it before runs out, and no other begins.
HaltStopsTrading ==
    <>[]killed => <>[](\A w \in Workers : pc[w] \notin {"loop"} \cup Sending)

DealsOf(k) == {i \in Intents : owner[i] = k /\ deal[i] # "none"}

Dealt    == [k \in Keys |-> Cardinality(DealsOf(k))]
Standing == [k \in Keys |-> IF DealsOf(k) # {} THEN "opened"
                           ELSE IF NeedsAnOrder(k) THEN "owed"
                           ELSE "committed"]

Promise == INSTANCE OrderPromise WITH
    Orders <- Keys, dealt <- Dealt, promise <- Standing

\* The path keeps the promise of OrderPromise: a decision owes an account an
\* order, is committed before anything can be dealt, and is dealt once.
KeepsPromise == Promise!Spec

----------------------------------------------------------------------------
(* Why it keeps them: the inductive invariant of the proofs.                *)

\* Every intent at work somewhere belongs to an account and a decision: the
\* one a pass is sending, the ones the expert can read, the positions.
Owned ==
    /\ \A w \in Workers : pc[w] \in {"loop"} \cup Sending => acct[w] \in Accounts
    /\ \A w \in Workers :
          pc[w] \in Sending => job[w] \in Intents /\ owner[job[w]] \in Keys
    /\ \A i \in Intents : body[i] => owner[i] \in Keys
    /\ \A i \in Intents : deal[i] # "none" => body[i]
    /\ \A a \in Accounts : \A i \in published[a] : owner[i] \in Keys

\* arq does not start a second copy of a cron job: without abandoned threads,
\* one pass runs at a time.
OnePass ==
    /\ abandoned = {}
    /\ \A v, w \in Workers : pc[v] # "idle" /\ pc[w] # "idle" => v = w

\* A request the expert may read belongs to the intent the journal names, in
\* a state that is never sent again.
ReadableIsNamed ==
    \A i \in Intents : body[i] => stamp[owner[i]] = i /\ ~NeedsAnOrder(owner[i])

\* The order a pass is sending is marked, and not readable before it is
\* written.
SendingIsMarked ==
    \A w \in Workers :
        /\ pc[w] \in Sending => /\ stamp[owner[job[w]]] = job[w]
                               /\ order[owner[job[w]]] = "submitting"
        /\ pc[w] \in {"marked", "writing"} => ~body[job[w]]

\* The decisions a pass still holds are owed an order.
HeldIsOwed ==
    \A w \in Workers : pc[w] \in {"loop"} \cup Sending =>
        \A d \in cand[w] : NeedsAnOrder(<<acct[w], d>>)

\* The intent_id beside an order is that of an intent made for it.
StampNamesOwn ==
    \A k \in Keys : /\ stamp[k] # NoIntent => owner[stamp[k]] = k
                    /\ order[k] # "none" => stamp[k] # NoIntent

\* The journal is ahead of the bridge.
JournalIsAhead ==
    /\ ReadableIsNamed
    /\ SendingIsMarked
    /\ HeldIsOwed
    /\ StampNamesOwn

\* The instrument of every order sent in a pass is held, and the order being
\* sent is for another one.
SentIsHeld ==
    \A w \in Workers :
        /\ \A d \in sent[w] : TradedAs[d] \in held[w]
        /\ pc[w] \in Sending => TradedAs[owner[job[w]][2]] \notin held[w]
        /\ pc[w] \in {"idle", "accounts"} => sent[w] = {}

\* An answer of "ok" is never ahead of the broker.
AnswersAreTrue ==
    /\ \A a \in Accounts : expert[a] \in {"claimed", "sent"} => task[a] \in Intents
    /\ \A a \in Accounts :
          reply[a] = "ok" => expert[a] = "sent" /\ deal[task[a]] # "none"
    /\ \A i \in Intents : answer[i] = "ok" => deal[i] # "none"
============================================================================
