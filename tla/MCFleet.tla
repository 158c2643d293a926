------------------------------ MODULE MCFleet ------------------------------
(* Small instances of Fleet: two symbols that share the dollar and one beside them. *)
EXTENDS Fleet

CONSTANTS prop, demo, eurusd, usdjpy, gbpchf, stretch, carry

First == [s \in Symbols |-> CASE s = eurusd -> "EUR" [] s = usdjpy -> "USD" [] OTHER -> "GBP"]
Second == [s \in Symbols |-> CASE s = eurusd -> "USD" [] s = usdjpy -> "JPY" [] OTHER -> "CHF"]
D(symbol, side, brain) == [symbol |-> symbol, side |-> side, brain |-> brain]
Opinions == {D(eurusd, "buy", stretch), D(eurusd, "sell", carry), D(usdjpy, "sell", stretch),
             D(gbpchf, "buy", stretch)}
B(symbol, side) == [symbol |-> symbol, side |-> side]
FewBooks == {{}, {B(usdjpy, "buy")}, {B(usdjpy, "sell"), B(eurusd, "sell")}}
OwnBrain == [a \in Accounts |-> IF a = prop THEN {stretch} ELSE {stretch, carry}]
=============================================================================
