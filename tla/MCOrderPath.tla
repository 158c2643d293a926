----------------------------- MODULE MCOrderPath -----------------------------
(* Instances of OrderPath for TLC.                                          *)
EXTENDS OrderPath, TLC

CONSTANTS i1, i2, w1, w2, eurusd

\* Two decisions on one instrument.
SameSymbol == [d \in Decisions |-> eurusd]

IntentSymmetry == Permutations(Intents)
=============================================================================
