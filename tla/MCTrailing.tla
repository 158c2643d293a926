----------------------------- MODULE MCTrailing -----------------------------
(* Instances of Trailing for TLC, in hundredths of the sized distance 50.   *)
EXTENDS Trailing

CONSTANTS t1, prop, swing

Shape(side, entry, stp, target) ==
    [side |-> side, entry |-> entry, stop |-> stp, target |-> target]

\* Re-anchored on the fill, left as sent after a fill 15 worse, opened by hand
\* without a target, and without either level.
Buys  == {Shape("buy", 200, 150, 275), Shape("buy", 215, 150, 275)}
Sells == {Shape("sell", 200, 250, 125)}
ByHand   == {Shape("buy", 200, 150, 0)}
Unstopped == {Shape("buy", 200, 0, 0)}

Sized50   == Buys \cup Sells
EveryOne  == Sized50 \cup ByHand \cup Unstopped

\* 0.3 R, 1 R and beyond, for a buy and for a sell, and what stops them.
Crossings == {150, 185, 200, 215, 245, 270}
=============================================================================
