----------------------------- MODULE MCRiskRoom -----------------------------
(* Small instances of RiskRoom, with every share of a limit a few units.    *)
EXTENDS RiskRoom

Full == {100}
HalfOrFull == {50, 100}
=============================================================================
