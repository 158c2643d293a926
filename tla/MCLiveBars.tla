----------------------------- MODULE MCLiveBars -----------------------------
(* One file, the collect cycle and the live pass.                           *)
EXTENDS LiveBars
=============================================================================
