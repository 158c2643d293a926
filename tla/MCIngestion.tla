---------------------------- MODULE MCIngestion ----------------------------
(* Two passes that may overlap.  A pass fetches the bars before its clock.  *)
EXTENDS Ingestion
CONSTANTS p1, p2
=============================================================================
