--------------------------- MODULE MCStampFilter ----------------------------
(* Instances of StampFilter for TLC. *)
EXTENDS StampFilter
=============================================================================
