----------------------------- MODULE MCRowLimits -----------------------------
(* Model-checking instance of RowLimits: limits on both sides of zero, of   *)
(* the default and of every cap, offsets on both sides of every list's end. *)
EXTENDS RowLimits

MCLimits == {-1, 0, 1, 2, 3, 4, 5, 6}
MCOffsets == {-1, 0, 1, 4, 8}
=============================================================================
