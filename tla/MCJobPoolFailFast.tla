------------------------- MODULE MCJobPoolFailFast -------------------------
(***************************************************************************)
(* Instance of JobPoolFailFast for TLC: every kind of factor (negative, 0  *)
(* for "no limit", 1 for sequential, fewer than the jobs), with and        *)
(* without continue_on_error.                                              *)
(***************************************************************************)
EXTENDS JobPoolFailFast

AllFactors == {-1, 0, 1, 2, 3}
=============================================================================
