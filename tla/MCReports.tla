----------------------------- MODULE MCReports -----------------------------
(* One ticket type and three price lists, for TLC: free; four cents a unit,*)
(* so that the totals of two units fit their columns and their sum does    *)
(* not fit a Refund row; three cents a unit, where it does.                *)
EXTENDS Reports, TLC

Lists    == {<<0, 0, 0>>, <<2, 1, 1>>, <<2, 1, 0>>}
Symmetry == Permutations(Keys)
=============================================================================
