------------------------------ MODULE MCPaging ------------------------------
(***************************************************************************)
(* Tables of five entries: low memory, kernel, program, video map, 256 MB. *)
(* The programs are interchangeable.                                       *)
(***************************************************************************)
EXTENDS Paging, TLC

Symmetry == Permutations(Programs)
=============================================================================
