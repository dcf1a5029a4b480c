------------------------------ MODULE MCArrays ------------------------------
(***************************************************************************)
(* Two variables and two storage objects of up to three elements: enough   *)
(* for a slice of a slice with room on both sides, for a third view of a   *)
(* storage through a closure, for a builder that grows twice and for the   *)
(* memory to run out.  Variables, storages and elements are alike.         *)
(***************************************************************************)
EXTENDS Arrays, TLC

Alike == Permutations(Cells) \cup Permutations(Vars) \cup Permutations(Elems)
=============================================================================
