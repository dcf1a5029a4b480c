-------------------------- MODULE MCEmbeddedRuntime --------------------------
(***************************************************************************)
(* The main loop and one interrupt handler over a heap object with one     *)
(* stored property, a second heap object and a stack-promoted one, and a   *)
(* global variable that both contexts may use.  Main has three variables,  *)
(* so that it can copy a reference into two of them with one retain_n.     *)
(***************************************************************************)
EXTENDS EmbeddedRuntime, TLC

CONSTANTS parent, leaf, stk, main, isr, m1, m2, m3, i1, prop, shared, global

MCHome == m1 :> main @@ m2 :> main @@ m3 :> main @@ i1 :> isr @@ prop :> parent @@ shared :> global

ASSUME Disciplined
(* The variables of main differ in nothing but their name. *)
LocalsAlike == Permutations({m1, m2, m3})
=============================================================================
