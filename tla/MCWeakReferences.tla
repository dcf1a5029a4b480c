--------------------------- MODULE MCWeakReferences ---------------------------
(***************************************************************************)
(* The main program and a handler over two objects, of which `child` has a *)
(* weak variable, as delegates do, and a weak variable they share.         *)
(***************************************************************************)
EXTENDS WeakReferences, TLC

CONSTANTS main, isr, parent, child, t1, t2, global, delegate

(* Contexts differ in nothing but their name, nor do side tables.          *)
Alike == {p @@ q : p \in Permutations({main, isr}), q \in Permutations({t1, t2})}

MCHome == global :> Global @@ delegate :> child
=============================================================================
