------------------------ MODULE MCEmbeddedSaturation ------------------------
(***************************************************************************)
(* The main loop and an interrupt handler with a count word so narrow that *)
(* their references saturate it: immortalRefCount is 5, the number of      *)
(* slots.  Calls preempted between load and update meet counts that become *)
(* immortal meanwhile.  A linked pair of objects makes destruction         *)
(* cascade, and a static object starts at the value where counts stick.    *)
(***************************************************************************)
EXTENDS EmbeddedRuntime, TLC

CONSTANTS parent, leaf, sta, main, isr, m1, m2, i1, shared, prop

MCHome ==
  m1 :> main @@ m2 :> main @@ i1 :> isr @@ shared :> Global @@ prop :> parent
=============================================================================
