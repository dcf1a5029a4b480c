-------------------------- MODULE MCEmbeddedDeinit --------------------------
(***************************************************************************)
(* One heap object whose deinit body makes a copy of `self` in a local     *)
(* variable and drops it again.                                            *)
(***************************************************************************)
EXTENDS EmbeddedRuntime, TLC

CONSTANTS object, main, m1, m2

MCHome == m1 :> main @@ m2 :> main
=============================================================================
