---------------------------- MODULE MCEmptyArray ----------------------------
(***************************************************************************)
(* Two array variables that both refer to the storage of empty arrays,     *)
(* whose header is the data image (isa 0, refcount -1).                    *)
(***************************************************************************)
EXTENDS EmbeddedRuntime, TLC

CONSTANTS emptyArray, main, a1, a2

MCHome == a1 :> main @@ a2 :> main
=============================================================================
