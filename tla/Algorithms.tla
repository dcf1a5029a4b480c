------------------------------ MODULE Algorithms ------------------------------
(***************************************************************************)
(* A program that uses one of the algorithms of the library: they share no *)
(* state, so that one behaviour with one of them at work stands for every  *)
(* program that uses them in turn.                                         *)
(***************************************************************************)
EXTENDS Reordering, ScopedMemory, Strides, Flattening

VARIABLE using   (* which of the four the program has chosen              *)

algorithms == <<using, reordering, memory, striding, flattening>>

AlgorithmsInit ==
  /\ using \in {"reordering", "memory", "strides", "flattening"}
  /\ ReorderingInit /\ MemoryInit /\ StridesInit
  /\ FlatteningInit
  /\ using # "flattening" => size = <<>>

(* A collection that was reordered stays as it is. *)
Reordered == at \in {"done", "thrown"} /\ UNCHANGED reordering

AlgorithmsNext ==
  \/ /\ using = "reordering" /\ (ReorderingNext \/ Reordered)
     /\ UNCHANGED <<using, memory, striding, flattening>>
  \/ /\ using = "memory" /\ MemoryNext
     /\ UNCHANGED <<using, reordering, striding, flattening>>
  \/ /\ using = "strides" /\ StridesNext
     /\ UNCHANGED <<using, reordering, memory, flattening>>
  \/ /\ using = "flattening" /\ FlatteningNext
     /\ UNCHANGED <<using, reordering, memory, striding>>

AlgorithmsSpec == AlgorithmsInit /\ [][AlgorithmsNext]_algorithms
=============================================================================
