-------------------------- MODULE StrongReferences --------------------------
(***************************************************************************)
(* What automatic reference counting promises a Swift program, without any *)
(* counter: an object lives exactly as long as some strong reference to it *)
(* exists, it is destroyed once, and its storage is reused only after      *)
(* that.  EmbeddedRuntime implements this specification.                   *)
(***************************************************************************)
CONSTANTS Objects, Immortal, Slots, Home, Nil

VARIABLES slot, state

vars == <<slot, state>>

Refs(o) == {r \in Slots : slot[r] = o}

Put(S, o) == slot' = [r \in Slots |-> IF r \in S THEN o ELSE slot[r]]

Init ==
  /\ slot = [r \in Slots |-> Nil]
  /\ state = [o \in Objects |-> "unused"]

New(o, r) ==
  /\ state[o] = "unused" /\ slot[r] = Nil
  /\ state' = [state EXCEPT ![o] = "live"]
  /\ Put({r}, o)

Copy(o, S) ==
  /\ state[o] = "live" /\ Refs(o) # {}
  /\ \A r \in S : slot[r] = Nil
  /\ Put(S, o)
  /\ UNCHANGED state

Transfer(r, q) ==
  /\ slot[r] # Nil /\ slot[q] = Nil
  /\ slot' = [slot EXCEPT ![r] = Nil, ![q] = slot[r]]
  /\ UNCHANGED state

(* The last reference takes the object with it, and only the last one. *)
Drop(o, S) ==
  /\ S # {} /\ S \subseteq Refs(o)
  /\ Put(S, Nil)
  /\ state' = [state EXCEPT ![o] =
                 IF S = Refs(o) /\ o \notin Immortal THEN "dying" ELSE @]

Reclaim(o) ==
  /\ state[o] = "dying"
  /\ \A r \in Slots : Home[r] = o => slot[r] = Nil
  /\ state' = [state EXCEPT ![o] = "unused"]
  /\ UNCHANGED slot

Next ==
  \/ \E o \in Objects, r \in Slots : New(o, r)
  \/ \E o \in Objects, S \in SUBSET Slots : Copy(o, S) \/ Drop(o, S)
  \/ \E r, q \in Slots : Transfer(r, q)
  \/ \E o \in Objects : Reclaim(o)

Spec == Init /\ [][Next]_vars
=============================================================================
