--------------------------- MODULE ZeroingReferences ---------------------------
(***************************************************************************)
(* What weak references promise (src/Runtime/HeapObject.h:555-571): a weak *)
(* variable refers to an object without keeping it alive, becomes nil in   *)
(* the instant the last strong reference to the object goes, and a load    *)
(* gives exactly what the variable refers to, as one more strong reference.*)
(* There are no counts, no side tables and no memory here.                 *)
(***************************************************************************)
EXTENDS Integers

CONSTANTS
  Contexts, Objects, Vars, Nil,
  MaxN  (* the most references that one call makes or drops *)

VARIABLES
  refs,     (* [Contexts -> [Objects -> Nat]]: strong references           *)
  weakRef,  (* the object each weak variable refers to, or Nil             *)
  asking    (* per context: the weak variable it is loading, or Nil        *)

vars == <<refs, weakRef, asking>>

Referenced(r, o) == \E c \in Contexts : r[c][o] > 0

Init ==
  /\ refs = [c \in Contexts |-> [o \in Objects |-> 0]]
  /\ weakRef = [v \in Vars |-> Nil]
  /\ asking = [c \in Contexts |-> Nil]

Gain(c, o, n) == refs' = [refs EXCEPT ![c][o] = @ + n]

Create(c, o) ==
  /\ ~Referenced(refs, o)
  /\ Gain(c, o, 1) /\ UNCHANGED <<weakRef, asking>>

(* A copy of a reference, one's own or one that an unowned variable names. *)
Copy(c, o, n) ==
  /\ Referenced(refs, o)
  /\ Gain(c, o, n)
  /\ UNCHANGED <<weakRef, asking>>

(* The last reference takes all the weak ones with it. *)
Drop(c, o, n) ==
  /\ refs[c][o] >= n /\ Gain(c, o, -n)
  /\ weakRef' = [v \in Vars |->
       IF weakRef[v] = o /\ ~Referenced(refs', o) THEN Nil ELSE weakRef[v]]
  /\ UNCHANGED asking

HandOver(c, d, o) ==
  /\ c # d /\ refs[c][o] > 0
  /\ refs' = [refs EXCEPT ![c][o] = @ - 1, ![d][o] = @ + 1]
  /\ UNCHANGED <<weakRef, asking>>

Assign(v, o) ==
  /\ o = Nil \/ Referenced(refs, o)
  /\ weakRef' = [weakRef EXCEPT ![v] = o]
  /\ UNCHANGED <<refs, asking>>

Move(dest, src) ==
  /\ weakRef' = [weakRef EXCEPT ![dest] = weakRef[src], ![src] = Nil]
  /\ UNCHANGED <<refs, asking>>

BeginLoad(c, v) ==
  /\ asking[c] = Nil /\ asking' = [asking EXCEPT ![c] = v]
  /\ UNCHANGED <<refs, weakRef>>

EndLoad(c, v) ==
  /\ asking[c] = v /\ asking' = [asking EXCEPT ![c] = Nil]
  /\ IF weakRef[v] = Nil THEN UNCHANGED refs ELSE Gain(c, weakRef[v], 1)
  /\ UNCHANGED weakRef

Next ==
  \/ \E c \in Contexts, o \in Objects : Create(c, o)
  \/ \E c \in Contexts, o \in Objects, n \in 1 .. MaxN : Copy(c, o, n) \/ Drop(c, o, n)
  \/ \E c, d \in Contexts, o \in Objects : HandOver(c, d, o)
  \/ \E v \in Vars, o \in Objects \cup {Nil} : Assign(v, o)
  \/ \E dest, src \in Vars : Move(dest, src)
  \/ \E c \in Contexts, v \in Vars : BeginLoad(c, v) \/ EndLoad(c, v)

Spec == Init /\ [][Next]_vars
=============================================================================
