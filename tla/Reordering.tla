------------------------------ MODULE Reordering ------------------------------
(***************************************************************************)
(* The algorithms that reorder a mutable collection in place: partition,   *)
(* half-stable partition and shuffle (src/CollectionAlgorithms.swift) and  *)
(* reverse (src/Reverse.swift).                                            *)
(*                                                                         *)
(* Elements are named by the position they have when the call begins.  The *)
(* predicate of a partition is a closure of the program's that may throw   *)
(* at any of its calls; one step here is one such call and what the loop   *)
(* does with its answer.                                                   *)
(***************************************************************************)
EXTENDS Integers

CONSTANT MaxCount   (* bound on the length of the collection *)

ASSUME MaxCountAssumption == MaxCount \in Nat

VARIABLES
  algorithm,  (* the function that was called, or "none"                   *)
  at,         (* the loop it is in, or "done", or "thrown"                 *)
  n,          (* the length of the collection                              *)
  place,      (* the element at each index                                 *)
  second,     (* the elements for which belongsInSecondPartition is true   *)
  lo, hi      (* the two indices of the loops: lo/hi, i/j, f/l; in shuffle *)
              (* currentIndex and amount                                   *)

reordering == <<algorithm, at, n, place, second, lo, hi>>

Indices(m) == 0 .. m - 1
Untouched(m) == [i \in Indices(m) |-> i]

ReorderingInit ==
  /\ algorithm = "none" /\ at = "idle"
  /\ n = 0 /\ place = Untouched(0) /\ second = {}
  /\ lo = 0 /\ hi = 0

Call(f, loop, m, s, i, j) ==
  /\ at = "idle"
  /\ algorithm' = f /\ at' = loop
  /\ n' = m /\ place' = Untouched(m) /\ second' = s
  /\ lo' = i /\ hi' = j

Partition(m, s) == Call("partition", "findLo", m, s, 0, m)
HalfStablePartition(m, s) == Call("halfStable", "first", m, s, 0, 0)
Shuffle(m) == Call("shuffle", "shuffle", m, {}, 0, m)
Reverse(m) == Call("reverse", "reverse", m, {}, 0, m - 1)

(* Mutant: swapAt forgets the element it overwrites first.                 *)
SwapAtOneWay(i, j) == place' = [place EXCEPT ![i] = place[j]]

SwapAt(i, j) == place' = [place EXCEPT ![i] = place[j], ![j] = place[i]]

GoTo(loop) == at' = loop /\ UNCHANGED <<algorithm, n, second>>
Return == GoTo("done") /\ UNCHANGED <<place, lo, hi>>

-----------------------------------------------------------------------------
(* _partitionImpl.  The loop for lo looks at self[lo] while lo < hi, ...   *)
FindLo ==
  /\ at = "findLo" /\ lo < hi
  /\ IF place[lo] \in second
     THEN GoTo("findHi") /\ hi' = hi - 1 /\ UNCHANGED lo
     ELSE GoTo("findLo") /\ lo' = lo + 1 /\ UNCHANGED hi
  /\ UNCHANGED place

(* Mutant: after a swap the loop goes on from above and never looks at the *)
(* element at the new lo.                                                  *)
FindHiThenStay ==
  /\ at = "findHi" /\ lo < hi
  /\ IF place[hi] \in second
     THEN GoTo("findHi") /\ UNCHANGED <<place, lo>>
     ELSE GoTo("findHi") /\ SwapAt(lo, hi) /\ lo' = lo + 1
  /\ hi' = hi - 1

(* ... the loop for hi at self[hi], and where both find an element that    *)
(* stands on the wrong side the two change places.                         *)
FindHi ==
  /\ at = "findHi" /\ lo < hi
  /\ IF place[hi] \in second
     THEN GoTo("findHi") /\ hi' = hi - 1 /\ UNCHANGED <<place, lo>>
     ELSE GoTo("findLo") /\ SwapAt(lo, hi) /\ lo' = lo + 1 /\ UNCHANGED hi

Meet == at \in {"findLo", "findHi"} /\ lo >= hi /\ Return

(* _halfStablePartition: firstIndex(where:), ...                           *)
FindFirst ==
  /\ at = "first" /\ lo < n
  /\ IF place[lo] \in second
     THEN GoTo("rest") /\ hi' = lo + 1 /\ UNCHANGED lo
     ELSE GoTo("first") /\ lo' = lo + 1 /\ UNCHANGED hi
  /\ UNCHANGED place

(* ... then every later element of the first part is swapped forward.      *)
MoveForward ==
  /\ at = "rest" /\ hi < n
  /\ IF place[hi] \in second
     THEN UNCHANGED <<place, lo>>
     ELSE SwapAt(lo, hi) /\ lo' = lo + 1
  /\ GoTo("rest") /\ hi' = hi + 1

EndOfCollection ==
  \/ at = "first" /\ lo = n /\ Return
  \/ at = "rest" /\ hi = n /\ Return

AsksPredicate ==
  \/ at \in {"findLo", "findHi"} /\ lo < hi
  \/ at = "first" /\ lo < n
  \/ at = "rest" /\ hi < n

(* The predicate throws and the function rethrows. *)
Throw == AsksPredicate /\ GoTo("thrown") /\ UNCHANGED <<place, lo, hi>>

-----------------------------------------------------------------------------
ShuffleStep ==
  /\ at = "shuffle" /\ hi > 1
  /\ \E random \in Indices(hi) : SwapAt(lo, lo + random)
  /\ GoTo("shuffle") /\ lo' = lo + 1 /\ hi' = hi - 1

ReverseStep ==
  /\ at = "reverse" /\ lo < hi
  /\ SwapAt(lo, hi)
  /\ GoTo("reverse") /\ lo' = lo + 1 /\ hi' = hi - 1

EndOfLoop ==
  \/ at = "shuffle" /\ hi <= 1 /\ Return
  \/ at = "reverse" /\ lo >= hi /\ Return

Calls ==
  \E m \in 0 .. MaxCount :
    \/ \E s \in SUBSET Indices(m) : Partition(m, s) \/ HalfStablePartition(m, s)
    \/ Shuffle(m) \/ Reverse(m)

Loops ==
  \/ FindLo \/ FindHi \/ Meet
  \/ FindFirst \/ MoveForward \/ EndOfCollection \/ Throw
  \/ ShuffleStep \/ ReverseStep \/ EndOfLoop

ReorderingNext == Calls \/ Loops

ReorderingSpec == ReorderingInit /\ [][ReorderingNext]_reordering

-----------------------------------------------------------------------------
(* No element is lost or doubled, between any two calls of the predicate   *)
(* and also when it throws with the work half done.                        *)
EveryElementKept ==
  /\ place \in [Indices(n) -> Indices(n)]
  /\ \A e \in Indices(n) : \E i \in Indices(n) : place[i] = e

(* partition returns the index at which the second part begins. *)
Splits ==
  at = "done" /\ algorithm \in {"partition", "halfStable"} =>
    \A i \in Indices(n) : i >= lo <=> place[i] \in second

(* The half-stable one leaves the first part in its order. *)
FirstPartStable ==
  at = "done" /\ algorithm = "halfStable" =>
    \A i, j \in Indices(lo) : i < j => place[i] < place[j]

Reversed ==
  at = "done" /\ algorithm = "reverse" =>
    \A i \in Indices(n) : place[i] = n - 1 - i

(* What the four functions promise when they return, at every length, for  *)
(* every predicate: both index pairs end where the parts meet.             *)
ReturnsWhatItPromises == Splits /\ FirstPartStable /\ Reversed
=============================================================================
