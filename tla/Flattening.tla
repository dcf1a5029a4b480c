------------------------------ MODULE Flattening ------------------------------
(***************************************************************************)
(* FlattenSequence and FlattenCollection (src/Flatten.swift): the elements *)
(* of a collection of collections in one row.  An index is a pair of the   *)
(* outer position and, except at the end, the position within the inner    *)
(* collection there; empty inner collections have no index at all, and     *)
(* every movement has to get past them.                                    *)
(*                                                                         *)
(* Two cursors walk over one such collection, and an iterator.             *)
(***************************************************************************)
EXTENDS Integers, Sequences, FiniteSets

CONSTANTS
  MaxOuter, MaxInner,   (* bounds on the sizes of the collections          *)
  MaxOffset,            (* bound on the n of index(_:offsetBy:)            *)
  Nil

ASSUME FlatteningAssumption ==
  /\ MaxOuter \in Nat /\ MaxInner \in Nat /\ MaxOffset \in Nat
  /\ Nil \notin Int /\ Nil \notin [outer : Int, inner : Int \cup {Nil}]

VARIABLES
  size,       (* the sizes of the inner collections, outer positions 0, 1, *)
  cursor,     (* two indices                                               *)
  steps,      (* how far each has been moved from startIndex, net          *)
  base,       (* the iterator: the inner collections it has taken, ...     *)
  inner,      (* ... how much of the last one it has returned, ...         *)
  returned    (* ... and how often next() has returned an element          *)

flattening == <<size, cursor, steps, base, inner, returned>>

Cursors == {1, 2}
OuterPositions(sz) == 0 .. Len(sz) - 1
SizeOf(sz, outer) == sz[outer + 1]

Index(outer, i) == [outer |-> outer, inner |-> i]
EndIndex(sz) == Index(Len(sz), Nil)

NonEmpty(sz) == {o \in OuterPositions(sz) : SizeOf(sz, o) > 0}

(* The loops of startIndex and _index(after:) over the inner collections   *)
(* from `outer` on end at the first that has an element.                   *)
FirstFrom(sz, outer) ==
  LET left == {o \in NonEmpty(sz) : o >= outer}
  IN  IF left = {} THEN EndIndex(sz) ELSE Index(CHOOSE o \in left : \A p \in left : o <= p, 0)

StartIndex(sz) == FirstFrom(sz, 0)

(* Mutant: the next inner collection is taken without asking whether it is *)
(* empty.                                                                  *)
IndexAfterUnasked(sz, i) ==
  IF i.inner + 1 < SizeOf(sz, i.outer) THEN Index(i.outer, i.inner + 1)
  ELSE IF i.outer + 1 < Len(sz) THEN Index(i.outer + 1, 0) ELSE EndIndex(sz)

IndexAfter(sz, i) ==
  IF i.inner + 1 < SizeOf(sz, i.outer)
    THEN Index(i.outer, i.inner + 1)
    ELSE FirstFrom(sz, i.outer + 1)

(* Where there is no element before it in its inner collection, the loop   *)
(* of _index(before:) goes back to the last collection that has one.       *)
IndexBefore(sz, i) ==
  LET passed == {o \in NonEmpty(sz) : o < i.outer}
      last == CHOOSE o \in passed : \A p \in passed : p <= o
  IN  IF i.inner # Nil /\ i.inner > 0 THEN Index(i.outer, i.inner - 1)
      ELSE Index(last, SizeOf(sz, last) - 1)

(* < on indices: inner positions count where the outer ones are equal.     *)
Before(i, j) ==
  \/ i.outer < j.outer
  \/ i.outer = j.outer /\ i.inner # Nil /\ j.inner # Nil /\ i.inner < j.inner

Magnitude(n) == IF n < 0 THEN -n ELSE n

AdvanceIndex(sz, i, n) == IF n < 0 THEN IndexBefore(sz, i) ELSE IndexAfter(sz, i)

(* _advanceIndex, n times towards the side n points to. *)
OffsetBy(sz, i, n) ==
  LET walked[k \in 0 .. Magnitude(n)] == IF k = 0 THEN i ELSE AdvanceIndex(sz, walked[k - 1], n)
  IN  walked[Magnitude(n)]

(* ... and Nil if the limit is in the way. *)
OffsetByLimited(sz, i, n, limit) ==
  LET walked[k \in 0 .. Magnitude(n)] ==
        IF k = 0 THEN i
        ELSE IF walked[k - 1] \in {Nil, limit} THEN Nil ELSE AdvanceIndex(sz, walked[k - 1], n)
  IN  walked[Magnitude(n)]

(* The row of all elements, which is what the indices have to amount to.   *)
Row(sz) ==
  {i \in [outer : OuterPositions(sz), inner : 0 .. MaxInner - 1] : i.inner < SizeOf(sz, i.outer)}

(* distance(from:to:) counts the steps from the smaller index to the       *)
(* larger, until it is there.                                              *)
Steps(sz, i, j) ==
  CHOOSE n \in 0 .. Cardinality(Row(sz)) :
    OffsetBy(sz, i, n) = j /\ \A m \in 0 .. n - 1 : OffsetBy(sz, i, m) # j

Distance(sz, i, j) == IF Before(j, i) THEN -Steps(sz, j, i) ELSE Steps(sz, i, j)

-----------------------------------------------------------------------------
FlatteningInit ==
  /\ size \in UNION {[1 .. m -> 0 .. MaxInner] : m \in 0 .. MaxOuter}
  /\ cursor = [c \in Cursors |-> StartIndex(size)]
  /\ steps = [c \in Cursors |-> 0]
  /\ base = 0 /\ inner = 0 /\ returned = 0

RowLength == Cardinality(Row(size))

Preceding(sz, i) ==
  {j \in Row(sz) : j.outer < i.outer \/ (j.outer = i.outer /\ j.inner < i.inner)}

PositionOf(i) == Cardinality(Preceding(size, i))

Put(c, i, moved) ==
  /\ cursor' = [cursor EXCEPT ![c] = i]
  /\ steps' = [steps EXCEPT ![c] = @ + moved]
  /\ UNCHANGED <<size, base, inner, returned>>

FormIndexAfter(c) == steps[c] < RowLength /\ Put(c, IndexAfter(size, cursor[c]), 1)
FormIndexBefore(c) == steps[c] > 0 /\ Put(c, IndexBefore(size, cursor[c]), -1)

FormOffset(c, n) ==
  /\ steps[c] + n \in 0 .. RowLength
  /\ Put(c, OffsetBy(size, cursor[c], n), n)

(* formIndex(_:offsetBy:limitedBy:) comes no further than the limit, here  *)
(* the other cursor, if that lies on the side n points to.                 *)
FormLimited(c, d, n) ==
  LET reached == OffsetByLimited(size, cursor[c], n, cursor[d])
      gap == steps[d] - steps[c]
      ahead == IF n < 0 THEN gap <= 0 ELSE gap >= 0
      stops == ahead /\ Magnitude(n) > Magnitude(gap)
  IN  /\ c # d
      /\ stops \/ steps[c] + n \in 0 .. RowLength
      /\ Put(c, IF reached = Nil THEN cursor[d] ELSE reached, IF stops THEN gap ELSE n)

(* Iterator.next(): the next of this inner collection, or the first of the *)
(* next one that has any.                                                  *)
IteratorNext ==
  LET following == FirstFrom(size, base)
  IN  /\ IF base > 0 /\ inner < SizeOf(size, base - 1)
         THEN inner' = inner + 1 /\ returned' = returned + 1 /\ UNCHANGED base
         ELSE IF following # EndIndex(size)
         THEN base' = following.outer + 1 /\ inner' = 1 /\ returned' = returned + 1
         ELSE base' = Len(size) /\ inner' = (IF base = Len(size) THEN inner ELSE 0)
                /\ UNCHANGED returned
      /\ UNCHANGED <<size, cursor, steps>>

Offsets == -MaxOffset .. MaxOffset

FlatteningNext ==
  \/ \E c \in Cursors : FormIndexAfter(c) \/ FormIndexBefore(c)
  \/ \E c \in Cursors, n \in Offsets : FormOffset(c, n)
  \/ \E c, d \in Cursors, n \in Offsets : FormLimited(c, d, n)
  \/ IteratorNext

FlatteningSpec == FlatteningInit /\ [][FlatteningNext]_flattening

-----------------------------------------------------------------------------
(* Wherever the cursors have been moved, forwards and backwards, by one or *)
(* by many, each stands at an element or at the end, as many elements from *)
(* the start as it was moved, so that there is one way to write an index   *)
(* and == is right; distance and < agree with that; and the iterator comes *)
(* to the same elements in the same order.                                 *)
IndicesFollowTheRow ==
  /\ \A c \in Cursors :
       /\ cursor[c] \in Row(size) \cup {EndIndex(size)}
       /\ PositionOf(cursor[c]) = steps[c]
  /\ \A c, d \in Cursors :
       /\ Distance(size, cursor[c], cursor[d]) = steps[d] - steps[c]
       /\ Before(cursor[c], cursor[d]) <=> steps[c] < steps[d]
  /\ IF inner > 0 THEN returned = PositionOf(Index(base - 1, inner - 1)) + 1
     ELSE base > 0 => returned = RowLength
=============================================================================
