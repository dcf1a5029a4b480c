------------------------------- MODULE Strides -------------------------------
(***************************************************************************)
(* stride(from:to:by:) and stride(from:through:by:) of src/Stride.swift    *)
(* over a fixed-width integer type.  Its + keeps the low bits of the sum   *)
(* (src/IntegerMath.swift), so an iterator that steps past the end of the  *)
(* type comes back at the other end of it.                                 *)
(***************************************************************************)
EXTENDS Integers, Sequences

CONSTANTS
  Lowest, Highest,      (* the range of the integer type                   *)
  Distances,            (* the distances to stride by                      *)
  MaxTerms              (* bound on the calls of next()                    *)

Values == Lowest .. Highest

ASSUME StridesAssumption ==
  /\ Lowest \in Int /\ Highest \in Int /\ Lowest <= Highest
  /\ Distances \subseteq Int /\ MaxTerms \in Nat

VARIABLES
  form,            (* "to", "through", or "none" before the call           *)
  start, end, by,
  current,         (* the iterator: the next value, ...                    *)
  didReturnEnd,    (* ... and whether `through` has given its end          *)
  terms,           (* what next() has returned so far                      *)
  ended            (* next() has returned nil                              *)

striding == <<form, start, end, by, current, didReturnEnd, terms, ended>>

StridesInit ==
  /\ form = "none" /\ start = Lowest /\ end = Lowest /\ by = 0
  /\ current = Lowest /\ didReturnEnd = FALSE
  /\ terms = <<>> /\ ended = FALSE

MakeIterator(f, s, e, b) ==
  /\ form = "none"
  /\ form' = f /\ start' = s /\ end' = e /\ by' = b
  /\ current' = s
  /\ UNCHANGED <<didReturnEnd, terms, ended>>

StrideTo(s, e, b) == MakeIterator("to", s, e, b)

(* Its precondition that the distance is not 0 stops the program only in   *)
(* builds whose preconditions trap.                                        *)
StrideThrough(s, e, b) == MakeIterator("through", s, e, b)

Advanced(x, n) == Lowest + ((x + n - Lowest) % (Highest - Lowest + 1))

AtEnd == IF by > 0 THEN current >= end ELSE current <= end

Yield ==
  /\ terms' = Append(terms, current)
  /\ UNCHANGED <<form, start, end, by, ended>>

Step == Yield /\ current' = Advanced(current, by) /\ UNCHANGED didReturnEnd

EndOfStride ==
  ended' = TRUE /\ UNCHANGED <<form, start, end, by, current, didReturnEnd, terms>>

NextTo ==
  /\ form = "to"
  /\ IF AtEnd THEN EndOfStride ELSE Step

(* Mutant: > and < in the test, which the comment there warns of.          *)
NextThroughPastEnd ==
  /\ form = "through"
  /\ IF (IF by > 0 THEN current > end ELSE current < end) THEN EndOfStride ELSE Step

(* The end itself is returned without another step. *)
NextThrough ==
  /\ form = "through"
  /\ IF ~AtEnd THEN Step
     ELSE IF current = end /\ ~didReturnEnd
            THEN Yield /\ didReturnEnd' = TRUE /\ UNCHANGED current
     ELSE EndOfStride

(* The iterator may be asked again after its end. *)
NextTerm == Len(terms) < MaxTerms /\ (NextTo \/ NextThrough)

AskedEnough == Len(terms) = MaxTerms /\ UNCHANGED striding

StridesNext ==
  \/ \E s, e \in Values, b \in Distances : StrideTo(s, e, b) \/ StrideThrough(s, e, b)
  \/ NextTerm
  \/ AskedEnough

StridesSpec == StridesInit /\ [][StridesNext]_striding

-----------------------------------------------------------------------------
(* The bounds on which _customContainsEquatableElement gives up at once,   *)
(* whatever the direction of the stride.                                   *)
OutsideBounds(x) == x < start \/ IF form = "to" THEN end <= x ELSE end < x

(* Sequence.contains: that answer, or else a search through the iterator.  *)
Contains(x) == ~OutsideBounds(x) /\ \E k \in DOMAIN terms : terms[k] = x

(* The arithmetic progression without any width.                           *)
Term(k) == start + (k - 1) * by

Belongs(x) ==
  CASE by > 0 /\ form = "to" -> x < end
    [] by > 0 /\ form = "through" -> x <= end
    [] by < 0 /\ form = "to" -> x > end
    [] OTHER -> x >= end

(* The type can hold the first term at or past the end, so no step wraps.  *)
EndIsRepresentable ==
  \E k \in 1 .. Highest - Lowest + 2 :
    /\ IF form = "to" THEN ~Belongs(Term(k)) ELSE ~Belongs(Term(k)) \/ Term(k) = end
    /\ Term(k) \in Values

(* A stride yields every term of its progression, nothing else, and ends:  *)
(* at both ends of the type, in both directions, however often the         *)
(* iterator is asked; and an ascending one contains what it yields.        *)
YieldsTheTerms ==
  by # 0 /\ EndIsRepresentable =>
    /\ \A k \in DOMAIN terms : terms[k] = Term(k) /\ Belongs(Term(k))
    /\ ended => ~Belongs(Term(Len(terms) + 1))
    /\ ended /\ by > 0 => \A x \in Values : Contains(x) <=> \E k \in DOMAIN terms : Term(k) = x
=============================================================================
