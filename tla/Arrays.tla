------------------------------- MODULE Arrays -------------------------------
(***************************************************************************)
(* Array, ArraySlice and the storage they share: src/Array.swift,          *)
(* src/ArraySlice.swift, src/ContiguousArrayBuffer.swift,                  *)
(* src/SliceBuffer.swift, src/ArrayShared.swift, src/ArrayBody.swift.      *)
(*                                                                         *)
(* uSwift arrays have a fixed size and are never copied on write: a copy   *)
(* of an array, a slice of it and the array itself are views of one        *)
(* storage object.  Elements are class instances, so that every place of   *)
(* a storage that is initialised owns a reference that must be released.   *)
(*                                                                         *)
(* Storage objects die with their last reference, as StrongReferences      *)
(* promises; here the references are the views, the buffers that a         *)
(* constructor is still filling and the arrays lent to a closure.          *)
(***************************************************************************)
EXTENDS Integers, FiniteSets

CONSTANTS
  Cells,               (* memory for _ContiguousArrayStorage objects        *)
  Empty,               (* the shared _swiftEmptyArrayStorage                *)
  Vars,                (* variables of type Array or ArraySlice             *)
  Elems,               (* class instances stored in arrays                  *)
  Uninit,              (* the content of memory that holds no element       *)
  Nil,
  MaxCount,            (* bound on the capacity of a storage                *)
  Hooks,               (* out-of-bounds handlers: "none", "clamp"           *)
  TrapOnPrecondition,  (* is SHOULD_TRAP_ON_PRECONDITION defined?           *)
  SliceToEnd,          (* may a range reach endIndex of what it slices?     *)
  RepeatSlices         (* may ArraySlice(repeating:count:) have count > 0? *)

Storages == Cells \cup {Empty}
Places == 0 .. MaxCount      (* one more than any capacity *)

(* An array or slice, a constructor's buffer, what a closure works on, and *)
(* a storage object.                                                       *)
Views == [kind : {"array", "slice"}, owner : Storages, lo : Places, hi : 0 .. MaxCount + 1]
Makings == [how : {"literal", "closure", "sequence"}, owner : Storages,
            done : 0 .. MaxCount, promised : 0 .. MaxCount]
Loans == [view : Views, count : 0 .. MaxCount + 1]
StorageObjects == [capacity : 0 .. MaxCount, count : 0 .. MaxCount,
                   place : [Places -> Elems \cup {Uninit}]]

ASSUME ArraysAssumption ==
  /\ MaxCount \in Nat /\ MaxCount > 0 /\ IsFiniteSet(Cells)
  /\ Empty \notin Cells /\ Uninit \notin Elems
  /\ Hooks \subseteq {"none", "clamp"}
  /\ {TrapOnPrecondition, SliceToEnd, RepeatSlices} \subseteq BOOLEAN
  /\ Nil \notin Views /\ Nil \notin Makings /\ Nil \notin Loans

VARIABLES
  storage,  (* each storage object: capacity, count and its places          *)
  view,     (* the array or slice in each variable, or Nil                  *)
  making,   (* the constructor at work on a variable's first value, or Nil  *)
  lent,     (* what withUnsafeMutableBufferPointer took from a variable     *)
  owned,    (* per element, how many references array memory has retained   *)
  corrupt,  (* was memory that holds no element used as an element?         *)
  trapped   (* why the program stopped, or Nil                              *)

vars == <<storage, view, making, lent, owned, corrupt, trapped>>

-----------------------------------------------------------------------------
Blank == [i \in Places |-> Uninit]
Free == [capacity |-> 0, count |-> 0, place |-> Blank]
Fresh(capacity, count) == [capacity |-> capacity, count |-> count, place |-> Blank]
FreeCells == {s \in Cells : storage[s].capacity = 0}

WholeArray(s) == [kind |-> "array", owner |-> s, lo |-> 0, hi |-> 0]
SliceOf(s, lo, hi) == [kind |-> "slice", owner |-> s, lo |-> lo, hi |-> hi]

(* endIndex: an array asks its storage, a slice carries its own bounds. *)
EndIndex(w) == IF w.kind = "array" THEN storage[w.owner].count ELSE w.hi
Count(w) == EndIndex(w) - w.lo

EmptyOf(w) == [kind |-> w.kind, owner |-> Empty, lo |-> 0, hi |-> 0]

Holds(st, e) == {p \in Cells \X Places : st[p[1]].place[p[2]] = e}

Retain(e, n) == [owned EXCEPT ![e] = @ + n]

(* A storage object with e in place i; with its count set; the buffer of a *)
(* constructor with one element more.                                      *)
WithPlace(r, i, e) == [r EXCEPT !.place = [r.place EXCEPT ![i] = e]]
WithCount(r, n) == [r EXCEPT !.count = n]
Advanced(m) == [m EXCEPT !.done = @ + 1]

(* The elements of a storage object moved away or were destroyed. *)
Emptied(r) == [capacity |-> r.capacity, count |-> 0, place |-> Blank]

(* Mutant: the array lent to a closure is not kept alive by the loan.      *)
OwnersWithoutWork(vw, mk, ln) ==
  {vw[v].owner : v \in {v \in Vars : vw[v] # Nil}}
    \cup {mk[v].owner : v \in {v \in Vars : mk[v] # Nil}}

(* The storages that something still refers to. *)
Owners(vw, mk, ln) ==
  {vw[v].owner : v \in {v \in Vars : vw[v] # Nil}}
    \cup {mk[v].owner : v \in {v \in Vars : mk[v] # Nil}}
    \cup {ln[v].view.owner : v \in {v \in Vars : ln[v] # Nil}}

Init ==
  /\ storage = [s \in Storages |-> Free]
  /\ view = [v \in Vars |-> Nil]
  /\ making = [v \in Vars |-> Nil]
  /\ lent = [v \in Vars |-> Nil]
  /\ owned = [e \in Elems |-> 0]
  /\ corrupt = FALSE
  /\ trapped = Nil

(* The end of every step: the storages that lost their last reference run  *)
(* their deinit, which releases the first `count` places, and are freed.   *)
(* `used` tells whether the step itself took garbage for an element.       *)
Settle(vw, mk, ln, st, own, used) ==
  LET dead == {s \in Cells : st[s].capacity > 0 /\ s \notin Owners(vw, mk, ln)}
      destroyed == {p \in dead \X Places : p[2] < st[p[1]].count}
  IN  /\ ~corrupt /\ trapped = Nil
      /\ view' = vw /\ making' = mk /\ lent' = ln
      /\ storage' = [s \in Storages |-> IF s \in dead THEN Free ELSE st[s]]
      /\ owned' = [e \in Elems |->
                     own[e] - Cardinality(Holds(st, e) \cap destroyed)]
      /\ corrupt' = (used \/ \E p \in destroyed : st[p[1]].place[p[2]] = Uninit)
      /\ UNCHANGED trapped

Trap(why) ==
  /\ ~corrupt /\ trapped = Nil
  /\ trapped' = why
  /\ UNCHANGED <<storage, view, making, lent, owned, corrupt>>

Declared(v) == view[v] = Nil /\ making[v] = Nil

Define(v, w, st, own, used) ==
  /\ Declared(v)
  /\ Settle([view EXCEPT ![v] = w], making, lent, st, own, used)

(* swift_allocObject runs out of memory. *)
OutOfMemory == FreeCells = {} /\ Trap("memory")

-----------------------------------------------------------------------------
(* Array(repeating:count:): the count is set, then the places are filled. *)
ArrayRepeating(v, e, n) ==
  IF n = 0 THEN Define(v, WholeArray(Empty), storage, owned, FALSE)
  ELSE \E s \in FreeCells :
         LET new == [Fresh(n, n) EXCEPT !.place = [i \in Places |-> IF i < n THEN e ELSE Uninit]]
         IN  Define(v, WholeArray(s), [storage EXCEPT ![s] = new], Retain(e, n), FALSE)

(* ArraySlice(repeating:count:): the buffer is made with count 0, the slice *)
(* takes its bounds from it, and setting the count of a slice does nothing. *)
SliceRepeating(v, e, n) ==
  IF n = 0 THEN Define(v, SliceOf(Empty, 0, 0), storage, owned, FALSE)
  ELSE \E s \in IF RepeatSlices THEN FreeCells ELSE {} :
         LET new == [Fresh(n, 0) EXCEPT !.place = [i \in Places |-> IF i < n THEN e ELSE Uninit]]
         IN  Define(v, SliceOf(s, 0, 0), [storage EXCEPT ![s] = new], Retain(e, n), FALSE)

(* The constructors that run program code while the buffer is being filled *)
(* start alike: a buffer whose count is already its capacity.              *)
Begin(v, how, n) ==
  /\ Declared(v)
  /\ \E s \in IF n = 0 THEN {Empty} ELSE FreeCells :
       Settle(view,
              [making EXCEPT ![v] = [how |-> how, owner |-> s, done |-> 0, promised |-> n]],
              lent,
              IF n = 0 THEN storage ELSE [storage EXCEPT ![s] = Fresh(n, n)],
              owned, FALSE)

BeginLiteral(v, n) == Begin(v, "literal", n)
BeginUnsafe(v, n) == Begin(v, "closure", n)
BeginSequence(v, n) == Begin(v, "sequence", n)

(* The next element is evaluated and stored. *)
StoreElement(v, e) ==
  /\ making[v] # Nil
  /\ LET m == making[v] IN
       /\ m.done < storage[m.owner].capacity
       /\ Settle(view, [making EXCEPT ![v] = Advanced(m)], lent,
                 [storage EXCEPT ![m.owner] = WithPlace(@, m.done, e)], Retain(e, 1), FALSE)

(* Mutant: the moved-from buffer keeps its count. *)
GrowForgettingOld(v, e) ==
  /\ making[v] # Nil /\ making[v].how = "sequence"
  /\ LET m == making[v]
         old == storage[m.owner]
         wider == IF old.capacity = 0 THEN 1 ELSE 2 * old.capacity
         new == [Fresh(wider, wider) EXCEPT !.place = [old.place EXCEPT ![m.done] = e]]
     IN  /\ m.done = old.capacity /\ wider <= MaxCount
         /\ \E s \in FreeCells :
              Settle(view, [making EXCEPT ![v] = [Advanced(m) EXCEPT !.owner = s]], lent,
                     [storage EXCEPT ![s] = new, ![m.owner] = [@ EXCEPT !.place = Blank]],
                     Retain(e, 1), FALSE)

(* The builder has no place left: its elements move to a buffer of twice   *)
(* the capacity, whose count is again its capacity.                        *)
Grow(v, e) ==
  /\ making[v] # Nil /\ making[v].how = "sequence"
  /\ LET m == making[v]
         old == storage[m.owner]
         wider == IF old.capacity = 0 THEN 1 ELSE 2 * old.capacity
         new == [Fresh(wider, wider) EXCEPT !.place = [old.place EXCEPT ![m.done] = e]]
     IN  /\ m.done = old.capacity /\ wider <= MaxCount
         /\ \E s \in FreeCells :
              Settle(view, [making EXCEPT ![v] = [Advanced(m) EXCEPT !.owner = s]], lent,
                     [storage EXCEPT ![s] = new, ![m.owner] = Emptied(@)],
                     Retain(e, 1), FALSE)

FinishLiteral(v) ==
  /\ making[v] # Nil /\ making[v].how = "literal"
  /\ making[v].done = making[v].promised
  /\ Settle([view EXCEPT ![v] = WholeArray(making[v].owner)],
            [making EXCEPT ![v] = Nil], lent, storage, owned, FALSE)

(* An element expression throws: the compiler destroys the elements stored *)
(* so far and hands the buffer to _deallocateUninitializedArray.           *)
ThrowLiteral(v) ==
  /\ making[v] # Nil /\ making[v].how = "literal"
  /\ LET s == making[v].owner
         placed(e) == {i \in Places : storage[s].place[i] = e}
     IN  Settle(view, [making EXCEPT ![v] = Nil], lent,
                [storage EXCEPT ![s] = Emptied(@)],
                [e \in Elems |-> owned[e] - Cardinality(placed(e))], FALSE)

(* Mutants: the deferred block forgets to set the count; it is off by one. *)
CountKept(v) == storage
CountOneMore(v) == [storage EXCEPT ![making[v].owner] = WithCount(@, making[v].done + 1)]

(* The count is set to what the initializer says it has initialised, or    *)
(* what the builder has left of its capacity; whether by return or throw.  *)
CountDone(v) == [storage EXCEPT ![making[v].owner] = WithCount(@, making[v].done)]

FinishUnsafe(v) ==
  /\ making[v] # Nil /\ making[v].how = "closure"
  /\ Settle([view EXCEPT ![v] = WholeArray(making[v].owner)],
            [making EXCEPT ![v] = Nil], lent, CountDone(v), owned, FALSE)

ThrowUnsafe(v) ==
  /\ making[v] # Nil /\ making[v].how = "closure"
  /\ Settle(view, [making EXCEPT ![v] = Nil], lent, CountDone(v), owned, FALSE)

(* The initializer says it has initialised more than there is room for, or *)
(* has replaced its inout buffer pointer.                                  *)
UnsafeRejected(v) ==
  /\ TrapOnPrecondition
  /\ making[v] # Nil /\ making[v].how = "closure"
  /\ Trap("initializer")

FinishSequence(v) ==
  /\ making[v] # Nil /\ making[v].how = "sequence"
  /\ making[v].done >= making[v].promised
  /\ Settle([view EXCEPT ![v] = WholeArray(making[v].owner)],
            [making EXCEPT ![v] = Nil], lent, CountDone(v), owned, FALSE)

(* A sequence that ends before its underestimatedCount: next()! of nil. *)
SequenceTooShort(v) ==
  /\ making[v] # Nil /\ making[v].how = "sequence"
  /\ making[v].done < making[v].promised
  /\ Trap("sequence")

-----------------------------------------------------------------------------
(* v = w: both are views of the same storage from now on. *)
Assign(v, w) ==
  /\ v # w /\ making[v] = Nil
  /\ view[w] # Nil
  /\ view[v] # Nil => view[v].kind = view[w].kind
  /\ Settle([view EXCEPT ![v] = view[w]], making, lent, storage, owned, FALSE)

Drop(v) ==
  /\ view[v] # Nil /\ lent[v] = Nil
  /\ Settle([view EXCEPT ![v] = Nil], making, lent, storage, owned, FALSE)

(* ArraySlice(array): bounds 0 ..< count of the same storage. *)
SliceWhole(v, w) ==
  /\ view[w] # Nil /\ view[w].kind = "array"
  /\ Define(v, SliceOf(view[w].owner, 0, Count(view[w])), storage, owned, FALSE)

(* Mutant: the bounds of a sub-slice are taken relative to its parent.     *)
RangeWithin(w, a, b) == SliceOf(w.owner, a, b + 1 + w.lo)

(* w[a ..< b] passes a ... b on to the buffer, whose range subscript turns *)
(* it into a ..< b + 1.                                                    *)
RangeOf(w, a, b) == SliceOf(w.owner, a, b + 1)

ValidIndex(w, i) == i <= EndIndex(w) /\ i >= w.lo

Slice(v, w, a, b) ==
  /\ view[w] # Nil /\ a <= b
  /\ ValidIndex(view[w], a) /\ ValidIndex(view[w], b)
  /\ SliceToEnd \/ b < EndIndex(view[w])
  /\ Define(v, RangeOf(view[w], a, b), storage, owned, FALSE)

(* Without SHOULD_TRAP_ON_PRECONDITION nobody looks at the bounds; the     *)
(* program is taken to keep to them.                                       *)
SliceOutOfRange(v, w, a, b) ==
  /\ TrapOnPrecondition
  /\ Declared(v) /\ view[w] # Nil
  /\ ~(ValidIndex(view[w], a) /\ ValidIndex(view[w], b))
  /\ Trap("range")

(* Array(slice): a slice as long as its storage gives the storage itself,  *)
(* an empty one the empty array, any other one a copy.                     *)
ArrayOfSlice(v, w) ==
  /\ view[w] # Nil /\ view[w].kind = "slice"
  /\ LET s == view[w]
         n == Count(s)
         from(i) == storage[s.owner].place[s.lo + i]
         copied == [i \in Places |-> IF i < n THEN from(i) ELSE Uninit]
         copies(e) == Cardinality({i \in Places : copied[i] = e})
     IN  IF n = storage[s.owner].count
           THEN Define(v, WholeArray(s.owner), storage, owned, FALSE)
         ELSE IF n = 0
           THEN Define(v, WholeArray(Empty), storage, owned, FALSE)
         ELSE \E c \in FreeCells :
                Define(v, WholeArray(c),
                       [storage EXCEPT ![c] = [Fresh(n, n) EXCEPT !.place = copied]],
                       [e \in Elems |-> owned[e] + copies(e)],
                       \E i \in 0 .. n - 1 : copied[i] = Uninit)

-----------------------------------------------------------------------------
(* _microswift_array_out_of_bounds: the weak version does nothing, the one *)
(* of wrapping_array_handler moves the index to the nearest valid one.     *)
Handler(hook, i, lower, upper) ==
  IF hook = "none" THEN i
  ELSE IF i < lower \/ upper = 0 THEN lower
  ELSE IF i >= upper THEN upper - 1 ELSE i

(* _checkValidSubscript: out of bounds the handler may move the index; an  *)
(* index still out of bounds fails the condfail.                           *)
Checked(hook, w, i) ==
  IF i < w.lo \/ EndIndex(w) = 0 \/ i >= EndIndex(w)
    THEN Handler(hook, i, w.lo, EndIndex(w)) ELSE i

InBounds(w, i) == i >= w.lo /\ i < EndIndex(w)

BadSubscript(v, hook, i) ==
  /\ view[v] # Nil
  /\ ~InBounds(view[v], Checked(hook, view[v], i))
  /\ Trap("index")

Get(v, hook, i) ==
  /\ view[v] # Nil
  /\ LET j == Checked(hook, view[v], i)
     IN  /\ InBounds(view[v], j)
         /\ Settle(view, making, lent, storage, owned,
                   storage[view[v].owner].place[j] = Uninit)

(* Mutant: the element that was there is not released. *)
WriteOver(s, i, e) ==
  Settle(view, making, lent, [storage EXCEPT ![s] = WithPlace(@, i, e)], Retain(e, 1),
         storage[s].place[i] = Uninit)

(* Assigning to a place releases the element that was there. *)
Write(s, i, e) ==
  LET old == storage[s].place[i]
  IN  Settle(view, making, lent, [storage EXCEPT ![s] = WithPlace(@, i, e)],
             [x \in Elems |-> owned[x] + (IF x = e THEN 1 ELSE 0)
                                       - (IF x = old THEN 1 ELSE 0)],
             old = Uninit)

Modify(v, hook, i, e) ==
  /\ view[v] # Nil
  /\ LET j == Checked(hook, view[v], i)
     IN  InBounds(view[v], j) /\ Write(view[v].owner, j, e)

-----------------------------------------------------------------------------
(* withUnsafeMutableBufferPointer: the buffer moves to `work`, the variable *)
(* reads as empty while the body runs, and both are swapped back after it. *)
BeginMutate(v) ==
  /\ view[v] # Nil /\ lent[v] = Nil
  /\ Settle([view EXCEPT ![v] = EmptyOf(@)], making,
            [lent EXCEPT ![v] = [view |-> view[v], count |-> Count(view[v])]],
            storage, owned, FALSE)

PointerWrite(v, i, e) ==
  /\ lent[v] # Nil
  /\ i < lent[v].count
  /\ Write(lent[v].view.owner, lent[v].view.lo + i, e)

(* Whatever the body assigned to the variable is dropped. *)
EndMutate(v) ==
  /\ lent[v] # Nil
  /\ Settle([view EXCEPT ![v] = lent[v].view], making, [lent EXCEPT ![v] = Nil],
            storage, owned, FALSE)

(* The body replaced its inout buffer pointer. *)
PointerReplaced(v) == TrapOnPrecondition /\ lent[v] # Nil /\ Trap("pointer")

Indices == -1 .. MaxCount

Stopped == (corrupt \/ trapped # Nil) /\ UNCHANGED vars

Construct(v) ==
  \/ \E e \in Elems, n \in 0 .. MaxCount : ArrayRepeating(v, e, n) \/ SliceRepeating(v, e, n)
  \/ \E n \in 0 .. MaxCount : BeginLiteral(v, n) \/ BeginUnsafe(v, n) \/ BeginSequence(v, n)
  \/ \E e \in Elems : StoreElement(v, e) \/ Grow(v, e)
  \/ FinishLiteral(v) \/ ThrowLiteral(v)
  \/ FinishUnsafe(v) \/ ThrowUnsafe(v) \/ UnsafeRejected(v)
  \/ FinishSequence(v) \/ SequenceTooShort(v)

Access(v) ==
  \E hook \in Hooks, i \in Indices :
    \/ BadSubscript(v, hook, i) \/ Get(v, hook, i)
    \/ \E e \in Elems : Modify(v, hook, i, e)

Lend(v) ==
  \/ BeginMutate(v) \/ EndMutate(v) \/ PointerReplaced(v)
  \/ \E i \in Places, e \in Elems : PointerWrite(v, i, e)

Share(v, w) ==
  \/ Assign(v, w) \/ SliceWhole(v, w) \/ ArrayOfSlice(v, w)
  \/ \E a, b \in Places : Slice(v, w, a, b) \/ SliceOutOfRange(v, w, a, b)

Next ==
  \/ OutOfMemory \/ Stopped
  \/ \E v \in Vars : Construct(v) \/ Access(v) \/ Lend(v) \/ Drop(v)
  \/ \E v, w \in Vars : Share(v, w)

Spec == Init /\ [][Next]_vars

-----------------------------------------------------------------------------
(* All but the first and the last of these properties need both switches   *)
(* off: a slice up to endIndex has one place too many, which subscripts,   *)
(* pointers and copies use as if an element were there (SliceToEnd), and   *)
(* the elements of ArraySlice(repeating:count:) are never released         *)
(* (RepeatSlices).                                                         *)

(* Every variable of the model keeps its type; no reference is released    *)
(* more often than it was retained.                                        *)
TypeOK ==
  /\ storage \in [Storages -> StorageObjects]
  /\ view \in [Vars -> Views \cup {Nil}]
  /\ making \in [Vars -> Makings \cup {Nil}]
  /\ lent \in [Vars -> Loans \cup {Nil}]
  /\ owned \in [Elems -> Nat]
  /\ corrupt \in BOOLEAN

(* No constructor, subscript, pointer or deinit takes memory that holds no *)
(* element for an element, whatever closures throw or arrays share --      *)
(* unless a range reaches endIndex (SliceToEnd): such a slice ends one     *)
(* place behind the elements, and its subscripts read there                *)
(* (Array.swift:288, and SliceFitsBuffer below).                           *)
OnlyElementsAreUsed == ~corrupt

(* A storage that no constructor is filling holds elements in exactly its  *)
(* first `count` places: its deinit will release all of them, no others;   *)
(* where slices stop short of endIndex and are not made with               *)
(* repeating:count:.                                                       *)
CountMatchesElements ==
  \A s \in Storages \ {making[v].owner : v \in {v \in Vars : making[v] # Nil}} :
    /\ storage[s].count <= storage[s].capacity
    /\ \A i \in Places : storage[s].place[i] # Uninit <=> i < storage[s].count

(* References retained for array elements are neither leaked nor released  *)
(* twice: there are as many as places that hold the element; where slices  *)
(* stop short of endIndex and are not made with repeating:count:.          *)
ElementsOwned == \A e \in Elems : owned[e] = Cardinality(Holds(storage, e))

(* From w's first index up to n the storage of w holds elements. *)
InStorage(w, n) == w.lo <= n /\ n <= storage[w.owner].count

(* As long as no range reaches endIndex of what it slices (SliceToEnd),    *)
(* slices of slices and all other views, which no one keeps in step with   *)
(* one another, end within the elements of the storage they share.         *)
ViewsInBounds == \A v \in Vars : view[v] # Nil => InStorage(view[v], EndIndex(view[v]))

(* While a closure works on the elements of a variable through a pointer,  *)
(* nothing it or others do to that variable or to other views frees or     *)
(* shrinks the storage under the pointer; a slice up to endIndex lends a   *)
(* place too many from the start (SliceToEnd).                             *)
PointerStaysValid ==
  \A v \in Vars : lent[v] # Nil =>
    LET w == lent[v].view IN InStorage(w, w.lo + lent[v].count)

(* _invariantCheck of a slice: it has no more elements than its storage.   *)
SliceFitsBuffer == \A v \in Vars : view[v] # Nil => Count(view[v]) <= storage[view[v].owner].count
=============================================================================
