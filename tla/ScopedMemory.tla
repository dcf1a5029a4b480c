----------------------------- MODULE ScopedMemory -----------------------------
(***************************************************************************)
(* Memory that a function lends to a closure: the storage of an            *)
(* InlineArray while its initialiser makes the elements one by one         *)
(* (src/InlineArray.swift) and withUnsafeTemporaryAllocation               *)
(* (src/TemporaryAllocation.swift).  A closure may call either function    *)
(* again, may catch what the inner call throws, and may throw itself.      *)
(*                                                                         *)
(* The program is a stack of such calls; what runs is always the closure   *)
(* of the innermost one.                                                   *)
(***************************************************************************)
EXTENDS Integers, Sequences, FiniteSets

CONSTANTS
  IntMax,               (* the largest Int                                 *)
  StackLimit,           (* 1024                                            *)
  MinAllocationAlignment,
  HeapAddresses,        (* as many as the heap has room for blocks         *)
  Capacities, ElementStrides, Alignments,  (* of the temporary blocks      *)
  Counts,               (* the sizes of the inline arrays                  *)
  MaxDepth, MaxElements,             (* bounds on nesting and on elements  *)
  TrapOnPrecondition    (* is SHOULD_TRAP_ON_PRECONDITION defined?         *)

ASSUME ScopedMemoryAssumption ==
  /\ IntMax \in Nat /\ StackLimit \in 0 .. IntMax
  /\ Capacities \subseteq -IntMax .. IntMax /\ ElementStrides \subseteq 0 .. IntMax
  /\ Counts \subseteq Nat /\ MaxDepth \in Nat /\ MaxElements \in Nat
  /\ TrapOnPrecondition \in BOOLEAN

VARIABLES
  calls,      (* the calls that have not returned, the innermost last      *)
  stack,      (* the blocks on the machine stack: capacity and stride      *)
  heap,       (* the addresses of the live heap blocks                     *)
  made,       (* elements 1 .. made have been made                         *)
  destroyed,  (* how often each was destroyed                              *)
  owned,      (* the elements of the arrays that initialisers returned     *)
  stopped     (* a precondition or fatalError stopped the program          *)

memory == <<calls, stack, heap, made, destroyed, owned, stopped>>

Elements == 1 .. MaxElements

MemoryInit ==
  /\ calls = <<>> /\ stack = <<>> /\ heap = {}
  /\ made = 0 /\ destroyed = [e \in Elements |-> 0] /\ owned = {}
  /\ stopped = FALSE

(* Without a trap the product wraps around at the width of an Int. *)
Truncated(x) == ((x + IntMax + 1) % (2 * IntMax + 2)) - IntMax - 1

Running == ~stopped
MayCall == Running /\ Len(calls) < MaxDepth
Innermost == calls[Len(calls)]
Outer == SubSeq(calls, 1, Len(calls) - 1)
InTemporary == Running /\ calls # <<>> /\ Innermost.kind = "temporary"
InArray == Running /\ calls # <<>> /\ Innermost.kind = "array"

-----------------------------------------------------------------------------
IsPowerOf2(x) == \E k \in 0 .. x : 2 ^ k = x

(* _byteCountForTemporaryAllocation and _isStackAllocationSafe check their *)
(* arguments when the program computes them, but not constants.            *)
Rejected(capacity, stride, alignment, computed) ==
  /\ TrapOnPrecondition /\ computed
  /\ capacity < 0 \/ capacity * stride > IntMax \/ ~IsPowerOf2(alignment)

ByteCount(capacity, stride) == Truncated(capacity * stride)

(* In a build with $Embedded: others ask the system about larger blocks.   *)
IsStackAllocationSafe(capacity, stride, alignment) ==
  alignment <= MinAllocationAlignment /\ ByteCount(capacity, stride) <= StackLimit

Stop ==
  /\ stopped' = TRUE
  /\ UNCHANGED <<calls, stack, heap, made, destroyed, owned>>

TemporaryRejected(capacity, stride, alignment, computed) ==
  MayCall /\ Rejected(capacity, stride, alignment, computed) /\ Stop

TemporaryOnStack(capacity, stride, alignment, computed) ==
  /\ MayCall /\ ~Rejected(capacity, stride, alignment, computed)
  /\ IsStackAllocationSafe(capacity, stride, alignment)
  /\ stack' = Append(stack, [capacity |-> capacity, stride |-> stride])
  /\ calls' = Append(calls, [kind |-> "temporary", on |-> "stack", address |-> Len(stack) + 1])
  /\ UNCHANGED <<heap, made, destroyed, owned, stopped>>

(* _fallBackToHeapAllocation *)
TemporaryOnHeap(capacity, stride, alignment, computed) ==
  /\ MayCall /\ ~Rejected(capacity, stride, alignment, computed)
  /\ ~IsStackAllocationSafe(capacity, stride, alignment)
  /\ \E address \in HeapAddresses \ heap :
       /\ heap' = heap \cup {address}
       /\ calls' = Append(calls, [kind |-> "temporary", on |-> "heap", address |-> address])
  /\ UNCHANGED <<stack, made, destroyed, owned, stopped>>

HeapExhausted(capacity, stride, alignment, computed) ==
  /\ MayCall /\ ~Rejected(capacity, stride, alignment, computed)
  /\ ~IsStackAllocationSafe(capacity, stride, alignment)
  /\ heap = HeapAddresses /\ Stop

(* stackDealloc takes the stack back to where the block began. *)
Deallocate(block) ==
  IF block.on = "stack"
    THEN stack' = SubSeq(stack, 1, block.address - 1) /\ UNCHANGED heap
    ELSE heap' = heap \ {block.address} /\ UNCHANGED stack

(* Mutant: only a body that returns gives the block back.                  *)
TemporaryThrowsKeeping ==
  InTemporary /\ calls' = Outer /\ UNCHANGED <<stack, heap, made, destroyed, owned, stopped>>

TemporaryReturns ==
  /\ InTemporary /\ Deallocate(Innermost)
  /\ calls' = Outer
  /\ UNCHANGED <<made, destroyed, owned, stopped>>

(* The body throws: the block goes back as well, and the error comes out   *)
(* in the closure outside, which may catch it or throw in its turn.        *)
TemporaryThrows ==
  /\ InTemporary /\ Deallocate(Innermost)
  /\ calls' = Outer
  /\ UNCHANGED <<made, destroyed, owned, stopped>>

-----------------------------------------------------------------------------
Elems(slots) == {slots[i] : i \in DOMAIN slots}

(* The storage holds `slots` so far; full, it is the caller's array.       *)
Emplace(outer, count, slots) ==
  IF Len(slots) = count
    THEN calls' = outer /\ owned' = owned \cup Elems(slots)
    ELSE /\ calls' = Append(outer, [kind |-> "array", count |-> count, slots |-> slots])
         /\ UNCHANGED owned

(* init(_ body:): the closure makes every element. *)
InitArray(count) ==
  /\ MayCall /\ Emplace(calls, count, <<>>)
  /\ UNCHANGED <<stack, heap, made, destroyed, stopped>>

(* init(first:next:): `first` is consumed, taken out of the optional for   *)
(* place 0 or, in an array without places, destroyed with the optional.    *)
InitArrayFirst(count) ==
  /\ MayCall /\ made < MaxElements
  /\ made' = made + 1
  /\ IF count = 0
     THEN destroyed' = [destroyed EXCEPT ![made'] = @ + 1] /\ UNCHANGED <<calls, owned>>
     ELSE Emplace(calls, count, <<made'>>) /\ UNCHANGED destroyed
  /\ UNCHANGED <<stack, heap, stopped>>

(* The closure returns the element for the next place. *)
InitializeElement ==
  /\ InArray /\ made < MaxElements
  /\ made' = made + 1
  /\ Emplace(Outer, Innermost.count, Append(Innermost.slots, made'))
  /\ UNCHANGED <<stack, heap, destroyed, stopped>>

(* Mutant: the loop of the catch block begins at 1.                        *)
ArrayThrowsKeepingFirst ==
  /\ InArray
  /\ destroyed' = [e \in Elements |->
       destroyed[e] + Cardinality({j \in DOMAIN Innermost.slots : j > 1 /\ Innermost.slots[j] = e})]
  /\ calls' = Outer
  /\ UNCHANGED <<stack, heap, made, owned, stopped>>

(* It throws: the elements made so far are destroyed, the error goes on.   *)
ArrayThrows ==
  /\ InArray
  /\ destroyed' = [e \in Elements |->
       destroyed[e] + Cardinality({j \in DOMAIN Innermost.slots : Innermost.slots[j] = e})]
  /\ calls' = Outer
  /\ UNCHANGED <<stack, heap, made, owned, stopped>>

MemoryStopped == stopped /\ UNCHANGED memory

MemoryNext ==
  \/ \E capacity \in Capacities, stride \in ElementStrides,
        alignment \in Alignments, computed \in BOOLEAN :
       \/ TemporaryRejected(capacity, stride, alignment, computed)
       \/ TemporaryOnStack(capacity, stride, alignment, computed)
       \/ TemporaryOnHeap(capacity, stride, alignment, computed)
       \/ HeapExhausted(capacity, stride, alignment, computed)
  \/ \E count \in Counts : InitArray(count) \/ InitArrayFirst(count)
  \/ TemporaryReturns \/ TemporaryThrows
  \/ InitializeElement \/ ArrayThrows
  \/ MemoryStopped

MemorySpec == MemoryInit /\ [][MemoryNext]_memory

-----------------------------------------------------------------------------
ArrayCalls == {c \in DOMAIN calls : calls[c].kind = "array"}
BlocksOn(place) == {c \in DOMAIN calls : calls[c].kind = "temporary" /\ calls[c].on = place}

(* Every element ever made is in exactly one place: in the storage of an   *)
(* initialiser at work, in an array that was returned, or destroyed, once. *)
(* So a closure that throws, at any depth, leaves none behind and destroys *)
(* none twice.                                                             *)
ElementsAccountedFor ==
  \A e \in Elements :
    destroyed[e] + (IF e \in owned THEN 1 ELSE 0)
      + Cardinality({c \in ArrayCalls : e \in Elems(calls[c].slots)})
    = IF e <= made THEN 1 ELSE 0

SizeIsRepresentable(block) ==
  block.capacity >= 0 /\ block.capacity * block.stride <= IntMax

(* The blocks that are live are those of the calls that have not returned, *)
(* each call's stack block above those of the calls outside it; whichever  *)
(* way a body is left, its block and nothing else goes.  A block on the    *)
(* stack whose size is representable takes no more than StackLimit bytes.  *)
(* Nothing is said of a negative capacity or of a product that wraps       *)
(* around: unless they trap, such blocks do get onto the stack.            *)
BlocksMatchCalls ==
  /\ Cardinality(BlocksOn("stack")) = Len(stack)
  /\ \A c \in BlocksOn("stack") :
       calls[c].address = Cardinality({d \in BlocksOn("stack") : d <= c})
  /\ heap = {calls[c].address : c \in BlocksOn("heap")}
  /\ Cardinality(heap) = Cardinality(BlocksOn("heap"))
  /\ \A i \in DOMAIN stack :
       SizeIsRepresentable(stack[i]) => stack[i].capacity * stack[i].stride <= StackLimit
=============================================================================
