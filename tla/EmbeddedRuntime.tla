--------------------------- MODULE EmbeddedRuntime ---------------------------
(***************************************************************************)
(* The strong reference counting runtime of src/EmbeddedRuntime.swift, the *)
(* one that every uSwift program links: allocation, retain, release, the   *)
(* uniqueness test, destruction and deallocation of class instances.       *)
(*                                                                         *)
(* Contexts are the flows of control of one firmware image: the main loop  *)
(* and its interrupt handlers (or the two cores of an ESP32).  A context   *)
(* loads the count word, may be preempted, and then performs its atomic    *)
(* read-modify-write, so retain and release are two steps each.            *)
(*                                                                         *)
(* A strong reference is a SLOT: a local variable of a context, a stored   *)
(* property of an object, or a global variable.  The compiler is external  *)
(* to the repository; what the code it emits may do to slots is taken from *)
(* how the runtime functions are meant to be called.                       *)
(***************************************************************************)
EXTENDS Integers, Sequences, FiniteSets

CONSTANTS
  HeapCells,       (* memory handed out by swift_slowAlloc              *)
  StackCells,      (* stack-promoted objects, swift_initStackObject     *)
  StaticCells,     (* static objects, swift_initStaticObject            *)
  Preinitialised,  (* the static objects whose header is a data image:  *)
                   (* _swiftEmptyArrayStorage                           *)
  Contexts,        (* main loop, interrupt handlers                     *)
  Slots,           (* places that hold a strong reference               *)
  Home,            (* [Slots -> Contexts \cup Objects \cup {Global}]    *)
  Global,
  Nil,
  Half,            (* 2^(w-1) for words of w bits; 2^15 on AVR          *)
  MaxN,            (* bound on the n of swift_retain_n, swift_release_n *)
  DeinitUsesSelf   (* may a deinit body copy and drop `self`?           *)

Objects == HeapCells \cup StackCells \cup StaticCells

ASSUME CellsAssumption ==
  /\ HeapCells \cap StackCells = {} /\ HeapCells \cap StaticCells = {}
  /\ StackCells \cap StaticCells = {}
  /\ Preinitialised \subseteq StaticCells
  /\ Nil \notin Objects

ASSUME SlotsAssumption ==
  /\ IsFiniteSet(Slots)
  /\ Contexts \cap Objects = {}
  /\ Global \notin Contexts \cup Objects
  /\ Home \in [Slots -> Contexts \cup Objects \cup {Global}]
  /\ Nil \notin Slots

ASSUME WordAssumption == Half \in Nat /\ Half > 1 /\ MaxN \in 1 .. Half - 1

ASSUME SwitchAssumption == DeinitUsesSelf \in BOOLEAN

VARIABLES
  slot,      (* the object each slot refers to, or Nil                     *)
  life,      (* "unused", "live", "deinit" (in its deinit body), "fields"  *)
             (* (its destroyer releases the stored properties)             *)
  refcount,  (* the count word of each object header                       *)
  freeList,  (* the cells malloc may hand out                              *)
  call,      (* per context: the retain or release between load and RMW    *)
  frames,    (* per context: the destroyers on its call stack              *)
  checked,   (* per context: the slot isUniquelyReferenced just returned   *)
             (* true for, Nil otherwise                                    *)
  halted     (* fatalError() was reached                                   *)

vars == <<slot, life, refcount, freeList, call, frames, checked, halted>>

-----------------------------------------------------------------------------
(* The count word: HeapObject.doNotFreeBit, refcountMask, immortalRefCount *)

Words == 0 .. 2 * Half - 1
ImmortalRefCount == Half - 1
(* Mutant: an off-by-one in the test of doNotFreeBit.                       *)
DoNotFreeOffByOne(w) == w > Half
DoNotFree(w) == w >= Half
(* Mutants: the flag is not masked off; the mask is 0x7ffe.                *)
MaskForgotten(w) == w
MaskLosesLowBit(w) == 2 * ((w % Half) \div 2)
Masked(w) == IF w >= Half THEN w - Half ELSE w
(* Mutants: retain_n and release_n count one whatever n is.                *)
AddOne(w, n) == (w + 1) % (2 * Half)
SubOne(w, n) == IF w >= 1 THEN w - 1 ELSE 2 * Half - 1
AddWord(w, n) == IF w + n < 2 * Half THEN w + n ELSE w + n - 2 * Half
SubWord(w, n) == IF w >= n THEN w - n ELSE w - n + 2 * Half

(* The header word -1 of the empty array storage in its data image. *)
StaticImageWord == 2 * Half - 1

Refs(o) == {r \in Slots : slot[r] = o}
Fields(o) == {r \in Slots : Home[r] = o}
Locals(c) == {r \in Slots : Home[r] = c}

NoCall == [fn |-> "none", obj |-> Nil, slots |-> {}]
Call(fn, o, S) == [fn |-> fn, obj |-> o, slots |-> S]

Top(c) == frames[c][Len(frames[c])]
Destroying(c) == frames[c] # <<>>

(* A context is between two calls of the runtime; it executes program code *)
(* when it is moreover not inside the property-releasing part of a         *)
(* compiler-generated destroyer.                                           *)
Ready(c) == ~halted /\ call[c].fn = "none"
InProgram(c) == Ready(c) /\ (Destroying(c) => life[Top(c)] = "deinit")

(* Objects whose stored properties the code of c may touch. *)
Reachable(c, o) ==
  \/ \E r \in Locals(c) : slot[r] = o
  \/ Destroying(c) /\ Top(c) = o

Accessible(c, r) ==
  \/ Home[r] \in {c, Global}
  \/ Home[r] \in Objects /\ Reachable(c, Home[r])

(* Objects c holds borrowed and may therefore pass to swift_retain. *)
Borrowed(c) ==
  ({slot[r] : r \in Locals(c)} \ {Nil}) \cup Preinitialised
    \cup (IF DeinitUsesSelf /\ Destroying(c) THEN {Top(c)} ELSE {})

-----------------------------------------------------------------------------
Init ==
  /\ slot = [r \in Slots |-> Nil]
  /\ life = [o \in Objects |-> IF o \in Preinitialised THEN "live" ELSE "unused"]
  /\ refcount = [o \in Objects |-> IF o \in Preinitialised THEN StaticImageWord ELSE 0]
  /\ freeList = HeapCells
  /\ call = [c \in Contexts |-> NoCall]
  /\ frames = [c \in Contexts |-> <<>>]
  /\ checked = [c \in Contexts |-> Nil]
  /\ halted = FALSE

(* The header is written and the reference returned before anybody else    *)
(* can know the address, so creating an object is one step.                *)
Create(c, r, o, word) ==
  /\ InProgram(c)
  /\ r \in Locals(c) /\ slot[r] = Nil
  /\ life' = [life EXCEPT ![o] = "live"]
  /\ refcount' = [refcount EXCEPT ![o] = word]
  /\ slot' = [slot EXCEPT ![r] = o]
  /\ checked' = [checked EXCEPT ![c] = Nil]
  /\ UNCHANGED <<call, frames, halted>>

(* swift_allocObject, when swift_slowAlloc finds memory ... *)
AllocObject(c, r, o) ==
  /\ o \in freeList
  /\ Create(c, r, o, 1)
  /\ freeList' = freeList \ {o}

(* ... and when it does not: the out-of-memory hook, then fatalError(). *)
AllocObjectOOM(c) ==
  /\ InProgram(c)
  /\ freeList = {}
  /\ halted' = TRUE
  /\ UNCHANGED <<slot, life, refcount, freeList, call, frames, checked>>

InitStaticObject(c, r, o) ==
  /\ o \in StaticCells /\ life[o] = "unused"
  /\ Create(c, r, o, ImmortalRefCount)
  /\ UNCHANGED freeList

(* Mutant: doNotFreeBit of a word that is one bit wider.                   *)
InitStackObjectWideBit(c, r, o) ==
  /\ o \in StackCells /\ life[o] = "unused"
  /\ Create(c, r, o, 1 + 2 * Half)
  /\ UNCHANGED freeList

InitStackObject(c, r, o) ==
  /\ o \in StackCells /\ life[o] = "unused"
  /\ Create(c, r, o, 1 + Half)
  /\ UNCHANGED freeList

(* Assignment that transfers ownership: the compiler emits no call.  This  *)
(* is how an interrupt handler and the main loop hand a reference over.    *)
(* Escape analysis keeps stack-promoted objects in one context's locals.   *)
Move(c, r, q) ==
  /\ InProgram(c)
  /\ Accessible(c, r) /\ Accessible(c, q)
  /\ slot[r] # Nil /\ slot[q] = Nil
  /\ slot[r] \in StackCells => Home[q] = c
  /\ slot' = [slot EXCEPT ![r] = Nil, ![q] = slot[r]]
  /\ checked' = [checked EXCEPT ![c] = Nil]
  /\ UNCHANGED <<life, refcount, freeList, call, frames, halted>>

-----------------------------------------------------------------------------
(* swift_retain, swift_retain_n: a null pointer returns at once (no step   *)
(* here); the relaxed load and its early return for immortal objects ...   *)
RetainLoad(c, o, S) ==
  /\ InProgram(c)
  /\ o \in Borrowed(c)
  /\ S # {} /\ Cardinality(S) <= MaxN
  /\ \A r \in S : r \in Locals(c) /\ slot[r] = Nil
  /\ IF refcount[o] = ImmortalRefCount
       THEN /\ slot' = [r \in Slots |-> IF r \in S THEN o ELSE slot[r]]
            /\ UNCHANGED call
       ELSE /\ call' = [call EXCEPT ![c] = Call("retain", o, S)]
            /\ UNCHANGED slot
  /\ checked' = [checked EXCEPT ![c] = Nil]
  /\ UNCHANGED <<life, refcount, freeList, frames, halted>>

(* ... and the atomic addition, after which the new references exist. *)
RetainAdd(c) ==
  /\ ~halted /\ call[c].fn = "retain"
  /\ LET o == call[c].obj
         S == call[c].slots
     IN  /\ refcount' = [refcount EXCEPT ![o] = AddWord(@, Cardinality(S))]
         /\ slot' = [r \in Slots |-> IF r \in S THEN o ELSE slot[r]]
  /\ call' = [call EXCEPT ![c] = NoCall]
  /\ UNCHANGED <<life, freeList, frames, checked, halted>>

(* Mutants: release does not test for the immortal count, or never gets    *)
(* past the test.                                                          *)
BeginReleaseUntested(c, S) ==
  /\ \E o \in Objects :
       /\ \A r \in S : slot[r] = o
       /\ call' = [call EXCEPT ![c] = Call("release", o, S)]
  /\ checked' = [checked EXCEPT ![c] = Nil]
  /\ UNCHANGED <<slot, life, refcount, freeList, frames, halted>>

BeginReleaseStuck(c, S) ==
  /\ \E o \in Objects :
       /\ \A r \in S : slot[r] = o
       /\ refcount[o] # ImmortalRefCount
       /\ call' = [call EXCEPT ![c] = Call("release", o, S)]
  /\ checked' = [checked EXCEPT ![c] = Nil]
  /\ UNCHANGED <<slot, life, refcount, freeList, frames, halted>>

(* swift_release_n_: the load; S are the references given up.  They are    *)
(* gone once the count is reduced.                                         *)
BeginRelease(c, S) ==
  /\ \E o \in Objects :
       /\ \A r \in S : slot[r] = o
       /\ IF refcount[o] = ImmortalRefCount
            THEN /\ slot' = [r \in Slots |-> IF r \in S THEN Nil ELSE slot[r]]
                 /\ UNCHANGED call
            ELSE /\ call' = [call EXCEPT ![c] = Call("release", o, S)]
                 /\ UNCHANGED slot
  /\ checked' = [checked EXCEPT ![c] = Nil]
  /\ UNCHANGED <<life, refcount, freeList, frames, halted>>

(* swift_release, swift_release_n from program code. *)
ReleaseLoad(c, S) ==
  /\ InProgram(c)
  /\ S # {} /\ S \subseteq Locals(c) /\ Cardinality(S) <= MaxN
  /\ BeginRelease(c, S)

(* The atomic subtraction; a masked result of zero invokes the destroyer.  *)
(* The branch for a negative result is dead code: the mask clears the sign.*)
ReleaseSub(c) ==
  /\ ~halted /\ call[c].fn = "release"
  /\ LET o == call[c].obj
         S == call[c].slots
         w == SubWord(refcount[o], Cardinality(S))
     IN  /\ refcount' = [refcount EXCEPT ![o] = w]
         /\ slot' = [r \in Slots |-> IF r \in S THEN Nil ELSE slot[r]]
         /\ IF Masked(w) = 0
              THEN /\ life' = [life EXCEPT ![o] = "deinit"]
                   /\ frames' = [frames EXCEPT ![c] = Append(@, o)]
              ELSE UNCHANGED <<life, frames>>
  /\ call' = [call EXCEPT ![c] = NoCall]
  /\ UNCHANGED <<freeList, checked, halted>>

(* Mutant: the uniqueness test accepts any count but zero.                 *)
IsReferenced(c, r) ==
  /\ InProgram(c)
  /\ r \in Locals(c) /\ slot[r] # Nil
  /\ checked' = [checked EXCEPT ![c] = IF refcount[slot[r]] # 0 THEN r ELSE Nil]
  /\ UNCHANGED <<slot, life, refcount, freeList, call, frames, halted>>

(* swift_isUniquelyReferenced_nonNull_native on a variable of c. *)
IsUniquelyReferenced(c, r) ==
  /\ InProgram(c)
  /\ r \in Locals(c) /\ slot[r] # Nil
  /\ checked' = [checked EXCEPT ![c] = IF refcount[slot[r]] = 1 THEN r ELSE Nil]
  /\ UNCHANGED <<slot, life, refcount, freeList, call, frames, halted>>

-----------------------------------------------------------------------------
(* The destroyer the compiler generates: the deinit body is program code   *)
(* and ends; then the stored properties are released one by one; then the  *)
(* memory goes back.                                                       *)
EndDeinit(c, o) ==
  /\ Ready(c) /\ Destroying(c)
  /\ Top(c) = o /\ life[o] = "deinit"
  /\ life' = [life EXCEPT ![o] = "fields"]
  /\ checked' = [checked EXCEPT ![c] = Nil]
  /\ UNCHANGED <<slot, refcount, freeList, call, frames, halted>>

ReleaseField(c) ==
  /\ Ready(c) /\ Destroying(c)
  /\ life[Top(c)] = "fields"
  /\ \E f \in Fields(Top(c)) : slot[f] # Nil /\ BeginRelease(c, {f})

Return(c, o) ==
  /\ Ready(c) /\ Destroying(c)
  /\ o = Top(c) /\ life[o] = "fields"
  /\ \A f \in Fields(o) : slot[f] = Nil
  /\ life' = [life EXCEPT ![o] = "unused"]
  /\ frames' = [frames EXCEPT ![c] = SubSeq(@, 1, Len(@) - 1)]
  /\ checked' = [checked EXCEPT ![c] = Nil]
  /\ UNCHANGED <<slot, refcount, call, halted>>

(* swift_deallocClassInstance: nothing is freed when doNotFreeBit is set. *)
DeallocClassInstance(c, o) ==
  /\ Return(c, o)
  /\ freeList' = IF DoNotFree(refcount[o]) THEN freeList ELSE freeList \cup {o}

(* swift_deallocObject frees unconditionally; it ends the destroyers of    *)
(* boxes and closure contexts, which are never promoted to the stack.      *)
DeallocObject(c, o) ==
  /\ o \in HeapCells
  /\ Return(c, o)
  /\ freeList' = freeList \cup {o}

Stopped == halted /\ UNCHANGED vars

Next ==
  \/ \E c \in Contexts, r \in Slots, o \in Objects :
       \/ AllocObject(c, r, o)
       \/ InitStaticObject(c, r, o)
       \/ InitStackObject(c, r, o)
  \/ \E c \in Contexts : AllocObjectOOM(c)
  \/ \E c \in Contexts, r, q \in Slots : Move(c, r, q)
  \/ \E c \in Contexts, o \in Objects, S \in SUBSET Slots : RetainLoad(c, o, S)
  \/ \E c \in Contexts, S \in SUBSET Slots : ReleaseLoad(c, S)
  \/ \E c \in Contexts : RetainAdd(c) \/ ReleaseSub(c) \/ ReleaseField(c)
  \/ \E c \in Contexts, r \in Slots : IsUniquelyReferenced(c, r)
  \/ \E c \in Contexts, o \in Objects :
       EndDeinit(c, o) \/ DeallocClassInstance(c, o) \/ DeallocObject(c, o)
  \/ Stopped

Spec == Init /\ [][Next]_vars

(* A context that is not preempted for ever finishes its runtime calls and *)
(* destroyers (an interrupt handler returns; the main loop resumes), and   *)
(* each deinit body comes to its end even when other destroyers run inside *)
(* it, hence strong fairness there.                                        *)
Fairness ==
  /\ \A c \in Contexts :
       /\ WF_vars(RetainAdd(c)) /\ WF_vars(ReleaseSub(c)) /\ WF_vars(ReleaseField(c))
  /\ \A c \in Contexts, o \in Objects :
       /\ SF_vars(EndDeinit(c, o))
       /\ WF_vars(DeallocClassInstance(c, o) \/ DeallocObject(c, o))

FairSpec == Spec /\ Fairness

-----------------------------------------------------------------------------
TypeOK ==
  /\ slot \in [Slots -> Objects \cup {Nil}]
  /\ life \in [Objects -> {"unused", "live", "deinit", "fields"}]
  /\ refcount \in [Objects -> Words]
  /\ freeList \subseteq HeapCells
  /\ call \in [Contexts -> [fn : {"none", "retain", "release"},
                            obj : Objects \cup {Nil}, slots : SUBSET Slots]]
  /\ frames \in [Contexts -> Seq(Objects)]
  /\ checked \in [Contexts -> Slots \cup {Nil}]
  /\ halted \in BOOLEAN

(* No strong reference ever refers to an object whose destruction has      *)
(* begun, whatever the interleaving of loads and read-modify-writes: there *)
(* is no use after free.  It takes no more references than immortalRefCount*)
(* to hold: a count with that value may still be moved by calls that were  *)
(* preempted after their load, and then lacks the references that the      *)
(* calls in between did not count.                                         *)
NoDanglingReference ==
  \A r \in Slots : slot[r] # Nil => life[slot[r]] = "live"

(* An object that is not static and that nothing refers to is not left     *)
(* alive: the last release always starts its destruction.                  *)
NoLeakedObject ==
  \A o \in Objects \ StaticCells : life[o] = "live" => Refs(o) # {}

(* The count word of a live object is the number of strong references to   *)
(* it, plus doNotFreeBit on the stack, also while other contexts are       *)
(* between the load and the update of the same word.                       *)
CountIsExact ==
  \A o \in Objects \ StaticCells :
    life[o] = "live" =>
      refcount[o] = Cardinality(Refs(o)) + (IF o \in StackCells THEN Half ELSE 0)

(* A true answer of isUniquelyReferenced stays right until its caller's    *)
(* next step: no other context can gain a reference in between, so writing *)
(* in place is sound.                                                      *)
UniqueMeansSole ==
  \A c \in Contexts : checked[c] # Nil => Refs(slot[checked[c]]) = {checked[c]}

(* No object is being destroyed twice, by two contexts or by one context   *)
(* that re-enters its destroyer.                                           *)
DestroyedOnce ==
  \A c, d \in Contexts : \A i \in 1 .. Len(frames[c]), j \in 1 .. Len(frames[d]) :
    frames[c][i] = frames[d][j] => c = d /\ i = j

(* free() is called for heap cells only, once each, when the object is     *)
(* gone, and every heap cell without an object is free: neither a double   *)
(* free, nor a free of stack or static storage, nor lost memory.           *)
HeapIsConsistent ==
  freeList = {o \in HeapCells : life[o] = "unused"}

(* The stored properties of an object are released before its memory goes  *)
(* back; a reference is never left behind in memory that is not an object. *)
PropertiesReleasedFirst ==
  \A r \in Slots : Home[r] \in Objects /\ slot[r] # Nil => life[Home[r]] # "unused"

(* Static objects are never destroyed.  It holds of those that             *)
(* swift_initStaticObject sets up (StaticSafety); the empty array storage, *)
(* whose data image starts at another word, breaks it (MCEmptyArray).      *)
StaticNeverDestroyed ==
  \A o \in StaticCells : life[o] \in {"unused", "live"}

(* The count of o has reached immortalRefCount, and no context is between  *)
(* its load of that count and the update it decided on.                    *)
Settled(o) ==
  /\ life[o] = "live" /\ refcount[o] = ImmortalRefCount
  /\ \A c \in Contexts : call[c].obj # o

(* Once a count is at immortalRefCount and the calls that loaded an        *)
(* earlier value of it have done their update, it never moves again and    *)
(* the object is never destroyed: each later retain or release, of any     *)
(* context, returns at its load.  This says nothing of a retain or release *)
(* that was preempted between its load and its update while the count got  *)
(* there: its update does move the immortal count.                         *)
SaturatedStaysAlive ==
  [][\A o \in Objects : Settled(o) => Settled(o)']_vars

(* An object whose destruction has begun is reclaimed, its deinit body and *)
(* the cascade of releases of its stored properties included.              *)
DestructionCompletes ==
  \A o \in Objects :
    life[o] \in {"deinit", "fields"} ~> life[o] = "unused" \/ halted

(* What automatic reference counting promises: see StrongReferences. *)
ARC == INSTANCE StrongReferences WITH
         Immortal <- StaticCells,
         state <- [o \in Objects |->
                     IF life[o] \in {"deinit", "fields"} THEN "dying" ELSE life[o]]

(* Every behaviour of the counting runtime is one of the abstract          *)
(* specification, in which an object dies exactly with its last reference. *)
ImplementsARC == ARC!Spec

(* How the runtime must be used for the theorems: no reference to the      *)
(* statically initialised empty array, no copy of `self` made by a deinit  *)
(* body, and fewer references than the count word can tell from immortal.  *)
Disciplined ==
  /\ Preinitialised = {}
  /\ DeinitUsesSelf = FALSE
  /\ Cardinality(Slots) < ImmortalRefCount
=============================================================================
