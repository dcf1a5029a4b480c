----------------------- MODULE EmbeddedRuntime_proofs -----------------------
(***************************************************************************)
(* Proofs about the counting runtime, for every set of cells, contexts and *)
(* slots and every word width, under the discipline of use that the        *)
(* operator Disciplined states.                                            *)
(***************************************************************************)
EXTENDS EmbeddedRuntime, FiniteSetTheorems, SequenceTheorems, TLAPS

(* The flag bit of an object's word. *)
Flag(o) == IF o \in StackCells THEN Half ELSE 0

(* Counts are exact until the memory goes back; the objects that are alive *)
(* are the referenced ones; static objects carry the immortal count.       *)
CountInv ==
  /\ \A o \in Objects : Refs(o) # {} => life[o] = "live"
  /\ \A o \in Objects \ StaticCells :
       /\ life[o] = "live" => Refs(o) # {}
       /\ life[o] # "unused" => refcount[o] = Cardinality(Refs(o)) + Flag(o)
  /\ \A o \in StaticCells :
       /\ life[o] \in {"unused", "live"}
       /\ life[o] = "live" => refcount[o] = ImmortalRefCount

(* The objects on the call stacks are distinct and being destroyed. *)
FrameInv ==
  /\ DestroyedOnce
  /\ \A c \in Contexts : \A i \in 1 .. Len(frames[c]) :
       life[frames[c][i]] \in {"deinit", "fields"}

(* The slots that only c may write: its locals, and the stored properties  *)
(* of the object whose destroyer it runs.                                  *)
Private(c) ==
  {r \in Slots : \/ Home[r] = c
                 \/ Destroying(c) /\ Home[r] = Top(c) /\ life[Top(c)] = "fields"}

(* A preempted retain still holds the reference it copies and its target   *)
(* slots are still empty; a preempted release still holds what it gives up.*)
CallOK(c) ==
  call[c].fn # "none" =>
    /\ checked[c] = Nil
    /\ call[c].obj \in Objects \ StaticCells
    /\ call[c].slots # {}
    /\ call[c].fn = "retain" =>
         /\ \E r \in Locals(c) : slot[r] = call[c].obj
         /\ \A r \in call[c].slots : r \in Locals(c) /\ slot[r] = Nil
    /\ call[c].fn = "release" =>
         \A r \in call[c].slots : r \in Private(c) /\ slot[r] = call[c].obj

CheckOK(c) ==
  checked[c] # Nil =>
    /\ checked[c] \in Locals(c)
    /\ slot[checked[c]] # Nil
    /\ Refs(slot[checked[c]]) = {checked[c]}

IInv ==
  /\ TypeOK /\ CountInv /\ FrameInv
  /\ \A c \in Contexts : CallOK(c) /\ CheckOK(c)
  /\ HeapIsConsistent /\ PropertiesReleasedFirst

-----------------------------------------------------------------------------
(* Counting the references of an object. *)

(* Any set of slots is finite and has fewer members than immortalRefCount. *)
LEMMA FewSlots ==
  ASSUME Disciplined, NEW S \in SUBSET Slots
  PROVE  /\ IsFiniteSet(S)
         /\ Cardinality(S) \in Nat
         /\ Cardinality(S) < Half - 1
         /\ Cardinality(S) = 0 <=> S = {}
  <1>1. IsFiniteSet(S) /\ Cardinality(S) <= Cardinality(Slots)
    BY FS_Subset, SlotsAssumption
  <1>2. Cardinality(S) \in Nat /\ Cardinality(Slots) \in Nat
    BY <1>1, FS_CardinalityType, SlotsAssumption
  <1>3. Cardinality(S) = 0 <=> S = {}
    BY <1>1, FS_EmptySet
  <1> QED BY <1>1, <1>2, <1>3, WordAssumption DEF Disciplined, ImmortalRefCount

(* Filling empty slots with references to o adds their number to o's, and  *)
(* nothing to any other object's.                                          *)
LEMMA FillSlots ==
  ASSUME Disciplined, NEW o \in Objects, NEW S \in SUBSET Slots,
         \A r \in S : slot[r] = Nil,
         slot' = [r \in Slots |-> IF r \in S THEN o ELSE slot[r]]
  PROVE  /\ Refs(o)' = Refs(o) \cup S
         /\ \A p \in Objects \ {o} : Refs(p)' = Refs(p)
         /\ Cardinality(Refs(o)') = Cardinality(Refs(o)) + Cardinality(S)
  <1>1. Refs(o)' = Refs(o) \cup S
    BY DEF Refs
  <1>2. \A p \in Objects \ {o} : Refs(p)' = Refs(p)
    BY CellsAssumption DEF Refs
  <1>3. Refs(o) \in SUBSET Slots /\ Refs(o) \cap S = {}
    BY CellsAssumption DEF Refs
  <1>4. /\ IsFiniteSet(Refs(o)) /\ IsFiniteSet(S)
        /\ Cardinality(Refs(o)) \in Nat /\ Cardinality(S) \in Nat
    BY <1>3, FewSlots
  <1>5. Cardinality(Refs(o) \cup S)
          = Cardinality(Refs(o)) + Cardinality(S) - Cardinality(Refs(o) \cap S)
    BY <1>4, FS_Union
  <1>6. Cardinality(Refs(o) \cap S) = 0
    BY <1>3, FS_EmptySet
  <1> QED BY <1>1, <1>2, <1>4, <1>5, <1>6

(* Clearing slots that refer to o subtracts their number. *)
LEMMA ClearSlots ==
  ASSUME Disciplined, NEW o \in Objects, NEW S \in SUBSET Slots,
         \A r \in S : slot[r] = o,
         slot' = [r \in Slots |-> IF r \in S THEN Nil ELSE slot[r]]
  PROVE  /\ Refs(o)' = Refs(o) \ S
         /\ \A p \in Objects \ {o} : Refs(p)' = Refs(p)
         /\ Cardinality(Refs(o)') = Cardinality(Refs(o)) - Cardinality(S)
  <1>1. Refs(o)' = Refs(o) \ S
    BY CellsAssumption DEF Refs
  <1>2. \A p \in Objects \ {o} : Refs(p)' = Refs(p)
    BY CellsAssumption DEF Refs
  <1>3. Refs(o) \in SUBSET Slots /\ Refs(o) \cap S = S
    BY DEF Refs
  <1>4. IsFiniteSet(Refs(o))
    BY <1>3, FewSlots
  <1>5. Cardinality(Refs(o) \ S) = Cardinality(Refs(o)) - Cardinality(Refs(o) \cap S)
    BY <1>4, FS_Difference
  <1> QED BY <1>1, <1>2, <1>3, <1>5

(* Moving a reference changes no object's number of references. *)
LEMMA MoveSlot ==
  ASSUME Disciplined, TypeOK, NEW o \in Objects, NEW r \in Slots, NEW q \in Slots,
         slot[r] = o, slot[q] = Nil,
         slot' = [slot EXCEPT ![r] = Nil, ![q] = slot[r]]
  PROVE  /\ Refs(o)' = (Refs(o) \ {r}) \cup {q}
         /\ \A p \in Objects \ {o} : Refs(p)' = Refs(p)
         /\ Cardinality(Refs(o)') = Cardinality(Refs(o))
  <1>0. /\ o # Nil /\ r # q
        /\ \A s \in Slots : slot'[s] = IF s = q THEN o ELSE IF s = r THEN Nil ELSE slot[s]
    BY CellsAssumption DEF TypeOK
  <1>1. Refs(o)' = (Refs(o) \ {r}) \cup {q}
    BY <1>0 DEF Refs
  <1>2. \A p \in Objects \ {o} : Refs(p)' = Refs(p)
    BY <1>0, CellsAssumption DEF Refs
  <1>3. r \in Refs(o) /\ q \notin Refs(o) /\ Refs(o) \in SUBSET Slots
    BY <1>0 DEF Refs
  <1>4. IsFiniteSet(Refs(o)) /\ Cardinality(Refs(o)) \in Nat
    BY <1>3, FewSlots
  <1>5. /\ IsFiniteSet(Refs(o) \ {r})
        /\ Cardinality(Refs(o) \ {r}) = Cardinality(Refs(o)) - 1
    BY <1>3, <1>4, FS_RemoveElement
  <1>6. Cardinality((Refs(o) \ {r}) \cup {q}) = Cardinality(Refs(o) \ {r}) + 1
    BY <1>3, <1>5, FS_AddElement
  <1> QED BY <1>1, <1>2, <1>4, <1>5, <1>6

-----------------------------------------------------------------------------
(* What a step of one context leaves alone of the others'. *)

(* No slot is private to two contexts. *)
LEMMA PrivateDisjoint ==
  ASSUME TypeOK, FrameInv, NEW c \in Contexts, NEW d \in Contexts, c # d
  PROVE  Private(c) \cap Private(d) = {}
  <1>1. \A e \in Contexts : Destroying(e) =>
          Len(frames[e]) \in 1 .. Len(frames[e]) /\ Top(e) \in Objects
    BY EmptySeq, ElementOfSeq, LenProperties DEF TypeOK, Destroying, Top
  <1>2. Destroying(c) /\ Destroying(d) => Top(c) # Top(d)
    BY <1>1 DEF FrameInv, DestroyedOnce, Top
  <1> QED BY <1>1, <1>2, SlotsAssumption DEF Private

(* A context keeps its part of the invariant during steps of others that   *)
(* do not touch its private slots.                                         *)
LEMMA OthersKeep ==
  ASSUME IInv, NEW d \in Contexts,
         call'[d] = call[d], checked'[d] = checked[d], frames'[d] = frames[d],
         Destroying(d) => life'[Top(d)] = life[Top(d)],
         \A r \in Private(d) : slot'[r] = slot[r],
         \A p \in Objects : \/ Refs(p)' = Refs(p)
                            \/ \A r \in Locals(d) : Refs(p) # {r}
  PROVE  CallOK(d)' /\ CheckOK(d)'
  <1>1. CallOK(d) /\ CheckOK(d) /\ TypeOK
    BY DEF IInv
  <1>2. Private(d)' = Private(d) /\ Locals(d) \subseteq Private(d)
    BY DEF Private, Locals, Destroying, Top
  <1>3. CallOK(d)'
    BY <1>1, <1>2 DEF CallOK, Locals
  <1>4. CheckOK(d)'
    <2> SUFFICES ASSUME checked[d] # Nil PROVE CheckOK(d)'
      BY DEF CheckOK
    <2> DEFINE k == checked[d]
               o == slot[k]
    <2>1. k \in Locals(d) /\ o # Nil /\ Refs(o) = {k}
      BY <1>1 DEF CheckOK
    <2>2. slot'[k] = o /\ o \in Objects /\ k \in Slots
      BY <1>1, <1>2, <2>1 DEF TypeOK, Locals
    <2>3. \A p \in Objects : p = o => Refs(p)' = {k}
      BY <2>1
    <2>4. {r \in Slots : slot'[r] = o} = {k}
      BY <2>2, <2>3 DEF Refs
    <2> QED BY <2>1, <2>2, <2>4 DEF CheckOK, Locals, Refs
  <1> QED BY <1>3, <1>4

-----------------------------------------------------------------------------
(* One lemma per action: the step keeps the inductive invariant. *)

(* The word arithmetic for a retain or release of the slots S. *)
LEMMA WordArithmetic ==
  ASSUME Disciplined, NEW S \in SUBSET Slots, NEW w \in Words
  PROVE  /\ AddWord(w, Cardinality(S)) \in Words
         /\ SubWord(w, Cardinality(S)) \in Words
  BY FewSlots, WordAssumption DEF Words, AddWord, SubWord

(* A context running a destroyer has that destroyer's object on top. *)
LEMMA TopOfStack ==
  ASSUME TypeOK, FrameInv, NEW c \in Contexts, Destroying(c)
  PROVE  /\ Len(frames[c]) \in 1 .. Len(frames[c])
         /\ Top(c) \in Objects
         /\ life[Top(c)] \in {"deinit", "fields"}
  BY EmptySeq, ElementOfSeq, LenProperties DEF TypeOK, FrameInv, Destroying, Top

LEMMA CreateStep ==
  ASSUME Disciplined, IInv, NEW c \in Contexts, NEW r \in Slots, NEW o \in Objects,
         NEW w \in Words, life[o] = "unused",
         w = IF o \in StaticCells THEN ImmortalRefCount ELSE 1 + Flag(o),
         Create(c, r, o, w), freeList' = freeList \ {o}
  PROVE  IInv'
  <1>1. TypeOK /\ CountInv /\ FrameInv /\ HeapIsConsistent /\ PropertiesReleasedFirst
    BY DEF IInv
  <1>2. /\ r \in Locals(c) /\ slot[r] = Nil /\ InProgram(c)
        /\ life' = [life EXCEPT ![o] = "live"]
        /\ refcount' = [refcount EXCEPT ![o] = w]
        /\ slot' = [slot EXCEPT ![r] = o]
        /\ checked' = [checked EXCEPT ![c] = Nil]
        /\ UNCHANGED <<call, frames, halted>>
    BY DEF Create
  <1>3. /\ Refs(o) = {} /\ Refs(o)' = {r}
        /\ \A p \in Objects \ {o} : Refs(p)' = Refs(p)
    <2>1. Refs(o) = {}
      BY <1>1 DEF CountInv
    <2>2. \A s \in Slots : slot'[s] = IF s = r THEN o ELSE slot[s]
      BY <1>1, <1>2 DEF TypeOK
    <2> QED BY <1>2, <2>1, <2>2, CellsAssumption DEF Refs
  <1>4. TypeOK'
    BY <1>1, <1>2 DEF TypeOK
  <1>5. CountInv'
    <2>1. Cardinality(Refs(o)') = 1
      BY <1>3, FS_Singleton
    <2>2. \A p \in Objects : /\ life'[p] = IF p = o THEN "live" ELSE life[p]
                            /\ refcount'[p] = IF p = o THEN w ELSE refcount[p]
      BY <1>1, <1>2 DEF TypeOK
    <2>3. \A p \in Objects : Refs(p)' # {} => life'[p] = "live"
      BY <1>1, <1>3, <2>2 DEF CountInv
    <2>4. ASSUME NEW p \in Objects \ StaticCells
          PROVE  /\ life'[p] = "live" => Refs(p)' # {}
                 /\ life'[p] # "unused" => refcount'[p] = Cardinality(Refs(p)') + Flag(p)
      <3>1. CASE p = o
        <4>1. w = 1 + Flag(o)
          BY <2>4, <3>1
        <4> QED BY <1>3, <2>1, <2>2, <3>1, <4>1, WordAssumption DEF Flag
      <3>2. CASE p # o
        BY <1>1, <1>3, <2>2, <3>2 DEF CountInv
      <3> QED BY <3>1, <3>2
    <2>5. ASSUME NEW p \in StaticCells
          PROVE  /\ life'[p] \in {"unused", "live"}
                 /\ life'[p] = "live" => refcount'[p] = ImmortalRefCount
      BY <1>1, <2>2 DEF CountInv, Objects
    <2> QED BY <2>3, <2>4, <2>5 DEF CountInv, Flag
  <1>6. \A d \in Contexts : \A i \in 1 .. Len(frames[d]) : frames[d][i] # o
    BY <1>1 DEF FrameInv
  <1>7. FrameInv'
    BY <1>1, <1>2, <1>6, ElementOfSeq DEF FrameInv, DestroyedOnce, TypeOK
  <1>8. ASSUME NEW d \in Contexts PROVE CallOK(d)' /\ CheckOK(d)'
    <2>1. CASE d = c
      BY <1>1, <1>2, <2>1 DEF CallOK, CheckOK, InProgram, Ready, TypeOK
    <2>2. CASE d # c
      <3>1. r \notin Private(d)
        BY <1>1, <1>2, <2>2, PrivateDisjoint DEF Private, Locals
      <3>2. Destroying(d) => Top(d) \in Objects /\ Top(d) # o
        BY <1>1, TopOfStack
      <3>3. \A k \in Private(d) : slot'[k] = slot[k]
        BY <1>1, <1>2, <3>1 DEF TypeOK, Private
      <3> QED BY <1>1, <1>2, <1>3, <2>2, <3>2, <3>3, OthersKeep DEF TypeOK
    <2> QED BY <2>1, <2>2
  <1>9. HeapIsConsistent'
    BY <1>1, <1>2 DEF HeapIsConsistent, TypeOK
  <1>10. PropertiesReleasedFirst'
    BY <1>1, <1>2, SlotsAssumption DEF PropertiesReleasedFirst, TypeOK, Locals
  <1> QED BY <1>4, <1>5, <1>7, <1>8, <1>9, <1>10 DEF IInv

LEMMA RetainLoadStep ==
  ASSUME Disciplined, IInv, NEW c \in Contexts, NEW o \in Objects,
         NEW S \in SUBSET Slots, RetainLoad(c, o, S)
  PROVE  IInv'
  <1>1. TypeOK /\ CountInv /\ FrameInv /\ HeapIsConsistent /\ PropertiesReleasedFirst
    BY DEF IInv
  <1>2. /\ InProgram(c) /\ S # {}
        /\ \A r \in S : r \in Locals(c) /\ slot[r] = Nil
        /\ checked' = [checked EXCEPT ![c] = Nil]
        /\ UNCHANGED <<life, refcount, freeList, frames, halted>>
    BY DEF RetainLoad
  <1>3. \E r \in Locals(c) : slot[r] = o
    BY DEF RetainLoad, Borrowed, Disciplined
  <1>4. o \in Objects /\ Refs(o) # {} /\ life[o] = "live"
    BY <1>1, <1>3 DEF CountInv, Refs, Locals
  <1>5. CASE refcount[o] = ImmortalRefCount
    <2>1. /\ slot' = [r \in Slots |-> IF r \in S THEN o ELSE slot[r]]
          /\ UNCHANGED call
      BY <1>5 DEF RetainLoad
    <2>2. /\ Refs(o)' = Refs(o) \cup S
          /\ \A p \in Objects \ {o} : Refs(p)' = Refs(p)
      BY <1>2, <2>1, FillSlots
    <2>3. o \in StaticCells
      <3> SUFFICES ASSUME o \notin StaticCells PROVE FALSE
        OBVIOUS
      <3>1. refcount[o] = Cardinality(Refs(o)) + Flag(o)
        BY <1>1, <1>4 DEF CountInv
      <3>2. /\ Cardinality(Refs(o)) \in Nat /\ Cardinality(Refs(o)) < Half - 1
            /\ Cardinality(Refs(o)) # 0
        BY <1>4, FewSlots DEF Refs
      <3> QED BY <1>5, <3>1, <3>2, WordAssumption DEF Flag, ImmortalRefCount
    <2>4. TypeOK'
      BY <1>1, <1>2, <2>1 DEF TypeOK
    <2>5. CountInv'
      BY <1>1, <1>2, <1>4, <2>2, <2>3 DEF CountInv
    <2>6. FrameInv'
      BY <1>1, <1>2 DEF FrameInv, DestroyedOnce
    <2>7. ASSUME NEW d \in Contexts PROVE CallOK(d)' /\ CheckOK(d)'
      <3>1. CASE d = c
        BY <1>1, <1>2, <2>1, <3>1 DEF CallOK, CheckOK, InProgram, Ready, TypeOK
      <3>2. CASE d # c
        <4>1. \A k \in Private(d) : slot'[k] = slot[k]
          BY <1>1, <1>2, <2>1, <3>2, PrivateDisjoint DEF Private, Locals
        <4>2. \A r \in Locals(d) : Refs(o) # {r}
          BY <1>3, <3>2 DEF Locals, Refs
        <4> QED BY <1>1, <1>2, <2>1, <2>2, <3>2, <4>1, <4>2, OthersKeep DEF TypeOK
      <3> QED BY <3>1, <3>2
    <2>8. HeapIsConsistent'
      BY <1>1, <1>2 DEF HeapIsConsistent
    <2>9. PropertiesReleasedFirst'
      BY <1>1, <1>2, <2>1, SlotsAssumption DEF PropertiesReleasedFirst, Locals
    <2> QED BY <2>4, <2>5, <2>6, <2>7, <2>8, <2>9 DEF IInv
  <1>6. CASE refcount[o] # ImmortalRefCount
    <2>1. call' = [call EXCEPT ![c] = Call("retain", o, S)] /\ UNCHANGED slot
      BY <1>6 DEF RetainLoad
    <2>2. o \notin StaticCells
      BY <1>1, <1>4, <1>6 DEF CountInv
    <2>3. TypeOK'
      BY <1>1, <1>2, <2>1 DEF TypeOK, Call
    <2>4. CountInv' /\ FrameInv'
      <3>1. \A p \in Objects : Refs(p)' = Refs(p)
        BY <2>1 DEF Refs
      <3>2. CountInv'
        BY <1>1, <1>2, <3>1 DEF CountInv, Flag
      <3>3. FrameInv'
        BY <1>1, <1>2 DEF FrameInv, DestroyedOnce
      <3> QED BY <3>2, <3>3
    <2>5. ASSUME NEW d \in Contexts PROVE CallOK(d)' /\ CheckOK(d)'
      <3>1. CASE d = c
        BY <1>1, <1>2, <1>3, <1>4, <2>1, <2>2, <3>1 DEF CallOK, CheckOK, TypeOK, Call, Locals
      <3>2. CASE d # c
        BY <1>1, <1>2, <2>1, <3>2, OthersKeep DEF TypeOK, Refs, Private
      <3> QED BY <3>1, <3>2
    <2>6. HeapIsConsistent' /\ PropertiesReleasedFirst'
      BY <1>1, <1>2, <2>1 DEF HeapIsConsistent, PropertiesReleasedFirst
    <2> QED BY <2>3, <2>4, <2>5, <2>6 DEF IInv
  <1> QED BY <1>5, <1>6

LEMMA RetainAddStep ==
  ASSUME Disciplined, IInv, NEW c \in Contexts, RetainAdd(c)
  PROVE  IInv'
  <1> DEFINE o == call[c].obj
             S == call[c].slots
  <1>1. /\ TypeOK /\ CountInv /\ FrameInv /\ HeapIsConsistent /\ PropertiesReleasedFirst
        /\ CallOK(c)
    BY DEF IInv
  <1>2. /\ call[c].fn = "retain"
        /\ refcount' = [refcount EXCEPT ![o] = AddWord(refcount[o], Cardinality(S))]
        /\ slot' = [r \in Slots |-> IF r \in S THEN o ELSE slot[r]]
        /\ call' = [call EXCEPT ![c] = NoCall]
        /\ UNCHANGED <<life, freeList, frames, checked, halted>>
    BY DEF RetainAdd
  <1>3. /\ checked[c] = Nil /\ o \in Objects \ StaticCells /\ S \in SUBSET Slots
        /\ \A r \in S : r \in Locals(c) /\ slot[r] = Nil
    BY <1>1, <1>2 DEF CallOK, TypeOK
  <1>4. PICK h \in Locals(c) : slot[h] = o
    BY <1>1, <1>2 DEF CallOK
  <1>5. /\ Refs(o) # {} /\ life[o] = "live"
        /\ refcount[o] = Cardinality(Refs(o)) + Flag(o)
    BY <1>1, <1>3, <1>4 DEF CountInv, Refs, Locals
  <1>6. /\ \A p \in Objects : p = o => Refs(p)' = Refs(p) \cup S
        /\ \A p \in Objects : p = o =>
             Cardinality(Refs(p)') = Cardinality(Refs(o)) + Cardinality(S)
        /\ \A p \in Objects \ {o} : Refs(p)' = Refs(p)
    <2>1. ASSUME NEW p \in Objects, p = o
          PROVE  /\ Refs(p)' = Refs(p) \cup S
                 /\ \A q \in Objects \ {p} : Refs(q)' = Refs(q)
                 /\ Cardinality(Refs(p)') = Cardinality(Refs(p)) + Cardinality(S)
      <3>1. slot' = [r \in Slots |-> IF r \in S THEN p ELSE slot[r]]
        BY <1>2, <2>1
      <3> HIDE DEF o, S
      <3> QED BY <1>3, <3>1, FillSlots
    <2> QED BY <1>3, <2>1
  <1>7. AddWord(refcount[o], Cardinality(S)) = Cardinality(Refs(o)) + Cardinality(S) + Flag(o)
    <2>1. /\ Cardinality(Refs(o)) \in Nat /\ Cardinality(Refs(o)) < Half - 1
          /\ Cardinality(S) \in Nat /\ Cardinality(S) < Half - 1
      BY <1>3, FewSlots DEF Refs
    <2>2. \A p \in Objects \ {o} : Refs(p)' = Refs(p)
      BY <1>6
    <2>3. Cardinality(Refs(o)) + Cardinality(S) < Half - 1
      <3>1. Cardinality(Refs(o) \cup S) = Cardinality(Refs(o)) + Cardinality(S)
        <4>1. Refs(o) \cap S = {} /\ Refs(o) \in SUBSET Slots
          BY <1>3, CellsAssumption DEF Refs
        <4>2. IsFiniteSet(Refs(o)) /\ IsFiniteSet(S)
          BY <1>3, <4>1, FewSlots
        <4>3. Cardinality(Refs(o) \cap S) = 0
          BY <4>1, FS_EmptySet
        <4> DEFINE R == Refs(o)
        <4> HIDE DEF o, S, R
        <4>4. Cardinality(R \cup S) = Cardinality(R) + Cardinality(S) - Cardinality(R \cap S)
          BY <4>2, FS_Union DEF R
        <4> QED BY <2>1, <4>3, <4>4 DEF R
      <3>2. Cardinality(Refs(o) \cup S) < Half - 1
        BY <1>3, FewSlots DEF Refs
      <3> QED BY <3>1, <3>2
    <2> QED BY <1>5, <2>1, <2>3, WordAssumption DEF AddWord, Flag
  <1>8. TypeOK'
    BY <1>1, <1>2, <1>3, WordArithmetic DEF TypeOK, NoCall
  <1>9. CountInv'
    <2>1. \A p \in Objects : refcount'[p] =
            IF p = o THEN Cardinality(Refs(o)) + Cardinality(S) + Flag(o) ELSE refcount[p]
      BY <1>1, <1>2, <1>7 DEF TypeOK
    <2>2. \A p \in Objects : Refs(p)' # {} => life'[p] = "live"
      BY <1>1, <1>2, <1>5, <1>6 DEF CountInv
    <2>3. ASSUME NEW p \in Objects \ StaticCells
          PROVE  /\ life'[p] = "live" => Refs(p)' # {}
                 /\ life'[p] # "unused" => refcount'[p] = Cardinality(Refs(p)') + Flag(p)
      <3>1. CASE p = o
        BY <1>5, <1>6, <2>1, <3>1
      <3>2. CASE p # o
        BY <1>1, <1>2, <1>6, <2>1, <3>2 DEF CountInv
      <3> QED BY <3>1, <3>2
    <2>4. ASSUME NEW p \in StaticCells
          PROVE  /\ life'[p] \in {"unused", "live"}
                 /\ life'[p] = "live" => refcount'[p] = ImmortalRefCount
      BY <1>1, <1>2, <1>3, <2>1 DEF CountInv, Objects
    <2> QED BY <2>2, <2>3, <2>4 DEF CountInv, Flag
  <1>10. FrameInv'
    BY <1>1, <1>2 DEF FrameInv, DestroyedOnce
  <1>11. ASSUME NEW d \in Contexts PROVE CallOK(d)' /\ CheckOK(d)'
    <2>1. CASE d = c
      BY <1>1, <1>2, <1>3, <2>1 DEF CallOK, CheckOK, TypeOK, NoCall
    <2>2. CASE d # c
      <3>1. \A k \in Private(d) : slot'[k] = slot[k]
        BY <1>1, <1>2, <1>3, <2>2, PrivateDisjoint DEF Private, Locals
      <3>2. \A r \in Locals(d) : Refs(o) # {r}
        BY <1>4, <2>2 DEF Locals, Refs
      <3>3. \A p \in Objects : Refs(p)' = Refs(p) \/ \A r \in Locals(d) : Refs(p) # {r}
        BY <1>6, <3>2
      <3> QED BY <1>1, <1>2, <2>2, <3>1, <3>3, OthersKeep DEF TypeOK
    <2> QED BY <2>1, <2>2
  <1>12. HeapIsConsistent'
    BY <1>1, <1>2 DEF HeapIsConsistent
  <1>13. PropertiesReleasedFirst'
    BY <1>1, <1>2, <1>3, SlotsAssumption DEF PropertiesReleasedFirst, Locals
  <1> QED BY <1>8, <1>9, <1>10, <1>11, <1>12, <1>13 DEF IInv

LEMMA BeginReleaseStep ==
  ASSUME Disciplined, IInv, NEW c \in Contexts, NEW S \in SUBSET Slots,
         Ready(c), S # {}, S \subseteq Private(c), BeginRelease(c, S),
         \A r \in S : slot[r] # Nil
  PROVE  IInv'
  <1>1. /\ TypeOK /\ CountInv /\ FrameInv /\ HeapIsConsistent /\ PropertiesReleasedFirst
        /\ CallOK(c) /\ CheckOK(c)
    BY DEF IInv
  <1>2. /\ checked' = [checked EXCEPT ![c] = Nil]
        /\ UNCHANGED <<life, refcount, freeList, frames, halted>>
    BY DEF BeginRelease
  <1>3. PICK o \in Objects :
          /\ \A r \in S : slot[r] = o
          /\ IF refcount[o] = ImmortalRefCount
               THEN /\ slot' = [r \in Slots |-> IF r \in S THEN Nil ELSE slot[r]]
                    /\ UNCHANGED call
               ELSE /\ call' = [call EXCEPT ![c] = Call("release", o, S)]
                    /\ UNCHANGED slot
    BY DEF BeginRelease
  <1>4. S \subseteq Refs(o) /\ Refs(o) # {} /\ life[o] = "live"
    BY <1>1, <1>3 DEF CountInv, Refs
  <1>5. CASE refcount[o] = ImmortalRefCount
    <2>1. /\ slot' = [r \in Slots |-> IF r \in S THEN Nil ELSE slot[r]]
          /\ UNCHANGED call
      BY <1>3, <1>5
    <2>2. /\ Refs(o)' = Refs(o) \ S
          /\ \A p \in Objects \ {o} : Refs(p)' = Refs(p)
      BY <1>3, <2>1, ClearSlots
    <2>3. o \in StaticCells
      <3> SUFFICES ASSUME o \notin StaticCells PROVE FALSE
        OBVIOUS
      <3>1. refcount[o] = Cardinality(Refs(o)) + Flag(o)
        BY <1>1, <1>4 DEF CountInv
      <3>2. /\ Cardinality(Refs(o)) \in Nat /\ Cardinality(Refs(o)) < Half - 1
            /\ Cardinality(Refs(o)) # 0
        BY <1>4, FewSlots DEF Refs
      <3> QED BY <1>5, <3>1, <3>2, WordAssumption DEF Flag, ImmortalRefCount
    <2>4. TypeOK'
      BY <1>1, <1>2, <2>1 DEF TypeOK
    <2>5. CountInv'
      BY <1>1, <1>2, <1>4, <2>2, <2>3 DEF CountInv, Flag
    <2>6. FrameInv'
      BY <1>1, <1>2 DEF FrameInv, DestroyedOnce
    <2>7. ASSUME NEW d \in Contexts PROVE CallOK(d)' /\ CheckOK(d)'
      <3>1. CASE d = c
        BY <1>1, <1>2, <2>1, <3>1 DEF CallOK, CheckOK, Ready, TypeOK
      <3>2. CASE d # c
        <4>1. S \cap Private(d) = {}
          BY <1>1, <3>2, PrivateDisjoint
        <4>2. \A k \in Private(d) : slot'[k] = slot[k]
          BY <2>1, <4>1 DEF Private
        <4>3. \A r \in Locals(d) : Refs(o) # {r}
          BY <1>4, <4>1 DEF Locals, Private
        <4> QED BY <1>1, <1>2, <2>1, <2>2, <3>2, <4>2, <4>3, OthersKeep DEF TypeOK
      <3> QED BY <3>1, <3>2
    <2>8. HeapIsConsistent'
      BY <1>1, <1>2 DEF HeapIsConsistent
    <2>9. PropertiesReleasedFirst'
      BY <1>1, <1>2, <2>1 DEF PropertiesReleasedFirst
    <2> QED BY <2>4, <2>5, <2>6, <2>7, <2>8, <2>9 DEF IInv
  <1>6. CASE refcount[o] # ImmortalRefCount
    <2>1. call' = [call EXCEPT ![c] = Call("release", o, S)] /\ UNCHANGED slot
      BY <1>3, <1>6
    <2>2. o \notin StaticCells
      BY <1>1, <1>4, <1>6 DEF CountInv
    <2>3. TypeOK'
      BY <1>1, <1>2, <2>1 DEF TypeOK, Call
    <2>4. CountInv' /\ FrameInv'
      <3>1. \A p \in Objects : Refs(p)' = Refs(p)
        BY <2>1 DEF Refs
      <3>2. CountInv'
        BY <1>1, <1>2, <3>1 DEF CountInv, Flag
      <3>3. FrameInv'
        BY <1>1, <1>2 DEF FrameInv, DestroyedOnce
      <3> QED BY <3>2, <3>3
    <2>5. ASSUME NEW d \in Contexts PROVE CallOK(d)' /\ CheckOK(d)'
      <3>1. CASE d = c
        <4>1. Private(c)' = Private(c)
          BY <1>2 DEF Private, Destroying, Top
        <4> QED
          BY <1>1, <1>2, <1>3, <2>1, <2>2, <3>1, <4>1 DEF CallOK, CheckOK, TypeOK, Call
      <3>2. CASE d # c
        BY <1>1, <1>2, <2>1, <3>2, OthersKeep DEF TypeOK, Refs, Private
      <3> QED BY <3>1, <3>2
    <2>6. HeapIsConsistent' /\ PropertiesReleasedFirst'
      BY <1>1, <1>2, <2>1 DEF HeapIsConsistent, PropertiesReleasedFirst
    <2> QED BY <2>3, <2>4, <2>5, <2>6 DEF IInv
  <1> QED BY <1>5, <1>6

(* The word after the subtraction, and when it calls for destruction: with *)
(* the last reference and not before.                                      *)
LEMMA SubtractReferences ==
  ASSUME Disciplined, NEW o \in Objects, NEW S \in SUBSET Slots, S \subseteq Refs(o),
         refcount[o] = Cardinality(Refs(o)) + Flag(o)
  PROVE  /\ SubWord(refcount[o], Cardinality(S)) = Cardinality(Refs(o) \ S) + Flag(o)
         /\ Masked(SubWord(refcount[o], Cardinality(S))) = 0 <=> Refs(o) \ S = {}
  <1> DEFINE R == Refs(o)
             T == R \ S
  <1>1. R \in SUBSET Slots /\ T \in SUBSET Slots
    BY DEF Refs
  <1>2. /\ IsFiniteSet(R) /\ Cardinality(R) \in Nat /\ Cardinality(R) < Half - 1
        /\ Cardinality(T) \in Nat /\ Cardinality(T) < Half - 1
        /\ Cardinality(T) = 0 <=> T = {}
        /\ Cardinality(S) \in Nat
    BY <1>1, FewSlots
  <1>3. Cardinality(T) = Cardinality(R) - Cardinality(S)
    <2>1. R \cap S = S
      OBVIOUS
    <2> HIDE DEF R
    <2> QED BY <1>2, <2>1, FS_Difference
  <1>4. Flag(o) = 0 \/ Flag(o) = Half
    BY DEF Flag
  <1> HIDE DEF R, T
  <1>5. SubWord(Cardinality(R) + Flag(o), Cardinality(S)) = Cardinality(T) + Flag(o)
    BY <1>2, <1>3, <1>4, WordAssumption DEF SubWord
  <1>6. Masked(Cardinality(T) + Flag(o)) = Cardinality(T)
    BY <1>2, <1>4, WordAssumption DEF Masked
  <1> QED BY <1>2, <1>5, <1>6 DEF R, T

LEMMA ReleaseSubStep ==
  ASSUME Disciplined, IInv, NEW c \in Contexts, ReleaseSub(c)
  PROVE  IInv'
  <1>1. /\ TypeOK /\ CountInv /\ FrameInv /\ HeapIsConsistent /\ PropertiesReleasedFirst
        /\ CallOK(c)
    BY DEF IInv
  <1>2. PICK o \in Objects : o = call[c].obj
    BY <1>1 DEF CallOK, ReleaseSub
  <1>3. PICK S \in SUBSET Slots : S = call[c].slots
    BY <1>1 DEF TypeOK
  <1> DEFINE w == SubWord(refcount[o], Cardinality(S))
  <1>4. /\ call[c].fn = "release"
        /\ refcount' = [refcount EXCEPT ![o] = w]
        /\ slot' = [r \in Slots |-> IF r \in S THEN Nil ELSE slot[r]]
        /\ IF Masked(w) = 0
             THEN /\ life' = [life EXCEPT ![o] = "deinit"]
                  /\ frames' = [frames EXCEPT ![c] = Append(frames[c], o)]
             ELSE UNCHANGED <<life, frames>>
        /\ call' = [call EXCEPT ![c] = NoCall]
        /\ UNCHANGED <<freeList, checked, halted>>
    BY <1>2, <1>3 DEF ReleaseSub
  <1>5. /\ checked[c] = Nil /\ o \notin StaticCells /\ S # {}
        /\ S \subseteq Private(c) /\ \A r \in S : slot[r] = o
    BY <1>1, <1>2, <1>3, <1>4 DEF CallOK
  <1>6. /\ S \subseteq Refs(o) /\ Refs(o) # {} /\ life[o] = "live"
        /\ refcount[o] = Cardinality(Refs(o)) + Flag(o)
    BY <1>1, <1>5 DEF CountInv, Refs
  <1>7. /\ w = Cardinality(Refs(o) \ S) + Flag(o)
        /\ Masked(w) = 0 <=> Refs(o) \ S = {}
    BY <1>6, SubtractReferences
  <1>8. w \in Words
    BY <1>1, WordArithmetic DEF TypeOK
  <1> HIDE DEF w
  <1>9. /\ Refs(o)' = Refs(o) \ S
        /\ \A p \in Objects \ {o} : Refs(p)' = Refs(p)
    BY <1>4, <1>5, ClearSlots
  <1>10. /\ \A d \in Contexts : frames[d] \in Seq(Objects)
         /\ frames'[c] = IF Masked(w) = 0 THEN Append(frames[c], o) ELSE frames[c]
         /\ \A d \in Contexts \ {c} : frames'[d] = frames[d]
         /\ \A p \in Objects : life'[p] =
              IF p = o /\ Masked(w) = 0 THEN "deinit" ELSE life[p]
    BY <1>1, <1>4 DEF TypeOK
  <1>11. TypeOK'
    <2>1. frames' \in [Contexts -> Seq(Objects)]
      <3>1. Append(frames[c], o) \in Seq(Objects)
        BY <1>10, AppendProperties
      <3>2. CASE Masked(w) = 0
        BY <1>1, <1>4, <3>1, <3>2 DEF TypeOK
      <3>3. CASE Masked(w) # 0
        BY <1>1, <1>4, <3>3 DEF TypeOK
      <3> QED BY <3>2, <3>3
    <2>2. life' \in [Objects -> {"unused", "live", "deinit", "fields"}]
      BY <1>1, <1>4 DEF TypeOK
    <2> QED BY <1>1, <1>4, <1>8, <2>1, <2>2 DEF TypeOK, NoCall
  <1>12. CountInv'
    <2>1. \A p \in Objects : refcount'[p] = IF p = o THEN w ELSE refcount[p]
      BY <1>1, <1>4 DEF TypeOK
    <2>2. ASSUME NEW p \in Objects, Refs(p)' # {} PROVE life'[p] = "live"
      BY <1>1, <1>6, <1>7, <1>9, <1>10, <2>2 DEF CountInv
    <2>3. ASSUME NEW p \in Objects \ StaticCells
          PROVE  /\ life'[p] = "live" => Refs(p)' # {}
                 /\ life'[p] # "unused" => refcount'[p] = Cardinality(Refs(p)') + Flag(p)
      <3>1. CASE p = o
        BY <1>6, <1>7, <1>9, <1>10, <2>1, <3>1
      <3>2. CASE p # o
        BY <1>1, <1>9, <1>10, <2>1, <3>2 DEF CountInv
      <3> QED BY <3>1, <3>2
    <2>4. ASSUME NEW p \in StaticCells
          PROVE  /\ life'[p] \in {"unused", "live"}
                 /\ life'[p] = "live" => refcount'[p] = ImmortalRefCount
      BY <1>1, <1>5, <1>10, <2>1 DEF CountInv, Objects
    <2> QED BY <2>2, <2>3, <2>4 DEF CountInv, Flag
  <1>13. FrameInv'
    <2>1. CASE Masked(w) # 0
      BY <1>1, <1>4, <2>1 DEF FrameInv, DestroyedOnce
    <2>2. CASE Masked(w) = 0
      <3>1. \A d \in Contexts : \A i \in 1 .. Len(frames[d]) :
              frames[d][i] \in Objects /\ frames[d][i] # o
        BY <1>1, <1>6, <1>10, ElementOfSeq DEF FrameInv
      <3>2. /\ Len(frames'[c]) = Len(frames[c]) + 1
            /\ \A i \in 1 .. Len(frames[c]) : frames'[c][i] = frames[c][i]
            /\ frames'[c][Len(frames[c]) + 1] = o
            /\ Len(frames[c]) \in Nat
        BY <1>10, <2>2, AppendProperties, LenProperties
      <3>3. \A i \in 1 .. Len(frames'[c]) :
              i \in 1 .. Len(frames[c]) \/ i = Len(frames[c]) + 1
        BY <3>2
      <3>4. DestroyedOnce'
        <4> SUFFICES ASSUME NEW d \in Contexts, NEW e \in Contexts,
                            NEW i \in 1 .. Len(frames'[d]), NEW j \in 1 .. Len(frames'[e]),
                            frames'[d][i] = frames'[e][j]
                     PROVE  d = e /\ i = j
          BY DEF DestroyedOnce
        <4>0. \A a, b \in Contexts : \A k \in 1 .. Len(frames[a]), l \in 1 .. Len(frames[b]) :
                frames[a][k] = frames[b][l] => a = b /\ k = l
          BY <1>1 DEF FrameInv, DestroyedOnce
        <4>1. CASE d # c /\ e # c
          <5>1. frames'[d] = frames[d] /\ frames'[e] = frames[e]
            BY <1>10, <4>1
          <5> QED BY <4>0, <5>1
        <4>2. CASE d = c /\ e # c
          <5>1. frames'[e] = frames[e] /\ frames'[c][i] = frames[e][j]
            BY <1>10, <4>2
          <5>2. j \in 1 .. Len(frames[e]) /\ frames[e][j] # o
            BY <3>1, <5>1
          <5>3. i \in 1 .. Len(frames[c]) /\ frames[c][i] = frames[e][j]
            BY <3>2, <3>3, <4>2, <5>1, <5>2
          <5> QED BY <4>0, <4>2, <5>2, <5>3
        <4>3. CASE d # c /\ e = c
          <5>1. frames'[d] = frames[d] /\ frames'[c][j] = frames[d][i]
            BY <1>10, <4>3
          <5>2. i \in 1 .. Len(frames[d]) /\ frames[d][i] # o
            BY <3>1, <5>1
          <5>3. j \in 1 .. Len(frames[c]) /\ frames[c][j] = frames[d][i]
            BY <3>2, <3>3, <4>3, <5>1, <5>2
          <5> QED BY <4>0, <4>3, <5>2, <5>3
        <4>4. CASE d = c /\ e = c
          <5>1. frames'[c][i] = frames'[c][j]
            BY <4>4
          <5>2. CASE i \in 1 .. Len(frames[c]) /\ j \in 1 .. Len(frames[c])
            BY <3>2, <4>0, <4>4, <5>1, <5>2
          <5>3. CASE i = Len(frames[c]) + 1 /\ j \in 1 .. Len(frames[c])
            BY <3>1, <3>2, <4>4, <5>1, <5>3
          <5>4. CASE i \in 1 .. Len(frames[c]) /\ j = Len(frames[c]) + 1
            BY <3>1, <3>2, <4>4, <5>1, <5>4
          <5>5. CASE i = Len(frames[c]) + 1 /\ j = Len(frames[c]) + 1
            BY <4>4, <5>5
          <5> QED BY <3>3, <4>4, <5>2, <5>3, <5>4, <5>5
        <4> QED BY <4>1, <4>2, <4>3, <4>4
      <3>5. \A d \in Contexts : \A i \in 1 .. Len(frames'[d]) :
              life'[frames'[d][i]] \in {"deinit", "fields"}
        <4> SUFFICES ASSUME NEW d \in Contexts, NEW i \in 1 .. Len(frames'[d])
                     PROVE  life'[frames'[d][i]] \in {"deinit", "fields"}
          OBVIOUS
        <4>1. CASE i \in 1 .. Len(frames[d])
          <5>1. frames'[d][i] = frames[d][i]
            BY <1>10, <3>2, <4>1
          <5>2. frames[d][i] \in Objects /\ life[frames[d][i]] \in {"deinit", "fields"}
            BY <1>1, <3>1, <4>1 DEF FrameInv
          <5> QED BY <1>10, <5>1, <5>2
        <4>2. CASE i \notin 1 .. Len(frames[d])
          <5>1. d = c /\ i = Len(frames[c]) + 1
            BY <1>10, <3>3, <4>2
          <5>2. frames'[d][i] = o
            BY <3>2, <5>1
          <5> QED BY <1>10, <2>2, <5>2
        <4> QED BY <4>1, <4>2
      <3> QED BY <3>4, <3>5 DEF FrameInv
    <2> QED BY <2>1, <2>2
  <1>14. ASSUME NEW d \in Contexts PROVE CallOK(d)' /\ CheckOK(d)'
    <2>1. CASE d = c
      BY <1>1, <1>4, <1>5, <2>1 DEF CallOK, CheckOK, TypeOK, NoCall
    <2>2. CASE d # c
      <3>1. S \cap Private(d) = {}
        BY <1>1, <1>5, <2>2, PrivateDisjoint
      <3>2. \A k \in Private(d) : slot'[k] = slot[k]
        BY <1>4, <3>1 DEF Private
      <3>3. \A r \in Locals(d) : Refs(o) # {r}
        BY <1>5, <1>6, <3>1 DEF Locals, Private
      <3>4. Destroying(d) => life'[Top(d)] = life[Top(d)]
        BY <1>1, <1>6, <1>10, TopOfStack
      <3>5. \A p \in Objects : Refs(p)' = Refs(p) \/ \A r \in Locals(d) : Refs(p) # {r}
        BY <1>9, <3>3
      <3> QED BY <1>1, <1>4, <1>10, <2>2, <3>2, <3>4, <3>5, OthersKeep DEF TypeOK
    <2> QED BY <2>1, <2>2
  <1>15. HeapIsConsistent'
    BY <1>1, <1>4, <1>6, <1>10 DEF HeapIsConsistent, Objects
  <1>16. PropertiesReleasedFirst'
    BY <1>1, <1>4, <1>10 DEF PropertiesReleasedFirst
  <1> QED BY <1>11, <1>12, <1>13, <1>14, <1>15, <1>16 DEF IInv

LEMMA MoveStep ==
  ASSUME Disciplined, IInv, NEW c \in Contexts, NEW r \in Slots, NEW q \in Slots,
         Move(c, r, q)
  PROVE  IInv'
  <1>1. TypeOK /\ CountInv /\ FrameInv /\ HeapIsConsistent /\ PropertiesReleasedFirst
    BY DEF IInv
  <1>2. /\ InProgram(c) /\ Accessible(c, r) /\ Accessible(c, q)
        /\ slot[r] # Nil /\ slot[q] = Nil
        /\ slot' = [slot EXCEPT ![r] = Nil, ![q] = slot[r]]
        /\ checked' = [checked EXCEPT ![c] = Nil]
        /\ UNCHANGED <<life, refcount, freeList, call, frames, halted>>
    BY DEF Move
  <1>3. PICK o \in Objects : o = slot[r]
    BY <1>1, <1>2 DEF TypeOK
  <1>4. /\ Refs(o)' = (Refs(o) \ {r}) \cup {q}
        /\ \A p \in Objects \ {o} : Refs(p)' = Refs(p)
        /\ Cardinality(Refs(o)') = Cardinality(Refs(o))
    BY <1>1, <1>2, <1>3, MoveSlot, ZenonT(60)
  <1>5. r \in Refs(o) /\ life[o] = "live"
    BY <1>1, <1>3 DEF CountInv, Refs
  (* What the code of c can reach is alive or is being destroyed by c. *)
  <1>6. ASSUME NEW p \in Objects, Reachable(c, p)
        PROVE  life[p] = "live" \/ (Destroying(c) /\ Top(c) = p /\ life[p] # "unused")
    BY <1>1, <1>6, TopOfStack DEF Reachable, CountInv, Refs, Locals
  <1>7. ASSUME NEW d \in Contexts, d # c, NEW s \in Slots, Accessible(c, s)
        PROVE  s \notin Private(d)
    <2>1. CASE Home[s] \in {c, Global}
      BY <1>1, <1>7, <2>1, SlotsAssumption, TopOfStack DEF Private
    <2>2. CASE Home[s] \in Objects /\ Reachable(c, Home[s])
      <3>1. Home[s] # d
        BY <2>2, SlotsAssumption
      <3>2. ASSUME Destroying(d), Home[s] = Top(d) PROVE FALSE
        <4>1. life[Home[s]] # "live"
          BY <1>1, <3>2, TopOfStack
        <4>2. Destroying(c) /\ Top(c) = Top(d)
          BY <1>6, <2>2, <3>2, <4>1
        <4> QED BY <1>1, <1>7, <3>2, <4>2, TopOfStack DEF FrameInv, DestroyedOnce, Top
      <3> QED BY <3>1, <3>2 DEF Private
    <2> QED BY <1>7, <2>1, <2>2 DEF Accessible
  <1>8. TypeOK'
    BY <1>1, <1>2, <1>3 DEF TypeOK
  <1>9. CountInv'
    <2>1. ASSUME NEW p \in Objects
          PROVE  /\ Refs(p)' # {} <=> Refs(p) # {}
                 /\ Cardinality(Refs(p)') = Cardinality(Refs(p))
      <3>1. CASE p = o
        BY <1>4, <1>5, <3>1
      <3>2. CASE p # o
        BY <1>4, <3>2
      <3> QED BY <3>1, <3>2
    <2> QED BY <1>1, <1>2, <2>1 DEF CountInv, Flag
  <1>10. FrameInv'
    BY <1>1, <1>2 DEF FrameInv, DestroyedOnce
  <1>11. ASSUME NEW d \in Contexts PROVE CallOK(d)' /\ CheckOK(d)'
    <2>1. CASE d = c
      BY <1>1, <1>2, <2>1 DEF CallOK, CheckOK, InProgram, Ready, TypeOK
    <2>2. CASE d # c
      <3>1. r \notin Private(d) /\ q \notin Private(d)
        BY <1>2, <1>7, <2>2
      <3>2. \A k \in Private(d) : slot'[k] = slot[k]
        BY <1>1, <1>2, <3>1 DEF TypeOK, Private
      <3>3. \A k \in Locals(d) : Refs(o) # {k}
        BY <1>5, <3>1 DEF Locals, Private
      <3>4. \A p \in Objects : Refs(p)' = Refs(p) \/ \A k \in Locals(d) : Refs(p) # {k}
        BY <1>4, <3>3
      <3> QED BY <1>1, <1>2, <2>2, <3>2, <3>4, OthersKeep DEF TypeOK
    <2> QED BY <2>1, <2>2
  <1>12. HeapIsConsistent'
    BY <1>1, <1>2 DEF HeapIsConsistent
  <1>13. PropertiesReleasedFirst'
    <2>1. Home[q] \in Objects => life[Home[q]] # "unused"
      BY <1>2, <1>6, SlotsAssumption DEF Accessible
    <2> QED BY <1>1, <1>2, <2>1 DEF PropertiesReleasedFirst, TypeOK
  <1> QED BY <1>8, <1>9, <1>10, <1>11, <1>12, <1>13 DEF IInv

(* A count word of 1 tells that the reference just read is the only one.   *)
LEMMA IsUniquelyReferencedStep ==
  ASSUME Disciplined, IInv, NEW c \in Contexts, NEW r \in Slots,
         IsUniquelyReferenced(c, r)
  PROVE  IInv'
  <1>1. TypeOK /\ CountInv /\ FrameInv /\ HeapIsConsistent /\ PropertiesReleasedFirst
    BY DEF IInv
  <1>2. /\ InProgram(c) /\ r \in Locals(c) /\ slot[r] # Nil
        /\ checked' = [checked EXCEPT ![c] = IF refcount[slot[r]] = 1 THEN r ELSE Nil]
        /\ UNCHANGED <<slot, life, refcount, freeList, call, frames, halted>>
    BY DEF IsUniquelyReferenced
  <1>3. PICK o \in Objects : o = slot[r]
    BY <1>1, <1>2 DEF TypeOK
  <1>4. r \in Refs(o) /\ life[o] = "live" /\ Refs(o) \in SUBSET Slots
    BY <1>1, <1>3 DEF CountInv, Refs
  <1>5. ASSUME refcount[o] = 1 PROVE Refs(o) = {r}
    <2>1. /\ IsFiniteSet(Refs(o)) /\ Cardinality(Refs(o)) \in Nat
          /\ Cardinality(Refs(o)) < Half - 1 /\ Cardinality(Refs(o)) # 0
      BY <1>4, FewSlots
    <2>2. o \notin StaticCells
      BY <1>1, <1>4, <1>5, <2>1, WordAssumption DEF CountInv, ImmortalRefCount
    <2>3. Cardinality(Refs(o)) = 1
      BY <1>1, <1>4, <1>5, <2>1, <2>2, WordAssumption DEF CountInv, Flag
    <2>4. \E x : Refs(o) = {x}
      BY <2>1, <2>3, FS_Singleton
    <2> QED BY <1>4, <2>4
  <1>6. TypeOK'
    BY <1>1, <1>2 DEF TypeOK
  <1>7. CountInv' /\ FrameInv' /\ HeapIsConsistent' /\ PropertiesReleasedFirst'
    <2>1. \A p \in Objects : Refs(p)' = Refs(p)
      BY <1>2 DEF Refs
    <2> QED BY <1>1, <1>2, <2>1 DEF CountInv, Flag, FrameInv, DestroyedOnce,
              HeapIsConsistent, PropertiesReleasedFirst
  <1>8. ASSUME NEW d \in Contexts PROVE CallOK(d)' /\ CheckOK(d)'
    <2>1. CASE d = c
      <3>1. CallOK(d)'
        BY <1>2, <2>1 DEF CallOK, InProgram, Ready
      <3>2. CheckOK(d)'
        BY <1>1, <1>2, <1>3, <1>5, <2>1, SlotsAssumption DEF CheckOK, TypeOK, Refs, Locals
      <3> QED BY <3>1, <3>2
    <2>2. CASE d # c
      BY <1>1, <1>2, <2>2, OthersKeep DEF TypeOK, Refs, Private
    <2> QED BY <2>1, <2>2
  <1> QED BY <1>6, <1>7, <1>8 DEF IInv

(* A context that starts or ends the destruction of its top object does    *)
(* not disturb the others: each has an object of its own on top.           *)
LEMMA OthersKeepTop ==
  ASSUME IInv, NEW c \in Contexts, Destroying(c), NEW d \in Contexts, d # c,
         NEW st, life' = [life EXCEPT ![Top(c)] = st],
         call' = call, slot' = slot, frames'[d] = frames[d],
         checked' = [checked EXCEPT ![c] = Nil]
  PROVE  CallOK(d)' /\ CheckOK(d)'
  <1>1. TypeOK /\ FrameInv
    BY DEF IInv
  <1>2. Destroying(d) => Top(d) \in Objects /\ Top(d) # Top(c)
    BY <1>1, TopOfStack DEF FrameInv, DestroyedOnce, Top
  <1>3. Destroying(d) => life'[Top(d)] = life[Top(d)]
    BY <1>1, <1>2 DEF TypeOK
  <1> QED BY <1>1, <1>3, OthersKeep DEF TypeOK, Refs, Private

LEMMA EndDeinitStep ==
  ASSUME Disciplined, IInv, NEW c \in Contexts, NEW o \in Objects, EndDeinit(c, o)
  PROVE  IInv'
  <1>1. TypeOK /\ CountInv /\ FrameInv /\ HeapIsConsistent /\ PropertiesReleasedFirst
    BY DEF IInv
  <1>2. /\ Ready(c) /\ Destroying(c) /\ Top(c) = o /\ life[o] = "deinit"
        /\ life' = [life EXCEPT ![o] = "fields"]
        /\ checked' = [checked EXCEPT ![c] = Nil]
        /\ UNCHANGED <<slot, refcount, freeList, call, frames, halted>>
    BY DEF EndDeinit
  <1>3. \A p \in Objects : life'[p] = IF p = o THEN "fields" ELSE life[p]
    BY <1>1, <1>2 DEF TypeOK
  <1>4. TypeOK'
    BY <1>1, <1>2 DEF TypeOK
  <1>5. CountInv'
    <2>1. \A p \in Objects : Refs(p)' = Refs(p)
      BY <1>2 DEF Refs
    <2> QED BY <1>1, <1>2, <1>3, <2>1 DEF CountInv, Flag, Objects
  <1>6. FrameInv'
    <2>1. \A d \in Contexts : \A i \in 1 .. Len(frames[d]) : frames[d][i] \in Objects
      BY <1>1, ElementOfSeq DEF TypeOK
    <2> QED BY <1>1, <1>2, <1>3, <2>1 DEF FrameInv, DestroyedOnce
  <1>7. ASSUME NEW d \in Contexts PROVE CallOK(d)' /\ CheckOK(d)'
    <2>1. CASE d = c
      BY <1>1, <1>2, <2>1 DEF CallOK, CheckOK, Ready, TypeOK
    <2>2. CASE d # c
      BY <1>2, <2>2, OthersKeepTop
    <2> QED BY <2>1, <2>2
  <1>8. HeapIsConsistent' /\ PropertiesReleasedFirst'
    BY <1>1, <1>2, <1>3 DEF HeapIsConsistent, PropertiesReleasedFirst, Objects
  <1> QED BY <1>4, <1>5, <1>6, <1>7, <1>8 DEF IInv

(* The word of an object whose destruction has begun carries no reference, *)
(* so doNotFreeBit alone tells a stack cell from a heap cell.              *)
LEMMA DestroyedWord ==
  ASSUME IInv, NEW o \in Objects, life[o] \in {"deinit", "fields"}
  PROVE  o \notin StaticCells /\ (DoNotFree(refcount[o]) <=> o \notin HeapCells)
  <1>1. CountInv
    BY DEF IInv
  <1>2. o \notin StaticCells /\ Refs(o) = {} /\ life[o] # "unused"
    BY <1>1 DEF CountInv
  <1>3. refcount[o] = Flag(o)
    BY <1>1, <1>2, FS_EmptySet, WordAssumption DEF CountInv, Flag
  <1> QED BY <1>2, <1>3, CellsAssumption, WordAssumption DEF DoNotFree, Flag, Objects

LEMMA ReturnStep ==
  ASSUME Disciplined, IInv, NEW c \in Contexts, NEW o \in Objects, Return(c, o),
         freeList' = IF o \in HeapCells THEN freeList \cup {o} ELSE freeList
  PROVE  IInv'
  <1>1. TypeOK /\ CountInv /\ FrameInv /\ HeapIsConsistent /\ PropertiesReleasedFirst
    BY DEF IInv
  <1>2. /\ Ready(c) /\ Destroying(c) /\ o = Top(c) /\ life[o] = "fields"
        /\ \A f \in Fields(o) : slot[f] = Nil
        /\ life' = [life EXCEPT ![o] = "unused"]
        /\ frames' = [frames EXCEPT ![c] = SubSeq(frames[c], 1, Len(frames[c]) - 1)]
        /\ checked' = [checked EXCEPT ![c] = Nil]
        /\ UNCHANGED <<slot, refcount, call, halted>>
    BY DEF Return
  <1>3. \A p \in Objects : life'[p] = IF p = o THEN "unused" ELSE life[p]
    BY <1>1, <1>2 DEF TypeOK
  <1>4. /\ frames[c] \in Seq(Objects) /\ Len(frames[c]) \in Nat \ {0}
        /\ frames[c][Len(frames[c])] = o
    BY <1>1, <1>2, TopOfStack, LenProperties DEF TypeOK, Top
  <1> DEFINE s == SubSeq(frames[c], 1, Len(frames[c]) - 1)
  <1>5. /\ s \in Seq(Objects) /\ Len(s) = Len(frames[c]) - 1
        /\ \A i \in 1 .. Len(s) : s[i] = frames[c][i]
    BY <1>4, SubSeqProperties
  <1>6. /\ frames'[c] = s
        /\ \A d \in Contexts \ {c} : frames'[d] = frames[d]
    BY <1>1, <1>2 DEF TypeOK
  <1> HIDE DEF s
  <1>7. TypeOK'
    <2>1. frames' \in [Contexts -> Seq(Objects)]
      BY <1>1, <1>2, <1>5 DEF TypeOK, s
    <2> QED BY <1>1, <1>2, <2>1 DEF TypeOK
  <1>8. CountInv'
    <2>1. \A p \in Objects : Refs(p)' = Refs(p)
      BY <1>2 DEF Refs
    <2> QED BY <1>1, <1>2, <1>3, <2>1 DEF CountInv, Flag, Objects
  (* Every frame left was a frame before, at the same place, and not o's.  *)
  <1>9. ASSUME NEW d \in Contexts, NEW i \in 1 .. Len(frames'[d])
        PROVE  /\ i \in 1 .. Len(frames[d]) /\ frames'[d][i] = frames[d][i]
               /\ frames[d][i] \in Objects \ {o}
    <2>1. i \in 1 .. Len(frames[d]) /\ frames'[d][i] = frames[d][i]
      BY <1>4, <1>5, <1>6
    <2>2. frames[d][i] \in Objects
      BY <1>1, <2>1, ElementOfSeq DEF TypeOK
    <2>3. d # c \/ i # Len(frames[c])
      BY <1>4, <1>5, <1>6
    <2>4. Len(frames[c]) \in 1 .. Len(frames[c])
      BY <1>4
    <2>5. frames[d][i] # o
      BY <1>1, <1>4, <2>1, <2>3, <2>4 DEF FrameInv, DestroyedOnce
    <2> QED BY <2>1, <2>2, <2>5
  <1>10. FrameInv'
    <2>1. DestroyedOnce'
      BY <1>1, <1>9 DEF FrameInv, DestroyedOnce
    <2>2. ASSUME NEW d \in Contexts, NEW i \in 1 .. Len(frames'[d])
          PROVE  life'[frames'[d][i]] \in {"deinit", "fields"}
      BY <1>1, <1>3, <1>9 DEF FrameInv
    <2> QED BY <2>1, <2>2 DEF FrameInv
  <1>11. ASSUME NEW d \in Contexts PROVE CallOK(d)' /\ CheckOK(d)'
    <2>1. CASE d = c
      BY <1>1, <1>2, <2>1 DEF CallOK, CheckOK, Ready, TypeOK
    <2>2. CASE d # c
      BY <1>2, <1>6, <2>2, OthersKeepTop
    <2> QED BY <2>1, <2>2
  <1>12. HeapIsConsistent'
    BY <1>1, <1>3, CellsAssumption DEF HeapIsConsistent, Objects
  <1>13. PropertiesReleasedFirst'
    BY <1>1, <1>2, <1>3 DEF PropertiesReleasedFirst, Fields
  <1> QED BY <1>7, <1>8, <1>10, <1>11, <1>12, <1>13 DEF IInv

-----------------------------------------------------------------------------
(* The inductive invariant and what follows from it. *)

LEMMA InitIInv ==
  ASSUME Disciplined, Init
  PROVE  IInv
  <1>1. Refs(Nil) = Slots /\ \A o \in Objects : Refs(o) = {}
    BY CellsAssumption DEF Init, Refs
  <1>2. TypeOK
    <2>1. refcount \in [Objects -> Words]
      BY WordAssumption DEF Init, Words, Disciplined
    <2>2. frames \in [Contexts -> Seq(Objects)]
      BY EmptySeq DEF Init
    <2>3. /\ slot \in [Slots -> Objects \cup {Nil}]
          /\ life \in [Objects -> {"unused", "live", "deinit", "fields"}]
          /\ freeList \subseteq HeapCells
          /\ checked \in [Contexts -> Slots \cup {Nil}]
          /\ halted \in BOOLEAN
      BY DEF Init
    <2>4. call \in [Contexts -> [fn : {"none", "retain", "release"},
                                 obj : Objects \cup {Nil}, slots : SUBSET Slots]]
      BY DEF Init, NoCall
    <2> QED BY <2>1, <2>2, <2>3, <2>4 DEF TypeOK
  <1>3. CountInv
    BY <1>1 DEF Init, CountInv, Disciplined, Objects
  <1>4. FrameInv
    BY DEF Init, FrameInv, DestroyedOnce
  <1>5. \A c \in Contexts : CallOK(c) /\ CheckOK(c)
    BY DEF Init, CallOK, CheckOK, NoCall
  <1>6. HeapIsConsistent /\ PropertiesReleasedFirst
    BY DEF Init, HeapIsConsistent, PropertiesReleasedFirst, Disciplined, Objects
  <1> QED BY <1>2, <1>3, <1>4, <1>5, <1>6 DEF IInv

LEMMA AllocateStep ==
  ASSUME Disciplined, IInv, NEW c \in Contexts, NEW r \in Slots, NEW o \in Objects,
         AllocObject(c, r, o) \/ InitStaticObject(c, r, o) \/ InitStackObject(c, r, o)
  PROVE  IInv'
  <1>1. TypeOK /\ HeapIsConsistent
    BY DEF IInv
  <1>2. CASE AllocObject(c, r, o)
    <2>1. /\ o \in HeapCells /\ life[o] = "unused"
          /\ Create(c, r, o, 1) /\ freeList' = freeList \ {o}
      BY <1>1, <1>2 DEF AllocObject, HeapIsConsistent
    <2>2. 1 \in Words /\ 1 = IF o \in StaticCells THEN ImmortalRefCount ELSE 1 + Flag(o)
      BY <2>1, CellsAssumption, WordAssumption DEF Words, Flag
    <2> QED BY <2>1, <2>2, CreateStep
  <1>3. CASE InitStaticObject(c, r, o)
    <2>1. /\ o \in StaticCells /\ life[o] = "unused"
          /\ Create(c, r, o, ImmortalRefCount) /\ freeList' = freeList \ {o}
      BY <1>1, <1>3, CellsAssumption DEF InitStaticObject, TypeOK
    <2>2. ImmortalRefCount \in Words
      BY WordAssumption DEF Words, ImmortalRefCount
    <2> QED BY <2>1, <2>2, CreateStep
  <1>4. CASE InitStackObject(c, r, o)
    <2>1. /\ o \in StackCells /\ life[o] = "unused"
          /\ Create(c, r, o, 1 + Half) /\ freeList' = freeList \ {o}
      BY <1>1, <1>4, CellsAssumption DEF InitStackObject, TypeOK
    <2>2. /\ 1 + Half \in Words
          /\ 1 + Half = IF o \in StaticCells THEN ImmortalRefCount ELSE 1 + Flag(o)
      BY <2>1, CellsAssumption, WordAssumption DEF Words, Flag
    <2> QED BY <2>1, <2>2, CreateStep
  <1> QED BY <1>2, <1>3, <1>4

LEMMA ReleaseFieldStep ==
  ASSUME Disciplined, IInv, NEW c \in Contexts, ReleaseField(c)
  PROVE  IInv'
  <1>1. PICK f \in Fields(Top(c)) : slot[f] # Nil /\ BeginRelease(c, {f})
    BY DEF ReleaseField
  <1>2. {f} \in SUBSET Slots /\ {f} \subseteq Private(c) /\ Ready(c)
    BY <1>1 DEF ReleaseField, Fields, Private
  <1> QED BY <1>1, <1>2, BeginReleaseStep

LEMMA ReleaseLoadStep ==
  ASSUME Disciplined, IInv, NEW c \in Contexts, NEW S \in SUBSET Slots, ReleaseLoad(c, S)
  PROVE  IInv'
  <1>1. /\ Ready(c) /\ S # {} /\ S \subseteq Private(c) /\ BeginRelease(c, S)
    BY DEF ReleaseLoad, InProgram, Locals, Private
  <1>2. \A r \in S : slot[r] # Nil
    BY <1>1, CellsAssumption DEF BeginRelease
  <1> QED BY <1>1, <1>2, BeginReleaseStep

LEMMA DeallocStep ==
  ASSUME Disciplined, IInv, NEW c \in Contexts, NEW o \in Objects,
         DeallocClassInstance(c, o) \/ DeallocObject(c, o)
  PROVE  IInv'
  <1>1. Return(c, o) /\ life[o] = "fields"
    BY DEF DeallocClassInstance, DeallocObject, Return
  <1>2. freeList' = IF o \in HeapCells THEN freeList \cup {o} ELSE freeList
    BY <1>1, DestroyedWord DEF DeallocClassInstance, DeallocObject
  <1> QED BY <1>1, <1>2, ReturnStep

(* A step that changes none of the runtime's data. *)
LEMMA IdleStep ==
  ASSUME IInv, UNCHANGED <<slot, life, refcount, freeList, call, frames, checked>>,
         halted' \in BOOLEAN
  PROVE  IInv'
  <1>1. TypeOK'
    BY DEF IInv, TypeOK
  <1>2. \A p \in Objects : Refs(p)' = Refs(p)
    BY DEF Refs
  <1>3. CountInv'
    BY <1>2 DEF IInv, CountInv, Flag
  <1>4. FrameInv'
    BY DEF IInv, FrameInv, DestroyedOnce
  <1>5. ASSUME NEW d \in Contexts PROVE CallOK(d)' /\ CheckOK(d)'
    BY <1>2, OthersKeep DEF Private
  <1>6. HeapIsConsistent' /\ PropertiesReleasedFirst'
    BY DEF IInv, HeapIsConsistent, PropertiesReleasedFirst
  <1> QED BY <1>1, <1>3, <1>4, <1>5, <1>6 DEF IInv

LEMMA NextIInv ==
  ASSUME Disciplined, IInv, [Next]_vars
  PROVE  IInv'
  <1>1. CASE UNCHANGED vars
    BY <1>1, IdleStep DEF vars, IInv, TypeOK
  <1>2. ASSUME NEW c \in Contexts, AllocObjectOOM(c) PROVE IInv'
    BY <1>2, IdleStep DEF AllocObjectOOM
  <1>3. ASSUME NEW c \in Contexts, NEW r \in Slots, NEW o \in Objects,
               \/ AllocObject(c, r, o)
               \/ InitStaticObject(c, r, o)
               \/ InitStackObject(c, r, o)
        PROVE  IInv'
    BY <1>3, AllocateStep
  <1>4. ASSUME NEW c \in Contexts, NEW r \in Slots, NEW q \in Slots, Move(c, r, q)
        PROVE  IInv'
    BY <1>4, MoveStep
  <1>5. ASSUME NEW c \in Contexts, NEW o \in Objects, NEW S \in SUBSET Slots,
               RetainLoad(c, o, S)
        PROVE  IInv'
    BY <1>5, RetainLoadStep
  <1>6. ASSUME NEW c \in Contexts, NEW S \in SUBSET Slots, ReleaseLoad(c, S) PROVE IInv'
    BY <1>6, ReleaseLoadStep
  <1>7. ASSUME NEW c \in Contexts, RetainAdd(c) \/ ReleaseSub(c) \/ ReleaseField(c)
        PROVE  IInv'
    BY <1>7, RetainAddStep, ReleaseSubStep, ReleaseFieldStep
  <1>8. ASSUME NEW c \in Contexts, NEW r \in Slots, IsUniquelyReferenced(c, r) PROVE IInv'
    BY <1>8, IsUniquelyReferencedStep
  <1>9. ASSUME NEW c \in Contexts, NEW o \in Objects,
               EndDeinit(c, o) \/ DeallocClassInstance(c, o) \/ DeallocObject(c, o)
        PROVE  IInv'
    BY <1>9, EndDeinitStep, DeallocStep
  <1> QED
    BY <1>1, <1>2, <1>3, <1>4, <1>5, <1>6, <1>7, <1>8, <1>9 DEF Next, Stopped

(* The inductive invariant holds in every reachable state of the runtime.  *)
THEOREM InductiveInvariant ==
  ASSUME Disciplined
  PROVE  Spec => []IInv
  <1>1. Init => IInv
    BY InitIInv
  <1>2. IInv /\ [Next]_vars => IInv'
    BY NextIInv
  <1> QED BY <1>1, <1>2, PTL DEF Spec

(* Every variable keeps its type; in particular the count word of          *)
(* EmbeddedRuntime.swift stays in its width.                               *)
THEOREM TypeCorrect ==
  ASSUME Disciplined
  PROVE  Spec => []TypeOK
  <1>1. IInv => TypeOK
    BY DEF IInv
  <1> QED BY <1>1, InductiveInvariant, PTL

(* No strong reference refers to an object whose destruction has begun, in *)
(* any interleaving of the loads and read-modify-writes of retain, release.*)
THEOREM MemorySafety ==
  ASSUME Disciplined
  PROVE  Spec => []NoDanglingReference
  <1>1. IInv => NoDanglingReference
    BY DEF IInv, TypeOK, CountInv, Refs, NoDanglingReference
  <1> QED BY <1>1, InductiveInvariant, PTL

(* The release that gives up the last reference starts the destruction.    *)
THEOREM NoLeak ==
  ASSUME Disciplined
  PROVE  Spec => []NoLeakedObject
  <1>1. IInv => NoLeakedObject
    BY DEF IInv, CountInv, NoLeakedObject
  <1> QED BY <1>1, InductiveInvariant, PTL

(* The count word of a live object is its number of references, plus       *)
(* doNotFreeBit on the stack.                                              *)
THEOREM ExactCount ==
  ASSUME Disciplined
  PROVE  Spec => []CountIsExact
  <1>1. IInv => CountIsExact
    BY DEF IInv, CountInv, Flag, CountIsExact
  <1> QED BY <1>1, InductiveInvariant, PTL

(* After a true isUniquelyReferenced its caller holds the only reference.  *)
THEOREM Uniqueness ==
  ASSUME Disciplined
  PROVE  Spec => []UniqueMeansSole
  <1>1. IInv => UniqueMeansSole
    BY DEF IInv, CheckOK, UniqueMeansSole
  <1> QED BY <1>1, InductiveInvariant, PTL

(* No destroyer runs twice for one object: swift_release's test for zero   *)
(* succeeds once per life.                                                 *)
THEOREM SingleDestruction ==
  ASSUME Disciplined
  PROVE  Spec => []DestroyedOnce
  <1>1. IInv => DestroyedOnce
    BY DEF IInv, FrameInv
  <1> QED BY <1>1, InductiveInvariant, PTL

(* No release destroys a static object: its count is immortalRefCount, so  *)
(* swift_release returns before it subtracts.                              *)
THEOREM StaticSafety ==
  ASSUME Disciplined
  PROVE  Spec => []StaticNeverDestroyed
  <1>1. IInv => StaticNeverDestroyed
    BY DEF IInv, CountInv, StaticNeverDestroyed
  <1> QED BY <1>1, InductiveInvariant, PTL

(* free() gets each heap cell once per life, and never a stack or static   *)
(* cell.                                                                   *)
THEOREM HeapSafety ==
  ASSUME Disciplined
  PROVE  Spec => []HeapIsConsistent
  <1>1. IInv => HeapIsConsistent
    BY DEF IInv
  <1> QED BY <1>1, InductiveInvariant, PTL

(* A cell goes back to the allocator only after the destroyer released the *)
(* stored properties in it.                                                *)
THEOREM PropertiesFirst ==
  ASSUME Disciplined
  PROVE  Spec => []PropertiesReleasedFirst
  <1>1. IInv => PropertiesReleasedFirst
    BY DEF IInv
  <1> QED BY <1>1, InductiveInvariant, PTL

-----------------------------------------------------------------------------
(***************************************************************************)
(* The counting runtime implements automatic reference counting: the       *)
(* initial states and every step of EmbeddedRuntime map to initial states  *)
(* and to steps or stutters of StrongReferences.                           *)
(***************************************************************************)
(* The state of the abstract specification, as EmbeddedRuntime!ARC maps it.*)
Stage == [o \in Objects |->
            IF life[o] \in {"deinit", "fields"} THEN "dying" ELSE life[o]]

-----------------------------------------------------------------------------
(* Filling and clearing slots is what the abstract actions do. *)

LEMMA CreateIsNew ==
  ASSUME IInv, NEW c \in Contexts, NEW r \in Slots, NEW o \in Objects, NEW w,
         life[o] = "unused", Create(c, r, o, w)
  PROVE  ARC!Next
  <1>1. slot[r] = Nil /\ Stage[o] = "unused"
    BY DEF Create, Stage
  <1>2. slot' = [s \in Slots |-> IF s \in {r} THEN o ELSE slot[s]]
    BY DEF Create, IInv, TypeOK
  <1>3. Stage' = [Stage EXCEPT ![o] = "live"]
    BY DEF Create, IInv, TypeOK, Stage
  <1>4. ARC!New(o, r)
    BY <1>1, <1>2, <1>3 DEF ARC!New, ARC!Put, Stage
  <1> QED BY <1>4 DEF ARC!Next

LEMMA FillIsCopy ==
  ASSUME NEW o \in Objects, NEW S \in SUBSET Slots,
         life[o] = "live", Refs(o) # {}, \A r \in S : slot[r] = Nil,
         slot' = [r \in Slots |-> IF r \in S THEN o ELSE slot[r]], life' = life
  PROVE  ARC!Next
  <1>1. Stage' = Stage /\ Stage[o] = "live"
    BY DEF Stage
  <1>2. ARC!Copy(o, S)
    BY <1>1 DEF ARC!Copy, ARC!Refs, ARC!Put, Refs, Stage
  <1> QED BY <1>2 DEF ARC!Next

LEMMA RetainLoadRefines ==
  ASSUME Disciplined, IInv, NEW c \in Contexts, NEW o \in Objects, NEW S \in SUBSET Slots,
         RetainLoad(c, o, S)
  PROVE  ARC!Next \/ UNCHANGED ARC!vars
  <1>1. life' = life /\ \A r \in S : slot[r] = Nil
    BY DEF RetainLoad
  <1>2. \E r \in Locals(c) : slot[r] = o
    BY DEF RetainLoad, Borrowed, Disciplined
  <1>3. Refs(o) # {} /\ life[o] = "live"
    BY <1>2 DEF IInv, CountInv, Refs, Locals
  <1>4. CASE refcount[o] = ImmortalRefCount
    <2>1. slot' = [r \in Slots |-> IF r \in S THEN o ELSE slot[r]]
      BY <1>4 DEF RetainLoad
    <2> QED BY <1>1, <1>3, <2>1, FillIsCopy
  <1>5. CASE refcount[o] # ImmortalRefCount
    BY <1>1, <1>5 DEF RetainLoad, ARC!vars
  <1> QED BY <1>4, <1>5

LEMMA RetainAddRefines ==
  ASSUME IInv, NEW c \in Contexts, RetainAdd(c)
  PROVE  ARC!Next
  <1>1. CallOK(c) /\ TypeOK /\ CountInv /\ call[c].fn = "retain"
    BY DEF IInv, RetainAdd
  <1>2. PICK o \in Objects : o = call[c].obj
    BY <1>1 DEF CallOK
  <1>3. PICK S \in SUBSET Slots : S = call[c].slots
    BY <1>1 DEF TypeOK
  <1>4. /\ slot' = [r \in Slots |-> IF r \in S THEN o ELSE slot[r]] /\ life' = life
    BY <1>2, <1>3 DEF RetainAdd
  <1>5. /\ \A r \in S : slot[r] = Nil
        /\ Refs(o) # {} /\ life[o] = "live"
    BY <1>1, <1>2, <1>3 DEF CallOK, CountInv, Refs, Locals
  <1> QED BY <1>4, <1>5, FillIsCopy

(* An immortal object is released without a count, hence never dies. *)
LEMMA BeginReleaseRefines ==
  ASSUME Disciplined, IInv, NEW c \in Contexts, NEW S \in SUBSET Slots, S # {},
         BeginRelease(c, S)
  PROVE  ARC!Next \/ UNCHANGED ARC!vars
  <1>1. life' = life
    BY DEF BeginRelease
  <1>2. PICK o \in Objects :
          /\ \A r \in S : slot[r] = o
          /\ IF refcount[o] = ImmortalRefCount
               THEN /\ slot' = [r \in Slots |-> IF r \in S THEN Nil ELSE slot[r]]
                    /\ UNCHANGED call
               ELSE /\ call' = [call EXCEPT ![c] = Call("release", o, S)]
                    /\ UNCHANGED slot
    BY DEF BeginRelease
  <1>3. S \subseteq Refs(o) /\ Refs(o) # {} /\ life[o] = "live"
    BY <1>2 DEF IInv, CountInv, Refs
  <1>4. CASE refcount[o] = ImmortalRefCount
    <2>1. o \in StaticCells
      <3> SUFFICES ASSUME o \notin StaticCells PROVE FALSE
        OBVIOUS
      <3>1. refcount[o] = Cardinality(Refs(o)) + Flag(o)
        BY <1>3 DEF IInv, CountInv
      <3>2. /\ Cardinality(Refs(o)) \in Nat /\ Cardinality(Refs(o)) < Half - 1
        BY FewSlots DEF Refs
      <3> QED BY <1>4, <3>1, <3>2, WordAssumption DEF Flag, ImmortalRefCount
    <2>2. slot' = [r \in Slots |-> IF r \in S THEN Nil ELSE slot[r]]
      BY <1>2, <1>4
    <2>3. Stage' = Stage /\ Stage = [Stage EXCEPT ![o] = Stage[o]]
      BY <1>1 DEF Stage
    <2>4. ARC!Drop(o, S)
      BY <1>3, <2>1, <2>2, <2>3 DEF ARC!Drop, ARC!Refs, ARC!Put, Refs, Stage
    <2> QED BY <2>4 DEF ARC!Next
  <1>5. CASE refcount[o] # ImmortalRefCount
    BY <1>1, <1>2, <1>5 DEF ARC!vars
  <1> QED BY <1>4, <1>5

(* The masked word is zero exactly when the references given up were the   *)
(* last: the counted object dies when the abstract one does.               *)
LEMMA ReleaseSubRefines ==
  ASSUME Disciplined, IInv, NEW c \in Contexts, ReleaseSub(c)
  PROVE  ARC!Next
  <1>1. CallOK(c) /\ TypeOK /\ CountInv /\ call[c].fn = "release"
    BY DEF IInv, ReleaseSub
  <1>2. PICK o \in Objects : o = call[c].obj
    BY <1>1 DEF CallOK
  <1>3. PICK S \in SUBSET Slots : S = call[c].slots
    BY <1>1 DEF TypeOK
  <1> DEFINE w == SubWord(refcount[o], Cardinality(S))
  <1>4. /\ slot' = [r \in Slots |-> IF r \in S THEN Nil ELSE slot[r]]
        /\ life' = IF Masked(w) = 0 THEN [life EXCEPT ![o] = "deinit"] ELSE life
    BY <1>2, <1>3 DEF ReleaseSub
  <1>5. /\ o \notin StaticCells /\ S # {} /\ S \subseteq Refs(o) /\ Refs(o) # {}
    BY <1>1, <1>2, <1>3 DEF CallOK, Refs
  <1>6. life[o] = "live" /\ refcount[o] = Cardinality(Refs(o)) + Flag(o)
    BY <1>1, <1>5 DEF CountInv
  <1>7. Masked(w) = 0 <=> S = Refs(o)
    BY <1>5, <1>6, SubtractReferences
  <1> HIDE DEF w
  <1>8. Stage' = [Stage EXCEPT ![o] = IF S = Refs(o) THEN "dying" ELSE Stage[o]]
    BY <1>1, <1>4, <1>6, <1>7 DEF TypeOK, Stage
  <1>9. ARC!Drop(o, S)
    BY <1>4, <1>5, <1>8 DEF ARC!Drop, ARC!Refs, ARC!Put, Refs, Stage
  <1> QED BY <1>9 DEF ARC!Next

LEMMA MoveRefines ==
  ASSUME IInv, NEW c \in Contexts, NEW r \in Slots, NEW q \in Slots, Move(c, r, q)
  PROVE  ARC!Next
  <1>1. ARC!Transfer(r, q)
    BY DEF Move, ARC!Transfer
  <1> QED BY <1>1 DEF ARC!Next

LEMMA ReturnRefines ==
  ASSUME IInv, NEW c \in Contexts, NEW o \in Objects, Return(c, o)
  PROVE  ARC!Next
  <1>1. Stage[o] = "dying" /\ \A r \in Slots : Home[r] = o => slot[r] = Nil
    BY DEF Return, Stage, Fields
  <1>2. Stage' = [Stage EXCEPT ![o] = "unused"] /\ slot' = slot
    BY DEF Return, IInv, TypeOK, Stage
  <1>3. ARC!Reclaim(o)
    BY <1>1, <1>2 DEF ARC!Reclaim, Stage
  <1> QED BY <1>3 DEF ARC!Next

LEMMA EndDeinitRefines ==
  ASSUME IInv, NEW c \in Contexts, NEW o \in Objects, EndDeinit(c, o)
  PROVE  UNCHANGED ARC!vars
  <1>1. Stage' = Stage /\ slot' = slot
    BY DEF EndDeinit, IInv, TypeOK, Stage
  <1> QED BY <1>1 DEF ARC!vars, Stage

LEMMA NextRefines ==
  ASSUME Disciplined, IInv, [Next]_vars
  PROVE  [ARC!Next]_(ARC!vars)
  <1>1. CASE UNCHANGED vars
    BY <1>1 DEF vars, ARC!vars
  <1>2. ASSUME NEW c \in Contexts, AllocObjectOOM(c) PROVE UNCHANGED ARC!vars
    BY <1>2 DEF AllocObjectOOM, ARC!vars
  <1>3. ASSUME NEW c \in Contexts, NEW r \in Slots, NEW o \in Objects,
               \/ AllocObject(c, r, o)
               \/ InitStaticObject(c, r, o)
               \/ InitStackObject(c, r, o)
        PROVE  ARC!Next
    <2>1. life[o] = "unused"
      BY <1>3 DEF AllocObject, InitStaticObject, InitStackObject, IInv, HeapIsConsistent
    <2> QED
      BY <1>3, <2>1, CreateIsNew DEF AllocObject, InitStaticObject, InitStackObject
  <1>4. ASSUME NEW c \in Contexts, NEW r \in Slots, NEW q \in Slots, Move(c, r, q)
        PROVE  ARC!Next
    BY <1>4, MoveRefines
  <1>5. ASSUME NEW c \in Contexts, NEW o \in Objects, NEW S \in SUBSET Slots,
               RetainLoad(c, o, S)
        PROVE  ARC!Next \/ UNCHANGED ARC!vars
    BY <1>5, RetainLoadRefines
  <1>6. ASSUME NEW c \in Contexts, NEW S \in SUBSET Slots, ReleaseLoad(c, S)
        PROVE  ARC!Next \/ UNCHANGED ARC!vars
    BY <1>6, BeginReleaseRefines DEF ReleaseLoad
  <1>7. ASSUME NEW c \in Contexts, RetainAdd(c) \/ ReleaseSub(c) PROVE ARC!Next
    BY <1>7, RetainAddRefines, ReleaseSubRefines
  <1>8. ASSUME NEW c \in Contexts, ReleaseField(c)
        PROVE  ARC!Next \/ UNCHANGED ARC!vars
    <2>1. PICK f \in Slots : BeginRelease(c, {f})
      BY <1>8 DEF ReleaseField, Fields
    <2>2. {f} \in SUBSET Slots /\ {f} # {}
      OBVIOUS
    <2> QED BY <2>1, <2>2, BeginReleaseRefines
  <1>9. ASSUME NEW c \in Contexts, NEW r \in Slots, IsUniquelyReferenced(c, r)
        PROVE  UNCHANGED ARC!vars
    BY <1>9 DEF IsUniquelyReferenced, ARC!vars
  <1>10. ASSUME NEW c \in Contexts, NEW o \in Objects, EndDeinit(c, o)
         PROVE  UNCHANGED ARC!vars
    BY <1>10, EndDeinitRefines
  <1>11. ASSUME NEW c \in Contexts, NEW o \in Objects,
                DeallocClassInstance(c, o) \/ DeallocObject(c, o)
         PROVE  ARC!Next
    BY <1>11, ReturnRefines DEF DeallocClassInstance, DeallocObject
  <1>12. ASSUME Stopped PROVE UNCHANGED ARC!vars
    BY <1>12 DEF Stopped, vars, ARC!vars
  <1> QED
    BY <1>1, <1>2, <1>3, <1>4, <1>5, <1>6, <1>7, <1>8, <1>9, <1>10, <1>11, <1>12 DEF Next

(* Every behaviour of the counting runtime, its interleaved loads and      *)
(* updates included, is a behaviour of automatic reference counting: an    *)
(* object dies exactly with its last reference and its memory is reused    *)
(* only after its stored properties were released.                         *)
THEOREM Refinement ==
  ASSUME Disciplined
  PROVE  Spec => ImplementsARC
  <1>1. Init => ARC!Init
    BY DEF Init, ARC!Init, Disciplined
  <1>2. IInv /\ [Next]_vars => [ARC!Next]_(ARC!vars)
    BY NextRefines
  <1> QED BY <1>1, <1>2, InductiveInvariant, PTL DEF Spec, ImplementsARC, ARC!Spec

-----------------------------------------------------------------------------
(***************************************************************************)
(* Saturation: a call that another context has under way on an object was  *)
(* let through by its load, and may move a count that has become immortal  *)
(* since; without such a call the object is Settled, and stays so.         *)
(* Nothing is said of the discipline of use here: a count may jump over    *)
(* immortalRefCount, wrap around and leave references to memory that was   *)
(* freed.  What must not get into the free list is an object that is not   *)
(* from the heap (StaticInv).                                              *)
(***************************************************************************)
CallsOK ==
  /\ call \in [Contexts -> [fn : {"none", "retain", "release"},
                            obj : Objects \cup {Nil}, slots : SUBSET Slots]]
  /\ \A c \in Contexts : call[c].fn # "none" => call[c].obj \in HeapCells

(* Static objects stay at the immortal count; what refers to one finds it. *)
StaticInv ==
  /\ \A o \in StaticCells :
       life[o] = "unused" \/ (life[o] = "live" /\ refcount[o] = ImmortalRefCount)
  /\ \A r \in Slots : slot[r] \in StaticCells => life[slot[r]] = "live"

OnlyHeapAndStatic == StackCells = {} /\ Preinitialised = {}

SaturationInv ==
  /\ slot \in [Slots -> Objects \cup {Nil}]
  /\ life \in [Objects -> {"unused", "live", "deinit", "fields"}]
  /\ refcount \in [Objects -> Int]
  /\ StaticInv
  /\ freeList \subseteq HeapCells /\ \A o \in freeList : life[o] # "live"
  /\ CallsOK

(* What a step does to a saturated object. *)
StaysSaturated == \A o \in Objects : Settled(o) => Settled(o)'

LEMMA SaturationInitially ==
  ASSUME OnlyHeapAndStatic
  PROVE  Init => SaturationInv
  <1> SUFFICES ASSUME Init PROVE SaturationInv
    OBVIOUS
  <1>1. /\ life \in [Objects -> {"unused", "live", "deinit", "fields"}]
        /\ \A o \in HeapCells : life[o] = "unused"
    BY CellsAssumption DEF Init, Objects
  <1>2. refcount \in [Objects -> Int]
    BY WordAssumption DEF Init, StaticImageWord
  <1>3. call \in [Contexts -> {NoCall}]
    BY DEF Init
  <1>4. CallsOK /\ \A c \in Contexts : call[c].fn = "none"
    BY <1>3 DEF CallsOK, NoCall
  <1>5. slot \in [Slots -> Objects \cup {Nil}] /\ \A r \in Slots : slot[r] \notin StaticCells
    BY CellsAssumption DEF Init, Objects
  <1>6. StaticInv
    BY <1>5 DEF StaticInv, Init, Objects, OnlyHeapAndStatic
  <1> QED BY <1>1, <1>2, <1>4, <1>5, <1>6 DEF SaturationInv, Init

LEMMA CreateSaturates ==
  ASSUME SaturationInv,
         NEW c \in Contexts, NEW r \in Slots, NEW o \in Objects, NEW w \in Int,
         life[o] # "live", Create(c, r, o, w), freeList' \subseteq freeList \ {o},
         o \in HeapCells \/ w = ImmortalRefCount
  PROVE  SaturationInv' /\ StaysSaturated
  <1>1. /\ life' = [life EXCEPT ![o] = "live"] /\ refcount' = [refcount EXCEPT ![o] = w]
        /\ slot' = [slot EXCEPT ![r] = o]
        /\ call' = call
    BY DEF Create
  <1>2. /\ life' \in [Objects -> {"unused", "live", "deinit", "fields"}]
        /\ refcount' \in [Objects -> Int] /\ CallsOK'
    BY <1>1 DEF SaturationInv, CallsOK
  <1>0. \A p \in Objects : /\ life'[p] = IF p = o THEN "live" ELSE life[p]
                          /\ refcount'[p] = IF p = o THEN w ELSE refcount[p]
    BY <1>1 DEF SaturationInv
  <1>3. freeList' \subseteq HeapCells /\ \A p \in freeList' : life'[p] # "live"
    <2>1. \A p \in freeList' : p \in Objects /\ p # o /\ p \in freeList
      BY DEF SaturationInv, Objects
    <2> QED BY <1>0, <2>1 DEF SaturationInv
  <1>4. StaysSaturated
    BY <1>0, <1>1 DEF StaysSaturated, Settled
  <1>5. slot' \in [Slots -> Objects \cup {Nil}] /\ StaticInv'
    <2>1. slot' \in [Slots -> Objects \cup {Nil}]
      BY <1>1 DEF SaturationInv
    <2>2. \A p \in StaticCells : p \in Objects /\ p \notin HeapCells
      BY CellsAssumption DEF Objects
    <2>4. \A q \in Slots : slot'[q] = IF q = r THEN o ELSE slot[q]
      BY <1>1 DEF SaturationInv
    <2> QED BY <1>0, <2>1, <2>2, <2>4 DEF SaturationInv, StaticInv
  <1> QED BY <1>2, <1>3, <1>4, <1>5 DEF SaturationInv

(* A step that leaves counts and lives alone may begin a call. *)
LEMMA LoadSaturates ==
  ASSUME SaturationInv, UNCHANGED <<life, refcount, freeList>>, NEW c \in Contexts,
         slot' \in [Slots -> Objects \cup {Nil}],
         \A r \in Slots : slot'[r] \in {slot[q] : q \in Slots} \cup HeapCells \cup {Nil},
         \/ call' = call
         \/ \E o \in HeapCells, S \in SUBSET Slots, fn \in {"retain", "release"} :
              /\ refcount[o] # ImmortalRefCount
              /\ call' = [call EXCEPT ![c] = Call(fn, o, S)]
  PROVE  SaturationInv' /\ StaysSaturated
  <1>0. StaticInv'
    <2>1. Nil \notin StaticCells /\ HeapCells \cap StaticCells = {}
      BY CellsAssumption DEF Objects
    <2> QED BY <2>1 DEF SaturationInv, StaticInv
  <1>1. CASE call' = call
    BY <1>0, <1>1 DEF SaturationInv, StaysSaturated, Settled, CallsOK
  <1>2. CASE call' # call
    <2>1. PICK o \in HeapCells, S \in SUBSET Slots, fn \in {"retain", "release"} :
              /\ refcount[o] # ImmortalRefCount
              /\ call' = [call EXCEPT ![c] = Call(fn, o, S)]
      BY <1>2
    <2>2. PICK k : k = Call(fn, o, S)
      OBVIOUS
    <2>3. /\ k \in [fn : {"none", "retain", "release"}, obj : Objects \cup {Nil}, slots : SUBSET Slots]
          /\ k.obj = o
      BY <2>2 DEF Call, Objects
    <2>4. CallsOK' /\ \A d \in Contexts : call'[d] = IF d = c THEN k ELSE call[d]
      BY <2>1, <2>2, <2>3 DEF SaturationInv, CallsOK
    <2> QED BY <1>0, <2>1, <2>3, <2>4 DEF SaturationInv, StaysSaturated, Settled
  <1> QED BY <1>1, <1>2

LEMMA UpdateSaturates ==
  ASSUME SaturationInv,
         NEW c \in Contexts, call[c].fn # "none", NEW w \in Int,
         refcount' = [refcount EXCEPT ![call[c].obj] = w],
         life' = life \/ life' = [life EXCEPT ![call[c].obj] = "deinit"],
         call' = [call EXCEPT ![c] = NoCall], freeList' = freeList,
         slot' \in [Slots -> Objects \cup {Nil}],
         \A r \in Slots : slot'[r] \in {slot[r], Nil, call[c].obj}
  PROVE  SaturationInv' /\ StaysSaturated
  <1>1. PICK o \in HeapCells : o = call[c].obj
    BY DEF SaturationInv, CallsOK
  <1>a. /\ o \in Objects /\ o \notin StaticCells /\ Nil \notin StaticCells
        /\ StaticCells \subseteq Objects
    BY CellsAssumption DEF Objects
  <1>2. /\ life' \in [Objects -> {"unused", "live", "deinit", "fields"}]
        /\ \A p \in Objects : life'[p] = life[p] \/ (p = o /\ life'[p] = "deinit")
    BY <1>1, <1>a DEF SaturationInv
  <1>3. refcount' \in [Objects -> Int] /\ \A p \in Objects : p # o => refcount'[p] = refcount[p]
    BY <1>1, <1>a DEF SaturationInv
  <1>4. /\ CallsOK'
        /\ \A d \in Contexts : call'[d] = IF d = c THEN NoCall ELSE call[d]
    BY DEF SaturationInv, CallsOK, NoCall
  <1>5. freeList' \subseteq HeapCells /\ \A p \in freeList' : p \in Objects /\ life'[p] # "live"
    BY <1>2 DEF SaturationInv, Objects
  <1>6. StaysSaturated
    <2>1. \A p \in Objects : p # NoCall.obj
      BY CellsAssumption DEF NoCall
    <2> QED BY <1>1, <1>2, <1>3, <1>4, <2>1 DEF StaysSaturated, Settled
  <1>7. StaticInv'
    BY <1>1, <1>a, <1>2, <1>3 DEF SaturationInv, StaticInv
  <1> QED BY <1>2, <1>3, <1>4, <1>5, <1>6, <1>7 DEF SaturationInv

(* The destroyer. *)
LEMMA EndSaturates ==
  ASSUME SaturationInv, NEW o \in HeapCells, life[o] # "live",
         NEW stage \in {"fields", "unused"},
         life' = [life EXCEPT ![o] = stage],
         freeList' = freeList \/ (stage = "unused" /\ freeList' = freeList \cup {o}),
         UNCHANGED <<slot, refcount, call>>
  PROVE  SaturationInv' /\ StaysSaturated
  <1>1. /\ life' \in [Objects -> {"unused", "live", "deinit", "fields"}]
        /\ \A p \in Objects : life'[p] = IF p = o THEN stage ELSE life[p]
    BY DEF SaturationInv, Objects
  <1>2. freeList' \subseteq HeapCells /\ \A p \in freeList' : p \in Objects /\ life'[p] # "live"
    BY <1>1 DEF SaturationInv, Objects
  <1>3. StaticInv'
    <2>1. StaticCells \subseteq Objects /\ o \notin StaticCells
      BY CellsAssumption DEF Objects
    <2> QED BY <1>1, <2>1 DEF SaturationInv, StaticInv
  <1> QED BY <1>1, <1>2, <1>3 DEF SaturationInv, StaysSaturated, Settled, CallsOK

LEMMA CountsAreInt ==
  ASSUME NEW S \in SUBSET Slots, NEW w \in Int
  PROVE  AddWord(w, Cardinality(S)) \in Int /\ SubWord(w, Cardinality(S)) \in Int
  <1>1. PICK n \in Nat : n = Cardinality(S)
    BY SlotsAssumption, FS_Subset, FS_CardinalityType
  <1> QED BY <1>1, WordAssumption DEF AddWord, SubWord

(* An object at hand whose count can move is from the heap.                *)
LEMMA CountedIsHeap ==
  ASSUME SaturationInv, OnlyHeapAndStatic,
         NEW o \in Objects, o \in StaticCells => life[o] = "live",
         refcount[o] # ImmortalRefCount
  PROVE  o \in HeapCells
  BY DEF SaturationInv, StaticInv, Objects, OnlyHeapAndStatic

LEMMA BeginReleaseSaturates ==
  ASSUME SaturationInv, OnlyHeapAndStatic, NEW c \in Contexts,
         NEW S \in SUBSET Slots, S # {}, BeginRelease(c, S)
  PROVE  SaturationInv' /\ StaysSaturated
  <1>1. PICK o \in Objects :
       /\ \A r \in S : slot[r] = o
       /\ IF refcount[o] = ImmortalRefCount
            THEN /\ slot' = [r \in Slots |-> IF r \in S THEN Nil ELSE slot[r]]
                 /\ UNCHANGED call
            ELSE /\ call' = [call EXCEPT ![c] = Call("release", o, S)]
                 /\ UNCHANGED slot
    BY DEF BeginRelease
  <1>2. UNCHANGED <<life, refcount, freeList>>
    BY DEF BeginRelease
  <1>3. slot \in [Slots -> Objects \cup {Nil}]
    BY DEF SaturationInv
  <1>4. CASE refcount[o] = ImmortalRefCount
    BY <1>1, <1>2, <1>3, <1>4, LoadSaturates
  <1>5. CASE refcount[o] # ImmortalRefCount
    <2>1. PICK r \in S : slot[r] = o
      BY <1>1
    <2>2. o \in StaticCells => life[o] = "live"
      BY <2>1 DEF SaturationInv, StaticInv
    <2>3. o \in HeapCells
      BY <1>5, <2>2, CountedIsHeap
    <2> QED BY <1>1, <1>2, <1>3, <1>5, <2>3, LoadSaturates
  <1> QED BY <1>4, <1>5

LEMMA RetainLoadSaturates ==
  ASSUME SaturationInv, OnlyHeapAndStatic, NEW c \in Contexts,
         NEW o \in Objects, NEW S \in SUBSET Slots, RetainLoad(c, o, S)
  PROVE  SaturationInv' /\ StaysSaturated
  <1>1. /\ IF refcount[o] = ImmortalRefCount
             THEN /\ slot' = [r \in Slots |-> IF r \in S THEN o ELSE slot[r]]
                  /\ UNCHANGED call
             ELSE /\ call' = [call EXCEPT ![c] = Call("retain", o, S)]
                  /\ UNCHANGED slot
        /\ UNCHANGED <<life, refcount, freeList>>
    BY DEF RetainLoad
  <1>2. slot \in [Slots -> Objects \cup {Nil}]
    BY DEF SaturationInv
  <1>3. (\E r \in Slots : slot[r] = o) \/ life[o] = "deinit"
    BY DEF RetainLoad, Borrowed, Locals, InProgram, OnlyHeapAndStatic
  <1>4. o \in StaticCells => \E r \in Slots : slot[r] = o /\ life[o] = "live"
    BY <1>3 DEF SaturationInv, StaticInv
  <1>5. CASE refcount[o] = ImmortalRefCount
    <2>1. \A r \in Slots : slot'[r] \in {slot[r], o}
      BY <1>1, <1>5
    <2>2. o \in HeapCells \cup {slot[q] : q \in Slots}
      BY <1>4 DEF Objects, OnlyHeapAndStatic
    <2>3. \A r \in Slots : slot'[r] \in {slot[q] : q \in Slots} \cup HeapCells \cup {Nil}
      BY <2>1, <2>2
    <2>4. slot' \in [Slots -> Objects \cup {Nil}]
      BY <1>1, <1>2, <1>5
    <2> QED BY <1>1, <1>5, <2>3, <2>4, LoadSaturates
  <1>6. CASE refcount[o] # ImmortalRefCount
    <2>1. o \in HeapCells
      BY <1>4, <1>6, CountedIsHeap
    <2> QED BY <1>1, <1>2, <1>6, <2>1, LoadSaturates
  <1> QED BY <1>5, <1>6

LEMMA SaturationStep ==
  ASSUME OnlyHeapAndStatic, SaturationInv, [Next]_vars
  PROVE  SaturationInv' /\ StaysSaturated
  <1>a. /\ slot \in [Slots -> Objects \cup {Nil}]
        /\ freeList \subseteq HeapCells /\ \A o \in freeList : life[o] # "live"
        /\ StaticInv /\ CallsOK /\ refcount \in [Objects -> Int]
    BY DEF SaturationInv
  <1>b. HeapCells \subseteq Objects
    BY DEF Objects
  <1>1. ASSUME NEW c \in Contexts, NEW r \in Slots, NEW o \in Objects, AllocObject(c, r, o)
        PROVE  SaturationInv' /\ StaysSaturated
    BY <1>1, <1>a, CreateSaturates DEF AllocObject
  <1>2. ASSUME NEW c \in Contexts, NEW r \in Slots, NEW o \in Objects,
               InitStaticObject(c, r, o) \/ InitStackObject(c, r, o)
        PROVE  SaturationInv' /\ StaysSaturated
    <2>1. ImmortalRefCount \in Int /\ Create(c, r, o, ImmortalRefCount) /\ life[o] # "live"
      BY <1>2, WordAssumption
         DEF InitStaticObject, InitStackObject, ImmortalRefCount, OnlyHeapAndStatic
    <2>2. o \notin HeapCells /\ freeList' = freeList
      BY <1>2, CellsAssumption DEF InitStaticObject, InitStackObject
    <2>3. freeList' \subseteq freeList \ {o}
      BY <1>a, <2>2
    <2> QED BY <2>1, <2>3, CreateSaturates
  <1>3. ASSUME NEW c \in Contexts,
               AllocObjectOOM(c) \/ \E r \in Slots : IsUniquelyReferenced(c, r)
        PROVE  SaturationInv' /\ StaysSaturated
    <2>1. UNCHANGED <<slot, life, refcount, freeList, call>>
      BY <1>3 DEF AllocObjectOOM, IsUniquelyReferenced
    <2> QED BY <1>a, <2>1, LoadSaturates
  <1>4. ASSUME NEW c \in Contexts, NEW r \in Slots, NEW q \in Slots, Move(c, r, q)
        PROVE  SaturationInv' /\ StaysSaturated
    <2>1. /\ UNCHANGED <<life, refcount, freeList, call>>
          /\ slot' = [slot EXCEPT ![r] = Nil, ![q] = slot[r]]
      BY <1>4 DEF Move
    <2> QED BY <1>a, <2>1, LoadSaturates
  <1>6. ASSUME NEW c \in Contexts, RetainAdd(c)
        PROVE  SaturationInv' /\ StaysSaturated
    <2>1. PICK o, S : o = call[c].obj /\ S = call[c].slots
      OBVIOUS
    <2>2. o \in HeapCells /\ o \in Objects /\ S \in SUBSET Slots
      BY <1>6, <1>a, <1>b, <2>1 DEF RetainAdd, CallsOK
    <2>3. AddWord(refcount[o], Cardinality(S)) \in Int
      BY <1>a, <2>2, CountsAreInt
    <2>4. /\ refcount' = [refcount EXCEPT ![call[c].obj] = AddWord(refcount[o], Cardinality(S))]
          /\ slot' = [r \in Slots |-> IF r \in S THEN o ELSE slot[r]]
      BY <1>6, <2>1 DEF RetainAdd
    <2>5. /\ slot' \in [Slots -> Objects \cup {Nil}]
          /\ \A r \in Slots : slot'[r] \in {slot[r], Nil, call[c].obj}
      BY <1>a, <2>1, <2>2, <2>4
    <2> QED BY <1>6, <2>3, <2>4, <2>5, UpdateSaturates DEF RetainAdd
  <1>7. ASSUME NEW c \in Contexts, ReleaseSub(c)
        PROVE  SaturationInv' /\ StaysSaturated
    <2>1. PICK o, S : o = call[c].obj /\ S = call[c].slots
      OBVIOUS
    <2>2. o \in HeapCells /\ o \in Objects /\ S \in SUBSET Slots
      BY <1>7, <1>a, <1>b, <2>1 DEF ReleaseSub, CallsOK
    <2>3. SubWord(refcount[o], Cardinality(S)) \in Int
      BY <1>a, <2>2, CountsAreInt
    <2>4. /\ refcount' = [refcount EXCEPT ![call[c].obj] = SubWord(refcount[o], Cardinality(S))]
          /\ slot' = [r \in Slots |-> IF r \in S THEN Nil ELSE slot[r]]
      BY <1>7, <2>1 DEF ReleaseSub
    <2>5. life' = life \/ life' = [life EXCEPT ![call[c].obj] = "deinit"]
      BY <1>7, <2>1 DEF ReleaseSub
    <2>6. /\ slot' \in [Slots -> Objects \cup {Nil}]
          /\ \A r \in Slots : slot'[r] \in {slot[r], Nil, call[c].obj}
      BY <1>a, <2>1, <2>2, <2>4
    <2> QED BY <1>7, <2>3, <2>4, <2>5, <2>6, UpdateSaturates DEF ReleaseSub
  <1>8. ASSUME NEW c \in Contexts, ReleaseField(c)
        PROVE  SaturationInv' /\ StaysSaturated
    <2>1. PICK f \in Fields(Top(c)) : BeginRelease(c, {f})
      BY <1>8 DEF ReleaseField
    <2>2. {f} \in SUBSET Slots /\ {f} # {}
      BY DEF Fields
    <2> QED BY <2>1, <2>2, BeginReleaseSaturates
  <1>9. ASSUME NEW c \in Contexts, NEW o \in Objects,
               EndDeinit(c, o) \/ DeallocClassInstance(c, o) \/ DeallocObject(c, o)
        PROVE  SaturationInv' /\ StaysSaturated
    <2>1. life[o] \in {"deinit", "fields"} /\ UNCHANGED <<slot, refcount, call>>
      BY <1>9 DEF EndDeinit, DeallocClassInstance, DeallocObject, Return
    <2>2. o \in HeapCells
      BY <1>a, <2>1 DEF StaticInv, Objects, OnlyHeapAndStatic
    <2>3. CASE EndDeinit(c, o)
      BY <2>1, <2>2, <2>3, EndSaturates DEF EndDeinit
    <2>4. CASE DeallocObject(c, o)
      BY <2>1, <2>2, <2>4, EndSaturates DEF DeallocObject, Return
    <2>5. CASE DeallocClassInstance(c, o)
      BY <2>1, <2>2, <2>5, EndSaturates DEF DeallocClassInstance, Return
    <2> QED BY <1>9, <2>3, <2>4, <2>5
  <1>10. CASE UNCHANGED vars
    <2>1. UNCHANGED <<slot, life, refcount, freeList, call>>
      BY <1>10 DEF vars
    <2> QED BY <2>1 DEF SaturationInv, StaysSaturated, Settled, CallsOK, StaticInv
  <1> QED BY <1>1, <1>2, <1>3, <1>4, RetainLoadSaturates, BeginReleaseSaturates,
             <1>6, <1>7, <1>8, <1>9, <1>10
          DEF Next, ReleaseLoad, Stopped

(* Whatever the number of contexts, and however many references they make: *)
(* once a count is at immortalRefCount and the calls that had loaded an    *)
(* earlier value are through, it never moves again.                        *)
THEOREM SaturationIsFinal ==
  ASSUME OnlyHeapAndStatic
  PROVE  Spec => SaturatedStaysAlive
  <1>1. SaturationInv /\ [Next]_vars => SaturationInv'
    BY SaturationStep
  <1>2. SaturationInv /\ [Next]_vars
          => [\A o \in Objects : Settled(o) => Settled(o)']_vars
    BY SaturationStep DEF StaysSaturated
  <1> QED BY <1>1, <1>2, SaturationInitially, PTL DEF Spec, SaturatedStaysAlive
=============================================================================
