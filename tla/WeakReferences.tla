---------------------------- MODULE WeakReferences ----------------------------
(***************************************************************************)
(* Strong, unowned and weak references of the experimental C++ runtime:    *)
(* src/Runtime/HeapObject.cpp, RefCount.cpp and WeakReference.h.           *)
(*                                                                         *)
(* The counts of an object stand in its header until it gets a side table, *)
(* with its first weak reference or when the unowned count overflows; then *)
(* the header holds the address of the side table.  A weak variable refers *)
(* to the side table, which outlives the object: an object is destroyed    *)
(* when its strong count reaches zero, its memory goes back with the last  *)
(* unowned reference, its side table with the last weak one.  While the    *)
(* object exists it owns one unowned and one weak reference itself.        *)
(*                                                                         *)
(* The bits of one header or side table change in one step: RefCount.h, in *)
(* a submodule that is not part of the source, is taken from its use here. *)
(***************************************************************************)
EXTENDS Integers, Sequences, FiniteSets

CONSTANTS
  Contexts,          (* main loop, interrupt handlers                      *)
  Objects, Tables,   (* memory for instances and for side tables           *)
  Vars, Home,        (* weak variables; [Vars -> Objects \cup {Global}]    *)
  Global, Nil,
  MaxStrong,         (* where the strong and the unowned count overflow    *)
  MaxInlineUnowned, MaxUnowned,
  MaxN,              (* bound on the n of swift_retain_n and its likes     *)
  TablesExclusive,   (* is allocateSideTable protected from interrupts?    *)
  TakesAlive         (* does swift_weakTakeStrong meet live objects only?  *)

Cells == Objects \cup Tables

(* Counts, and what a call keeps while it is between two of its steps.     *)
CountType == [strong : 0 .. MaxStrong, unowned : 0 .. MaxUnowned, deiniting : BOOLEAN]
TableCall == [op : {"table"}, object : Objects, old : CountType, dest : Vars \cup {Nil}, n : 0 .. MaxN]
UnownCall == [op : {"unown"}, side : Tables, n : 1 .. MaxN]
FormCall == [op : {"form"}, dest : Vars, side : Tables \cup {Nil}]
LoadCall == [op : {"load"}, side : Tables, src : Vars \cup {Nil}]
TransferCall == [op : {"copy", "take"}, dest : Vars, src : Vars]
DropCall == [op : {"drop"}, side : Tables, next : LoadCall \cup TransferCall \cup {Nil}]
RuntimeCall == TableCall \cup UnownCall \cup FormCall \cup LoadCall \cup TransferCall \cup DropCall

ASSUME CellsAssumption ==
  /\ Objects \cap Tables = {}
  /\ Nil \notin Cells /\ Nil \notin Vars /\ Nil \notin RuntimeCall
  /\ Global \notin Objects /\ Home \in [Vars -> Objects \cup {Global}]
  /\ IsFiniteSet(Contexts) /\ IsFiniteSet(Objects) /\ IsFiniteSet(Vars)

ASSUME CountsAssumption ==
  /\ MaxStrong \in Nat \ {0} /\ MaxInlineUnowned \in Nat \ {0} /\ MaxN \in Nat \ {0}
  /\ MaxUnowned \in Nat /\ MaxInlineUnowned <= MaxUnowned

ASSUME SwitchesAssumption == TablesExclusive \in BOOLEAN /\ TakesAlive \in BOOLEAN

VARIABLES
  memory,   (* the cells that are allocated                                *)
  table,    (* per object: the side table in its header, or Nil            *)
  count,    (* per cell: the counts in the header or in the side table     *)
  weak,     (* per side table: its weak count                              *)
  owner,    (* per side table: its object                                  *)
  weakVar,  (* per weak variable: a side table or Nil                      *)
  held,     (* [Contexts -> [Objects -> Nat]]: strong references           *)
  unowned,  (* [Contexts -> [Objects -> Nat]]: unowned references          *)
  call,     (* per context: the rest of the runtime call it is in, or Nil  *)
  dying,    (* per context: the destroyers on its stack                    *)
  halted    (* the runtime has called runtime_abort_function()             *)

heap == <<memory, table, count, weak, owner>>
program == <<weakVar, held, unowned, call, dying, halted>>
vars == <<heap, program>>

-----------------------------------------------------------------------------
(* RefCounts<...> and HeapObjectSideTableEntry                             *)

Fresh == [strong |-> 1, unowned |-> 1, deiniting |-> FALSE]
NoCount == [strong |-> 0, unowned |-> 0, deiniting |-> FALSE]

(* The cell that holds the counts of o. *)
Bits(o) == IF table[o] = Nil THEN o ELSE table[o]
Counts(o) == count[Bits(o)]

Plus(r, s, u) ==
  [strong |-> r.strong + s, unowned |-> r.unowned + u, deiniting |-> r.deiniting]
AddStrong(b, n) == [count EXCEPT ![b] = Plus(@, n, 0)]
AddUnowned(b, n) == [count EXCEPT ![b] = Plus(@, 0, n)]
(* The last strong release. *)
SetDeiniting(b) ==
  [count EXCEPT ![b] = [strong |-> 0, unowned |-> @.unowned, deiniting |-> TRUE]]

(* The weak count of t goes down by one in memory m: the last one frees it.*)
DecrementWeak(t, m) ==
  /\ weak' = [weak EXCEPT ![t] = @ - 1]
  /\ memory' = IF weak[t] = 1 THEN m \ {t} ELSE m

(* decrementUnownedShouldFree(n) and swift_slowDealloc: with the unowned   *)
(* count the memory of the object goes, and its reference to the side      *)
(* table.                                                                  *)
DecrementUnowned(o, n) ==
  /\ count' = AddUnowned(Bits(o), -n)
  /\ IF Counts(o).unowned > n THEN UNCHANGED <<memory, weak>>
     ELSE IF table[o] # Nil THEN DecrementWeak(table[o], memory \ {o})
     ELSE memory' = memory \ {o} /\ UNCHANGED weak
  /\ UNCHANGED <<table, owner>>

-----------------------------------------------------------------------------
(* The contexts and their calls                                            *)

(* Where a destroyer is: in the deinit body, or past it.                   *)
Stages == {"deinit", "fields", "partial", "free", "release"}

Top(c) == dying[c][Len(dying[c])]
Outer(c) == SubSeq(dying[c], 1, Len(dying[c]) - 1)
InDeinit(c, o) == dying[c] # << >> /\ Top(c) = [object |-> o, at |-> "deinit"]

(* The program's own code runs: between calls, and not in the part of a    *)
(* destroyer that takes the object apart.                                  *)
Runs(c) ==
  /\ ~halted /\ call[c] = Nil
  /\ dying[c] # << >> => Top(c).at = "deinit"

At(c, op) == call[c] # Nil /\ call[c].op = op
In(c, op) == ~halted /\ At(c, op)
SetCall(c, k) == call' = [call EXCEPT ![c] = k]

Reads(k) == IF k # Nil /\ k.op \in {"load", "copy"} THEN {k.src} ELSE {}
Writes(k) ==
  {v \in Vars : /\ k # Nil
                /\ \/ k.op \in {"table", "form", "copy", "take"} /\ v = k.dest
                   \/ k.op = "take" /\ v = k.src}
(* A weak variable is being written until its call is over. *)
Pending(k) == IF k # Nil /\ k.op = "drop" THEN k.next ELSE k

(* "Reading a weak reference is NOT thread-safe with respect to concurrent *)
(* writes to the weak variable other than zeroing, concurrent destruction":*)
(* the program keeps its contexts apart, and a variable in an object goes  *)
(* with the object.                                                        *)
Reachable(c, o) == held[c][o] > 0 \/ InDeinit(c, o)
MayRead(c, v) ==
  /\ Home[v] \in Objects => Reachable(c, Home[v])
  /\ \A d \in Contexts \ {c} : v \notin Writes(Pending(call[d]))
MayWrite(c, v) ==
  /\ MayRead(c, v)
  /\ \A d \in Contexts \ {c} : v \notin Reads(Pending(call[d]))

(* No other context is between the load and the store of o's header. *)
Undisturbed(c, o) ==
  TablesExclusive =>
    \A d \in Contexts \ {c} : At(d, "table") => call[d].object # o

(* The bound on side tables: a call that will need one finds one (operator *)
(* new on an exhausted heap is outside the model).                         *)
RoomForTable == Cardinality(Tables \ memory) > Cardinality({d \in Contexts : At(d, "table")})

Init ==
  /\ memory = {}
  /\ table = [o \in Objects |-> Nil]
  /\ count = [x \in Cells |-> NoCount]
  /\ weak = [t \in Tables |-> 0]
  /\ owner = [t \in Tables |-> Nil]
  /\ weakVar = [v \in Vars |-> Nil]
  /\ held = [c \in Contexts |-> [o \in Objects |-> 0]]
  /\ unowned = [c \in Contexts |-> [o \in Objects |-> 0]]
  /\ call = [c \in Contexts |-> Nil]
  /\ dying = [c \in Contexts |-> << >>]
  /\ halted = FALSE

-----------------------------------------------------------------------------
(* Strong references                                                       *)

More(r, c, o, n) == [r EXCEPT ![c] = [r[c] EXCEPT ![o] = r[c][o] + n]]
Gain(c, o, n) == held' = More(held, c, o, n)
GainUnowned(c, o, n) == unowned' = More(unowned, c, o, n)
Push(c, o, at) == dying' = [dying EXCEPT ![c] = Append(@, [object |-> o, at |-> at])]

(* swift_allocObject with memory to be had; weakInit(nil) of the weak      *)
(* variables in the object.                                                *)
AllocObject(c, o) ==
  /\ Runs(c) /\ o \notin memory
  /\ memory' = memory \cup {o}
  /\ table' = [table EXCEPT ![o] = Nil]
  /\ count' = [count EXCEPT ![o] = Fresh]
  /\ Gain(c, o, 1)
  /\ UNCHANGED <<weak, owner, weakVar, unowned, call, dying, halted>>

Retain(c, o, n) ==
  /\ Runs(c) /\ held[c][o] > 0 /\ Undisturbed(c, o)
  /\ Counts(o).strong + n <= MaxStrong
  /\ count' = AddStrong(Bits(o), n)
  /\ Gain(c, o, n)
  /\ UNCHANGED <<memory, table, weak, owner, weakVar, unowned, call, dying, halted>>

(* swift_abortRetainOverflow, swift_abortUnownedRetainOverflow,            *)
(* swift_abortRetainUnowned: every abort stops the program.                *)
Abort == halted' = TRUE /\ UNCHANGED <<heap, weakVar, held, unowned, call, dying>>

(* A strong reference passes from one context to another in a variable     *)
(* they share; the runtime has no part in it.                              *)
HandOver(c, d, o) ==
  /\ Runs(c) /\ c # d /\ held[c][o] > 0
  /\ held' = More(More(held, c, o, -1), d, o, 1)
  /\ UNCHANGED <<heap, weakVar, unowned, call, dying, halted>>

RetainOverflows(c, o, n) ==
  /\ Runs(c) /\ held[c][o] > 0 /\ Undisturbed(c, o)
  /\ Counts(o).strong + n > MaxStrong
  /\ Abort

(* decrementAndMaybeDeinit: the last release calls the destroyer.          *)
Release(c, o, n) ==
  /\ Runs(c) /\ held[c][o] >= n /\ Undisturbed(c, o)
  /\ Gain(c, o, -n)
  /\ IF Counts(o).strong > n
     THEN count' = AddStrong(Bits(o), -n) /\ UNCHANGED dying
     ELSE count' = SetDeiniting(Bits(o)) /\ Push(c, o, "deinit")
  /\ UNCHANGED <<memory, table, weak, owner, weakVar, unowned, call, halted>>

(* swift_deallocPartialClassInstance: an initialiser fails before anything *)
(* else can refer to the object.  There is no deinit body to run.          *)
DeallocPartialClassInstance(c, o) ==
  /\ Runs(c) /\ held[c][o] = 1 /\ table[o] = Nil /\ count[o] = Fresh
  /\ Push(c, o, "partial")
  /\ UNCHANGED <<heap, weakVar, held, unowned, call, halted>>

(* The innermost destroyer of c goes on, or is done. *)
GoesOn(c, o, at) == dying' = [dying EXCEPT ![c] = Append(Outer(c), [object |-> o, at |-> at])]
Returns(c) == dying' = [dying EXCEPT ![c] = Outer(c)]

EndDeinit(c, o) ==
  /\ Runs(c) /\ InDeinit(c, o) /\ GoesOn(c, o, "fields")
  /\ UNCHANGED <<heap, weakVar, held, unowned, call, halted>>

TakesApart(c, o, stages) ==
  /\ ~halted /\ call[c] = Nil
  /\ \E at \in stages : dying[c] # << >> /\ Top(c) = [object |-> o, at |-> at]
  /\ Undisturbed(c, o)

(* A destroyer is past the weak variables of o. *)
FieldsAreGone(o) == \A v \in Vars : Home[v] = o => weakVar[v] = Nil

(* Mutant: the memory goes back without a look at the unowned count.       *)
CanBeFreedUnseen(o) == table[o] = Nil

(* No one but o itself has an unowned reference to it, or a weak one.      *)
CanBeFreedNow(o) == table[o] = Nil /\ count[o].unowned = 1

(* swift_deallocObject reads the counts of o once ...                      *)
DeallocObject(c, o) ==
  /\ TakesApart(c, o, {"fields"}) /\ FieldsAreGone(o)
  /\ GoesOn(c, o, IF CanBeFreedNow(o) THEN "free" ELSE "release")
  /\ UNCHANGED <<heap, weakVar, held, unowned, call, halted>>

(* ... then it gives the memory back, without a look at what the counts    *)
(* are by now ...                                                          *)
FreeObject(c, o) ==
  /\ TakesApart(c, o, {"free"}) /\ Returns(c)
  /\ memory' = memory \ {o}
  /\ UNCHANGED <<table, count, weak, owner, weakVar, held, unowned, call, halted>>

(* ... or the object's own unowned reference, through swift_unownedRelease.*)
ReleaseObject(c, o) ==
  /\ TakesApart(c, o, {"release"}) /\ Returns(c)
  /\ DecrementUnowned(o, 1)
  /\ UNCHANGED <<weakVar, held, unowned, call, halted>>

(* In one step for a partial object, to which nothing else refers.         *)
DeallocPartial(c, o) ==
  /\ TakesApart(c, o, {"partial"}) /\ FieldsAreGone(o) /\ Returns(c)
  /\ count' = [count EXCEPT ![o] = [strong |-> 0, unowned |-> 0, deiniting |-> TRUE]]
  /\ memory' = memory \ {o}
  /\ Gain(c, o, -1)
  /\ UNCHANGED <<table, weak, owner, weakVar, unowned, call, halted>>

-----------------------------------------------------------------------------
(* Unowned references                                                      *)

MayUnown(c, o) == Reachable(c, o) \/ unowned[c][o] > 0

(* In the header there is less room for the count than in a side table.    *)
UnownedRetain(c, o, n) ==
  /\ Runs(c) /\ MayUnown(c, o) /\ Undisturbed(c, o)
  /\ Counts(o).unowned + n <= IF table[o] = Nil THEN MaxInlineUnowned ELSE MaxUnowned
  /\ count' = AddUnowned(Bits(o), n)
  /\ GainUnowned(c, o, n)
  /\ UNCHANGED <<memory, table, weak, owner, weakVar, held, call, dying, halted>>

(* incrementUnownedSlow: see AllocateSideTable. *)
UnownedRetainSlow(c, o, n) ==
  /\ Runs(c) /\ MayUnown(c, o) /\ Undisturbed(c, o)
  /\ table[o] = Nil /\ count[o].unowned + n > MaxInlineUnowned
  /\ RoomForTable
  /\ SetCall(c, [op |-> "table", object |-> o, old |-> count[o], dest |-> Nil, n |-> n])
  /\ UNCHANGED <<heap, weakVar, held, unowned, dying, halted>>

UnownedRetainOverflows(c, o, n) ==
  /\ Runs(c) /\ MayUnown(c, o)
  /\ table[o] # Nil /\ Counts(o).unowned + n > MaxUnowned
  /\ Abort

UnownedRelease(c, o, n) ==
  /\ Runs(c) /\ unowned[c][o] >= n /\ Undisturbed(c, o)
  /\ GainUnowned(c, o, -n)
  /\ DecrementUnowned(o, n)
  /\ UNCHANGED <<weakVar, held, call, dying, halted>>

(* swift_unownedRetainStrongAndRelease is this step, then UnownedRelease,  *)
(* which it expects to free nothing.                                       *)
UnownedRetainStrong(c, o) ==
  /\ Runs(c) /\ unowned[c][o] > 0 /\ Undisturbed(c, o)
  /\ ~Counts(o).deiniting /\ Counts(o).strong < MaxStrong
  /\ count' = AddStrong(Bits(o), 1)
  /\ Gain(c, o, 1)
  /\ UNCHANGED <<memory, table, weak, owner, weakVar, unowned, call, dying, halted>>

(* A dead object, or one more strong reference than there is room for.     *)
UnownedRetainStrongAborts(c, o) ==
  /\ Runs(c) /\ unowned[c][o] > 0
  /\ Counts(o).deiniting \/ Counts(o).strong = MaxStrong
  /\ Abort

-----------------------------------------------------------------------------
(* Side tables and weak references                                         *)

Form(v, t) == [op |-> "form", dest |-> v, side |-> t]
Drop(t, next) == IF t = Nil THEN next ELSE [op |-> "drop", side |-> t, next |-> next]

(* swift_weakInit and swift_weakAssign with an object: allocateSideTable   *)
(* finds a side table; or an object past the start of its deinit; or it    *)
(* goes on with what it has read.                                          *)
WeakAssign(c, v, o) ==
  /\ Runs(c) /\ Reachable(c, o) /\ MayWrite(c, v) /\ Undisturbed(c, o)
  /\ table[o] = Nil => RoomForTable
  /\ SetCall(c,
       IF table[o] # Nil THEN Form(v, table[o])
       ELSE IF count[o].deiniting THEN Form(v, Nil)
       ELSE [op |-> "table", object |-> o, old |-> count[o], dest |-> v, n |-> 0])
  /\ UNCHANGED <<heap, weakVar, held, unowned, dying, halted>>

(* Mutant: initRefCounts(oldbits) is left out.                             *)
AllocateSideTableFresh(c, t) ==
  /\ In(c, "table") /\ t \in Tables \ memory
  /\ LET k == call[c] IN
     /\ memory' = memory \cup {t}
     /\ table' = [table EXCEPT ![k.object] = t]
     /\ count' = [count EXCEPT ![t] = Fresh, ![k.object] = NoCount]
     /\ weak' = [weak EXCEPT ![t] = 1]
     /\ owner' = [owner EXCEPT ![t] = k.object]
     /\ SetCall(c, IF k.dest # Nil THEN Form(k.dest, t)
                   ELSE [op |-> "unown", side |-> t, n |-> k.n])
  /\ UNCHANGED <<weakVar, held, unowned, dying, halted>>

(* The counts that were read move to the new side table, whatever the      *)
(* header holds by now: the second test in the code looks at the same copy *)
(* as the first.                                                           *)
AllocateSideTable(c, t) ==
  /\ In(c, "table") /\ t \in Tables \ memory
  /\ LET k == call[c] IN
     /\ memory' = memory \cup {t}
     /\ table' = [table EXCEPT ![k.object] = t]
     /\ count' = [count EXCEPT ![t] = k.old, ![k.object] = NoCount]
     /\ weak' = [weak EXCEPT ![t] = 1]
     /\ owner' = [owner EXCEPT ![t] = k.object]
     /\ SetCall(c, IF k.dest # Nil THEN Form(k.dest, t)
                   ELSE [op |-> "unown", side |-> t, n |-> k.n])
  /\ UNCHANGED <<weakVar, held, unowned, dying, halted>>

(* Mutant: a side table counts on past its maximum.                        *)
IncrementUnownedUnbounded(c) ==
  /\ In(c, "unown")
  /\ count' = AddUnowned(call[c].side, call[c].n)
  /\ GainUnowned(c, owner[call[c].side], call[c].n)
  /\ SetCall(c, Nil)
  /\ UNCHANGED <<memory, table, weak, owner, weakVar, held, dying, halted>>

(* side->incrementUnowned(n) at the end of incrementUnownedSlow.           *)
IncrementUnowned(c) ==
  /\ In(c, "unown")
  /\ LET k == call[c] IN
     IF count[k.side].unowned + k.n > MaxUnowned THEN Abort
     ELSE /\ count' = AddUnowned(k.side, k.n)
          /\ GainUnowned(c, owner[k.side], k.n)
          /\ SetCall(c, Nil)
          /\ UNCHANGED <<memory, table, weak, owner, weakVar, held, dying, halted>>

(* side->incrementWeak() gives no reference to a dying object.             *)
Alive(t) == t # Nil /\ ~count[t].deiniting

FormWeakReference(c) ==
  /\ In(c, "form")
  /\ LET k == call[c]
         side == IF Alive(k.side) THEN k.side ELSE Nil
     IN /\ weak' = [t \in Tables |-> weak[t] + (IF t = side THEN 1 ELSE 0)]
        /\ weakVar' = [weakVar EXCEPT ![k.dest] = side]
        /\ SetCall(c, Drop(weakVar[k.dest], Nil))
  /\ UNCHANGED <<memory, table, count, owner, held, unowned, dying, halted>>

(* side->decrementWeak(), then the rest of the call. *)
DropWeak(c) ==
  /\ In(c, "drop")
  /\ DecrementWeak(call[c].side, memory)
  /\ SetCall(c, call[c].next)
  /\ UNCHANGED <<table, count, owner, weakVar, held, unowned, dying, halted>>

(* The old reference of v goes, then `next` happens. *)
Clear(c, v, next) ==
  /\ weakVar' = [weakVar EXCEPT ![v] = Nil]
  /\ SetCall(c, Drop(weakVar[v], next))
  /\ UNCHANGED <<heap, held, unowned, dying, halted>>

(* swift_weakAssign of nil and swift_weakDestroy, by the program ...       *)
WeakDestroy(c, v) == Runs(c) /\ MayWrite(c, v) /\ weakVar[v] # Nil /\ Clear(c, v, Nil)

(* ... and by a destroyer. *)
DestroyField(c, v) ==
  /\ Home[v] \in Objects /\ TakesApart(c, Home[v], {"fields", "partial"})
  /\ weakVar[v] # Nil /\ Clear(c, v, Nil)

WeakLoadStrong(c, v) ==
  /\ Runs(c) /\ MayRead(c, v) /\ weakVar[v] # Nil
  /\ SetCall(c, [op |-> "load", side |-> weakVar[v], src |-> v])
  /\ UNCHANGED <<heap, weakVar, held, unowned, dying, halted>>

(* The variable is left uninitialised and its reference given up first.    *)
WeakTakeStrong(c, v) ==
  /\ Runs(c) /\ MayWrite(c, v) /\ weakVar[v] # Nil
  /\ TakesAlive => Alive(weakVar[v]) /\ held[c][owner[weakVar[v]]] > 0
  /\ Clear(c, v, [op |-> "load", side |-> weakVar[v], src |-> Nil])

(* Mutant: the load retains an object whose deinit has begun.              *)
TryRetainResurrects(c) ==
  /\ In(c, "load")
  /\ count[call[c].side].strong < MaxStrong
  /\ count' = AddStrong(call[c].side, 1)
  /\ Gain(c, owner[call[c].side], 1)
  /\ SetCall(c, Nil)
  /\ UNCHANGED <<memory, table, weak, owner, weakVar, unowned, dying, halted>>

(* side->tryRetain() *)
TryRetain(c) ==
  /\ In(c, "load")
  /\ LET t == call[c].side IN
     IF Alive(t) THEN /\ count[t].strong < MaxStrong
                      /\ count' = AddStrong(t, 1) /\ Gain(c, owner[t], 1)
     ELSE UNCHANGED <<count, held>>
  /\ SetCall(c, Nil)
  /\ UNCHANGED <<memory, table, weak, owner, weakVar, unowned, dying, halted>>

TryRetainOverflows(c) ==
  /\ In(c, "load") /\ Alive(call[c].side) /\ count[call[c].side].strong = MaxStrong
  /\ Abort

(* swift_weakCopyInit, swift_weakTakeInit, swift_weakCopyAssign,           *)
(* swift_weakTakeAssign: the old reference of dest goes first.             *)
WeakTransfer(c, dest, src, op) ==
  /\ Runs(c) /\ dest # src /\ MayWrite(c, dest)
  /\ IF op = "take" THEN MayWrite(c, src) ELSE MayRead(c, src)
  /\ Clear(c, dest, [op |-> op, dest |-> dest, src |-> src])

CopyInit(c) ==
  /\ In(c, "copy")
  /\ LET src == weakVar[call[c].src]
         side == IF Alive(src) THEN src ELSE Nil
     IN /\ weak' = [t \in Tables |-> weak[t] + (IF t = side THEN 1 ELSE 0)]
        /\ weakVar' = [weakVar EXCEPT ![call[c].dest] = side]
  /\ SetCall(c, Nil)
  /\ UNCHANGED <<memory, table, count, owner, held, unowned, dying, halted>>

TakeInit(c) ==
  /\ In(c, "take")
  /\ weakVar' = [weakVar EXCEPT ![call[c].dest] = weakVar[call[c].src], ![call[c].src] = Nil]
  /\ SetCall(c, Nil)
  /\ UNCHANGED <<heap, held, unowned, dying, halted>>

-----------------------------------------------------------------------------
Steps(c) ==
  \/ IncrementUnowned(c) \/ FormWeakReference(c) \/ DropWeak(c)
  \/ TryRetain(c) \/ TryRetainOverflows(c) \/ CopyInit(c) \/ TakeInit(c)
  \/ \E t \in Tables : AllocateSideTable(c, t)
  \/ \E v \in Vars : DestroyField(c, v)

Calls(c) ==
  \/ \E o \in Objects, n \in 1 .. MaxN :
       \/ Retain(c, o, n) \/ RetainOverflows(c, o, n) \/ Release(c, o, n)
       \/ UnownedRetain(c, o, n) \/ UnownedRetainSlow(c, o, n)
       \/ UnownedRetainOverflows(c, o, n) \/ UnownedRelease(c, o, n)
  \/ \E o \in Objects :
       \/ \E d \in Contexts : HandOver(c, d, o)
       \/ AllocObject(c, o) \/ DeallocPartialClassInstance(c, o)
       \/ UnownedRetainStrongAborts(c, o) \/ UnownedRetainStrong(c, o)
       \/ EndDeinit(c, o) \/ DeallocObject(c, o) \/ DeallocPartial(c, o)
       \/ FreeObject(c, o) \/ ReleaseObject(c, o)
  \/ \E v \in Vars : WeakDestroy(c, v) \/ WeakLoadStrong(c, v) \/ WeakTakeStrong(c, v)
  \/ \E v \in Vars, o \in Objects : WeakAssign(c, v, o)
  \/ \E dest, src \in Vars, op \in {"copy", "take"} : WeakTransfer(c, dest, src, op)

Stopped == halted /\ UNCHANGED vars

Next == (\E c \in Contexts : Steps(c) \/ Calls(c)) \/ Stopped

Spec == Init /\ [][Next]_vars

-----------------------------------------------------------------------------
TypeOK ==
  /\ memory \subseteq Cells
  /\ table \in [Objects -> Tables \cup {Nil}]
  /\ count \in [Cells -> CountType]
  /\ weak \in [Tables -> Nat]
  /\ owner \in [Tables -> Objects \cup {Nil}]
  /\ weakVar \in [Vars -> Tables \cup {Nil}]
  /\ held \in [Contexts -> [Objects -> Nat]]
  /\ unowned \in [Contexts -> [Objects -> Nat]]
  /\ call \in [Contexts -> RuntimeCall \cup {Nil}]
  /\ dying \in [Contexts -> Seq([object : Objects, at : Stages])]
  /\ halted \in BOOLEAN

(* The objects on which the runtime works, and the side tables. *)
Dying(o) == \E c \in Contexts : \E i \in DOMAIN dying[c] : dying[c][i].object = o
UsedTables ==
  {weakVar[v] : v \in Vars} \cup {table[o] : o \in memory \cap Objects}
    \cup {call[c].side : c \in {d \in Contexts : \E op \in {"form", "unown", "drop", "load"} : At(d, op)}}

(* No strong, unowned or weak reference outlives what it refers to, and no *)
(* call or destroyer works on memory that another one gave back between    *)
(* two of its steps; a strong reference never names an object whose        *)
(* destruction has begun.  This takes a program that takes weak references *)
(* to live objects only (TakesAlive): of a dead one swift_weakTakeStrong   *)
(* may use a side table it has just deleted (run weak_take).  And it takes *)
(* TablesExclusive, like the next one.                                     *)
NothingDangles ==
  /\ UsedTables \subseteq memory \cup {Nil}
  /\ \A c \in Contexts, o \in Objects :
       /\ held[c][o] > 0 => o \in memory /\ ~Counts(o).deiniting
       /\ unowned[c][o] > 0 \/ Dying(o) => o \in memory

(* The references to o in all contexts together. *)
Total(r, o) == Cardinality(UNION {{c} \X (1 .. r[c][o]) : c \in Contexts})

(* Provided no other context counts a reference to an object between the   *)
(* load and the store of its header in allocateSideTable (TablesExclusive: *)
(* nothing in RefCount.cpp:85-118 sees to that, and a count that comes in  *)
(* between is lost), and only live objects are taken (TakesAlive): the     *)
(* strong count is the number of strong references, the unowned count that *)
(* of unowned references and one for the object while it is not taken      *)
(* apart, the weak count that of weak variables, those a call still has to *)
(* give up, and one for the object's memory. So it is in the header and in *)
(* the side table, and while destroyers and weak calls are between two of  *)
(* their steps. What has no reference is gone, in whatever order the last  *)
(* ones went.                                                              *)
CountsAreExact ==
  /\ \A o \in memory \cap Objects :
       /\ Counts(o).strong = Total(held, o)
       /\ Counts(o).unowned =
            Total(unowned, o) + (IF Counts(o).deiniting /\ ~Dying(o) THEN 0 ELSE 1)
       /\ Counts(o).unowned > 0
  /\ \A t \in memory \cap Tables :
       /\ weak[t] = Cardinality({v \in Vars : weakVar[v] = t})
                      + Cardinality({c \in Contexts : At(c, "drop") /\ call[c].side = t})
                      + Cardinality({o \in memory \cap Objects : table[o] = t})
       /\ weak[t] > 0

(* What weak references promise: see ZeroingReferences.                    *)
Zeroing == INSTANCE ZeroingReferences WITH
  refs <- held,
  weakRef <- [v \in Vars |-> IF Alive(weakVar[v]) THEN owner[weakVar[v]] ELSE Nil],
  asking <- [c \in Contexts |-> IF At(c, "load") THEN call[c].src ELSE Nil]

(* With counts that move, variables that are only zeroed when they are read*)
(* and loads in several steps, weak references become nil at once when the *)
(* last strong reference goes, and a load gives a reference exactly when   *)
(* the object still has one ("returns null if it has begun deallocation,   *)
(* otherwise retains the object", HeapObject.h:555-557); under the two     *)
(* provisos of the properties above.                                       *)
ImplementsZeroing == Zeroing!Spec
=============================================================================
