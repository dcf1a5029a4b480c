------------------------ MODULE WeakReferences_proofs ------------------------
(***************************************************************************)
(* What the experimental runtime promises of strong, unowned and weak      *)
(* references, for every number of contexts, objects, side tables and weak *)
(* variables and every width of the counts, proved under the two           *)
(* restrictions of the run weak_references (see WeakReferences).           *)
(***************************************************************************)
EXTENDS WeakReferences, FiniteSetTheorems, SequenceTheorems, TLAPS

(* The restrictions: nothing comes between the two halves of               *)
(* allocateSideTable, and only references to live objects are taken.       *)
Restricted == TablesExclusive /\ TakesAlive

-----------------------------------------------------------------------------
Stack(c) == 1 .. Len(dying[c])
Instances == memory \cap Objects

(* Strong references name live objects, unowned ones and destroyers        *)
(* objects that are still there.                                           *)
RefsGood ==
  \A c \in Contexts, o \in Objects :
    /\ held[c][o] > 0 => o \in memory /\ ~Counts(o).deiniting
    /\ unowned[c][o] > 0 => o \in memory

(* An object is destroyed once, and nothing nests inside the part of a     *)
(* destroyer that takes it apart.                                          *)
EntryGood(c, i, o) ==
  /\ o \in memory
  /\ i < Len(dying[c]) => dying[c][i].at = "deinit"
  /\ dying[c][i].at # "partial" => Counts(o).deiniting
  /\ dying[c][i].at = "partial" => table[o] = Nil /\ count[o] = Fresh /\ held[c][o] = 1
  /\ \A d \in Contexts : \A j \in Stack(d) : dying[d][j].object = o => d = c /\ j = i
StacksGood ==
  \A c \in Contexts, o \in Objects : \A i \in Stack(c) :
    dying[c][i].object = o => EntryGood(c, i, o)

(* An object and its side table name each other for as long as the object  *)
(* is alive.                                                               *)
TablesGood ==
  /\ \A o \in Instances : table[o] # Nil => table[o] \in memory /\ owner[table[o]] = o
  /\ \A t \in memory \cap Tables :
       ~count[t].deiniting => owner[t] \in Instances /\ table[owner[t]] = t

(* The object's own unowned reference, which goes with the destroyer.      *)
Own(o) == IF Counts(o).deiniting /\ ~Dying(o) THEN 0 ELSE 1

CountGood(o) ==
  /\ Counts(o).strong = Total(held, o)
  /\ Counts(o).unowned = Total(unowned, o) + Own(o)
  /\ Counts(o).unowned > 0
  /\ Counts(o).deiniting \/ Counts(o).strong > 0
CountsGood == \A o \in Instances : CountGood(o)

(* The references to a side table: those of weak variables, those that a   *)
(* call has still to give up, and those of objects.                        *)
InVars(t) == {v \in Vars : weakVar[v] = t}
InCalls(t) == {c \in Contexts : At(c, "drop") /\ call[c].side = t}
InObjects(t) == {o \in Instances : table[o] = t}

WeakGood ==
  /\ \A v \in Vars : weakVar[v] \in memory \cup {Nil}
  /\ \A c \in Contexts : At(c, "drop") => call[c].side \in memory
  /\ \A t \in memory \cap Tables :
       /\ weak[t] = Cardinality(InVars(t)) + Cardinality(InCalls(t)) + Cardinality(InObjects(t))
       /\ weak[t] > 0

-----------------------------------------------------------------------------
(* A side table that belongs to an object.                                 *)
Attached(t) == owner[t] \in Objects /\ table[owner[t]] = t

(* What a call that is between two of its steps still relies on.           *)
TableCallGood(c, k) ==
  k.op = "table" =>
    /\ table[k.object] = Nil /\ count[k.object] = k.old
    /\ Reachable(c, k.object) \/ (k.dest = Nil /\ unowned[c][k.object] > 0)
    /\ k.dest = Nil => k.n > 0
UnownCallGood(c, k) ==
  k.op = "unown" => Attached(k.side) /\ MayUnown(c, owner[k.side])
FormCallGood(c, k) ==
  k.op = "form" /\ k.side # Nil => Attached(k.side) /\ Reachable(c, owner[k.side])
LoadCallGood(c, k) ==
  k.op = "load" =>
    /\ k.src = Nil => Attached(k.side) /\ held[c][owner[k.side]] > 0
    /\ k.src # Nil => /\ weakVar[k.src] = k.side
                      /\ Home[k.src] \in Objects => Reachable(c, Home[k.src])
TransferCallGood(c, k) ==
  k.op \in {"copy", "take"} => weakVar[k.dest] = Nil /\ k.dest # k.src

CallGood(c) ==
  Pending(call[c]) # Nil =>
    /\ dying[c] # << >> => Top(c).at = "deinit"
    /\ TableCallGood(c, Pending(call[c])) /\ UnownCallGood(c, Pending(call[c]))
    /\ FormCallGood(c, Pending(call[c])) /\ LoadCallGood(c, Pending(call[c]))
    /\ TransferCallGood(c, Pending(call[c]))

(* The calls of two contexts do not get in each other's way.               *)
CallsApart ==
  \A c, d \in Contexts : c # d =>
    /\ Writes(Pending(call[c])) \cap Writes(Pending(call[d])) = {}
    /\ Writes(Pending(call[c])) \cap Reads(Pending(call[d])) = {}
    /\ At(c, "table") /\ At(d, "table") => call[c].object # call[d].object

IInv ==
  /\ TypeOK
  /\ RefsGood /\ StacksGood /\ TablesGood /\ CountsGood
  /\ WeakGood
  /\ \A c \in Contexts : CallGood(c)
  /\ CallsApart

(* Once canBeFreedNow has said so of o, no one refers to it any more: what *)
(* swift_deallocObject does without looking again rests on this.           *)
Unreferenced(o) == table[o] = Nil /\ \A c \in Contexts : unowned[c][o] = 0
AtFree(o) == \E c \in Contexts : \E i \in Stack(c) : dying[c][i] = [object |-> o, at |-> "free"]
FreeGood == \A o \in Objects : AtFree(o) => Unreferenced(o)

-----------------------------------------------------------------------------
(***************************************************************************)
(* How many references all contexts have together.                         *)
(***************************************************************************)
RefTable == [Contexts -> [Objects -> Nat]]
Refs(r, o) == UNION {{c} \X (1 .. r[c][o]) : c \in Contexts}

(* Context c gets n references to o more (or fewer), no one else does.     *)
Shifted(r, r2, c, o, n) ==
  /\ r \in RefTable /\ r2 \in RefTable
  /\ \A d \in Contexts, p \in Objects :
       r2[d][p] = IF d = c /\ p = o THEN r[d][p] + n ELSE r[d][p]

Row(c, a, n) == {c} \X ((a + 1) .. (a + n))

LEMMA RowCardinality ==
  ASSUME NEW c, NEW a \in Nat, NEW n \in Nat
  PROVE  IsFiniteSet(Row(c, a, n)) /\ Cardinality(Row(c, a, n)) = n
  <1> DEFINE i == a + 1
             j == a + n
             S == {c}
             T == i .. j
  <1>1. i \in Int /\ j \in Int /\ (IF i > j THEN 0 ELSE j - i + 1) = n
    OBVIOUS
  <1>2. IsFiniteSet(S) /\ Cardinality(S) = 1
    BY FS_Singleton
  <1> HIDE DEF i, j, S
  <1>3. IsFiniteSet(T) /\ Cardinality(T) = n
    BY <1>1, FS_Interval
  <1> HIDE DEF T
  <1>4. IsFiniteSet(S \X T) /\ Cardinality(S \X T) = n
    BY <1>2, <1>3, FS_Product
  <1> QED BY <1>4 DEF i, j, S, T, Row

LEMMA RefsAreFinite ==
  ASSUME NEW r \in RefTable, NEW o \in Objects
  PROVE  /\ IsFiniteSet(Refs(r, o))
         /\ Total(r, o) = Cardinality(Refs(r, o)) /\ Total(r, o) \in Nat
         /\ \A x : x \in Refs(r, o) <=> \E d \in Contexts : x \in {d} \X (1 .. r[d][o])
  <1> DEFINE rows == {{c} \X (1 .. r[c][o]) : c \in Contexts}
             f == [c \in Contexts |-> {c} \X (1 .. r[c][o])]
  <1>1. \A T \in rows : IsFiniteSet(T)
    <2> SUFFICES ASSUME NEW c \in Contexts PROVE IsFiniteSet({c} \X (1 .. r[c][o]))
      OBVIOUS
    <2>1. IsFiniteSet(1 .. r[c][o])
      BY FS_Interval DEF RefTable
    <2> QED BY <2>1, FS_Singleton, FS_Product
  <1>2. f \in Surjection(Contexts, rows)
    BY DEF Surjection
  <1>3. IsFiniteSet(rows)
    BY <1>2, FS_Surjection, CellsAssumption
  <1>4. IsFiniteSet(UNION rows)
    BY <1>1, <1>3, FS_UNION
  <1>5. Cardinality(UNION rows) \in Nat
    BY <1>4, FS_CardinalityType
  <1> QED
    BY <1>4, <1>5 DEF Refs, Total

LEMMA TotalGrows ==
  ASSUME NEW r, NEW r2, NEW c \in Contexts, NEW o \in Objects, NEW n \in Nat,
         Shifted(r, r2, c, o, n)
  PROVE  Total(r2, o) = Total(r, o) + n
  <1> DEFINE k == r[c][o]
             more == Row(c, k, n)
  <1>1. r \in RefTable /\ r2 \in RefTable /\ k \in Nat /\ r2[c][o] = k + n
    BY DEF Shifted, RefTable
  <1>2. IsFiniteSet(more) /\ Cardinality(more) = n
    BY <1>1, RowCardinality
  <1>3. Refs(r2, o) = Refs(r, o) \cup more
    <2>1. ASSUME NEW x, x \in Refs(r2, o) PROVE x \in Refs(r, o) \cup more
      <3>1. PICK d \in Contexts : x \in {d} \X (1 .. r2[d][o])
        BY <1>1, <2>1, RefsAreFinite
      <3>2. CASE d = c
        <4>1. x[2] \in 1 .. k \/ x[2] \in (k + 1) .. (k + n)
          BY <1>1, <3>1, <3>2
        <4>2. x \in {c} \X (1 .. k) \/ x \in more
          BY <3>1, <3>2, <4>1 DEF Row
        <4> QED BY <1>1, <4>2, RefsAreFinite
      <3>3. CASE d # c
        BY <1>1, <3>1, <3>3, RefsAreFinite DEF Shifted
      <3> QED BY <3>2, <3>3
    <2>2. ASSUME NEW x, x \in Refs(r, o) PROVE x \in Refs(r2, o)
      <3>1. PICK d \in Contexts : x \in {d} \X (1 .. r[d][o])
        BY <1>1, <2>2, RefsAreFinite
      <3>2. r[d][o] \in Nat /\ r2[d][o] \in Nat /\ r[d][o] <= r2[d][o]
        BY <1>1 DEF Shifted, RefTable
      <3>3. x \in {d} \X (1 .. r2[d][o])
        BY <3>1, <3>2
      <3> QED BY <1>1, <3>3, RefsAreFinite
    <2>3. ASSUME NEW x, x \in more PROVE x \in Refs(r2, o)
      <3>1. x \in {c} \X (1 .. r2[c][o])
        BY <1>1, <2>3 DEF Row
      <3> QED BY <1>1, <3>1, RefsAreFinite
    <2> QED BY <2>1, <2>2, <2>3
  <1>4. Refs(r, o) \cap more = {}
    <2> SUFFICES ASSUME NEW x, x \in Refs(r, o), x \in more PROVE FALSE
      OBVIOUS
    <2>1. PICK d \in Contexts : x \in {d} \X (1 .. r[d][o])
      BY <1>1, RefsAreFinite
    <2> QED BY <1>1, <2>1 DEF Row
  <1>5. IsFiniteSet(Refs(r, o))
    BY <1>1, RefsAreFinite
  <1>6. Cardinality(Refs(r, o) \cap more) = 0
    BY <1>4, FS_EmptySet
  <1>7. Cardinality(Refs(r, o) \cup more) = Cardinality(Refs(r, o)) + n - 0
    BY <1>2, <1>5, <1>6, FS_Union
  <1> QED
    <2>1. /\ Total(r, o) = Cardinality(Refs(r, o)) /\ Total(r, o) \in Nat
          /\ Total(r2, o) = Cardinality(Refs(r2, o))
      BY <1>1, RefsAreFinite
    <2> HIDE DEF more
    <2> QED BY <1>3, <1>7, <2>1

LEMMA TotalShifts ==
  ASSUME NEW r, NEW r2, NEW c \in Contexts, NEW o \in Objects, NEW n \in Int,
         Shifted(r, r2, c, o, n)
  PROVE  /\ Total(r2, o) = Total(r, o) + n
         /\ \A p \in Objects : p # o => Total(r2, p) = Total(r, p)
  <1>1. r \in RefTable /\ r2 \in RefTable
    BY DEF Shifted
  <1>2. Total(r2, o) = Total(r, o) + n
    <2>1. CASE n >= 0
      BY <2>1, TotalGrows
    <2>2. CASE n < 0
      <3>1. Shifted(r2, r, c, o, -n)
        <4>1. \A d \in Contexts, p \in Objects : r[d][p] \in Nat
          BY <1>1 DEF RefTable
        <4> QED BY <1>1, <4>1 DEF Shifted
      <3>2. Total(r, o) = Total(r2, o) + (-n)
        BY <2>2, <3>1, TotalGrows
      <3> QED BY <1>1, <3>2, RefsAreFinite
    <2> QED BY <2>1, <2>2
  <1>3. ASSUME NEW p \in Objects, p # o PROVE Total(r2, p) = Total(r, p)
    <2>1. \A d \in Contexts : r2[d][p] = r[d][p]
      BY <1>3 DEF Shifted
    <2>2. {{d} \X (1 .. r2[d][p]) : d \in Contexts} = {{d} \X (1 .. r[d][p]) : d \in Contexts}
      BY <2>1
    <2> QED BY <2>2 DEF Total
  <1> QED BY <1>2, <1>3

(* One context has no more than all have together; all have none if and    *)
(* only if each has none.                                                  *)
LEMMA TotalBounds ==
  ASSUME NEW r \in RefTable, NEW o \in Objects
  PROVE  /\ Total(r, o) \in Nat
         /\ \A c \in Contexts : r[c][o] <= Total(r, o)
         /\ (\A c \in Contexts : r[c][o] = 0) => Total(r, o) = 0
  <1>1. Total(r, o) \in Nat
    BY RefsAreFinite
  <1>2. ASSUME NEW c \in Contexts PROVE r[c][o] <= Total(r, o)
    <2>1. r[c][o] \in Nat
      BY DEF RefTable
    <2>2. Row(c, 0, r[c][o]) \in SUBSET Refs(r, o)
      BY <2>1, RefsAreFinite DEF Row
    <2>3. Cardinality(Row(c, 0, r[c][o])) = r[c][o]
      BY <2>1, RowCardinality
    <2> QED BY <2>2, <2>3, RefsAreFinite, FS_Subset
  <1>3. ASSUME \A c \in Contexts : r[c][o] = 0 PROVE Total(r, o) = 0
    <2>1. Refs(r, o) = {}
      BY <1>3, RefsAreFinite
    <2> QED BY <2>1, RefsAreFinite, FS_EmptySet
  <1> QED BY <1>1, <1>2, <1>3

-----------------------------------------------------------------------------
(***************************************************************************)
(* What calls and counts are made of.                                      *)
(***************************************************************************)
LEMMA CallFields ==
  ASSUME NEW k \in RuntimeCall
  PROVE  /\ k # Nil
         /\ k.op \in {"table", "unown", "form", "load", "copy", "take", "drop"}
         /\ k.op = "table" => /\ k.object \in Objects /\ k.old \in CountType
                              /\ k.dest \in Vars \cup {Nil} /\ k.n \in 0 .. MaxN
         /\ k.op = "unown" => k.side \in Tables /\ k.n \in 1 .. MaxN
         /\ k.op = "form" => k.dest \in Vars /\ k.side \in Tables \cup {Nil}
         /\ k.op = "load" => k.side \in Tables /\ k.src \in Vars \cup {Nil}
         /\ k.op \in {"copy", "take"} => k.dest \in Vars /\ k.src \in Vars
         /\ k.op = "drop" => k.side \in Tables /\ k.next \in LoadCall \cup TransferCall \cup {Nil}
  <1> k # Nil
    BY CellsAssumption
  <1>1. CASE k \in TableCall
    BY <1>1 DEF TableCall
  <1>2. CASE k \in UnownCall
    BY <1>2 DEF UnownCall
  <1>3. CASE k \in FormCall
    BY <1>3 DEF FormCall
  <1>4. CASE k \in LoadCall
    BY <1>4 DEF LoadCall
  <1>5. CASE k \in TransferCall
    BY <1>5 DEF TransferCall
  <1>6. CASE k \in DropCall
    BY <1>6 DEF DropCall
  <1> QED
    BY <1>1, <1>2, <1>3, <1>4, <1>5, <1>6 DEF RuntimeCall

LEMMA PendingFacts ==
  ASSUME NEW k \in RuntimeCall \cup {Nil}
  PROVE  /\ Pending(k) \in RuntimeCall \cup {Nil}
         /\ Pending(k) # Nil => Pending(k).op # "drop"
         /\ k # Nil /\ k.op # "drop" => Pending(k) = k
         /\ k = Nil => Pending(k) = Nil
  <1>1. CASE k # Nil /\ k.op = "drop"
    <2>1. k.next \in LoadCall \cup TransferCall \cup {Nil} /\ Pending(k) = k.next
      BY <1>1, CallFields DEF Pending
    <2>2. ASSUME k.next \in LoadCall PROVE k.next.op # "drop"
      BY <2>2 DEF LoadCall
    <2>3. ASSUME k.next \in TransferCall PROVE k.next.op # "drop"
      BY <2>3 DEF TransferCall
    <2> QED BY <1>1, <2>1, <2>2, <2>3 DEF RuntimeCall
  <1>2. CASE ~(k # Nil /\ k.op = "drop")
    BY <1>2 DEF Pending
  <1> QED BY <1>1, <1>2

LEMMA CellFacts ==
  /\ \A o \in Objects : o \in Cells /\ o # Nil /\ o \notin Tables
  /\ \A t \in Tables : t \in Cells /\ t # Nil /\ t \notin Objects
  /\ \A v \in Vars : v # Nil
  BY CellsAssumption DEF Cells

(* The counts of two objects are in two cells.                             *)
LEMMA BitsApart ==
  ASSUME TypeOK, TablesGood, NEW o \in Instances
  PROVE  /\ o \in Objects /\ Bits(o) \in Cells /\ Counts(o) \in CountType
         /\ table[o] = Nil => Bits(o) = o
         /\ table[o] # Nil => Bits(o) = table[o] /\ Bits(o) \in Tables /\ Bits(o) \in memory
         /\ \A p \in Instances : p # o => Bits(p) # Bits(o)
  <1>1. o \in Objects /\ table \in [Objects -> Tables \cup {Nil}] /\ count \in [Cells -> CountType]
    BY DEF Instances, TypeOK
  <1>2. \A p \in Instances : p \in Objects /\ table[p] \in Tables \cup {Nil} /\ p \notin Tables /\ p \in Cells
    BY <1>1, CellFacts DEF Instances
  <1>3. \A p \in Instances : table[p] # Nil => table[p] \in memory /\ owner[table[p]] = p
    BY DEF TablesGood
  <1>4. Bits(o) \in Cells
    BY <1>1, <1>2, CellFacts DEF Bits
  <1> QED
    BY <1>1, <1>2, <1>3, <1>4, CellFacts DEF Bits, Counts

LEMMA PlusType ==
  ASSUME NEW r \in CountType, NEW s \in Int, NEW u \in Int
  PROVE  /\ Plus(r, s, u).strong = r.strong + s
         /\ Plus(r, s, u).unowned = r.unowned + u
         /\ Plus(r, s, u).deiniting = r.deiniting
         /\ /\ r.strong + s \in 0 .. MaxStrong
            /\ r.unowned + u \in 0 .. MaxUnowned
            => Plus(r, s, u) \in CountType
  BY DEF Plus, CountType

(* If one context has all the references, the others have none.            *)
LEMMA TotalSole ==
  ASSUME NEW r \in RefTable, NEW o \in Objects, NEW c \in Contexts, Total(r, o) = r[c][o]
  PROVE  \A d \in Contexts : d # c => r[d][o] = 0
  <1> DEFINE r2 == [d \in Contexts |-> [p \in Objects |-> IF d = c /\ p = o THEN 0 ELSE r[d][p]]]
  <1>1. r[c][o] \in Nat
    BY DEF RefTable
  <1>2. r2 \in RefTable /\ Shifted(r, r2, c, o, -r[c][o])
    BY <1>1 DEF RefTable, Shifted
  <1> HIDE DEF r2
  <1>3. Total(r2, o) = Total(r, o) + (-r[c][o])
    BY <1>1, <1>2, TotalShifts
  <1>4. Total(r2, o) = 0
    BY <1>1, <1>3
  <1>5. \A d \in Contexts : r2[d][o] <= 0 /\ r2[d][o] \in Nat
    BY <1>2, <1>4, TotalBounds DEF RefTable
  <1>6. \A d \in Contexts : d # c => r2[d][o] = r[d][o]
    BY DEF r2
  <1> QED
    BY <1>5, <1>6

-----------------------------------------------------------------------------
(***************************************************************************)
(* Steps that leave parts of the state alone.                              *)
(***************************************************************************)
ObjectsGood == RefsGood /\ StacksGood /\ TablesGood /\ CountsGood
CallsGood == (\A d \in Contexts : CallGood(d)) /\ CallsApart

(* The innermost destroyer of a context. *)
LEMMA TopFacts ==
  ASSUME TypeOK, NEW c \in Contexts
  PROVE  /\ Len(dying[c]) \in Nat
         /\ \A i \in Stack(c) : i \in Int /\ dying[c][i].object \in Objects
         /\ dying[c] # << >> => /\ Len(dying[c]) \in Stack(c)
                                /\ Top(c) = dying[c][Len(dying[c])]
  <1> DEFINE Frame == [object : Objects, at : Stages]
  <1>1. dying[c] \in Seq(Frame)
    BY DEF TypeOK
  <1>2. \A f \in Frame : f.object \in Objects
    OBVIOUS
  <1> HIDE DEF Frame
  <1>3. \A i \in Stack(c) : i \in Int /\ dying[c][i] \in Frame
    BY <1>1 DEF Stack
  <1>4. dying[c] # << >> => Len(dying[c]) > 0
    BY <1>1
  <1> QED BY <1>1, <1>2, <1>3, <1>4 DEF Stack, Top

LEMMA ReachableLives ==
  ASSUME TypeOK, RefsGood, StacksGood, NEW c \in Contexts, NEW o \in Objects,
         MayUnown(c, o)
  PROVE  o \in Instances
  <1>1. CASE held[c][o] > 0 \/ unowned[c][o] > 0
    BY <1>1 DEF RefsGood, Instances
  <1>2. CASE InDeinit(c, o)
    <2>1. Len(dying[c]) \in Stack(c) /\ dying[c][Len(dying[c])].object = o
      BY <1>2, TopFacts DEF InDeinit
    <2>2. EntryGood(c, Len(dying[c]), o)
      BY <2>1 DEF StacksGood
    <2> QED BY <2>2 DEF Instances, EntryGood
  <1> QED BY <1>1, <1>2 DEF Reachable, MayUnown

(* An object to which the running code of a context may refer is not being *)
(* given up half built.                                                    *)
Whole(o) ==
  \A d \in Contexts : \A i \in Stack(d) :
    dying[d][i].object = o => dying[d][i].at # "partial"
Ready(c) == dying[c] # << >> => Top(c).at = "deinit"

LEMMA ReferredWhole ==
  ASSUME TypeOK, ObjectsGood, NEW c \in Contexts, NEW o \in Objects, Ready(c), MayUnown(c, o)
  PROVE  Whole(o)
  <1> SUFFICES ASSUME NEW d \in Contexts, NEW i \in Stack(d),
                      dying[d][i].object = o, dying[d][i].at = "partial"
               PROVE  FALSE
    BY DEF Whole
  <1>1. EntryGood(d, i, o)
    BY DEF ObjectsGood, StacksGood
  <1>2. o \in Instances /\ CountGood(o)
    BY <1>1 DEF EntryGood, Instances, ObjectsGood, CountsGood
  <1>3. Counts(o) = Fresh /\ held[d][o] = 1
    BY <1>1 DEF EntryGood, Counts, Bits
  <1>4. held \in RefTable /\ unowned \in RefTable
    BY DEF TypeOK, RefTable
  <1>5. Total(held, o) = 1 /\ Total(unowned, o) = 0
    BY <1>2, <1>3, <1>4, TotalBounds DEF CountGood, Own, Fresh
  <1>6. CASE held[c][o] > 0
    <2>1. d = c
      BY <1>3, <1>4, <1>5, <1>6, TotalSole
    <2>2. i = Len(dying[c])
      BY <1>1, <2>1, TopFacts DEF EntryGood, Stack
    <2> QED BY <2>1, <2>2, TopFacts DEF Ready, Top, Stack
  <1>7. CASE unowned[c][o] > 0
    BY <1>4, <1>5, <1>7, TotalBounds DEF RefTable
  <1>8. CASE InDeinit(c, o)
    <2>1. Len(dying[c]) \in Stack(c) /\ dying[c][Len(dying[c])] = [object |-> o, at |-> "deinit"]
      BY <1>8, TopFacts DEF InDeinit
    <2>2. c = d /\ Len(dying[c]) = i
      BY <1>1, <2>1 DEF EntryGood
    <2> QED BY <2>1, <2>2
  <1> QED BY <1>6, <1>7, <1>8 DEF MayUnown, Reachable

(* The references, counts and destroyers stay what they are. *)
LEMMA ObjectsKept ==
  ASSUME ObjectsGood, UNCHANGED <<table, count, owner, held, unowned, dying>>,
         memory' \subseteq memory, Instances' = Instances,
         \A o \in Instances : table[o] # Nil => table[o] \in memory'
  PROVE  ObjectsGood'
  <1>1. \A o : Counts(o)' = Counts(o) /\ (Dying(o)' <=> Dying(o))
    BY DEF Counts, Bits, Dying
  <1>2. RefsGood'
    BY <1>1 DEF ObjectsGood, RefsGood, Instances
  <1>3. StacksGood'
    <2> SUFFICES ASSUME NEW c \in Contexts, NEW o \in Objects, NEW i \in Stack(c),
                        dying[c][i].object = o
                 PROVE  EntryGood(c, i, o)'
      BY DEF StacksGood, Stack
    <2>1. EntryGood(c, i, o)
      BY DEF ObjectsGood, StacksGood
    <2> QED BY <1>1, <2>1 DEF EntryGood, Instances, Stack
  <1>4. TablesGood'
    BY DEF ObjectsGood, TablesGood
  <1>5. CountsGood'
    <2> SUFFICES ASSUME NEW p \in Instances PROVE CountGood(p)'
      BY DEF CountsGood
    <2>1. CountGood(p)
      BY DEF ObjectsGood, CountsGood
    <2>2. Own(p)' = Own(p) /\ Total(held, p)' = Total(held, p) /\ Total(unowned, p)' = Total(unowned, p)
      BY <1>1 DEF Own, Total
    <2> QED BY <1>1, <2>1, <2>2 DEF CountGood
  <1> QED BY <1>2, <1>3, <1>4, <1>5 DEF ObjectsGood

(* Weak references stay what they are. *)
LEMMA WeakKept ==
  ASSUME TypeOK, WeakGood, UNCHANGED <<weak, weakVar>>,
         memory' \cap Tables = memory \cap Tables,
         \A t \in Tables : InObjects(t)' = InObjects(t),
         \A d \in Contexts : call'[d] = call[d] \/ (~At(d, "drop") /\ ~At(d, "drop")')
  PROVE  WeakGood'
  <1>1. \A v \in Vars : weakVar'[v] \in memory' \cup {Nil}
    BY DEF TypeOK, WeakGood
  <1>2. \A d \in Contexts : At(d, "drop")' <=> At(d, "drop")
    BY DEF At
  <1>3. \A d \in Contexts : At(d, "drop") => call'[d] = call[d]
    OBVIOUS
  <1>4. \A d \in Contexts : At(d, "drop")' => call'[d].side \in memory'
    <2> SUFFICES ASSUME NEW d \in Contexts, At(d, "drop") PROVE call[d].side \in memory'
      BY <1>2, <1>3
    <2>1. call[d] \in RuntimeCall /\ call[d].op = "drop"
      BY DEF At, TypeOK
    <2>2. call[d].side \in Tables /\ call[d].side \in memory
      BY <2>1, CallFields DEF WeakGood
    <2> QED BY <2>2
  <1>5. \A t \in Tables : InVars(t)' = InVars(t) /\ InCalls(t)' = InCalls(t)
    BY <1>2, <1>3 DEF InVars, InCalls
  <1> QED
    BY <1>1, <1>4, <1>5 DEF WeakGood

(* What the call of context d relies on stays as it is. *)
Relies(k) ==
  {v \in Vars : /\ k # Nil
                /\ \/ k.op = "load" /\ v = k.src
                   \/ k.op \in {"copy", "take"} /\ v = k.dest}
Holds(d) ==
  /\ dying'[d] = dying[d]
  /\ \A p \in Objects : /\ held[d][p] > 0 => held'[d][p] > 0
                        /\ unowned[d][p] > 0 => unowned'[d][p] > 0
  /\ \A p \in Instances :
       table[p] # Nil => table'[p] = table[p] /\ owner'[table[p]] = owner[table[p]]
  /\ At(d, "table") => /\ table'[call[d].object] = table[call[d].object]
                       /\ count'[call[d].object] = count[call[d].object]
  /\ \A v \in Relies(Pending(call[d])) : weakVar'[v] = weakVar[v]
Keeps(d) == call'[d] = call[d] /\ Holds(d)

(* A context that stays in its call, or an effect that it does not feel.   *)
LEMMA CallKept ==
  ASSUME TypeOK, RefsGood, StacksGood, NEW d \in Contexts, CallGood(d), Holds(d),
         Pending(call'[d]) = Pending(call[d])
  PROVE  CallGood(d)'
  <1>1. call[d] \in RuntimeCall \cup {Nil}
    BY DEF TypeOK
  <1>2. Pending(call[d]) \in RuntimeCall \cup {Nil} /\ Pending(call'[d]) = Pending(call[d])
    BY <1>1, PendingFacts
  <1> SUFFICES ASSUME Pending(call[d]) # Nil PROVE CallGood(d)'
    BY <1>2 DEF CallGood
  <1> PICK k \in RuntimeCall : k = Pending(call[d]) /\ k = Pending(call'[d])
    BY <1>2
  <1>3. /\ TableCallGood(d, k) /\ UnownCallGood(d, k) /\ FormCallGood(d, k)
        /\ LoadCallGood(d, k) /\ TransferCallGood(d, k) /\ Ready(d)
    BY DEF CallGood, Ready
  <1>4. \A p \in Objects : Reachable(d, p) => Reachable(d, p)' /\ p \in Instances
    <2> SUFFICES ASSUME NEW p \in Objects, Reachable(d, p)
                 PROVE  Reachable(d, p)' /\ p \in Instances
      OBVIOUS
    <2>1. p \in Instances
      BY ReachableLives DEF MayUnown
    <2>2. Reachable(d, p)'
      BY DEF Reachable, InDeinit, Top, Holds
    <2> QED BY <2>1, <2>2
  <1>5. \A p \in Objects : MayUnown(d, p) => MayUnown(d, p)' /\ p \in Instances
    <2> SUFFICES ASSUME NEW p \in Objects, MayUnown(d, p)
                 PROVE  MayUnown(d, p)' /\ p \in Instances
      OBVIOUS
    <2>1. p \in Instances
      BY ReachableLives
    <2>2. MayUnown(d, p)'
      BY <1>4 DEF MayUnown, Holds
    <2> QED BY <2>1, <2>2
  <1>6. ASSUME NEW t \in Tables, Attached(t), MayUnown(d, owner[t])
        PROVE  Attached(t)' /\ MayUnown(d, owner[t])' /\ owner'[t] = owner[t]
    <2> PICK p \in Objects : p = owner[t]
      BY <1>6 DEF Attached
    <2>1. p \in Instances /\ table[p] = t /\ t # Nil /\ MayUnown(d, p)'
      BY <1>5, <1>6, CellFacts DEF Attached
    <2>2. table'[p] = t /\ owner'[t] = p
      BY <2>1 DEF Holds
    <2> QED BY <2>1, <2>2 DEF Attached
  <1>7. k.op = "table" => At(d, "table") /\ k = call[d]
    <2> SUFFICES ASSUME k.op = "table" PROVE At(d, "table") /\ k = call[d]
      OBVIOUS
    <2>1. CASE call[d] # Nil /\ call[d].op # "drop"
      BY <1>1, <2>1, PendingFacts DEF At
    <2>2. CASE call[d] # Nil /\ call[d].op = "drop"
      <3>1. k \in LoadCall \cup TransferCall
        BY <1>1, <2>2, CallFields DEF Pending
      <3> QED BY <3>1 DEF LoadCall, TransferCall
    <2> QED BY <1>1, <2>1, <2>2, PendingFacts
  <1>8. TableCallGood(d, k)'
    <2> SUFFICES ASSUME k.op = "table" PROVE TableCallGood(d, k)'
      BY DEF TableCallGood
    <2>1. k.object \in Objects
      BY CallFields
    <2>2. table'[k.object] = Nil /\ count'[k.object] = k.old /\ (k.dest = Nil => k.n > 0)
      BY <1>3, <1>7 DEF Holds, TableCallGood
    <2>3. Reachable(d, k.object)' \/ (k.dest = Nil /\ unowned'[d][k.object] > 0)
      BY <1>3, <1>4, <2>1 DEF Holds, TableCallGood
    <2> QED BY <2>2, <2>3 DEF TableCallGood
  <1>9. UnownCallGood(d, k)'
    <2> SUFFICES ASSUME k.op = "unown" PROVE Attached(k.side)' /\ MayUnown(d, owner[k.side])'
      BY DEF UnownCallGood
    <2>1. k.side \in Tables
      BY CallFields
    <2> QED BY <1>3, <1>6, <2>1 DEF UnownCallGood
  <1>10. FormCallGood(d, k)'
    <2> SUFFICES ASSUME k.op = "form", k.side # Nil
                 PROVE Attached(k.side)' /\ Reachable(d, owner[k.side])'
      BY DEF FormCallGood
    <2>1. k.side \in Tables
      BY CallFields
    <2>2. Attached(k.side) /\ Reachable(d, owner[k.side])
      BY <1>3 DEF FormCallGood
    <2>3. Attached(k.side)' /\ owner'[k.side] = owner[k.side]
      BY <1>6, <2>1, <2>2 DEF MayUnown
    <2> PICK p \in Objects : p = owner[k.side] /\ p = owner'[k.side]
      BY <2>2, <2>3 DEF Attached
    <2>4. Reachable(d, p)'
      BY <1>4, <2>2
    <2> QED BY <2>3, <2>4 DEF Reachable, InDeinit
  <1>11. LoadCallGood(d, k)'
    <2> SUFFICES ASSUME k.op = "load" PROVE LoadCallGood(d, k)'
      BY DEF LoadCallGood
    <2>1. k.side \in Tables /\ k.src \in Vars \cup {Nil}
      BY CallFields
    <2>2. CASE k.src = Nil
      <3>1. Attached(k.side) /\ held[d][owner[k.side]] > 0
        BY <1>3, <2>2 DEF LoadCallGood
      <3>2. Attached(k.side)' /\ owner'[k.side] = owner[k.side]
        BY <1>6, <2>1, <3>1 DEF MayUnown, Reachable
      <3> QED BY <2>2, <3>1, <3>2 DEF LoadCallGood, Holds, Attached
    <2>3. CASE k.src # Nil
      <3>1. weakVar[k.src] = k.side /\ (Home[k.src] \in Objects => Reachable(d, Home[k.src]))
        BY <1>3, <2>3 DEF LoadCallGood
      <3>2. weakVar'[k.src] = k.side
        BY <2>1, <2>3, <3>1 DEF Holds, Relies
      <3>3. Home[k.src] \in Objects => Reachable(d, Home[k.src])'
        BY <1>4, <3>1
      <3> QED BY <2>3, <3>2, <3>3 DEF LoadCallGood
    <2> QED BY <2>1, <2>2, <2>3
  <1>12. TransferCallGood(d, k)'
    <2> SUFFICES ASSUME k.op \in {"copy", "take"} PROVE TransferCallGood(d, k)'
      BY DEF TransferCallGood
    <2>1. k.dest \in Vars
      BY CallFields
    <2>2. weakVar'[k.dest] = weakVar[k.dest]
      BY <2>1 DEF Holds, Relies
    <2> QED BY <1>3, <2>2 DEF TransferCallGood
  <1>13. Ready(d)'
    BY <1>3 DEF Ready, Top, Holds
  <1> QED
    BY <1>8, <1>9, <1>10, <1>11, <1>12, <1>13 DEF CallGood, Ready

(* The new call of c does not get in the way of the others.                *)
Apart(c) ==
  \A d \in Contexts : d # c =>
    /\ Writes(Pending(call'[c])) \cap Writes(Pending(call[d])) = {}
    /\ Writes(Pending(call'[c])) \cap Reads(Pending(call[d])) = {}
    /\ Reads(Pending(call'[c])) \cap Writes(Pending(call[d])) = {}
    /\ At(c, "table")' /\ At(d, "table") => call'[c].object # call[d].object

LEMMA ApartKept ==
  ASSUME CallsApart, NEW c \in Contexts,
         Pending(call'[c]) = Nil \/ Pending(call'[c]) = Pending(call[c]),
         At(c, "table")' => call'[c] = call[c]
  PROVE  Apart(c)
  <1> SUFFICES ASSUME NEW d \in Contexts, d # c
               PROVE  /\ Writes(Pending(call'[c])) \cap Writes(Pending(call[d])) = {}
                      /\ Writes(Pending(call'[c])) \cap Reads(Pending(call[d])) = {}
                      /\ Reads(Pending(call'[c])) \cap Writes(Pending(call[d])) = {}
                      /\ At(c, "table")' /\ At(d, "table") => call'[c].object # call[d].object
    BY DEF Apart
  <1>1. /\ Writes(Pending(call[c])) \cap Writes(Pending(call[d])) = {}
        /\ Writes(Pending(call[c])) \cap Reads(Pending(call[d])) = {}
        /\ Writes(Pending(call[d])) \cap Reads(Pending(call[c])) = {}
        /\ At(c, "table") /\ At(d, "table") => call[c].object # call[d].object
    BY DEF CallsApart
  <1>2. At(c, "table")' /\ At(d, "table") => call'[c].object # call[d].object
    BY <1>1 DEF At
  <1>3. Writes(Nil) = {} /\ Reads(Nil) = {}
    BY DEF Writes, Reads
  <1>4. CASE Pending(call'[c]) = Nil
    BY <1>2, <1>3, <1>4
  <1>5. CASE Pending(call'[c]) = Pending(call[c])
    BY <1>1, <1>2, <1>5
  <1> QED BY <1>4, <1>5

LEMMA CallsKept ==
  ASSUME TypeOK, RefsGood, StacksGood, CallsGood, NEW c \in Contexts,
         \A d \in Contexts : d # c => Keeps(d),
         CallGood(c)', Apart(c)
  PROVE  CallsGood'
  <1>1. \A d \in Contexts : CallGood(d)'
    <2> SUFFICES ASSUME NEW d \in Contexts, d # c PROVE CallGood(d)'
      OBVIOUS
    <2>1. Holds(d) /\ Pending(call'[d]) = Pending(call[d])
      BY DEF Keeps
    <2> QED BY <2>1, CallKept DEF CallsGood
  <1>2. CallsApart'
    <2> SUFFICES ASSUME NEW d \in Contexts, NEW e \in Contexts, d # e
                 PROVE  /\ Writes(Pending(call'[d])) \cap Writes(Pending(call'[e])) = {}
                        /\ Writes(Pending(call'[d])) \cap Reads(Pending(call'[e])) = {}
                        /\ At(d, "table")' /\ At(e, "table")' => call'[d].object # call'[e].object
      BY DEF CallsApart, Writes, Reads, Pending
    <2>1. CASE d # c /\ e # c
      BY <2>1 DEF CallsGood, CallsApart, Keeps, Holds, At
    <2>2. CASE d = c
      BY <2>2 DEF Apart, Keeps, Holds, At
    <2>3. CASE e = c
      BY <2>3 DEF Apart, Keeps, Holds, At
    <2> QED BY <2>1, <2>2, <2>3
  <1> QED BY <1>1, <1>2 DEF CallsGood

-----------------------------------------------------------------------------
(***************************************************************************)
(* Steps that count up or down.                                            *)
(***************************************************************************)
Moved(b, s, u) ==
  \A x \in Cells : count'[x] = IF x = b THEN Plus(count[x], s, u) ELSE count[x]

LEMMA MoreShifts ==
  ASSUME NEW r \in RefTable, NEW c \in Contexts, NEW o \in Objects, NEW n \in Int,
         r[c][o] + n >= 0
  PROVE  Shifted(r, More(r, c, o, n), c, o, n)
  <1> DEFINE row == [r[c] EXCEPT ![o] = r[c][o] + n]
  <1>1. r \in [Contexts -> [Objects -> Nat]] /\ r[c][o] + n \in Nat
    BY DEF RefTable
  <1>2. row \in [Objects -> Nat] /\ \A p \in Objects : row[p] = IF p = o THEN r[c][o] + n ELSE r[c][p]
    BY <1>1
  <1> HIDE DEF row
  <1>3. [r EXCEPT ![c] = row] \in RefTable
    BY <1>1, <1>2 DEF RefTable
  <1>4. \A d \in Contexts : [r EXCEPT ![c] = row][d] = IF d = c THEN row ELSE r[d]
    BY <1>1
  <1>5. More(r, c, o, n) = [r EXCEPT ![c] = row]
    BY DEF More, row
  <1> QED BY <1>1, <1>2, <1>3, <1>4, <1>5 DEF Shifted, RefTable

LEMMA CountMoves ==
  ASSUME TypeOK, NEW b \in Cells, NEW s \in Int, NEW u \in Int,
         count[b].strong + s \in 0 .. MaxStrong, count[b].unowned + u \in 0 .. MaxUnowned,
         count' = [count EXCEPT ![b] = Plus(@, s, u)]
  PROVE  count' \in [Cells -> CountType] /\ Moved(b, s, u)
  <1>1. count \in [Cells -> CountType]
    BY DEF TypeOK
  <1> PICK r : r = Plus(count[b], s, u)
    OBVIOUS
  <1>2. r \in CountType
    BY <1>1, PlusType
  <1>3. count' = [count EXCEPT ![b] = r]
    OBVIOUS
  <1> QED BY <1>1, <1>2, <1>3 DEF Moved

LEMMA CountStepObjects ==
  ASSUME TypeOK, ObjectsGood, NEW c \in Contexts, NEW o \in Instances, Whole(o),
         NEW s \in Int, NEW u \in Int,
         UNCHANGED <<memory, table, owner, dying>>,
         Shifted(held, held', c, o, s), Shifted(unowned, unowned', c, o, u),
         Moved(Bits(o), s, u),
         s > 0 => ~Counts(o).deiniting,
         Counts(o).unowned + u > 0, Counts(o).deiniting \/ Counts(o).strong + s > 0
  PROVE  ObjectsGood'
  <1>1. \A p \in Objects : Bits(p)' = Bits(p)
    BY DEF Bits
  <1>2. \A p : Dying(p)' <=> Dying(p)
    BY DEF Dying
  <1>3. \A x \in Cells : count'[x].deiniting = count[x].deiniting
    <2> TAKE x \in Cells
    <2>1. Plus(count[x], s, u).deiniting = count[x].deiniting
      BY DEF Plus
    <2> QED BY <2>1 DEF Moved
  <1>4. \A p \in Objects : Bits(p) \in Cells
    BY CellFacts DEF Bits, TypeOK
  <1>5. \A p \in Objects : Counts(p)'.deiniting = Counts(p).deiniting
    BY <1>1, <1>3, <1>4 DEF Counts
  <1>6. /\ Counts(o)'.strong = Counts(o).strong + s
        /\ Counts(o)'.unowned = Counts(o).unowned + u
    <2>1. Counts(o)' = Plus(Counts(o), s, u)
      BY <1>1, <1>4 DEF Moved, Counts, Instances
    <2> QED BY <2>1 DEF Plus
  <1>7. \A p \in Instances : p # o => Counts(p)' = Counts(p)
    <2>1. \A p \in Instances : p # o => Bits(p) # Bits(o)
      BY BitsApart DEF ObjectsGood
    <2> QED BY <1>1, <1>4, <2>1 DEF Moved, Counts, Instances
  <1>8. o \in Objects /\ o \in memory /\ held \in RefTable /\ unowned \in RefTable
    BY DEF Instances, TypeOK, RefTable
  <1>9. RefsGood'
    <2> SUFFICES ASSUME NEW d \in Contexts, NEW p \in Objects
                 PROVE  /\ held'[d][p] > 0 => p \in memory' /\ ~Counts(p)'.deiniting
                        /\ unowned'[d][p] > 0 => p \in memory'
      BY DEF RefsGood
    <2>1. CASE p # o \/ d # c
      <3>1. held'[d][p] = held[d][p] /\ unowned'[d][p] = unowned[d][p]
        BY <2>1 DEF Shifted
      <3> QED BY <1>5, <3>1 DEF ObjectsGood, RefsGood
    <2>2. CASE p = o /\ d = c
      <3>1. held'[d][p] = held[d][p] + s /\ held[d][p] \in Nat
        BY <1>8, <2>2 DEF Shifted, RefTable
      <3>2. held'[d][p] > 0 => ~Counts(p).deiniting
        BY <1>8, <2>2, <3>1 DEF ObjectsGood, RefsGood
      <3> QED BY <1>5, <1>8, <2>2, <3>2
    <2> QED BY <2>1, <2>2
  <1>10. StacksGood'
    <2> SUFFICES ASSUME NEW d \in Contexts, NEW p \in Objects, NEW i \in Stack(d),
                        dying[d][i].object = p
                 PROVE  EntryGood(d, i, p)'
      BY DEF StacksGood, Stack
    <2>1. EntryGood(d, i, p)
      BY DEF ObjectsGood, StacksGood
    <2>2. CASE dying[d][i].at = "partial"
      <3>1. p \in Instances /\ p # o
        BY <2>1, <2>2 DEF EntryGood, Instances, Whole
      <3>2. table[p] = Nil /\ count[p] = Fresh /\ held[d][p] = 1
        BY <2>1, <2>2 DEF EntryGood
      <3>3. count'[p] = Fresh
        BY <1>7, <3>1, <3>2 DEF Counts, Bits
      <3>4. held'[d][p] = 1
        BY <3>1, <3>2 DEF Shifted
      <3> QED BY <2>1, <2>2, <3>2, <3>3, <3>4 DEF EntryGood, Stack
    <2>3. CASE dying[d][i].at # "partial"
      BY <1>5, <2>1, <2>3 DEF EntryGood, Stack
    <2> QED BY <2>2, <2>3
  <1>11. TablesGood'
    <2>1. \A t \in Tables : count'[t].deiniting = count[t].deiniting
      BY <1>3, CellFacts
    <2> QED BY <2>1 DEF ObjectsGood, TablesGood, Instances
  <1>12. CountsGood'
    <2> SUFFICES ASSUME NEW p \in Instances PROVE CountGood(p)'
      BY DEF CountsGood, Instances
    <2>1. CountGood(p) /\ p \in Objects
      BY DEF ObjectsGood, CountsGood, Instances
    <2>2. Own(p)' = Own(p) /\ Own(p) \in Int
      BY <1>2, <1>5, <2>1 DEF Own
    <2>3. Total(held, p) \in Nat /\ Total(unowned, p) \in Nat
      BY <1>8, <2>1, TotalBounds
    <2>4. CASE p = o
      <3>1. Total(held', p) = Total(held, p) + s /\ Total(unowned', p) = Total(unowned, p) + u
        BY <1>8, <2>4, TotalShifts
      <3>2. Total(held, p)' = Total(held', p) /\ Total(unowned, p)' = Total(unowned', p)
        BY DEF Total
      <3>3. Counts(p)'.deiniting \/ Counts(p)'.strong > 0
        BY <1>5, <1>6, <2>1, <2>4
      <3> QED BY <1>6, <2>1, <2>2, <2>3, <2>4, <3>1, <3>2, <3>3 DEF CountGood
    <2>5. CASE p # o
      <3>1. Total(held', p) = Total(held, p) /\ Total(unowned', p) = Total(unowned, p)
        BY <1>8, <2>1, <2>5, TotalShifts
      <3>2. Total(held, p)' = Total(held', p) /\ Total(unowned, p)' = Total(unowned', p)
        BY DEF Total
      <3> QED BY <1>7, <2>1, <2>2, <2>5, <3>1, <3>2 DEF CountGood
    <2> QED BY <2>4, <2>5
  <1> QED BY <1>9, <1>10, <1>11, <1>12 DEF ObjectsGood

(* Context c ends its call, or was between calls, and the others go on.    *)
CallEnds(c) ==
  /\ call' \in [Contexts -> RuntimeCall \cup {Nil}]
  /\ call'[c] = Nil
  /\ \A d \in Contexts : d # c => call'[d] = call[d]

LEMMA EndedCall ==
  ASSUME TypeOK, CallsGood, NEW c \in Contexts, CallEnds(c)
  PROVE  CallGood(c)' /\ Apart(c)
  <1>1. Pending(call'[c]) = Nil /\ ~At(c, "table")'
    BY DEF CallEnds, Pending, At
  <1>2. Apart(c)
    BY <1>1, ApartKept DEF CallsGood
  <1>3. CallGood(c)'
    BY <1>1 DEF CallGood
  <1> QED BY <1>2, <1>3

LEMMA UnchangedCall ==
  ASSUME TypeOK, NEW c \in Contexts,
         (call' = call /\ call[c] = Nil) \/ call' = [call EXCEPT ![c] = Nil]
  PROVE  CallEnds(c)
  BY DEF TypeOK, CallEnds

(* A call, or its last step, counts s strong and u unowned references.     *)
CountAction(c, o, s, u) ==
  /\ Whole(o) /\ CallEnds(c) /\ ~At(c, "drop")
  /\ UNCHANGED <<memory, table, weak, owner, weakVar, dying, halted>>
  /\ Shifted(held, held', c, o, s) /\ Shifted(unowned, unowned', c, o, u)
  /\ count' = [count EXCEPT ![Bits(o)] = Plus(@, s, u)]
  /\ Counts(o).strong + s \in 0 .. MaxStrong
  /\ Counts(o).unowned + u \in 1 .. MaxUnowned
  /\ s > 0 => ~Counts(o).deiniting
  /\ Counts(o).deiniting \/ Counts(o).strong + s > 0
  /\ \A d \in Contexts : d # c /\ At(d, "table") => call[d].object # o

LEMMA CountActionKeeps ==
  ASSUME IInv, NEW c \in Contexts, NEW o \in Instances, NEW s \in Int, NEW u \in Int,
         CountAction(c, o, s, u)
  PROVE  IInv'
  <1> USE DEF CountAction
  <1>1. TypeOK /\ ObjectsGood /\ WeakGood /\ CallsGood /\ RefsGood /\ StacksGood /\ TablesGood
    BY DEF IInv, ObjectsGood, CallsGood
  <1>2. Bits(o) \in Cells /\ Counts(o) = count[Bits(o)] /\ (Bits(o) = o \/ Bits(o) \in Tables)
    BY <1>1, BitsApart DEF Counts
  <1>3. Counts(o).unowned + u > 0 /\ Counts(o).unowned + u \in 0 .. MaxUnowned
    OBVIOUS
  <1>4. count' \in [Cells -> CountType] /\ Moved(Bits(o), s, u)
    BY <1>1, <1>2, <1>3, CountMoves
  <1>5. ObjectsGood'
    BY <1>1, <1>3, <1>4, CountStepObjects
  <1>6. TypeOK'
    BY <1>1, <1>4 DEF TypeOK, CallEnds, Shifted, RefTable
  <1>7. WeakGood'
    BY <1>1, WeakKept DEF InObjects, Instances, CallEnds, At
  <1>8. \A d \in Contexts : d # c => Keeps(d)
    <2> SUFFICES ASSUME NEW d \in Contexts, d # c PROVE Keeps(d)
      OBVIOUS
    <2>1. call'[d] = call[d]
      BY DEF CallEnds
    <2>2. \A p \in Objects : held'[d][p] = held[d][p] /\ unowned'[d][p] = unowned[d][p]
      BY DEF Shifted
    <2>3. At(d, "table") => count'[call[d].object] = count[call[d].object]
      <3> SUFFICES ASSUME At(d, "table") PROVE count'[call[d].object] = count[call[d].object]
        OBVIOUS
      <3>1. call[d].object \in Objects
        BY <1>1, CallFields DEF At, TypeOK
      <3> QED BY <1>2, <1>4, <3>1, CellFacts DEF Moved
    <2> QED BY <2>1, <2>2, <2>3 DEF Keeps, Holds
  <1>9. CallsGood'
    BY <1>1, <1>8, EndedCall, CallsKept
  <1> QED
    BY <1>5, <1>6, <1>7, <1>9 DEF IInv, ObjectsGood, CallsGood

LEMMA HandOverKeeps ==
  ASSUME IInv, NEW c \in Contexts, NEW d \in Contexts, NEW o \in Objects, HandOver(c, d, o)
  PROVE  IInv'
  <1>1. TypeOK /\ ObjectsGood /\ WeakGood /\ CallsGood /\ RefsGood /\ StacksGood
    BY DEF IInv, ObjectsGood, CallsGood
  <1>2. /\ Runs(c) /\ c # d /\ held[c][o] > 0
        /\ UNCHANGED <<memory, table, count, weak, owner, weakVar, unowned, call, dying, halted>>
        /\ held' = More(More(held, c, o, -1), d, o, 1)
    BY DEF HandOver, heap
  <1>3. held \in RefTable
    BY <1>1 DEF TypeOK, RefTable
  <1>4. Whole(o) /\ CallEnds(c) /\ o \in memory /\ ~Counts(o).deiniting
    <2>1. Ready(c) /\ MayUnown(c, o)
      BY <1>2 DEF Runs, Ready, MayUnown, Reachable
    <2>2. Whole(o)
      BY <1>1, <2>1, ReferredWhole
    <2>3. CallEnds(c)
      BY <1>1, <1>2, UnchangedCall DEF Runs
    <2> QED BY <1>1, <1>2, <2>2, <2>3 DEF RefsGood
  <1> PICK r : r = More(held, c, o, -1)
    OBVIOUS
  <1>5. Shifted(held, r, c, o, -1)
    BY <1>2, <1>3, MoreShifts DEF RefTable
  <1>6. Shifted(r, held', d, o, 1)
    <2>1. r \in RefTable
      BY <1>5 DEF Shifted
    <2>2. r[d][o] + 1 >= 0
      BY <2>1 DEF RefTable
    <2> QED BY <1>2, <2>1, <2>2, MoreShifts
  <1>7. \A e \in Contexts, p \in Objects :
          held'[e][p] = IF p # o THEN held[e][p]
                        ELSE IF e = c THEN held[e][p] - 1
                        ELSE IF e = d THEN held[e][p] + 1 ELSE held[e][p]
    <2>1. \A e \in Contexts, p \in Objects : held[e][p] \in Nat
      BY <1>3 DEF RefTable
    <2> QED BY <1>2, <1>5, <1>6, <2>1 DEF Shifted
  <1>8. held' \in RefTable /\ \A p \in Objects : Total(held', p) = Total(held, p)
    <2>1. Total(held', o) = Total(r, o) + 1 /\ Total(r, o) = Total(held, o) + (-1)
      BY <1>5, <1>6, TotalShifts
    <2>2. \A p \in Objects : p # o => Total(held', p) = Total(held, p)
      BY <1>5, <1>6, TotalShifts
    <2>3. Total(held, o) \in Nat
      BY <1>3, TotalBounds
    <2> QED BY <1>6, <2>1, <2>2, <2>3 DEF Shifted
  <1>9. \A p : Counts(p)' = Counts(p) /\ (Dying(p)' <=> Dying(p)) /\ (Total(held, p)' = Total(held', p))
    BY <1>2 DEF Counts, Bits, Dying, Total
  <1>10. TypeOK'
    BY <1>1, <1>2, <1>8 DEF TypeOK, RefTable
  <1>11. RefsGood'
    <2>1. \A e \in Contexts, p \in Objects : held'[e][p] > 0 => p = o \/ held[e][p] > 0
      BY <1>7
    <2> QED BY <1>1, <1>2, <1>4, <1>9, <2>1 DEF RefsGood
  <1>12. StacksGood'
    <2> SUFFICES ASSUME NEW e \in Contexts, NEW p \in Objects, NEW i \in Stack(e),
                        dying[e][i].object = p
                 PROVE  EntryGood(e, i, p)'
      BY <1>2 DEF StacksGood, Stack
    <2>1. EntryGood(e, i, p)
      BY <1>1 DEF StacksGood
    <2>2. dying[e][i].at = "partial" => held'[e][p] = held[e][p]
      BY <1>4, <1>7 DEF Whole
    <2> QED BY <1>2, <1>9, <2>1, <2>2 DEF EntryGood, Stack
  <1>13. TablesGood'
    BY <1>1, <1>2 DEF ObjectsGood, TablesGood, Instances
  <1>14. CountsGood'
    <2>1. \A p \in Instances : p \in Objects /\ CountGood(p)
      BY <1>1 DEF ObjectsGood, CountsGood, Instances
    <2>2. \A p : Own(p)' = Own(p) /\ Total(unowned, p)' = Total(unowned, p)
      BY <1>2, <1>9 DEF Own, Total
    <2>3. \A p \in Instances : CountGood(p)'
      BY <1>8, <1>9, <2>1, <2>2 DEF CountGood
    <2> QED BY <1>2, <2>3 DEF CountsGood, Instances
  <1>15. WeakGood'
    BY <1>1, <1>2, WeakKept DEF InObjects, Instances
  <1>16. \A e \in Contexts : e # c => Keeps(e)
    BY <1>2, <1>3, <1>7 DEF Keeps, Holds, RefTable
  <1>17. CallsGood'
    BY <1>1, <1>4, <1>16, EndedCall, CallsKept
  <1> QED
    BY <1>10, <1>11, <1>12, <1>13, <1>14, <1>15, <1>17 DEF IInv, CallsGood

LEMMA NoShift ==
  ASSUME NEW r \in RefTable, NEW c \in Contexts, NEW o \in Objects
  PROVE  Shifted(r, r, c, o, 0)
  <1>1. \A d \in Contexts, p \in Objects : r[d][p] \in Nat
    BY DEF RefTable
  <1> QED BY <1>1 DEF Shifted

LEMMA Parts ==
  ASSUME IInv
  PROVE  /\ TypeOK /\ ObjectsGood /\ WeakGood /\ CallsGood
         /\ RefsGood /\ StacksGood /\ TablesGood /\ CountsGood
         /\ held \in RefTable /\ unowned \in RefTable
         /\ \A c \in Contexts, o \in Objects : held[c][o] \in Nat /\ unowned[c][o] \in Nat
         /\ \A d \in Contexts : At(d, "table") => /\ call[d].object \in Instances
                                                  /\ table[call[d].object] = Nil
  <1>1. /\ TypeOK /\ ObjectsGood /\ WeakGood /\ CallsGood
        /\ RefsGood /\ StacksGood /\ TablesGood /\ CountsGood
    BY DEF IInv, ObjectsGood, CallsGood
  <1>2. held \in RefTable /\ unowned \in RefTable
    BY <1>1 DEF TypeOK, RefTable
  <1>3. ASSUME NEW d \in Contexts, At(d, "table")
        PROVE  call[d].object \in Instances /\ table[call[d].object] = Nil
    <2> PICK k \in RuntimeCall : k = call[d] /\ k.op = "table"
      BY <1>1, <1>3 DEF At, TypeOK
    <2>1. Pending(call[d]) = k /\ k # Nil /\ k.object \in Objects
      BY PendingFacts, CallFields
    <2>2. TableCallGood(d, k)
      BY <1>1, <2>1 DEF CallsGood, CallGood
    <2>3. MayUnown(d, k.object) /\ table[k.object] = Nil
      BY <2>2 DEF TableCallGood, MayUnown
    <2> QED BY <1>1, <2>1, <2>3, ReachableLives
  <1> QED BY <1>1, <1>2, <1>3 DEF RefTable

(* The code that runs in a context refers to o.                            *)
LEMMA Running ==
  ASSUME IInv, NEW c \in Contexts, NEW o \in Objects, Runs(c), MayUnown(c, o)
  PROVE  /\ o \in Instances /\ Whole(o) /\ CountGood(o) /\ Counts(o) \in CountType
         /\ call[c] = Nil /\ ~At(c, "drop") /\ ~At(c, "table")
         /\ call' = call => CallEnds(c)
         /\ Restricted /\ Undisturbed(c, o) =>
              \A d \in Contexts : d # c /\ At(d, "table") => call[d].object # o
  <1>1. o \in Instances /\ Whole(o)
    <2>1. Ready(c)
      BY DEF Runs, Ready
    <2> QED BY <2>1, Parts, ReachableLives, ReferredWhole
  <1>2. CountGood(o) /\ Counts(o) \in CountType
    BY <1>1, Parts, BitsApart DEF CountsGood
  <1>3. call[c] = Nil /\ ~At(c, "drop") /\ ~At(c, "table")
    BY DEF Runs, At
  <1>4. call' = call => CallEnds(c)
    BY <1>3, Parts, UnchangedCall
  <1>5. Restricted /\ Undisturbed(c, o) =>
          \A d \in Contexts : d # c /\ At(d, "table") => call[d].object # o
    BY DEF Restricted, Undisturbed
  <1> QED BY <1>1, <1>2, <1>3, <1>4, <1>5

LEMMA RetainKeeps ==
  ASSUME IInv, Restricted, NEW c \in Contexts, NEW o \in Objects, NEW n \in 1 .. MaxN,
         Retain(c, o, n)
  PROVE  IInv'
  <1>1. /\ Runs(c) /\ MayUnown(c, o) /\ held[c][o] > 0 /\ Undisturbed(c, o)
        /\ Counts(o).strong + n <= MaxStrong
        /\ count' = [count EXCEPT ![Bits(o)] = Plus(@, n, 0)]
        /\ held' = More(held, c, o, n)
        /\ UNCHANGED <<memory, table, weak, owner, weakVar, unowned, call, dying, halted>>
    BY DEF Retain, AddStrong, Gain, MayUnown, Reachable
  <1>2. n \in Int /\ n > 0 /\ MaxStrong \in Nat
    BY CountsAssumption
  <1>3. Shifted(held, held', c, o, n) /\ Shifted(unowned, unowned', c, o, 0)
    BY <1>1, <1>2, Parts, MoreShifts, NoShift
  <1>4. /\ Counts(o).strong + n \in 0 .. MaxStrong
        /\ Counts(o).unowned + 0 \in 1 .. MaxUnowned
        /\ Counts(o).strong + n > 0
    BY <1>1, <1>2, Running DEF CountType, CountGood
  <1>5. ~Counts(o).deiniting
    BY <1>1, Parts DEF RefsGood
  <1>9. o \in Instances /\ CountAction(c, o, n, 0)
    BY <1>1, <1>2, <1>3, <1>4, <1>5, Running DEF CountAction
  <1> QED BY <1>1, <1>2, <1>9, CountActionKeeps

LEMMA ReleaseSome ==
  ASSUME IInv, Restricted, NEW c \in Contexts, NEW o \in Objects, NEW n \in 1 .. MaxN,
         Release(c, o, n), Counts(o).strong > n
  PROVE  IInv'
  <1>1. n \in Int /\ n > 0 /\ -n \in Int /\ MaxStrong \in Nat /\ MaxUnowned \in Nat
    BY CountsAssumption
  <1>2. /\ Runs(c) /\ MayUnown(c, o) /\ held[c][o] >= n /\ Undisturbed(c, o)
        /\ count' = [count EXCEPT ![Bits(o)] = Plus(@, -n, 0)]
        /\ held' = More(held, c, o, -n)
        /\ UNCHANGED <<memory, table, weak, owner, weakVar, unowned, call, dying, halted>>
    BY <1>1, Parts DEF Release, AddStrong, Gain, MayUnown, Reachable
  <1>3. Shifted(held, held', c, o, -n) /\ Shifted(unowned, unowned', c, o, 0)
    BY <1>1, <1>2, Parts, MoreShifts, NoShift
  <1>4. /\ Counts(o).strong + (-n) \in 0 .. MaxStrong
        /\ Counts(o).unowned + 0 \in 1 .. MaxUnowned
        /\ Counts(o).strong + (-n) > 0
    BY <1>1, <1>2, Running DEF CountType, CountGood
  <1>5. ~(-n > 0)
    BY <1>1
  <1> PICK s \in Int : s = -n
    BY <1>1
  <1>9. o \in Instances /\ CountAction(c, o, s, 0)
    BY <1>1, <1>2, <1>3, <1>4, <1>5, Running DEF CountAction
  <1> QED BY <1>9, CountActionKeeps

LEMMA UnownedRetainKeeps ==
  ASSUME IInv, Restricted, NEW c \in Contexts, NEW o \in Objects, NEW n \in 1 .. MaxN,
         UnownedRetain(c, o, n)
  PROVE  IInv'
  <1>1. /\ Runs(c) /\ MayUnown(c, o) /\ Undisturbed(c, o)
        /\ Counts(o).unowned + n <= IF table[o] = Nil THEN MaxInlineUnowned ELSE MaxUnowned
        /\ count' = [count EXCEPT ![Bits(o)] = Plus(@, 0, n)]
        /\ unowned' = More(unowned, c, o, n)
        /\ UNCHANGED <<memory, table, weak, owner, weakVar, held, call, dying, halted>>
    BY DEF UnownedRetain, AddUnowned, GainUnowned
  <1>2. n \in Int /\ n > 0 /\ MaxUnowned \in Nat /\ MaxInlineUnowned \in Nat /\ MaxInlineUnowned <= MaxUnowned
    BY CountsAssumption
  <1>3. Shifted(held, held', c, o, 0) /\ Shifted(unowned, unowned', c, o, n)
    BY <1>1, <1>2, Parts, MoreShifts, NoShift
  <1>4. /\ Counts(o).strong + 0 \in 0 .. MaxStrong
        /\ Counts(o).unowned + n \in 1 .. MaxUnowned
        /\ Counts(o).deiniting \/ Counts(o).strong + 0 > 0
    BY <1>1, <1>2, Running DEF CountType, CountGood
  <1>9. o \in Instances /\ CountAction(c, o, 0, n)
    BY <1>1, <1>2, <1>3, <1>4, Running DEF CountAction
  <1> QED BY <1>1, <1>2, <1>9, CountActionKeeps

LEMMA UnownedReleaseSome ==
  ASSUME IInv, Restricted, NEW c \in Contexts, NEW o \in Objects, NEW n \in 1 .. MaxN,
         UnownedRelease(c, o, n), Counts(o).unowned > n
  PROVE  IInv'
  <1>1. n \in Int /\ n > 0 /\ -n \in Int /\ MaxStrong \in Nat /\ MaxUnowned \in Nat
    BY CountsAssumption
  <1>2. /\ Runs(c) /\ MayUnown(c, o) /\ unowned[c][o] >= n /\ Undisturbed(c, o)
        /\ count' = [count EXCEPT ![Bits(o)] = Plus(@, 0, -n)]
        /\ unowned' = More(unowned, c, o, -n)
        /\ UNCHANGED <<memory, table, weak, owner, weakVar, held, call, dying, halted>>
    BY <1>1, Parts DEF UnownedRelease, DecrementUnowned, AddUnowned, GainUnowned, MayUnown
  <1>3. Shifted(held, held', c, o, 0) /\ Shifted(unowned, unowned', c, o, -n)
    BY <1>1, <1>2, Parts, MoreShifts, NoShift
  <1>4. /\ Counts(o).strong + 0 \in 0 .. MaxStrong
        /\ Counts(o).unowned + (-n) \in 1 .. MaxUnowned
        /\ Counts(o).deiniting \/ Counts(o).strong + 0 > 0
    BY <1>1, <1>2, Running DEF CountType, CountGood
  <1> PICK s \in Int : s = -n
    BY <1>1
  <1>9. o \in Instances /\ CountAction(c, o, 0, s)
    BY <1>1, <1>2, <1>3, <1>4, Running DEF CountAction
  <1> QED BY <1>9, CountActionKeeps

LEMMA UnownedRetainStrongKeeps ==
  ASSUME IInv, Restricted, NEW c \in Contexts, NEW o \in Objects, UnownedRetainStrong(c, o)
  PROVE  IInv'
  <1>1. MaxStrong \in Nat /\ MaxUnowned \in Nat
    BY CountsAssumption
  <1>2. /\ Runs(c) /\ MayUnown(c, o) /\ unowned[c][o] > 0 /\ Undisturbed(c, o)
        /\ ~Counts(o).deiniting /\ Counts(o).strong < MaxStrong
        /\ count' = [count EXCEPT ![Bits(o)] = Plus(@, 1, 0)]
        /\ held' = More(held, c, o, 1)
        /\ UNCHANGED <<memory, table, weak, owner, weakVar, unowned, call, dying, halted>>
    BY DEF UnownedRetainStrong, AddStrong, Gain, MayUnown
  <1>3. Shifted(held, held', c, o, 1) /\ Shifted(unowned, unowned', c, o, 0)
    BY <1>1, <1>2, Parts, MoreShifts, NoShift
  <1>4. /\ Counts(o).strong + 1 \in 0 .. MaxStrong
        /\ Counts(o).unowned + 0 \in 1 .. MaxUnowned
        /\ Counts(o).strong + 1 > 0
    BY <1>1, <1>2, Running DEF CountType, CountGood
  <1>9. o \in Instances /\ CountAction(c, o, 1, 0)
    BY <1>1, <1>2, <1>3, <1>4, Running DEF CountAction
  <1> QED BY <1>9, CountActionKeeps

-----------------------------------------------------------------------------
(***************************************************************************)
(* Steps that only begin or end a call.                                    *)
(***************************************************************************)
CallOnly(c) ==
  /\ UNCHANGED <<memory, table, count, weak, owner, weakVar, held, unowned, dying>>
  /\ halted' \in BOOLEAN
  /\ call' \in [Contexts -> RuntimeCall \cup {Nil}]
  /\ \A d \in Contexts : d # c => call'[d] = call[d]
  /\ call'[c] = call[c] \/ (~At(c, "drop") /\ ~At(c, "drop")')
  /\ CallGood(c)' /\ Apart(c)

LEMMA CallOnlyKeeps ==
  ASSUME IInv, NEW c \in Contexts, CallOnly(c)
  PROVE  IInv'
  <1> USE DEF CallOnly
  <1>1. TypeOK'
    BY Parts DEF TypeOK
  <1>2. ObjectsGood'
    <2>1. \A o \in Instances : table[o] # Nil => table[o] \in memory'
      BY Parts DEF TablesGood
    <2> QED BY <2>1, Parts, ObjectsKept DEF Instances
  <1>3. WeakGood'
    BY Parts, WeakKept DEF InObjects, Instances
  <1>4. \A d \in Contexts : d # c => Keeps(d)
    BY DEF Keeps, Holds
  <1>5. CallsGood'
    BY <1>4, Parts, CallsKept
  <1> QED
    BY <1>1, <1>2, <1>3, <1>5 DEF IInv, ObjectsGood, CallsGood

LEMMA AbortKeeps ==
  ASSUME IInv, NEW c \in Contexts, Abort
  PROVE  IInv'
  <1>1. UNCHANGED <<memory, table, count, weak, owner, weakVar, held, unowned, call, dying>> /\ halted' = TRUE
    BY DEF Abort, heap
  <1>2. Holds(c) /\ Pending(call'[c]) = Pending(call[c])
    BY <1>1 DEF Holds
  <1>3. CallGood(c)'
    BY <1>2, Parts, CallKept DEF CallsGood
  <1>4. Apart(c)
    BY <1>1, Parts, ApartKept DEF CallsGood
  <1>5. CallOnly(c)
    BY <1>1, <1>3, <1>4, Parts DEF CallOnly, TypeOK
  <1> QED BY <1>5, CallOnlyKeeps

LEMMA EndKeeps ==
  ASSUME IInv, NEW c \in Contexts, CallEnds(c), ~At(c, "drop"),
         UNCHANGED <<memory, table, count, weak, owner, weakVar, held, unowned, dying, halted>>
  PROVE  IInv'
  <1>1. CallGood(c)' /\ Apart(c) /\ ~At(c, "drop")'
    BY Parts, EndedCall DEF CallEnds, At
  <1>2. CallOnly(c)
    BY <1>1, Parts DEF CallOnly, CallEnds, TypeOK
  <1> QED BY <1>2, CallOnlyKeeps

(* The object of a side table that a call is about to use.                 *)
Behind(t, o) ==
  /\ o = owner[t] /\ o \in Instances /\ table[o] = t /\ Bits(o) = t
  /\ t \in memory /\ Whole(o) /\ CountGood(o) /\ Counts(o) = count[t] /\ count[t] \in CountType
  /\ \A d \in Contexts : At(d, "table") => call[d].object # o

LEMMA TableBehind ==
  ASSUME IInv, NEW t \in Tables, NEW o \in Instances, table[o] = t
  PROVE  Behind(t, o)
  <1>1. owner[t] = o /\ t \in memory
    BY Parts, CellFacts DEF TablesGood
  <1>2. Bits(o) = t /\ Counts(o) = count[t] /\ count[t] \in CountType /\ CountGood(o)
    BY Parts, CellFacts, BitsApart DEF Counts, CountsGood
  <1>3. Whole(o)
    BY Parts, CellFacts DEF Whole, StacksGood, EntryGood, Instances
  <1>4. \A d \in Contexts : At(d, "table") => call[d].object # o
    BY Parts, CellFacts
  <1> QED BY <1>1, <1>2, <1>3, <1>4 DEF Behind

LEMMA AliveBehind ==
  ASSUME IInv, NEW t \in Tables, t \in memory, Alive(t)
  PROVE  \E o \in Instances : Behind(t, o)
  <1>1. owner[t] \in Instances /\ table[owner[t]] = t
    BY Parts DEF TablesGood, Alive
  <1> PICK o \in Instances : o = owner[t] /\ table[o] = t
    BY <1>1
  <1> QED BY TableBehind

LEMMA AttachedBehind ==
  ASSUME IInv, NEW c \in Contexts, NEW t \in Tables, Attached(t), MayUnown(c, owner[t])
  PROVE  \E o \in Instances : Behind(t, o) /\ MayUnown(c, o)
  <1> PICK o \in Objects : o = owner[t] /\ table[o] = t
    BY DEF Attached
  <1>1. o \in Instances
    BY Parts, ReachableLives
  <1> QED BY <1>1, TableBehind

(* The call of c while it is between two steps.                            *)
LEMMA InCall ==
  ASSUME IInv, NEW c \in Contexts, NEW op, In(c, op)
  PROVE  /\ call[c] \in RuntimeCall /\ call[c].op = op /\ ~halted
         /\ op # "drop" => /\ Pending(call[c]) = call[c] /\ Ready(c) /\ ~At(c, "drop")
                           /\ TableCallGood(c, call[c]) /\ UnownCallGood(c, call[c])
                           /\ FormCallGood(c, call[c]) /\ LoadCallGood(c, call[c])
                           /\ TransferCallGood(c, call[c])
  <1>1. call[c] \in RuntimeCall /\ call[c].op = op /\ call[c] # Nil /\ ~halted
    BY Parts DEF In, At, TypeOK
  <1>2. op # "drop" => Pending(call[c]) = call[c] /\ ~At(c, "drop")
    BY <1>1, PendingFacts DEF At
  <1>3. CallGood(c)
    BY Parts DEF CallsGood
  <1> QED BY <1>1, <1>2, <1>3 DEF CallGood, Ready

LEMMA TryRetainKeeps ==
  ASSUME IInv, NEW c \in Contexts, TryRetain(c)
  PROVE  IInv'
  <1> PICK k \in RuntimeCall : k = call[c]
    BY InCall DEF TryRetain
  <1>1. /\ k.op = "load" /\ k.side \in Tables /\ k.src \in Vars \cup {Nil} /\ LoadCallGood(c, k)
        /\ ~At(c, "drop")
    BY InCall, CallFields DEF TryRetain
  <1> PICK t \in Tables : t = k.side
    BY <1>1
  <1>2. /\ IF Alive(t) THEN /\ count[t].strong < MaxStrong
                            /\ count' = [count EXCEPT ![t] = Plus(@, 1, 0)]
                            /\ held' = More(held, c, owner[t], 1)
           ELSE UNCHANGED <<count, held>>
        /\ call' = [call EXCEPT ![c] = Nil]
        /\ UNCHANGED <<memory, table, weak, owner, weakVar, unowned, dying, halted>>
    BY DEF TryRetain, SetCall, AddStrong, Gain
  <1>3. CallEnds(c)
    BY <1>2, Parts, UnchangedCall
  <1>4. CASE ~Alive(t)
    BY <1>1, <1>2, <1>3, <1>4, EndKeeps
  <1>5. CASE Alive(t)
    <2>1. t \in memory
      <3>1. CASE k.src = Nil
        <4>1. Attached(t) /\ MayUnown(c, owner[t])
          BY <1>1, <3>1 DEF LoadCallGood, MayUnown, Reachable
        <4> QED BY <4>1, AttachedBehind DEF Behind
      <3>2. CASE k.src # Nil
        <4>1. weakVar[k.src] = t /\ k.src \in Vars
          BY <1>1, <3>2 DEF LoadCallGood
        <4> QED BY <4>1, Parts, CellFacts DEF WeakGood
      <3> QED BY <3>1, <3>2
    <2> PICK o \in Instances : Behind(t, o)
      BY <1>5, <2>1, AliveBehind
    <2>2. o \in Objects /\ MaxStrong \in Nat /\ MaxUnowned \in Nat
      BY CountsAssumption DEF Instances
    <2>3. Shifted(held, held', c, o, 1) /\ Shifted(unowned, unowned', c, o, 0)
      BY <1>2, <1>5, <2>2, Parts, MoreShifts, NoShift DEF Behind
    <2>4. /\ Counts(o).strong + 1 \in 0 .. MaxStrong
          /\ Counts(o).unowned + 0 \in 1 .. MaxUnowned
          /\ Counts(o).strong + 1 > 0
      BY <1>2, <1>5, <2>2 DEF Behind, CountGood, CountType
    <2>5. CountAction(c, o, 1, 0)
      BY <1>1, <1>2, <1>3, <1>5, <2>3, <2>4 DEF CountAction, Behind, Alive
    <2> QED BY <2>5, CountActionKeeps
  <1> QED BY <1>4, <1>5

LEMMA IncrementUnownedKeeps ==
  ASSUME IInv, NEW c \in Contexts, IncrementUnowned(c)
  PROVE  IInv'
  <1> PICK k \in RuntimeCall : k = call[c]
    BY InCall DEF IncrementUnowned
  <1>1. k.op = "unown" /\ k.side \in Tables /\ k.n \in 1 .. MaxN /\ UnownCallGood(c, k) /\ ~At(c, "drop")
    BY InCall, CallFields DEF IncrementUnowned
  <1> PICK t \in Tables, n \in Int : t = k.side /\ n = k.n /\ n > 0
    BY <1>1, CountsAssumption
  <1> PICK o \in Instances : Behind(t, o)
    BY <1>1, AttachedBehind DEF UnownCallGood
  <1>2. CASE count[t].unowned + n > MaxUnowned
    BY <1>2, AbortKeeps DEF IncrementUnowned
  <1>3. CASE ~(count[t].unowned + n > MaxUnowned)
    <2>1. /\ count' = [count EXCEPT ![t] = Plus(@, 0, n)]
          /\ unowned' = More(unowned, c, owner[t], n)
          /\ call' = [call EXCEPT ![c] = Nil]
          /\ UNCHANGED <<memory, table, weak, owner, weakVar, held, dying, halted>>
      BY <1>3 DEF IncrementUnowned, SetCall, AddUnowned, GainUnowned
    <2>2. CallEnds(c)
      BY <2>1, Parts, UnchangedCall
    <2>3. o \in Objects /\ MaxStrong \in Nat /\ MaxUnowned \in Nat
      BY CountsAssumption DEF Instances
    <2>4. Shifted(held, held', c, o, 0) /\ Shifted(unowned, unowned', c, o, n)
      BY <2>1, <2>3, Parts, MoreShifts, NoShift DEF Behind
    <2>5. /\ Counts(o).strong + 0 \in 0 .. MaxStrong
          /\ Counts(o).unowned + n \in 1 .. MaxUnowned
          /\ Counts(o).deiniting \/ Counts(o).strong + 0 > 0
      BY <1>3, <2>3 DEF Behind, CountGood, CountType
    <2>6. CountAction(c, o, 0, n)
      BY <1>1, <2>1, <2>2, <2>4, <2>5 DEF CountAction, Behind
    <2> QED BY <2>6, CountActionKeeps
  <1> QED BY <1>2, <1>3

(* The call k of context c can begin.                                      *)
GoodCall(c, k) ==
  /\ TableCallGood(c, k) /\ UnownCallGood(c, k) /\ FormCallGood(c, k)
  /\ LoadCallGood(c, k) /\ TransferCallGood(c, k)
Separate(c, k) ==
  \A d \in Contexts : d # c =>
    /\ Writes(k) \cap Writes(Pending(call[d])) = {}
    /\ Writes(k) \cap Reads(Pending(call[d])) = {}
    /\ Reads(k) \cap Writes(Pending(call[d])) = {}
    /\ k.op = "table" /\ At(d, "table") => k.object # call[d].object

LEMMA CallBegins ==
  ASSUME IInv, NEW c \in Contexts, Runs(c), NEW k \in RuntimeCall, k.op # "drop",
         SetCall(c, k), GoodCall(c, k), Separate(c, k),
         UNCHANGED <<heap, weakVar, held, unowned, dying, halted>>
  PROVE  IInv'
  <1>1. UNCHANGED <<memory, table, count, weak, owner, weakVar, held, unowned, dying, halted>>
    BY DEF heap
  <1>2. call[c] = Nil /\ Ready(c) /\ ~At(c, "drop")
    BY DEF Runs, Ready, At
  <1>3. /\ call' \in [Contexts -> RuntimeCall \cup {Nil}] /\ call'[c] = k
        /\ \A d \in Contexts : d # c => call'[d] = call[d]
    BY Parts DEF SetCall, TypeOK
  <1>4. Pending(call'[c]) = k /\ ~At(c, "drop")' /\ (At(c, "table")' => k.op = "table")
    BY <1>3, PendingFacts DEF At
  <1>5. Ready(c)'
    BY <1>1, <1>2 DEF Ready, Top
  <1>6. GoodCall(c, k)'
    BY <1>1 DEF GoodCall, TableCallGood, UnownCallGood, FormCallGood, LoadCallGood,
                TransferCallGood, Attached, MayUnown, Reachable, InDeinit, Top
  <1>7. CallGood(c)'
    BY <1>4, <1>5, <1>6 DEF CallGood, GoodCall, Ready
  <1>8. Apart(c)
    BY <1>3, <1>4 DEF Apart, Separate
  <1>9. CallOnly(c)
    BY <1>1, <1>2, <1>3, <1>4, <1>7, <1>8, Parts DEF CallOnly, TypeOK
  <1> QED BY <1>9, CallOnlyKeeps

LEMMA UnownedRetainSlowKeeps ==
  ASSUME IInv, Restricted, NEW c \in Contexts, NEW o \in Objects, NEW n \in 1 .. MaxN,
         UnownedRetainSlow(c, o, n)
  PROVE  IInv'
  <1>1. /\ Runs(c) /\ MayUnown(c, o) /\ Undisturbed(c, o) /\ table[o] = Nil
        /\ UNCHANGED <<heap, weakVar, held, unowned, dying, halted>>
    BY DEF UnownedRetainSlow
  <1>2. n \in 0 .. MaxN /\ n > 0 /\ count[o] \in CountType
    BY <1>1, Running, CountsAssumption DEF Counts, Bits
  <1>3. [op |-> "table", object |-> o, old |-> count[o], dest |-> Nil, n |-> n] \in TableCall
    BY <1>2 DEF TableCall
  <1> PICK k \in RuntimeCall :
        k = [op |-> "table", object |-> o, old |-> count[o], dest |-> Nil, n |-> n]
    BY <1>3 DEF RuntimeCall
  <1>4. k.op = "table" /\ k.object = o /\ k.old = count[o] /\ k.dest = Nil /\ k.n = n /\ k # Nil
    BY CallFields
  <1>5. SetCall(c, k)
    BY DEF UnownedRetainSlow
  <1>6. GoodCall(c, k)
    BY <1>1, <1>2, <1>4 DEF GoodCall, TableCallGood, UnownCallGood, FormCallGood,
                            LoadCallGood, TransferCallGood, MayUnown
  <1>7. Separate(c, k)
    <2>1. Writes(k) = {} /\ Reads(k) = {}
      BY <1>4, CellFacts DEF Writes, Reads
    <2>2. \A d \in Contexts : d # c /\ At(d, "table") => call[d].object # o
      BY <1>1, Running
    <2> QED BY <1>4, <2>1, <2>2 DEF Separate
  <1> QED BY <1>1, <1>4, <1>5, <1>6, <1>7, CallBegins

LEMMA WeakAssignKeeps ==
  ASSUME IInv, Restricted, NEW c \in Contexts, NEW v \in Vars, NEW o \in Objects,
         WeakAssign(c, v, o)
  PROVE  IInv'
  <1>1. /\ Runs(c) /\ Reachable(c, o) /\ MayUnown(c, o) /\ MayWrite(c, v) /\ Undisturbed(c, o)
        /\ UNCHANGED <<heap, weakVar, held, unowned, dying, halted>>
    BY DEF WeakAssign, MayUnown
  <1>2. \A d \in Contexts : d # c /\ At(d, "table") => call[d].object # o
    BY <1>1, Running
  <1>3. v # Nil /\ table[o] \in Tables \cup {Nil}
    BY Parts, CellFacts DEF TypeOK
  <1>4. \A d \in Contexts : d # c => v \notin Writes(Pending(call[d])) /\ v \notin Reads(Pending(call[d]))
    BY <1>1 DEF MayWrite, MayRead
  <1>5. ASSUME NEW t \in Tables \cup {Nil}, SetCall(c, Form(v, t)), t # Nil => t = table[o]
        PROVE  IInv'
    <2>1. Form(v, t) \in FormCall
      BY DEF FormCall, Form
    <2> PICK k \in RuntimeCall : k = Form(v, t)
      BY <2>1 DEF RuntimeCall
    <2>2. k.op = "form" /\ k.dest = v /\ k.side = t /\ k # Nil
      BY CallFields DEF Form
    <2>3. GoodCall(c, k)
      <3>1. t # Nil => Attached(t) /\ owner[t] = o
        BY <1>1, <1>5, Running, TableBehind DEF Behind, Attached
      <3> QED BY <1>1, <2>2, <3>1 DEF GoodCall, TableCallGood, UnownCallGood, FormCallGood,
                            LoadCallGood, TransferCallGood
    <2>4. Writes(k) = {v} /\ Reads(k) = {}
      BY <2>2 DEF Writes, Reads
    <2>5. Separate(c, k)
      BY <1>4, <2>2, <2>4 DEF Separate
    <2>6. SetCall(c, k)
      BY <1>5
    <2> QED BY <1>1, <2>2, <2>3, <2>5, <2>6, CallBegins
  <1>6. ASSUME table[o] = Nil,
               SetCall(c, [op |-> "table", object |-> o, old |-> count[o], dest |-> v, n |-> 0])
        PROVE  IInv'
    <2>1. 0 \in 0 .. MaxN /\ count[o] \in CountType
      BY <1>1, <1>6, Running, CountsAssumption DEF Counts, Bits
    <2>2. [op |-> "table", object |-> o, old |-> count[o], dest |-> v, n |-> 0] \in TableCall
      BY <2>1 DEF TableCall
    <2> PICK k \in RuntimeCall :
          k = [op |-> "table", object |-> o, old |-> count[o], dest |-> v, n |-> 0]
      BY <2>2 DEF RuntimeCall
    <2>3. k.op = "table" /\ k.object = o /\ k.old = count[o] /\ k.dest = v /\ k # Nil
      BY CallFields
    <2>4. GoodCall(c, k)
      BY <1>1, <1>3, <1>6, <2>3 DEF GoodCall, TableCallGood, UnownCallGood, FormCallGood,
                              LoadCallGood, TransferCallGood
    <2>5. Writes(k) = {v} /\ Reads(k) = {}
      BY <2>3 DEF Writes, Reads
    <2>6. Separate(c, k)
      BY <1>2, <1>4, <2>3, <2>5 DEF Separate
    <2>7. SetCall(c, k)
      BY <1>6
    <2> QED BY <1>1, <2>3, <2>4, <2>6, <2>7, CallBegins
  <1>7. CASE table[o] # Nil
    BY <1>3, <1>5, <1>7 DEF WeakAssign
  <1>8. CASE table[o] = Nil /\ count[o].deiniting
    BY <1>5, <1>8 DEF WeakAssign
  <1>9. CASE table[o] = Nil /\ ~count[o].deiniting
    BY <1>6, <1>9 DEF WeakAssign
  <1> QED BY <1>7, <1>8, <1>9

LEMMA WeakLoadStrongKeeps ==
  ASSUME IInv, NEW c \in Contexts, NEW v \in Vars, WeakLoadStrong(c, v)
  PROVE  IInv'
  <1>1. /\ Runs(c) /\ MayRead(c, v) /\ weakVar[v] # Nil
        /\ SetCall(c, [op |-> "load", side |-> weakVar[v], src |-> v])
        /\ UNCHANGED <<heap, weakVar, held, unowned, dying, halted>>
    BY DEF WeakLoadStrong
  <1>2. weakVar[v] \in Tables /\ v # Nil
    BY <1>1, Parts, CellFacts DEF TypeOK
  <1>3. [op |-> "load", side |-> weakVar[v], src |-> v] \in LoadCall
    BY <1>2 DEF LoadCall
  <1> PICK k \in RuntimeCall : k = [op |-> "load", side |-> weakVar[v], src |-> v]
    BY <1>3 DEF RuntimeCall
  <1>4. k.op = "load" /\ k.side = weakVar[v] /\ k.src = v /\ k # Nil
    BY CallFields
  <1>5. GoodCall(c, k)
    BY <1>1, <1>2, <1>4 DEF GoodCall, TableCallGood, UnownCallGood, FormCallGood,
                            LoadCallGood, TransferCallGood, MayRead
  <1>6. Writes(k) = {} /\ Reads(k) = {v}
    BY <1>4 DEF Writes, Reads
  <1>7. Separate(c, k)
    BY <1>1, <1>4, <1>6 DEF Separate, MayRead
  <1> QED BY <1>1, <1>4, <1>5, <1>7, CallBegins

-----------------------------------------------------------------------------
(***************************************************************************)
(* Steps that create and destroy objects.                                  *)
(***************************************************************************)
Frame == [object : Objects, at : Stages]

LEMMA StackTypes ==
  ASSUME TypeOK, NEW c \in Contexts
  PROVE  /\ dying \in [Contexts -> Seq(Frame)] /\ dying[c] \in Seq(Frame)
         /\ Len(dying[c]) \in Nat
         /\ dying[c] # << >> => Outer(c) \in Seq(Frame) /\ Len(Outer(c)) = Len(dying[c]) - 1
                                /\ Len(dying[c]) > 0
                                /\ \A i \in 1 .. (Len(dying[c]) - 1) : Outer(c)[i] = dying[c][i]
  <1>1. dying \in [Contexts -> Seq(Frame)]
    BY DEF TypeOK, Frame
  <1>2. PICK s \in Seq(Frame) : s = dying[c]
    BY <1>1
  <1>3. s # << >> => /\ SubSeq(s, 1, Len(s) - 1) \in Seq(Frame)
                     /\ Len(SubSeq(s, 1, Len(s) - 1)) = Len(s) - 1 /\ Len(s) > 0
                     /\ \A i \in 1 .. (Len(s) - 1) : SubSeq(s, 1, Len(s) - 1)[i] = s[i]
    <2> SUFFICES ASSUME s # << >>
                 PROVE  /\ SubSeq(s, 1, Len(s) - 1) \in Seq(Frame)
                        /\ Len(SubSeq(s, 1, Len(s) - 1)) = Len(s) - 1 /\ Len(s) > 0
                        /\ \A i \in 1 .. (Len(s) - 1) : SubSeq(s, 1, Len(s) - 1)[i] = s[i]
      OBVIOUS
    <2> HIDE DEF Frame
    <2>1. Len(s) \in Nat /\ Len(s) > 0 /\ \A i \in 1 .. (Len(s) - 1) : s[i] \in Frame
      OBVIOUS
    <2> PICK n \in Int : n = Len(s) - 1 /\ n >= 0
      BY <2>1, SMTT(60)
    <2>2. \A i \in 1 .. n : s[i] \in Frame
      BY <2>1
    <2>3. /\ SubSeq(s, 1, n) \in Seq(Frame)
          /\ Len(SubSeq(s, 1, n)) = IF 1 <= n THEN n - 1 + 1 ELSE 0
          /\ \A i \in 1 .. (n - 1 + 1) : SubSeq(s, 1, n)[i] = s[1 + i - 1]
      BY <2>2, SubSeqProperties
    <2>4. Len(SubSeq(s, 1, n)) = n
      BY <2>3
    <2>5. \A i \in 1 .. n : SubSeq(s, 1, n)[i] = s[i]
      BY <2>3
    <2> QED BY <2>1, <2>3, <2>4, <2>5
  <1> QED BY <1>1, <1>2, <1>3 DEF Outer

(* The stack of c changes; the others do not.                              *)
OthersStacks(c) ==
  /\ dying' \in [Contexts -> Seq(Frame)]
  /\ \A d \in Contexts : d # c => dying'[d] = dying[d]
Pushed(c, o, at) ==
  /\ OthersStacks(c)
  /\ Len(dying'[c]) = Len(dying[c]) + 1
  /\ \A i \in Stack(c) : dying'[c][i] = dying[c][i]
  /\ dying'[c][Len(dying[c]) + 1].object = o /\ dying'[c][Len(dying[c]) + 1].at = at
Popped(c) ==
  /\ OthersStacks(c)
  /\ Len(dying[c]) > 0 /\ Len(dying'[c]) = Len(dying[c]) - 1
  /\ \A i \in 1 .. (Len(dying[c]) - 1) : dying'[c][i] = dying[c][i]
Replaced(c, o, at) ==
  /\ OthersStacks(c)
  /\ Len(dying[c]) > 0 /\ Len(dying'[c]) = Len(dying[c])
  /\ \A i \in 1 .. (Len(dying[c]) - 1) : dying'[c][i] = dying[c][i]
  /\ dying'[c][Len(dying[c])].object = o /\ dying'[c][Len(dying[c])].at = at

LEMMA StackMoves ==
  ASSUME TypeOK, NEW c \in Contexts, NEW o \in Objects,
         NEW at \in {"deinit", "fields", "partial", "free", "release"}
  PROVE  /\ Push(c, o, at) => Pushed(c, o, at)
         /\ dying[c] # << >> /\ dying' = [dying EXCEPT ![c] = Outer(c)] => Popped(c)
         /\ dying[c] # << >> /\ dying' = [dying EXCEPT ![c] = Append(Outer(c), [object |-> o, at |-> at])]
              => Replaced(c, o, at)
  <1> PICK f \in Frame : f = [object |-> o, at |-> at]
    BY DEF Frame, Stages
  <1>1. f.object = o /\ f.at = at
    OBVIOUS
  <1>2. dying \in [Contexts -> Seq(Frame)] /\ dying[c] \in Seq(Frame)
    BY StackTypes
  <1>3. ASSUME Push(c, o, at) PROVE Pushed(c, o, at)
    <2>1. dying' = [dying EXCEPT ![c] = Append(dying[c], f)]
      BY <1>3 DEF Push
    <2>2. /\ Append(dying[c], f) \in Seq(Frame) /\ Len(Append(dying[c], f)) = Len(dying[c]) + 1
          /\ \A i \in Stack(c) : Append(dying[c], f)[i] = dying[c][i]
          /\ Append(dying[c], f)[Len(dying[c]) + 1] = f
      BY <1>2 DEF Stack
    <2> QED BY <1>1, <1>2, <2>1, <2>2 DEF Pushed, OthersStacks
  <1>4. ASSUME dying[c] # << >>, dying' = [dying EXCEPT ![c] = Outer(c)] PROVE Popped(c)
    BY <1>2, <1>4, StackTypes DEF Popped, OthersStacks
  <1>5. ASSUME dying[c] # << >>,
               dying' = [dying EXCEPT ![c] = Append(Outer(c), [object |-> o, at |-> at])]
        PROVE  Replaced(c, o, at)
    <2> PICK s \in Seq(Frame) : s = Outer(c)
      BY <1>5, StackTypes
    <2>1. dying' = [dying EXCEPT ![c] = Append(s, f)]
      BY <1>5
    <2>2. /\ Append(s, f) \in Seq(Frame) /\ Len(Append(s, f)) = Len(s) + 1
          /\ \A i \in 1 .. Len(s) : Append(s, f)[i] = s[i]
          /\ Append(s, f)[Len(s) + 1] = f
      OBVIOUS
    <2>3. /\ Len(dying[c]) \in Nat /\ Len(dying[c]) > 0 /\ Len(s) = Len(dying[c]) - 1
          /\ \A i \in 1 .. (Len(dying[c]) - 1) : s[i] = dying[c][i]
      BY <1>5, StackTypes
    <2>4. dying'[c] = Append(s, f) /\ \A d \in Contexts : d # c => dying'[d] = dying[d]
      BY <1>2, <2>1
    <2>5. dying' \in [Contexts -> Seq(Frame)]
      BY <1>2, <2>1, <2>2
    <2> HIDE DEF Frame
    <2> QED BY <1>1, <2>2, <2>3, <2>4, <2>5 DEF Replaced, OthersStacks
  <1> QED BY <1>3, <1>4, <1>5

LEMMA DyingFacts ==
  ASSUME TypeOK, NEW o
  PROVE  Dying(o) <=> \E d \in Contexts : \E i \in Stack(d) : dying[d][i].object = o
  <1>1. \A d \in Contexts : DOMAIN dying[d] = Stack(d)
    BY StackTypes DEF Stack
  <1> QED BY <1>1 DEF Dying

LEMMA Undying ==
  ASSUME IInv, NEW o \in Objects, Whole(o), ~Counts(o).deiniting
  PROVE  ~Dying(o)
  BY Parts, DyingFacts DEF Whole, StacksGood, EntryGood

(* A destroyer of o begins in c: what becomes of the references to o.      *)
Enters(c, o, at) ==
  /\ Ready(c) /\ ~Dying(o) /\ Pushed(c, o, at)
  /\ CallEnds(c) /\ ~At(c, "drop")
  /\ UNCHANGED <<memory, table, weak, owner, weakVar, unowned, halted>>
  /\ count' \in [Cells -> CountType] /\ held' \in RefTable
  /\ \A x \in Cells : x # Bits(o) => count'[x] = count[x]
  /\ \A d \in Contexts, p \in Objects : d # c \/ p # o => held'[d][p] = held[d][p]
  /\ \A p \in Objects : p # o => Total(held', p) = Total(held, p)
  /\ held'[c][o] > 0 => ~Counts(o)'.deiniting
  /\ held[c][o] > 0 /\ \A d \in Contexts : d # c => held[d][o] = 0
  /\ Counts(o)'.strong = Total(held', o)
  /\ Counts(o)'.unowned = Counts(o).unowned
  /\ at = "deinit" => Counts(o)'.deiniting
  /\ at = "partial" => table[o] = Nil /\ count'[o] = Fresh /\ held'[c][o] = 1
  /\ \A d \in Contexts : d # c /\ At(d, "table") => call[d].object # o

LEMMA PushedStack ==
  ASSUME TypeOK, NEW c \in Contexts, NEW o \in Objects, NEW at, Pushed(c, o, at)
  PROVE  /\ \A d \in Contexts : d # c => Stack(d)' = Stack(d) /\ dying'[d] = dying[d]
         /\ \A i : i \in Stack(c)' <=> i \in Stack(c) \/ i = Len(dying[c]) + 1
         /\ Len(dying[c]) + 1 \notin Stack(c)
         /\ \A p : Dying(p)' <=> Dying(p) \/ p = o
         /\ dying'[c] # << >>
  <1>1. Len(dying[c]) \in Nat /\ Len(dying'[c]) = Len(dying[c]) + 1
    BY StackTypes DEF Pushed
  <1>2. \A d \in Contexts : d # c => Stack(d)' = Stack(d) /\ dying'[d] = dying[d]
    BY DEF Stack, Pushed, OthersStacks
  <1>3. /\ \A i : i \in Stack(c)' <=> i \in Stack(c) \/ i = Len(dying[c]) + 1
        /\ Len(dying[c]) + 1 \notin Stack(c)
    BY <1>1 DEF Stack
  <1>4. \A d \in Contexts : DOMAIN dying'[d] = Stack(d)'
    <2> TAKE d \in Contexts
    <2>1. dying'[d] \in Seq(Frame)
      BY DEF Pushed, OthersStacks
    <2> HIDE DEF Frame
    <2> QED BY <2>1 DEF Stack
  <1>5. \A p : Dying(p)' <=> Dying(p) \/ p = o
    <2> TAKE p
    <2>1. Dying(p) <=> \E d \in Contexts : \E i \in Stack(d) : dying[d][i].object = p
      BY DyingFacts
    <2>2. Dying(p)' <=> \E d \in Contexts : \E i \in Stack(d)' : dying'[d][i].object = p
      BY <1>4 DEF Dying
    <2>3. \A i \in Stack(c) : dying'[c][i] = dying[c][i]
      BY DEF Pushed
    <2>4. dying'[c][Len(dying[c]) + 1].object = o
      BY DEF Pushed
    <2> QED BY <1>2, <1>3, <2>1, <2>2, <2>3, <2>4
  <1>6. dying'[c] # << >>
    BY <1>1
  <1> QED BY <1>2, <1>3, <1>5, <1>6

LEMMA EntersKeeps ==
  ASSUME IInv, NEW c \in Contexts, NEW o \in Instances, NEW at \in {"deinit", "partial"},
         Enters(c, o, at)
  PROVE  IInv'
  <1> USE DEF Enters
  <1>1. o \in Objects /\ o \in memory
    BY DEF Instances
  <1>2. \A p : Bits(p)' = Bits(p)
    BY DEF Bits
  <1>3. \A p \in Instances : p # o => Counts(p)' = Counts(p)
    BY <1>2, Parts, BitsApart DEF Counts
  <1>4. \A p \in Objects : held[c][p] > 0 \/ unowned[c][p] > 0 => p \in Instances
    BY Parts DEF RefsGood, Instances
  <1>5. TypeOK'
    BY Parts DEF TypeOK, CallEnds, Pushed, OthersStacks, Frame, RefTable
  <1>6. RefsGood'
    <2> SUFFICES ASSUME NEW d \in Contexts, NEW p \in Objects
                 PROVE  /\ held'[d][p] > 0 => p \in memory /\ ~Counts(p)'.deiniting
                        /\ unowned[d][p] > 0 => p \in memory
      BY DEF RefsGood
    <2>1. unowned[d][p] > 0 => p \in memory
      BY Parts DEF RefsGood
    <2>2. CASE p # o
      BY <1>3, <2>1, <2>2, Parts DEF RefsGood, Instances
    <2>3. CASE p = o
      <3>1. d # c => held'[d][o] = 0
        BY <1>1
      <3> QED BY <1>1, <2>1, <2>3, <3>1
    <2> QED BY <2>2, <2>3
  <1>7. StacksGood'
    <2> SUFFICES ASSUME NEW d \in Contexts, NEW p \in Objects, NEW i \in Stack(d)',
                        dying'[d][i].object = p
                 PROVE  EntryGood(d, i, p)'
      BY DEF StacksGood
    <2>1. CASE d # c \/ i \in Stack(c)
      <3>1. i \in Stack(d) /\ dying'[d][i] = dying[d][i]
        BY <1>1, <2>1, PushedStack, Parts DEF Pushed
      <3>2. EntryGood(d, i, p) /\ p # o
        BY <3>1, Parts, DyingFacts DEF StacksGood
      <3>3. p \in Instances
        BY <3>2 DEF EntryGood, Instances
      <3>4. i < Len(dying'[d]) => dying'[d][i].at = "deinit"
        <4>1. CASE i < Len(dying[d])
          BY <3>1, <3>2, <4>1 DEF EntryGood
        <4>2. CASE ~(i < Len(dying[d])) /\ d # c
          BY <1>1, <4>2, PushedStack, Parts
        <4>3. CASE ~(i < Len(dying[d])) /\ d = c
          <5>1. i = Len(dying[c]) /\ Len(dying[c]) > 0
            BY <3>1, <4>3, StackTypes, Parts DEF Stack
          <5>2. dying[c] # << >> /\ Top(c) = dying[c][i]
            BY <5>1 DEF Top
          <5> QED BY <3>1, <4>3, <5>2 DEF Ready
        <4> QED BY <4>1, <4>2, <4>3
      <3>5. dying'[d][i].at = "partial" => table[p] = Nil /\ count'[p] = Fresh /\ held'[d][p] = 1
        <4> SUFFICES ASSUME dying'[d][i].at = "partial"
                     PROVE  table[p] = Nil /\ count'[p] = Fresh /\ held'[d][p] = 1
          OBVIOUS
        <4>1. table[p] = Nil /\ count[p] = Fresh /\ held[d][p] = 1
          BY <3>1, <3>2 DEF EntryGood
        <4> QED BY <1>3, <3>2, <3>3, <4>1 DEF Counts, Bits
      <3>6. \A e \in Contexts : \A j \in Stack(e)' : dying'[e][j].object = p => e = d /\ j = i
        <4> SUFFICES ASSUME NEW e \in Contexts, NEW j \in Stack(e)', dying'[e][j].object = p
                     PROVE  e = d /\ j = i
          OBVIOUS
        <4>1. j \in Stack(e) /\ dying'[e][j] = dying[e][j]
          BY <1>1, <3>2, PushedStack, Parts DEF Pushed
        <4> QED BY <3>2, <4>1 DEF EntryGood
      <3>7. dying'[d][i].at # "partial" => Counts(p)'.deiniting
        BY <1>3, <3>1, <3>2, <3>3 DEF EntryGood
      <3> QED BY <3>3, <3>4, <3>5, <3>6, <3>7 DEF EntryGood, Instances
    <2>2. CASE d = c /\ i = Len(dying[c]) + 1
      <3>1. dying'[d][i].object = o /\ dying'[d][i].at = at /\ p = o
        BY <2>2 DEF Pushed
      <3>2. \A e \in Contexts : \A j \in Stack(e)' : dying'[e][j].object = p => e = d /\ j = i
        <4> SUFFICES ASSUME NEW e \in Contexts, NEW j \in Stack(e)', dying'[e][j].object = o,
                            e # c \/ j \in Stack(c)
                     PROVE  FALSE
          BY <1>1, <2>2, <3>1, PushedStack, Parts
        <4>1. j \in Stack(e) /\ dying'[e][j] = dying[e][j]
          BY <1>1, PushedStack, Parts DEF Pushed
        <4> QED BY <4>1, Parts, DyingFacts
      <3>3. Len(dying'[c]) = i
        BY <2>2 DEF Pushed
      <3>4. ~(i < Len(dying'[d]))
        BY <2>2, <3>3, StackTypes, Parts
      <3> QED BY <1>1, <2>2, <3>1, <3>2, <3>4 DEF EntryGood
    <2> QED BY <1>1, <2>1, <2>2, PushedStack, Parts
  <1>8. TablesGood'
    <2>1. \A t \in memory \cap Tables : ~count'[t].deiniting => ~count[t].deiniting
      <3> TAKE t \in memory \cap Tables
      <3>1. CASE t # Bits(o)
        BY <3>1, CellFacts
      <3>2. CASE t = Bits(o)
        <4>1. held[c][o] > 0 => ~Counts(o).deiniting
          BY <1>1, Parts DEF RefsGood
        <4> QED BY <3>2, <4>1 DEF Counts
      <3> QED BY <3>1, <3>2
    <2> QED BY <2>1, Parts DEF TablesGood, Instances
  <1>9. CountsGood'
    <2> SUFFICES ASSUME NEW p \in Instances PROVE CountGood(p)'
      BY DEF CountsGood, Instances
    <2>1. CountGood(p) /\ p \in Objects
      BY Parts DEF CountsGood, Instances
    <2>2. Total(held, p)' = Total(held', p) /\ Total(unowned, p)' = Total(unowned, p)
      BY DEF Total
    <2>3. CASE p # o
      <3>1. Dying(p)' <=> Dying(p)
        BY <1>1, <2>3, PushedStack, Parts
      <3> QED BY <1>3, <2>1, <2>2, <2>3, <3>1 DEF CountGood, Own
    <2>4. CASE p = o
      <3>1. Dying(o)'
        BY <1>1, PushedStack, Parts
      <3>2. ~Counts(o).deiniting
        BY <1>1, Parts DEF RefsGood
      <3>3. Own(o)' = 1 /\ Own(o) = 1
        BY <3>1, <3>2 DEF Own
      <3>4. Counts(o)'.deiniting \/ Counts(o)'.strong > 0
        <4>1. CASE at = "deinit"
          BY <4>1
        <4>2. CASE at = "partial"
          <5>1. Counts(o)' = Fresh
            BY <4>2 DEF Counts, Bits
          <5> QED BY <5>1 DEF Fresh
        <4> QED BY <4>1, <4>2
      <3> QED BY <2>1, <2>2, <2>4, <3>3, <3>4 DEF CountGood
    <2> QED BY <2>3, <2>4
  <1>10. WeakGood'
    BY Parts, WeakKept DEF InObjects, Instances, CallEnds, At
  <1>11. \A d \in Contexts : d # c => Keeps(d)
    <2> SUFFICES ASSUME NEW d \in Contexts, d # c PROVE Keeps(d)
      OBVIOUS
    <2>1. At(d, "table") => count'[call[d].object] = count[call[d].object]
      <3> SUFFICES ASSUME At(d, "table") PROVE count'[call[d].object] = count[call[d].object]
        OBVIOUS
      <3> PICK p \in Instances : p = call[d].object /\ table[p] = Nil /\ p # o
        BY Parts
      <3> QED BY <1>3 DEF Counts, Bits
    <2>2. call'[d] = call[d] /\ dying'[d] = dying[d]
      BY DEF CallEnds, Pushed, OthersStacks
    <2> QED BY <2>1, <2>2 DEF Keeps, Holds
  <1>12. CallsGood'
    BY <1>11, Parts, EndedCall, CallsKept
  <1> QED
    BY <1>5, <1>6, <1>7, <1>8, <1>9, <1>10, <1>12 DEF IInv, CallsGood

LEMMA ReleaseLast ==
  ASSUME IInv, Restricted, NEW c \in Contexts, NEW o \in Objects, NEW n \in 1 .. MaxN,
         Release(c, o, n), ~(Counts(o).strong > n)
  PROVE  IInv'
  <1>1. n \in Int /\ n > 0 /\ -n \in Int /\ MaxStrong \in Nat /\ MaxUnowned \in Nat
    BY CountsAssumption
  <1>2. /\ Runs(c) /\ MayUnown(c, o) /\ held[c][o] >= n /\ held[c][o] > 0 /\ Undisturbed(c, o)
        /\ count' = [count EXCEPT ![Bits(o)] =
                       [strong |-> 0, unowned |-> @.unowned, deiniting |-> TRUE]]
        /\ held' = More(held, c, o, -n)
        /\ Push(c, o, "deinit")
        /\ UNCHANGED <<memory, table, weak, owner, weakVar, unowned, call, halted>>
    BY <1>1, Parts DEF Release, SetDeiniting, Gain, MayUnown, Reachable
  <1>3. Shifted(held, held', c, o, -n)
    BY <1>1, <1>2, Parts, MoreShifts
  <1>4. /\ o \in Instances /\ Whole(o) /\ CountGood(o) /\ Counts(o) \in CountType
        /\ CallEnds(c) /\ ~At(c, "drop")
        /\ \A d \in Contexts : d # c /\ At(d, "table") => call[d].object # o
    BY <1>2, Running
  <1>5. ~Counts(o).deiniting /\ ~Dying(o)
    BY <1>2, <1>4, Parts, Undying DEF RefsGood
  <1>6. Total(held, o) = held[c][o] /\ held[c][o] = n
    <2>1. Total(held, o) <= n /\ held[c][o] <= Total(held, o) /\ Total(held, o) \in Nat
      BY <1>4, Parts, TotalBounds DEF CountGood
    <2> QED BY <1>1, <1>2, <2>1, Parts
  <1>7. \A d \in Contexts : d # c => held[d][o] = 0
    BY <1>6, Parts, TotalSole
  <1>8. /\ held' \in RefTable /\ held'[c][o] = 0 /\ Total(held', o) = 0
        /\ \A d \in Contexts, p \in Objects : d # c \/ p # o => held'[d][p] = held[d][p]
        /\ \A p \in Objects : p # o => Total(held', p) = Total(held, p)
    <2>1. Total(held', o) = n + (-n) /\ \A p \in Objects : p # o => Total(held', p) = Total(held, p)
      BY <1>1, <1>3, <1>6, TotalShifts
    <2>2. /\ held' \in RefTable /\ held'[c][o] = n + (-n)
          /\ \A d \in Contexts, p \in Objects : d # c \/ p # o => held'[d][p] = held[d][p]
      BY <1>3, <1>6 DEF Shifted
    <2> QED BY <1>1, <2>1, <2>2
  <1> PICK r : r = [strong |-> 0, unowned |-> Counts(o).unowned, deiniting |-> TRUE]
    OBVIOUS
  <1>9. /\ r \in CountType /\ r.strong = 0 /\ r.unowned = Counts(o).unowned /\ r.deiniting
        /\ Bits(o) \in Cells /\ count \in [Cells -> CountType]
    <2>1. Bits(o) \in Cells /\ count \in [Cells -> CountType]
      BY <1>4, Parts, BitsApart DEF TypeOK
    <2>2. Counts(o).unowned \in 0 .. MaxUnowned /\ 0 \in 0 .. MaxStrong
      BY <1>1, <1>4 DEF CountType
    <2>3. r \in CountType
      BY <2>2 DEF CountType
    <2> QED BY <2>1, <2>3
  <1>10. count' = [count EXCEPT ![Bits(o)] = r]
    BY <1>2 DEF Counts
  <1>11. /\ count' \in [Cells -> CountType] /\ Counts(o)' = r
         /\ \A x \in Cells : x # Bits(o) => count'[x] = count[x]
    <2>1. Bits(o)' = Bits(o)
      BY <1>2 DEF Bits
    <2>2. count' \in [Cells -> CountType] /\ \A x \in Cells : count'[x] = IF x = Bits(o) THEN r ELSE count[x]
      BY <1>9, <1>10
    <2> QED BY <1>9, <2>1, <2>2 DEF Counts
  <1>12. Pushed(c, o, "deinit") /\ Ready(c)
    BY <1>2, Parts, StackMoves DEF Runs, Ready
  <1>13. Enters(c, o, "deinit")
    BY <1>2, <1>4, <1>5, <1>7, <1>8, <1>9, <1>11, <1>12 DEF Enters
  <1> QED BY <1>4, <1>13, EntersKeeps

LEMMA DeallocPartialClassInstanceKeeps ==
  ASSUME IInv, Restricted, NEW c \in Contexts, NEW o \in Objects,
         DeallocPartialClassInstance(c, o)
  PROVE  IInv'
  <1>1. /\ Runs(c) /\ MayUnown(c, o) /\ held[c][o] = 1 /\ table[o] = Nil /\ count[o] = Fresh
        /\ Push(c, o, "partial")
        /\ UNCHANGED <<memory, table, count, weak, owner, weakVar, held, unowned, call, halted>>
    BY DEF DeallocPartialClassInstance, heap, MayUnown, Reachable
  <1>2. /\ o \in Instances /\ Whole(o) /\ CountGood(o) /\ CallEnds(c) /\ ~At(c, "drop")
    BY <1>1, Running
  <1>3. Counts(o) = Fresh /\ Counts(o)' = Fresh
    BY <1>1 DEF Counts, Bits
  <1>4. ~Counts(o).deiniting /\ ~Dying(o)
    BY <1>2, <1>3, Undying DEF Fresh
  <1>5. Total(held, o) = 1
    BY <1>2, <1>3 DEF CountGood, Fresh
  <1>6. \A d \in Contexts : d # c => held[d][o] = 0
    BY <1>1, <1>5, Parts, TotalSole
  <1>7. Pushed(c, o, "partial") /\ Ready(c)
    BY <1>1, Parts, StackMoves DEF Runs, Ready
  <1>8. \A d \in Contexts : At(d, "table") => d = c \/ call[d].object # o
    <2> SUFFICES ASSUME NEW d \in Contexts, d # c, At(d, "table"), call[d].object = o
                 PROVE  FALSE
      OBVIOUS
    <2>1. TableCallGood(d, call[d])
      <3>1. call[d] \in RuntimeCall /\ call[d].op = "table" /\ call[d] # Nil
        BY Parts DEF At, TypeOK
      <3>2. Pending(call[d]) = call[d]
        BY <3>1, PendingFacts
      <3> QED BY <3>1, <3>2, Parts DEF CallsGood, CallGood
    <2>2. MayUnown(d, o)
      BY <2>1 DEF TableCallGood, MayUnown, At
    <2>3. held[d][o] = 0
      BY <1>6
    <2>4. Total(unowned, o) = 0
      BY <1>2, <1>3, <1>4, Parts, TotalBounds DEF CountGood, Own, Fresh
    <2>5. ~(unowned[d][o] > 0)
      BY <2>4, Parts, TotalBounds
    <2>6. InDeinit(d, o)
      BY <2>2, <2>3, <2>5 DEF MayUnown, Reachable
    <2>7. Len(dying[d]) \in Stack(d) /\ dying[d][Len(dying[d])].object = o
      BY <2>6, TopFacts, Parts DEF InDeinit
    <2> QED BY <1>4, <2>7, DyingFacts, Parts
  <1>9. Enters(c, o, "partial")
    <2>1. /\ count' \in [Cells -> CountType] /\ held' \in RefTable
          /\ \A d \in Contexts, p \in Objects : held'[d][p] = held[d][p]
          /\ \A p \in Objects : Total(held', p) = Total(held, p)
      BY <1>1, Parts DEF TypeOK
    <2>2. Counts(o)'.strong = Total(held', o) /\ Counts(o)'.unowned = Counts(o).unowned
      BY <1>1, <1>3, <1>5 DEF Fresh
    <2> QED BY <1>1, <1>2, <1>3, <1>4, <1>6, <1>7, <1>8, <2>1, <2>2 DEF Enters
  <1> QED BY <1>2, <1>9, EntersKeeps

(* A destroyer goes on, past the deinit body.                              *)
LEMMA GoesOnKeeps ==
  ASSUME IInv, NEW c \in Contexts, NEW o \in Objects,
         NEW at \in {"fields", "free", "release"},
         call[c] = Nil, dying[c] # << >>, Top(c).object = o, Top(c).at # "partial",
         GoesOn(c, o, at), UNCHANGED <<heap, weakVar, held, unowned, call, halted>>
  PROVE  IInv'
  <1>1. /\ dying[c] # << >> /\ call[c] = Nil
        /\ dying' = [dying EXCEPT ![c] = Append(Outer(c), [object |-> o, at |-> at])]
        /\ UNCHANGED <<memory, table, count, weak, owner, weakVar, held, unowned, call, halted>>
    BY DEF GoesOn, heap
  <1> PICK m : m = Len(dying[c])
    OBVIOUS
  <1>2. /\ OthersStacks(c) /\ m \in Nat /\ m > 0 /\ Len(dying'[c]) = m
        /\ \A i \in 1 .. (m - 1) : dying'[c][i] = dying[c][i]
        /\ dying'[c][m].object = o /\ dying'[c][m].at = at
    BY <1>1, Parts, StackMoves, StackTypes DEF Replaced
  <1>3. m \in Stack(c) /\ dying[c][m].object = o /\ dying[c][m].at # "partial"
    BY <1>1, Parts, TopFacts
  <1>4. EntryGood(c, m, o)
    BY <1>3, Parts DEF StacksGood
  <1>5. /\ \A d \in Contexts : Stack(d)' = Stack(d)
        /\ \A d \in Contexts : \A i \in Stack(d) : /\ dying'[d][i].object = dying[d][i].object
                                                   /\ d # c \/ i # m => dying'[d][i] = dying[d][i]
    BY <1>2, <1>3, SMTT(60) DEF Stack, OthersStacks
  <1>6. \A p : Dying(p)' <=> Dying(p)
    <2>1. \A d \in Contexts : DOMAIN dying'[d] = Stack(d)'
      <3> TAKE d \in Contexts
      <3>1. dying'[d] \in Seq(Frame)
        BY <1>2 DEF OthersStacks
      <3> HIDE DEF Frame
      <3> QED BY <3>1 DEF Stack
    <2> TAKE p
    <2>2. Dying(p) <=> \E d \in Contexts : \E i \in Stack(d) : dying[d][i].object = p
      BY Parts, DyingFacts
    <2>3. Dying(p)' <=> \E d \in Contexts : \E i \in Stack(d)' : dying'[d][i].object = p
      BY <2>1 DEF Dying
    <2> QED BY <1>5, <2>2, <2>3
  <1>7. \A p : Counts(p)' = Counts(p)
    BY <1>1 DEF Counts, Bits
  <1>8. TypeOK'
    BY <1>1, <1>2, Parts DEF TypeOK, OthersStacks, Frame
  <1>9. RefsGood'
    BY <1>1, <1>7, Parts DEF RefsGood
  <1>10. StacksGood'
    <2> SUFFICES ASSUME NEW d \in Contexts, NEW p \in Objects, NEW i \in Stack(d)',
                        dying'[d][i].object = p
                 PROVE  EntryGood(d, i, p)'
      BY DEF StacksGood
    <2>1. i \in Stack(d) /\ EntryGood(d, i, p)
      BY <1>5, Parts DEF StacksGood
    <2>2. \A e \in Contexts : \A j \in Stack(e)' : dying'[e][j].object = p => e = d /\ j = i
      BY <1>5, <2>1 DEF EntryGood
    <2>3. CASE d # c \/ i # m
      <3>1. dying'[d][i] = dying[d][i] /\ Len(dying'[d]) = Len(dying[d])
        BY <1>2, <1>5, <2>1, <2>3 DEF OthersStacks
      <3> QED BY <1>1, <1>7, <2>1, <2>2, <3>1 DEF EntryGood
    <2>4. CASE d = c /\ i = m
      <3>1. p = o /\ o \in memory /\ Counts(o).deiniting
        BY <1>3, <1>4, <1>5, <2>1, <2>4 DEF EntryGood
      <3>2. /\ p \in memory' /\ ~(i < Len(dying'[d])) /\ Counts(p)'.deiniting
            /\ dying'[d][i].at = at
        BY <1>1, <1>2, <1>7, <2>4, <3>1
      <3> QED BY <2>2, <3>2 DEF EntryGood
    <2> QED BY <2>3, <2>4
  <1>11. TablesGood'
    BY <1>1, Parts DEF TablesGood, Instances
  <1>12. CountsGood'
    <2>1. \A p \in Instances : CountGood(p)
      BY Parts DEF CountsGood
    <2>2. \A p : Own(p)' = Own(p) /\ Total(unowned, p)' = Total(unowned, p) /\ Total(held, p)' = Total(held, p)
      BY <1>1, <1>6, <1>7 DEF Own, Total
    <2> QED BY <1>1, <1>7, <2>1, <2>2 DEF CountsGood, CountGood, Instances
  <1>13. WeakGood'
    BY <1>1, Parts, WeakKept DEF InObjects, Instances
  <1>14. \A d \in Contexts : d # c => Keeps(d)
    BY <1>1, <1>2 DEF Keeps, Holds, OthersStacks
  <1>15. CallsGood'
    BY <1>1, <1>14, Parts, UnchangedCall, EndedCall, CallsKept
  <1> QED
    BY <1>8, <1>9, <1>10, <1>11, <1>12, <1>13, <1>15 DEF IInv, CallsGood

LEMMA EndDeinitKeeps ==
  ASSUME IInv, NEW c \in Contexts, NEW o \in Objects, EndDeinit(c, o)
  PROVE  IInv'
  <1>1. /\ call[c] = Nil /\ dying[c] # << >> /\ Top(c).object = o /\ Top(c).at = "deinit"
        /\ GoesOn(c, o, "fields") /\ UNCHANGED <<heap, weakVar, held, unowned, call, halted>>
    BY DEF EndDeinit, Runs, InDeinit
  <1> QED BY <1>1, GoesOnKeeps

LEMMA DeallocObjectKeeps ==
  ASSUME IInv, NEW c \in Contexts, NEW o \in Objects, DeallocObject(c, o)
  PROVE  IInv'
  <1> PICK at \in {"free", "release"} : at = IF CanBeFreedNow(o) THEN "free" ELSE "release"
    OBVIOUS
  <1>1. /\ call[c] = Nil /\ dying[c] # << >> /\ Top(c).object = o /\ Top(c).at = "fields"
        /\ GoesOn(c, o, at) /\ UNCHANGED <<heap, weakVar, held, unowned, call, halted>>
    BY DEF DeallocObject, TakesApart
  <1> QED BY <1>1, GoesOnKeeps

-----------------------------------------------------------------------------
(***************************************************************************)
(* How many references there are to a side table.                          *)
(***************************************************************************)
LEMMA FiberShift ==
  ASSUME NEW V, IsFiniteSet(V), NEW A \in SUBSET V, NEW B \in SUBSET V, NEW x,
         \A y : y # x => (y \in A <=> y \in B)
  PROVE  /\ Cardinality(A) \in Nat /\ Cardinality(B) \in Nat
         /\ (x \in A <=> x \in B) => A = B
         /\ x \notin A /\ x \in B => Cardinality(B) = Cardinality(A) + 1
         /\ x \in A /\ x \notin B => Cardinality(A) = Cardinality(B) + 1
  <1>1. IsFiniteSet(A) /\ IsFiniteSet(B)
    BY FS_Subset
  <1>2. Cardinality(A) \in Nat /\ Cardinality(B) \in Nat
    BY <1>1, FS_CardinalityType
  <1>3. (x \in A <=> x \in B) => A = B
    OBVIOUS
  <1>4. ASSUME x \notin A, x \in B PROVE Cardinality(B) = Cardinality(A) + 1
    <2>1. B = A \cup {x}
      BY <1>4
    <2> QED BY <1>1, <1>4, <2>1, FS_AddElement
  <1>5. ASSUME x \in A, x \notin B PROVE Cardinality(A) = Cardinality(B) + 1
    <2>1. A = B \cup {x}
      BY <1>5
    <2> QED BY <1>1, <1>5, <2>1, FS_AddElement
  <1> QED BY <1>2, <1>3, <1>4, <1>5

(* The same for two sets that differ in one element at most.               *)
SameBut(V, A, B, x) ==
  A \in SUBSET V /\ B \in SUBSET V /\ IsFiniteSet(V) /\ \A y : y # x => (y \in A <=> y \in B)

LEMMA SameButShift ==
  ASSUME NEW V, NEW A, NEW B, NEW x, SameBut(V, A, B, x)
  PROVE  /\ Cardinality(A) \in Nat /\ Cardinality(B) \in Nat
         /\ (x \in A <=> x \in B) => A = B
         /\ x \notin A /\ x \in B => Cardinality(B) = Cardinality(A) + 1
         /\ x \in A /\ x \notin B => Cardinality(A) = Cardinality(B) + 1
  BY FiberShift DEF SameBut

LEMMA FibersFinite ==
  ASSUME NEW t
  PROVE  /\ InVars(t) \in SUBSET Vars /\ InCalls(t) \in SUBSET Contexts
         /\ InObjects(t) \in SUBSET Objects
         /\ IsFiniteSet(InVars(t)) /\ IsFiniteSet(InCalls(t)) /\ IsFiniteSet(InObjects(t))
         /\ Cardinality(InVars(t)) \in Nat /\ Cardinality(InCalls(t)) \in Nat
         /\ Cardinality(InObjects(t)) \in Nat
         /\ Cardinality(InVars(t)) = 0 => InVars(t) = {}
         /\ Cardinality(InCalls(t)) = 0 => InCalls(t) = {}
         /\ Cardinality(InObjects(t)) = 0 => InObjects(t) = {}
  <1>1. /\ InVars(t) \in SUBSET Vars /\ InCalls(t) \in SUBSET Contexts
        /\ InObjects(t) \in SUBSET Objects
    BY DEF InVars, InCalls, InObjects, Instances
  <1>2. IsFiniteSet(InVars(t)) /\ IsFiniteSet(InCalls(t)) /\ IsFiniteSet(InObjects(t))
    BY <1>1, FS_Subset, CellsAssumption
  <1> QED BY <1>1, <1>2, FS_CardinalityType, FS_EmptySet

LEMMA PrimedFibersFinite ==
  ASSUME NEW t
  PROVE  /\ InVars(t)' \in SUBSET Vars /\ InCalls(t)' \in SUBSET Contexts
         /\ InObjects(t)' \in SUBSET Objects
         /\ Cardinality(InVars(t)') \in Nat /\ Cardinality(InCalls(t)') \in Nat
         /\ Cardinality(InObjects(t)') \in Nat
         /\ Cardinality(InCalls(t)') = 0 => InCalls(t)' = {}
         /\ Cardinality(InObjects(t)') = 0 => InObjects(t)' = {}
  <1>1. /\ InVars(t)' \in SUBSET Vars /\ InCalls(t)' \in SUBSET Contexts
        /\ InObjects(t)' \in SUBSET Objects
    BY DEF InVars, InCalls, InObjects, Instances
  <1>2. IsFiniteSet(InVars(t)') /\ IsFiniteSet(InCalls(t)') /\ IsFiniteSet(InObjects(t)')
    BY <1>1, FS_Subset, CellsAssumption
  <1> QED BY <1>1, <1>2, FS_CardinalityType, FS_EmptySet

(* A call or an object gives up its reference to t.                        *)
LEMMA WeakLess ==
  ASSUME TypeOK, WeakGood, NEW t \in Tables, t \in memory,
         weak' = [weak EXCEPT ![t] = @ - 1], UNCHANGED weakVar,
         memory' \cap Tables = (memory \cap Tables) \ (IF weak[t] = 1 THEN {t} ELSE {}),
         \A u \in Tables : u # t => InCalls(u)' = InCalls(u) /\ InObjects(u)' = InObjects(u),
         Cardinality(InCalls(t)') + Cardinality(InObjects(t)') =
           Cardinality(InCalls(t)) + Cardinality(InObjects(t)) - 1,
         \A d \in Contexts : At(d, "drop")' => At(d, "drop") /\ call'[d] = call[d]
  PROVE  WeakGood'
  <1>1. \A u : InVars(u)' = InVars(u)
    BY DEF InVars
  <1>2. weak[t] = Cardinality(InVars(t)) + Cardinality(InCalls(t)) + Cardinality(InObjects(t))
    BY DEF WeakGood
  <1>3. \A u \in Tables : weak'[u] = IF u = t THEN weak[t] - 1 ELSE weak[u]
    BY DEF TypeOK
  <1>4. weak[t] = 1 => InVars(t) = {} /\ InCalls(t)' = {}
    <2>1. weak[t] = 1 => Cardinality(InVars(t)) = 0 /\ Cardinality(InCalls(t)') = 0
      BY <1>2, FibersFinite, PrimedFibersFinite
    <2> QED BY <2>1, FibersFinite, PrimedFibersFinite
  <1>5. \A v \in Vars : weakVar'[v] \in memory' \cup {Nil}
    <2> TAKE v \in Vars
    <2>1. weakVar[v] \in Tables \cup {Nil} /\ weakVar[v] \in memory \cup {Nil}
      BY DEF TypeOK, WeakGood
    <2>2. weak[t] = 1 => weakVar[v] # t
      BY <1>4 DEF InVars
    <2> QED BY <2>1, <2>2
  <1>6. \A d \in Contexts : At(d, "drop")' => call'[d].side \in memory'
    <2> SUFFICES ASSUME NEW d \in Contexts, At(d, "drop")' PROVE call'[d].side \in memory'
      OBVIOUS
    <2>1. At(d, "drop") /\ call'[d] = call[d] /\ call[d] \in RuntimeCall /\ call[d].op = "drop"
      BY DEF At, TypeOK
    <2>2. call[d].side \in Tables /\ call[d].side \in memory
      BY <2>1, CallFields DEF WeakGood
    <2>3. weak[t] = 1 => call[d].side # t
      BY <1>4, <2>1 DEF InCalls
    <2> QED BY <2>1, <2>2, <2>3
  <1>7. ASSUME NEW u \in Tables, u \in memory'
        PROVE  /\ weak'[u] = Cardinality(InVars(u)') + Cardinality(InCalls(u)') + Cardinality(InObjects(u)')
               /\ weak'[u] > 0
    <2>1. u \in memory \cap Tables /\ (u = t => weak[t] # 1)
      BY <1>7
    <2>2. weak[u] > 0 /\ weak[u] = Cardinality(InVars(u)) + Cardinality(InCalls(u)) + Cardinality(InObjects(u))
      BY <2>1 DEF WeakGood
    <2>3. CASE u # t
      BY <1>1, <1>3, <2>2, <2>3
    <2>4. CASE u = t
      <3>1. weak'[t] = weak[t] - 1 /\ weak[t] > 0 /\ weak[t] # 1 /\ weak[t] \in Nat
        BY <1>3, <2>1, <2>2, <2>4 DEF TypeOK
      <3> QED BY <1>1, <1>2, <2>4, <3>1, FibersFinite, PrimedFibersFinite
    <2> QED BY <2>3, <2>4
  <1> QED
    BY <1>5, <1>6, <1>7 DEF WeakGood

LEMMA DropWeakKeeps ==
  ASSUME IInv, NEW c \in Contexts, DropWeak(c)
  PROVE  IInv'
  <1> PICK k \in RuntimeCall : k = call[c]
    BY InCall DEF DropWeak
  <1>1. k.op = "drop" /\ k # Nil /\ k.side \in Tables /\ k.next \in LoadCall \cup TransferCall \cup {Nil}
    BY InCall, CallFields DEF DropWeak
  <1> PICK t \in Tables : t = k.side
    BY <1>1
  <1> PICK next \in RuntimeCall \cup {Nil} : next = k.next
    BY <1>1 DEF RuntimeCall
  <1>2. /\ weak' = [weak EXCEPT ![t] = @ - 1]
        /\ memory' = memory \ (IF weak[t] = 1 THEN {t} ELSE {})
        /\ call' = [call EXCEPT ![c] = next]
        /\ UNCHANGED <<table, count, owner, weakVar, held, unowned, dying, halted>>
    BY DEF DropWeak, DecrementWeak, SetCall
  <1>3. next = Nil \/ next.op \in {"load", "copy", "take"}
    <2>1. next \in LoadCall => next.op = "load"
      BY DEF LoadCall
    <2>2. next \in TransferCall => next.op \in {"copy", "take"}
      BY DEF TransferCall
    <2> QED BY <1>1, <2>1, <2>2
  <1>4. /\ call' \in [Contexts -> RuntimeCall \cup {Nil}] /\ call'[c] = next
        /\ \A d \in Contexts : d # c => call'[d] = call[d]
    BY <1>2, Parts DEF TypeOK
  <1>5. /\ At(c, "drop") /\ ~At(c, "drop")' /\ ~At(c, "table")'
        /\ Pending(call[c]) = next /\ Pending(call'[c]) = next
    <2>1. Pending(next) = next
      BY <1>3, PendingFacts
    <2> QED BY <1>1, <1>3, <1>4, <2>1 DEF At, Pending
  <1>6. c \in InCalls(t) /\ t \in memory
    BY <1>5, Parts DEF InCalls, WeakGood
  <1>7. weak[t] = Cardinality(InVars(t)) + Cardinality(InCalls(t)) + Cardinality(InObjects(t)) /\ weak[t] > 0
    BY <1>6, Parts DEF WeakGood
  <1>8. Cardinality(InCalls(t)) > 0
    BY <1>6, FibersFinite
  <1>9. weak[t] = 1 => InObjects(t) = {}
    <2>1. weak[t] = 1 => Cardinality(InObjects(t)) = 0
      BY <1>7, <1>8, FibersFinite
    <2> QED BY <2>1, FibersFinite
  <1>10. Instances' = Instances /\ memory' \subseteq memory
    BY <1>2, CellFacts DEF Instances
  <1>11. ObjectsGood'
    <2>1. \A o \in Instances : table[o] # Nil => table[o] \in memory'
      BY <1>2, <1>9, Parts DEF TablesGood, InObjects
    <2> QED BY <1>2, <1>10, <2>1, Parts, ObjectsKept
  <1>12. TypeOK'
    <2>1. weak' \in [Tables -> Nat] /\ memory' \subseteq Cells
      BY <1>2, <1>7, Parts DEF TypeOK
    <2> QED BY <1>2, <1>4, <2>1, Parts DEF TypeOK
  <1>13. WeakGood'
    <2>1. \A u \in Tables : InObjects(u)' = InObjects(u)
      BY <1>2, <1>10 DEF InObjects
    <2>2. \A d \in Contexts, u \in Tables :
            d # c \/ u # t => (d \in InCalls(u)' <=> d \in InCalls(u))
      BY <1>4, <1>5 DEF InCalls, At
    <2>3. \A u \in Tables : u # t => InCalls(u)' = InCalls(u)
      BY <2>2, FibersFinite, PrimedFibersFinite
    <2>4. c \notin InCalls(t)'
      BY <1>5 DEF InCalls
    <2>5. Cardinality(InCalls(t)) = Cardinality(InCalls(t)') + 1
      <3>1. \A y : y # c => (y \in InCalls(t) <=> y \in InCalls(t)')
        BY <2>2, FibersFinite, PrimedFibersFinite
      <3> QED BY <1>6, <2>4, <3>1, FiberShift, FibersFinite, PrimedFibersFinite, CellsAssumption
    <2>6. Cardinality(InCalls(t)') + Cardinality(InObjects(t)') =
            Cardinality(InCalls(t)) + Cardinality(InObjects(t)) - 1
      BY <2>1, <2>5, FibersFinite, PrimedFibersFinite
    <2>7. \A d \in Contexts : At(d, "drop")' => At(d, "drop") /\ call'[d] = call[d]
      BY <1>4, <1>5 DEF At
    <2>8. memory' \cap Tables = (memory \cap Tables) \ (IF weak[t] = 1 THEN {t} ELSE {})
      BY <1>2
    <2> QED BY <1>2, <1>6, <2>1, <2>3, <2>6, <2>7, <2>8, Parts, WeakLess
  <1>14. \A d \in Contexts : Holds(d)
    BY <1>2 DEF Holds
  <1>15. \A d \in Contexts : d # c => Keeps(d)
    BY <1>4, <1>14 DEF Keeps
  <1>16. CallGood(c)'
    BY <1>5, <1>14, Parts, CallKept DEF CallsGood
  <1>17. Apart(c)
    BY <1>5, Parts, ApartKept DEF CallsGood
  <1>18. CallsGood'
    BY <1>15, <1>16, <1>17, Parts, CallsKept
  <1> QED
    BY <1>11, <1>12, <1>13, <1>18 DEF IInv, ObjectsGood, CallsGood

-----------------------------------------------------------------------------
(***************************************************************************)
(* Steps that give memory back.                                            *)
(***************************************************************************)
(* The memory of o goes, and its reference to the side table.              *)
Frees(o) ==
  IF table[o] # Nil THEN DecrementWeak(table[o], memory \ {o})
  ELSE memory' = memory \ {o} /\ UNCHANGED weak

DropsKept ==
  \A d \in Contexts : call'[d] = call[d] \/ (~At(d, "drop") /\ ~At(d, "drop")')

LEMMA FreedMemory ==
  ASSUME IInv, NEW o \in Instances, Frees(o), UNCHANGED <<table, weakVar>>, DropsKept
  PROVE  /\ WeakGood'
         /\ memory' \subseteq memory /\ Instances' = Instances \ {o}
         /\ \A p \in Instances : p # o /\ table[p] # Nil => table[p] \in memory'
         /\ weak' \in [Tables -> Nat]
  <1>1. o \in Objects /\ o \in memory /\ o \notin Tables /\ table[o] \in Tables \cup {Nil}
    BY Parts, CellFacts DEF Instances, TypeOK
  <1>2. \A d \in Contexts : At(d, "drop")' => At(d, "drop") /\ call'[d] = call[d]
    BY DEF DropsKept, At
  <1>3. \A d \in Contexts : At(d, "drop")' <=> At(d, "drop")
    BY DEF DropsKept, At
  <1>4. \A u : InCalls(u)' = InCalls(u)
    BY <1>2, <1>3 DEF InCalls
  <1>5. CASE table[o] = Nil
    <2>1. memory' = memory \ {o} /\ weak' = weak
      BY <1>5 DEF Frees
    <2>2. Instances' = Instances \ {o} /\ memory' \cap Tables = memory \cap Tables
      BY <1>1, <2>1 DEF Instances
    <2>3. \A u \in Tables : InObjects(u)' = InObjects(u)
      BY <1>5, <2>2, CellFacts DEF InObjects
    <2>4. WeakGood'
      BY <2>1, <2>2, <2>3, Parts, WeakKept DEF DropsKept
    <2>5. \A p \in Instances : p # o /\ table[p] # Nil => table[p] \in memory'
      <3> TAKE p \in Instances
      <3>1. p \in Objects /\ table[p] \in Tables \cup {Nil}
        BY Parts DEF Instances, TypeOK
      <3> QED BY <1>1, <2>1, <3>1, Parts, CellFacts DEF TablesGood
    <2> QED BY <2>1, <2>2, <2>4, <2>5, Parts DEF TypeOK
  <1>6. CASE table[o] # Nil
    <2> PICK t \in Tables : t = table[o]
      BY <1>1, <1>6
    <2>1. /\ weak' = [weak EXCEPT ![t] = @ - 1]
          /\ memory' = (memory \ {o}) \ (IF weak[t] = 1 THEN {t} ELSE {})
      BY <1>6 DEF Frees, DecrementWeak
    <2>2. Instances' = Instances \ {o} /\ memory' \subseteq memory
      BY <2>1, CellFacts DEF Instances
    <2>3. t \in memory /\ owner[t] = o
      BY <1>6, Parts DEF TablesGood
    <2>4. \A p \in Instances : p # o => table[p] # t
      BY <1>6, <2>3, Parts DEF TablesGood
    <2>5. \A u \in Tables : u # t => InObjects(u)' = InObjects(u)
      BY <2>2 DEF InObjects
    <2>6. o \in InObjects(t) /\ o \notin InObjects(t)' /\ \A y : y # o => (y \in InObjects(t) <=> y \in InObjects(t)')
      BY <2>2 DEF InObjects
    <2>7. Cardinality(InObjects(t)) = Cardinality(InObjects(t)') + 1
      <3> PICK A \in SUBSET Objects, B \in SUBSET Objects : A = InObjects(t) /\ B = InObjects(t)'
        BY FibersFinite, PrimedFibersFinite
      <3> QED BY <2>6, FiberShift, CellsAssumption
    <2>8. Cardinality(InCalls(t)') + Cardinality(InObjects(t)') =
            Cardinality(InCalls(t)) + Cardinality(InObjects(t)) - 1
      BY <1>4, <2>7, FibersFinite, PrimedFibersFinite
    <2>9. memory' \cap Tables = (memory \cap Tables) \ (IF weak[t] = 1 THEN {t} ELSE {})
      BY <1>1, <2>1
    <2>10. WeakGood'
      BY <1>2, <1>4, <2>1, <2>3, <2>5, <2>8, <2>9, Parts, WeakLess
    <2>11. weak[t] > 0
      BY <2>3, Parts DEF WeakGood
    <2>12. weak' \in [Tables -> Nat]
      BY <2>1, <2>11, Parts DEF TypeOK
    <2>13. \A p \in Instances : p # o /\ table[p] # Nil => table[p] \in memory'
      <3> TAKE p \in Instances
      <3>1. p \in Objects /\ table[p] \in Tables \cup {Nil}
        BY Parts DEF Instances, TypeOK
      <3> QED BY <1>1, <2>1, <2>4, <3>1, Parts, CellFacts DEF TablesGood
    <2> QED BY <2>2, <2>10, <2>12, <2>13
  <1> QED BY <1>5, <1>6

(* No destroyer of o is left, and the other destroyers go on.              *)
StacksWithout(o) ==
  /\ dying' \in [Contexts -> Seq(Frame)]
  /\ \A d \in Contexts : \A i \in Stack(d)' :
       /\ i \in Stack(d) /\ dying'[d][i] = dying[d][i] /\ dying[d][i].object # o
       /\ i < Len(dying'[d]) => i < Len(dying[d])
  /\ \A d \in Contexts : \A i \in Stack(d) : dying[d][i].object # o => i \in Stack(d)'

(* The destruction of o is over: at once, or when the memory goes back.    *)
Removes(c, o) ==
  /\ StacksWithout(o) /\ CallEnds(c)
  /\ \A d \in Contexts : d # c => dying'[d] = dying[d]
  /\ UNCHANGED <<table, owner, weakVar, halted>> /\ weak' \in [Tables -> Nat]
  /\ memory' \subseteq memory
  /\ \A p \in Instances : p # o => p \in memory' /\ (table[p] # Nil => table[p] \in memory')
  /\ o \in memory' => (table[o] # Nil => table[o] \in memory') /\ CountGood(o)'
  /\ o \notin memory' => \A d \in Contexts : unowned'[d][o] = 0
  /\ count' \in [Cells -> CountType] /\ count'[Bits(o)].deiniting
  /\ \A x \in Cells : x # Bits(o) => count'[x] = count[x]
  /\ held' \in RefTable /\ unowned' \in RefTable
  /\ \A d \in Contexts : held'[d][o] = 0
  /\ \A d \in Contexts, p \in Objects : p # o =>
       held'[d][p] = held[d][p] /\ unowned'[d][p] = unowned[d][p]
  /\ \A d \in Contexts : d # c => held'[d][o] = held[d][o] /\ unowned'[d][o] = unowned[d][o]
  /\ \A p \in Objects : p # o =>
       Total(held', p) = Total(held, p) /\ Total(unowned', p) = Total(unowned, p)
  /\ \A d \in Contexts : d # c /\ At(d, "table") => call[d].object # o

LEMMA RemovesKeeps ==
  ASSUME IInv, NEW c \in Contexts, NEW o \in Instances, Removes(c, o), WeakGood'
  PROVE  IInv'
  <1> USE DEF Removes
  <1>1. o \in Objects /\ o \in memory
    BY DEF Instances
  <1>2. \A p : Bits(p)' = Bits(p)
    BY DEF Bits
  <1>3. \A p \in Instances : p # o => Counts(p)' = Counts(p)
    BY <1>2, Parts, BitsApart DEF Counts
  <1>4. Counts(o)'.deiniting
    BY <1>2 DEF Counts
  <1>5. \A p : p \in Instances' => p \in Instances
    BY DEF Instances
  <1>6. \A p : p # o => (Dying(p)' <=> Dying(p))
    <2>1. \A d \in Contexts : DOMAIN dying'[d] = Stack(d)'
      <3> TAKE d \in Contexts
      <3>1. dying'[d] \in Seq(Frame)
        BY DEF StacksWithout
      <3> HIDE DEF Frame
      <3> QED BY <3>1 DEF Stack
    <2> TAKE p
    <2> SUFFICES ASSUME p # o PROVE Dying(p)' <=> Dying(p)
      OBVIOUS
    <2>2. Dying(p) <=> \E d \in Contexts : \E i \in Stack(d) : dying[d][i].object = p
      BY Parts, DyingFacts
    <2>3. Dying(p)' <=> \E d \in Contexts : \E i \in Stack(d)' : dying'[d][i].object = p
      BY <2>1 DEF Dying
    <2>4. /\ \A d \in Contexts : \A i \in Stack(d)' : i \in Stack(d) /\ dying'[d][i] = dying[d][i]
          /\ \A d \in Contexts : \A i \in Stack(d) : dying[d][i].object # o => i \in Stack(d)'
      BY DEF StacksWithout
    <2>5. ASSUME Dying(p) PROVE Dying(p)'
      <3> PICK d \in Contexts : \E i \in Stack(d) : dying[d][i].object = p
        BY <2>2, <2>5
      <3>1. PICK i \in Stack(d) : dying[d][i].object = p
        OBVIOUS
      <3>2. i \in Stack(d)' /\ dying'[d][i] = dying[d][i]
        BY <2>4, <3>1
      <3> QED BY <2>3, <3>1, <3>2
    <2>6. ASSUME Dying(p)' PROVE Dying(p)
      <3> PICK d \in Contexts : \E i \in Stack(d)' : dying'[d][i].object = p
        BY <2>3, <2>6
      <3>1. PICK i \in Stack(d)' : dying'[d][i].object = p
        OBVIOUS
      <3>2. i \in Stack(d) /\ dying'[d][i] = dying[d][i]
        BY <2>4, <3>1
      <3> QED BY <2>2, <3>1, <3>2
    <2> QED BY <2>5, <2>6
  <1>7. TypeOK'
    BY Parts DEF TypeOK, CallEnds, StacksWithout, Frame, RefTable
  <1>8. RefsGood'
    <2> SUFFICES ASSUME NEW d \in Contexts, NEW p \in Objects
                 PROVE  /\ held'[d][p] > 0 => p \in memory' /\ ~Counts(p)'.deiniting
                        /\ unowned'[d][p] > 0 => p \in memory'
      BY DEF RefsGood
    <2>1. CASE p # o
      BY <1>3, <2>1, Parts DEF RefsGood, Instances
    <2>2. CASE p = o
      <3>1. held'[d][o] = 0 /\ (o \notin memory' => unowned'[d][o] = 0)
        OBVIOUS
      <3> QED BY <2>2, <3>1
    <2> QED BY <2>1, <2>2
  <1>9. StacksGood'
    <2> SUFFICES ASSUME NEW d \in Contexts, NEW p \in Objects, NEW i \in Stack(d)',
                        dying'[d][i].object = p
                 PROVE  EntryGood(d, i, p)'
      BY DEF StacksGood
    <2>1. /\ i \in Stack(d) /\ dying'[d][i] = dying[d][i] /\ p # o
          /\ i < Len(dying'[d]) => i < Len(dying[d])
      BY DEF StacksWithout
    <2>2. EntryGood(d, i, p)
      BY <2>1, Parts DEF StacksGood
    <2>3. p \in Instances /\ Counts(p)' = Counts(p)
      BY <1>3, <2>1, <2>2 DEF EntryGood, Instances
    <2>4. \A e \in Contexts : \A j \in Stack(e)' : dying'[e][j].object = p => e = d /\ j = i
      BY <2>2, SMTT(60) DEF EntryGood, StacksWithout
    <2>5. dying'[d][i].at = "partial" => table[p] = Nil /\ count'[p] = Fresh /\ held'[d][p] = 1
      <3> SUFFICES ASSUME dying'[d][i].at = "partial"
                   PROVE  table[p] = Nil /\ count'[p] = Fresh /\ held'[d][p] = 1
        OBVIOUS
      <3>1. table[p] = Nil /\ count[p] = Fresh /\ held[d][p] = 1
        BY <2>1, <2>2 DEF EntryGood
      <3> QED BY <2>1, <2>3, <3>1 DEF Counts, Bits
    <2> QED BY <2>1, <2>2, <2>3, <2>4, <2>5 DEF EntryGood
  <1>10. TablesGood'
    <2>1. ASSUME NEW p \in Instances', table[p] # Nil PROVE table[p] \in memory' /\ owner[table[p]] = p
      BY <1>5, <2>1, Parts DEF TablesGood, Instances
    <2>2. ASSUME NEW t \in Tables, t \in memory', ~count'[t].deiniting
          PROVE  owner[t] \in Instances' /\ table[owner[t]] = t
      <3>1. t # Bits(o) /\ count'[t] = count[t] /\ t \in memory
        BY <2>2, CellFacts
      <3>2. owner[t] \in Instances /\ table[owner[t]] = t
        BY <2>2, <3>1, Parts DEF TablesGood
      <3>3. owner[t] # o
        BY <3>1, <3>2, CellFacts DEF Bits
      <3> QED BY <3>2, <3>3 DEF Instances
    <2> QED BY <2>1, <2>2 DEF TablesGood
  <1>11. CountsGood'
    <2> SUFFICES ASSUME NEW p \in Instances' PROVE CountGood(p)'
      BY DEF CountsGood
    <2>1. CASE p # o
      <3>1. p \in Instances /\ CountGood(p) /\ p \in Objects
        BY <1>5, Parts DEF CountsGood, Instances
      <3>2. Total(held, p)' = Total(held', p) /\ Total(unowned, p)' = Total(unowned', p)
        BY DEF Total
      <3>3. Own(p)' = Own(p) /\ Counts(p)' = Counts(p)
        BY <1>3, <1>6, <2>1, <3>1 DEF Own
      <3> QED BY <2>1, <3>1, <3>2, <3>3 DEF CountGood
    <2>2. CASE p = o
      BY <2>2 DEF Instances
    <2> QED BY <2>1, <2>2
  <1>12. \A d \in Contexts : d # c => Keeps(d)
    <2> SUFFICES ASSUME NEW d \in Contexts, d # c PROVE Keeps(d)
      OBVIOUS
    <2>1. At(d, "table") => count'[call[d].object] = count[call[d].object]
      <3> SUFFICES ASSUME At(d, "table") PROVE count'[call[d].object] = count[call[d].object]
        OBVIOUS
      <3> PICK p \in Instances : p = call[d].object /\ table[p] = Nil /\ p # o
        BY Parts
      <3> QED BY <1>3 DEF Counts, Bits
    <2>2. call'[d] = call[d] /\ dying'[d] = dying[d]
      BY DEF CallEnds
    <2>3. \A p \in Objects : held'[d][p] = held[d][p] /\ unowned'[d][p] = unowned[d][p]
      OBVIOUS
    <2> QED BY <2>1, <2>2, <2>3 DEF Keeps, Holds
  <1>13. CallsGood'
    BY <1>12, Parts, EndedCall, CallsKept
  <1> QED
    BY <1>7, <1>8, <1>9, <1>10, <1>11, <1>13 DEF IInv, CallsGood

(* The innermost destroyer of c takes o apart.                             *)
LEMMA TakenApart ==
  ASSUME IInv, NEW c \in Contexts, NEW o \in Objects, NEW stages, TakesApart(c, o, stages)
  PROVE  /\ o \in Instances /\ CountGood(o) /\ Counts(o) \in CountType /\ Dying(o)
         /\ call[c] = Nil /\ dying[c] # << >> /\ Top(c).object = o /\ Top(c).at \in stages
         /\ EntryGood(c, Len(dying[c]), o) /\ dying[c][Len(dying[c])] = Top(c)
         /\ Popped(c) => StacksWithout(o)
         /\ Restricted => \A d \in Contexts : d # c /\ At(d, "table") => call[d].object # o
  <1>1. /\ call[c] = Nil /\ dying[c] # << >> /\ Undisturbed(c, o)
        /\ Top(c).object = o /\ Top(c).at \in stages
    BY DEF TakesApart
  <1> PICK m : m = Len(dying[c])
    OBVIOUS
  <1>2. m \in Stack(c) /\ dying[c][m] = Top(c) /\ m \in Nat /\ m > 0
    BY <1>1, Parts, TopFacts, StackTypes
  <1>3. EntryGood(c, m, o) /\ Dying(o)
    BY <1>1, <1>2, Parts, DyingFacts DEF StacksGood
  <1>4. o \in Instances
    BY <1>3 DEF EntryGood, Instances
  <1>5. CountGood(o) /\ Counts(o) \in CountType
    BY <1>4, Parts, BitsApart DEF CountsGood
  <1>6. ASSUME Popped(c) PROVE StacksWithout(o)
    <2>1. /\ Len(dying'[c]) = m - 1 /\ \A i \in 1 .. (m - 1) : dying'[c][i] = dying[c][i]
          /\ dying' \in [Contexts -> Seq(Frame)] /\ \A d \in Contexts : d # c => dying'[d] = dying[d]
      BY <1>6 DEF Popped, OthersStacks
    <2>2. \A d \in Contexts : \A i \in Stack(d) : dying[d][i].object = o => d = c /\ i = m
      BY <1>3 DEF EntryGood
    <2>3. ASSUME NEW d \in Contexts, NEW i \in Stack(d)'
          PROVE  /\ i \in Stack(d) /\ dying'[d][i] = dying[d][i] /\ dying[d][i].object # o
                 /\ i < Len(dying'[d]) => i < Len(dying[d])
      <3>1. CASE d # c
        BY <2>1, <2>2, <3>1 DEF Stack
      <3>2. CASE d = c
        <4>1. i \in 1 .. (m - 1)
          BY <2>1, <3>2 DEF Stack
        <4> QED BY <1>2, <2>1, <2>2, <3>2, <4>1 DEF Stack
      <3> QED BY <3>1, <3>2
    <2>4. ASSUME NEW d \in Contexts, NEW i \in Stack(d), dying[d][i].object # o
          PROVE  i \in Stack(d)'
      <3>1. CASE d # c
        BY <2>1, <3>1 DEF Stack
      <3>2. CASE d = c
        <4>1. i # m
          BY <1>1, <1>2, <2>4, <3>2
        <4> QED BY <1>2, <2>1, <3>2, <4>1 DEF Stack
      <3> QED BY <3>1, <3>2
    <2> QED BY <2>1, <2>3, <2>4 DEF StacksWithout
  <1>7. Restricted => \A d \in Contexts : d # c /\ At(d, "table") => call[d].object # o
    BY <1>1 DEF Restricted, Undisturbed
  <1> QED BY <1>1, <1>2, <1>3, <1>4, <1>5, <1>6, <1>7

LEMMA NoneDying ==
  ASSUME NEW o, StacksWithout(o)
  PROVE  ~Dying(o)'
  <1>1. \A d \in Contexts : DOMAIN dying'[d] = Stack(d)'
    <2> TAKE d \in Contexts
    <2>1. dying'[d] \in Seq(Frame)
      BY DEF StacksWithout
    <2> HIDE DEF Frame
    <2> QED BY <2>1 DEF Stack
  <1>2. \A d \in Contexts : \A i \in Stack(d)' : dying'[d][i].object # o
    BY DEF StacksWithout
  <1> QED BY <1>1, <1>2 DEF Dying

LEMMA ReleaseObjectKeeps ==
  ASSUME IInv, Restricted, NEW c \in Contexts, NEW o \in Objects, ReleaseObject(c, o)
  PROVE  IInv'
  <1>1. /\ TakesApart(c, o, {"release"}) /\ dying' = [dying EXCEPT ![c] = Outer(c)]
        /\ count' = [count EXCEPT ![Bits(o)] = Plus(@, 0, -1)]
        /\ IF Counts(o).unowned > 1 THEN UNCHANGED <<memory, weak>> ELSE Frees(o)
        /\ UNCHANGED <<table, owner, weakVar, held, unowned, call, halted>>
    BY DEF ReleaseObject, Returns, DecrementUnowned, AddUnowned, Frees
  <1>2. /\ o \in Instances /\ CountGood(o) /\ Counts(o) \in CountType /\ Dying(o)
        /\ call[c] = Nil /\ dying[c] # << >>
        /\ \A d \in Contexts : d # c /\ At(d, "table") => call[d].object # o
    BY <1>1, TakenApart
  <1>3. Counts(o).deiniting
    BY <1>1, TakenApart DEF EntryGood
  <1>4. \A d \in Contexts : held[d][o] = 0
    BY <1>3, Parts DEF RefsGood
  <1>5. Popped(c) /\ StacksWithout(o) /\ ~Dying(o)'
    BY <1>1, <1>2, Parts, StackMoves, TakenApart, NoneDying
  <1>6. CallEnds(c) /\ DropsKept
    BY <1>1, <1>2, Parts, UnchangedCall DEF DropsKept
  <1>7. /\ Counts(o).unowned = Total(unowned, o) + 1 /\ Total(unowned, o) \in Nat
        /\ Counts(o).strong \in 0 .. MaxStrong /\ Counts(o).unowned \in 0 .. MaxUnowned
        /\ MaxUnowned \in Nat /\ MaxStrong \in Nat
    BY <1>2, Parts, TotalBounds, CountsAssumption DEF CountGood, Own, CountType
  <1>8. Counts(o).strong + 0 \in 0 .. MaxStrong /\ Counts(o).unowned + (-1) \in 0 .. MaxUnowned
    BY <1>7
  <1>9. /\ count' \in [Cells -> CountType] /\ Moved(Bits(o), 0, -1) /\ Bits(o) \in Cells
        /\ Counts(o) = count[Bits(o)]
    <2>1. Bits(o) \in Cells /\ Counts(o) = count[Bits(o)]
      BY <1>2, Parts, BitsApart DEF Counts
    <2>2. count[Bits(o)].strong + 0 \in 0 .. MaxStrong /\ count[Bits(o)].unowned + (-1) \in 0 .. MaxUnowned
      BY <1>8, <2>1
    <2>3. 0 \in Int /\ -1 \in Int
      OBVIOUS
    <2> QED BY <1>1, <2>1, <2>2, <2>3, Parts, CountMoves
  <1>10. /\ count'[Bits(o)].deiniting /\ count'[Bits(o)].unowned = Counts(o).unowned + (-1)
         /\ count'[Bits(o)].strong = Counts(o).strong + 0
         /\ \A x \in Cells : x # Bits(o) => count'[x] = count[x]
    <2>1. count'[Bits(o)] = Plus(Counts(o), 0, -1)
      BY <1>9 DEF Moved
    <2> QED BY <1>2, <1>3, <1>9, <2>1, PlusType DEF Moved
  <1>11. /\ \A p \in Instances : p # o => p \in memory' /\ (table[p] # Nil => table[p] \in memory')
         /\ o \in memory' => (table[o] # Nil => table[o] \in memory') /\ CountGood(o)'
         /\ o \notin memory' => \A d \in Contexts : unowned[d][o] = 0
         /\ memory' \subseteq memory /\ WeakGood' /\ weak' \in [Tables -> Nat]
    <2>1. CASE Counts(o).unowned > 1
      <3>1. UNCHANGED <<memory, weak>>
        BY <1>1, <2>1
      <3>2. WeakGood'
        BY <1>1, <3>1, Parts, WeakKept DEF InObjects, Instances
      <3>3. Own(o)' = 0 /\ Counts(o)' = count'[Bits(o)]
        BY <1>1, <1>5, <1>10 DEF Own, Counts, Bits
      <3>4. CountGood(o)'
        BY <1>1, <1>2, <1>7, <1>10, <2>1, <3>3, Parts DEF CountGood, CountType, Total
      <3> QED BY <1>2, <3>1, <3>2, <3>4, Parts DEF TablesGood, Instances, TypeOK
    <2>2. CASE ~(Counts(o).unowned > 1)
      <3>1. Frees(o)
        BY <1>1, <2>2
      <3>2. Total(unowned, o) = 0
        BY <1>7, <2>2
      <3>3. \A d \in Contexts : unowned[d][o] = 0
        BY <3>2, Parts, TotalBounds
      <3>4. /\ WeakGood' /\ memory' \subseteq memory /\ Instances' = Instances \ {o}
            /\ \A p \in Instances : p # o /\ table[p] # Nil => table[p] \in memory'
            /\ weak' \in [Tables -> Nat]
        BY <1>1, <1>2, <1>6, <3>1, FreedMemory
      <3> QED BY <3>3, <3>4 DEF Instances
    <2> QED BY <2>1, <2>2
  <1>12. Removes(c, o)
    BY <1>1, <1>2, <1>4, <1>5, <1>6, <1>9, <1>10, <1>11, Parts DEF Removes, Popped, OthersStacks
  <1> QED BY <1>2, <1>11, <1>12, RemovesKeeps

(* What canBeFreedNow has seen still holds.                                *)
LEMMA FreeObjectKeeps ==
  ASSUME IInv, Restricted, NEW c \in Contexts, NEW o \in Objects, FreeObject(c, o),
         Unreferenced(o)
  PROVE  IInv'
  <1>1. /\ TakesApart(c, o, {"free"}) /\ dying' = [dying EXCEPT ![c] = Outer(c)]
        /\ memory' = memory \ {o}
        /\ UNCHANGED <<table, count, weak, owner, weakVar, held, unowned, call, halted>>
        /\ table[o] = Nil /\ \A d \in Contexts : unowned[d][o] = 0
    BY DEF FreeObject, Returns, Unreferenced
  <1>2. /\ o \in Instances /\ Counts(o) \in CountType
        /\ call[c] = Nil /\ dying[c] # << >>
        /\ \A d \in Contexts : d # c /\ At(d, "table") => call[d].object # o
    BY <1>1, TakenApart
  <1>3. Counts(o).deiniting
    BY <1>1, TakenApart DEF EntryGood
  <1>4. \A d \in Contexts : held[d][o] = 0
    BY <1>3, Parts DEF RefsGood
  <1>5. Popped(c) /\ StacksWithout(o)
    BY <1>1, <1>2, Parts, StackMoves, TakenApart
  <1>6. CallEnds(c) /\ DropsKept
    BY <1>1, <1>2, Parts, UnchangedCall DEF DropsKept
  <1>7. count' \in [Cells -> CountType] /\ count'[Bits(o)].deiniting
    BY <1>1, <1>3, Parts DEF Counts, TypeOK
  <1>8. Frees(o)
    BY <1>1 DEF Frees
  <1>9. /\ WeakGood' /\ memory' \subseteq memory /\ Instances' = Instances \ {o}
        /\ \A p \in Instances : p # o /\ table[p] # Nil => table[p] \in memory'
        /\ weak' \in [Tables -> Nat]
    BY <1>1, <1>2, <1>6, <1>8, FreedMemory
  <1>10. \A p \in Instances : p # o => p \in memory'
    BY <1>9 DEF Instances
  <1>11. /\ held' \in RefTable /\ unowned' \in RefTable
         /\ \A p \in Objects : Total(held', p) = Total(held, p) /\ Total(unowned', p) = Total(unowned, p)
         /\ \A d \in Contexts : d # c => dying'[d] = dying[d]
    BY <1>1, <1>5, Parts DEF Popped, OthersStacks
  <1>12. o \notin memory'
    BY <1>1
  <1>13. Removes(c, o)
    BY <1>1, <1>2, <1>4, <1>5, <1>6, <1>7, <1>9, <1>10, <1>11, <1>12 DEF Removes
  <1> QED BY <1>2, <1>9, <1>13, RemovesKeeps

LEMMA UnownedReleaseLast ==
  ASSUME IInv, Restricted, NEW c \in Contexts, NEW o \in Objects, NEW n \in 1 .. MaxN,
         UnownedRelease(c, o, n), ~(Counts(o).unowned > n)
  PROVE  IInv'
  <1>1. n \in Int /\ n > 0 /\ -n \in Int /\ 0 \in Int /\ MaxStrong \in Nat /\ MaxUnowned \in Nat
    BY CountsAssumption
  <1>2. /\ Runs(c) /\ MayUnown(c, o) /\ unowned[c][o] >= n /\ Undisturbed(c, o)
        /\ count' = [count EXCEPT ![Bits(o)] = Plus(@, 0, -n)]
        /\ unowned' = More(unowned, c, o, -n)
        /\ Frees(o)
        /\ UNCHANGED <<table, owner, weakVar, held, call, dying, halted>>
    BY <1>1, Parts DEF UnownedRelease, DecrementUnowned, AddUnowned, GainUnowned, MayUnown, Frees
  <1>3. Shifted(unowned, unowned', c, o, -n)
    BY <1>1, <1>2, Parts, MoreShifts
  <1>4. /\ o \in Instances /\ CountGood(o) /\ Counts(o) \in CountType /\ CallEnds(c)
        /\ \A d \in Contexts : d # c /\ At(d, "table") => call[d].object # o
    BY <1>2, Running
  <1>5. /\ Counts(o).unowned = n /\ Total(unowned, o) = n /\ unowned[c][o] = n /\ Own(o) = 0
    <2>1. unowned[c][o] <= Total(unowned, o) /\ Total(unowned, o) \in Nat
      BY Parts, TotalBounds
    <2>2. Counts(o).unowned = Total(unowned, o) + Own(o) /\ Own(o) \in {0, 1}
      BY <1>4 DEF CountGood, Own
    <2> QED BY <1>1, <1>2, <2>1, <2>2, Parts
  <1>6. Counts(o).deiniting /\ ~Dying(o)
    BY <1>5 DEF Own
  <1>7. \A d \in Contexts : held[d][o] = 0
    BY <1>6, Parts DEF RefsGood
  <1>8. \A d \in Contexts : d # c => unowned[d][o] = 0
    BY <1>5, Parts, TotalSole
  <1>9. /\ unowned' \in RefTable /\ unowned'[c][o] = 0
        /\ \A d \in Contexts, p \in Objects : d # c \/ p # o => unowned'[d][p] = unowned[d][p]
        /\ \A p \in Objects : p # o => Total(unowned', p) = Total(unowned, p)
    <2>1. \A p \in Objects : p # o => Total(unowned', p) = Total(unowned, p)
      BY <1>1, <1>3, TotalShifts
    <2>2. /\ unowned' \in RefTable /\ unowned'[c][o] = n + (-n)
          /\ \A d \in Contexts, p \in Objects : d # c \/ p # o => unowned'[d][p] = unowned[d][p]
      BY <1>3, <1>5 DEF Shifted
    <2> QED BY <1>1, <2>1, <2>2
  <1>10. /\ count' \in [Cells -> CountType] /\ count'[Bits(o)].deiniting
         /\ \A x \in Cells : x # Bits(o) => count'[x] = count[x]
    <2>1. Bits(o) \in Cells /\ Counts(o) = count[Bits(o)]
      BY <1>4, Parts, BitsApart DEF Counts
    <2>2. count[Bits(o)].strong + 0 \in 0 .. MaxStrong /\ count[Bits(o)].unowned + (-n) \in 0 .. MaxUnowned
      BY <1>1, <1>4, <1>5, <2>1 DEF CountType
    <2>3. count' \in [Cells -> CountType] /\ Moved(Bits(o), 0, -n)
      BY <1>1, <1>2, <2>1, <2>2, Parts, CountMoves
    <2>4. count'[Bits(o)] = Plus(Counts(o), 0, -n)
      BY <2>1, <2>3 DEF Moved
    <2> QED BY <1>1, <1>4, <1>6, <2>3, <2>4, PlusType DEF Moved
  <1>11. DropsKept
    BY <1>2 DEF DropsKept
  <1>12. /\ WeakGood' /\ memory' \subseteq memory /\ Instances' = Instances \ {o}
         /\ \A p \in Instances : p # o /\ table[p] # Nil => table[p] \in memory'
         /\ weak' \in [Tables -> Nat]
    BY <1>2, <1>4, <1>11, FreedMemory
  <1>13. StacksWithout(o)
    <2>1. \A d \in Contexts : \A i \in Stack(d) : dying[d][i].object # o
      BY <1>6, Parts, DyingFacts
    <2>2. \A d \in Contexts : Stack(d)' = Stack(d)
      BY <1>2 DEF Stack
    <2>3. dying \in [Contexts -> Seq(Frame)]
      BY Parts DEF TypeOK, Frame
    <2> QED BY <1>2, <2>1, <2>2, <2>3 DEF StacksWithout
  <1>14. \A p \in Instances : p # o => p \in memory'
    BY <1>12 DEF Instances
  <1>15. o \notin memory'
    BY <1>4, <1>12 DEF Instances
  <1>16. Removes(c, o)
    BY <1>2, <1>4, <1>7, <1>8, <1>9, <1>10, <1>12, <1>13, <1>14, <1>15, Parts DEF Removes
  <1> QED BY <1>4, <1>12, <1>16, RemovesKeeps

LEMMA DeallocPartialKeeps ==
  ASSUME IInv, Restricted, NEW c \in Contexts, NEW o \in Objects, DeallocPartial(c, o)
  PROVE  IInv'
  <1>1. /\ TakesApart(c, o, {"partial"}) /\ dying' = [dying EXCEPT ![c] = Outer(c)]
        /\ count' = [count EXCEPT ![o] = [strong |-> 0, unowned |-> 0, deiniting |-> TRUE]]
        /\ memory' = memory \ {o} /\ held' = More(held, c, o, -1)
        /\ UNCHANGED <<table, weak, owner, weakVar, unowned, call, halted>>
    BY DEF DeallocPartial, Returns, Gain
  <1>2. /\ o \in Instances /\ CountGood(o) /\ Counts(o) \in CountType /\ Dying(o)
        /\ call[c] = Nil /\ dying[c] # << >>
        /\ \A d \in Contexts : d # c /\ At(d, "table") => call[d].object # o
    BY <1>1, TakenApart
  <1>3. table[o] = Nil /\ count[o] = Fresh /\ held[c][o] = 1
    BY <1>1, TakenApart DEF EntryGood
  <1>4. Counts(o) = Fresh /\ Bits(o) = o
    BY <1>3 DEF Counts, Bits
  <1>5. Total(held, o) = 1 /\ Total(unowned, o) = 0
    <2>1. Own(o) = 1
      BY <1>2 DEF Own
    <2>2. Total(unowned, o) \in Nat
      BY Parts, TotalBounds
    <2> QED BY <1>2, <1>4, <2>1, <2>2 DEF CountGood, Fresh
  <1>6. /\ \A d \in Contexts : d # c => held[d][o] = 0
        /\ \A d \in Contexts : unowned[d][o] = 0
    <2>1. \A d \in Contexts : d # c => held[d][o] = 0
      BY <1>3, <1>5, Parts, TotalSole
    <2>2. \A d \in Contexts : unowned[d][o] = 0
      BY <1>5, Parts, TotalBounds
    <2> QED BY <2>1, <2>2
  <1>7. Shifted(held, held', c, o, -1)
    <2>1. -1 \in Int /\ held[c][o] + (-1) >= 0
      BY <1>3
    <2> QED BY <1>1, <2>1, Parts, MoreShifts
  <1>8. /\ held' \in RefTable /\ held'[c][o] = 0
        /\ \A d \in Contexts, p \in Objects : d # c \/ p # o => held'[d][p] = held[d][p]
        /\ \A p \in Objects : p # o => Total(held', p) = Total(held, p)
    <2>1. \A p \in Objects : p # o => Total(held', p) = Total(held, p)
      BY <1>7, TotalShifts
    <2>2. /\ held' \in RefTable /\ held'[c][o] = 1 + (-1)
          /\ \A d \in Contexts, p \in Objects : d # c \/ p # o => held'[d][p] = held[d][p]
      BY <1>3, <1>7 DEF Shifted
    <2> QED BY <2>1, <2>2
  <1>9. Popped(c) /\ StacksWithout(o)
    BY <1>1, <1>2, Parts, StackMoves, TakenApart
  <1>10. CallEnds(c) /\ DropsKept
    BY <1>1, <1>2, Parts, UnchangedCall DEF DropsKept
  <1> PICK r : r = [strong |-> 0, unowned |-> 0, deiniting |-> TRUE]
    OBVIOUS
  <1>11. r \in CountType /\ r.deiniting
    BY CountsAssumption DEF CountType
  <1>12. /\ count' \in [Cells -> CountType] /\ count'[Bits(o)].deiniting
         /\ \A x \in Cells : x # Bits(o) => count'[x] = count[x]
    <2>1. count' = [count EXCEPT ![o] = r] /\ count \in [Cells -> CountType] /\ o \in Cells
      BY <1>1, Parts, CellFacts DEF TypeOK
    <2> QED BY <1>4, <1>11, <2>1
  <1>13. Frees(o)
    BY <1>1, <1>3 DEF Frees
  <1>14. /\ WeakGood' /\ memory' \subseteq memory /\ Instances' = Instances \ {o}
         /\ \A p \in Instances : p # o /\ table[p] # Nil => table[p] \in memory'
         /\ weak' \in [Tables -> Nat]
    BY <1>1, <1>2, <1>10, <1>13, FreedMemory
  <1>15. \A p \in Instances : p # o => p \in memory'
    BY <1>14 DEF Instances
  <1>16. /\ \A d \in Contexts : held'[d][o] = 0
         /\ o \notin memory' /\ unowned' \in RefTable
         /\ \A p \in Objects : Total(unowned', p) = Total(unowned, p)
         /\ \A d \in Contexts : d # c => dying'[d] = dying[d]
    BY <1>1, <1>6, <1>8, <1>9, Parts DEF Popped, OthersStacks
  <1>17. Removes(c, o)
    BY <1>1, <1>2, <1>6, <1>8, <1>9, <1>10, <1>12, <1>14, <1>15, <1>16, Parts DEF Removes
  <1> QED BY <1>2, <1>14, <1>17, RemovesKeeps

-----------------------------------------------------------------------------
(***************************************************************************)
(* Steps that allocate.                                                    *)
(***************************************************************************)
LEMMA AllocObjectKeeps ==
  ASSUME IInv, NEW c \in Contexts, NEW o \in Objects, AllocObject(c, o)
  PROVE  IInv'
  <1>1. /\ Runs(c) /\ o \notin memory /\ memory' = memory \cup {o}
        /\ table' = [table EXCEPT ![o] = Nil] /\ count' = [count EXCEPT ![o] = Fresh]
        /\ held' = More(held, c, o, 1)
        /\ UNCHANGED <<weak, owner, weakVar, unowned, call, dying, halted>>
    BY DEF AllocObject, Gain
  <1>2. /\ \A d \in Contexts : held[d][o] = 0 /\ unowned[d][o] = 0
        /\ ~Dying(o)
    <2>1. \A d \in Contexts : held[d][o] = 0 /\ unowned[d][o] = 0
      BY <1>1, Parts DEF RefsGood
    <2>2. ~Dying(o)
      BY <1>1, Parts, DyingFacts DEF StacksGood, EntryGood
    <2> QED BY <2>1, <2>2
  <1>3. Shifted(held, held', c, o, 1)
    BY <1>1, Parts, MoreShifts
  <1>4. /\ held' \in RefTable /\ Total(held', o) = 1 /\ Total(unowned, o) = 0
        /\ \A d \in Contexts, p \in Objects : p # o => held'[d][p] = held[d][p]
        /\ \A d \in Contexts : d # c => held'[d] = held[d]
        /\ \A p \in Objects : p # o => Total(held', p) = Total(held, p)
    <2>1. Total(held, o) = 0 /\ Total(unowned, o) = 0
      BY <1>2, Parts, TotalBounds
    <2>2. Total(held', o) = 0 + 1 /\ \A p \in Objects : p # o => Total(held', p) = Total(held, p)
      BY <1>3, <2>1, TotalShifts
    <2>3. held' \in RefTable /\ \A d \in Contexts, p \in Objects : p # o => held'[d][p] = held[d][p]
      BY <1>3 DEF Shifted
    <2>4. \A d \in Contexts : d # c => held'[d] = held[d]
      BY <1>1, Parts DEF More, RefTable
    <2> QED BY <2>1, <2>2, <2>3, <2>4
  <1>5. /\ o \in Cells /\ o \notin Tables /\ o # Nil /\ Fresh \in CountType
        /\ Instances' = Instances \cup {o} /\ o \notin Instances
    BY <1>1, CellFacts, CountsAssumption DEF Instances, Fresh, CountType
  <1>6. /\ table' \in [Objects -> Tables \cup {Nil}] /\ table'[o] = Nil
        /\ \A p \in Objects : p # o => table'[p] = table[p]
        /\ count' \in [Cells -> CountType] /\ count'[o] = Fresh
        /\ \A x \in Cells : x # o => count'[x] = count[x]
    BY <1>1, <1>5, Parts DEF TypeOK
  <1>7. Counts(o)' = Fresh
    BY <1>6 DEF Counts, Bits
  <1>8. \A p \in Instances : p # o /\ p \in Objects /\ table'[p] = table[p] /\ count'[p] = count[p]
                              /\ Counts(p)' = Counts(p)
    <2> TAKE p \in Instances
    <2>1. p # o /\ p \in Objects /\ table'[p] = table[p] /\ count'[p] = count[p]
      BY <1>5, <1>6, CellFacts DEF Instances
    <2>2. Bits(p) \in Cells /\ Bits(p) # o /\ Bits(p)' = Bits(p)
      BY <1>5, <2>1, Parts, BitsApart DEF Bits
    <2> QED BY <1>6, <2>1, <2>2 DEF Counts
  <1>9. \A p : Dying(p)' <=> Dying(p)
    BY <1>1 DEF Dying
  <1>10. TypeOK'
    BY <1>1, <1>4, <1>5, <1>6, Parts DEF TypeOK, RefTable
  <1>11. RefsGood'
    <2> SUFFICES ASSUME NEW d \in Contexts, NEW p \in Objects
                 PROVE  /\ held'[d][p] > 0 => p \in memory' /\ ~Counts(p)'.deiniting
                        /\ unowned'[d][p] > 0 => p \in memory'
      BY DEF RefsGood
    <2>1. CASE p # o
      BY <1>1, <1>4, <1>8, <2>1, Parts DEF RefsGood, Instances
    <2>2. CASE p = o
      BY <1>1, <1>7, <2>2 DEF Fresh
    <2> QED BY <2>1, <2>2
  <1>12. StacksGood'
    <2> SUFFICES ASSUME NEW d \in Contexts, NEW p \in Objects, NEW i \in Stack(d),
                        dying[d][i].object = p
                 PROVE  EntryGood(d, i, p)'
      BY <1>1 DEF StacksGood, Stack
    <2>1. EntryGood(d, i, p)
      BY Parts DEF StacksGood
    <2>2. p \in Instances
      BY <2>1 DEF EntryGood, Instances
    <2> QED BY <1>1, <1>4, <1>8, <2>1, <2>2 DEF EntryGood, Stack
  <1>13. TablesGood'
    <2>1. ASSUME NEW p \in Instances', table'[p] # Nil PROVE table'[p] \in memory' /\ owner'[table'[p]] = p
      BY <1>1, <1>5, <1>6, <1>8, <2>1, Parts DEF TablesGood
    <2>2. ASSUME NEW t \in Tables, t \in memory', ~count'[t].deiniting
          PROVE  owner'[t] \in Instances' /\ table'[owner'[t]] = t
      <3>1. t \in memory /\ ~count[t].deiniting
        BY <1>1, <1>5, <1>6, <2>2, CellFacts
      <3>2. owner[t] \in Instances /\ table[owner[t]] = t
        BY <3>1, Parts DEF TablesGood
      <3> QED BY <1>1, <1>5, <1>8, <3>2
    <2> QED BY <2>1, <2>2 DEF TablesGood
  <1>14. CountsGood'
    <2> SUFFICES ASSUME NEW p \in Instances' PROVE CountGood(p)'
      BY DEF CountsGood
    <2>1. Total(held, p)' = Total(held', p) /\ Total(unowned, p)' = Total(unowned, p)
      BY <1>1 DEF Total
    <2>2. CASE p # o
      <3>1. p \in Instances /\ CountGood(p) /\ p \in Objects
        BY <1>5, <2>2, Parts DEF CountsGood, Instances
      <3>2. Own(p)' = Own(p) /\ Counts(p)' = Counts(p)
        BY <1>8, <1>9, <3>1 DEF Own
      <3> QED BY <1>4, <2>1, <2>2, <3>1, <3>2 DEF CountGood
    <2>3. CASE p = o
      <3>1. Own(o)' = 1
        BY <1>7 DEF Own, Fresh
      <3> QED BY <1>4, <1>7, <2>1, <2>3, <3>1 DEF CountGood, Fresh
    <2> QED BY <2>2, <2>3
  <1>15. WeakGood'
    <2>1. \A t \in Tables : InObjects(t)' = InObjects(t)
      BY <1>5, <1>6, <1>8, CellFacts DEF InObjects
    <2>2. memory' \cap Tables = memory \cap Tables
      BY <1>1, <1>5
    <2> QED BY <1>1, <2>1, <2>2, Parts, WeakKept
  <1>16. \A d \in Contexts : d # c => Keeps(d)
    <2> SUFFICES ASSUME NEW d \in Contexts, d # c PROVE Keeps(d)
      OBVIOUS
    <2>1. At(d, "table") => /\ table'[call[d].object] = table[call[d].object]
                            /\ count'[call[d].object] = count[call[d].object]
      BY <1>8, Parts
    <2> QED BY <1>1, <1>4, <1>8, <2>1 DEF Keeps, Holds
  <1>17. CallsGood'
    <2>1. CallEnds(c)
      BY <1>1, Parts, UnchangedCall DEF Runs
    <2> QED BY <1>16, <2>1, Parts, EndedCall, CallsKept
  <1> QED
    BY <1>10, <1>11, <1>12, <1>13, <1>14, <1>15, <1>17 DEF IInv, CallsGood

LEMMA AllocateSideTableKeeps ==
  ASSUME IInv, NEW c \in Contexts, NEW t \in Tables, AllocateSideTable(c, t)
  PROVE  IInv'
  <1> PICK k \in RuntimeCall : k = call[c]
    BY InCall DEF AllocateSideTable
  <1>1. /\ k.op = "table" /\ k # Nil /\ k.object \in Objects /\ k.old \in CountType
        /\ k.dest \in Vars \cup {Nil} /\ k.n \in 0 .. MaxN
        /\ TableCallGood(c, k) /\ Ready(c) /\ ~At(c, "drop") /\ Pending(k) = k /\ At(c, "table")
    BY InCall, CallFields DEF AllocateSideTable, In
  <1> PICK o \in Objects : o = k.object
    BY <1>1
  <1> PICK next : next = IF k.dest # Nil THEN Form(k.dest, t)
                         ELSE [op |-> "unown", side |-> t, n |-> k.n]
    OBVIOUS
  <1>2. /\ t \notin memory /\ memory' = memory \cup {t}
        /\ table' = [table EXCEPT ![o] = t]
        /\ count' = [count EXCEPT ![t] = k.old, ![o] = NoCount]
        /\ weak' = [weak EXCEPT ![t] = 1]
        /\ owner' = [owner EXCEPT ![t] = o]
        /\ call' = [call EXCEPT ![c] = next]
        /\ UNCHANGED <<weakVar, held, unowned, dying, halted>>
    BY DEF AllocateSideTable, SetCall
  <1>3. /\ table[o] = Nil /\ count[o] = k.old /\ MayUnown(c, o)
        /\ k.dest # Nil => Reachable(c, o)
        /\ k.dest = Nil => k.n > 0
    BY <1>1 DEF TableCallGood, MayUnown
  <1>4. o \in Instances /\ Whole(o) /\ o \notin Tables /\ t \notin Objects /\ o # t
    BY <1>1, <1>3, Parts, ReachableLives, ReferredWhole, CellFacts
  <1>5. /\ next \in RuntimeCall /\ next.op \in {"form", "unown"} /\ next # Nil /\ next.side = t
        /\ next.op = "form" => next.dest = k.dest /\ k.dest # Nil /\ k.dest \in Vars
    <2>1. CASE k.dest # Nil
      <3>1. next \in FormCall /\ next.op = "form" /\ next.dest = k.dest /\ next.side = t
        BY <1>1, <2>1 DEF Form, FormCall
      <3> QED BY <1>1, <2>1, <3>1, CellsAssumption DEF RuntimeCall
    <2>2. CASE k.dest = Nil
      <3>1. k.n \in 1 .. MaxN
        BY <1>1, <1>3, <2>2, CountsAssumption
      <3>2. next \in UnownCall /\ next.op = "unown" /\ next.side = t
        BY <2>2, <3>1 DEF UnownCall
      <3> QED BY <3>2, CellsAssumption DEF RuntimeCall
    <2> QED BY <2>1, <2>2
  <1>6. /\ table' \in [Objects -> Tables \cup {Nil}] /\ table'[o] = t
        /\ \A p \in Objects : p # o => table'[p] = table[p]
        /\ weak' \in [Tables -> Nat] /\ weak'[t] = 1
        /\ \A u \in Tables : u # t => weak'[u] = weak[u]
        /\ owner' \in [Tables -> Objects \cup {Nil}] /\ owner'[t] = o
        /\ \A u \in Tables : u # t => owner'[u] = owner[u]
        /\ call' \in [Contexts -> RuntimeCall \cup {Nil}] /\ call'[c] = next
        /\ \A d \in Contexts : d # c => call'[d] = call[d]
    BY <1>2, <1>5, Parts DEF TypeOK
  <1>7. /\ count' \in [Cells -> CountType] /\ count'[t] = k.old
        /\ \A x \in Cells : x # t /\ x # o => count'[x] = count[x]
    <2>1. NoCount \in CountType
      BY CountsAssumption DEF NoCount, CountType
    <2>2. o \in Cells /\ t \in Cells /\ count \in [Cells -> CountType]
      BY Parts, CellFacts DEF TypeOK
    <2> QED BY <1>1, <1>2, <1>4, <2>1, <2>2
  <1>8. Instances' = Instances
    BY <1>2, CellFacts DEF Instances
  <1>9. \A p \in Instances : p # o => /\ p \in Objects /\ table'[p] = table[p] /\ table[p] # t
                                      /\ count'[p] = count[p] /\ Counts(p)' = Counts(p)
    <2> SUFFICES ASSUME NEW p \in Instances, p # o
                 PROVE  /\ p \in Objects /\ table'[p] = table[p] /\ table[p] # t
                        /\ count'[p] = count[p] /\ Counts(p)' = Counts(p)
      OBVIOUS
    <2>1. p \in Objects /\ p \in Cells /\ p # t
      BY CellFacts DEF Instances
    <2>2. table'[p] = table[p] /\ count'[p] = count[p] /\ table[p] # t
      BY <1>2, <1>6, <1>7, <2>1, Parts, CellFacts DEF TablesGood
    <2>3. Bits(p)' = Bits(p) /\ Bits(p) \in Cells /\ Bits(p) # t /\ Bits(p) # o
      BY <1>4, <2>1, <2>2, Parts, BitsApart DEF Bits
    <2> QED BY <1>7, <2>1, <2>2, <2>3 DEF Counts
  <1>10. Counts(o)' = Counts(o)
    BY <1>3, <1>6, <1>7, CellFacts DEF Counts, Bits
  <1>11. \A p \in Instances : Counts(p)' = Counts(p)
    BY <1>9, <1>10
  <1>12. TypeOK'
    <2>1. memory' \subseteq Cells
      BY <1>1, <1>2, Parts, CellFacts DEF TypeOK
    <2> QED BY <1>2, <1>6, <1>7, <2>1, Parts DEF TypeOK
  <1>13. RefsGood'
    BY <1>2, <1>11, Parts DEF RefsGood, Instances
  <1>14. StacksGood'
    <2> SUFFICES ASSUME NEW d \in Contexts, NEW p \in Objects, NEW i \in Stack(d),
                        dying[d][i].object = p
                 PROVE  EntryGood(d, i, p)'
      BY <1>2 DEF StacksGood, Stack
    <2>1. EntryGood(d, i, p)
      BY Parts DEF StacksGood
    <2>2. p \in Instances /\ (dying[d][i].at = "partial" => p # o)
      BY <1>4, <2>1 DEF EntryGood, Instances, Whole
    <2> QED BY <1>2, <1>9, <1>11, <2>1, <2>2 DEF EntryGood, Stack
  <1>15. TablesGood'
    <2>1. ASSUME NEW p \in Instances, table'[p] # Nil PROVE table'[p] \in memory' /\ owner'[table'[p]] = p
      <3>1. CASE p = o
        BY <1>2, <1>6, <3>1
      <3>2. CASE p # o
        <4>1. table[p] \in Tables /\ table[p] # t /\ table'[p] = table[p]
          BY <1>9, <2>1, <3>2, Parts DEF TypeOK
        <4> QED BY <1>2, <1>6, <2>1, <4>1, Parts DEF TablesGood
      <3> QED BY <3>1, <3>2
    <2>2. ASSUME NEW u \in Tables, u \in memory', ~count'[u].deiniting
          PROVE  owner'[u] \in Instances /\ table'[owner'[u]] = u
      <3>1. CASE u = t
        BY <1>4, <1>6, <3>1
      <3>2. CASE u # t
        <4>1. u \in memory /\ ~count[u].deiniting /\ owner'[u] = owner[u]
          BY <1>2, <1>6, <1>7, <2>2, <3>2, CellFacts
        <4>2. owner[u] \in Instances /\ table[owner[u]] = u
          BY <4>1, Parts DEF TablesGood
        <4>3. owner[u] # o
          BY <1>3, <4>2, CellFacts
        <4> QED BY <1>9, <4>1, <4>2, <4>3
      <3> QED BY <3>1, <3>2
    <2> QED BY <1>8, <2>1, <2>2 DEF TablesGood
  <1>16. CountsGood'
    <2> SUFFICES ASSUME NEW p \in Instances PROVE CountGood(p)'
      BY <1>8 DEF CountsGood
    <2>1. CountGood(p)
      BY Parts DEF CountsGood
    <2>2. Total(held, p)' = Total(held, p) /\ Total(unowned, p)' = Total(unowned, p)
      BY <1>2 DEF Total
    <2>3. Own(p)' = Own(p)
      BY <1>2, <1>11 DEF Own, Dying
    <2> QED BY <1>11, <2>1, <2>2, <2>3 DEF CountGood
  <1>17. \A d \in Contexts : At(d, "drop")' <=> At(d, "drop")
    BY <1>1, <1>5, <1>6 DEF At
  <1>18. \A d \in Contexts : At(d, "drop") => call'[d] = call[d]
    BY <1>1, <1>6
  <1>19. WeakGood'
    <2>1. \A u : InVars(u)' = InVars(u) /\ InCalls(u)' = InCalls(u)
      BY <1>2, <1>17, <1>18 DEF InVars, InCalls
    <2>2. \A u \in Tables : u # t => InObjects(u)' = InObjects(u)
      BY <1>3, <1>6, <1>8, <1>9, CellFacts DEF InObjects
    <2>3. InVars(t) = {} /\ InCalls(t) = {}
      BY <1>2, Parts, CellFacts DEF InVars, InCalls, WeakGood
    <2>4. InObjects(t)' = {o}
      BY <1>4, <1>6, <1>8, <1>9 DEF InObjects
    <2>5. Cardinality(InVars(t)') + Cardinality(InCalls(t)') + Cardinality(InObjects(t)') = 1
      <3>1. InVars(t)' = {} /\ InCalls(t)' = {}
        BY <2>1, <2>3
      <3>2. Cardinality({}) = 0 /\ Cardinality({o}) = 1
        BY FS_EmptySet, FS_Singleton
      <3> PICK a, b, d : a = InVars(t)' /\ b = InCalls(t)' /\ d = InObjects(t)'
        OBVIOUS
      <3>3. Cardinality(a) + Cardinality(b) + Cardinality(d) = 1
        BY <2>4, <3>1, <3>2
      <3> QED BY <3>3
    <2>6. \A v \in Vars : weakVar'[v] \in memory' \cup {Nil}
      BY <1>2, Parts DEF WeakGood
    <2>7. \A d \in Contexts : At(d, "drop")' => call'[d].side \in memory'
      BY <1>2, <1>17, <1>18, Parts DEF WeakGood
    <2>8. ASSUME NEW u \in Tables, u \in memory'
          PROVE  /\ weak'[u] = Cardinality(InVars(u)') + Cardinality(InCalls(u)') + Cardinality(InObjects(u)')
                 /\ weak'[u] > 0
      <3>1. CASE u = t
        BY <1>6, <2>5, <3>1
      <3>2. CASE u # t
        <4>1. weak'[u] = weak[u] /\ u \in memory
          BY <1>2, <1>6, <2>8, <3>2
        <4> QED BY <2>1, <2>2, <3>2, <4>1, Parts DEF WeakGood
      <3> QED BY <3>1, <3>2
    <2> QED BY <2>6, <2>7, <2>8 DEF WeakGood
  <1>20. \A d \in Contexts : d # c => Keeps(d)
    <2> SUFFICES ASSUME NEW d \in Contexts, d # c PROVE Keeps(d)
      OBVIOUS
    <2>1. At(d, "table") => /\ table'[call[d].object] = table[call[d].object]
                            /\ count'[call[d].object] = count[call[d].object]
      <3> SUFFICES ASSUME At(d, "table")
                   PROVE  /\ table'[call[d].object] = table[call[d].object]
                          /\ count'[call[d].object] = count[call[d].object]
        OBVIOUS
      <3>1. call[d].object # o /\ call[d].object \in Instances
        BY <1>1, Parts DEF CallsGood, CallsApart
      <3> QED BY <1>9, <3>1
    <2>2. \A p \in Instances : table[p] # Nil => table'[p] = table[p] /\ owner'[table[p]] = owner[table[p]]
      <3> TAKE p \in Instances
      <3> SUFFICES ASSUME table[p] # Nil PROVE table'[p] = table[p] /\ owner'[table[p]] = owner[table[p]]
        OBVIOUS
      <3>1. p # o /\ table[p] # t /\ table'[p] = table[p] /\ p \in Objects
        BY <1>3, <1>9
      <3>2. table[p] \in Tables
        BY <3>1, Parts DEF TypeOK
      <3> QED BY <1>6, <3>1, <3>2
    <2> QED BY <1>2, <1>6, <2>1, <2>2 DEF Keeps, Holds
  <1>21. Pending(call'[c]) = next /\ ~At(c, "table")'
    BY <1>5, <1>6, PendingFacts DEF At
  <1>22. CallGood(c)'
    <2>1. Attached(t)' /\ owner'[t] = o
      BY <1>6 DEF Attached
    <2>2. Ready(c)'
      BY <1>1, <1>2 DEF Ready, Top
    <2>3. MayUnown(c, o)' /\ (Reachable(c, o) => Reachable(c, o)')
      BY <1>2, <1>3 DEF MayUnown, Reachable, InDeinit, Top
    <2>4. GoodCall(c, next)'
      BY <1>3, <1>5, <2>1, <2>3 DEF GoodCall, TableCallGood, UnownCallGood, FormCallGood,
            LoadCallGood, TransferCallGood, MayUnown, Reachable, InDeinit
    <2> QED BY <1>21, <2>2, <2>4 DEF CallGood, GoodCall, Ready
  <1>23. Apart(c)
    <2>1. Writes(next) \subseteq Writes(k) /\ Reads(next) = {}
      BY <1>1, <1>5 DEF Writes, Reads
    <2>2. Pending(call[c]) = k
      BY <1>1
    <2> QED BY <1>21, <2>1, <2>2, Parts DEF Apart, CallsGood, CallsApart
  <1>24. CallsGood'
    BY <1>20, <1>22, <1>23, Parts, CallsKept
  <1> QED
    BY <1>12, <1>13, <1>14, <1>15, <1>16, <1>19, <1>24 DEF IInv, CallsGood


-----------------------------------------------------------------------------
(***************************************************************************)
(* Steps that write weak variables.                                        *)
(***************************************************************************)
NextCall == LoadCall \cup TransferCall \cup {Nil}

LEMMA DropFacts ==
  ASSUME NEW t \in Tables \cup {Nil}, NEW next \in NextCall
  PROVE  /\ Drop(t, next) \in RuntimeCall \cup {Nil}
         /\ Pending(Drop(t, next)) = next
         /\ (Drop(t, next) # Nil /\ Drop(t, next).op = "drop") <=> t # Nil
         /\ t # Nil => Drop(t, next).side = t
         /\ ~(Drop(t, next) # Nil /\ Drop(t, next).op = "table")
  <1>1. next # Nil => next \in RuntimeCall /\ next.op \in {"load", "copy", "take"}
    BY CellsAssumption DEF NextCall, RuntimeCall, LoadCall, TransferCall
  <1>2. CASE t = Nil
    BY <1>1, <1>2 DEF Drop, Pending
  <1>3. CASE t # Nil
    <2>1. Drop(t, next) = [op |-> "drop", side |-> t, next |-> next]
      BY <1>3 DEF Drop
    <2>2. Drop(t, next) \in DropCall
      BY <1>3, <2>1 DEF DropCall, NextCall
    <2>3. Drop(t, next) \in RuntimeCall /\ Drop(t, next) # Nil
      BY <2>2, CellsAssumption DEF RuntimeCall
    <2> QED BY <1>3, <2>1, <2>3 DEF Pending
  <1> QED BY <1>2, <1>3

(* Weak variables, their counts and the call of c change: nothing else.    *)
VarStep(c) ==
  /\ UNCHANGED <<memory, table, count, owner, held, unowned, dying, halted>>
  /\ weak' \in [Tables -> Nat] /\ weakVar' \in [Vars -> Tables \cup {Nil}]
  /\ call' \in [Contexts -> RuntimeCall \cup {Nil}]
  /\ \A d \in Contexts : d # c =>
       /\ call'[d] = call[d]
       /\ \A v \in Relies(Pending(call[d])) : weakVar'[v] = weakVar[v]
  /\ CallGood(c)' /\ Apart(c)
  /\ WeakGood'

LEMMA VarStepKeeps ==
  ASSUME IInv, NEW c \in Contexts, VarStep(c)
  PROVE  IInv'
  <1> USE DEF VarStep
  <1>1. TypeOK'
    BY Parts DEF TypeOK
  <1>2. ObjectsGood'
    <2>1. \A o \in Instances : table[o] # Nil => table[o] \in memory'
      BY Parts DEF TablesGood
    <2> QED BY <2>1, Parts, ObjectsKept DEF Instances
  <1>3. \A d \in Contexts : d # c => Keeps(d)
    BY DEF Keeps, Holds
  <1>4. CallsGood'
    BY <1>3, Parts, CallsKept
  <1> QED
    BY <1>1, <1>2, <1>4 DEF IInv, ObjectsGood, CallsGood

(* The reference in v moves to the call of c, and v gets a new one.        *)
MovesWeak(c, v, side) ==
  /\ side \in Tables \cup {Nil} /\ (side # Nil => side \in memory)
  /\ ~At(c, "drop") /\ UNCHANGED <<memory, table>>
  /\ weakVar' = [weakVar EXCEPT ![v] = side]
  /\ \A t \in Tables : weak'[t] = weak[t] + (IF t = side THEN 1 ELSE 0)
  /\ \A d \in Contexts : d # c => call'[d] = call[d]
  /\ At(c, "drop")' <=> weakVar[v] # Nil
  /\ weakVar[v] # Nil => call'[c].side = weakVar[v]

LEMMA WeakMoves ==
  ASSUME IInv, NEW c \in Contexts, NEW v \in Vars, NEW side, MovesWeak(c, v, side)
  PROVE  WeakGood'
  <1> USE DEF MovesWeak
  <1>1. /\ \A u \in Vars : weakVar'[u] = IF u = v THEN side ELSE weakVar[u]
        /\ \A u \in Vars : weakVar[u] \in memory \cup {Nil} /\ weakVar[u] \in Tables \cup {Nil}
        /\ weak \in [Tables -> Nat]
    BY Parts DEF TypeOK, WeakGood
  <1>2. \A d \in Contexts : d # c => (At(d, "drop")' <=> At(d, "drop"))
    BY DEF At
  <1>3. \A u \in Vars : weakVar'[u] \in memory' \cup {Nil}
    BY <1>1
  <1>4. \A d \in Contexts : At(d, "drop")' => call'[d].side \in memory'
    <2> SUFFICES ASSUME NEW d \in Contexts, At(d, "drop")' PROVE call'[d].side \in memory'
      OBVIOUS
    <2>1. CASE d = c
      BY <1>1, <2>1
    <2>2. CASE d # c
      BY <1>2, <2>2, Parts DEF WeakGood
    <2> QED BY <2>1, <2>2
  <1>5. ASSUME NEW t \in Tables, t \in memory'
        PROVE  /\ weak'[t] = Cardinality(InVars(t)') + Cardinality(InCalls(t)') + Cardinality(InObjects(t)')
               /\ weak'[t] > 0
    <2>1. /\ weak[t] = Cardinality(InVars(t)) + Cardinality(InCalls(t)) + Cardinality(InObjects(t))
          /\ weak[t] > 0 /\ weak[t] \in Nat /\ t # Nil
      BY <1>1, <1>5, Parts, CellFacts DEF WeakGood
    <2>2. InObjects(t)' = InObjects(t)
      BY DEF InObjects, Instances
    <2> PICK a, b, e, f, g : /\ a = InVars(t) /\ b = InVars(t)' /\ e = InCalls(t) /\ f = InCalls(t)'
                             /\ g = InObjects(t)
      OBVIOUS
    <2>3. a \in SUBSET Vars /\ b \in SUBSET Vars /\ e \in SUBSET Contexts /\ f \in SUBSET Contexts
      BY FibersFinite, PrimedFibersFinite
    <2>4. /\ \A y : y # v => (y \in a <=> y \in b)
          /\ v \in a <=> weakVar[v] = t
          /\ v \in b <=> side = t
      BY <1>1 DEF InVars
    <2>5. /\ \A y : y # c => (y \in e <=> y \in f)
          /\ c \notin e /\ (c \in f <=> weakVar[v] = t)
      BY <1>1, <1>2, <2>1 DEF InCalls
    <2>6. /\ Cardinality(a) \in Nat /\ Cardinality(b) \in Nat
          /\ (v \in a <=> v \in b) => a = b
          /\ v \notin a /\ v \in b => Cardinality(b) = Cardinality(a) + 1
          /\ v \in a /\ v \notin b => Cardinality(a) = Cardinality(b) + 1
      <3>1. SameBut(Vars, a, b, v)
        BY <2>3, <2>4, CellsAssumption DEF SameBut
      <3> QED BY <3>1, SameButShift
    <2>7. /\ Cardinality(e) \in Nat /\ Cardinality(f) \in Nat
          /\ (c \in e <=> c \in f) => e = f
          /\ c \notin e /\ c \in f => Cardinality(f) = Cardinality(e) + 1
      <3>1. SameBut(Contexts, e, f, c)
        BY <2>3, <2>5, CellsAssumption DEF SameBut
      <3> QED BY <3>1, SameButShift
    <2>8. weak[t] = Cardinality(a) + Cardinality(e) + Cardinality(g) /\ Cardinality(g) \in Nat
      BY <2>1, FibersFinite
    <2>9. weak'[t] = weak[t] + (IF t = side THEN 1 ELSE 0)
      OBVIOUS
    <2>10. weak'[t] = Cardinality(b) + Cardinality(f) + Cardinality(g)
      <3>1. CASE weakVar[v] = t
        BY <2>4, <2>5, <2>6, <2>7, <2>8, <2>9, <3>1
      <3>2. CASE weakVar[v] # t
        BY <2>4, <2>5, <2>6, <2>7, <2>8, <2>9, <3>2
      <3> QED BY <3>1, <3>2
    <2> QED BY <2>1, <2>2, <2>9, <2>10
  <1> QED
    BY <1>3, <1>4, <1>5 DEF WeakGood


LEMMA WritesOrReads ==
  ASSUME NEW k, NEW v \in Relies(k)
  PROVE  v \in Vars /\ (v \in Writes(k) \/ v \in Reads(k))
  BY DEF Writes, Reads, Relies

LEMMA ReliesApart ==
  ASSUME NEW c \in Contexts, NEW v \in Vars, MayWrite(c, v)
  PROVE  \A d \in Contexts : d # c =>
           /\ v \notin Writes(Pending(call[d])) /\ v \notin Reads(Pending(call[d]))
           /\ v \notin Relies(Pending(call[d]))
  BY WritesOrReads DEF MayWrite, MayRead

(* The variable of no other call is cleared, and then `next` can happen.   *)
Clears(c, v, next) ==
  /\ call[c] = Nil /\ Clear(c, v, next)
  /\ \A d \in Contexts : d # c => v \notin Relies(Pending(call[d]))
  /\ next # Nil => Ready(c) /\ GoodCall(c, next)' /\ Separate(c, next)

LEMMA ClearKeeps ==
  ASSUME IInv, NEW c \in Contexts, NEW v \in Vars, NEW next \in NextCall, Clears(c, v, next)
  PROVE  IInv'
  <1> PICK t \in Tables \cup {Nil} : t = weakVar[v]
    BY Parts DEF TypeOK
  <1> PICK k \in RuntimeCall \cup {Nil} : k = Drop(t, next)
    BY DropFacts
  <1>1. /\ weakVar' = [weakVar EXCEPT ![v] = Nil] /\ call' = [call EXCEPT ![c] = k]
        /\ UNCHANGED <<memory, table, count, weak, owner, held, unowned, dying, halted>>
        /\ call[c] = Nil
    BY DEF Clears, Clear, SetCall, heap
  <1>2. /\ Pending(k) = next /\ ~(k # Nil /\ k.op = "table")
        /\ (k # Nil /\ k.op = "drop") <=> t # Nil
        /\ t # Nil => k.side = t
    BY DropFacts
  <1>3. /\ call' \in [Contexts -> RuntimeCall \cup {Nil}] /\ call'[c] = k
        /\ \A d \in Contexts : d # c => call'[d] = call[d]
        /\ weakVar' \in [Vars -> Tables \cup {Nil}]
        /\ \A u \in Vars : u # v => weakVar'[u] = weakVar[u]
        /\ weak' \in [Tables -> Nat]
    BY <1>1, Parts DEF TypeOK
  <1>4. WeakGood'
    <2>1. \A u \in Tables : weak'[u] = weak[u] + (IF u = Nil THEN 1 ELSE 0)
      BY <1>1, <1>3, CellFacts
    <2>2. ~At(c, "drop") /\ (At(c, "drop")' <=> weakVar[v] # Nil)
      BY <1>1, <1>2, <1>3 DEF At
    <2>3. weakVar[v] # Nil => call'[c].side = weakVar[v]
      BY <1>2, <1>3
    <2>4. MovesWeak(c, v, Nil)
      BY <1>1, <1>3, <2>1, <2>2, <2>3 DEF MovesWeak
    <2> QED BY <2>4, WeakMoves
  <1>5. CallGood(c)'
    <2>1. Pending(call'[c]) = next
      BY <1>2, <1>3
    <2>2. next # Nil => GoodCall(c, next)' /\ Ready(c)'
      BY <1>1 DEF Clears, Ready, Top
    <2> QED BY <2>1, <2>2 DEF CallGood, GoodCall, Ready
  <1>6. Apart(c)
    <2>1. Pending(call'[c]) = next /\ ~At(c, "table")'
      BY <1>2, <1>3 DEF At
    <2>2. CASE next = Nil
      BY <2>1, <2>2, Parts, ApartKept DEF CallsGood
    <2>3. CASE next # Nil
      BY <2>1, <2>3 DEF Apart, Clears, Separate
    <2> QED BY <2>2, <2>3
  <1>7. ASSUME NEW d \in Contexts, d # c, NEW u \in Relies(Pending(call[d]))
        PROVE  weakVar'[u] = weakVar[u]
    <2>1. u \in Vars /\ u # v
      BY <1>7 DEF Clears, Relies
    <2> QED BY <1>3, <2>1
  <1>8. VarStep(c)
    BY <1>1, <1>3, <1>4, <1>5, <1>6, <1>7 DEF VarStep
  <1> QED BY <1>8, VarStepKeeps

LEMMA WeakDestroyKeeps ==
  ASSUME IInv, NEW c \in Contexts, NEW v \in Vars, WeakDestroy(c, v)
  PROVE  IInv'
  <1>1. Clears(c, v, Nil)
    BY ReliesApart DEF WeakDestroy, Runs, Clears
  <1> QED BY <1>1, ClearKeeps DEF NextCall

LEMMA DestroyFieldKeeps ==
  ASSUME IInv, NEW c \in Contexts, NEW v \in Vars, DestroyField(c, v)
  PROVE  IInv'
  <1> PICK o \in Objects : o = Home[v]
    BY DEF DestroyField
  <1>1. TakesApart(c, o, {"fields", "partial"}) /\ weakVar[v] # Nil /\ Clear(c, v, Nil)
    BY DEF DestroyField
  <1>2. /\ o \in Instances /\ call[c] = Nil /\ Top(c).at \in {"fields", "partial"}
        /\ EntryGood(c, Len(dying[c]), o) /\ dying[c][Len(dying[c])] = Top(c)
        /\ dying[c] # << >> /\ Top(c).object = o
    BY <1>1, TakenApart
  <1>3. Len(dying[c]) \in Stack(c)
    BY <1>2, Parts, TopFacts
  <1>4. ASSUME NEW d \in Contexts, d # c, Ready(d), Reachable(d, o) PROVE FALSE
    <2>1. Whole(o)
      BY <1>4, Parts, ReferredWhole DEF MayUnown
    <2>2. Top(c).at = "fields"
      BY <1>2, <1>3, <2>1 DEF Whole
    <2>3. Counts(o).deiniting
      BY <1>2, <2>2 DEF EntryGood
    <2>4. CASE held[d][o] > 0
      BY <2>3, <2>4, Parts DEF RefsGood
    <2>5. CASE InDeinit(d, o)
      <3>1. Len(dying[d]) \in Stack(d) /\ dying[d][Len(dying[d])].object = o
        BY <2>5, Parts, TopFacts DEF InDeinit
      <3> QED BY <1>2, <1>4, <3>1 DEF EntryGood
    <2> QED BY <1>4, <2>4, <2>5 DEF Reachable
  <1>5. ASSUME NEW d \in Contexts, d # c, v \in Relies(Pending(call[d])) PROVE FALSE
    <2> PICK k : k = Pending(call[d])
      OBVIOUS
    <2>1. /\ k # Nil /\ v \in Vars /\ v # Nil
          /\ (k.op = "load" /\ v = k.src) \/ (k.op \in {"copy", "take"} /\ v = k.dest)
      BY <1>5, CellFacts DEF Relies
    <2>2. Ready(d) /\ LoadCallGood(d, k) /\ TransferCallGood(d, k)
      BY <2>1, Parts DEF CallsGood, CallGood, Ready
    <2>3. CASE k.op = "load" /\ v = k.src
      BY <1>4, <1>5, <2>1, <2>2, <2>3 DEF LoadCallGood
    <2>4. CASE k.op \in {"copy", "take"} /\ v = k.dest
      BY <1>1, <2>2, <2>4 DEF TransferCallGood
    <2> QED BY <2>1, <2>3, <2>4
  <1>6. Clears(c, v, Nil)
    BY <1>1, <1>2, <1>5 DEF Clears
  <1> QED BY <1>6, ClearKeeps DEF NextCall

LEMMA WeakTakeStrongKeeps ==
  ASSUME IInv, Restricted, NEW c \in Contexts, NEW v \in Vars, WeakTakeStrong(c, v)
  PROVE  IInv'
  <1>1. /\ Runs(c) /\ MayWrite(c, v) /\ weakVar[v] # Nil
        /\ Alive(weakVar[v]) /\ held[c][owner[weakVar[v]]] > 0
        /\ Clear(c, v, [op |-> "load", side |-> weakVar[v], src |-> Nil])
    BY DEF WeakTakeStrong, Restricted
  <1> PICK t \in Tables : t = weakVar[v] /\ t \in memory
    BY <1>1, Parts DEF TypeOK, WeakGood
  <1> PICK o \in Instances : Behind(t, o)
    BY <1>1, AliveBehind
  <1>2. [op |-> "load", side |-> t, src |-> Nil] \in LoadCall
    BY DEF LoadCall
  <1> PICK k \in LoadCall : k = [op |-> "load", side |-> t, src |-> Nil]
    BY <1>2
  <1>3. k.op = "load" /\ k.side = t /\ k.src = Nil
    OBVIOUS
  <1>4. UNCHANGED <<table, owner, held>> /\ Clear(c, v, k)
    BY <1>1 DEF Clear, heap
  <1>5. GoodCall(c, k)'
    <2>1. Attached(t)' /\ held'[c][owner'[t]] > 0
      BY <1>1, <1>4 DEF Behind, Attached, Instances
    <2> QED BY <1>3, <2>1 DEF GoodCall, TableCallGood, UnownCallGood, FormCallGood,
                              LoadCallGood, TransferCallGood
  <1>6. Separate(c, k)
    <2>1. Writes(k) = {} /\ Reads(k) \subseteq {Nil} /\ k.op # "table"
      BY <1>3 DEF Writes, Reads
    <2>2. \A d \in Contexts : Writes(Pending(call[d])) \subseteq Vars
      BY DEF Writes
    <2> QED BY <2>1, <2>2, CellFacts DEF Separate
  <1>7. Clears(c, v, k)
    BY <1>1, <1>4, <1>5, <1>6, ReliesApart DEF Clears, Runs, Ready
  <1> QED BY <1>7, ClearKeeps DEF NextCall

LEMMA WeakTransferKeeps ==
  ASSUME IInv, NEW c \in Contexts, NEW dest \in Vars, NEW src \in Vars,
         NEW op \in {"copy", "take"}, WeakTransfer(c, dest, src, op)
  PROVE  IInv'
  <1>1. /\ Runs(c) /\ dest # src /\ MayWrite(c, dest) /\ MayRead(c, src)
        /\ op = "take" => MayWrite(c, src)
        /\ Clear(c, dest, [op |-> op, dest |-> dest, src |-> src])
    BY DEF WeakTransfer, MayWrite
  <1>2. [op |-> op, dest |-> dest, src |-> src] \in TransferCall
    BY DEF TransferCall
  <1> PICK k \in TransferCall : k = [op |-> op, dest |-> dest, src |-> src]
    BY <1>2
  <1>3. k.op = op /\ k.dest = dest /\ k.src = src
    OBVIOUS
  <1>4. weakVar' = [weakVar EXCEPT ![dest] = Nil] /\ Clear(c, dest, k)
    BY <1>1 DEF Clear
  <1>5. GoodCall(c, k)'
    <2>1. weakVar'[dest] = Nil
      BY <1>4, Parts DEF TypeOK
    <2> QED BY <1>1, <1>3, <2>1 DEF GoodCall, TableCallGood, UnownCallGood, FormCallGood,
                              LoadCallGood, TransferCallGood
  <1>6. Separate(c, k)
    <2>1. \A u \in Writes(k) : u = dest \/ (u = src /\ op = "take")
      BY <1>3 DEF Writes
    <2>2. Reads(k) \subseteq {src} /\ k.op # "table"
      BY <1>3 DEF Reads
    <2>3. \A d \in Contexts : d # c => src \notin Writes(Pending(call[d]))
      BY <1>1 DEF MayRead
    <2>4. \A d \in Contexts : d # c =>
            dest \notin Writes(Pending(call[d])) /\ dest \notin Reads(Pending(call[d]))
      BY <1>1, ReliesApart
    <2>5. op = "take" => \A d \in Contexts : d # c => src \notin Reads(Pending(call[d]))
      BY <1>1 DEF MayWrite
    <2> QED BY <2>1, <2>2, <2>3, <2>4, <2>5 DEF Separate
  <1>7. Clears(c, dest, k)
    BY <1>1, <1>4, <1>5, <1>6, ReliesApart DEF Clears, Runs, Ready
  <1> QED BY <1>7, ClearKeeps DEF NextCall


LEMMA FormWeakReferenceKeeps ==
  ASSUME IInv, NEW c \in Contexts, FormWeakReference(c)
  PROVE  IInv'
  <1> PICK k \in RuntimeCall : k = call[c]
    BY InCall DEF FormWeakReference
  <1>1. /\ k.op = "form" /\ k.dest \in Vars /\ k.side \in Tables \cup {Nil}
        /\ FormCallGood(c, k) /\ Pending(k) = k /\ ~At(c, "drop") /\ k # Nil
    BY InCall, CallFields DEF FormWeakReference
  <1> PICK v \in Vars : v = k.dest
    BY <1>1
  <1> PICK side : side = IF Alive(k.side) THEN k.side ELSE Nil
    OBVIOUS
  <1> PICK old \in Tables \cup {Nil} : old = weakVar[v]
    BY Parts DEF TypeOK
  <1>2. Nil \in NextCall
    BY DEF NextCall
  <1> PICK n \in RuntimeCall \cup {Nil} : n = Drop(old, Nil)
    BY <1>2, DropFacts
  <1>3. /\ weak' = [t \in Tables |-> weak[t] + (IF t = side THEN 1 ELSE 0)]
        /\ weakVar' = [weakVar EXCEPT ![v] = side]
        /\ call' = [call EXCEPT ![c] = n]
        /\ UNCHANGED <<memory, table, count, owner, held, unowned, dying, halted>>
    BY DEF FormWeakReference, SetCall
  <1>4. /\ Pending(n) = Nil /\ ~(n # Nil /\ n.op = "table")
        /\ (n # Nil /\ n.op = "drop") <=> old # Nil
        /\ old # Nil => n.side = old
    BY <1>2, DropFacts
  <1>5. side \in Tables \cup {Nil} /\ (side # Nil => side \in memory)
    <2>1. CASE Alive(k.side)
      <3> PICK t \in Tables : t = k.side
        BY <1>1, <2>1 DEF Alive
      <3>1. Attached(t) /\ MayUnown(c, owner[t])
        BY <1>1, <2>1 DEF FormCallGood, Alive, MayUnown
      <3>2. t \in memory
        BY <3>1, AttachedBehind DEF Behind
      <3> QED BY <2>1, <3>2
    <2>2. CASE ~Alive(k.side)
      BY <2>2
    <2> QED BY <2>1, <2>2
  <1>6. /\ call' \in [Contexts -> RuntimeCall \cup {Nil}] /\ call'[c] = n
        /\ \A d \in Contexts : d # c => call'[d] = call[d]
        /\ weakVar' \in [Vars -> Tables \cup {Nil}]
        /\ \A u \in Vars : u # v => weakVar'[u] = weakVar[u]
    BY <1>3, <1>5, Parts DEF TypeOK
  <1>7. weak' \in [Tables -> Nat]
    <2>1. weak \in [Tables -> Nat]
      BY Parts DEF TypeOK
    <2> QED BY <1>3, <2>1
  <1>8. WeakGood'
    <2>1. At(c, "drop")' <=> weakVar[v] # Nil
      BY <1>4, <1>6 DEF At
    <2>2. weakVar[v] # Nil => call'[c].side = weakVar[v]
      BY <1>4, <1>6
    <2>3. MovesWeak(c, v, side)
      BY <1>1, <1>3, <1>5, <1>6, <2>1, <2>2 DEF MovesWeak
    <2> QED BY <2>3, WeakMoves
  <1>9. Pending(call'[c]) = Nil /\ ~At(c, "table")'
    BY <1>4, <1>6 DEF At
  <1>10. CallGood(c)' /\ Apart(c)
    BY <1>9, Parts, ApartKept DEF CallsGood, CallGood
  <1>11. ASSUME NEW d \in Contexts, d # c, NEW u \in Relies(Pending(call[d]))
         PROVE  weakVar'[u] = weakVar[u]
    <2>1. v \in Writes(Pending(call[c]))
      BY <1>1 DEF Writes
    <2>2. v \notin Writes(Pending(call[d])) /\ v \notin Reads(Pending(call[d]))
      BY <1>11, <2>1, Parts DEF CallsGood, CallsApart
    <2>3. u \in Vars /\ (u \in Writes(Pending(call[d])) \/ u \in Reads(Pending(call[d])))
      BY <1>11, WritesOrReads
    <2> QED BY <1>6, <2>2, <2>3
  <1>12. VarStep(c)
    BY <1>3, <1>6, <1>7, <1>8, <1>10, <1>11 DEF VarStep
  <1> QED BY <1>12, VarStepKeeps

LEMMA CopyInitKeeps ==
  ASSUME IInv, NEW c \in Contexts, CopyInit(c)
  PROVE  IInv'
  <1> PICK k \in RuntimeCall : k = call[c]
    BY InCall DEF CopyInit
  <1>1. /\ k.op = "copy" /\ k.dest \in Vars /\ k.src \in Vars
        /\ TransferCallGood(c, k) /\ Pending(k) = k /\ ~At(c, "drop") /\ k # Nil
    BY InCall, CallFields DEF CopyInit
  <1> PICK v \in Vars : v = k.dest /\ weakVar[v] = Nil
    BY <1>1 DEF TransferCallGood
  <1> PICK src \in Tables \cup {Nil} : src = weakVar[k.src] /\ (src # Nil => src \in memory)
    BY <1>1, Parts DEF TypeOK, WeakGood
  <1> PICK side : side = IF Alive(src) THEN src ELSE Nil
    OBVIOUS
  <1>2. /\ weak' = [t \in Tables |-> weak[t] + (IF t = side THEN 1 ELSE 0)]
        /\ weakVar' = [weakVar EXCEPT ![v] = side]
        /\ call' = [call EXCEPT ![c] = Nil]
        /\ UNCHANGED <<memory, table, count, owner, held, unowned, dying, halted>>
    BY DEF CopyInit, SetCall
  <1>3. side \in Tables \cup {Nil} /\ (side # Nil => side \in memory)
    OBVIOUS
  <1>4. CallEnds(c)
    BY <1>2, Parts, UnchangedCall
  <1>5. /\ weakVar' \in [Vars -> Tables \cup {Nil}]
        /\ \A u \in Vars : u # v => weakVar'[u] = weakVar[u]
    BY <1>2, <1>3, Parts DEF TypeOK
  <1>6. weak' \in [Tables -> Nat]
    <2>1. weak \in [Tables -> Nat]
      BY Parts DEF TypeOK
    <2> QED BY <1>2, <2>1
  <1>7. WeakGood'
    <2>1. ~At(c, "drop")'
      BY <1>4 DEF At, CallEnds
    <2>2. MovesWeak(c, v, side)
      BY <1>1, <1>2, <1>3, <1>4, <2>1 DEF MovesWeak, CallEnds
    <2> QED BY <2>2, WeakMoves
  <1>8. CallGood(c)' /\ Apart(c)
    BY <1>4, Parts, EndedCall
  <1>9. ASSUME NEW d \in Contexts, d # c, NEW u \in Relies(Pending(call[d]))
        PROVE  weakVar'[u] = weakVar[u]
    <2>1. v \in Writes(Pending(call[c]))
      BY <1>1 DEF Writes
    <2>2. v \notin Writes(Pending(call[d])) /\ v \notin Reads(Pending(call[d]))
      BY <1>9, <2>1, Parts DEF CallsGood, CallsApart
    <2>3. u \in Vars /\ (u \in Writes(Pending(call[d])) \/ u \in Reads(Pending(call[d])))
      BY <1>9, WritesOrReads
    <2> QED BY <1>5, <2>2, <2>3
  <1>10. VarStep(c)
    BY <1>2, <1>4, <1>5, <1>6, <1>7, <1>8, <1>9 DEF VarStep, CallEnds
  <1> QED BY <1>10, VarStepKeeps

LEMMA TakeInitKeeps ==
  ASSUME IInv, NEW c \in Contexts, TakeInit(c)
  PROVE  IInv'
  <1> PICK k \in RuntimeCall : k = call[c]
    BY InCall DEF TakeInit
  <1>1. /\ k.op = "take" /\ k.dest \in Vars /\ k.src \in Vars
        /\ TransferCallGood(c, k) /\ Pending(k) = k /\ ~At(c, "drop") /\ k # Nil
    BY InCall, CallFields DEF TakeInit
  <1> PICK v \in Vars : v = k.dest /\ weakVar[v] = Nil
    BY <1>1 DEF TransferCallGood
  <1> PICK src \in Vars : src = k.src /\ src # v
    BY <1>1 DEF TransferCallGood
  <1>2. /\ weakVar' = [weakVar EXCEPT ![v] = weakVar[src], ![src] = Nil]
        /\ call' = [call EXCEPT ![c] = Nil]
        /\ UNCHANGED <<memory, table, count, weak, owner, held, unowned, dying, halted>>
    BY DEF TakeInit, SetCall, heap
  <1>3. CallEnds(c) /\ ~At(c, "drop")'
    BY <1>2, Parts, UnchangedCall DEF At, CallEnds
  <1>4. /\ weakVar' \in [Vars -> Tables \cup {Nil}]
        /\ weakVar'[v] = weakVar[src] /\ weakVar'[src] = Nil
        /\ \A u \in Vars : u # v /\ u # src => weakVar'[u] = weakVar[u]
        /\ weak' \in [Tables -> Nat]
    <2> PICK old \in Tables \cup {Nil} : old = weakVar[src]
      BY Parts DEF TypeOK
    <2>1. weakVar' = [weakVar EXCEPT ![v] = old, ![src] = Nil]
      BY <1>2
    <2>2. weakVar \in [Vars -> Tables \cup {Nil}] /\ weak \in [Tables -> Nat]
      BY Parts DEF TypeOK
    <2>3. weakVar' \in [Vars -> Tables \cup {Nil}]
      BY <2>1, <2>2
    <2>4. weakVar'[v] = old /\ weakVar'[src] = Nil
      BY <2>1, <2>2
    <2>5. \A u \in Vars : u # v /\ u # src => weakVar'[u] = weakVar[u]
      BY <2>1, <2>2
    <2> QED BY <1>2, <2>2, <2>3, <2>4, <2>5
  <1>5. \A d \in Contexts : At(d, "drop")' <=> At(d, "drop")
    BY <1>1, <1>3 DEF At, CallEnds
  <1>6. \A d \in Contexts : At(d, "drop") => call'[d] = call[d]
    BY <1>1, <1>3 DEF CallEnds
  <1>7. ASSUME NEW t \in Tables
        PROVE  /\ Cardinality(InVars(t)') = Cardinality(InVars(t))
               /\ InCalls(t)' = InCalls(t) /\ InObjects(t)' = InObjects(t)
    <2>1. InCalls(t)' = InCalls(t) /\ InObjects(t)' = InObjects(t)
      BY <1>2, <1>5, <1>6 DEF InCalls, InObjects, Instances
    <2> PICK a, b, m : a = InVars(t) /\ b = InVars(t)' /\ m = InVars(t) \ {src}
      OBVIOUS
    <2>2. a \in SUBSET Vars /\ b \in SUBSET Vars /\ m \in SUBSET Vars /\ t # Nil
      BY FibersFinite, PrimedFibersFinite, CellFacts
    <2>3. /\ \A u \in Vars : u # v /\ u # src => (u \in a <=> u \in b)
          /\ v \notin a /\ src \notin b /\ (src \in a <=> v \in b)
      BY <1>4, <2>2 DEF InVars
    <2>4. SameBut(Vars, m, a, src) /\ SameBut(Vars, m, b, v) /\ src \notin m /\ v \notin m
      BY <2>2, <2>3, CellsAssumption DEF SameBut
    <2>5. /\ Cardinality(m) \in Nat
          /\ Cardinality(a) = IF src \in a THEN Cardinality(m) + 1 ELSE Cardinality(m)
      BY <2>4, SameButShift
    <2>6. Cardinality(b) = IF v \in b THEN Cardinality(m) + 1 ELSE Cardinality(m)
      BY <2>4, SameButShift
    <2> QED BY <2>1, <2>3, <2>5, <2>6
  <1>8. WeakGood'
    <2>1. \A u \in Vars : weakVar'[u] \in memory' \cup {Nil}
      BY <1>2, <1>4, Parts DEF WeakGood
    <2>2. \A d \in Contexts : At(d, "drop")' => call'[d].side \in memory'
      BY <1>2, <1>5, <1>6, Parts DEF WeakGood
    <2> QED BY <1>2, <1>7, <2>1, <2>2, Parts DEF WeakGood
  <1>9. CallGood(c)' /\ Apart(c)
    BY <1>3, Parts, EndedCall
  <1>10. ASSUME NEW d \in Contexts, d # c, NEW u \in Relies(Pending(call[d]))
         PROVE  weakVar'[u] = weakVar[u]
    <2>1. v \in Writes(Pending(call[c])) /\ src \in Writes(Pending(call[c]))
      BY <1>1 DEF Writes
    <2>2. /\ v \notin Writes(Pending(call[d])) /\ v \notin Reads(Pending(call[d]))
          /\ src \notin Writes(Pending(call[d])) /\ src \notin Reads(Pending(call[d]))
      BY <1>10, <2>1, Parts DEF CallsGood, CallsApart
    <2>3. u \in Vars /\ (u \in Writes(Pending(call[d])) \/ u \in Reads(Pending(call[d])))
      BY <1>10, WritesOrReads
    <2> QED BY <1>4, <2>2, <2>3
  <1>11. VarStep(c)
    BY <1>2, <1>3, <1>4, <1>8, <1>9, <1>10 DEF VarStep, CallEnds
  <1> QED BY <1>11, VarStepKeeps


-----------------------------------------------------------------------------
(***************************************************************************)
(* The invariant holds from the start, and every step keeps it.            *)
(***************************************************************************)
LEMMA InitIInv == Init => IInv
  <1> SUFFICES ASSUME Init PROVE IInv
    OBVIOUS
  <1>1. /\ memory = {} /\ Instances = {}
        /\ table = [o \in Objects |-> Nil] /\ count = [x \in Cells |-> NoCount]
        /\ weak = [t \in Tables |-> 0] /\ owner = [t \in Tables |-> Nil]
        /\ weakVar = [v \in Vars |-> Nil]
        /\ held = [c \in Contexts |-> [o \in Objects |-> 0]]
        /\ unowned = [c \in Contexts |-> [o \in Objects |-> 0]]
        /\ call = [c \in Contexts |-> Nil] /\ dying = [c \in Contexts |-> << >>]
        /\ halted = FALSE
    BY DEF Init, Instances
  <1>2. TypeOK
    <2>1. NoCount \in CountType
      BY CountsAssumption DEF NoCount, CountType
    <2>2. << >> \in Seq(Frame)
      OBVIOUS
    <2>3. dying \in [Contexts -> Seq(Frame)]
      BY <1>1, <2>2
    <2>4. dying \in [Contexts -> Seq([object : Objects, at : Stages])]
      BY <2>3 DEF Frame
    <2> QED BY <1>1, <2>1, <2>4 DEF TypeOK
  <1>3. RefsGood
    BY <1>1 DEF RefsGood
  <1>4. StacksGood
    BY <1>1 DEF StacksGood, Stack
  <1>5. TablesGood /\ CountsGood
    BY <1>1 DEF TablesGood, CountsGood
  <1>6. \A c \in Contexts : call[c] = Nil
    BY <1>1
  <1>7. WeakGood
    BY <1>1, <1>6 DEF WeakGood, At
  <1>8. \A c \in Contexts : CallGood(c)
    BY <1>6 DEF CallGood, Pending
  <1>9. CallsApart
    BY <1>6 DEF CallsApart, Writes, Pending, At
  <1> QED BY <1>2, <1>3, <1>4, <1>5, <1>7, <1>8, <1>9 DEF IInv

LEMMA StepsKeep ==
  ASSUME Restricted, IInv, NEW c \in Contexts, Steps(c)
  PROVE  IInv'
  <1>1. CASE IncrementUnowned(c)
    BY <1>1, IncrementUnownedKeeps
  <1>2. CASE FormWeakReference(c)
    BY <1>2, FormWeakReferenceKeeps
  <1>3. CASE DropWeak(c)
    BY <1>3, DropWeakKeeps
  <1>4. CASE TryRetain(c)
    BY <1>4, TryRetainKeeps
  <1>5. CASE TryRetainOverflows(c)
    BY <1>5, AbortKeeps DEF TryRetainOverflows
  <1>6. CASE CopyInit(c)
    BY <1>6, CopyInitKeeps
  <1>7. CASE TakeInit(c)
    BY <1>7, TakeInitKeeps
  <1>8. ASSUME NEW t \in Tables, AllocateSideTable(c, t) PROVE IInv'
    BY <1>8, AllocateSideTableKeeps
  <1>9. ASSUME NEW v \in Vars, DestroyField(c, v) PROVE IInv'
    BY <1>9, DestroyFieldKeeps
  <1> QED
    BY <1>1, <1>2, <1>3, <1>4, <1>5, <1>6, <1>7, <1>8, <1>9 DEF Steps

LEMMA CountedCallsKeep ==
  ASSUME Restricted, IInv, NEW c \in Contexts, NEW o \in Objects, NEW n \in 1 .. MaxN,
         \/ Retain(c, o, n) \/ RetainOverflows(c, o, n) \/ Release(c, o, n)
         \/ UnownedRetain(c, o, n) \/ UnownedRetainSlow(c, o, n)
         \/ UnownedRetainOverflows(c, o, n) \/ UnownedRelease(c, o, n)
  PROVE  IInv'
  <1>1. CASE Retain(c, o, n)
    BY <1>1, RetainKeeps
  <1>2. CASE RetainOverflows(c, o, n)
    BY <1>2, AbortKeeps DEF RetainOverflows
  <1>3. CASE Release(c, o, n)
    BY <1>3, ReleaseSome, ReleaseLast
  <1>4. CASE UnownedRetain(c, o, n)
    BY <1>4, UnownedRetainKeeps
  <1>5. CASE UnownedRetainSlow(c, o, n)
    BY <1>5, UnownedRetainSlowKeeps
  <1>6. CASE UnownedRetainOverflows(c, o, n)
    BY <1>6, AbortKeeps DEF UnownedRetainOverflows
  <1>7. CASE UnownedRelease(c, o, n)
    BY <1>7, UnownedReleaseSome, UnownedReleaseLast
  <1> QED BY <1>1, <1>2, <1>3, <1>4, <1>5, <1>6, <1>7

LEMMA FreeAtFree ==
  ASSUME IInv, NEW c \in Contexts, NEW o \in Objects, FreeObject(c, o)
  PROVE  AtFree(o)
  <1>1. dying[c] # << >> /\ Top(c) = [object |-> o, at |-> "free"]
    BY DEF FreeObject, TakesApart
  <1> QED BY <1>1, Parts, TopFacts DEF AtFree

LEMMA ObjectCallsKeep ==
  ASSUME Restricted, IInv, FreeGood, NEW c \in Contexts, NEW o \in Objects,
         \/ \E d \in Contexts : HandOver(c, d, o)
         \/ AllocObject(c, o) \/ DeallocPartialClassInstance(c, o)
         \/ UnownedRetainStrongAborts(c, o) \/ UnownedRetainStrong(c, o)
         \/ EndDeinit(c, o) \/ DeallocObject(c, o) \/ DeallocPartial(c, o)
         \/ FreeObject(c, o) \/ ReleaseObject(c, o)
  PROVE  IInv'
  <1>1. ASSUME NEW d \in Contexts, HandOver(c, d, o) PROVE IInv'
    BY <1>1, HandOverKeeps
  <1>2. CASE AllocObject(c, o)
    BY <1>2, AllocObjectKeeps
  <1>3. CASE DeallocPartialClassInstance(c, o)
    BY <1>3, DeallocPartialClassInstanceKeeps
  <1>4. CASE UnownedRetainStrongAborts(c, o)
    BY <1>4, AbortKeeps DEF UnownedRetainStrongAborts
  <1>5. CASE UnownedRetainStrong(c, o)
    BY <1>5, UnownedRetainStrongKeeps
  <1>6. CASE EndDeinit(c, o)
    BY <1>6, EndDeinitKeeps
  <1>7. CASE DeallocObject(c, o)
    BY <1>7, DeallocObjectKeeps
  <1>8. CASE DeallocPartial(c, o)
    BY <1>8, DeallocPartialKeeps
  <1>9. CASE FreeObject(c, o)
    BY <1>9, FreeAtFree, FreeObjectKeeps DEF FreeGood
  <1>10. CASE ReleaseObject(c, o)
    BY <1>10, ReleaseObjectKeeps
  <1> QED BY <1>1, <1>2, <1>3, <1>4, <1>5, <1>6, <1>7, <1>8, <1>9, <1>10

LEMMA CallsKeep ==
  ASSUME Restricted, IInv, FreeGood, NEW c \in Contexts, Calls(c)
  PROVE  IInv'
  <1>1. ASSUME NEW v \in Vars, WeakDestroy(c, v) PROVE IInv'
    BY <1>1, WeakDestroyKeeps
  <1>2. ASSUME NEW v \in Vars, WeakLoadStrong(c, v) PROVE IInv'
    BY <1>2, WeakLoadStrongKeeps
  <1>3. ASSUME NEW v \in Vars, WeakTakeStrong(c, v) PROVE IInv'
    BY <1>3, WeakTakeStrongKeeps
  <1>4. ASSUME NEW v \in Vars, NEW o \in Objects, WeakAssign(c, v, o) PROVE IInv'
    BY <1>4, WeakAssignKeeps
  <1>5. ASSUME NEW dest \in Vars, NEW src \in Vars, NEW op \in {"copy", "take"},
               WeakTransfer(c, dest, src, op)
        PROVE  IInv'
    BY <1>5, WeakTransferKeeps
  <1> QED
    BY <1>1, <1>2, <1>3, <1>4, <1>5, CountedCallsKeep, ObjectCallsKeep DEF Calls

LEMMA NextIInv ==
  ASSUME Restricted
  PROVE  IInv /\ FreeGood /\ [Next]_vars => IInv'
  <1> SUFFICES ASSUME IInv, FreeGood, [Next]_vars PROVE IInv'
    OBVIOUS
  <1>1. ASSUME NEW c \in Contexts, Steps(c) \/ Calls(c) PROVE IInv'
    BY <1>1, StepsKeep, CallsKeep
  <1>2. ASSUME UNCHANGED vars PROVE IInv'
    <2>1. UNCHANGED <<memory, table, count, weak, owner, weakVar, held, unowned, call, dying, halted>>
      BY <1>2 DEF vars, heap, program
    <2>2. TypeOK'
      BY <2>1, Parts DEF TypeOK
    <2>3. ObjectsGood'
      BY <2>1, Parts, ObjectsKept DEF Instances, TablesGood
    <2>4. WeakGood'
      BY <2>1, Parts, WeakKept DEF InObjects, Instances
    <2>5. \A d \in Contexts : CallGood(d)'
      BY <2>1, Parts, CallKept DEF CallsGood, Holds
    <2>6. CallsApart'
      BY <2>1, Parts DEF CallsGood, CallsApart, Writes, Reads, Pending, At
    <2> QED BY <2>2, <2>3, <2>4, <2>5, <2>6 DEF IInv, ObjectsGood
  <1> QED BY <1>1, <1>2 DEF Next, Stopped

-----------------------------------------------------------------------------
(***************************************************************************)
(* What canBeFreedNow has seen cannot change any more: no one has a        *)
(* reference from which another could be made.                             *)
(***************************************************************************)
LEMMA OutOfReach ==
  ASSUME IInv, FreeGood, NEW o \in Objects, AtFree(o)
  PROVE  /\ o \in Instances /\ Unreferenced(o)
         /\ \A d \in Contexts : ~MayUnown(d, o)
  <1> PICK c \in Contexts : \E i \in Stack(c) : dying[c][i] = [object |-> o, at |-> "free"]
    BY DEF AtFree
  <1> PICK i \in Stack(c) : dying[c][i] = [object |-> o, at |-> "free"]
    OBVIOUS
  <1>1. dying[c][i].object = o /\ dying[c][i].at = "free"
    OBVIOUS
  <1>2. EntryGood(c, i, o)
    BY <1>1, Parts DEF StacksGood
  <1>3. o \in Instances /\ Unreferenced(o)
    BY <1>2 DEF EntryGood, Instances, FreeGood
  <1>4. ASSUME NEW d \in Contexts, MayUnown(d, o) PROVE FALSE
    <2>1. held[d][o] = 0 /\ unowned[d][o] = 0
      BY <1>1, <1>2, <1>3, Parts DEF EntryGood, RefsGood, Unreferenced
    <2>2. InDeinit(d, o)
      BY <1>4, <2>1 DEF MayUnown, Reachable
    <2>3. /\ Len(dying[d]) \in Stack(d)
          /\ dying[d][Len(dying[d])].object = o /\ dying[d][Len(dying[d])].at = "deinit"
      BY <2>2, Parts, TopFacts DEF InDeinit
    <2>4. d = c /\ Len(dying[d]) = i
      BY <1>2, <2>3 DEF EntryGood
    <2> QED BY <1>1, <2>3, <2>4
  <1> QED BY <1>3, <1>4

(* A step adds no destroyer that has asked canBeFreedNow, and leaves alone *)
(* what no one refers to.                                                  *)
NoNewFree == \A o \in Objects : AtFree(o)' => AtFree(o)
Bystanders ==
  \A o \in Instances :
    \/ \E d \in Contexts : MayUnown(d, o)
    \/ table'[o] = table[o] /\ \A d \in Contexts : unowned'[d][o] = unowned[d][o]

LEMMA FreeKept ==
  ASSUME IInv, FreeGood, NoNewFree, Bystanders
  PROVE  FreeGood'
  <1> SUFFICES ASSUME NEW o \in Objects, AtFree(o)' PROVE Unreferenced(o)'
    BY DEF FreeGood
  <1>1. o \in Instances /\ Unreferenced(o) /\ \A d \in Contexts : ~MayUnown(d, o)
    BY OutOfReach DEF NoNewFree
  <1> QED BY <1>1 DEF Bystanders, Unreferenced

LEMMA SameStacks ==
  ASSUME UNCHANGED dying
  PROVE  NoNewFree
  BY DEF NoNewFree, AtFree, Stack

LEMMA IdleFree ==
  ASSUME IInv, FreeGood, UNCHANGED <<table, unowned, dying>>
  PROVE  FreeGood'
  BY FreeKept, SameStacks DEF Bystanders

OldFrees(c) ==
  /\ \A d \in Contexts : d # c => dying'[d] = dying[d]
  /\ \A i \in Stack(c)' : dying'[c][i].at = "free" => i \in Stack(c) /\ dying'[c][i] = dying[c][i]

LEMMA StackFree ==
  ASSUME IInv, NEW c \in Contexts,
         \/ \E o \in Objects : \E at \in {"deinit", "partial"} : Push(c, o, at)
         \/ dying[c] # << >> /\ Returns(c)
         \/ \E o \in Objects : \E at \in {"fields", "release"} : dying[c] # << >> /\ GoesOn(c, o, at)
  PROVE  NoNewFree
  <1>1. OldFrees(c)
    <2>1. Len(dying[c]) \in Nat
      BY Parts, StackTypes
    <2>2. ASSUME NEW o \in Objects, NEW at \in {"deinit", "partial"}, Push(c, o, at)
          PROVE  OldFrees(c)
      <3>1. Pushed(c, o, at)
        BY <2>2, Parts, StackMoves
      <3> QED BY <2>1, <3>1 DEF OldFrees, Pushed, OthersStacks, Stack
    <2>3. ASSUME dying[c] # << >>, Returns(c) PROVE OldFrees(c)
      <3>1. dying' = [dying EXCEPT ![c] = Outer(c)]
        BY <2>3 DEF Returns
      <3> PICK o : o \in Objects
        BY <2>3, Parts, TopFacts
      <3>2. Popped(c)
        BY <2>3, <3>1, Parts, StackMoves
      <3>3. /\ \A d \in Contexts : d # c => dying'[d] = dying[d]
            /\ Len(dying'[c]) = Len(dying[c]) - 1
            /\ \A i \in 1 .. (Len(dying[c]) - 1) : dying'[c][i] = dying[c][i]
        BY <3>2 DEF Popped, OthersStacks
      <3>4. \A i \in Stack(c)' : i \in 1 .. (Len(dying[c]) - 1) /\ i \in Stack(c)
        BY <2>1, <3>3 DEF Stack
      <3> QED BY <3>3, <3>4 DEF OldFrees
    <2>4. ASSUME NEW o \in Objects, NEW at \in {"fields", "release"}, dying[c] # << >>, GoesOn(c, o, at)
          PROVE  OldFrees(c)
      <3>1. dying' = [dying EXCEPT ![c] = Append(Outer(c), [object |-> o, at |-> at])]
        BY <2>4 DEF GoesOn
      <3>2. Replaced(c, o, at)
        BY <2>4, <3>1, Parts, StackMoves
      <3> QED BY <2>1, <3>2 DEF OldFrees, Replaced, OthersStacks, Stack
    <2> QED BY <2>2, <2>3, <2>4
  <1> SUFFICES ASSUME NEW o \in Objects, NEW d \in Contexts, NEW i \in Stack(d)',
                      dying'[d][i] = [object |-> o, at |-> "free"]
               PROVE  AtFree(o)
    BY DEF NoNewFree, AtFree
  <1>2. i \in Stack(d) /\ dying'[d][i] = dying[d][i]
    <2>1. dying'[d][i].at = "free"
      OBVIOUS
    <2> QED BY <1>1, <2>1 DEF OldFrees, Stack
  <1> QED BY <1>2 DEF AtFree

(* canBeFreedNow sees an object that only its destroyer refers to.         *)
LEMMA SeenFree ==
  ASSUME IInv, FreeGood, NEW c \in Contexts, NEW o \in Objects, DeallocObject(c, o)
  PROVE  FreeGood'
  <1>1. /\ TakesApart(c, o, {"fields"}) /\ dying[c] # << >>
        /\ GoesOn(c, o, IF CanBeFreedNow(o) THEN "free" ELSE "release")
        /\ UNCHANGED <<table, unowned>>
    BY DEF DeallocObject, TakesApart, heap
  <1>2. CASE ~CanBeFreedNow(o)
    <2>1. NoNewFree
      BY <1>1, <1>2, StackFree
    <2> QED BY <1>1, <2>1, FreeKept DEF Bystanders
  <1>3. CASE CanBeFreedNow(o)
    <2>1. CountGood(o) /\ Dying(o)
      BY <1>1, TakenApart
    <2>2. Total(unowned, o) = 0
      BY <1>3, <2>1, Parts, TotalBounds DEF CountGood, CanBeFreedNow, Counts, Bits, Own
    <2>3. Unreferenced(o)
      BY <1>3, <2>2, Parts, TotalBounds DEF CanBeFreedNow, Unreferenced
    <2>4. Replaced(c, o, "free")
      BY <1>1, <1>3, Parts, StackMoves DEF GoesOn
    <2> SUFFICES ASSUME NEW p \in Objects, AtFree(p)', p # o PROVE Unreferenced(p)'
      BY <1>1, <2>3 DEF FreeGood, Unreferenced
    <2> PICK d \in Contexts : \E i \in Stack(d)' : dying'[d][i] = [object |-> p, at |-> "free"]
      BY DEF AtFree
    <2>5. PICK i \in Stack(d)' : dying'[d][i] = [object |-> p, at |-> "free"]
      OBVIOUS
    <2>6. dying'[d][i].object = p
      BY <2>5
    <2>7. i \in Stack(d) /\ dying'[d][i] = dying[d][i]
      <3>1. Len(dying[c]) \in Nat
        BY Parts, StackTypes
      <3> QED BY <2>4, <2>6, <3>1 DEF Replaced, OthersStacks, Stack
    <2>8. AtFree(p)
      BY <2>5, <2>7 DEF AtFree
    <2> QED BY <1>1, <2>8 DEF FreeGood, Unreferenced
  <1> QED BY <1>2, <1>3

(* The steps that give or take an unowned reference, or a header: each     *)
(* begins with a reference.                                                *)
LEMMA UnownedFree ==
  ASSUME IInv, FreeGood, NEW c \in Contexts, NEW o \in Objects, MayUnown(c, o),
         UNCHANGED dying,
         \A p \in Objects : p # o =>
           table'[p] = table[p] /\ \A d \in Contexts : unowned'[d][p] = unowned[d][p]
  PROVE  FreeGood'
  BY FreeKept, SameStacks DEF Bystanders, Instances

LEMMA MoreElsewhere ==
  ASSUME NEW r \in RefTable, NEW c \in Contexts, NEW o \in Objects, NEW n
  PROVE  \A p \in Objects, d \in Contexts : p # o => More(r, c, o, n)[d][p] = r[d][p]
  BY DEF More, RefTable

LEMMA AllocationsFree ==
  ASSUME IInv, FreeGood, NEW c \in Contexts,
         \/ \E o \in Objects : AllocObject(c, o)
         \/ \E t \in Tables : AllocateSideTable(c, t)
  PROVE  FreeGood'
  <1>1. ASSUME NEW o \in Objects, AllocObject(c, o) PROVE FreeGood'
    <2>1. /\ o \notin memory /\ table' = [table EXCEPT ![o] = Nil] /\ UNCHANGED <<unowned, dying>>
      BY <1>1 DEF AllocObject
    <2>2. \A p \in Instances : table'[p] = table[p]
      BY <2>1, Parts DEF TypeOK, Instances
    <2> QED BY <2>1, <2>2, FreeKept, SameStacks DEF Bystanders
  <1>2. ASSUME NEW t \in Tables, AllocateSideTable(c, t) PROVE FreeGood'
    <2> PICK k \in RuntimeCall : k = call[c] /\ k.op = "table"
      BY <1>2, Parts DEF AllocateSideTable, In, At, TypeOK
    <2>1. k.object \in Objects /\ Pending(call[c]) = k /\ k # Nil
      BY CallFields, PendingFacts
    <2>2. MayUnown(c, k.object)
      <3>1. TableCallGood(c, k)
        BY <2>1, Parts DEF CallsGood, CallGood
      <3> QED BY <3>1 DEF TableCallGood, MayUnown
    <2>3. table' = [table EXCEPT ![k.object] = t] /\ UNCHANGED <<unowned, dying>>
      BY <1>2 DEF AllocateSideTable
    <2>4. \A p \in Objects : p # k.object => table'[p] = table[p]
      BY <2>3, Parts DEF TypeOK
    <2> QED BY <2>1, <2>2, <2>3, <2>4, UnownedFree
  <1> QED BY <1>1, <1>2

LEMMA IncrementUnownedFree ==
  ASSUME IInv, FreeGood, NEW c \in Contexts, IncrementUnowned(c)
  PROVE  FreeGood'
  <1> PICK k \in RuntimeCall : k = call[c] /\ k.op = "unown"
    BY Parts DEF IncrementUnowned, In, At, TypeOK
  <1>1. CASE Abort
    BY <1>1, IdleFree DEF Abort, heap
  <1>2. CASE ~Abort
    <2>1. /\ unowned' = More(unowned, c, owner[k.side], k.n)
          /\ UNCHANGED <<table, dying>>
      BY <1>2 DEF IncrementUnowned, GainUnowned
    <2>2. Pending(call[c]) = k /\ k # Nil
      BY CallFields, PendingFacts
    <2>3. UnownCallGood(c, k)
      BY <2>2, Parts DEF CallsGood, CallGood
    <2>4. owner[k.side] \in Objects /\ MayUnown(c, owner[k.side])
      BY <2>3 DEF UnownCallGood, Attached
    <2> QED BY <2>1, <2>4, Parts, MoreElsewhere, UnownedFree
  <1> QED BY <1>1, <1>2

LEMMA CountedCallsFree ==
  ASSUME IInv, FreeGood, NEW c \in Contexts, NEW o \in Objects, NEW n \in 1 .. MaxN,
         \/ Retain(c, o, n) \/ RetainOverflows(c, o, n) \/ Release(c, o, n)
         \/ UnownedRetain(c, o, n) \/ UnownedRetainSlow(c, o, n)
         \/ UnownedRetainOverflows(c, o, n) \/ UnownedRelease(c, o, n)
  PROVE  FreeGood'
  <1>1. CASE UNCHANGED <<table, unowned, dying>>
    BY <1>1, IdleFree
  <1>2. CASE Retain(c, o, n) \/ RetainOverflows(c, o, n) \/ UnownedRetainSlow(c, o, n) \/ UnownedRetainOverflows(c, o, n)
    BY <1>1, <1>2 DEF Retain, RetainOverflows, UnownedRetainSlow, UnownedRetainOverflows, Abort, heap
  <1>3. CASE Release(c, o, n)
    <2>1. UNCHANGED <<table, unowned>> /\ (UNCHANGED dying \/ Push(c, o, "deinit"))
      BY <1>3 DEF Release
    <2>2. NoNewFree
      BY <2>1, SameStacks, StackFree
    <2> QED BY <2>1, <2>2, FreeKept DEF Bystanders
  <1>4. CASE UnownedRetain(c, o, n)
    <2>1. /\ MayUnown(c, o) /\ unowned' = More(unowned, c, o, n) /\ UNCHANGED <<table, dying>>
      BY <1>4 DEF UnownedRetain, GainUnowned
    <2> QED BY <2>1, Parts, MoreElsewhere, UnownedFree
  <1>5. CASE UnownedRelease(c, o, n)
    <2>1. /\ unowned[c][o] >= n /\ unowned' = More(unowned, c, o, -n) /\ UNCHANGED <<table, dying>>
      BY <1>5 DEF UnownedRelease, GainUnowned, DecrementUnowned
    <2>2. MayUnown(c, o)
      BY <2>1, CountsAssumption, Parts DEF MayUnown
    <2> QED BY <2>1, <2>2, Parts, MoreElsewhere, UnownedFree
  <1> QED BY <1>2, <1>3, <1>4, <1>5

LEMMA ObjectCallsFree ==
  ASSUME IInv, FreeGood, NEW c \in Contexts, NEW o \in Objects,
         \/ \E d \in Contexts : HandOver(c, d, o)
         \/ AllocObject(c, o) \/ DeallocPartialClassInstance(c, o)
         \/ UnownedRetainStrongAborts(c, o) \/ UnownedRetainStrong(c, o)
         \/ EndDeinit(c, o) \/ DeallocObject(c, o) \/ DeallocPartial(c, o)
         \/ FreeObject(c, o) \/ ReleaseObject(c, o)
  PROVE  FreeGood'
  <1>1. CASE UnownedRetainStrongAborts(c, o) \/ UnownedRetainStrong(c, o) \/ \E d \in Contexts : HandOver(c, d, o)
    BY <1>1, IdleFree DEF HandOver, UnownedRetainStrong, UnownedRetainStrongAborts, Abort, heap
  <1>2. CASE AllocObject(c, o)
    BY <1>2, AllocationsFree
  <1>3. CASE DeallocObject(c, o)
    BY <1>3, SeenFree
  <1>4. CASE DeallocPartialClassInstance(c, o)
    <2>1. Push(c, o, "partial") /\ UNCHANGED <<table, unowned>>
      BY <1>4 DEF DeallocPartialClassInstance, heap
    <2> QED BY <2>1, StackFree, FreeKept DEF Bystanders
  <1>5. CASE EndDeinit(c, o)
    <2>1. dying[c] # << >> /\ GoesOn(c, o, "fields") /\ UNCHANGED <<table, unowned>>
      BY <1>5 DEF EndDeinit, InDeinit, heap
    <2> QED BY <2>1, StackFree, FreeKept DEF Bystanders
  <1>6. CASE DeallocPartial(c, o) \/ FreeObject(c, o) \/ ReleaseObject(c, o)
    <2>1. dying[c] # << >> /\ Returns(c) /\ UNCHANGED <<table, unowned>>
      BY <1>6 DEF DeallocPartial, FreeObject, ReleaseObject, TakesApart, DecrementUnowned
    <2> QED BY <2>1, StackFree, FreeKept DEF Bystanders
  <1> QED BY <1>1, <1>2, <1>3, <1>4, <1>5, <1>6

LEMMA NextFreeGood == IInv /\ FreeGood /\ [Next]_vars => FreeGood'
  <1> SUFFICES ASSUME IInv, FreeGood, [Next]_vars PROVE FreeGood'
    OBVIOUS
  <1>1. ASSUME NEW c \in Contexts, Steps(c) PROVE FreeGood'
    <2>1. CASE IncrementUnowned(c)
      BY <2>1, IncrementUnownedFree
    <2>2. CASE \E t \in Tables : AllocateSideTable(c, t)
      BY <2>2, AllocationsFree
    <2>3. CASE \/ FormWeakReference(c) \/ DropWeak(c) \/ TryRetain(c) \/ TryRetainOverflows(c)
               \/ CopyInit(c) \/ TakeInit(c)
      BY <2>3, IdleFree DEF FormWeakReference, DropWeak, TryRetain, TryRetainOverflows, CopyInit, TakeInit, Abort, heap
    <2>4. ASSUME NEW v \in Vars, DestroyField(c, v) PROVE FreeGood'
      BY <2>4, IdleFree DEF DestroyField, Clear, heap
    <2> QED BY <1>1, <2>1, <2>2, <2>3, <2>4 DEF Steps
  <1>2. ASSUME NEW c \in Contexts, Calls(c) PROVE FreeGood'
    <2>1. ASSUME NEW v \in Vars, WeakDestroy(c, v) \/ WeakLoadStrong(c, v) \/ WeakTakeStrong(c, v)
          PROVE  FreeGood'
      BY <2>1, IdleFree DEF WeakDestroy, WeakLoadStrong, WeakTakeStrong, Clear, heap
    <2>2. ASSUME NEW v \in Vars, NEW o \in Objects, WeakAssign(c, v, o) PROVE FreeGood'
      BY <2>2, IdleFree DEF WeakAssign, heap
    <2>3. ASSUME NEW dest \in Vars, NEW src \in Vars, NEW op \in {"copy", "take"},
                 WeakTransfer(c, dest, src, op)
          PROVE  FreeGood'
      BY <2>3, IdleFree DEF WeakTransfer, Clear, heap
    <2> QED BY <1>2, <2>1, <2>2, <2>3, CountedCallsFree, ObjectCallsFree DEF Calls
  <1>3. CASE UNCHANGED vars
    BY <1>3, IdleFree DEF vars, heap, program
  <1> QED BY <1>1, <1>2, <1>3 DEF Next, Stopped

-----------------------------------------------------------------------------
(* IInv holds in every state that the restricted runtime reaches.          *)
LEMMA InductiveInvariant ==
  ASSUME Restricted
  PROVE  Spec => []IInv
  <1>1. Init => IInv /\ FreeGood
    BY InitIInv DEF Init, FreeGood, AtFree, Stack
  <1>2. IInv /\ FreeGood /\ [Next]_vars => IInv' /\ FreeGood'
    BY NextIInv, NextFreeGood
  <1> QED BY <1>1, <1>2, PTL DEF Spec

(* Counts stay within the widths of the header and of the side table, and  *)
(* a call only keeps what RuntimeCall says: TypeOK.                        *)
THEOREM TypeCorrect ==
  ASSUME Restricted
  PROVE  Spec => []TypeOK
  <1>1. IInv => TypeOK
    BY DEF IInv
  <1> QED BY <1>1, InductiveInvariant, PTL

LEMMA UsedTablesAreThere ==
  ASSUME IInv
  PROVE  UsedTables \subseteq memory \cup {Nil}
  <1>1. \A v \in Vars : weakVar[v] \in memory \cup {Nil}
    BY Parts DEF WeakGood
  <1>2. \A o \in memory \cap Objects : table[o] \in memory \cup {Nil}
    BY Parts DEF TablesGood, Instances
  <1>3. ASSUME NEW c \in Contexts, NEW op \in {"form", "unown", "drop", "load"}, At(c, op)
        PROVE  call[c].side \in memory \cup {Nil}
    <2> PICK k \in RuntimeCall : k = call[c] /\ k.op = op /\ k # Nil
      BY <1>3, Parts DEF At, TypeOK
    <2>1. CASE op = "drop"
      BY <1>3, <2>1, Parts DEF WeakGood
    <2>2. CASE op # "drop"
      <3>1. Pending(call[c]) = k
        BY <2>2, PendingFacts
      <3>2. UnownCallGood(c, k) /\ FormCallGood(c, k) /\ LoadCallGood(c, k)
        BY <3>1, Parts DEF CallsGood, CallGood
      <3>3. k.side \in Tables \cup {Nil}
        BY <2>2, CallFields
      <3>4. ASSUME Attached(k.side), MayUnown(c, owner[k.side]) PROVE k.side \in memory \cup {Nil}
        BY <3>3, <3>4, AttachedBehind DEF Behind
      <3>5. CASE op = "unown"
        BY <3>2, <3>4, <3>5 DEF UnownCallGood
      <3>6. CASE op = "form"
        BY <3>2, <3>4, <3>6 DEF FormCallGood, MayUnown
      <3>7. CASE op = "load"
        <4>1. CASE k.src = Nil
          BY <3>2, <3>4, <3>7, <4>1 DEF LoadCallGood, MayUnown, Reachable
        <4>2. CASE k.src # Nil
          <5>1. k.src \in Vars /\ weakVar[k.src] = k.side
            BY <3>2, <3>7, <4>2, CallFields DEF LoadCallGood
          <5> QED BY <1>1, <5>1
        <4> QED BY <4>1, <4>2
      <3> QED BY <2>2, <3>5, <3>6, <3>7
    <2> QED BY <2>1, <2>2
  <1> QED BY <1>1, <1>2, <1>3 DEF UsedTables

(* Provided only references to live objects are taken, and no other        *)
(* context counts a reference to an object while allocateSideTable moves   *)
(* its counts: no reference outlives what it refers to, and no call or     *)
(* destroyer works on memory that another one gave back between two of its *)
(* steps.                                                                  *)
THEOREM NothingEverDangles ==
  ASSUME Restricted
  PROVE  Spec => []NothingDangles
  <1>1. IInv => NothingDangles
    <2> SUFFICES ASSUME IInv PROVE NothingDangles
      OBVIOUS
    <2>1. ASSUME NEW o \in Objects, Dying(o) PROVE o \in memory
      <3>1. \E c \in Contexts : \E i \in Stack(c) : dying[c][i].object = o
        BY <2>1, Parts, DyingFacts
      <3> QED BY <3>1, Parts DEF StacksGood, EntryGood
    <2> QED BY <2>1, UsedTablesAreThere, Parts DEF NothingDangles, RefsGood
  <1> QED BY <1>1, InductiveInvariant, PTL

(* Under the same two provisos (nothing in RefCount.cpp:85-118 ensures the *)
(* second; a count made in between is lost): the strong, unowned and weak  *)
(* counts are the numbers of references there are, in the header as in a   *)
(* side table, and what has none is gone.                                  *)
THEOREM CountsStayExact ==
  ASSUME Restricted
  PROVE  Spec => []CountsAreExact
  <1>1. IInv => CountsAreExact
    <2> SUFFICES ASSUME IInv PROVE CountsAreExact
      OBVIOUS
    <2>1. \A o \in memory \cap Objects :
            /\ Counts(o).strong = Total(held, o)
            /\ Counts(o).unowned =
                 Total(unowned, o) + (IF Counts(o).deiniting /\ ~Dying(o) THEN 0 ELSE 1)
            /\ Counts(o).unowned > 0
      BY Parts DEF CountsGood, CountGood, Own, Instances
    <2>2. \A t \in memory \cap Tables :
            /\ weak[t] = Cardinality(InVars(t)) + Cardinality(InCalls(t)) + Cardinality(InObjects(t))
            /\ weak[t] > 0
      BY Parts DEF WeakGood
    <2> QED BY <2>1, <2>2 DEF CountsAreExact, InVars, InCalls, InObjects, Instances
  <1> QED BY <1>1, InductiveInvariant, PTL


-----------------------------------------------------------------------------
(***************************************************************************)
(* The runtime implements ZeroingReferences.                               *)
(***************************************************************************)
WeakRef == [v \in Vars |-> IF Alive(weakVar[v]) THEN owner[weakVar[v]] ELSE Nil]
RefersTo(t) == IF Alive(t) THEN owner[t] ELSE Nil
Asking == [c \in Contexts |-> IF At(c, "load") THEN call[c].src ELSE Nil]
Unseen == UNCHANGED <<held, WeakRef, Asking>>
Referenced(r, o) == \E c \in Contexts : r[c][o] > 0

(* What is not past the start of its deinit has a reference. *)
LEMMA LiveReferenced ==
  ASSUME IInv, NEW o \in Instances, ~Counts(o).deiniting
  PROVE  Referenced(held, o)
  <1>1. Counts(o).strong > 0 /\ Counts(o).strong = Total(held, o) /\ o \in Objects
    BY Parts DEF CountsGood, CountGood, Instances
  <1>2. ~\A c \in Contexts : held[c][o] = 0
    BY <1>1, Parts, TotalBounds
  <1> QED BY <1>2, <1>1, Parts DEF Referenced

(* What a weak variable refers to. *)
LEMMA Target ==
  ASSUME IInv, NEW t \in Tables \cup {Nil}, t # Nil => t \in memory, Alive(t)
  PROVE  \E o \in Instances : Behind(t, o) /\ Referenced(held, o) /\ o # Nil
  <1>1. t \in Tables /\ t \in memory /\ ~count[t].deiniting
    BY DEF Alive
  <1> PICK o \in Instances : Behind(t, o)
    BY <1>1, AliveBehind
  <1>2. Referenced(held, o)
    BY <1>1, LiveReferenced DEF Behind
  <1> QED BY <1>2, CellFacts DEF Instances

LEMMA WeakRefStays ==
  ASSUME IInv, UNCHANGED weakVar,
         \A t \in Tables : t \in memory =>
           count'[t].deiniting = count[t].deiniting /\ owner'[t] = owner[t]
  PROVE  WeakRef' = WeakRef
  <1>1. ASSUME NEW v \in Vars
        PROVE  /\ Alive(weakVar[v])' <=> Alive(weakVar[v])
               /\ Alive(weakVar[v]) => owner'[weakVar[v]] = owner[weakVar[v]]
    <2>1. weakVar[v] = Nil \/ (weakVar[v] \in Tables /\ weakVar[v] \in memory)
      BY Parts DEF TypeOK, WeakGood
    <2> QED BY <2>1 DEF Alive
  <1> QED BY <1>1 DEF WeakRef

LEMMA AskingStays ==
  ASSUME NEW c \in Contexts, \A d \in Contexts : d # c => call'[d] = call[d],
         ~At(c, "load"), ~At(c, "load")'
  PROVE  Asking' = Asking
  <1>1. ASSUME NEW d \in Contexts
        PROVE  /\ At(d, "load")' <=> At(d, "load")
               /\ At(d, "load") => call'[d].src = call[d].src
    BY DEF At
  <1> QED BY <1>1 DEF Asking

LEMMA PlusStaysAlive ==
  ASSUME IInv, NEW b, NEW s, NEW u, count' = [count EXCEPT ![b] = Plus(@, s, u)]
  PROVE  \A x \in Cells : count'[x].deiniting = count[x].deiniting
  <1> TAKE x \in Cells
  <1>1. count' = [count EXCEPT ![b] = Plus(count[b], s, u)]
    OBVIOUS
  <1>2. Plus(count[b], s, u).deiniting = count[b].deiniting
    BY DEF Plus
  <1> QED BY <1>1, <1>2, Parts DEF TypeOK

(* More strong references to an object that has one already.               *)
LEMMA CopyRefines ==
  ASSUME NEW c \in Contexts, NEW o \in Objects, NEW n \in 1 .. MaxN,
         Referenced(held, o), held' = More(held, c, o, n), UNCHANGED <<WeakRef, Asking>>
  PROVE  Zeroing!Next
  <1>1. Zeroing!Copy(c, o, n)
    BY DEF Zeroing!Copy, Zeroing!Referenced, Referenced, Zeroing!Gain, More, WeakRef, Asking
  <1> QED BY <1>1 DEF Zeroing!Next

LEMMA RetainRefines ==
  ASSUME IInv, NEW c \in Contexts, NEW o \in Objects, NEW n \in 1 .. MaxN, Retain(c, o, n)
  PROVE  Zeroing!Next
  <1>1. /\ held' = More(held, c, o, n) /\ count' = [count EXCEPT ![Bits(o)] = Plus(@, n, 0)]
        /\ UNCHANGED <<weakVar, owner, call>> /\ held[c][o] > 0
    BY DEF Retain, Gain, AddStrong
  <1>2. WeakRef' = WeakRef
    BY <1>1, PlusStaysAlive, WeakRefStays, CellFacts
  <1>3. Asking' = Asking
    BY <1>1 DEF Asking, At
  <1> QED BY <1>1, <1>2, <1>3, CopyRefines DEF Referenced

LEMMA UnownedRetainStrongRefines ==
  ASSUME IInv, NEW c \in Contexts, NEW o \in Objects, UnownedRetainStrong(c, o)
  PROVE  Zeroing!Next
  <1>1. /\ held' = More(held, c, o, 1) /\ count' = [count EXCEPT ![Bits(o)] = Plus(@, 1, 0)]
        /\ UNCHANGED <<weakVar, owner, call>> /\ unowned[c][o] > 0 /\ ~Counts(o).deiniting
    BY DEF UnownedRetainStrong, AddStrong, Gain
  <1>2. WeakRef' = WeakRef
    BY <1>1, PlusStaysAlive, WeakRefStays, CellFacts
  <1>3. Asking' = Asking
    BY <1>1 DEF Asking, At
  <1>4. Referenced(held, o)
    BY <1>1, Parts, LiveReferenced DEF RefsGood, Instances
  <1>5. 1 \in 1 .. MaxN
    BY CountsAssumption
  <1> QED BY <1>1, <1>2, <1>3, <1>4, <1>5, CopyRefines

LEMMA HandOverRefines ==
  ASSUME IInv, NEW c \in Contexts, NEW d \in Contexts, NEW o \in Objects, HandOver(c, d, o)
  PROVE  Zeroing!Next
  <1>1. /\ held' = More(More(held, c, o, -1), d, o, 1) /\ c # d /\ held[c][o] > 0
        /\ UNCHANGED <<weakVar, count, owner, call>>
    BY DEF HandOver, heap
  <1>2. WeakRef' = WeakRef
    BY <1>1, WeakRefStays
  <1>3. Asking' = Asking
    BY <1>1 DEF Asking, At
  <1> PICK a \in [Objects -> Nat], b \in [Objects -> Nat] : a = held[c] /\ b = held[d]
    BY Parts DEF TypeOK
  <1>4. held' = [held EXCEPT ![c] = [a EXCEPT ![o] = a[o] - 1], ![d] = [b EXCEPT ![o] = b[o] + 1]]
    <2> PICK a1 : a1 = [a EXCEPT ![o] = a[o] - 1]
      OBVIOUS
    <2> PICK r : r = [held EXCEPT ![c] = a1]
      OBVIOUS
    <2>1. More(held, c, o, -1) = r
      BY DEF More
    <2>2. r[d] = b
      BY <1>1, Parts DEF TypeOK
    <2>3. held' = [r EXCEPT ![d] = [b EXCEPT ![o] = b[o] + 1]]
      BY <1>1, <2>1, <2>2 DEF More
    <2> QED BY <2>3
  <1>5. Zeroing!HandOver(c, d, o)
    BY <1>1, <1>2, <1>3, <1>4 DEF Zeroing!HandOver, WeakRef, Asking
  <1> QED BY <1>5 DEF Zeroing!Next

LEMMA AllocObjectRefines ==
  ASSUME IInv, NEW c \in Contexts, NEW o \in Objects, AllocObject(c, o)
  PROVE  Zeroing!Next
  <1>1. /\ held' = More(held, c, o, 1) /\ o \notin memory
        /\ count' = [count EXCEPT ![o] = Fresh] /\ UNCHANGED <<weakVar, owner, call>>
    BY DEF AllocObject, Gain
  <1>2. \A t \in Tables : count'[t] = count[t]
    BY <1>1, Parts, CellFacts DEF TypeOK
  <1>3. WeakRef' = WeakRef
    BY <1>1, <1>2, WeakRefStays
  <1>4. Asking' = Asking
    BY <1>1 DEF Asking, At
  <1>5. ~Referenced(held, o)
    BY <1>1, Parts DEF RefsGood, Referenced
  <1>6. Zeroing!Create(c, o)
    BY <1>1, <1>3, <1>4, <1>5 DEF Zeroing!Create, Zeroing!Referenced, Referenced, Zeroing!Gain, More,
                                  WeakRef, Asking
  <1> QED BY <1>6 DEF Zeroing!Next

(* The last reference goes, or it does not. *)
LEMMA DropRefines ==
  ASSUME NEW c \in Contexts, NEW o \in Objects, NEW n \in 1 .. MaxN,
         held[c][o] >= n, held' = More(held, c, o, -n), UNCHANGED Asking,
         \/ Referenced(held', o) /\ WeakRef' = WeakRef
         \/ /\ ~Referenced(held', o)
            /\ WeakRef' = [v \in Vars |-> IF WeakRef[v] = o THEN Nil ELSE WeakRef[v]]
  PROVE  Zeroing!Next
  <1>1. WeakRef' = [v \in Vars |->
          IF WeakRef[v] = o /\ ~Zeroing!Referenced(held', o) THEN Nil ELSE WeakRef[v]]
    <2>1. WeakRef = [v \in Vars |-> WeakRef[v]]
      BY DEF WeakRef
    <2>2. Zeroing!Referenced(held', o) <=> Referenced(held', o)
      BY DEF Zeroing!Referenced, Referenced
    <2> QED BY <2>1, <2>2
  <1>2. Zeroing!Gain(c, o, -n)
    BY DEF Zeroing!Gain, More
  <1>3. Zeroing!Drop(c, o, n)
    BY <1>1, <1>2 DEF Zeroing!Drop, WeakRef, Asking
  <1> QED BY <1>3 DEF Zeroing!Next

LEMMA ReleaseRefines ==
  ASSUME IInv, NEW c \in Contexts, NEW o \in Objects, NEW n \in 1 .. MaxN, Release(c, o, n)
  PROVE  Zeroing!Next
  <1>1. /\ Runs(c) /\ MayUnown(c, o) /\ held[c][o] >= n /\ held' = More(held, c, o, -n)
        /\ UNCHANGED <<table, owner, weakVar, call>> /\ n \in Int /\ n > 0 /\ -n \in Int
    BY CountsAssumption, Parts DEF Release, Gain, MayUnown, Reachable
  <1>2. o \in Instances /\ CountGood(o) /\ Counts(o) \in CountType
    BY <1>1, Running
  <1>3. Shifted(held, held', c, o, -n)
    BY <1>1, Parts, MoreShifts
  <1>4. Asking' = Asking
    BY <1>1 DEF Asking, At
  <1>5. CASE Counts(o).strong > n
    <2>1. count' = [count EXCEPT ![Bits(o)] = Plus(@, -n, 0)]
      BY <1>5 DEF Release, AddStrong
    <2>2. WeakRef' = WeakRef
      BY <1>1, <2>1, PlusStaysAlive, WeakRefStays, CellFacts
    <2>3. Referenced(held', o)
      <3> PICK s \in Int : s = -n
        BY <1>1
      <3>1. Total(held', o) = Total(held, o) + s /\ held' \in RefTable
        BY <1>3, TotalShifts DEF Shifted
      <3>2. Total(held, o) > n /\ Total(held, o) \in Nat
        BY <1>2, <1>5, Parts, TotalBounds DEF CountGood
      <3>3. Total(held', o) # 0
        BY <1>1, <3>1, <3>2
      <3>4. ~\A d \in Contexts : held'[d][o] = 0
        BY <3>1, <3>3, TotalBounds
      <3> QED BY <3>1, <3>4 DEF Referenced, RefTable
    <2> QED BY <1>1, <1>4, <2>2, <2>3, DropRefines
  <1>6. CASE ~(Counts(o).strong > n)
    <2>1. count' = [count EXCEPT ![Bits(o)] =
                      [strong |-> 0, unowned |-> @.unowned, deiniting |-> TRUE]]
      BY <1>6 DEF Release, SetDeiniting
    <2>2. /\ count'[Bits(o)].deiniting /\ ~Counts(o).deiniting
          /\ \A x \in Cells : x # Bits(o) => count'[x] = count[x]
      <3> PICK r : r = [strong |-> 0, unowned |-> Counts(o).unowned, deiniting |-> TRUE]
        OBVIOUS
      <3>1. count' = [count EXCEPT ![Bits(o)] = r] /\ r.deiniting
        BY <2>1 DEF Counts
      <3>2. Bits(o) \in Cells /\ count \in [Cells -> CountType]
        BY <1>2, Parts, BitsApart DEF TypeOK
      <3>3. ~Counts(o).deiniting
        BY <1>1, Parts DEF RefsGood
      <3> QED BY <3>1, <3>2, <3>3
    <2>3. ~Referenced(held', o)
      <3>1. Total(held, o) <= n /\ held[c][o] <= Total(held, o) /\ Total(held, o) \in Nat
        BY <1>2, <1>6, <1>1, Parts, TotalBounds DEF CountGood
      <3>2. Total(held, o) = held[c][o] /\ held[c][o] = n
        BY <1>1, <3>1, Parts
      <3>3. \A d \in Contexts : d # c => held[d][o] = 0
        BY <3>2, Parts, TotalSole
      <3>4. /\ held'[c][o] = n + (-n)
            /\ \A d \in Contexts : d # c => held'[d][o] = held[d][o]
        BY <1>3, <3>2 DEF Shifted
      <3>5. \A d \in Contexts : held'[d][o] = 0
        BY <1>1, <3>3, <3>4
      <3> QED BY <3>5 DEF Referenced
    <2>4. ASSUME NEW v \in Vars
          PROVE  RefersTo(weakVar[v])' = IF WeakRef[v] = o THEN Nil ELSE WeakRef[v]
      <3> PICK t \in Tables \cup {Nil} : t = weakVar[v] /\ t = weakVar'[v] /\ (t # Nil => t \in memory)
        BY <1>1, Parts DEF TypeOK, WeakGood
      <3>1. WeakRef[v] = RefersTo(t) /\ RefersTo(weakVar[v])' = RefersTo(t)'
        BY DEF WeakRef, RefersTo
      <3>2. CASE t = Bits(o)
        <4>1. t \in Tables /\ table[o] = t /\ Alive(t) /\ ~Alive(t)'
          BY <2>2, <3>2, CellFacts DEF Bits, Counts, Alive
        <4>2. owner[t] = o
          BY <1>2, <4>1, TableBehind DEF Behind
        <4> QED BY <3>1, <4>1, <4>2 DEF RefersTo
      <3>3. CASE t # Bits(o)
        <4>1. Alive(t)' <=> Alive(t)
          BY <2>2, <3>3, CellFacts DEF Alive
        <4>2. Alive(t) => owner[t] # o
          <5> SUFFICES ASSUME Alive(t), owner[t] = o PROVE FALSE
            OBVIOUS
          <5>1. t \in Tables /\ t \in memory
            BY DEF Alive
          <5>2. Bits(o) = t
            BY <5>1, AliveBehind DEF Behind
          <5> QED BY <3>3, <5>2
        <4> QED BY <1>1, <3>1, <4>1, <4>2, CellFacts DEF RefersTo
      <3> QED BY <3>2, <3>3
    <2>5. WeakRef' = [v \in Vars |-> IF WeakRef[v] = o THEN Nil ELSE WeakRef[v]]
      BY <2>4 DEF WeakRef, RefersTo
    <2> QED BY <1>1, <1>4, <2>3, <2>5, DropRefines
  <1> QED BY <1>5, <1>6

LEMMA DeallocPartialRefines ==
  ASSUME IInv, NEW c \in Contexts, NEW o \in Objects, DeallocPartial(c, o)
  PROVE  Zeroing!Next
  <1>1. /\ TakesApart(c, o, {"partial"})
        /\ count' = [count EXCEPT ![o] = [strong |-> 0, unowned |-> 0, deiniting |-> TRUE]]
        /\ held' = More(held, c, o, -1) /\ UNCHANGED <<table, weak, owner, weakVar, unowned, call, halted>>
    BY DEF DeallocPartial, Gain
  <1>2. /\ o \in Instances /\ CountGood(o) /\ Counts(o) \in CountType /\ Dying(o)
        /\ table[o] = Nil /\ count[o] = Fresh /\ held[c][o] = 1
    BY <1>1, TakenApart DEF EntryGood
  <1>3. Total(held, o) = 1
    BY <1>2 DEF CountGood, Counts, Bits, Fresh
  <1>4. \A d \in Contexts : d # c => held[d][o] = 0
    BY <1>2, <1>3, Parts, TotalSole
  <1>5. ~Referenced(held', o)
    <2>1. -1 \in Int /\ held[c][o] + (-1) >= 0
      BY <1>2
    <2>2. Shifted(held, held', c, o, -1)
      BY <1>1, <2>1, Parts, MoreShifts
    <2>3. /\ held'[c][o] = 1 + (-1)
          /\ \A d \in Contexts : d # c => held'[d][o] = held[d][o]
      BY <1>2, <2>2 DEF Shifted
    <2>4. \A d \in Contexts : held'[d][o] = 0
      BY <1>4, <2>3
    <2> QED BY <2>4 DEF Referenced
  <1>6. \A t \in Tables : count'[t] = count[t]
    BY <1>1, Parts, CellFacts DEF TypeOK
  <1>7. WeakRef' = WeakRef
    BY <1>1, <1>6, WeakRefStays
  <1>8. ASSUME NEW v \in Vars PROVE WeakRef[v] # o
    <2> PICK t \in Tables \cup {Nil} : t = weakVar[v] /\ (t # Nil => t \in memory)
      BY Parts DEF TypeOK, WeakGood
    <2>1. CASE Alive(t)
      <3>1. t \in Tables /\ t # Nil
        BY <2>1 DEF Alive
      <3>2. table[owner[t]] = t
        BY <2>1, <3>1, AliveBehind DEF Behind
      <3> QED BY <1>2, <2>1, <3>1, <3>2 DEF WeakRef
    <2>2. CASE ~Alive(t)
      BY <2>2, CellFacts DEF WeakRef
    <2> QED BY <2>1, <2>2
  <1>9. WeakRef' = [v \in Vars |-> IF WeakRef[v] = o THEN Nil ELSE WeakRef[v]]
    <2>1. WeakRef = [v \in Vars |-> WeakRef[v]]
      BY DEF WeakRef
    <2> QED BY <1>7, <1>8, <2>1
  <1>10. Asking' = Asking
    BY <1>1 DEF Asking, At
  <1>11. 1 \in 1 .. MaxN /\ held[c][o] >= 1
    BY <1>2, CountsAssumption
  <1> QED BY <1>1, <1>5, <1>9, <1>10, <1>11, DropRefines

(* The call of c goes on. *)
LEMMA AskingMoves ==
  ASSUME NEW c \in Contexts, NEW x, \A d \in Contexts : d # c => call'[d] = call[d],
         At(c, "load")' => call'[c].src = x, ~At(c, "load")' => x = Nil
  PROVE  Asking' = [Asking EXCEPT ![c] = x]
  <1>1. ASSUME NEW d \in Contexts, d # c
        PROVE  /\ At(d, "load")' <=> At(d, "load")
               /\ At(d, "load") => call'[d].src = call[d].src
    BY <1>1 DEF At
  <1>2. ASSUME NEW d \in Contexts
        PROVE  (IF At(d, "load")' THEN call'[d].src ELSE Nil)
                 = [Asking EXCEPT ![c] = x][d]
    BY <1>1 DEF Asking
  <1> QED BY <1>2 DEF Asking

LEMMA LoadBegins ==
  ASSUME NEW c \in Contexts, NEW v \in Vars, ~At(c, "load"),
         Asking' = [Asking EXCEPT ![c] = v], UNCHANGED <<held, WeakRef>>
  PROVE  Zeroing!Next
  <1>1. Asking[c] = Nil
    BY DEF Asking
  <1>2. Zeroing!BeginLoad(c, v)
    BY <1>1 DEF Zeroing!BeginLoad, Asking, WeakRef
  <1> QED BY <1>2 DEF Zeroing!Next

LEMMA WeakLoadStrongRefines ==
  ASSUME IInv, NEW c \in Contexts, NEW v \in Vars, WeakLoadStrong(c, v)
  PROVE  Zeroing!Next
  <1> PICK k : k = [op |-> "load", side |-> weakVar[v], src |-> v]
    OBVIOUS
  <1>1. /\ call' = [call EXCEPT ![c] = k] /\ ~At(c, "load")
        /\ UNCHANGED <<count, owner, weakVar, held>>
    BY DEF WeakLoadStrong, SetCall, Runs, At, heap
  <1>2. call'[c] = k /\ \A d \in Contexts : d # c => call'[d] = call[d]
    BY <1>1, Parts DEF TypeOK
  <1>3. WeakRef' = WeakRef
    BY <1>1, WeakRefStays
  <1>4. k # Nil
    <2>1. weakVar[v] \in Tables
      BY Parts DEF TypeOK, WeakLoadStrong
    <2>2. k \in RuntimeCall
      BY <2>1 DEF RuntimeCall, LoadCall
    <2> QED BY <2>2, CellsAssumption
  <1>5. Asking' = [Asking EXCEPT ![c] = v]
    <2>1. At(c, "load")' /\ call'[c].src = v
      BY <1>2, <1>4 DEF At
    <2> QED BY <1>2, <2>1, AskingMoves
  <1> QED BY <1>1, <1>3, <1>5, LoadBegins

LEMMA DropWeakRefines ==
  ASSUME IInv, NEW c \in Contexts, DropWeak(c)
  PROVE  Zeroing!Next \/ Unseen
  <1> PICK k \in RuntimeCall : k = call[c]
    BY InCall DEF DropWeak
  <1>1. k.op = "drop" /\ k # Nil /\ k.next \in NextCall
    BY InCall, CallFields DEF DropWeak, NextCall, In, At
  <1>2. /\ call' = [call EXCEPT ![c] = k.next] /\ ~At(c, "load")
        /\ UNCHANGED <<count, owner, weakVar, held>>
    BY <1>1 DEF DropWeak, SetCall, At
  <1>3. call'[c] = k.next /\ \A d \in Contexts : d # c => call'[d] = call[d]
    BY <1>2, Parts DEF TypeOK
  <1>4. WeakRef' = WeakRef
    BY <1>2, WeakRefStays
  <1> PICK n \in NextCall : n = k.next
    BY <1>1
  <1>5. CASE n # Nil /\ n.op = "load"
    <2>1. n \in LoadCall /\ n.src \in Vars \cup {Nil}
      BY <1>5 DEF NextCall, LoadCall, TransferCall
    <2>2. At(c, "load")' /\ call'[c].src = n.src
      BY <1>3, <1>5 DEF At
    <2>3. Asking' = [Asking EXCEPT ![c] = n.src]
      BY <1>3, <2>2, AskingMoves
    <2>4. CASE n.src = Nil
      <3>1. Asking' = Asking
        BY <1>2, <2>3, <2>4 DEF Asking
      <3> QED BY <1>2, <1>4, <3>1 DEF Unseen
    <2>5. CASE n.src # Nil
      BY <1>2, <1>4, <2>1, <2>3, <2>5, LoadBegins
    <2> QED BY <2>4, <2>5
  <1>6. CASE ~(n # Nil /\ n.op = "load")
    <2>1. ~At(c, "load")'
      BY <1>3, <1>6 DEF At
    <2> QED BY <1>2, <1>3, <1>4, <2>1, AskingStays DEF Unseen
  <1> QED BY <1>5, <1>6

LEMMA TryRetainRefines ==
  ASSUME IInv, NEW c \in Contexts, TryRetain(c)
  PROVE  Zeroing!Next \/ Unseen
  <1> PICK k \in RuntimeCall : k = call[c]
    BY InCall DEF TryRetain
  <1>1. /\ k.op = "load" /\ k.side \in Tables /\ k.src \in Vars \cup {Nil} /\ LoadCallGood(c, k)
        /\ k # Nil /\ At(c, "load")
    BY InCall, CallFields DEF TryRetain, In
  <1> PICK t \in Tables : t = k.side
    BY <1>1
  <1>2. /\ IF Alive(t) THEN /\ count' = [count EXCEPT ![t] = Plus(@, 1, 0)]
                            /\ held' = More(held, c, owner[t], 1)
           ELSE UNCHANGED <<count, held>>
        /\ call' = [call EXCEPT ![c] = Nil]
        /\ UNCHANGED <<owner, weakVar>>
    BY DEF TryRetain, SetCall, AddStrong, Gain
  <1>3. WeakRef' = WeakRef
    <2>1. CASE Alive(t)
      BY <1>2, <2>1, PlusStaysAlive, WeakRefStays, CellFacts
    <2>2. CASE ~Alive(t)
      BY <1>2, <2>2, WeakRefStays
    <2> QED BY <2>1, <2>2
  <1>4. Asking' = [Asking EXCEPT ![c] = Nil] /\ Asking[c] = k.src
    <2>1. ~At(c, "load")' /\ \A d \in Contexts : d # c => call'[d] = call[d]
      BY <1>2, Parts DEF TypeOK, At
    <2> QED BY <1>1, <2>1, AskingMoves DEF Asking
  <1>5. CASE k.src = Nil
    <2>1. Asking' = Asking
      BY <1>4, <1>5 DEF Asking
    <2>2. CASE ~Alive(t)
      BY <1>2, <1>3, <2>1, <2>2 DEF Unseen
    <2>3. CASE Alive(t)
      <3>1. Attached(t) /\ held[c][owner[t]] > 0
        BY <1>1, <1>5 DEF LoadCallGood
      <3>2. owner[t] \in Objects /\ Referenced(held, owner[t]) /\ 1 \in 1 .. MaxN
        BY <3>1, CountsAssumption DEF Attached, Referenced
      <3> QED BY <1>2, <1>3, <2>1, <2>3, <3>2, CopyRefines
    <2> QED BY <2>2, <2>3
  <1>6. CASE k.src # Nil
    <2> PICK v \in Vars : v = k.src
      BY <1>1, <1>6
    <2>1. weakVar[v] = t /\ t \in memory
      BY <1>1, <1>6, Parts, CellFacts DEF LoadCallGood, WeakGood
    <2>2. WeakRef[v] = IF Alive(t) THEN owner[t] ELSE Nil
      BY <2>1 DEF WeakRef
    <2>3. Alive(t) => owner[t] # Nil
      BY <2>1, AliveBehind, CellFacts DEF Behind, Instances
    <2>4. IF WeakRef[v] = Nil THEN UNCHANGED held ELSE Zeroing!Gain(c, WeakRef[v], 1)
      BY <1>2, <2>2, <2>3 DEF Zeroing!Gain, More
    <2>5. Zeroing!EndLoad(c, v)
      BY <1>3, <1>4, <2>4 DEF Zeroing!EndLoad, WeakRef, Asking
    <2> QED BY <2>5 DEF Zeroing!Next
  <1> QED BY <1>5, <1>6

(* A weak variable gets the side table `side` in it. *)
LEMMA WeakRefMoves ==
  ASSUME IInv, NEW v \in Vars, NEW side, weakVar' = [weakVar EXCEPT ![v] = side],
         UNCHANGED <<count, owner>>
  PROVE  WeakRef' = [WeakRef EXCEPT ![v] = RefersTo(side)]
  <1>1. \A t : RefersTo(t)' = RefersTo(t)
    BY DEF RefersTo, Alive
  <1>2. ASSUME NEW u \in Vars PROVE RefersTo(weakVar[u])' = [WeakRef EXCEPT ![v] = RefersTo(side)][u]
    <2> PICK t : t = weakVar'[u]
      OBVIOUS
    <2>1. RefersTo(weakVar[u])' = RefersTo(t)
      BY <1>1 DEF RefersTo, Alive
    <2>2. t = IF u = v THEN side ELSE weakVar[u]
      BY Parts DEF TypeOK
    <2> QED BY <2>1, <2>2 DEF WeakRef, RefersTo
  <1> QED BY <1>2 DEF WeakRef, RefersTo

LEMMA AssignRefines ==
  ASSUME IInv, NEW v \in Vars, NEW side \in Tables \cup {Nil}, side # Nil => side \in memory,
         weakVar' = [weakVar EXCEPT ![v] = side], UNCHANGED <<count, owner, held, Asking>>
  PROVE  Zeroing!Next
  <1>1. WeakRef' = [WeakRef EXCEPT ![v] = RefersTo(side)]
    BY WeakRefMoves
  <1>2. RefersTo(side) = Nil \/ (RefersTo(side) \in Objects /\ Referenced(held, RefersTo(side)))
    <2>1. CASE Alive(side)
      BY <2>1, Target DEF RefersTo, Behind, Instances
    <2>2. CASE ~Alive(side)
      BY <2>2 DEF RefersTo
    <2> QED BY <2>1, <2>2
  <1> PICK o \in Objects \cup {Nil} : o = RefersTo(side)
    BY <1>2
  <1>3. Zeroing!Assign(v, o)
    BY <1>1, <1>2 DEF Zeroing!Assign, Zeroing!Referenced, Referenced, WeakRef, Asking
  <1> QED BY <1>3 DEF Zeroing!Next

LEMMA FormWeakReferenceRefines ==
  ASSUME IInv, NEW c \in Contexts, FormWeakReference(c)
  PROVE  Zeroing!Next
  <1> PICK k \in RuntimeCall : k = call[c]
    BY InCall DEF FormWeakReference
  <1>1. /\ k.op = "form" /\ k.dest \in Vars /\ k.side \in Tables \cup {Nil}
        /\ FormCallGood(c, k) /\ ~At(c, "load")
    BY InCall, CallFields DEF FormWeakReference, At
  <1> PICK v \in Vars : v = k.dest
    BY <1>1
  <1> PICK side : side = IF Alive(k.side) THEN k.side ELSE Nil
    OBVIOUS
  <1> PICK old \in Tables \cup {Nil} : old = weakVar[v]
    BY Parts DEF TypeOK
  <1>2. /\ weakVar' = [weakVar EXCEPT ![v] = side]
        /\ call' = [call EXCEPT ![c] = Drop(old, Nil)]
        /\ UNCHANGED <<count, owner, held>>
    BY DEF FormWeakReference, SetCall
  <1>3. side \in Tables \cup {Nil} /\ (side # Nil => side \in memory)
    <2>1. CASE Alive(k.side)
      <3> PICK t \in Tables : t = k.side
        BY <1>1, <2>1 DEF Alive
      <3>1. Attached(t) /\ MayUnown(c, owner[t])
        BY <1>1, <2>1 DEF FormCallGood, Alive, MayUnown
      <3>2. t \in memory
        BY <3>1, AttachedBehind DEF Behind
      <3> QED BY <2>1, <3>2
    <2>2. CASE ~Alive(k.side)
      BY <2>2
    <2> QED BY <2>1, <2>2
  <1>4. Asking' = Asking
    <2>1. \A d \in Contexts : d # c => call'[d] = call[d]
      BY <1>2, Parts DEF TypeOK
    <2>2. call'[c] = Drop(old, Nil)
      BY <1>2, Parts DEF TypeOK
    <2>3. ~At(c, "load")'
      BY <2>2 DEF At, Drop
    <2> QED BY <1>1, <2>1, <2>3, AskingStays
  <1> QED BY <1>2, <1>3, <1>4, AssignRefines

LEMMA CopyInitRefines ==
  ASSUME IInv, NEW c \in Contexts, CopyInit(c)
  PROVE  Zeroing!Next
  <1> PICK k \in RuntimeCall : k = call[c]
    BY InCall DEF CopyInit
  <1>1. k.op = "copy" /\ k.dest \in Vars /\ k.src \in Vars /\ ~At(c, "load")
    BY InCall, CallFields DEF CopyInit, At
  <1> PICK v \in Vars : v = k.dest
    BY <1>1
  <1> PICK src \in Tables \cup {Nil} : src = weakVar[k.src] /\ (src # Nil => src \in memory)
    BY <1>1, Parts DEF TypeOK, WeakGood
  <1> PICK side \in Tables \cup {Nil} : side = IF Alive(src) THEN src ELSE Nil
    OBVIOUS
  <1>2. /\ weakVar' = [weakVar EXCEPT ![v] = side]
        /\ call' = [call EXCEPT ![c] = Nil]
        /\ UNCHANGED <<count, owner, held>>
    BY DEF CopyInit, SetCall
  <1>3. Asking' = Asking
    <2>1. ~At(c, "load")' /\ \A d \in Contexts : d # c => call'[d] = call[d]
      BY <1>2, Parts DEF TypeOK, At
    <2> QED BY <1>1, <2>1, AskingStays
  <1> QED BY <1>2, <1>3, AssignRefines

LEMMA TakeInitRefines ==
  ASSUME IInv, NEW c \in Contexts, TakeInit(c)
  PROVE  Zeroing!Next
  <1> PICK k \in RuntimeCall : k = call[c]
    BY InCall DEF TakeInit
  <1>1. /\ k.op = "take" /\ k.dest \in Vars /\ k.src \in Vars
        /\ TransferCallGood(c, k) /\ ~At(c, "load")
    BY InCall, CallFields DEF TakeInit, At
  <1> PICK v \in Vars, src \in Vars : v = k.dest /\ src = k.src /\ src # v
    BY <1>1 DEF TransferCallGood
  <1> PICK old \in Tables \cup {Nil} : old = weakVar[src]
    BY Parts DEF TypeOK
  <1>2. /\ weakVar' = [weakVar EXCEPT ![v] = old, ![src] = Nil]
        /\ call' = [call EXCEPT ![c] = Nil]
        /\ UNCHANGED <<count, owner, held>>
    BY DEF TakeInit, SetCall, heap
  <1>3. Asking' = Asking
    <2>1. ~At(c, "load")' /\ \A d \in Contexts : d # c => call'[d] = call[d]
      BY <1>2, Parts DEF TypeOK, At
    <2> QED BY <1>1, <2>1, AskingStays
  <1>4. \A t : RefersTo(t)' = RefersTo(t)
    BY <1>2 DEF RefersTo, Alive
  <1>5. WeakRef[src] = RefersTo(old) /\ RefersTo(Nil) = Nil
    BY DEF WeakRef, RefersTo, Alive
  <1>6. ASSUME NEW u \in Vars
        PROVE  RefersTo(weakVar[u])' = [WeakRef EXCEPT ![v] = WeakRef[src], ![src] = Nil][u]
    <2> PICK t : t = weakVar'[u]
      OBVIOUS
    <2>1. RefersTo(weakVar[u])' = RefersTo(t)
      BY <1>4 DEF RefersTo, Alive
    <2>2. t = IF u = src THEN Nil ELSE IF u = v THEN old ELSE weakVar[u]
      BY <1>2, Parts DEF TypeOK
    <2>3. u # v /\ u # src => WeakRef[u] = RefersTo(t)
      BY <2>2 DEF WeakRef, RefersTo
    <2>4. WeakRef = [w \in Vars |-> WeakRef[w]]
      BY DEF WeakRef
    <2> QED BY <1>5, <2>1, <2>2, <2>3, <2>4
  <1>7. WeakRef' = [WeakRef EXCEPT ![v] = WeakRef[src], ![src] = Nil]
    BY <1>6 DEF WeakRef, RefersTo
  <1>8. Zeroing!Move(v, src)
    BY <1>2, <1>3, <1>7 DEF Zeroing!Move, WeakRef, Asking
  <1> QED BY <1>8 DEF Zeroing!Next

(* A cleared variable is Nil at once, whatever the call does next but load.*)
LEMMA ClearRefines ==
  ASSUME IInv, NEW c \in Contexts, NEW v \in Vars, NEW next, Clear(c, v, next),
         call[c] = Nil, weakVar[v] = Nil => ~(next # Nil /\ next.op = "load")
  PROVE  Zeroing!Next
  <1> PICK old \in Tables \cup {Nil} : old = weakVar[v]
    BY Parts DEF TypeOK
  <1>1. /\ weakVar' = [weakVar EXCEPT ![v] = Nil] /\ call' = [call EXCEPT ![c] = Drop(old, next)]
        /\ UNCHANGED <<count, owner, held>>
    BY DEF Clear, SetCall, heap
  <1>2. Asking' = Asking
    <2>1. \A d \in Contexts : d # c => call'[d] = call[d]
      BY <1>1, Parts DEF TypeOK
    <2>2. call'[c] = Drop(old, next)
      BY <1>1, Parts DEF TypeOK
    <2>3. ~At(c, "load")' /\ ~At(c, "load")
      BY <2>2 DEF At, Drop
    <2> QED BY <2>1, <2>3, AskingStays
  <1> QED BY <1>1, <1>2, AssignRefines

(* The steps that change counts, stacks and calls only. *)
LEMMA CountStepUnseen ==
  ASSUME IInv, NEW o, NEW s, NEW u, count' = [count EXCEPT ![o] = Plus(@, s, u)],
         UNCHANGED <<weakVar, owner, held, Asking>>
  PROVE  Unseen
  <1>1. WeakRef' = WeakRef
    BY PlusStaysAlive, WeakRefStays, CellFacts
  <1> QED BY <1>1 DEF Unseen

LEMMA OtherStepUnseen ==
  ASSUME IInv, UNCHANGED <<weakVar, count, owner, held, Asking>>
  PROVE  Unseen
  <1>1. WeakRef' = WeakRef
    BY WeakRefStays
  <1> QED BY <1>1 DEF Unseen

LEMMA IdleStepUnseen ==
  ASSUME IInv, UNCHANGED <<weakVar, count, owner, held, call>>
  PROVE  Unseen
  <1>1. Asking' = Asking
    BY DEF Asking, At
  <1> QED BY <1>1, OtherStepUnseen

LEMMA AbortUnseen ==
  ASSUME IInv, Abort
  PROVE  Unseen
  BY IdleStepUnseen DEF Abort, heap

LEMMA UnownedUnseen ==
  ASSUME IInv, NEW c \in Contexts, NEW o \in Objects, NEW n \in 1 .. MaxN,
         \/ UnownedRetain(c, o, n) \/ UnownedRelease(c, o, n) \/ ReleaseObject(c, o)
  PROVE  Unseen
  <1>1. UNCHANGED <<weakVar, owner, held, call>>
    BY DEF UnownedRetain, UnownedRelease, ReleaseObject, DecrementUnowned
  <1>2. Asking' = Asking
    BY <1>1 DEF Asking, At
  <1>3. \E u : count' = [count EXCEPT ![Bits(o)] = Plus(@, 0, u)]
    <2>1. CASE UnownedRetain(c, o, n)
      BY <2>1 DEF UnownedRetain, AddUnowned
    <2>2. CASE UnownedRelease(c, o, n)
      BY <2>2 DEF UnownedRelease, DecrementUnowned, AddUnowned
    <2>3. CASE ReleaseObject(c, o)
      BY <2>3 DEF ReleaseObject, DecrementUnowned, AddUnowned
    <2> QED BY <2>1, <2>2, <2>3
  <1> QED BY <1>1, <1>2, <1>3, CountStepUnseen

LEMMA CallStepUnseen ==
  ASSUME IInv, NEW c \in Contexts, NEW k, call' = [call EXCEPT ![c] = k], ~At(c, "load"),
         ~(k # Nil /\ k.op = "load"), UNCHANGED <<weakVar, count, owner, held>>
  PROVE  Unseen
  <1>1. ~At(c, "load")' /\ \A d \in Contexts : d # c => call'[d] = call[d]
    BY Parts DEF TypeOK, At
  <1> QED BY <1>1, AskingStays, OtherStepUnseen

LEMMA UnownedRetainSlowUnseen ==
  ASSUME IInv, NEW c \in Contexts, NEW o \in Objects, NEW n \in 1 .. MaxN,
         UnownedRetainSlow(c, o, n)
  PROVE  Unseen
  <1> PICK k : k = [op |-> "table", object |-> o, old |-> count[o], dest |-> Nil, n |-> n]
    OBVIOUS
  <1>1. /\ call' = [call EXCEPT ![c] = k] /\ ~At(c, "load")
        /\ UNCHANGED <<weakVar, count, owner, held>>
    BY DEF UnownedRetainSlow, SetCall, Runs, At, heap
  <1> QED BY <1>1, CallStepUnseen

LEMMA WeakAssignUnseen ==
  ASSUME IInv, NEW c \in Contexts, NEW v \in Vars, NEW o \in Objects, WeakAssign(c, v, o)
  PROVE  Unseen
  <1> PICK k : k = IF table[o] # Nil THEN Form(v, table[o])
                   ELSE IF count[o].deiniting THEN Form(v, Nil)
                   ELSE [op |-> "table", object |-> o, old |-> count[o], dest |-> v, n |-> 0]
    OBVIOUS
  <1>1. /\ call' = [call EXCEPT ![c] = k] /\ ~At(c, "load")
        /\ UNCHANGED <<weakVar, count, owner, held>>
    BY DEF WeakAssign, SetCall, Runs, At, heap
  <1>2. k.op # "load"
    BY DEF Form
  <1> QED BY <1>1, <1>2, CallStepUnseen

LEMMA IncrementUnownedUnseen ==
  ASSUME IInv, NEW c \in Contexts, IncrementUnowned(c)
  PROVE  Unseen
  <1> PICK k : k = call[c] /\ k.op = "unown"
    BY InCall DEF IncrementUnowned
  <1>1. CASE Abort
    BY <1>1, AbortUnseen
  <1>2. CASE ~Abort
    <2>1. /\ count' = [count EXCEPT ![k.side] = Plus(@, 0, k.n)]
          /\ call' = [call EXCEPT ![c] = Nil] /\ UNCHANGED <<weakVar, owner, held>>
      BY <1>2 DEF IncrementUnowned, AddUnowned, SetCall
    <2>2. /\ ~At(c, "load") /\ ~At(c, "load")'
          /\ \A d \in Contexts : d # c => call'[d] = call[d]
      BY <2>1, Parts DEF TypeOK, At
    <2>3. Asking' = Asking
      BY <2>2, AskingStays
    <2> QED BY <2>1, <2>3, CountStepUnseen
  <1> QED BY <1>1, <1>2

LEMMA AllocateSideTableUnseen ==
  ASSUME IInv, NEW c \in Contexts, NEW t \in Tables, AllocateSideTable(c, t)
  PROVE  Unseen
  <1> PICK k \in RuntimeCall : k = call[c] /\ k.op = "table"
    BY InCall DEF AllocateSideTable
  <1> PICK next : next = IF k.dest # Nil THEN Form(k.dest, t)
                         ELSE [op |-> "unown", side |-> t, n |-> k.n]
    OBVIOUS
  <1>1. /\ t \notin memory
        /\ count' = [count EXCEPT ![t] = k.old, ![k.object] = NoCount]
        /\ owner' = [owner EXCEPT ![t] = k.object]
        /\ call' = [call EXCEPT ![c] = next]
        /\ UNCHANGED <<weakVar, held>>
    BY DEF AllocateSideTable, SetCall
  <1>2. k.object \in Objects
    BY CallFields
  <1>3. \A u \in Tables : u # t => count'[u] = count[u] /\ owner'[u] = owner[u]
    BY <1>1, <1>2, Parts, CellFacts DEF TypeOK
  <1>4. WeakRef' = WeakRef
    BY <1>1, <1>3, WeakRefStays
  <1>5. /\ ~At(c, "load") /\ call'[c] = next
        /\ \A d \in Contexts : d # c => call'[d] = call[d]
    BY <1>1, Parts DEF TypeOK, At
  <1>6. ~At(c, "load")'
    <2>1. next.op # "load"
      BY DEF Form
    <2> QED BY <1>5, <2>1 DEF At
  <1> QED BY <1>1, <1>4, <1>5, <1>6, AskingStays DEF Unseen

LEMMA StepsRefine ==
  ASSUME IInv, NEW c \in Contexts, Steps(c)
  PROVE  Zeroing!Next \/ Unseen
  <1>1. CASE IncrementUnowned(c)
    BY <1>1, IncrementUnownedUnseen
  <1>2. CASE FormWeakReference(c)
    BY <1>2, FormWeakReferenceRefines
  <1>3. CASE DropWeak(c)
    BY <1>3, DropWeakRefines
  <1>4. CASE TryRetain(c)
    BY <1>4, TryRetainRefines
  <1>5. CASE TryRetainOverflows(c)
    BY <1>5, AbortUnseen DEF TryRetainOverflows
  <1>6. CASE CopyInit(c)
    BY <1>6, CopyInitRefines
  <1>7. CASE TakeInit(c)
    BY <1>7, TakeInitRefines
  <1>8. ASSUME NEW t \in Tables, AllocateSideTable(c, t) PROVE Unseen
    BY <1>8, AllocateSideTableUnseen
  <1>9. ASSUME NEW v \in Vars, DestroyField(c, v) PROVE Zeroing!Next
    BY <1>9, ClearRefines DEF DestroyField, TakesApart
  <1> QED
    BY <1>1, <1>2, <1>3, <1>4, <1>5, <1>6, <1>7, <1>8, <1>9 DEF Steps

LEMMA CountedCallsRefine ==
  ASSUME IInv, NEW c \in Contexts, NEW o \in Objects, NEW n \in 1 .. MaxN,
         \/ Retain(c, o, n) \/ RetainOverflows(c, o, n) \/ Release(c, o, n)
         \/ UnownedRetain(c, o, n) \/ UnownedRetainSlow(c, o, n)
         \/ UnownedRetainOverflows(c, o, n) \/ UnownedRelease(c, o, n)
  PROVE  Zeroing!Next \/ Unseen
  <1>1. CASE Retain(c, o, n)
    BY <1>1, RetainRefines
  <1>2. CASE RetainOverflows(c, o, n)
    BY <1>2, AbortUnseen DEF RetainOverflows
  <1>3. CASE Release(c, o, n)
    BY <1>3, ReleaseRefines
  <1>4. CASE UnownedRetain(c, o, n)
    BY <1>4, UnownedUnseen
  <1>5. CASE UnownedRetainSlow(c, o, n)
    BY <1>5, UnownedRetainSlowUnseen
  <1>6. CASE UnownedRetainOverflows(c, o, n)
    BY <1>6, AbortUnseen DEF UnownedRetainOverflows
  <1>7. CASE UnownedRelease(c, o, n)
    BY <1>7, UnownedUnseen
  <1> QED BY <1>1, <1>2, <1>3, <1>4, <1>5, <1>6, <1>7

LEMMA ObjectCallsRefine ==
  ASSUME IInv, NEW c \in Contexts, NEW o \in Objects,
         \/ \E d \in Contexts : HandOver(c, d, o)
         \/ AllocObject(c, o) \/ DeallocPartialClassInstance(c, o)
         \/ UnownedRetainStrongAborts(c, o) \/ UnownedRetainStrong(c, o)
         \/ EndDeinit(c, o) \/ DeallocObject(c, o) \/ DeallocPartial(c, o)
         \/ FreeObject(c, o) \/ ReleaseObject(c, o)
  PROVE  Zeroing!Next \/ Unseen
  <1>1. ASSUME NEW d \in Contexts, HandOver(c, d, o) PROVE Zeroing!Next
    BY <1>1, HandOverRefines
  <1>2. CASE AllocObject(c, o)
    BY <1>2, AllocObjectRefines
  <1>3. CASE DeallocPartialClassInstance(c, o) \/ EndDeinit(c, o) \/ DeallocObject(c, o) \/ FreeObject(c, o)
    BY <1>3, IdleStepUnseen DEF DeallocPartialClassInstance, EndDeinit, DeallocObject, FreeObject, heap
  <1>4. CASE UnownedRetainStrongAborts(c, o)
    BY <1>4, AbortUnseen DEF UnownedRetainStrongAborts
  <1>5. CASE UnownedRetainStrong(c, o)
    BY <1>5, UnownedRetainStrongRefines
  <1>6. CASE ReleaseObject(c, o)
    <2>1. 1 \in 1 .. MaxN
      BY CountsAssumption
    <2> QED BY <1>6, <2>1, UnownedUnseen
  <1>7. CASE DeallocPartial(c, o)
    BY <1>7, DeallocPartialRefines
  <1> QED BY <1>1, <1>2, <1>3, <1>4, <1>5, <1>6, <1>7

LEMMA CallsRefine ==
  ASSUME IInv, NEW c \in Contexts, Calls(c)
  PROVE  Zeroing!Next \/ Unseen
  <1>1. ASSUME NEW v \in Vars, WeakDestroy(c, v) PROVE Zeroing!Next
    BY <1>1, ClearRefines DEF WeakDestroy, Runs
  <1>2. ASSUME NEW v \in Vars, WeakLoadStrong(c, v) PROVE Zeroing!Next
    BY <1>2, WeakLoadStrongRefines
  <1>3. ASSUME NEW v \in Vars, WeakTakeStrong(c, v) PROVE Zeroing!Next
    <2>1. /\ call[c] = Nil /\ weakVar[v] # Nil
          /\ Clear(c, v, [op |-> "load", side |-> weakVar[v], src |-> Nil])
      BY <1>3 DEF WeakTakeStrong, Runs
    <2> QED BY <2>1, ClearRefines
  <1>4. ASSUME NEW v \in Vars, NEW o \in Objects, WeakAssign(c, v, o) PROVE Unseen
    BY <1>4, WeakAssignUnseen
  <1>5. ASSUME NEW dest \in Vars, NEW src \in Vars, NEW op \in {"copy", "take"},
               WeakTransfer(c, dest, src, op)
        PROVE  Zeroing!Next
    <2> PICK k : k = [op |-> op, dest |-> dest, src |-> src]
      OBVIOUS
    <2>1. call[c] = Nil /\ Clear(c, dest, k)
      BY <1>5 DEF WeakTransfer, Runs
    <2>2. k.op # "load"
      OBVIOUS
    <2> QED BY <2>1, <2>2, ClearRefines
  <1> QED
    BY <1>1, <1>2, <1>3, <1>4, <1>5, CountedCallsRefine, ObjectCallsRefine DEF Calls

LEMMA NextRefines ==
  IInv /\ [Next]_vars => [Zeroing!Next]_(Zeroing!vars)
  <1> SUFFICES ASSUME IInv, [Next]_vars PROVE Zeroing!Next \/ Unseen
    BY DEF Unseen, WeakRef, Asking, Zeroing!vars
  <1>1. ASSUME NEW c \in Contexts, Steps(c) \/ Calls(c) PROVE Zeroing!Next \/ Unseen
    BY <1>1, StepsRefine, CallsRefine
  <1>2. CASE UNCHANGED vars
    BY <1>2, IdleStepUnseen DEF vars, heap, program
  <1> QED BY <1>1, <1>2 DEF Next, Stopped

(* Every behaviour of the counting runtime in which only live objects are  *)
(* taken and counts move undisturbed by other contexts, with its loads and *)
(* destroyers in several steps, is one of weak references that become nil  *)
(* with the last strong reference, and of loads that give a reference      *)
(* exactly when the variable still refers to an object.                    *)
THEOREM Refinement ==
  ASSUME Restricted
  PROVE  Spec => ImplementsZeroing
  <1>1. Init => Zeroing!Init
    BY DEF Init, Zeroing!Init, Alive, At
  <1>2. IInv /\ [Next]_vars => [Zeroing!Next]_(Zeroing!vars)
    BY NextRefines
  <1> QED BY <1>1, <1>2, InductiveInvariant, PTL DEF Spec, ImplementsZeroing, Zeroing!Spec
=============================================================================
