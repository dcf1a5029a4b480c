--------------------------- MODULE Arrays_proofs ---------------------------
(***************************************************************************)
(* What arrays and slices promise about the storage they share, for every  *)
(* number of variables, storages, elements and places, proved under the    *)
(* two restrictions of the run arrays: no range reaches endIndex and no    *)
(* slice is made with repeating:count: (see Arrays).                       *)
(*                                                                         *)
(* All steps but the traps end in Settle.  Settled is therefore stated of  *)
(* Settle's arguments, and every action is shown to call it with arguments *)
(* of which Good and Exact hold; both then hold of the next state.         *)
(***************************************************************************)
EXTENDS Arrays, FiniteSetTheorems, TLAPS

(* The restrictions. *)
Restricted == ~SliceToEnd /\ ~RepeatSlices

-----------------------------------------------------------------------------
(* The storages that constructors are filling. *)
Busy(mk) == {mk[v].owner : v \in {v \in Vars : mk[v] # Nil}}

(* The elements of a storage object are in exactly its first n places. *)
FilledUpTo(r, n) == \A i \in Places : r.place[i] # Uninit <=> i < n

Filled(r) == r.count <= r.capacity /\ FilledUpTo(r, r.count)

InUse(s, st) == s = Empty \/ st[s].capacity > 0

(* A constructor's buffer has a storage object of its own, with as many    *)
(* elements as were stored.                                                *)
Filling(m, st) ==
  /\ InUse(m.owner, st)
  /\ m.done <= st[m.owner].capacity
  /\ FilledUpTo(st[m.owner], m.done)
  /\ m.how = "literal" => st[m.owner].count = m.promised

End(w, st) == IF w.kind = "array" THEN st[w.owner].count ELSE w.hi

(* A view is in the bounds of a storage that no constructor is filling. *)
Sound(w, mk, st) ==
  /\ w \in Views
  /\ InUse(w.owner, st)
  /\ w.owner = Empty \/ w.owner \notin Busy(mk)
  /\ w.lo <= End(w, st)
  /\ End(w, st) <= st[w.owner].count

SoundLoan(l, mk, st) ==
  /\ l \in Loans
  /\ Sound(l.view, mk, st)
  /\ l.count = End(l.view, st) - l.view.lo

Typed(vw, mk, ln, st) ==
  /\ vw \in [Vars -> Views \cup {Nil}]
  /\ mk \in [Vars -> Makings \cup {Nil}]
  /\ ln \in [Vars -> Loans \cup {Nil}]
  /\ st \in [Storages -> StorageObjects]

Apart(mk) ==
  \A u, v \in Vars : u # v /\ mk[u] # Nil /\ mk[v] # Nil /\ mk[u].owner = mk[v].owner
                       => mk[u].owner = Empty

Good(vw, mk, ln, st) ==
  /\ Typed(vw, mk, ln, st)
  /\ st[Empty] = Free
  /\ Apart(mk)
  /\ \A v \in Vars : mk[v] # Nil => Filling(mk[v], st)
  /\ \A s \in Storages : s \notin Busy(mk) => Filled(st[s])
  /\ \A v \in Vars : vw[v] # Nil => Sound(vw[v], mk, st)
  /\ \A v \in Vars : ln[v] # Nil => SoundLoan(ln[v], mk, st)

(* Array memory has retained every element as often as places hold it. *)
Exact(st, own) ==
  /\ own \in [Elems -> Nat]
  /\ \A e \in Elems : own[e] = Cardinality(Holds(st, e))

(* The inductive invariant. *)
IInv ==
  /\ Good(view, making, lent, storage)
  /\ Exact(storage, owned)
  /\ corrupt = FALSE

-----------------------------------------------------------------------------
(* Free memory holds no element. *)
LEMMA FreeIsFilled ==
  Free \in StorageObjects /\ Filled(Free) /\ Free.capacity = 0 /\ Free.count = 0
  BY ArraysAssumption DEF Free, Blank, StorageObjects, Filled, FilledUpTo, Places

LEMMA InitIInv == ASSUME Init PROVE IInv
  <1>1. Typed(view, making, lent, storage)
    BY FreeIsFilled DEF Init, Typed
  <1>2. Good(view, making, lent, storage)
    <2>1. storage[Empty] = Free
      BY DEF Init, Storages
    <2>2. \A s \in Storages : Filled(storage[s])
      BY FreeIsFilled DEF Init
    <2> QED
      BY <1>1, <2>1, <2>2 DEF Init, Good, Apart
  <1>3. \A e \in Elems : Holds(storage, e) = {}
    BY ArraysAssumption DEF Init, Holds, Storages, Free, Blank
  <1>4. Exact(storage, owned)
    BY <1>3, FS_EmptySet DEF Init, Exact
  <1> QED
    BY <1>2, <1>4 DEF Init, IInv

-----------------------------------------------------------------------------
(* The storages that Settle destroys. *)
DeadIn(vw, mk, ln, st) == {s \in Cells : st[s].capacity > 0 /\ s \notin Owners(vw, mk, ln)}

(* Settle frees storages that nothing refers to: neither a constructor's   *)
(* nor a view's nor a loan's is touched.                                   *)
LEMMA SettledGood ==
  ASSUME NEW vw, NEW mk, NEW ln, NEW st, NEW own,
         Good(vw, mk, ln, st), Settle(vw, mk, ln, st, own, FALSE)
  PROVE  Good(view, making, lent, storage)' /\ corrupt' = FALSE
  <1> DEFINE dead == DeadIn(vw, mk, ln, st)
             destroyed == {p \in dead \X Places : p[2] < st[p[1]].count}
             st2 == [s \in Storages |-> IF s \in dead THEN Free ELSE st[s]]
  <1>1. /\ view' = vw /\ making' = mk /\ lent' = ln
        /\ storage' = st2
        /\ corrupt' = (FALSE \/ \E p \in destroyed : st[p[1]].place[p[2]] = Uninit)
    BY DEF Settle, DeadIn
  <1>2. \A s \in dead : s \in Storages /\ s # Empty /\ s \notin Busy(mk) /\ Filled(st[s])
    BY ArraysAssumption DEF DeadIn, Owners, Busy, Good, Storages
  <1>3. corrupt' = FALSE
    BY <1>1, <1>2 DEF Filled, FilledUpTo
  <1>4. \A s \in Storages : s \in Owners(vw, mk, ln) => st2[s] = st[s]
    BY DEF DeadIn
  <1>5. st2[Empty] = Free
    BY <1>2 DEF Good, Storages
  <1>6. Typed(vw, mk, ln, st2)
    BY FreeIsFilled DEF Good, Typed
  <1>7. \A v \in Vars : mk[v] # Nil =>
         mk[v].owner \in Storages /\ mk[v].owner \in Owners(vw, mk, ln)
    BY DEF Good, Typed, Makings, Owners
  <1>8. \A v \in Vars : vw[v] # Nil =>
         vw[v].owner \in Storages /\ vw[v].owner \in Owners(vw, mk, ln)
    BY DEF Good, Typed, Views, Owners
  <1>9. \A v \in Vars : ln[v] # Nil =>
         ln[v].view.owner \in Storages /\ ln[v].view.owner \in Owners(vw, mk, ln)
    BY DEF Good, Typed, Views, Loans, Owners
  <1>10. \A s \in Storages : s \notin Busy(mk) => Filled(st2[s])
    BY FreeIsFilled DEF Good
  <1> HIDE DEF st2, dead, destroyed
  <1>11. \A v \in Vars : mk[v] # Nil => Filling(mk[v], st2)
    BY <1>4, <1>7 DEF Good, Filling, InUse
  <1>12. \A v \in Vars : vw[v] # Nil => Sound(vw[v], mk, st2)
    BY <1>4, <1>8 DEF Good, Sound, InUse, End
  <1>13. \A v \in Vars : ln[v] # Nil => SoundLoan(ln[v], mk, st2)
    BY <1>4, <1>9 DEF Good, Sound, SoundLoan, InUse, End
  <1>14. Good(vw, mk, ln, st2)
    BY <1>5, <1>6, <1>10, <1>11, <1>12, <1>13 DEF Good
  <1> QED
    BY <1>1, <1>3, <1>14

(* The pairs of a storage and a place that hold e are finitely many. *)
LEMMA HoldsFinite ==
  ASSUME NEW st, NEW e
  PROVE  IsFiniteSet(Holds(st, e)) /\ Cardinality(Holds(st, e)) \in Nat
  <1>1. IsFiniteSet(Places)
    BY ArraysAssumption, FS_Interval DEF Places
  <1>2. IsFiniteSet(Cells \X Places)
    BY <1>1, ArraysAssumption, FS_Product
  <1> QED
    BY <1>2, FS_Subset, FS_CardinalityType DEF Holds

(* The deinit of the storages that Settle frees releases every element     *)
(* they hold, once.                                                        *)
LEMMA SettledExact ==
  ASSUME NEW vw, NEW mk, NEW ln, NEW st, NEW own,
         Good(vw, mk, ln, st), Exact(st, own), Settle(vw, mk, ln, st, own, FALSE)
  PROVE  Exact(storage, owned)'
  <1> DEFINE dead == DeadIn(vw, mk, ln, st)
             destroyed == {p \in dead \X Places : p[2] < st[p[1]].count}
             st2 == [s \in Storages |-> IF s \in dead THEN Free ELSE st[s]]
  <1>1. /\ storage' = st2
        /\ owned' = [e \in Elems |-> own[e] - Cardinality(Holds(st, e) \cap destroyed)]
    BY DEF Settle, DeadIn
  <1>2. \A s \in dead : s \in Cells /\ Filled(st[s])
    BY ArraysAssumption DEF DeadIn, Owners, Busy, Good, Storages
  <1>3. ASSUME NEW e \in Elems
        PROVE  Holds(st2, e) = Holds(st, e) \ destroyed
    <2>1. ASSUME NEW s \in Cells, NEW i \in Places
          PROVE  st2[s].place[i] = e <=> st[s].place[i] = e /\ <<s, i>> \notin destroyed
      <3>1. CASE s \in dead
        BY <1>2, <3>1, ArraysAssumption DEF Filled, FilledUpTo, Free, Blank, Storages
      <3>2. CASE s \notin dead
        BY <3>2 DEF Storages
      <3> QED BY <3>1, <3>2
    <2> QED
      BY <2>1 DEF Holds
  <1>4. ASSUME NEW e \in Elems
        PROVE  /\ Cardinality(Holds(st2, e)) \in Nat
               /\ Cardinality(Holds(st2, e)) = own[e] - Cardinality(Holds(st, e) \cap destroyed)
    <2> HIDE DEF st2, destroyed
    <2>1. Cardinality(Holds(st, e) \ destroyed)
            = Cardinality(Holds(st, e)) - Cardinality(Holds(st, e) \cap destroyed)
      BY HoldsFinite, FS_Difference
    <2> QED
      BY <1>3, <2>1, HoldsFinite DEF Exact
  <1> HIDE DEF st2, destroyed
  <1> QED
    BY <1>1, <1>4 DEF Exact

(* What a step hands to Settle decides what the next state is like. *)
LEMMA Settled ==
  ASSUME NEW vw, NEW mk, NEW ln, NEW st, NEW own,
         Good(vw, mk, ln, st), Exact(st, own), Settle(vw, mk, ln, st, own, FALSE)
  PROVE  IInv'
  BY SettledGood, SettledExact DEF IInv
-----------------------------------------------------------------------------
(***************************************************************************)
(* How the parts of the state may change.                                  *)
(***************************************************************************)

(* A variable gets another view, or none. *)
LEMMA ViewChange ==
  ASSUME NEW vw, NEW mk, NEW ln, NEW st, Good(vw, mk, ln, st),
         NEW v \in Vars, NEW w, w = Nil \/ Sound(w, mk, st)
  PROVE  Good([vw EXCEPT ![v] = w], mk, ln, st)
  <1> DEFINE vw2 == [vw EXCEPT ![v] = w]
  <1>1. vw2 \in [Vars -> Views \cup {Nil}]
    BY DEF Good, Typed, Sound
  <1>2. \A u \in Vars : vw2[u] = IF u = v THEN w ELSE vw[u]
    BY DEF Good, Typed
  <1>3. \A u \in Vars : vw2[u] # Nil => Sound(vw2[u], mk, st)
    BY <1>2 DEF Good
  <1> HIDE DEF vw2
  <1> QED
    BY <1>1, <1>3 DEF Good, Typed, vw2

(* A loan begins or ends. *)
LEMMA LoanChange ==
  ASSUME NEW vw, NEW mk, NEW ln, NEW st, Good(vw, mk, ln, st),
         NEW v \in Vars, NEW l, l = Nil \/ SoundLoan(l, mk, st)
  PROVE  Good(vw, mk, [ln EXCEPT ![v] = l], st)
  <1> DEFINE ln2 == [ln EXCEPT ![v] = l]
  <1>1. ln2 \in [Vars -> Loans \cup {Nil}]
    BY DEF Good, Typed, SoundLoan
  <1>2. \A u \in Vars : ln2[u] = IF u = v THEN l ELSE ln[u]
    BY DEF Good, Typed
  <1>3. \A u \in Vars : ln2[u] # Nil => SoundLoan(ln2[u], mk, st)
    BY <1>2 DEF Good
  <1> HIDE DEF ln2
  <1> QED
    BY <1>1, <1>3 DEF Good, Typed, ln2

(* A free cell becomes a storage object with all its elements. *)
LEMMA NewStorage ==
  ASSUME NEW vw, NEW mk, NEW ln, NEW st, Good(vw, mk, ln, st),
         NEW c \in Cells, st[c].capacity = 0,
         NEW r \in StorageObjects, r.capacity > 0, Filled(r)
  PROVE  /\ Good(vw, mk, ln, [st EXCEPT ![c] = r])
         /\ Sound(WholeArray(c), mk, [st EXCEPT ![c] = r])
  <1> DEFINE st2 == [st EXCEPT ![c] = r]
  <1>1. c \in Storages /\ c # Empty
    BY ArraysAssumption DEF Storages
  <1>2. st2 \in [Storages -> StorageObjects] /\ st2[Empty] = Free
    BY <1>1 DEF Good, Typed, Storages
  <1>3. \A s \in Storages : st2[s] = IF s = c THEN r ELSE st[s]
    BY DEF Good, Typed
  <1>4. \A v \in Vars : mk[v] # Nil => mk[v].owner \in Storages /\ mk[v].owner # c
    BY <1>1 DEF Good, Typed, Makings, Filling, InUse
  <1>5. \A v \in Vars : vw[v] # Nil => vw[v].owner \in Storages /\ vw[v].owner # c
    BY <1>1 DEF Good, Sound, Views, InUse
  <1>6. \A v \in Vars : ln[v] # Nil => ln[v].view.owner \in Storages /\ ln[v].view.owner # c
    BY <1>1 DEF Good, SoundLoan, Sound, Views, InUse
  <1>7. c \notin Busy(mk)
    BY <1>4 DEF Busy
  <1> HIDE DEF st2
  <1>8. \A v \in Vars : mk[v] # Nil => Filling(mk[v], st2)
    BY <1>3, <1>4 DEF Good, Filling, InUse
  <1>9. \A v \in Vars : vw[v] # Nil => Sound(vw[v], mk, st2)
    BY <1>3, <1>5 DEF Good, Sound, InUse, End
  <1>10. \A v \in Vars : ln[v] # Nil => SoundLoan(ln[v], mk, st2)
    BY <1>3, <1>6 DEF Good, Sound, SoundLoan, InUse, End
  <1>11. \A s \in Storages : s \notin Busy(mk) => Filled(st2[s])
    BY <1>3 DEF Good
  <1>12. Good(vw, mk, ln, st2)
    BY <1>2, <1>8, <1>9, <1>10, <1>11 DEF Good, Typed
  <1>13. Sound(WholeArray(c), mk, st2)
    BY <1>1, <1>3, <1>7, ArraysAssumption
    DEF Sound, WholeArray, Views, Places, InUse, End, StorageObjects
  <1> QED
    BY <1>12, <1>13 DEF st2

(* An element takes the place of another. *)
LEMMA ElementChange ==
  ASSUME NEW vw, NEW mk, NEW ln, NEW st, Good(vw, mk, ln, st),
         NEW s \in Storages, s = Empty \/ s \notin Busy(mk),
         NEW i \in Nat, i < st[s].count, NEW e \in Elems
  PROVE  /\ Good(vw, mk, ln, [st EXCEPT ![s] = WithPlace(st[s], i, e)])
         /\ i \in Places /\ s \in Cells
         /\ st[s].place[i] # Uninit
  <1> DEFINE r == WithPlace(st[s], i, e)
             st2 == [st EXCEPT ![s] = r]
  <1>1. st[s] \in StorageObjects /\ s # Empty /\ s \in Cells /\ s \notin Busy(mk) /\ Filled(st[s])
    BY FreeIsFilled DEF Good, Typed, Storages
  <1>2. i \in Places
    BY <1>1, ArraysAssumption DEF StorageObjects, Places
  <1>3. /\ r \in StorageObjects
        /\ r.capacity = st[s].capacity /\ r.count = st[s].count
        /\ \A j \in Places : r.place[j] = IF j = i THEN e ELSE st[s].place[j]
    BY <1>1 DEF WithPlace, StorageObjects
  <1>4. Filled(r)
    BY <1>1, <1>2, <1>3, ArraysAssumption DEF Filled, FilledUpTo
  <1> HIDE DEF r
  <1>5. st2 \in [Storages -> StorageObjects] /\ st2[Empty] = Free
    BY <1>1, <1>3 DEF Good, Typed, Storages
  <1>6. \A q \in Storages : st2[q] = IF q = s THEN r ELSE st[q]
    BY DEF Good, Typed
  <1>7. \A v \in Vars : mk[v] # Nil => mk[v].owner \in Storages /\ mk[v].owner # s
    BY <1>1 DEF Good, Typed, Makings, Busy
  <1>8. \A v \in Vars : vw[v] # Nil => vw[v].owner \in Storages
    BY DEF Good, Sound, Views
  <1>9. \A v \in Vars : ln[v] # Nil => ln[v].view.owner \in Storages
    BY DEF Good, SoundLoan, Sound, Views
  <1> HIDE DEF st2
  <1>10. \A v \in Vars : mk[v] # Nil => Filling(mk[v], st2)
    BY <1>6, <1>7 DEF Good, Filling, InUse
  <1>11. \A v \in Vars : vw[v] # Nil => Sound(vw[v], mk, st2)
    BY <1>3, <1>6, <1>8 DEF Good, Sound, InUse, End
  <1>12. \A v \in Vars : ln[v] # Nil => SoundLoan(ln[v], mk, st2)
    BY <1>3, <1>6, <1>9 DEF Good, Sound, SoundLoan, InUse, End
  <1>13. \A q \in Storages : q \notin Busy(mk) => Filled(st2[q])
    BY <1>4, <1>6 DEF Good
  <1>14. Good(vw, mk, ln, st2)
    BY <1>5, <1>10, <1>11, <1>12, <1>13 DEF Good, Typed
  <1> QED
    BY <1>1, <1>2, <1>14 DEF st2, r, Filled, FilledUpTo

(* A constructor ends: its storage object holds all its elements. *)
LEMMA MakingEnds ==
  ASSUME NEW vw, NEW mk, NEW ln, NEW st, Good(vw, mk, ln, st),
         NEW v \in Vars, mk[v] # Nil,
         NEW r \in StorageObjects, Filled(r),
         r.capacity = st[mk[v].owner].capacity,
         mk[v].owner = Empty => r = Free
  PROVE  LET mk2 == [mk EXCEPT ![v] = Nil]
             st2 == [st EXCEPT ![mk[v].owner] = r]
         IN  Good(vw, mk2, ln, st2) /\ Sound(WholeArray(mk[v].owner), mk2, st2)
  <1> DEFINE s == mk[v].owner
             mk2 == [mk EXCEPT ![v] = Nil]
             st2 == [st EXCEPT ![s] = r]
  <1>1. mk[v] \in Makings /\ s \in Storages /\ InUse(s, st)
    BY DEF Good, Typed, Makings, Filling
  <1>2. /\ mk2 \in [Vars -> Makings \cup {Nil}]
        /\ \A u \in Vars : mk2[u] = IF u = v THEN Nil ELSE mk[u]
    BY DEF Good, Typed
  <1>3. /\ st2 \in [Storages -> StorageObjects]
        /\ \A q \in Storages : st2[q] = IF q = s THEN r ELSE st[q]
        /\ st2[Empty] = Free
    BY DEF Good, Typed, Storages
  <1>4. s \in Busy(mk)
    BY DEF Busy
  <1>5. \A u \in Vars : u # v /\ mk[u] # Nil /\ mk[u].owner = s => s = Empty
    BY DEF Good, Apart
  <1>6. \A q \in Storages : q \in Busy(mk2) => q \in Busy(mk) /\ (q = s => q = Empty)
    BY <1>2, <1>5 DEF Busy
  <1>7. \A q \in Storages : q \notin Busy(mk2) => q = s \/ q \notin Busy(mk)
    BY <1>2 DEF Busy
  <1>8. \A u \in Vars : mk2[u] # Nil => mk2[u] = mk[u] /\ mk[u].owner \in Storages
    BY <1>2 DEF Good, Typed, Makings
  <1>9. \A u \in Vars : vw[u] # Nil => vw[u].owner \in Storages /\ (vw[u].owner = s => s = Empty)
    BY <1>4 DEF Good, Sound, Views
  <1>10. \A u \in Vars : ln[u] # Nil =>
          ln[u].view.owner \in Storages /\ (ln[u].view.owner = s => s = Empty)
    BY <1>4 DEF Good, SoundLoan, Sound, Views
  <1>11. s = Empty => r = st[s]
    BY DEF Good
  <1> HIDE DEF st2, mk2, s
  <1>12. \A u \in Vars : mk2[u] # Nil => Filling(mk2[u], st2)
    <2> SUFFICES ASSUME NEW u \in Vars, mk2[u] # Nil PROVE Filling(mk2[u], st2)
      OBVIOUS
    <2>1. mk2[u] = mk[u] /\ mk[u] # Nil /\ mk[u].owner \in Storages /\ Filling(mk[u], st)
      BY <1>8 DEF Good
    <2>2. st2[mk[u].owner] = st[mk[u].owner]
      BY <1>2, <1>3, <1>5, <1>11, <2>1
    <2> QED BY <2>1, <2>2 DEF Filling, InUse
  <1>13. \A u \in Vars : vw[u] # Nil => Sound(vw[u], mk2, st2)
    BY <1>3, <1>6, <1>9, <1>11 DEF Good, Sound, InUse, End
  <1>14. \A u \in Vars : ln[u] # Nil => SoundLoan(ln[u], mk2, st2)
    BY <1>3, <1>6, <1>10, <1>11 DEF Good, Sound, SoundLoan, InUse, End
  <1>15. \A q \in Storages : q \notin Busy(mk2) => Filled(st2[q])
    BY <1>3, <1>7 DEF Good
  <1>16. Apart(mk2)
    BY <1>8 DEF Good, Apart
  <1>17. Good(vw, mk2, ln, st2)
    BY <1>2, <1>3, <1>12, <1>13, <1>14, <1>15, <1>16 DEF Good, Typed
  <1>18. Sound(WholeArray(s), mk2, st2)
    <2>1. InUse(s, st2)
      BY <1>1, <1>3 DEF InUse, s
    <2>2. st2[s].count \in Nat
      BY <1>1, <1>3, ArraysAssumption DEF StorageObjects
    <2> QED
      BY <1>1, <1>6, <2>1, <2>2, ArraysAssumption DEF Sound, WholeArray, Views, Places, End
  <1> QED
    BY <1>17, <1>18 DEF st2, mk2, s

(* A constructor begins, stores an element or moves to a larger buffer.    *)
LEMMA MakingMoves ==
  ASSUME NEW vw, NEW mk, NEW ln, NEW st, Good(vw, mk, ln, st),
         NEW v \in Vars, NEW m \in Makings,
         NEW st2 \in [Storages -> StorageObjects], st2[Empty] = Free,
         Filling(m, st2),
         \/ m.owner = Empty
         \/ st[m.owner].capacity = 0
         \/ mk[v] # Nil /\ m.owner = mk[v].owner,
         \A q \in Storages : q # m.owner /\ (mk[v] # Nil => q # mk[v].owner) => st2[q] = st[q],
         mk[v] # Nil /\ mk[v].owner # m.owner => Filled(st2[mk[v].owner])
  PROVE  Good(vw, [mk EXCEPT ![v] = m], ln, st2)
  <1> DEFINE mk2 == [mk EXCEPT ![v] = m]
  <1>1. /\ mk2 \in [Vars -> Makings \cup {Nil}]
        /\ \A u \in Vars : mk2[u] = IF u = v THEN m ELSE mk[u]
    BY DEF Good, Typed
  <1>2. m # Nil /\ m.owner \in Storages
    BY ArraysAssumption DEF Makings
  <1>3. \A u \in Vars : u # v /\ mk[u] # Nil
          => /\ mk[u].owner \in Storages /\ InUse(mk[u].owner, st)
             /\ mk[u].owner = Empty \/ (mk[v] # Nil => mk[u].owner # mk[v].owner)
    BY DEF Good, Typed, Makings, Filling, Apart
  <1>4. \A q \in Storages : InUse(q, st) /\ (q = Empty \/ (mk[v] # Nil => q # mk[v].owner))
                              => st2[q] = st[q] /\ (q = Empty \/ q # m.owner)
    BY <1>2 DEF Good, InUse
  <1>5. \A q \in Storages : q \in Busy(mk2)
          => q = m.owner \/ \E u \in Vars : u # v /\ mk[u] # Nil /\ q = mk[u].owner
    BY <1>1 DEF Busy
  <1>6. \A q \in Storages : q \notin Busy(mk2)
          => q # m.owner /\ (q \notin Busy(mk) \/ (mk[v] # Nil /\ q = mk[v].owner))
    BY <1>1, <1>2 DEF Busy
  <1>7. mk[v] # Nil => mk[v].owner \in Busy(mk)
    BY DEF Busy
  <1>8. \A w : Sound(w, mk, st) => /\ w.owner \in Storages
                                   /\ st2[w.owner] = st[w.owner]
                                   /\ w.owner = Empty \/ w.owner \notin Busy(mk2)
    <2> SUFFICES ASSUME NEW w, Sound(w, mk, st)
                 PROVE  /\ w.owner \in Storages
                        /\ st2[w.owner] = st[w.owner]
                        /\ w.owner = Empty \/ w.owner \notin Busy(mk2)
      OBVIOUS
    <2>1. w.owner \in Storages /\ InUse(w.owner, st) /\ (w.owner = Empty \/ w.owner \notin Busy(mk))
      BY DEF Sound, Views
    <2>2. st2[w.owner] = st[w.owner] /\ (w.owner = Empty \/ w.owner # m.owner)
      BY <1>4, <1>7, <2>1
    <2> HIDE DEF mk2
    <2>3. w.owner = Empty \/ w.owner \notin Busy(mk2)
      BY <1>5, <2>1, <2>2 DEF Busy
    <2> QED BY <2>1, <2>2, <2>3
  <1> HIDE DEF mk2
  <1>9. \A w : Sound(w, mk, st) => Sound(w, mk2, st2) /\ End(w, st2) = End(w, st)
    BY <1>8 DEF Sound, InUse, End
  <1>10. \A u \in Vars : vw[u] # Nil => Sound(vw[u], mk2, st2)
    BY <1>9 DEF Good
  <1>11. \A u \in Vars : ln[u] # Nil => SoundLoan(ln[u], mk2, st2)
    BY <1>9 DEF Good, SoundLoan
  <1>12. \A u \in Vars : mk2[u] # Nil => Filling(mk2[u], st2)
    <2> SUFFICES ASSUME NEW u \in Vars, u # v, mk[u] # Nil PROVE Filling(mk[u], st2)
      BY <1>1
    <2>1. st2[mk[u].owner] = st[mk[u].owner]
      BY <1>3, <1>4
    <2> QED BY <2>1 DEF Good, Filling, InUse
  <1>13. \A q \in Storages : q \notin Busy(mk2) => Filled(st2[q])
    BY <1>6 DEF Good
  <1>14. Apart(mk2)
    <2>1. \A u \in Vars : u # v /\ mk[u] # Nil /\ mk[u].owner = m.owner => m.owner = Empty
      BY <1>3, <1>4
    <2> QED BY <1>1, <2>1 DEF Apart, Good
  <1> QED
    BY <1>1, <1>10, <1>11, <1>12, <1>13, <1>14 DEF Good, Typed, mk2

-----------------------------------------------------------------------------
(***************************************************************************)
(* How the number of places that hold an element changes.                  *)
(***************************************************************************)
Row(r, e) == {i \in Places : r.place[i] = e}

LEMMA RowFinite ==
  ASSUME NEW r, NEW e
  PROVE  IsFiniteSet(Row(r, e)) /\ Cardinality(Row(r, e)) \in Nat
  <1>1. IsFiniteSet(Places)
    BY ArraysAssumption, FS_Interval DEF Places
  <1> QED
    BY <1>1, FS_Subset, FS_CardinalityType DEF Row

SameBut(c, st, st2) == \A q \in Cells : q # c => st2[q].place = st[q].place

Overwritten(r, i, x, r2) == \A j \in Places : r2.place[j] = IF j = i THEN x ELSE r.place[j]

(* When the places of one cell change, the places of all cells that hold e *)
(* change by the difference.                                               *)
LEMMA RowChange ==
  ASSUME NEW st, NEW st2, NEW c \in Cells, NEW e, SameBut(c, st, st2)
  PROVE  Cardinality(Holds(st2, e))
           = Cardinality(Holds(st, e)) - Cardinality(Row(st[c], e)) + Cardinality(Row(st2[c], e))
  <1> DEFINE others == {p \in Holds(st, e) : p[1] # c}
  <1>1. ASSUME NEW s2, SameBut(c, st, s2)
        PROVE  Cardinality(Holds(s2, e)) = Cardinality(others) + Cardinality(Row(s2[c], e))
    <2> DEFINE row == {c} \X Row(s2[c], e)
    <2>1. Holds(s2, e) = others \cup row
      BY <1>1 DEF Holds, Row, SameBut
    <2>2. others \cap row = {}
      OBVIOUS
    <2>3. IsFiniteSet(row) /\ Cardinality(row) = Cardinality(Row(s2[c], e))
      <3>1. IsFiniteSet({c}) /\ Cardinality({c}) = 1
        BY FS_Singleton
      <3> QED BY <3>1, RowFinite, FS_Product
    <2>4. IsFiniteSet(others)
      BY HoldsFinite, FS_Subset
    <2> HIDE DEF others, row
    <2>5. Cardinality(others \cup row)
            = Cardinality(others) + Cardinality(row) - Cardinality(others \cap row)
      BY <2>3, <2>4, FS_Union
    <2>6. Cardinality(others) \in Nat /\ Cardinality(row) \in Nat
      BY <2>3, <2>4, FS_CardinalityType
    <2>7. Cardinality(others \cap row) = 0
      BY <2>2, FS_EmptySet
    <2> QED
      BY <2>1, <2>3, <2>5, <2>6, <2>7
  <1>2. Cardinality(Holds(st, e)) = Cardinality(others) + Cardinality(Row(st[c], e))
    BY <1>1 DEF SameBut
  <1>3. Cardinality(Holds(st2, e)) = Cardinality(others) + Cardinality(Row(st2[c], e))
    BY <1>1
  <1>4. Cardinality(others) \in Nat
    BY HoldsFinite, FS_Subset, FS_CardinalityType
  <1> HIDE DEF others
  <1> QED
    BY <1>2, <1>3, <1>4, RowFinite

LEMMA EmptyRow ==
  ASSUME NEW r, FilledUpTo(r, 0), NEW e \in Elems
  PROVE  Cardinality(Row(r, e)) = 0
  <1>1. Row(r, e) = {}
    BY ArraysAssumption DEF Row, FilledUpTo, Places
  <1> QED
    BY <1>1, FS_EmptySet

(* Row after one place was overwritten. *)
LEMMA RowPlace ==
  ASSUME NEW r, NEW r2, NEW i \in Places, NEW x, Overwritten(r, i, x, r2), NEW e
  PROVE  Cardinality(Row(r2, e))
           = Cardinality(Row(r, e)) + (IF e = x THEN 1 ELSE 0) - (IF e = r.place[i] THEN 1 ELSE 0)
  <1> DEFINE rest == Row(r, e) \ {i}
  <1>1. IsFiniteSet(rest) /\ Cardinality(rest) \in Nat
    BY RowFinite, FS_Difference, FS_CardinalityType
  <1>2. Cardinality(rest)
          = IF e = r.place[i] THEN Cardinality(Row(r, e)) - 1 ELSE Cardinality(Row(r, e))
    <2>1. i \in Row(r, e) <=> e = r.place[i]
      BY DEF Row
    <2> QED BY <2>1, RowFinite, FS_RemoveElement
  <1>3. Row(r2, e) = IF e = x THEN rest \cup {i} ELSE rest
    BY DEF Row, Overwritten
  <1>4. Cardinality(rest \cup {i}) = Cardinality(rest) + 1
    BY <1>1, FS_AddElement
  <1> HIDE DEF rest
  <1> QED
    BY <1>1, <1>2, <1>3, <1>4, RowFinite

(* n places filled with x. *)
LEMMA RowRepeated ==
  ASSUME NEW r, NEW x \in Elems, NEW n \in 0 .. MaxCount,
         \A i \in Places : r.place[i] = IF i < n THEN x ELSE Uninit,
         NEW e \in Elems
  PROVE  Cardinality(Row(r, e)) = IF e = x THEN n ELSE 0
  <1>1. Row(r, e) = IF e = x THEN 0 .. n - 1 ELSE {}
    BY ArraysAssumption DEF Row, Places
  <1>2. Cardinality(0 .. n - 1) = n
    BY ArraysAssumption, FS_Interval
  <1> QED
    BY <1>1, <1>2, FS_EmptySet

(* A free cell gets places of its own. *)
LEMMA ExactNew ==
  ASSUME NEW vw, NEW mk, NEW ln, NEW st, Good(vw, mk, ln, st),
         NEW c \in Cells, st[c].capacity = 0, NEW r, NEW e \in Elems
  PROVE  Cardinality(Holds([st EXCEPT ![c] = r], e))
           = Cardinality(Holds(st, e)) + Cardinality(Row(r, e))
  <1> DEFINE st2 == [st EXCEPT ![c] = r]
  <1>1. c \in Storages /\ c # Empty
    BY ArraysAssumption DEF Storages
  <1>2. c \notin Busy(mk)
    BY <1>1 DEF Busy, Good, Filling, InUse
  <1>3. FilledUpTo(st[c], 0)
    BY <1>1, <1>2 DEF Good, Typed, Filled, StorageObjects
  <1>4. st2[c] = r /\ SameBut(c, st, st2)
    BY <1>1 DEF Good, Typed, Storages, SameBut
  <1> HIDE DEF st2
  <1>5. Cardinality(Holds(st2, e))
           = Cardinality(Holds(st, e)) - Cardinality(Row(st[c], e)) + Cardinality(Row(st2[c], e))
    BY <1>4, RowChange
  <1> QED
    BY <1>3, <1>4, <1>5, EmptyRow, RowFinite, HoldsFinite DEF st2

(* One place of a cell gets another content. *)
LEMMA ExactPlace ==
  ASSUME NEW st, NEW st2, NEW c \in Cells, SameBut(c, st, st2),
         NEW i \in Places, NEW x \in Elems, Overwritten(st[c], i, x, st2[c]), NEW e \in Elems
  PROVE  Cardinality(Holds(st2, e))
           = Cardinality(Holds(st, e)) + (IF e = x THEN 1 ELSE 0)
                                       - (IF e = st[c].place[i] THEN 1 ELSE 0)
  <1>1. Cardinality(Holds(st2, e))
           = Cardinality(Holds(st, e)) - Cardinality(Row(st[c], e)) + Cardinality(Row(st2[c], e))
    BY RowChange
  <1>2. Cardinality(Row(st2[c], e))
           = Cardinality(Row(st[c], e)) + (IF e = x THEN 1 ELSE 0)
                                        - (IF e = st[c].place[i] THEN 1 ELSE 0)
    BY RowPlace
  <1> QED
    BY <1>1, <1>2, RowFinite, HoldsFinite

(* A storage loses its elements. *)
LEMMA ExactEmptied ==
  ASSUME NEW st \in [Storages -> StorageObjects], st[Empty] = Free,
         NEW s \in Storages, NEW e \in Elems
  PROVE  Cardinality(Holds([st EXCEPT ![s] = Emptied(st[s])], e))
           = Cardinality(Holds(st, e)) - Cardinality(Row(st[s], e))
  <1> DEFINE r == Emptied(st[s])
             st2 == [st EXCEPT ![s] = r]
  <1>1. FilledUpTo(r, 0)
    BY ArraysAssumption DEF FilledUpTo, Emptied, Blank, StorageObjects, Places
  <1>2. CASE s \in Cells
    <2>1. st2[s] = r /\ SameBut(s, st, st2)
      BY <1>2 DEF Storages, SameBut
    <2> HIDE DEF st2, r
    <2>2. Cardinality(Holds(st2, e))
             = Cardinality(Holds(st, e)) - Cardinality(Row(st[s], e)) + Cardinality(Row(r, e))
      BY <1>2, <2>1, RowChange
    <2> QED BY <1>1, <2>2, EmptyRow, RowFinite, HoldsFinite DEF st2, r
  <1>3. CASE s = Empty
    <2>1. Cardinality(Row(st[s], e)) = 0
      <3>1. FilledUpTo(st[s], 0)
        BY <1>3, FreeIsFilled DEF Filled
      <3> QED BY <3>1, EmptyRow
    <2>2. Holds(st2, e) = Holds(st, e)
      BY <1>3, ArraysAssumption DEF Holds, Storages
    <2> QED BY <2>1, <2>2, HoldsFinite
  <1> QED BY <1>2, <1>3 DEF Storages

-----------------------------------------------------------------------------
(***************************************************************************)
(* Sharing and slicing.                                                    *)
(***************************************************************************)

(* The type of the count and the bounds of a sound view. *)
LEMMA SoundBounds ==
  ASSUME NEW w, NEW mk, NEW st \in [Storages -> StorageObjects], Sound(w, mk, st)
  PROVE  /\ w.owner \in Storages /\ w.lo \in Nat
         /\ End(w, st) \in Nat /\ st[w.owner].count \in 0 .. MaxCount
         /\ w.kind = "array" => w.lo <= st[w.owner].count
  BY ArraysAssumption DEF Sound, Views, Places, StorageObjects, End

(* The views of the empty storage are sound. *)
LEMMA EmptySound ==
  ASSUME NEW vw, NEW mk, NEW ln, NEW st, Good(vw, mk, ln, st)
  PROVE  Sound(WholeArray(Empty), mk, st) /\ Sound(SliceOf(Empty, 0, 0), mk, st)
  <1>1. st[Empty].count = 0
    BY FreeIsFilled DEF Good
  <1>2. WholeArray(Empty) \in Views /\ SliceOf(Empty, 0, 0) \in Views
    BY ArraysAssumption DEF WholeArray, SliceOf, Views, Storages, Places
  <1> QED
    BY <1>1, <1>2 DEF Sound, WholeArray, SliceOf, InUse, End

(* A variable is set to a view of a storage there is. *)
LEMMA ViewStep ==
  ASSUME IInv, NEW v \in Vars, NEW w, w = Nil \/ Sound(w, making, storage),
         Settle([view EXCEPT ![v] = w], making, lent, storage, owned, FALSE)
  PROVE  IInv'
  <1> DEFINE vw == [view EXCEPT ![v] = w]
  <1>1. Good(vw, making, lent, storage)
    BY ViewChange DEF IInv
  <1>2. Settle(vw, making, lent, storage, owned, FALSE)
    OBVIOUS
  <1> HIDE DEF vw
  <1> QED
    BY <1>1, <1>2, Settled DEF IInv

LEMMA AssignStep ==
  ASSUME IInv, NEW v \in Vars, NEW w \in Vars, Assign(v, w)
  PROVE  IInv'
  <1>1. Sound(view[w], making, storage)
    BY DEF Assign, IInv, Good
  <1> QED
    BY <1>1, ViewStep DEF Assign

LEMMA DropStep ==
  ASSUME IInv, NEW v \in Vars, Drop(v)
  PROVE  IInv'
  BY ViewStep DEF Drop

LEMMA SliceWholeStep ==
  ASSUME IInv, NEW v \in Vars, NEW w \in Vars, SliceWhole(v, w)
  PROVE  IInv'
  <1> DEFINE s == SliceOf(view[w].owner, 0, Count(view[w]))
  <1>1. Sound(view[w], making, storage) /\ view[w].kind = "array"
    BY DEF SliceWhole, IInv, Good
  <1>2. storage \in [Storages -> StorageObjects]
    BY DEF IInv, Good, Typed
  <1>3. Sound(s, making, storage)
    BY <1>1, <1>2, SoundBounds, ArraysAssumption
    DEF Sound, SliceOf, Count, EndIndex, Views, End, Places
  <1> HIDE DEF s
  <1>4. Settle([view EXCEPT ![v] = s], making, lent, storage, owned, FALSE)
    BY DEF SliceWhole, Define, s
  <1> QED
    BY <1>3, <1>4, ViewStep

LEMMA SliceStep ==
  ASSUME Restricted, IInv, NEW v \in Vars, NEW w \in Vars, NEW a \in Places, NEW b \in Places,
         Slice(v, w, a, b)
  PROVE  IInv'
  <1> DEFINE s == RangeOf(view[w], a, b)
  <1>1. Sound(view[w], making, storage)
    BY DEF Slice, IInv, Good
  <1>2. storage \in [Storages -> StorageObjects]
    BY DEF IInv, Good, Typed
  <1>3. a <= b /\ b < EndIndex(view[w])
    BY DEF Slice, Restricted
  <1>4. Sound(s, making, storage)
    BY <1>1, <1>2, <1>3, SoundBounds, ArraysAssumption
    DEF Sound, RangeOf, SliceOf, EndIndex, Views, End, Places
  <1> HIDE DEF s
  <1>5. Settle([view EXCEPT ![v] = s], making, lent, storage, owned, FALSE)
    BY DEF Slice, Define, s
  <1> QED
    BY <1>4, <1>5, ViewStep

(* A new storage object with all its elements in a variable's first value. *)
LEMMA NewStorageStep ==
  ASSUME IInv, NEW v \in Vars, NEW c \in FreeCells,
         NEW r \in StorageObjects, r.capacity > 0, Filled(r),
         NEW own \in [Elems -> Nat],
         \A e \in Elems : own[e] = owned[e] + Cardinality(Row(r, e)),
         Settle([view EXCEPT ![v] = WholeArray(c)], making, lent,
                [storage EXCEPT ![c] = r], own, FALSE)
  PROVE  IInv'
  <1> DEFINE st == [storage EXCEPT ![c] = r]
             vw == [view EXCEPT ![v] = WholeArray(c)]
  <1>1. c \in Cells /\ storage[c].capacity = 0
    BY DEF FreeCells
  <1>2. Good(view, making, lent, st) /\ Sound(WholeArray(c), making, st)
    BY <1>1, NewStorage DEF IInv
  <1>3. \A e \in Elems : Cardinality(Holds(st, e)) = own[e]
    BY <1>1, ExactNew DEF IInv, Exact
  <1>4. Settle(vw, making, lent, st, own, FALSE)
    OBVIOUS
  <1> HIDE DEF st
  <1>5. Good(vw, making, lent, st)
    BY <1>2, ViewChange
  <1> HIDE DEF vw
  <1> QED
    BY <1>3, <1>4, <1>5, Settled DEF Exact

LEMMA ArrayRepeatingStep ==
  ASSUME IInv, NEW v \in Vars, NEW e \in Elems, NEW n \in 0 .. MaxCount,
         ArrayRepeating(v, e, n)
  PROVE  IInv'
  <1>1. CASE n = 0
    <2>1. Settle([view EXCEPT ![v] = WholeArray(Empty)], making, lent, storage, owned, FALSE)
      BY <1>1 DEF ArrayRepeating, Define
    <2> QED
      BY <2>1, EmptySound, ViewStep DEF IInv
  <1>2. CASE n # 0
    <2> DEFINE r == [Fresh(n, n) EXCEPT !.place = [i \in Places |-> IF i < n THEN e ELSE Uninit]]
    <2>1. PICK c \in FreeCells :
            Settle([view EXCEPT ![v] = WholeArray(c)], making, lent,
                   [storage EXCEPT ![c] = r], Retain(e, n), FALSE)
      BY <1>2 DEF ArrayRepeating, Define
    <2>2. /\ r \in StorageObjects /\ r.capacity > 0
          /\ Filled(r)
          /\ \A i \in Places : r.place[i] = IF i < n THEN e ELSE Uninit
      BY <1>2, ArraysAssumption DEF StorageObjects, Fresh, Filled, FilledUpTo
    <2> HIDE DEF r
    <2>3. \A x \in Elems : Cardinality(Row(r, x)) = IF x = e THEN n ELSE 0
      BY <2>2, RowRepeated
    <2>4. Retain(e, n) \in [Elems -> Nat]
      BY ArraysAssumption DEF IInv, Exact, Retain
    <2>5. \A x \in Elems : Retain(e, n)[x] = owned[x] + Cardinality(Row(r, x))
      BY <2>3, ArraysAssumption DEF IInv, Exact, Retain
    <2> QED
      BY <2>1, <2>2, <2>4, <2>5, NewStorageStep
  <1> QED BY <1>1, <1>2

LEMMA SliceRepeatingStep ==
  ASSUME Restricted, IInv, NEW v \in Vars, NEW e \in Elems, NEW n \in 0 .. MaxCount,
         SliceRepeating(v, e, n)
  PROVE  IInv'
  <1>1. Settle([view EXCEPT ![v] = SliceOf(Empty, 0, 0)], making, lent, storage, owned, FALSE)
    BY DEF SliceRepeating, Define, Restricted
  <1> QED
    BY <1>1, EmptySound, ViewStep DEF IInv

LEMMA ArrayOfSliceStep ==
  ASSUME IInv, NEW v \in Vars, NEW w \in Vars, ArrayOfSlice(v, w)
  PROVE  IInv'
  <1> DEFINE s == view[w]
             n == Count(s)
             copied == [i \in Places |-> IF i < n THEN storage[s.owner].place[s.lo + i] ELSE Uninit]
             r == [Fresh(n, n) EXCEPT !.place = copied]
             own == [e \in Elems |-> owned[e] + Cardinality({i \in Places : copied[i] = e})]
  <1>1. Sound(s, making, storage) /\ s.kind = "slice"
    BY DEF ArrayOfSlice, IInv, Good
  <1>2. storage \in [Storages -> StorageObjects]
    BY DEF IInv, Good, Typed
  <1>3. /\ s.owner \in Storages /\ s.lo \in Nat /\ s.hi \in Nat /\ s.lo <= s.hi
        /\ storage[s.owner].count \in Nat
        /\ s.hi <= storage[s.owner].count /\ storage[s.owner].count <= MaxCount
    BY <1>1, <1>2, SoundBounds, ArraysAssumption DEF Sound, End
  <1>7. n = s.hi - s.lo
    BY <1>1 DEF Count, EndIndex
  <1> HIDE DEF n, s
  <1>4. CASE n = storage[s.owner].count
    <2>1. Settle([view EXCEPT ![v] = WholeArray(s.owner)], making, lent, storage, owned, FALSE)
      BY <1>4 DEF ArrayOfSlice, Define, n, s
    <2>2. Sound(WholeArray(s.owner), making, storage)
      BY <1>1, <1>3, ArraysAssumption DEF Sound, WholeArray, Views, Places, End, InUse
    <2> QED
      BY <2>1, <2>2, ViewStep
  <1>5. CASE n # storage[s.owner].count /\ n = 0
    <2>1. Settle([view EXCEPT ![v] = WholeArray(Empty)], making, lent, storage, owned, FALSE)
      BY <1>5 DEF ArrayOfSlice, Define, n, s
    <2> QED
      BY <2>1, EmptySound, ViewStep DEF IInv
  <1>6. CASE n # storage[s.owner].count /\ n # 0
    <2>1. PICK c \in FreeCells :
            Settle([view EXCEPT ![v] = WholeArray(c)], making, lent,
                   [storage EXCEPT ![c] = r], own, \E i \in 0 .. n - 1 : copied[i] = Uninit)
      BY <1>6 DEF ArrayOfSlice, Define, n, s
    <2>2. n \in 1 .. MaxCount
      BY <1>3, <1>7, <1>6, ArraysAssumption
    <2>3. s.owner # Empty /\ s.owner \notin Busy(making) /\ Filled(storage[s.owner])
      <3>1. s.owner # Empty
        BY <1>3, <1>7, <2>2, FreeIsFilled DEF IInv, Good
      <3> QED BY <1>1, <1>3, <3>1 DEF Sound, IInv, Good
    <2>4. \A i \in Places : i < n => /\ s.lo + i \in Places /\ s.lo + i < storage[s.owner].count
      BY <1>3, <1>7, <2>2, ArraysAssumption DEF Places
    <2>5. \A i \in Places : copied[i] # Uninit <=> i < n
      BY <2>3, <2>4 DEF Filled, FilledUpTo
    <2>6. ~ \E i \in 0 .. n - 1 : copied[i] = Uninit
      <3> HIDE DEF copied
      <3> QED BY <2>2, <2>5, ArraysAssumption DEF Places
    <2>7. copied \in [Places -> Elems \cup {Uninit}]
      BY <1>2, <1>3, <2>4 DEF StorageObjects
    <2>8. own \in [Elems -> Nat] /\ \A e \in Elems : own[e] = owned[e] + Cardinality(Row(r, e))
      <3>1. \A e \in Elems : {i \in Places : copied[i] = e} = Row(r, e)
        BY DEF Row, Fresh
      <3> HIDE DEF copied, r
      <3>2. \A e \in Elems : own[e] = owned[e] + Cardinality(Row(r, e))
        BY <3>1
      <3>3. \A e \in Elems : owned[e] + Cardinality(Row(r, e)) \in Nat
        BY RowFinite DEF IInv, Exact
      <3>4. own = [e \in Elems |-> own[e]]
        OBVIOUS
      <3> HIDE DEF own
      <3> QED BY <3>2, <3>3, <3>4
    <2>9. r \in StorageObjects /\ r.capacity > 0 /\ Filled(r)
      <3> HIDE DEF copied
      <3> QED BY <2>2, <2>5, <2>7 DEF StorageObjects, Fresh, Filled, FilledUpTo
    <2>10. Settle([view EXCEPT ![v] = WholeArray(c)], making, lent,
                  [storage EXCEPT ![c] = r], own, FALSE)
      <3> HIDE DEF r, own, copied
      <3> QED BY <2>1, <2>6 DEF Settle
    <2> HIDE DEF r, own
    <2> QED
      BY <2>8, <2>9, <2>10, NewStorageStep
  <1> QED BY <1>4, <1>5, <1>6

-----------------------------------------------------------------------------
(***************************************************************************)
(* Constructors.                                                           *)
(***************************************************************************)
LEMMA BeginStep ==
  ASSUME IInv, NEW v \in Vars, NEW how \in {"literal", "closure", "sequence"},
         NEW n \in 0 .. MaxCount, Begin(v, how, n)
  PROVE  IInv'
  <1> DEFINE m(s) == [how |-> how, owner |-> s, done |-> 0, promised |-> n]
             mk(s) == [making EXCEPT ![v] = m(s)]
  <1>1. making[v] = Nil
    BY DEF Begin, Declared
  <1>2. ASSUME NEW s \in Storages PROVE m(s) \in Makings
    BY ArraysAssumption DEF Makings
  <1>3. CASE n = 0
    <2>1. Settle(view, mk(Empty), lent, storage, owned, FALSE)
      BY <1>3 DEF Begin
    <2>2. m(Empty) \in Makings
      BY <1>2 DEF Storages
    <2>3. Filling(m(Empty), storage)
      BY <1>3, FreeIsFilled DEF IInv, Good, Filling, InUse, Filled
    <2>4. storage \in [Storages -> StorageObjects] /\ storage[Empty] = Free
      BY DEF IInv, Good, Typed
    <2>5. m(Empty).owner = Empty
      OBVIOUS
    <2> DEFINE mE == m(Empty)
    <2> HIDE DEF mE, m
    <2>6. Good(view, [making EXCEPT ![v] = mE], lent, storage)
      BY <1>1, <2>2, <2>3, <2>4, <2>5, MakingMoves DEF IInv, mE
    <2> DEFINE mk2 == mk(Empty)
    <2>7. Good(view, mk2, lent, storage) /\ Settle(view, mk2, lent, storage, owned, FALSE)
      BY <2>1, <2>6 DEF mE
    <2> HIDE DEF mk2
    <2> QED
      BY <2>7, Settled DEF IInv
  <1>4. CASE n # 0
    <2>1. PICK c \in FreeCells :
            Settle(view, mk(c), lent, [storage EXCEPT ![c] = Fresh(n, n)], owned, FALSE)
      BY <1>4 DEF Begin
    <2> DEFINE mc == m(c)
               mk2 == mk(c)
               r == Fresh(n, n)
               st == [storage EXCEPT ![c] = r]
    <2>2. c \in Cells /\ c \in Storages /\ c # Empty /\ storage[c].capacity = 0
      BY ArraysAssumption DEF FreeCells, Storages
    <2>3. /\ r \in StorageObjects /\ r.capacity = n /\ r.count = n
          /\ FilledUpTo(r, 0)
      BY ArraysAssumption DEF Fresh, StorageObjects, FilledUpTo, Blank, Places
    <2>4. /\ mc \in Makings /\ mc.owner = c /\ mc.done = 0 /\ mc.promised = n
      BY <1>2, <2>2
    <2>5. Settle(view, mk2, lent, st, owned, FALSE)
      BY <2>1
    <2>6. mk2 = [making EXCEPT ![v] = mc]
      OBVIOUS
    <2> HIDE DEF mc, mk2, r, m
    <2>7. /\ st \in [Storages -> StorageObjects] /\ st[Empty] = Free
          /\ st[c] = r
          /\ \A q \in Storages : q # mc.owner /\ (making[v] # Nil => q # making[v].owner)
                                   => st[q] = storage[q]
      BY <2>2, <2>3, <2>4 DEF IInv, Good, Typed, Storages
    <2> HIDE DEF st
    <2>8. Filling(mc, st)
      BY <1>4, <2>3, <2>4, <2>7 DEF Filling, InUse
    <2>9. Good(view, mk2, lent, st)
      BY <1>1, <2>2, <2>4, <2>6, <2>7, <2>8, MakingMoves DEF IInv
    <2>10. \A e \in Elems : Cardinality(Holds(st, e)) = owned[e]
      BY <2>2, <2>3, EmptyRow, ExactNew, HoldsFinite DEF IInv, Exact, st
    <2> QED
      BY <2>5, <2>9, <2>10, Settled DEF IInv, Exact
  <1> QED BY <1>3, <1>4

LEMMA StoreElementStep ==
  ASSUME IInv, NEW v \in Vars, NEW e \in Elems, StoreElement(v, e)
  PROVE  IInv'
  <1> DEFINE m == making[v]
             s == m.owner
             r == WithPlace(storage[s], m.done, e)
             m2 == Advanced(m)
             mk == [making EXCEPT ![v] = m2]
             st == [storage EXCEPT ![s] = r]
  <1>1. m # Nil /\ m \in Makings /\ Filling(m, storage) /\ s \in Storages
    BY DEF StoreElement, IInv, Good, Typed, Makings
  <1>2. storage \in [Storages -> StorageObjects] /\ storage[Empty] = Free
    BY DEF IInv, Good, Typed
  <1>3. m.done \in Nat /\ m.done < storage[s].capacity /\ storage[s].capacity \in 0 .. MaxCount
    BY <1>1, <1>2 DEF StoreElement, Makings, StorageObjects
  <1>4. m.done \in Places /\ s \in Cells /\ s # Empty
    BY <1>1, <1>2, <1>3, FreeIsFilled, ArraysAssumption DEF Places, Storages
  <1>5. Settle(view, mk, lent, st, Retain(e, 1), FALSE)
    BY DEF StoreElement
  <1>6. /\ m2 \in Makings /\ m2.owner = s /\ m2.done = m.done + 1
        /\ m2.how = m.how /\ m2.promised = m.promised
    BY <1>1, <1>3, ArraysAssumption DEF Makings, Advanced
  <1>7. /\ r \in StorageObjects
        /\ r.capacity = storage[s].capacity /\ r.count = storage[s].count
        /\ \A j \in Places : r.place[j] = IF j = m.done THEN e ELSE storage[s].place[j]
    BY <1>1, <1>2, <1>4 DEF WithPlace, StorageObjects
  <1>8. \A x \in Elems : Cardinality(Holds(st, x))
                           = Cardinality(Holds(storage, x)) + (IF x = e THEN 1 ELSE 0)
    <2>1. storage[s].place[m.done] = Uninit
      BY <1>1, <1>3, <1>4 DEF Filling, FilledUpTo
    <2>2. st[s] = r /\ SameBut(s, storage, st)
      BY <1>1, <1>2 DEF SameBut, Storages
    <2>3. Overwritten(storage[s], m.done, e, st[s])
      BY <1>7, <2>2 DEF Overwritten
    <2> HIDE DEF st, r, s, m
    <2>4. ASSUME NEW x \in Elems
          PROVE  Cardinality(Holds(st, x))
                   = Cardinality(Holds(storage, x)) + (IF x = e THEN 1 ELSE 0)
                       - (IF x = storage[s].place[m.done] THEN 1 ELSE 0)
      BY <1>4, <2>2, <2>3, ExactPlace
    <2> QED BY <2>1, <2>4, HoldsFinite, ArraysAssumption
  <1> HIDE DEF r, m2
  <1>9. FilledUpTo(r, m2.done)
    BY <1>1, <1>3, <1>4, <1>6, <1>7, ArraysAssumption DEF Filling, FilledUpTo, Places
  <1>10. /\ st \in [Storages -> StorageObjects] /\ st[Empty] = Free
         /\ st[s] = r
         /\ \A q \in Storages : q # s => st[q] = storage[q]
    BY <1>1, <1>2, <1>4, <1>7 DEF Storages
  <1> HIDE DEF st, s
  <1>11. Filling(m2, st)
    BY <1>1, <1>3, <1>6, <1>7, <1>9, <1>10 DEF Filling, InUse, s
  <1>12. Good(view, mk, lent, st)
    BY <1>1, <1>6, <1>10, <1>11, MakingMoves DEF IInv, s
  <1>13. Exact(st, Retain(e, 1))
    BY <1>8 DEF IInv, Exact, Retain
  <1> HIDE DEF mk
  <1> QED
    BY <1>5, <1>12, <1>13, Settled

(* What a storage object that lost its elements is like. *)
LEMMA EmptiedIsFilled ==
  ASSUME NEW r \in StorageObjects
  PROVE  /\ Emptied(r) \in StorageObjects /\ Emptied(r).capacity = r.capacity
         /\ Filled(Emptied(r))
         /\ r = Free => Emptied(r) = Free
  <1>1. Emptied(r) = [capacity |-> r.capacity, count |-> 0, place |-> Blank]
    BY DEF Emptied
  <1>2. Blank \in [Places -> Elems \cup {Uninit}] /\ \A i \in Places : Blank[i] = Uninit
    BY DEF Blank
  <1>3. 0 \in 0 .. MaxCount /\ \A i \in Places : ~(i < 0)
    BY ArraysAssumption DEF Places
  <1>4. r.capacity \in 0 .. MaxCount /\ 0 <= r.capacity
    BY ArraysAssumption DEF StorageObjects
  <1> QED
    BY <1>1, <1>2, <1>3, <1>4 DEF StorageObjects, Filled, FilledUpTo, Free

LEMMA GrowStep ==
  ASSUME IInv, NEW v \in Vars, NEW e \in Elems, Grow(v, e)
  PROVE  IInv'
  <1> DEFINE m == making[v]
             s == m.owner
             old == storage[s]
             wider == IF old.capacity = 0 THEN 1 ELSE 2 * old.capacity
             new == [Fresh(wider, wider) EXCEPT !.place = [old.place EXCEPT ![m.done] = e]]
  <1>1. m # Nil /\ m \in Makings /\ Filling(m, storage) /\ s \in Storages /\ m.how = "sequence"
    BY DEF Grow, IInv, Good, Typed, Makings
  <1>2. storage \in [Storages -> StorageObjects] /\ storage[Empty] = Free
    BY DEF IInv, Good, Typed
  <1>3. m.done = old.capacity /\ wider <= MaxCount
    BY DEF Grow
  <1>4. PICK c \in FreeCells :
          Settle(view, [making EXCEPT ![v] = [Advanced(m) EXCEPT !.owner = c]], lent,
                 [storage EXCEPT ![c] = new, ![s] = Emptied(@)], Retain(e, 1), FALSE)
    BY DEF Grow
  <1> DEFINE m2 == [Advanced(m) EXCEPT !.owner = c]
             mk == [making EXCEPT ![v] = m2]
             st1 == [storage EXCEPT ![c] = new]
             r == Emptied(st1[s])
             st == [st1 EXCEPT ![s] = r]
  <1>5. c \in Cells /\ c \in Storages /\ c # Empty /\ storage[c].capacity = 0
    BY ArraysAssumption DEF FreeCells, Storages
  <1>6. old \in StorageObjects /\ old.capacity \in 0 .. MaxCount
    BY <1>1, <1>2 DEF StorageObjects
  <1>7. wider \in 1 .. MaxCount /\ m.done < wider /\ m.done \in Nat /\ m.done + 1 <= wider
    BY <1>3, <1>6, ArraysAssumption
  <1>8. m.done \in Places /\ c # s
    BY <1>1, <1>5, <1>7, ArraysAssumption DEF Places, Filling, InUse
  <1>9. old.place[m.done] = Uninit
    BY <1>1, <1>7, <1>8 DEF Filling, FilledUpTo
  <1> HIDE DEF wider
  <1>10. /\ m2 \in Makings /\ m2.owner = c /\ m2.done = m.done + 1 /\ m2.how = "sequence"
    <2>1. m.done + 1 \in 0 .. MaxCount
      BY <1>7, ArraysAssumption
    <2> DEFINE a == Advanced(m)
    <2>2. a \in Makings /\ a.done = m.done + 1 /\ a.how = "sequence"
      BY <1>1, <2>1 DEF Advanced, Makings
    <2> HIDE DEF a
    <2>3. LET n == [a EXCEPT !.owner = c]
          IN  n \in Makings /\ n.owner = c /\ n.done = a.done /\ n.how = a.how
      BY <1>5, <2>2 DEF Makings
    <2> QED BY <2>2, <2>3 DEF a
  <1>11. new \in StorageObjects /\ new.capacity = wider /\ Overwritten(old, m.done, e, new)
    BY <1>6, <1>7, <1>8, ArraysAssumption DEF StorageObjects, Fresh, Overwritten
  <1> HIDE DEF new, m2
  <1>12. FilledUpTo(new, m2.done)
    BY <1>1, <1>7, <1>8, <1>10, <1>11, ArraysAssumption DEF Filling, FilledUpTo, Overwritten, Places
  <1>13. st1 \in [Storages -> StorageObjects] /\ st1[Empty] = Free /\ st1[c] = new /\ st1[s] = old
    BY <1>1, <1>2, <1>5, <1>8, <1>11
  <1>14. /\ r \in StorageObjects /\ r.capacity = old.capacity /\ Filled(r)
         /\ s = Empty => r = Free
    BY <1>6, <1>13, EmptiedIsFilled
  <1> HIDE DEF old, s
  <1>15. \A x \in Elems :
          Cardinality(Holds(st1, x)) = Cardinality(Holds(storage, x)) + Cardinality(Row(new, x))
    BY <1>5, ExactNew DEF IInv
  <1>16. \A x \in Elems :
          Cardinality(Holds(st, x)) = Cardinality(Holds(st1, x)) - Cardinality(Row(old, x))
    <2> HIDE DEF st1
    <2> QED BY <1>1, <1>13, ExactEmptied DEF s
  <1>17. \A x \in Elems :
          Cardinality(Row(new, x)) = Cardinality(Row(old, x)) + (IF x = e THEN 1 ELSE 0)
    <2>1. ASSUME NEW x \in Elems
          PROVE  Cardinality(Row(new, x)) = Cardinality(Row(old, x)) + (IF x = e THEN 1 ELSE 0)
                                              - (IF x = old.place[m.done] THEN 1 ELSE 0)
      BY <1>8, <1>11, RowPlace
    <2> QED BY <1>9, <2>1, RowFinite, ArraysAssumption
  <1>18. /\ st \in [Storages -> StorageObjects] /\ st[Empty] = Free
         /\ st[c] = new /\ st[s] = r
         /\ \A q \in Storages : q # c /\ q # s => st[q] = storage[q]
    <2>1. \A q \in Storages : st1[q] = IF q = c THEN new ELSE storage[q]
      BY <1>2
    <2>2. s \in Storages
      BY <1>1 DEF s
    <2> HIDE DEF st1, r
    <2>3. /\ st \in [Storages -> StorageObjects]
          /\ \A q \in Storages : st[q] = IF q = s THEN r ELSE st1[q]
      BY <1>13, <1>14, <2>2
    <2> HIDE DEF st
    <2> QED BY <1>2, <1>5, <1>8, <1>14, <2>1, <2>2, <2>3 DEF Storages
  <1>19. Settle(view, mk, lent, st, Retain(e, 1), FALSE)
    BY <1>1, <1>2, <1>4, <1>5, <1>8 DEF m2, s
  <1> HIDE DEF st, st1, r
  <1>20. Filling(m2, st)
    BY <1>7, <1>10, <1>11, <1>12, <1>18 DEF Filling, InUse
  <1>21. Good(view, mk, lent, st)
    BY <1>1, <1>5, <1>8, <1>10, <1>14, <1>18, <1>20, MakingMoves DEF IInv, s
  <1>22. Exact(st, Retain(e, 1))
    <2>1. \A x \in Elems : Cardinality(Holds(st, x)) = owned[x] + (IF x = e THEN 1 ELSE 0)
      BY <1>15, <1>16, <1>17, RowFinite, HoldsFinite DEF IInv, Exact
    <2> QED BY <2>1 DEF IInv, Exact, Retain
  <1> HIDE DEF mk
  <1> QED
    BY <1>19, <1>21, <1>22, Settled

(* A constructor ends with its storage object counted or emptied, in a     *)
(* variable or thrown away.                                                *)
LEMMA EndStep ==
  ASSUME IInv, NEW v \in Vars, making[v] # Nil,
         NEW r \in StorageObjects, Filled(r),
         r.capacity = storage[making[v].owner].capacity,
         making[v].owner = Empty => r = Free,
         NEW own, Exact([storage EXCEPT ![making[v].owner] = r], own),
         NEW vw, vw = view \/ vw = [view EXCEPT ![v] = WholeArray(making[v].owner)],
         Settle(vw, [making EXCEPT ![v] = Nil], lent,
                [storage EXCEPT ![making[v].owner] = r], own, FALSE)
  PROVE  IInv'
  <1> DEFINE mk == [making EXCEPT ![v] = Nil]
             st == [storage EXCEPT ![making[v].owner] = r]
  <1>1. Good(view, mk, lent, st) /\ Sound(WholeArray(making[v].owner), mk, st)
    BY MakingEnds DEF IInv
  <1>2. Exact(st, own) /\ Settle(vw, mk, lent, st, own, FALSE)
    OBVIOUS
  <1> HIDE DEF mk, st
  <1>3. Good(vw, mk, lent, st)
    BY <1>1, ViewChange
  <1> QED
    BY <1>2, <1>3, Settled

(* The count of a buffer is set to the number of elements stored. *)
LEMMA CountedStep ==
  ASSUME IInv, NEW v \in Vars, making[v] # Nil, NEW vw,
         vw = view \/ vw = [view EXCEPT ![v] = WholeArray(making[v].owner)],
         Settle(vw, [making EXCEPT ![v] = Nil], lent, CountDone(v), owned, FALSE)
  PROVE  IInv'
  <1> DEFINE m == making[v]
             s == m.owner
             r == WithCount(storage[s], m.done)
             st == [storage EXCEPT ![s] = r]
  <1>1. m \in Makings /\ s \in Storages /\ Filling(m, storage) /\ storage[s] \in StorageObjects
    BY DEF IInv, Good, Typed, Makings
  <1>2. storage[Empty] = Free /\ storage \in [Storages -> StorageObjects]
    BY DEF IInv, Good, Typed
  <1>3. /\ r \in StorageObjects /\ r.capacity = storage[s].capacity /\ Filled(r)
        /\ r.place = storage[s].place
    BY <1>1 DEF WithCount, StorageObjects, Filled, FilledUpTo, Filling, Makings
  <1>4. s = Empty => r = Free
    <2>1. s = Empty => m.done = 0
      BY <1>1, <1>2, FreeIsFilled, ArraysAssumption DEF Filling, Makings
    <2> QED BY <1>2, <2>1 DEF WithCount, Free
  <1>5. \A e \in Elems : Holds(st, e) = Holds(storage, e)
    <2> HIDE DEF r
    <2> QED BY <1>1, <1>2, <1>3 DEF Holds, Storages
  <1>6. st = CountDone(v)
    BY DEF CountDone
  <1> HIDE DEF r
  <1>7. Exact(st, owned)
    <2> HIDE DEF st
    <2> QED BY <1>5 DEF IInv, Exact
  <1>8. Settle(vw, [making EXCEPT ![v] = Nil], lent, [storage EXCEPT ![making[v].owner] = r], owned, FALSE)
    BY <1>6
  <1> QED
    BY <1>3, <1>4, <1>7, <1>8, EndStep

LEMMA FinishLiteralStep ==
  ASSUME IInv, NEW v \in Vars, FinishLiteral(v)
  PROVE  IInv'
  <1> DEFINE m == making[v]
             s == m.owner
             r == storage[s]
  <1>1. m # Nil /\ m.how = "literal" /\ m.done = m.promised
    BY DEF FinishLiteral
  <1>2. m \in Makings /\ s \in Storages /\ Filling(m, storage)
    BY <1>1 DEF IInv, Good, Typed, Makings
  <1>3. storage[Empty] = Free /\ storage \in [Storages -> StorageObjects]
    BY DEF IInv, Good, Typed
  <1>4. Filled(r)
    BY <1>1, <1>2 DEF Filling, Filled
  <1>5. storage = [storage EXCEPT ![s] = r]
    BY <1>2, <1>3
  <1>6. Settle([view EXCEPT ![v] = WholeArray(s)], [making EXCEPT ![v] = Nil], lent,
               [storage EXCEPT ![s] = r], owned, FALSE)
    BY <1>5 DEF FinishLiteral
  <1>7. Exact([storage EXCEPT ![s] = r], owned)
    BY <1>5 DEF IInv
  <1>8. r \in StorageObjects
    BY <1>2, <1>3
  <1> HIDE DEF r
  <1> QED
    BY <1>1, <1>3, <1>4, <1>6, <1>7, <1>8, EndStep DEF r

LEMMA ThrowLiteralStep ==
  ASSUME IInv, NEW v \in Vars, ThrowLiteral(v)
  PROVE  IInv'
  <1> DEFINE m == making[v]
             s == m.owner
             r == Emptied(storage[s])
             st == [storage EXCEPT ![s] = r]
             own == [e \in Elems |-> owned[e] - Cardinality({i \in Places : storage[s].place[i] = e})]
  <1>1. m # Nil /\ m \in Makings /\ s \in Storages
    BY DEF ThrowLiteral, IInv, Good, Typed, Makings
  <1>2. storage[Empty] = Free /\ storage \in [Storages -> StorageObjects]
    BY DEF IInv, Good, Typed
  <1>3. Settle(view, [making EXCEPT ![v] = Nil], lent, st, own, FALSE)
    BY DEF ThrowLiteral
  <1>4. /\ r \in StorageObjects /\ r.capacity = storage[s].capacity /\ Filled(r)
        /\ s = Empty => r = Free
    BY <1>1, <1>2, EmptiedIsFilled
  <1>5. \A e \in Elems : own[e] = owned[e] - Cardinality(Row(storage[s], e))
    BY DEF Row
  <1> HIDE DEF s
  <1>6. \A e \in Elems : Cardinality(Holds(st, e)) = Cardinality(Holds(storage, e)) - Cardinality(Row(storage[s], e))
    BY <1>1, <1>2, ExactEmptied
  <1>7. own = [e \in Elems |-> own[e]]
    OBVIOUS
  <1> HIDE DEF own, st
  <1>8. Exact(st, own)
    BY <1>5, <1>6, <1>7, HoldsFinite DEF IInv, Exact
  <1> HIDE DEF r
  <1> QED
    BY <1>1, <1>3, <1>4, <1>8, EndStep DEF st, s

-----------------------------------------------------------------------------
(***************************************************************************)
(* Subscripts and pointers.                                                *)
(***************************************************************************)

(* What a view shows at a place between its bounds is an element. *)
LEMMA ShowsElements ==
  ASSUME NEW vw, NEW mk, NEW ln, NEW st, Good(vw, mk, ln, st),
         NEW w, Sound(w, mk, st), NEW i \in Int, w.lo <= i, i < End(w, st)
  PROVE  /\ w.owner \in Storages /\ (w.owner = Empty \/ w.owner \notin Busy(mk))
         /\ i \in Nat /\ i \in Places /\ i < st[w.owner].count
         /\ st[w.owner].place[i] # Uninit
  <1>1. st \in [Storages -> StorageObjects] /\ st[Empty] = Free
    BY DEF Good, Typed
  <1>2. /\ w.owner \in Storages /\ w.lo \in Nat /\ End(w, st) \in Nat
        /\ st[w.owner].count \in 0 .. MaxCount
        /\ End(w, st) <= st[w.owner].count
        /\ w.owner = Empty \/ w.owner \notin Busy(mk)
    BY <1>1, SoundBounds DEF Sound
  <1>3. i \in Nat /\ i < st[w.owner].count /\ i \in Places
    BY <1>2, ArraysAssumption DEF Places
  <1>4. w.owner # Empty
    BY <1>1, <1>3, FreeIsFilled
  <1>5. Filled(st[w.owner])
    BY <1>2, <1>4 DEF Good
  <1> QED
    BY <1>2, <1>3, <1>5 DEF Filled, FilledUpTo

(* Assigning to a place that holds an element. *)
LEMMA WriteStep ==
  ASSUME IInv, NEW s \in Storages, s = Empty \/ s \notin Busy(making),
         NEW i \in Nat, i < storage[s].count, NEW e \in Elems, Write(s, i, e)
  PROVE  IInv'
  <1> DEFINE old == storage[s].place[i]
             r == WithPlace(storage[s], i, e)
             st == [storage EXCEPT ![s] = r]
             own == [x \in Elems |-> owned[x] + (IF x = e THEN 1 ELSE 0) - (IF x = old THEN 1 ELSE 0)]
  <1>1. Good(view, making, lent, st) /\ i \in Places /\ s \in Cells /\ old # Uninit
    BY ElementChange DEF IInv
  <1>2. storage \in [Storages -> StorageObjects]
    BY DEF IInv, Good, Typed
  <1>3. Settle(view, making, lent, st, own, FALSE)
    <2>1. Settle(view, making, lent, st, own, old = Uninit)
      BY DEF Write
    <2> HIDE DEF st, own, old
    <2> QED BY <1>1, <2>1 DEF Settle
  <1>4. st[s] = r /\ SameBut(s, storage, st) /\ Overwritten(storage[s], i, e, r)
    BY <1>1, <1>2 DEF SameBut, Overwritten, WithPlace, StorageObjects, Storages
  <1> HIDE DEF st, r
  <1>5. ASSUME NEW x \in Elems
        PROVE  Cardinality(Holds(st, x)) = owned[x] + (IF x = e THEN 1 ELSE 0) - (IF x = old THEN 1 ELSE 0)
    BY <1>1, <1>4, ExactPlace DEF IInv, Exact
  <1>6. \A x \in Elems : own[x] = Cardinality(Holds(st, x))
    BY <1>5
  <1>7. own = [x \in Elems |-> own[x]]
    OBVIOUS
  <1> HIDE DEF own
  <1>8. Exact(st, own)
    BY <1>6, <1>7, HoldsFinite DEF Exact
  <1> QED
    BY <1>1, <1>3, <1>8, Settled

(* The index that the handler returns is an index. *)
LEMMA CheckedIndex ==
  ASSUME IInv, NEW v \in Vars, view[v] # Nil, NEW hook \in Hooks, NEW i \in Indices
  PROVE  /\ Checked(hook, view[v], i) \in Int
         /\ Sound(view[v], making, storage)
         /\ EndIndex(view[v]) = End(view[v], storage)
  <1>1. Sound(view[v], making, storage) /\ storage \in [Storages -> StorageObjects]
    BY DEF IInv, Good, Typed
  <1>2. EndIndex(view[v]) = End(view[v], storage)
    BY DEF EndIndex, End
  <1>3. view[v].lo \in Int /\ EndIndex(view[v]) \in Int /\ i \in Int
    BY <1>1, <1>2, SoundBounds, ArraysAssumption DEF Indices
  <1> QED
    BY <1>1, <1>2, <1>3 DEF Checked, Handler

LEMMA GetStep ==
  ASSUME IInv, NEW v \in Vars, NEW hook \in Hooks, NEW i \in Indices, Get(v, hook, i)
  PROVE  IInv'
  <1> DEFINE j == Checked(hook, view[v], i)
  <1>1. /\ view[v] # Nil /\ InBounds(view[v], j)
        /\ Settle(view, making, lent, storage, owned, storage[view[v].owner].place[j] = Uninit)
    BY DEF Get
  <1>2. j \in Int /\ Sound(view[v], making, storage) /\ EndIndex(view[v]) = End(view[v], storage)
    BY <1>1, CheckedIndex
  <1> HIDE DEF j
  <1>3. storage[view[v].owner].place[j] # Uninit
    BY <1>1, <1>2, ShowsElements DEF IInv, InBounds
  <1>4. Settle(view, making, lent, storage, owned, FALSE)
    BY <1>1, <1>3 DEF Settle
  <1> QED
    BY <1>4, Settled DEF IInv

LEMMA ModifyStep ==
  ASSUME IInv, NEW v \in Vars, NEW hook \in Hooks, NEW i \in Indices, NEW e \in Elems,
         Modify(v, hook, i, e)
  PROVE  IInv'
  <1> DEFINE j == Checked(hook, view[v], i)
  <1>1. view[v] # Nil /\ InBounds(view[v], j) /\ Write(view[v].owner, j, e)
    BY DEF Modify
  <1>2. j \in Int /\ Sound(view[v], making, storage) /\ EndIndex(view[v]) = End(view[v], storage)
    BY <1>1, CheckedIndex
  <1> HIDE DEF j
  <1>3. /\ view[v].owner \in Storages /\ (view[v].owner = Empty \/ view[v].owner \notin Busy(making))
        /\ j \in Nat /\ j < storage[view[v].owner].count
    BY <1>1, <1>2, ShowsElements DEF IInv, InBounds
  <1> QED
    BY <1>1, <1>3, WriteStep

LEMMA BeginMutateStep ==
  ASSUME IInv, NEW v \in Vars, BeginMutate(v)
  PROVE  IInv'
  <1> DEFINE w == EmptyOf(view[v])
             l == [view |-> view[v], count |-> Count(view[v])]
             vw == [view EXCEPT ![v] = w]
             ln == [lent EXCEPT ![v] = l]
  <1>1. Sound(view[v], making, storage) /\ view[v] \in Views
    BY DEF BeginMutate, IInv, Good, Sound
  <1>2. storage \in [Storages -> StorageObjects] /\ storage[Empty].count = 0
    BY FreeIsFilled DEF IInv, Good, Typed
  <1>3. Settle(vw, making, ln, storage, owned, FALSE)
    BY DEF BeginMutate
  <1>4. Sound(w, making, storage)
    <2>1. w \in Views /\ w.owner = Empty /\ w.lo = 0 /\ w.hi = 0 /\ w.kind = view[v].kind
      BY <1>1, ArraysAssumption DEF EmptyOf, Views, Storages, Places
    <2> QED BY <1>2, <2>1 DEF Sound, InUse, End
  <1>5. SoundLoan(l, making, storage)
    <2>1. EndIndex(view[v]) = End(view[v], storage)
      BY DEF EndIndex, End
    <2>2. Count(view[v]) \in 0 .. MaxCount + 1
      BY <1>1, <1>2, <2>1, SoundBounds, ArraysAssumption DEF Count, Sound
    <2> QED BY <1>1, <2>1, <2>2 DEF SoundLoan, Loans, Count
  <1> HIDE DEF w, l
  <1>6. Good(view, making, ln, storage)
    BY <1>5, LoanChange DEF IInv
  <1> HIDE DEF ln
  <1>7. Good(vw, making, ln, storage)
    BY <1>4, <1>6, ViewChange
  <1> HIDE DEF vw
  <1> QED
    BY <1>3, <1>7, Settled DEF IInv

LEMMA PointerWriteStep ==
  ASSUME IInv, NEW v \in Vars, NEW i \in Places, NEW e \in Elems, PointerWrite(v, i, e)
  PROVE  IInv'
  <1> DEFINE w == lent[v].view
             j == w.lo + i
  <1>1. SoundLoan(lent[v], making, storage) /\ i < lent[v].count /\ Write(w.owner, j, e)
    BY DEF PointerWrite, IInv, Good
  <1>2. Sound(w, making, storage) /\ storage \in [Storages -> StorageObjects]
    BY <1>1 DEF SoundLoan, IInv, Good, Typed
  <1>3. j \in Int /\ w.lo <= j /\ j < End(w, storage)
    BY <1>1, <1>2, SoundBounds, ArraysAssumption DEF SoundLoan, Places
  <1> HIDE DEF j
  <1>4. /\ w.owner \in Storages /\ (w.owner = Empty \/ w.owner \notin Busy(making))
        /\ j \in Nat /\ j < storage[w.owner].count
    BY <1>2, <1>3, ShowsElements DEF IInv
  <1> QED
    BY <1>1, <1>4, WriteStep

LEMMA EndMutateStep ==
  ASSUME IInv, NEW v \in Vars, EndMutate(v)
  PROVE  IInv'
  <1> DEFINE w == lent[v].view
             vw == [view EXCEPT ![v] = w]
             ln == [lent EXCEPT ![v] = Nil]
  <1>1. Sound(w, making, storage) /\ Settle(vw, making, ln, storage, owned, FALSE)
    BY DEF EndMutate, SoundLoan, IInv, Good
  <1> HIDE DEF w
  <1>2. Good(vw, making, lent, storage)
    BY <1>1, ViewChange DEF IInv
  <1> HIDE DEF vw
  <1>3. Good(vw, making, ln, storage)
    BY <1>2, LoanChange
  <1> HIDE DEF ln
  <1> QED
    BY <1>1, <1>3, Settled DEF IInv

-----------------------------------------------------------------------------
(***************************************************************************)
(* The theorems.                                                           *)
(***************************************************************************)

(* A trap leaves the arrays as they are. *)
LEMMA TrapStep ==
  ASSUME IInv, NEW why, Trap(why) \/ UNCHANGED vars
  PROVE  IInv'
  <1>1. UNCHANGED <<storage, view, making, lent, owned, corrupt>>
    BY DEF Trap, vars
  <1>2. UNCHANGED Good(view, making, lent, storage) /\ UNCHANGED Exact(storage, owned)
    BY <1>1
  <1> QED
    BY <1>1, <1>2 DEF IInv

LEMMA ConstructStep ==
  ASSUME Restricted, IInv, NEW v \in Vars, Construct(v)
  PROVE  IInv'
  <1>1. CASE \E e \in Elems, n \in 0 .. MaxCount : ArrayRepeating(v, e, n) \/ SliceRepeating(v, e, n)
    BY <1>1, ArrayRepeatingStep, SliceRepeatingStep
  <1>2. CASE \E n \in 0 .. MaxCount : BeginLiteral(v, n) \/ BeginUnsafe(v, n) \/ BeginSequence(v, n)
    BY <1>2, BeginStep DEF BeginLiteral, BeginUnsafe, BeginSequence
  <1>3. CASE \E e \in Elems : StoreElement(v, e) \/ Grow(v, e)
    BY <1>3, StoreElementStep, GrowStep
  <1>4. CASE FinishLiteral(v) \/ ThrowLiteral(v)
    BY <1>4, FinishLiteralStep, ThrowLiteralStep
  <1>5. CASE FinishUnsafe(v) \/ FinishSequence(v)
    <2>1. /\ making[v] # Nil
          /\ Settle([view EXCEPT ![v] = WholeArray(making[v].owner)],
                    [making EXCEPT ![v] = Nil], lent, CountDone(v), owned, FALSE)
      BY <1>5 DEF FinishUnsafe, FinishSequence
    <2> QED BY <2>1, CountedStep
  <1>6. CASE ThrowUnsafe(v)
    <2>1. making[v] # Nil /\ Settle(view, [making EXCEPT ![v] = Nil], lent, CountDone(v), owned, FALSE)
      BY <1>6 DEF ThrowUnsafe
    <2> QED BY <2>1, CountedStep
  <1>7. CASE SequenceTooShort(v) \/ UnsafeRejected(v)
    BY <1>7, TrapStep DEF SequenceTooShort, UnsafeRejected
  <1> QED
    BY <1>1, <1>2, <1>3, <1>4, <1>5, <1>6, <1>7 DEF Construct

LEMMA NextIInv ==
  ASSUME Restricted, IInv, [Next]_vars
  PROVE  IInv'
  <1>1. CASE OutOfMemory \/ Stopped \/ UNCHANGED vars
    BY <1>1, TrapStep DEF OutOfMemory, Stopped
  <1>2. ASSUME NEW v \in Vars, Construct(v) PROVE IInv'
    BY <1>2, ConstructStep
  <1>3. ASSUME NEW v \in Vars, Access(v) PROVE IInv'
    BY <1>3, TrapStep, GetStep, ModifyStep DEF Access, BadSubscript
  <1>4. ASSUME NEW v \in Vars, Lend(v) PROVE IInv'
    BY <1>4, BeginMutateStep, EndMutateStep, PointerWriteStep, TrapStep DEF Lend, PointerReplaced
  <1>5. ASSUME NEW v \in Vars, Drop(v) PROVE IInv'
    BY <1>5, DropStep
  <1>6. ASSUME NEW v \in Vars, NEW w \in Vars, Share(v, w) PROVE IInv'
    BY <1>6, AssignStep, SliceWholeStep, ArrayOfSliceStep, SliceStep, TrapStep
    DEF Share, SliceOutOfRange
  <1> QED
    BY <1>1, <1>2, <1>3, <1>4, <1>5, <1>6 DEF Next

(* The inductive invariant holds in every reachable state. *)
THEOREM InductiveInvariant ==
  ASSUME Restricted
  PROVE  Spec => []IInv
  <1>1. Init => IInv
    BY InitIInv
  <1>2. IInv /\ [Next]_vars => IInv'
    BY NextIInv
  <1> QED BY <1>1, <1>2, PTL DEF Spec

(* Every variable keeps its type: no element reference is released more    *)
(* often than array memory retained it.                                    *)
THEOREM TypeCorrect ==
  ASSUME Restricted
  PROVE  Spec => []TypeOK
  <1>1. IInv => TypeOK
    BY DEF IInv, Good, Typed, Exact, TypeOK
  <1> QED BY <1>1, InductiveInvariant, PTL

(* No constructor, subscript, pointer write or deinit of a storage object  *)
(* takes memory that holds no element for one, provided no range reaches   *)
(* endIndex of what it slices.                                             *)
THEOREM NoGarbageUsed ==
  ASSUME Restricted
  PROVE  Spec => []OnlyElementsAreUsed
  <1>1. IInv => OnlyElementsAreUsed
    BY DEF IInv, OnlyElementsAreUsed
  <1> QED BY <1>1, InductiveInvariant, PTL

(* The count of a storage object that no constructor is filling is the     *)
(* number of its elements, however its constructor ended; slices made with *)
(* repeating:count: excepted.                                              *)
THEOREM CountsMatch ==
  ASSUME Restricted
  PROVE  Spec => []CountMatchesElements
  <1>1. IInv => CountMatchesElements
    BY DEF IInv, Good, Busy, Filled, FilledUpTo, CountMatchesElements
  <1> QED BY <1>1, InductiveInvariant, PTL

(* Element references are neither leaked nor released twice, provided no   *)
(* slice is made with repeating:count:.                                    *)
THEOREM ElementsBalance ==
  ASSUME Restricted
  PROVE  Spec => []ElementsOwned
  <1>1. IInv => ElementsOwned
    BY DEF IInv, Exact, ElementsOwned
  <1> QED BY <1>1, InductiveInvariant, PTL

(* Slices of slices and slices of whatever else stay inside their storage, *)
(* provided their ranges stop short of endIndex of what they slice: one    *)
(* that does not ends a place too late (Array.swift:288).                  *)
THEOREM BoundsHold ==
  ASSUME Restricted
  PROVE  Spec => []ViewsInBounds
  <1>1. IInv => ViewsInBounds
    BY DEF IInv, Good, Sound, End, EndIndex, ViewsInBounds, InStorage
  <1> QED BY <1>1, InductiveInvariant, PTL

(* The memory under the pointer of withUnsafeMutableBufferPointer stays    *)
(* allocated and full of elements while the closure runs.                  *)
THEOREM PointersHold ==
  ASSUME Restricted
  PROVE  Spec => []PointerStaysValid
  <1>1. IInv => PointerStaysValid
    <2> SUFFICES ASSUME IInv, NEW v \in Vars, lent[v] # Nil
                 PROVE  InStorage(lent[v].view, lent[v].view.lo + lent[v].count)
      BY DEF PointerStaysValid
    <2>1. SoundLoan(lent[v], making, storage) /\ storage \in [Storages -> StorageObjects]
      BY DEF IInv, Good, Typed
    <2> QED BY <2>1, SoundBounds DEF SoundLoan, Sound, InStorage
  <1> QED BY <1>1, InductiveInvariant, PTL
=============================================================================
