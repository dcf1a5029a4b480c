--------------------------- MODULE Algorithms_proofs ---------------------------
(***************************************************************************)
(* The promises of the algorithms, for every length, predicate, nesting of *)
(* closures and integer type.  Each of the state machines that Algorithms  *)
(* puts together has an inductive invariant of its own.                    *)
(***************************************************************************)
EXTENDS Algorithms, FiniteSetTheorems, SequenceTheorems, Induction, TLAPS

-----------------------------------------------------------------------------
(*****************************************************************************)
(* Reordering.  Each loop has an invariant of its own, the one its comments  *)
(* or its shape suggest; that no element is lost follows from what one swap  *)
(* does.                                                                     *)
(*****************************************************************************)

IsPermutation(p, m) ==
  /\ p \in [Indices(m) -> Indices(m)]
  /\ \A e \in Indices(m) : \E i \in Indices(m) : p[i] = e

(* _partitionImpl: below lo nothing belongs in the second part, from hi on *)
(* (above hi, while the second loop looks for a partner of lo) everything. *)
FindLoInv ==
  at = "findLo" =>
    /\ algorithm = "partition"
    /\ 0 <= lo /\ lo <= hi /\ hi <= n
    /\ \A i \in Indices(n) : (i < lo => place[i] \notin second) /\ (i >= hi => place[i] \in second)

FindHiInv ==
  at = "findHi" =>
    /\ algorithm = "partition"
    /\ 0 <= lo /\ lo <= hi /\ hi < n
    /\ place[lo] \in second
    /\ \A i \in Indices(n) : (i < lo => place[i] \notin second) /\ (i > hi => place[i] \in second)

(* _halfStablePartition: what is behind hi is untouched, so every element  *)
(* moved forward is larger than those that were moved before it.           *)
FirstInv ==
  at = "first" =>
    /\ algorithm = "halfStable"
    /\ 0 <= lo /\ lo <= n
    /\ \A i \in Indices(n) : place[i] = i /\ (i < lo => place[i] \notin second)

RestInv ==
  at = "rest" =>
    /\ algorithm = "halfStable"
    /\ 0 <= lo /\ lo < hi /\ hi <= n
    /\ \A i \in Indices(n) : i < lo => place[i] \notin second
    /\ \A i \in Indices(n) : i < lo => place[i] < hi
    /\ \A i \in Indices(n) : lo <= i /\ i < hi => place[i] \in second
    /\ \A i \in Indices(n) : i >= hi => place[i] = i
    /\ \A i, j \in Indices(n) : i < j /\ j < lo => place[i] < place[j]

ShuffleInv == at = "shuffle" => algorithm = "shuffle" /\ lo >= 0 /\ hi >= 0 /\ lo + hi = n

ReverseInv ==
  at = "reverse" =>
    /\ algorithm = "reverse"
    /\ lo >= 0 /\ lo + hi = n - 1
    /\ \A i \in Indices(n) : i < lo \/ i > hi => place[i] = n - 1 - i
    /\ \A i \in Indices(n) : lo <= i /\ i <= hi => place[i] = i

Loop == {"idle", "findLo", "findHi", "first", "rest", "shuffle", "reverse", "done", "thrown"}

ReorderingTypeOK == n \in Nat /\ lo \in Int /\ hi \in Int /\ at \in Loop

(* The bounds of lo when a function has returned. *)
DoneInv ==
  at = "done" =>
    /\ algorithm \in {"partition", "halfStable"} => 0 <= lo /\ lo <= n
    /\ ReturnsWhatItPromises

ReorderingInv ==
  /\ ReorderingTypeOK /\ IsPermutation(place, n)
  /\ FindLoInv /\ FindHiInv /\ FirstInv /\ RestInv /\ ShuffleInv /\ ReverseInv
  /\ DoneInv

(* A swap keeps every element. *)
LEMMA SwapKeeps ==
  ASSUME NEW m \in Nat, NEW p, IsPermutation(p, m),
         NEW a \in Indices(m), NEW b \in Indices(m)
  PROVE  IsPermutation([p EXCEPT ![a] = p[b], ![b] = p[a]], m)
<1> DEFINE q == [p EXCEPT ![a] = p[b], ![b] = p[a]]
<1>1. q \in [Indices(m) -> Indices(m)]
  BY DEF IsPermutation
<1>2. q[a] = p[b] /\ q[b] = p[a] /\ \A i \in Indices(m) : i # a /\ i # b => q[i] = p[i]
  BY DEF IsPermutation
<1>3. ASSUME NEW e \in Indices(m) PROVE \E i \in Indices(m) : q[i] = e
  <2>1. PICK i \in Indices(m) : p[i] = e
    BY DEF IsPermutation
  <2>2. CASE i = a
    BY <1>2, <2>1, <2>2
  <2>3. CASE i = b
    BY <1>2, <2>1, <2>3
  <2>4. CASE i # a /\ i # b
    BY <1>2, <2>1, <2>4
  <2> QED BY <2>2, <2>3, <2>4
<1> QED BY <1>1, <1>3 DEF IsPermutation

LEMMA UntouchedIsPermutation ==
  ASSUME NEW m \in Nat
  PROVE  IsPermutation(Untouched(m), m)
BY DEF IsPermutation, Untouched

LEMMA ReorderingInitially == ReorderingInit => ReorderingInv
BY UntouchedIsPermutation
   DEF ReorderingInit, ReorderingInv, ReorderingTypeOK, Loop, FindLoInv, FindHiInv, FirstInv, RestInv,
       ShuffleInv, ReverseInv, DoneInv

LEMMA CallsKeep == ReorderingInv /\ Calls => ReorderingInv'
<1> SUFFICES ASSUME Calls PROVE ReorderingInv'
  OBVIOUS
<1> PICK m \in 0 .. MaxCount :
      \/ \E s \in SUBSET Indices(m) : Partition(m, s) \/ HalfStablePartition(m, s)
      \/ Shuffle(m) \/ Reverse(m)
  BY DEF Calls
<1> USE MaxCountAssumption
<1>1. n' = m /\ place' = Untouched(m) /\ m \in Nat
  BY DEF Partition, HalfStablePartition, Shuffle, Reverse, Call
<1>2. IsPermutation(place', n')
  BY <1>1, UntouchedIsPermutation
<1>3. \A i \in Indices(m) : Untouched(m)[i] = i
  BY DEF Untouched
<1>4. ASSUME NEW s \in SUBSET Indices(m), Partition(m, s) PROVE ReorderingInv'
  BY <1>1, <1>2, <1>3, <1>4
     DEF Partition, Call, ReorderingInv, ReorderingTypeOK, Loop, FindLoInv, FindHiInv, FirstInv, RestInv,
         ShuffleInv, ReverseInv, DoneInv, Indices
<1>5. ASSUME NEW s \in SUBSET Indices(m), HalfStablePartition(m, s) PROVE ReorderingInv'
  BY <1>1, <1>2, <1>3, <1>5
     DEF HalfStablePartition, Call, ReorderingInv, ReorderingTypeOK, Loop, FindLoInv, FindHiInv, FirstInv,
         RestInv, ShuffleInv, ReverseInv, DoneInv, Indices
<1>6. CASE Shuffle(m)
  BY <1>1, <1>2, <1>6
     DEF Shuffle, Call, ReorderingInv, ReorderingTypeOK, Loop, FindLoInv, FindHiInv, FirstInv, RestInv,
         ShuffleInv, ReverseInv, DoneInv
<1>7. CASE Reverse(m)
  BY <1>1, <1>2, <1>3, <1>7
     DEF Reverse, Call, ReorderingInv, ReorderingTypeOK, Loop, FindLoInv, FindHiInv, FirstInv, RestInv,
         ShuffleInv, ReverseInv, DoneInv, Indices
<1> QED BY <1>4, <1>5, <1>6, <1>7

(* A step within a call: what is left to show is the invariant of the loop *)
(* it goes to.                                                             *)
LEMMA GoesTo ==
  ASSUME NEW loop \in Loop, GoTo(loop), ReorderingTypeOK,
         lo' \in Int, hi' \in Int, IsPermutation(place', n),
         FindLoInv', FindHiInv', FirstInv', RestInv', ShuffleInv', ReverseInv', DoneInv'
  PROVE  ReorderingInv'
<1>1. n' = n /\ at' = loop
  BY DEF GoTo
<1>2. ReorderingTypeOK'
  BY <1>1 DEF ReorderingTypeOK
<1> QED BY <1>1, <1>2 DEF ReorderingInv

LEMMA FindLoKeeps == ReorderingInv /\ FindLo => ReorderingInv'
<1> SUFFICES ASSUME ReorderingInv, FindLo PROVE ReorderingInv'
  OBVIOUS
<1>1. lo \in Indices(n) /\ n' = n /\ place' = place /\ IsPermutation(place', n)
  BY DEF FindLo, GoTo, ReorderingInv, ReorderingTypeOK, FindLoInv, Indices
<1>2. CASE place[lo] \in second
  <2>1. FindHiInv'
    BY <1>1, <1>2 DEF FindLo, GoTo, ReorderingInv, ReorderingTypeOK, FindLoInv, FindHiInv, Indices
  <2>2. GoTo("findHi") /\ lo' = lo /\ hi' = hi - 1
    BY <1>2 DEF FindLo
  <2> QED
    BY <1>1, <2>1, <2>2, GoesTo
       DEF GoTo, Loop, ReorderingInv, ReorderingTypeOK, FindLoInv, FirstInv, RestInv, ShuffleInv, ReverseInv, DoneInv
<1>3. CASE place[lo] \notin second
  <2>1. FindLoInv'
    BY <1>1, <1>3 DEF FindLo, GoTo, ReorderingInv, ReorderingTypeOK, FindLoInv, Indices
  <2>2. GoTo("findLo") /\ lo' = lo + 1 /\ hi' = hi
    BY <1>3 DEF FindLo
  <2> QED
    BY <1>1, <2>1, <2>2, GoesTo
       DEF GoTo, Loop, ReorderingInv, ReorderingTypeOK, FindHiInv, FirstInv, RestInv, ShuffleInv, ReverseInv, DoneInv
<1> QED BY <1>2, <1>3

LEMMA FindHiKeeps == ReorderingInv /\ FindHi => ReorderingInv'
<1> SUFFICES ASSUME ReorderingInv, FindHi PROVE ReorderingInv'
  OBVIOUS
<1>1. lo \in Indices(n) /\ hi \in Indices(n) /\ lo < hi /\ n' = n
  BY DEF FindHi, GoTo, ReorderingInv, ReorderingTypeOK, FindHiInv, Indices
<1>2. CASE place[hi] \in second
  <2>1. FindHiInv'
    BY <1>1, <1>2 DEF FindHi, GoTo, ReorderingInv, ReorderingTypeOK, FindHiInv, Indices
  <2>2. GoTo("findHi") /\ lo' = lo /\ hi' = hi - 1 /\ place' = place
    BY <1>2 DEF FindHi
  <2> QED
    BY <1>1, <2>1, <2>2, GoesTo
       DEF GoTo, Loop, ReorderingInv, ReorderingTypeOK, FindLoInv, FirstInv, RestInv, ShuffleInv, ReverseInv, DoneInv
<1>3. CASE place[hi] \notin second
  <2>1. IsPermutation(place', n')
    BY <1>1, <1>3, SwapKeeps DEF FindHi, SwapAt, ReorderingInv, ReorderingTypeOK
  <2>2. \A i \in Indices(n) :
          place'[i] = IF i = lo THEN place[hi] ELSE IF i = hi THEN place[lo] ELSE place[i]
    BY <1>1, <1>3 DEF FindHi, SwapAt, ReorderingInv, IsPermutation
  <2>3. FindLoInv'
    BY <1>1, <1>3, <2>2 DEF FindHi, GoTo, ReorderingInv, ReorderingTypeOK, FindHiInv, FindLoInv, Indices
  <2> QED
    BY <1>1, <1>3, <2>1, <2>3
       DEF FindHi, GoTo, ReorderingInv, ReorderingTypeOK, Loop, FindHiInv, FirstInv, RestInv, ShuffleInv,
           ReverseInv, DoneInv
<1> QED BY <1>2, <1>3

LEMMA MeetKeeps == ReorderingInv /\ Meet => ReorderingInv'
<1> SUFFICES ASSUME ReorderingInv, Meet PROVE ReorderingInv'
  OBVIOUS
<1>1. algorithm = "partition" /\ 0 <= lo /\ lo <= n
  BY DEF Meet, ReorderingInv, ReorderingTypeOK, FindLoInv, FindHiInv
<1>2. \A i \in Indices(n) : i >= lo <=> place[i] \in second
  BY DEF Meet, ReorderingInv, ReorderingTypeOK, FindLoInv, FindHiInv, Indices
<1> QED
  BY <1>1, <1>2
     DEF Meet, Return, GoTo, ReorderingInv, ReorderingTypeOK, Loop, IsPermutation, FindLoInv, FindHiInv, FirstInv,
         RestInv, ShuffleInv, ReverseInv, DoneInv, ReturnsWhatItPromises, Splits,
         FirstPartStable, Reversed

LEMMA FindFirstKeeps == ReorderingInv /\ FindFirst => ReorderingInv'
BY DEF ReorderingInv, ReorderingTypeOK, Loop, IsPermutation, FindFirst, GoTo, FindLoInv, FindHiInv, FirstInv,
       RestInv, ShuffleInv, ReverseInv, DoneInv, Indices

LEMMA MoveForwardKeeps == ReorderingInv /\ MoveForward => ReorderingInv'
<1> SUFFICES ASSUME ReorderingInv, MoveForward PROVE ReorderingInv'
  OBVIOUS
<1>1. lo \in Indices(n) /\ hi \in Indices(n) /\ lo < hi /\ lo \in Int /\ hi \in Int /\ n \in Nat
  BY DEF MoveForward, ReorderingInv, ReorderingTypeOK, RestInv, Indices
<1>2. GoTo("rest") /\ n' = n /\ hi' = hi + 1 /\ second' = second /\ algorithm' = "halfStable"
  BY DEF MoveForward, GoTo, ReorderingInv, RestInv
<1>3. /\ \A i \in Indices(n) : i < lo => place[i] \notin second
      /\ \A i \in Indices(n) : i < lo => place[i] < hi
      /\ \A i \in Indices(n) : lo <= i /\ i < hi => place[i] \in second
      /\ \A i \in Indices(n) : i >= hi => place[i] = i
      /\ \A i, j \in Indices(n) : i < j /\ j < lo => place[i] < place[j]
  BY DEF MoveForward, ReorderingInv, RestInv
<1>4. \A i \in Indices(n) : i \in Int /\ place[i] \in Int
  BY DEF ReorderingInv, IsPermutation, Indices
<1>5. SUFFICES IsPermutation(place', n) /\ lo' \in Int /\ RestInv'
  BY <1>1, <1>2, GoesTo
     DEF GoTo, Loop, ReorderingInv, ReorderingTypeOK, FindLoInv, FindHiInv, FirstInv, ShuffleInv, ReverseInv, DoneInv
<1>6. CASE place[hi] \in second
  <2>1. place' = place /\ lo' = lo
    BY <1>6 DEF MoveForward
  <2>2. RestInv'
    BY <1>1, <1>2, <1>3, <1>4, <1>6, <2>1 DEF RestInv, Indices
  <2> QED BY <1>1, <2>1, <2>2 DEF ReorderingInv
<1>7. CASE place[hi] \notin second
  <2>1. SwapAt(lo, hi) /\ lo' = lo + 1
    BY <1>7 DEF MoveForward
  <2>2. IsPermutation(place', n)
    BY <1>1, <2>1, SwapKeeps DEF SwapAt, ReorderingInv
  <2>3. /\ place'[lo] = hi /\ place'[hi] \in second
        /\ \A i \in Indices(n) : i # lo /\ i # hi => place'[i] = place[i]
    <3>1. \A i \in Indices(n) :
            place'[i] = IF i = hi THEN place[lo] ELSE IF i = lo THEN place[hi] ELSE place[i]
      BY <1>1, <2>1 DEF SwapAt, ReorderingInv, IsPermutation
    <3> QED BY <1>1, <1>3, <3>1 DEF Indices
  <2>4. hi \notin second
    BY <1>1, <1>3, <1>7 DEF Indices
  <2>5. ASSUME NEW i \in Indices(n)
        PROVE  /\ i < lo' => place'[i] \notin second
               /\ i < lo' => place'[i] < hi'
               /\ lo' <= i /\ i < hi' => place'[i] \in second
               /\ i >= hi' => place'[i] = i
    BY <1>1, <1>2, <1>3, <1>4, <2>1, <2>3, <2>4 DEF Indices
  <2>6. ASSUME NEW i \in Indices(n), NEW j \in Indices(n), i < j, j < lo'
        PROVE  place'[i] < place'[j]
    BY <1>1, <1>3, <1>4, <2>1, <2>3, <2>6 DEF Indices
  <2>7. RestInv'
    BY <1>1, <1>2, <2>1, <2>5, <2>6 DEF RestInv, Indices
  <2> QED BY <1>1, <2>1, <2>2, <2>7
<1> QED BY <1>6, <1>7

LEMMA EndOfCollectionKeeps == ReorderingInv /\ EndOfCollection => ReorderingInv'
<1> SUFFICES ASSUME ReorderingInv, EndOfCollection PROVE ReorderingInv'
  OBVIOUS
<1>1. algorithm = "halfStable" /\ 0 <= lo /\ lo <= n
  BY DEF EndOfCollection, ReorderingInv, ReorderingTypeOK, FirstInv, RestInv
<1>2. \A i \in Indices(n) : i >= lo <=> place[i] \in second
  BY DEF EndOfCollection, ReorderingInv, ReorderingTypeOK, FirstInv, RestInv, Indices
<1>3. \A i, j \in Indices(lo) : i < j => place[i] < place[j]
  BY <1>1 DEF EndOfCollection, ReorderingInv, ReorderingTypeOK, FirstInv, RestInv, Indices
<1>4. Return
  BY DEF EndOfCollection
<1>5. Splits' /\ FirstPartStable' /\ Reversed'
  BY <1>1, <1>2, <1>3, <1>4 DEF Return, GoTo, Splits, FirstPartStable, Reversed
<1> QED
  BY <1>1, <1>4, <1>5
     DEF Return, GoTo, ReorderingInv, ReorderingTypeOK, Loop, IsPermutation, FindLoInv, FindHiInv, FirstInv,
         RestInv, ShuffleInv, ReverseInv, DoneInv, ReturnsWhatItPromises

LEMMA ThrowKeeps == ReorderingInv /\ Throw => ReorderingInv'
BY DEF Throw, GoTo, ReorderingInv, ReorderingTypeOK, Loop, IsPermutation, FindLoInv, FindHiInv, FirstInv,
       RestInv, ShuffleInv, ReverseInv, DoneInv

LEMMA ShuffleStepKeeps == ReorderingInv /\ ShuffleStep => ReorderingInv'
<1> SUFFICES ASSUME ReorderingInv, ShuffleStep PROVE ReorderingInv'
  OBVIOUS
<1>1. lo >= 0 /\ lo + hi = n /\ hi > 1 /\ lo \in Int /\ hi \in Int /\ n \in Nat
  BY DEF ShuffleStep, ReorderingInv, ReorderingTypeOK, ShuffleInv
<1>2. PICK random \in Indices(hi) : SwapAt(lo, lo + random)
  BY DEF ShuffleStep
<1>3. lo \in Indices(n) /\ lo + random \in Indices(n)
  BY <1>1 DEF Indices
<1>4. IsPermutation(place', n)
  BY <1>1, <1>2, <1>3, SwapKeeps DEF SwapAt, ReorderingInv
<1>5. ShuffleInv' /\ lo' \in Int /\ hi' \in Int
  BY <1>1 DEF ShuffleStep, GoTo, ReorderingInv, ShuffleInv
<1> QED
  BY <1>4, <1>5, GoesTo
     DEF ShuffleStep, GoTo, Loop, ReorderingInv, FindLoInv, FindHiInv, FirstInv, RestInv, ReverseInv, DoneInv

LEMMA ReverseStepKeeps == ReorderingInv /\ ReverseStep => ReorderingInv'
<1> SUFFICES ASSUME ReorderingInv, ReverseStep PROVE ReorderingInv'
  OBVIOUS
<1>1. lo >= 0 /\ lo + hi = n - 1 /\ lo < hi /\ lo \in Int /\ hi \in Int /\ n \in Nat
  BY DEF ReverseStep, ReorderingInv, ReorderingTypeOK, ReverseInv
<1>2. lo \in Indices(n) /\ hi \in Indices(n)
  BY <1>1 DEF Indices
<1>3. IsPermutation(place', n)
  BY <1>1, <1>2, SwapKeeps DEF ReverseStep, SwapAt, ReorderingInv
<1>4. \A i \in Indices(n) :
        place'[i] = IF i = hi THEN place[lo] ELSE IF i = lo THEN place[hi] ELSE place[i]
  BY <1>2 DEF ReverseStep, SwapAt, ReorderingInv, IsPermutation
<1>5. /\ \A i \in Indices(n) : i < lo \/ i > hi => place[i] = n - 1 - i
      /\ \A i \in Indices(n) : lo <= i /\ i <= hi => place[i] = i
  BY DEF ReverseStep, ReorderingInv, ReverseInv
<1>6. /\ GoTo("reverse") /\ lo' = lo + 1 /\ hi' = hi - 1 /\ n' = n
      /\ at' = "reverse" /\ algorithm' = "reverse"
  BY DEF ReverseStep, GoTo, ReorderingInv, ReverseInv
<1>7. ASSUME NEW i \in Indices(n)
      PROVE  /\ i < lo' \/ i > hi' => place'[i] = n - 1 - i
             /\ lo' <= i /\ i <= hi' => place'[i] = i
  BY <1>1, <1>2, <1>4, <1>5, <1>6 DEF Indices
<1>8. ReverseInv'
  BY <1>1, <1>6, <1>7 DEF ReverseInv
<1> QED
  BY <1>1, <1>3, <1>6, <1>8, GoesTo
     DEF Loop, ReorderingInv, FindLoInv, FindHiInv, FirstInv, RestInv, ShuffleInv, DoneInv

LEMMA EndOfLoopKeeps == ReorderingInv /\ EndOfLoop => ReorderingInv'
<1> SUFFICES ASSUME ReorderingInv, EndOfLoop PROVE ReorderingInv'
  OBVIOUS
<1>1. Return /\ algorithm \in {"shuffle", "reverse"} /\ lo' = lo /\ hi' = hi
  BY DEF EndOfLoop, Return, ReorderingInv, ShuffleInv, ReverseInv
<1>2. algorithm = "reverse" => \A i \in Indices(n) : place[i] = n - 1 - i
  BY DEF EndOfLoop, ReorderingInv, ReorderingTypeOK, ShuffleInv, ReverseInv, Indices
<1>3. DoneInv'
  BY <1>1, <1>2 DEF Return, GoTo, DoneInv, ReturnsWhatItPromises, Splits, FirstPartStable, Reversed
<1> QED
  BY <1>1, <1>3, GoesTo
     DEF Return, GoTo, Loop, ReorderingInv, ReorderingTypeOK, FindLoInv, FindHiInv, FirstInv, RestInv, ShuffleInv,
         ReverseInv

LEMMA ReorderingStutters == ReorderingInv /\ UNCHANGED reordering => ReorderingInv'
BY DEF reordering, ReorderingInv, ReorderingTypeOK, IsPermutation, FindLoInv, FindHiInv, FirstInv, RestInv,
       ShuffleInv, ReverseInv, DoneInv, ReturnsWhatItPromises, Splits, FirstPartStable, Reversed

THEOREM ReorderingInvariance == ReorderingSpec => []ReorderingInv
<1>1. ReorderingInv /\ [ReorderingNext]_reordering => ReorderingInv'
  BY CallsKeep, FindLoKeeps, FindHiKeeps, MeetKeeps, FindFirstKeeps, MoveForwardKeeps,
     EndOfCollectionKeeps, ThrowKeeps, ShuffleStepKeeps, ReverseStepKeeps, EndOfLoopKeeps,
     ReorderingStutters
     DEF ReorderingNext, Loops
<1> QED BY ReorderingInitially, <1>1, PTL DEF ReorderingSpec

(* In every state of every call, also one that has thrown, the collection  *)
(* holds each of its elements exactly once.                                *)
THEOREM KeepsEveryElement == ReorderingSpec => []EveryElementKept
<1>1. ReorderingInv => EveryElementKept
  BY DEF ReorderingInv, IsPermutation, EveryElementKept
<1> QED BY ReorderingInvariance, <1>1, PTL

(* partition and half-stable partition return the boundary of their parts, *)
(* the half-stable one keeps the first part's order, reverse reverses.     *)
THEOREM ReturnsPromised == ReorderingSpec => []ReturnsWhatItPromises
<1>1. ReorderingInv => ReturnsWhatItPromises
  BY DEF ReorderingInv, DoneInv, ReturnsWhatItPromises, Splits, FirstPartStable, Reversed
<1> QED BY ReorderingInvariance, <1>1, PTL

-----------------------------------------------------------------------------
(*****************************************************************************)
(* ScopedMemory.  Every element is in one place (PlacesInv), and a block is  *)
(* live as long as the call that took it (BlocksInv).                        *)
(*****************************************************************************)

TemporaryCall == [kind : {"temporary"}, on : {"stack", "heap"}, address : Nat \cup HeapAddresses]
ArrayCall == [kind : {"array"}, count : Nat, slots : Seq(Elements)]
AnyCall == TemporaryCall \cup ArrayCall
StackBlock == [capacity : Int, stride : Nat]

MemoryTypeOK ==
  /\ calls \in Seq(AnyCall) /\ stack \in Seq(StackBlock)
  /\ heap \subseteq HeapAddresses /\ IsFiniteSet(heap)
  /\ made \in Nat /\ made <= MaxElements
  /\ destroyed \in [Elements -> Nat] /\ owned \subseteq Elements
  /\ stopped \in BOOLEAN

Injective(s) == \A i, j \in DOMAIN s : s[i] = s[j] => i = j

(* An element that was made is in the storage of one call, returned or     *)
(* destroyed, and in one of these places only: `held` gives the elements   *)
(* of the calls in `cs`.                                                   *)
Apart(cs, held, m, gone, kept) ==
  /\ \A c, d \in cs : \A e \in held[c] : e \in held[d] => c = d
  /\ \A c \in cs : \A e \in held[c] : e \in Elements /\ e <= m /\ gone[e] = 0 /\ e \notin kept
  /\ \A e \in Elements :
       /\ gone[e] \in {0, 1}
       /\ e \in kept \/ gone[e] = 1 => e <= m
       /\ e \in kept => gone[e] = 0
       /\ e <= m => e \in kept \/ gone[e] = 1 \/ \E c \in cs : e \in held[c]

Held == [c \in ArrayCalls |-> Elems(calls[c].slots)]

PlacesInv ==
  /\ \A c \in ArrayCalls : Injective(calls[c].slots)
  /\ Apart(ArrayCalls, Held, made, destroyed, owned)

HeapAddressesDiffer ==
  \A c, d \in BlocksOn("heap") : calls[c].address = calls[d].address => c = d

BlocksFit ==
  \A i \in DOMAIN stack :
    SizeIsRepresentable(stack[i]) => stack[i].capacity * stack[i].stride <= StackLimit

(* BlocksMatchCalls, and that no two calls have the same block.            *)
BlocksInv ==
  /\ Cardinality(BlocksOn("stack")) = Len(stack)
  /\ \A c \in BlocksOn("stack") :
       calls[c].address = Cardinality({d \in BlocksOn("stack") : d <= c})
  /\ heap = {calls[c].address : c \in BlocksOn("heap")}
  /\ Cardinality(heap) = Cardinality(BlocksOn("heap"))
  /\ HeapAddressesDiffer
  /\ BlocksFit

MemoryInv == MemoryTypeOK /\ PlacesInv /\ BlocksInv

LEMMA ModSmall ==
  ASSUME NEW a \in Nat, NEW m \in Nat, a < m
  PROVE  a % m = a
  OBVIOUS

LEMMA Predecessor ==
  \A k \in Nat \ {0} : \E m \in Nat : m + 1 = k
  <1> SUFFICES ASSUME NEW k \in Nat \ {0} PROVE \E m \in Nat : m + 1 = k
    OBVIOUS
  <1>1. k - 1 \in Nat /\ (k - 1) + 1 = k
    OBVIOUS
  <1> QED BY <1>1

LEMMA Untruncated ==
  ASSUME NEW x \in Nat, x <= IntMax
  PROVE  Truncated(x) = x
  <1>1. PICK a \in Nat, m \in Nat : a = x + IntMax + 1 /\ m = 2 * IntMax + 2
    BY ScopedMemoryAssumption
  <1>2. a % m = a
    BY <1>1, ModSmall, ScopedMemoryAssumption
  <1> QED BY <1>1, <1>2, ScopedMemoryAssumption DEF Truncated

(* A block that goes onto the stack with a size that does not wrap around  *)
(* is no larger than the limit.                                            *)
LEMMA StackBlockFits ==
  ASSUME NEW capacity \in Capacities, NEW stride \in ElementStrides,
         NEW alignment, IsStackAllocationSafe(capacity, stride, alignment),
         capacity >= 0, capacity * stride <= IntMax
  PROVE  capacity * stride <= StackLimit
  <1>1. capacity \in Nat /\ stride \in Nat
    BY ScopedMemoryAssumption
  <1>2. PICK p \in Nat : p = capacity * stride
    BY <1>1
  <1>4. Truncated(p) = p
    BY <1>2, Untruncated
  <1> QED BY <1>1, <1>2, <1>4 DEF IsStackAllocationSafe, ByteCount

-----------------------------------------------------------------------------
(* What pushing, popping and replacing the innermost call does.            *)

LEMMA CallsPushed ==
  ASSUME calls \in Seq(AnyCall), NEW x \in AnyCall, calls' = Append(calls, x)
  PROVE  /\ calls' \in Seq(AnyCall)
         /\ Len(calls) \in Nat /\ Len(calls') = Len(calls) + 1
         /\ DOMAIN calls = 1 .. Len(calls) /\ DOMAIN calls' = 1 .. Len(calls) + 1
         /\ \A c \in DOMAIN calls : calls'[c] = calls[c]
         /\ calls'[Len(calls) + 1] = x
  <1> HIDE DEF AnyCall
  <1> QED BY AppendProperties, LenProperties

LEMMA CallsPopped ==
  ASSUME calls \in Seq(AnyCall), calls # <<>>
  PROVE  /\ Outer \in Seq(AnyCall)
         /\ Len(calls) \in Nat \ {0} /\ Len(Outer) = Len(calls) - 1
         /\ DOMAIN calls = 1 .. Len(calls) /\ DOMAIN Outer = 1 .. Len(calls) - 1
         /\ \A c \in DOMAIN Outer : Outer[c] = calls[c]
         /\ Innermost \in AnyCall
  <1> HIDE DEF AnyCall
  <1>1. Len(calls) \in Nat \ {0} /\ DOMAIN calls = 1 .. Len(calls)
    BY EmptySeq, LenProperties
  <1>2. PICK m \in Nat : m + 1 = Len(calls)
    BY <1>1, Predecessor
  <1>3. /\ SubSeq(calls, 1, m) \in Seq(AnyCall) /\ Len(SubSeq(calls, 1, m)) = m
        /\ \A i \in 1 .. m : SubSeq(calls, 1, m)[i] = calls[i]
    BY <1>1, <1>2, SubSeqProperties
  <1>4. DOMAIN SubSeq(calls, 1, m) = 1 .. m
    BY <1>3, LenProperties
  <1>5. Innermost \in AnyCall
    BY <1>1, ElementOfSeq DEF Innermost
  <1> QED BY <1>1, <1>2, <1>3, <1>4, <1>5 DEF Outer

LEMMA TemporaryPushed ==
  ASSUME calls \in Seq(AnyCall), NEW x \in TemporaryCall, calls' = Append(calls, x)
  PROVE  /\ ArrayCalls' = ArrayCalls
         /\ \A c \in ArrayCalls : calls'[c] = calls[c]
         /\ \A where : BlocksOn(where)' =
              IF where = x.on THEN BlocksOn(where) \cup {Len(calls) + 1} ELSE BlocksOn(where)
  <1>1. x \in AnyCall /\ x.kind = "temporary"
    BY DEF AnyCall, TemporaryCall
  <1>2. /\ Len(calls) \in Nat
        /\ DOMAIN calls = 1 .. Len(calls) /\ DOMAIN calls' = 1 .. Len(calls) + 1
        /\ \A c \in DOMAIN calls : calls'[c] = calls[c]
        /\ calls'[Len(calls) + 1] = x
    BY <1>1, CallsPushed
  <1>3. DOMAIN calls' = DOMAIN calls \cup {Len(calls) + 1} /\ Len(calls) + 1 \notin DOMAIN calls
    BY <1>2
  <1> QED BY <1>1, <1>2, <1>3, Zenon DEF ArrayCalls, BlocksOn

LEMMA ArrayPushed ==
  ASSUME calls \in Seq(AnyCall), NEW x \in ArrayCall, calls' = Append(calls, x)
  PROVE  /\ ArrayCalls' = ArrayCalls \cup {Len(calls) + 1}
         /\ \A where : BlocksOn(where)' = BlocksOn(where)
         /\ \A c \in DOMAIN calls : calls'[c] = calls[c]
         /\ Len(calls) + 1 \notin DOMAIN calls
         /\ calls'[Len(calls) + 1] = x
  <1>1. x \in AnyCall /\ x.kind = "array" /\ "array" # "temporary"
    BY DEF AnyCall, ArrayCall
  <1>2. /\ Len(calls) \in Nat
        /\ DOMAIN calls = 1 .. Len(calls) /\ DOMAIN calls' = 1 .. Len(calls) + 1
        /\ \A c \in DOMAIN calls : calls'[c] = calls[c]
        /\ calls'[Len(calls) + 1] = x
    BY <1>1, CallsPushed
  <1>3. DOMAIN calls' = DOMAIN calls \cup {Len(calls) + 1} /\ Len(calls) + 1 \notin DOMAIN calls
    BY <1>2
  <1> QED BY <1>1, <1>2, <1>3, Zenon DEF ArrayCalls, BlocksOn

LEMMA Popped ==
  ASSUME calls \in Seq(AnyCall), calls # <<>>, calls' = Outer
  PROVE  /\ ArrayCalls' = ArrayCalls \ {Len(calls)}
         /\ \A where : BlocksOn(where)' = BlocksOn(where) \ {Len(calls)}
         /\ \A c \in DOMAIN calls' : calls'[c] = calls[c]
         /\ DOMAIN calls' = DOMAIN calls \ {Len(calls)}
  <1>1. /\ Len(calls) \in Nat \ {0}
        /\ DOMAIN calls = 1 .. Len(calls) /\ DOMAIN calls' = 1 .. Len(calls) - 1
        /\ \A c \in DOMAIN calls' : calls'[c] = calls[c]
    BY CallsPopped
  <1>2. DOMAIN calls' = DOMAIN calls \ {Len(calls)}
    BY <1>1
  <1> QED BY <1>1, <1>2, Zenon DEF ArrayCalls, BlocksOn

LEMMA ArrayReplaced ==
  ASSUME calls \in Seq(AnyCall), calls # <<>>, Innermost.kind = "array",
         NEW x \in ArrayCall, calls' = Append(Outer, x)
  PROVE  /\ calls' \in Seq(AnyCall)
         /\ ArrayCalls' = ArrayCalls
         /\ \A where : BlocksOn(where)' = BlocksOn(where)
         /\ \A c \in DOMAIN calls : c # Len(calls) => calls'[c] = calls[c]
         /\ Len(calls) \in ArrayCalls /\ calls'[Len(calls)] = x
  <1>1. x \in AnyCall /\ x.kind = "array" /\ "array" # "temporary"
    BY DEF AnyCall, ArrayCall
  <1>2. /\ Outer \in Seq(AnyCall)
        /\ Len(calls) \in Nat \ {0} /\ Len(Outer) = Len(calls) - 1
        /\ DOMAIN calls = 1 .. Len(calls) /\ DOMAIN Outer = 1 .. Len(calls) - 1
        /\ \A c \in DOMAIN Outer : Outer[c] = calls[c]
    BY CallsPopped
  <1>3. /\ calls' \in Seq(AnyCall) /\ Len(calls') = Len(Outer) + 1
        /\ \A c \in 1 .. Len(Outer) : calls'[c] = Outer[c]
        /\ calls'[Len(Outer) + 1] = x
    BY <1>1, <1>2, AppendProperties
  <1>4. DOMAIN calls' = 1 .. Len(calls')
    BY <1>3, LenProperties
  <1>5. /\ DOMAIN calls' = DOMAIN calls /\ Len(calls) \in DOMAIN calls /\ calls'[Len(calls)] = x
        /\ \A c \in DOMAIN calls : c # Len(calls) => calls'[c] = calls[c]
    BY <1>2, <1>3, <1>4
  <1>6. calls[Len(calls)].kind = "array"
    BY DEF Innermost
  <1> QED BY <1>1, <1>3, <1>5, <1>6, Zenon DEF ArrayCalls, BlocksOn

LEMMA PrefixFacts ==
  ASSUME NEW S, NEW s \in Seq(S), NEW k \in Nat, k <= Len(s)
  PROVE  /\ SubSeq(s, 1, k) \in Seq(S) /\ Len(SubSeq(s, 1, k)) = k
         /\ \A i \in 1 .. k : SubSeq(s, 1, k)[i] = s[i]
  <1>1. Len(s) \in Nat /\ \A i \in 1 .. k : s[i] \in S
    BY LenProperties, ElementOfSeq
  <1>2. /\ SubSeq(s, 1, k) \in Seq(S)
        /\ Len(SubSeq(s, 1, k)) = IF 1 <= k THEN k - 1 + 1 ELSE 0
        /\ \A i \in 1 .. k - 1 + 1 : SubSeq(s, 1, k)[i] = s[1 + i - 1]
    BY <1>1, SubSeqProperties
  <1>3. k - 1 + 1 = k /\ \A i \in 1 .. k : 1 + i - 1 = i
    OBVIOUS
  <1> QED BY <1>2, <1>3

LEMMA BlocksAreFinite ==
  ASSUME calls \in Seq(AnyCall), NEW where
  PROVE  /\ IsFiniteSet(BlocksOn(where)) /\ Cardinality(BlocksOn(where)) \in Nat
         /\ Len(calls) \in Nat
         /\ BlocksOn(where) \subseteq 1 .. Len(calls)
  <1>1. Len(calls) \in Nat /\ DOMAIN calls = 1 .. Len(calls)
    <2> HIDE DEF AnyCall
    <2> QED BY LenProperties
  <1>2. BlocksOn(where) \subseteq 1 .. Len(calls)
    BY <1>1 DEF BlocksOn
  <1>3. IsFiniteSet(1 .. Len(calls))
    BY <1>1, FS_Interval
  <1> QED BY <1>1, <1>2, <1>3, FS_Subset, FS_CardinalityType

(* Calls that lend no block do not disturb the blocks.                     *)
LEMMA BlocksKept ==
  ASSUME BlocksInv, UNCHANGED <<stack, heap>>,
         \A where : BlocksOn(where)' = BlocksOn(where),
         \A where : \A c \in BlocksOn(where) : calls'[c] = calls[c]
  PROVE  BlocksInv'
  <1>1. HeapAddressesDiffer'
    BY DEF BlocksInv, HeapAddressesDiffer
  <1>2. BlocksFit' = BlocksFit
    BY DEF BlocksFit
  <1> QED BY <1>1, <1>2 DEF BlocksInv

LEMMA StackBlockPushed ==
  ASSUME MemoryTypeOK, BlocksInv, NEW b \in StackBlock,
         SizeIsRepresentable(b) => b.capacity * b.stride <= StackLimit,
         stack' = Append(stack, b), heap' = heap,
         calls' = Append(calls, [kind |-> "temporary", on |-> "stack", address |-> Len(stack) + 1])
  PROVE  BlocksInv' /\ stack' \in Seq(StackBlock) /\ calls' \in Seq(AnyCall)
  <1> DEFINE x == [kind |-> "temporary", on |-> "stack", address |-> Len(stack) + 1]
  <1>1. /\ stack' \in Seq(StackBlock)
        /\ Len(stack) \in Nat /\ Len(stack') = Len(stack) + 1
        /\ DOMAIN stack = 1 .. Len(stack) /\ DOMAIN stack' = 1 .. Len(stack) + 1
        /\ \A i \in DOMAIN stack : stack'[i] = stack[i]
        /\ stack'[Len(stack) + 1] = b
    <2> HIDE DEF StackBlock, MemoryTypeOK
    <2> stack \in Seq(StackBlock)
      BY DEF MemoryTypeOK
    <2> QED BY AppendProperties, LenProperties
  <1>2. x \in TemporaryCall /\ x.on = "stack" /\ x.address = Len(stack) + 1
    BY <1>1 DEF TemporaryCall
  <1>3. calls \in Seq(AnyCall) /\ x \in AnyCall
    BY <1>2 DEF MemoryTypeOK, AnyCall
  <1> HIDE DEF x
  <1>a. calls' = Append(calls, x)
    BY DEF x
  <1>4. /\ calls' \in Seq(AnyCall)
        /\ \A c \in DOMAIN calls : calls'[c] = calls[c]
        /\ calls'[Len(calls) + 1] = x
    BY <1>3, <1>a, CallsPushed
  <1>5. PICK Q, H, L, N : /\ Q = BlocksOn("stack") /\ H = BlocksOn("heap")
                          /\ L = Len(calls) /\ N = Len(stack)
    OBVIOUS
  <1>6. BlocksOn("stack")' = Q \cup {L + 1} /\ BlocksOn("heap")' = H
    BY <1>2, <1>3, <1>a, <1>5, TemporaryPushed, "stack" # "heap"
  <1>7. /\ IsFiniteSet(Q) /\ L \in Nat /\ Q \subseteq 1 .. L /\ H \subseteq 1 .. L
        /\ L + 1 \notin Q
    BY <1>3, <1>5, BlocksAreFinite
  <1>8. Cardinality(Q) = N /\ N \in Nat
    BY <1>1, <1>5 DEF BlocksInv
  <1>9. Cardinality(Q \cup {L + 1}) = N + 1
    BY <1>7, <1>8, FS_AddElement
  <1>10. \A c \in Q \cup H : calls'[c] = calls[c]
    BY <1>4, <1>5 DEF BlocksOn
  <1>11. \A c \in Q : {d \in Q \cup {L + 1} : d <= c} = {d \in Q : d <= c}
    BY <1>7
  <1>12. {d \in Q \cup {L + 1} : d <= L + 1} = Q \cup {L + 1}
    <2>1. \A d \in Q \cup {L + 1} : d <= L + 1
      BY <1>7
    <2> QED BY <2>1
  <1>13. Cardinality(BlocksOn("stack")') = Len(stack')
    <2>1. Len(stack') = N + 1
      BY <1>1, <1>5
    <2> QED BY <2>1, <1>6, <1>9
  <1>14. \A c \in Q \cup {L + 1} : calls'[c].address = Cardinality({d \in Q \cup {L + 1} : d <= c})
    <2>1. \A c \in Q : calls[c].address = Cardinality({d \in Q : d <= c})
      BY <1>5 DEF BlocksInv
    <2>2. \A c \in Q : calls'[c].address = Cardinality({d \in Q \cup {L + 1} : d <= c})
      BY <2>1, <1>10, <1>11
    <2>3. calls'[L + 1].address = N + 1
      BY <1>2, <1>4, <1>5
    <2> QED BY <2>2, <2>3, <1>9, <1>12
  <1>15. heap' = {calls'[c].address : c \in H} /\ Cardinality(heap') = Cardinality(H)
    <2>1. heap = {calls[c].address : c \in H} /\ Cardinality(heap) = Cardinality(H)
      BY <1>5 DEF BlocksInv
    <2> QED BY <2>1, <1>10
  <1>16. BlocksFit'
    <2>1. \A i \in DOMAIN stack :
            SizeIsRepresentable(stack[i]) => stack[i].capacity * stack[i].stride <= StackLimit
      BY DEF BlocksInv, BlocksFit
    <2>2. DOMAIN stack' = DOMAIN stack \cup {Len(stack) + 1}
      BY <1>1
    <2>3. \A i \in DOMAIN stack' :
            SizeIsRepresentable(stack'[i]) => stack'[i].capacity * stack'[i].stride <= StackLimit
      BY <2>1, <2>2, <1>1
    <2> QED BY <2>3 DEF BlocksFit, SizeIsRepresentable
  <1>17. HeapAddressesDiffer'
    BY <1>5, <1>6, <1>10 DEF HeapAddressesDiffer, BlocksInv
  <1>18. BlocksInv'
    BY <1>6, <1>13, <1>14, <1>15, <1>16, <1>17 DEF BlocksInv
  <1> QED BY <1>1, <1>4, <1>18

LEMMA HeapBlockPushed ==
  ASSUME MemoryTypeOK, BlocksInv, NEW a \in HeapAddresses \ heap,
         heap' = heap \cup {a}, stack' = stack,
         calls' = Append(calls, [kind |-> "temporary", on |-> "heap", address |-> a])
  PROVE  BlocksInv' /\ IsFiniteSet(heap') /\ calls' \in Seq(AnyCall)
  <1> DEFINE x == [kind |-> "temporary", on |-> "heap", address |-> a]
  <1>2. x \in TemporaryCall /\ x.on = "heap" /\ x.address = a
    BY DEF TemporaryCall
  <1>3. calls \in Seq(AnyCall) /\ x \in AnyCall
    BY <1>2 DEF MemoryTypeOK, AnyCall
  <1> HIDE DEF x
  <1>a. calls' = Append(calls, x)
    BY DEF x
  <1>4. /\ calls' \in Seq(AnyCall)
        /\ \A c \in DOMAIN calls : calls'[c] = calls[c]
        /\ calls'[Len(calls) + 1] = x
    BY <1>3, <1>a, CallsPushed
  <1>5. PICK Q, H, L : Q = BlocksOn("stack") /\ H = BlocksOn("heap") /\ L = Len(calls)
    OBVIOUS
  <1>6. BlocksOn("heap")' = H \cup {L + 1} /\ BlocksOn("stack")' = Q
    BY <1>2, <1>3, <1>a, <1>5, TemporaryPushed, "stack" # "heap"
  <1>7. /\ IsFiniteSet(H) /\ L \in Nat /\ Q \subseteq 1 .. L /\ H \subseteq 1 .. L
        /\ L + 1 \notin H
    BY <1>3, <1>5, BlocksAreFinite
  <1>8. heap = {calls[c].address : c \in H} /\ Cardinality(heap) = Cardinality(H)
    BY <1>5 DEF BlocksInv
  <1>9. /\ Cardinality(H \cup {L + 1}) = Cardinality(H) + 1
        /\ Cardinality(heap') = Cardinality(heap) + 1 /\ IsFiniteSet(heap')
    BY <1>7, FS_AddElement DEF MemoryTypeOK
  <1>10. \A c \in Q \cup H : calls'[c] = calls[c]
    BY <1>4, <1>5 DEF BlocksOn
  <1>11. calls'[L + 1].address = a
    BY <1>2, <1>4, <1>5
  <1>12. heap' = {calls'[c].address : c \in H \cup {L + 1}}
    BY <1>8, <1>10, <1>11
  <1>13. HeapAddressesDiffer'
    <2>1. \A c, d \in H : calls[c].address = calls[d].address => c = d
      BY <1>5 DEF HeapAddressesDiffer, BlocksInv
    <2>2. \A c, d \in H : calls'[c].address = calls'[d].address => c = d
      BY <2>1, <1>10
    <2>3. \A c \in H : calls'[c].address # calls'[L + 1].address
      BY <1>8, <1>10, <1>11
    <2> QED BY <1>6, <2>2, <2>3 DEF HeapAddressesDiffer
  <1>14. /\ Cardinality(Q) = Len(stack')
         /\ \A c \in Q : calls'[c].address = Cardinality({d \in Q : d <= c})
    BY <1>5, <1>10 DEF BlocksInv
  <1>15. BlocksFit'
    BY DEF BlocksInv, BlocksFit
  <1>16. BlocksInv'
    BY <1>6, <1>8, <1>9, <1>12, <1>13, <1>14, <1>15 DEF BlocksInv
  <1> QED BY <1>4, <1>9, <1>16

LEMMA IntervalMembers ==
  ASSUME NEW m \in Nat, NEW S \in SUBSET (1 .. m)
  PROVE  \A d \in S : d \in Int /\ d <= m
  OBVIOUS

LEMMA TemporaryPopped ==
  ASSUME MemoryTypeOK, BlocksInv, InTemporary, Deallocate(Innermost), calls' = Outer
  PROVE  BlocksInv' /\ stack' \in Seq(StackBlock) /\ IsFiniteSet(heap') /\ heap' \subseteq HeapAddresses
  <1>1. calls \in Seq(AnyCall) /\ calls # <<>>
    BY DEF MemoryTypeOK, InTemporary
  <1>2. PICK Q, H, L, K : /\ Q = BlocksOn("stack") /\ H = BlocksOn("heap")
                          /\ L = Len(calls) /\ K = calls[Len(calls)]
    OBVIOUS
  <1>3. /\ L \in Nat \ {0} /\ L \in DOMAIN calls /\ K = Innermost /\ K \in AnyCall
        /\ \A c \in DOMAIN calls' : calls'[c] = calls[c]
    BY <1>1, <1>2, CallsPopped DEF Innermost
  <1>4. K.kind = "temporary" /\ K \in TemporaryCall
    BY <1>3 DEF InTemporary, AnyCall, ArrayCall
  <1>5. /\ BlocksOn("stack")' = Q \ {L} /\ BlocksOn("heap")' = H \ {L}
        /\ DOMAIN calls' = DOMAIN calls \ {L}
    BY <1>1, <1>2, Popped
  <1>6. /\ IsFiniteSet(Q) /\ Q \subseteq 1 .. L
        /\ IsFiniteSet(H) /\ H \subseteq 1 .. L
    BY <1>1, <1>2, BlocksAreFinite
  <1>7. \A c \in (Q \cup H) \ {L} : calls'[c] = calls[c]
    BY <1>2, <1>3, <1>5 DEF BlocksOn
  <1>0. \A d \in Q : d \in Int /\ d <= L
    <2>1. L \in Nat /\ Q \in SUBSET (1 .. L)
      BY <1>3, <1>6
    <2> QED BY <2>1, IntervalMembers
  <1>8. ASSUME NEW c \in Q \ {L} PROVE {d \in Q \ {L} : d <= c} = {d \in Q : d <= c}
    <2>1. ~(L <= c)
      BY <1>0, <1>3
    <2> QED BY <2>1
  <1>9. /\ Cardinality(Q) = Len(stack)
        /\ \A c \in Q : calls[c].address = Cardinality({d \in Q : d <= c})
        /\ heap = {calls[c].address : c \in H}
        /\ Cardinality(heap) = Cardinality(H)
        /\ BlocksFit
    BY <1>2 DEF BlocksInv
  <1>10. \A c, d \in H : calls[c].address = calls[d].address => c = d
    BY <1>2 DEF BlocksInv, HeapAddressesDiffer
  <1>11. HeapAddressesDiffer'
    <2>1. \A c, d \in H \ {L} : calls'[c].address = calls'[d].address => c = d
      BY <1>7, <1>10
    <2> QED BY <1>5, <2>1 DEF HeapAddressesDiffer
  <1>12. \A c \in Q \ {L} : calls'[c].address = Cardinality({d \in Q \ {L} : d <= c})
    BY <1>7, <1>8, <1>9
  <1>13. stack \in Seq(StackBlock) /\ heap \subseteq HeapAddresses /\ IsFiniteSet(heap)
    BY DEF MemoryTypeOK
  <1>14. CASE K.on = "stack"
    <2>1. L \in Q /\ L \notin H
      BY <1>2, <1>3, <1>4, <1>14 DEF BlocksOn
    <2>2. {d \in Q : d <= L} = Q
      BY <1>0
    <2>3. PICK N \in Nat : N + 1 = Len(stack) /\ N = Cardinality(Q \ {L})
      <3>1. Cardinality(Q \ {L}) = Cardinality(Q) - 1 /\ IsFiniteSet(Q \ {L})
        BY <1>6, <2>1, FS_RemoveElement
      <3>2. Cardinality(Q \ {L}) \in Nat /\ Cardinality(Q) \in Nat
        BY <1>6, <3>1, FS_CardinalityType
      <3> QED BY <1>9, <3>1, <3>2
    <2>4. K.address = N + 1
      BY <1>2, <1>9, <2>1, <2>2, <2>3
    <2>5. stack' = SubSeq(stack, 1, N + 1 - 1) /\ heap' = heap
      BY <1>3, <1>14, <2>4 DEF Deallocate
    <2>6. /\ stack' \in Seq(StackBlock) /\ Len(stack') = N
          /\ \A i \in 1 .. N : stack'[i] = stack[i]
      <3> HIDE DEF StackBlock
      <3>1. N + 1 - 1 = N /\ Len(stack) \in Nat /\ N <= Len(stack)
        BY <1>13, <2>3, LenProperties
      <3>2. stack' = SubSeq(stack, 1, N)
        BY <2>5, <3>1
      <3>4. /\ SubSeq(stack, 1, N) \in Seq(StackBlock) /\ Len(SubSeq(stack, 1, N)) = N
            /\ \A i \in 1 .. N : SubSeq(stack, 1, N)[i] = stack[i]
        BY <1>13, <3>1, PrefixFacts
      <3> QED BY <3>2, <3>4
    <2>7. /\ DOMAIN stack' = 1 .. N /\ 1 .. N \subseteq DOMAIN stack
      <3> HIDE DEF StackBlock
      <3>1. DOMAIN stack' = 1 .. N /\ DOMAIN stack = 1 .. Len(stack)
        BY <1>13, <2>6, LenProperties
      <3> QED BY <2>3, <3>1
    <2>8. BlocksFit'
      BY <1>9, <2>6, <2>7 DEF BlocksFit
    <2>9. Cardinality(Q \ {L}) = Len(stack') /\ H \ {L} = H
      BY <2>1, <2>3, <2>6
    <2>10. heap' = {calls'[c].address : c \in H} /\ Cardinality(heap') = Cardinality(H)
      BY <1>7, <1>9, <2>1, <2>5
    <2>11. BlocksInv'
      BY <1>5, <1>11, <1>12, <2>8, <2>9, <2>10 DEF BlocksInv
    <2> QED BY <1>13, <2>5, <2>6, <2>11
  <1>15. CASE K.on = "heap"
    <2>1. L \in H /\ L \notin Q
      BY <1>2, <1>3, <1>4, <1>15 DEF BlocksOn
    <2>2. heap' = heap \ {K.address} /\ stack' = stack
      BY <1>3, <1>15, "heap" # "stack" DEF Deallocate
    <2>3. K.address \in heap /\ \A c \in H \ {L} : calls[c].address # K.address
      BY <1>2, <1>9, <1>10, <2>1
    <2>4. heap' = {calls'[c].address : c \in H \ {L}}
      BY <1>7, <1>9, <1>2, <2>1, <2>2, <2>3
    <2>5. /\ Cardinality(heap') = Cardinality(heap) - 1 /\ IsFiniteSet(heap')
          /\ Cardinality(H \ {L}) = Cardinality(H) - 1
      BY <1>6, <1>13, <2>1, <2>2, <2>3, FS_RemoveElement
    <2>6. Q \ {L} = Q
      BY <2>1
    <2>7. BlocksFit'
      BY <1>9, <2>2 DEF BlocksFit
    <2>8. BlocksInv'
      BY <1>5, <1>9, <1>11, <1>12, <2>2, <2>4, <2>5, <2>6, <2>7 DEF BlocksInv
    <2> QED BY <1>13, <2>2, <2>5, <2>8
  <1> QED BY <1>4, <1>14, <1>15 DEF TemporaryCall

LEMMA NoSlots ==
  <<>> \in Seq(Elements) /\ Elems(<<>>) = {} /\ Injective(<<>>)
  <1>1. DOMAIN <<>> = {}
    OBVIOUS
  <1> QED BY <1>1, EmptySeq DEF Elems, Injective

LEMMA OneSlot ==
  ASSUME NEW e \in Elements
  PROVE  <<e>> \in Seq(Elements) /\ Len(<<e>>) = 1 /\ Elems(<<e>>) = {e} /\ Injective(<<e>>)
  <1>1. DOMAIN <<e>> = {1} /\ <<e>>[1] = e
    OBVIOUS
  <1> QED BY <1>1 DEF Elems, Injective

LEMMA SlotAppended ==
  ASSUME NEW s \in Seq(Elements), NEW e \in Elements
  PROVE  /\ Append(s, e) \in Seq(Elements)
         /\ Elems(Append(s, e)) = Elems(s) \cup {e}
         /\ Injective(s) /\ e \notin Elems(s) => Injective(Append(s, e))
  <1> HIDE DEF Elements
  <1>1. /\ Append(s, e) \in Seq(Elements) /\ Len(s) \in Nat
        /\ \A i \in 1 .. Len(s) : Append(s, e)[i] = s[i]
        /\ Append(s, e)[Len(s) + 1] = e
        /\ DOMAIN s = 1 .. Len(s) /\ Len(Append(s, e)) = Len(s) + 1
    BY AppendProperties, LenProperties
  <1>2. DOMAIN Append(s, e) = 1 .. Len(s) + 1
    BY <1>1, LenProperties
  <1>3. DOMAIN Append(s, e) = DOMAIN s \cup {Len(s) + 1} /\ Len(s) + 1 \notin DOMAIN s
    BY <1>1, <1>2
  <1>4. PICK t, d, k : t = Append(s, e) /\ d = DOMAIN s /\ k = Len(s) + 1
    OBVIOUS
  <1>5. DOMAIN t = d \cup {k} /\ k \notin d /\ t[k] = e /\ \A i \in d : t[i] = s[i]
    BY <1>1, <1>3, <1>4
  <1>6. Elems(t) = Elems(s) \cup {e}
    BY <1>4, <1>5 DEF Elems
  <1>7. Injective(s) /\ e \notin Elems(s) => Injective(t)
    BY <1>4, <1>5 DEF Elems, Injective
  <1> QED BY <1>1, <1>4, <1>6, <1>7

LEMMA PlacesKept ==
  ASSUME PlacesInv, ArrayCalls' = ArrayCalls, \A c \in ArrayCalls : calls'[c] = calls[c],
         UNCHANGED <<made, destroyed, owned>>
  PROVE  PlacesInv'
  <1>1. Held' = Held
    BY DEF Held
  <1>2. Apart(ArrayCalls, Held, made, destroyed, owned)'
    BY <1>1 DEF PlacesInv
  <1> QED BY <1>2 DEF PlacesInv

(* What the steps do to the places. *)
LEMMA ApartGrows ==
  ASSUME NEW cs, NEW held, NEW m \in Nat, NEW gone, NEW kept,
         Apart(cs, held, m, gone, kept)
  PROVE  \A e \in Elements : e <= m + 1 <=> e <= m \/ e = m + 1
  BY DEF Elements

LEMMA ApartWhenPushed ==
  ASSUME NEW cs, NEW held, NEW m, NEW gone, NEW kept,
         Apart(cs, held, m, gone, kept),
         NEW k, k \notin cs, NEW h, h = [c \in cs \cup {k} |-> IF c = k THEN {} ELSE held[c]]
  PROVE  Apart(cs \cup {k}, h, m, gone, kept)
  BY DEF Apart

(* The next element goes to the call k ... *)
LEMMA ApartWhenHeld ==
  ASSUME NEW cs, NEW held, NEW m \in Nat, m < MaxElements, NEW gone, NEW kept,
         Apart(cs, held, m, gone, kept),
         NEW k \in cs, NEW h, h = [c \in cs |-> IF c = k THEN held[c] \cup {m + 1} ELSE held[c]]
  PROVE  Apart(cs, h, m + 1, gone, kept)
  <1>1. PICK new \in Elements : new = m + 1
    BY ScopedMemoryAssumption DEF Elements
  <1>2. ~(new <= m) /\ \A e \in Elements : e <= new <=> e <= m \/ e = new
    BY <1>1 DEF Elements
  <1>3. \A c \in cs : \A e \in h[c] : e \in held[c] \/ (c = k /\ e = new)
    <2>1. h[k] = held[k] \cup {new} /\ \A c \in cs : c # k => h[c] = held[c]
      BY <1>1
    <2> QED BY <2>1
  <1>4. \A c \in cs : new \notin held[c]
    BY <1>2 DEF Apart
  <1>5. new \notin kept /\ gone[new] = 0
    BY <1>2 DEF Apart
  <1>6. \A c, d \in cs : \A e \in h[c] : e \in h[d] => c = d
    BY <1>3, <1>4 DEF Apart
  <1>7. \A c \in cs : \A e \in h[c] : e \in Elements /\ e <= new /\ gone[e] = 0 /\ e \notin kept
    BY <1>2, <1>3, <1>5 DEF Apart
  <1>8. \A e \in Elements :
       /\ gone[e] \in {0, 1}
       /\ e \in kept \/ gone[e] = 1 => e <= new
       /\ e \in kept => gone[e] = 0
       /\ e <= new => e \in kept \/ gone[e] = 1 \/ \E c \in cs : e \in h[c]
    BY <1>1, <1>2 DEF Apart
  <1> QED BY <1>1, <1>6, <1>7, <1>8 DEF Apart

(* ... is destroyed ... *)
LEMMA ApartWhenDestroyed ==
  ASSUME NEW cs, NEW held, NEW m \in Nat, m < MaxElements, NEW gone \in [Elements -> Nat], NEW kept,
         Apart(cs, held, m, gone, kept),
         NEW g, g = [gone EXCEPT ![m + 1] = @ + 1]
  PROVE  Apart(cs, held, m + 1, g, kept)
  <1>1. PICK new \in Elements : new = m + 1
    BY ScopedMemoryAssumption DEF Elements
  <1>2. ~(new <= m) /\ \A e \in Elements : e <= new <=> e <= m \/ e = new
    BY <1>1 DEF Elements
  <1>3. gone[new] = 0 /\ new \notin kept /\ \A c \in cs : new \notin held[c]
    BY <1>2 DEF Apart
  <1>4. g[new] = 1 /\ \A e \in Elements : e # new => g[e] = gone[e]
    BY <1>1, <1>3
  <1>5. \A c \in cs : \A e \in held[c] : e \in Elements /\ e <= new /\ g[e] = 0 /\ e \notin kept
    <2> SUFFICES ASSUME NEW c \in cs, NEW e \in held[c]
                 PROVE  e \in Elements /\ e <= new /\ g[e] = 0 /\ e \notin kept
      OBVIOUS
    <2>1. e \in Elements /\ e <= m /\ gone[e] = 0 /\ e \notin kept
      BY DEF Apart
    <2> QED BY <1>2, <1>3, <1>4, <2>1
  <1>6. \A e \in Elements :
       /\ g[e] \in {0, 1}
       /\ e \in kept \/ g[e] = 1 => e <= new
       /\ e \in kept => g[e] = 0
       /\ e <= new => e \in kept \/ g[e] = 1 \/ \E c \in cs : e \in held[c]
    <2> SUFFICES ASSUME NEW e \in Elements
                 PROVE  /\ g[e] \in {0, 1}
                        /\ e \in kept \/ g[e] = 1 => e <= new
                        /\ e \in kept => g[e] = 0
                        /\ e <= new => e \in kept \/ g[e] = 1 \/ \E c \in cs : e \in held[c]
      OBVIOUS
    <2>1. /\ gone[e] \in {0, 1}
          /\ e \in kept \/ gone[e] = 1 => e <= m
          /\ e \in kept => gone[e] = 0
          /\ e <= m => e \in kept \/ gone[e] = 1 \/ \E c \in cs : e \in held[c]
      BY DEF Apart
    <2> QED BY <1>2, <1>3, <1>4, <2>1
  <1>7. \A c, d \in cs : \A e \in held[c] : e \in held[d] => c = d
    BY DEF Apart
  <1> QED BY <1>1, <1>5, <1>6, <1>7 DEF Apart

(* ... or is returned. *)
LEMMA ApartWhenReturned ==
  ASSUME NEW cs, NEW held, NEW m \in Nat, m < MaxElements, NEW gone, NEW kept,
         Apart(cs, held, m, gone, kept)
  PROVE  Apart(cs, held, m + 1, gone, kept \cup {m + 1})
  <1>1. PICK new \in Elements : new = m + 1
    BY ScopedMemoryAssumption DEF Elements
  <1>2. ~(new <= m) /\ \A e \in Elements : e <= new <=> e <= m \/ e = new
    BY <1>1 DEF Elements
  <1>3. gone[new] = 0 /\ new \notin kept /\ \A c \in cs : new \notin held[c]
    BY <1>2 DEF Apart
  <1>4. PICK k : k = kept \cup {new}
    OBVIOUS
  <1>5. \A c \in cs : \A e \in held[c] : e \in Elements /\ e <= new /\ gone[e] = 0 /\ e \notin k
    <2> SUFFICES ASSUME NEW c \in cs, NEW e \in held[c]
                 PROVE  e \in Elements /\ e <= new /\ gone[e] = 0 /\ e \notin k
      OBVIOUS
    <2>1. e \in Elements /\ e <= m /\ gone[e] = 0 /\ e \notin kept
      BY DEF Apart
    <2> QED BY <1>2, <1>3, <1>4, <2>1
  <1>6. \A e \in Elements :
       /\ gone[e] \in {0, 1}
       /\ e \in k \/ gone[e] = 1 => e <= new
       /\ e \in k => gone[e] = 0
       /\ e <= new => e \in k \/ gone[e] = 1 \/ \E c \in cs : e \in held[c]
    <2> SUFFICES ASSUME NEW e \in Elements
                 PROVE  /\ gone[e] \in {0, 1}
                        /\ e \in k \/ gone[e] = 1 => e <= new
                        /\ e \in k => gone[e] = 0
                        /\ e <= new => e \in k \/ gone[e] = 1 \/ \E c \in cs : e \in held[c]
      OBVIOUS
    <2>1. /\ gone[e] \in {0, 1}
          /\ e \in kept \/ gone[e] = 1 => e <= m
          /\ e \in kept => gone[e] = 0
          /\ e <= m => e \in kept \/ gone[e] = 1 \/ \E c \in cs : e \in held[c]
      BY DEF Apart
    <2> QED BY <1>2, <1>3, <1>4, <2>1
  <1>7. \A c, d \in cs : \A e \in held[c] : e \in held[d] => c = d
    BY DEF Apart
  <1> QED BY <1>1, <1>4, <1>5, <1>6, <1>7 DEF Apart

(* A call is left: its elements are returned ... *)
LEMMA ApartWhenPopped ==
  ASSUME NEW cs, NEW held, NEW m, NEW gone, NEW kept,
         Apart(cs, held, m, gone, kept),
         NEW k \in cs, NEW h, h = [c \in cs \ {k} |-> held[c]]
  PROVE  Apart(cs \ {k}, h, m, gone, kept \cup held[k])
  BY DEF Apart

(* ... or all destroyed. *)
LEMMA ApartWhenThrown ==
  ASSUME NEW cs, NEW held, NEW m, NEW gone, NEW kept,
         Apart(cs, held, m, gone, kept), NEW k \in cs,
         NEW h, \A c \in cs \ {k} : h[c] = held[c],
         NEW g, \A e \in Elements : g[e] = gone[e] + IF e \in held[k] THEN 1 ELSE 0
  PROVE  Apart(cs \ {k}, h, m, g, kept)
  <1>1. \A e \in Elements : g[e] = IF e \in held[k] THEN 1 ELSE gone[e]
    BY DEF Apart
  <1> QED BY <1>1 DEF Apart

-----------------------------------------------------------------------------
(* The steps on PlacesInv. *)
LEMMA ArrayBegun ==
  ASSUME MemoryTypeOK, PlacesInv, NEW count \in Nat,
         calls' = Append(calls, [kind |-> "array", count |-> count, slots |-> <<>>]),
         UNCHANGED <<made, destroyed, owned>>
  PROVE  PlacesInv' /\ calls' \in Seq(AnyCall)
  <1>1. PICK x \in ArrayCall : x = [kind |-> "array", count |-> count, slots |-> <<>>]
    BY NoSlots DEF ArrayCall
  <1>2. calls \in Seq(AnyCall) /\ x \in AnyCall /\ x.slots = <<>>
    BY <1>1 DEF MemoryTypeOK, AnyCall
  <1>3. PICK A, k : A = ArrayCalls /\ k = Len(calls) + 1
    OBVIOUS
  <1>4. /\ ArrayCalls' = A \cup {k} /\ k \notin A /\ calls'[k].slots = <<>>
        /\ \A c \in A : calls'[c] = calls[c]
    BY <1>1, <1>2, <1>3, ArrayPushed DEF ArrayCalls
  <1>5. calls' \in Seq(AnyCall)
    BY <1>1, <1>2, CallsPushed
  <1>6. Held' = [c \in A \cup {k} |-> IF c = k THEN {} ELSE Held[c]]
    BY <1>3, <1>4, NoSlots DEF Held
  <1>7. Apart(ArrayCalls', Held', made', destroyed', owned')
    BY <1>3, <1>4, <1>6, ApartWhenPushed DEF PlacesInv
  <1>8. \A c \in ArrayCalls' : Injective(calls'[c].slots)
    BY <1>3, <1>4, NoSlots DEF PlacesInv
  <1> QED BY <1>5, <1>7, <1>8 DEF PlacesInv

LEMMA ArrayBegunFirst ==
  ASSUME MemoryTypeOK, PlacesInv, NEW count \in Nat, made < MaxElements,
         calls' = Append(calls, [kind |-> "array", count |-> count, slots |-> <<made + 1>>]),
         made' = made + 1, UNCHANGED <<destroyed, owned>>
  PROVE  PlacesInv' /\ calls' \in Seq(AnyCall)
  <1>1. made + 1 \in Elements /\ made \in Nat
    BY ScopedMemoryAssumption DEF MemoryTypeOK, Elements
  <1>a. PICK s \in Seq(Elements) : s = <<made + 1>> /\ Elems(s) = {made + 1} /\ Injective(s)
    BY <1>1, OneSlot
  <1>b. PICK x \in ArrayCall : x = [kind |-> "array", count |-> count, slots |-> s]
    BY DEF ArrayCall
  <1>2. calls \in Seq(AnyCall) /\ x \in AnyCall /\ x.slots = s /\ calls' = Append(calls, x)
    BY <1>a, <1>b DEF MemoryTypeOK, AnyCall
  <1>3. PICK A, k, m : A = ArrayCalls /\ k = Len(calls) + 1 /\ m = made
    OBVIOUS
  <1>4. /\ ArrayCalls' = A \cup {k} /\ k \notin A /\ calls'[k].slots = s
        /\ \A c \in A : calls'[c] = calls[c]
    BY <1>b, <1>2, <1>3, ArrayPushed DEF ArrayCalls
  <1>5. calls' \in Seq(AnyCall)
    BY <1>2, CallsPushed
  <1>6. PICK h : h = [c \in A \cup {k} |-> IF c = k THEN {} ELSE Held[c]]
    OBVIOUS
  <1>7. Apart(A \cup {k}, h, m, destroyed, owned)
    BY <1>3, <1>4, <1>6, ApartWhenPushed DEF PlacesInv
  <1>8. Held' = [c \in A \cup {k} |-> IF c = k THEN h[c] \cup {m + 1} ELSE h[c]]
    BY <1>3, <1>4, <1>6, <1>a DEF Held
  <1>9. Apart(A \cup {k}, Held', m + 1, destroyed, owned)
    BY <1>1, <1>3, <1>7, <1>8, ApartWhenHeld, SMTT(60)
  <1>10. \A c \in A \cup {k} : Injective(calls'[c].slots)
    BY <1>3, <1>4, <1>a DEF PlacesInv
  <1> QED BY <1>3, <1>4, <1>5, <1>9, <1>10 DEF PlacesInv

LEMMA HeldSlots ==
  ASSUME MemoryTypeOK, InArray
  PROVE  /\ Len(calls) \in ArrayCalls /\ Innermost \in ArrayCall
         /\ Innermost.slots \in Seq(Elements) /\ Innermost.count \in Nat
         /\ Held[Len(calls)] = Elems(Innermost.slots)
  <1>1. calls \in Seq(AnyCall) /\ calls # <<>> /\ Innermost.kind = "array"
    BY DEF MemoryTypeOK, InArray
  <1>2. Innermost \in AnyCall /\ Len(calls) \in DOMAIN calls
    BY <1>1, CallsPopped
  <1>3. Innermost \in ArrayCall
    BY <1>1, <1>2 DEF AnyCall, TemporaryCall
  <1>4. Len(calls) \in ArrayCalls
    BY <1>1, <1>2 DEF Innermost, ArrayCalls
  <1>5. Held[Len(calls)] = Elems(Innermost.slots)
    BY <1>4 DEF Held, Innermost
  <1> QED BY <1>3, <1>4, <1>5 DEF ArrayCall

LEMMA SlotInitialized ==
  ASSUME MemoryTypeOK, PlacesInv, InArray, made < MaxElements,
         calls' = Append(Outer, [kind |-> "array", count |-> Innermost.count,
                                 slots |-> Append(Innermost.slots, made + 1)]),
         made' = made + 1, UNCHANGED <<destroyed, owned>>
  PROVE  /\ PlacesInv' /\ calls' \in Seq(AnyCall)
         /\ \A where : BlocksOn(where)' = BlocksOn(where)
         /\ \A c \in DOMAIN calls : c # Len(calls) => calls'[c] = calls[c]
  <1>1. made + 1 \in Elements /\ made \in Nat
    BY ScopedMemoryAssumption DEF MemoryTypeOK, Elements
  <1>2. PICK A, k, m, s : /\ A = ArrayCalls /\ k = Len(calls) /\ m = made
                          /\ s = Innermost.slots
    OBVIOUS
  <1>3. k \in A /\ s \in Seq(Elements) /\ Held[k] = Elems(s) /\ Innermost.count \in Nat
    BY <1>2, HeldSlots
  <1>4. Injective(s)
    BY <1>2, <1>3 DEF PlacesInv, Innermost
  <1>5. m + 1 \notin Elems(s)
    BY <1>1, <1>2, <1>3 DEF PlacesInv, Apart
  <1>6. PICK t \in Seq(Elements) : t = Append(s, m + 1) /\ Elems(t) = Elems(s) \cup {m + 1} /\ Injective(t)
    BY <1>1, <1>2, <1>3, <1>4, <1>5, SlotAppended
  <1>7. PICK x \in ArrayCall : x = [kind |-> "array", count |-> Innermost.count, slots |-> t]
    BY <1>3 DEF ArrayCall
  <1>8. calls' = Append(Outer, x) /\ x.slots = t
    BY <1>2, <1>6, <1>7
  <1>9. calls \in Seq(AnyCall) /\ calls # <<>> /\ Innermost.kind = "array"
    BY DEF MemoryTypeOK, InArray
  <1>10. /\ calls' \in Seq(AnyCall)
         /\ ArrayCalls' = A
         /\ \A where : BlocksOn(where)' = BlocksOn(where)
         /\ \A c \in DOMAIN calls : c # k => calls'[c] = calls[c]
         /\ calls'[k] = x
    BY <1>2, <1>8, <1>9, ArrayReplaced
  <1>11. \A c \in A : c # k => calls'[c] = calls[c]
    BY <1>2, <1>10 DEF ArrayCalls
  <1>12. Held' = [c \in A |-> IF c = k THEN Held[c] \cup {m + 1} ELSE Held[c]]
    BY <1>2, <1>3, <1>6, <1>8, <1>10, <1>11 DEF Held
  <1>13. Apart(A, Held', m + 1, destroyed, owned)
    BY <1>1, <1>2, <1>3, <1>12, ApartWhenHeld DEF PlacesInv
  <1>14. \A c \in A : Injective(calls'[c].slots)
    BY <1>2, <1>6, <1>8, <1>10, <1>11 DEF PlacesInv
  <1> QED BY <1>2, <1>10, <1>13, <1>14 DEF PlacesInv

LEMMA ArrayPopped ==
  ASSUME MemoryTypeOK, PlacesInv, InArray, calls' = Outer
  PROVE  /\ \A where : BlocksOn(where)' = BlocksOn(where)
         /\ \A where : \A c \in BlocksOn(where) : calls'[c] = calls[c]
         /\ \A c \in ArrayCalls' : Injective(calls'[c].slots)
         /\ ArrayCalls' = ArrayCalls \ {Len(calls)}
         /\ Held' = [c \in ArrayCalls \ {Len(calls)} |-> Held[c]]
         /\ calls' \in Seq(AnyCall)
  <1>1. calls \in Seq(AnyCall) /\ calls # <<>> /\ Innermost.kind = "array" /\ "array" # "temporary"
    BY DEF MemoryTypeOK, InArray
  <1>2. PICK k : k = Len(calls)
    OBVIOUS
  <1>3. /\ ArrayCalls' = ArrayCalls \ {k}
        /\ \A where : BlocksOn(where)' = BlocksOn(where) \ {k}
        /\ \A c \in DOMAIN calls' : calls'[c] = calls[c]
        /\ DOMAIN calls' = DOMAIN calls \ {k}
    BY <1>1, <1>2, Popped
  <1>4. \A where : k \notin BlocksOn(where)
    BY <1>1, <1>2 DEF BlocksOn, Innermost
  <1>5. \A where : BlocksOn(where)' = BlocksOn(where) /\ BlocksOn(where) \subseteq DOMAIN calls'
    BY <1>3, <1>4 DEF BlocksOn
  <1>6. \A c \in ArrayCalls \ {k} : calls'[c] = calls[c]
    BY <1>3 DEF ArrayCalls
  <1>7. Held' = [c \in ArrayCalls \ {k} |-> Held[c]]
    BY <1>3, <1>6 DEF Held
  <1>8. \A c \in ArrayCalls' : Injective(calls'[c].slots)
    BY <1>3, <1>6 DEF PlacesInv
  <1>9. calls' \in Seq(AnyCall)
    BY <1>1, CallsPopped
  <1>10. \A where : \A c \in BlocksOn(where) : calls'[c] = calls[c]
    BY <1>3, <1>5
  <1> QED BY <1>2, <1>3, <1>5, <1>7, <1>8, <1>9, <1>10

LEMMA OnlyBlocks ==
  ASSUME MemoryInv, NEW x \in TemporaryCall, calls' = Append(calls, x),
         UNCHANGED <<made, destroyed, owned>>
  PROVE  PlacesInv'
  <1>1. ArrayCalls' = ArrayCalls /\ \A c \in ArrayCalls : calls'[c] = calls[c]
    BY TemporaryPushed DEF MemoryInv, MemoryTypeOK
  <1> QED BY <1>1, PlacesKept DEF MemoryInv

LEMMA StackStep ==
  ASSUME MemoryInv,
         NEW capacity \in Capacities, NEW stride \in ElementStrides, NEW alignment, NEW computed,
         TemporaryOnStack(capacity, stride, alignment, computed)
  PROVE  MemoryInv'
  <1>1. capacity \in Int /\ stride \in Nat
    BY ScopedMemoryAssumption
  <1>2. PICK b \in StackBlock : b = [capacity |-> capacity, stride |-> stride]
    BY <1>1 DEF StackBlock
  <1>3. SizeIsRepresentable(b) => b.capacity * b.stride <= StackLimit
    BY <1>2, StackBlockFits DEF TemporaryOnStack, SizeIsRepresentable
  <1>4. MemoryTypeOK /\ BlocksInv
    BY DEF MemoryInv
  <1>5. BlocksInv' /\ stack' \in Seq(StackBlock) /\ calls' \in Seq(AnyCall)
    BY <1>2, <1>3, <1>4, StackBlockPushed DEF TemporaryOnStack
  <1>6. Len(stack) \in Nat
    <2> HIDE DEF StackBlock
    <2> QED BY <1>4, LenProperties DEF MemoryTypeOK
  <1>7. [kind |-> "temporary", on |-> "stack", address |-> Len(stack) + 1] \in TemporaryCall
    BY <1>6 DEF TemporaryCall
  <1>8. PlacesInv'
    BY <1>7, OnlyBlocks DEF TemporaryOnStack
  <1>9. MemoryTypeOK'
    BY <1>4, <1>5 DEF TemporaryOnStack, MemoryTypeOK
  <1> QED BY <1>5, <1>8, <1>9 DEF MemoryInv

LEMMA HeapStep ==
  ASSUME MemoryInv, NEW capacity, NEW stride, NEW alignment, NEW computed,
         TemporaryOnHeap(capacity, stride, alignment, computed)
  PROVE  MemoryInv'
  <1>1. PICK a \in HeapAddresses \ heap :
          /\ heap' = heap \cup {a}
          /\ calls' = Append(calls, [kind |-> "temporary", on |-> "heap", address |-> a])
    BY DEF TemporaryOnHeap
  <1>2. UNCHANGED <<stack, made, destroyed, owned, stopped>>
    BY DEF TemporaryOnHeap
  <1>3. MemoryTypeOK /\ BlocksInv
    BY DEF MemoryInv
  <1>4. BlocksInv' /\ IsFiniteSet(heap') /\ calls' \in Seq(AnyCall)
    BY <1>1, <1>2, <1>3, HeapBlockPushed
  <1>5. [kind |-> "temporary", on |-> "heap", address |-> a] \in TemporaryCall
    BY DEF TemporaryCall
  <1>6. PlacesInv'
    BY <1>1, <1>2, <1>5, OnlyBlocks
  <1>7. MemoryTypeOK'
    BY <1>1, <1>2, <1>3, <1>4 DEF MemoryTypeOK
  <1> QED BY <1>4, <1>6, <1>7 DEF MemoryInv

LEMMA LeaveStep ==
  ASSUME MemoryInv, TemporaryReturns \/ TemporaryThrows
  PROVE  MemoryInv'
  <1>1. /\ InTemporary /\ Deallocate(Innermost) /\ calls' = Outer
        /\ UNCHANGED <<made, destroyed, owned, stopped>>
    BY DEF TemporaryReturns, TemporaryThrows
  <1>2. MemoryTypeOK /\ BlocksInv
    BY DEF MemoryInv
  <1>3. BlocksInv' /\ stack' \in Seq(StackBlock) /\ IsFiniteSet(heap') /\ heap' \subseteq HeapAddresses
    BY <1>1, <1>2, TemporaryPopped
  <1>4. calls \in Seq(AnyCall) /\ calls # <<>> /\ calls[Len(calls)].kind = "temporary" /\ "temporary" # "array"
    BY <1>1, <1>2 DEF MemoryTypeOK, InTemporary, Innermost
  <1>5. /\ ArrayCalls' = ArrayCalls \ {Len(calls)}
        /\ \A c \in DOMAIN calls' : calls'[c] = calls[c]
        /\ DOMAIN calls' = DOMAIN calls \ {Len(calls)}
        /\ calls' \in Seq(AnyCall)
    BY <1>1, <1>4, Popped, CallsPopped
  <1>6. Len(calls) \notin ArrayCalls
    BY <1>4 DEF ArrayCalls
  <1>7. ArrayCalls' = ArrayCalls /\ \A c \in ArrayCalls : calls'[c] = calls[c]
    BY <1>5, <1>6 DEF ArrayCalls
  <1>8. PlacesInv'
    BY <1>1, <1>7, PlacesKept DEF MemoryInv
  <1>9. MemoryTypeOK'
    BY <1>1, <1>2, <1>3, <1>5 DEF MemoryTypeOK
  <1> QED BY <1>3, <1>8, <1>9 DEF MemoryInv

LEMMA NothingMoved ==
  ASSUME MemoryInv, UNCHANGED <<calls, stack, heap, made, destroyed, owned>>, stopped' \in BOOLEAN
  PROVE  MemoryInv'
  <1>1. ArrayCalls' = ArrayCalls /\ \A where : BlocksOn(where)' = BlocksOn(where)
    BY DEF ArrayCalls, BlocksOn
  <1>2. PlacesInv'
    BY <1>1, PlacesKept DEF MemoryInv
  <1>3. BlocksInv'
    BY <1>1, BlocksKept DEF MemoryInv
  <1>4. MemoryTypeOK'
    BY DEF MemoryInv, MemoryTypeOK
  <1> QED BY <1>2, <1>3, <1>4 DEF MemoryInv

(* A new array call leaves the blocks alone. *)
LEMMA BlocksBelow ==
  ASSUME calls \in Seq(AnyCall), NEW x \in ArrayCall, calls' = Append(calls, x)
  PROVE  /\ \A where : BlocksOn(where)' = BlocksOn(where)
         /\ \A where : \A c \in BlocksOn(where) : calls'[c] = calls[c]
  <1>1. /\ \A where : BlocksOn(where)' = BlocksOn(where)
        /\ \A c \in DOMAIN calls : calls'[c] = calls[c]
    BY ArrayPushed
  <1> QED BY <1>1 DEF BlocksOn

LEMMA InitArrayStep ==
  ASSUME MemoryInv, NEW count \in Counts, InitArray(count)
  PROVE  MemoryInv'
  <1>1. /\ Emplace(calls, count, <<>>) /\ UNCHANGED <<stack, heap, made, destroyed, stopped>>
        /\ count \in Nat
    BY ScopedMemoryAssumption DEF InitArray
  <1>2. MemoryTypeOK /\ PlacesInv /\ BlocksInv
    BY DEF MemoryInv
  <1>3. CASE Len(<<>>) = count
    <2>1. calls' = calls /\ owned' = owned
      BY <1>1, <1>3, NoSlots DEF Emplace
    <2>2. stopped' \in BOOLEAN
      BY <1>1, <1>2 DEF MemoryTypeOK
    <2> QED BY <1>1, <2>1, <2>2, NothingMoved
  <1>4. CASE Len(<<>>) # count
    <2>1. calls' = Append(calls, [kind |-> "array", count |-> count, slots |-> <<>>]) /\ owned' = owned
      BY <1>1, <1>4 DEF Emplace
    <2>2. PlacesInv' /\ calls' \in Seq(AnyCall)
      BY <1>1, <1>2, <2>1, ArrayBegun
    <2>3. [kind |-> "array", count |-> count, slots |-> <<>>] \in ArrayCall
      BY <1>1, NoSlots DEF ArrayCall
    <2>4. /\ \A where : BlocksOn(where)' = BlocksOn(where)
          /\ \A where : \A c \in BlocksOn(where) : calls'[c] = calls[c]
      BY <1>2, <2>1, <2>3, BlocksBelow DEF MemoryTypeOK
    <2>5. BlocksInv'
      BY <1>1, <1>2, <2>4, BlocksKept
    <2>6. MemoryTypeOK'
      BY <1>1, <1>2, <2>1, <2>2 DEF MemoryTypeOK
    <2> QED BY <2>2, <2>5, <2>6 DEF MemoryInv
  <1> QED BY <1>3, <1>4

LEMMA InitArrayFirstStep ==
  ASSUME MemoryInv, NEW count \in Counts, InitArrayFirst(count)
  PROVE  MemoryInv'
  <1>1. /\ made < MaxElements /\ made' = made + 1
        /\ UNCHANGED <<stack, heap, stopped>>
        /\ count \in Nat
        /\ IF count = 0
           THEN destroyed' = [destroyed EXCEPT ![made'] = @ + 1] /\ UNCHANGED <<calls, owned>>
           ELSE Emplace(calls, count, <<made'>>) /\ UNCHANGED destroyed
    BY ScopedMemoryAssumption DEF InitArrayFirst
  <1>2. MemoryTypeOK /\ PlacesInv /\ BlocksInv
    BY DEF MemoryInv
  <1>3. made \in Nat /\ MaxElements \in Nat /\ made + 1 \in Elements
    BY <1>1, <1>2, ScopedMemoryAssumption DEF MemoryTypeOK, Elements
  <1>4. PICK m \in Nat : m = made
    BY <1>3
  <1>5. Len(<<m + 1>>) = 1 /\ Elems(<<m + 1>>) = {m + 1} /\ <<m + 1>> \in Seq(Elements)
    BY <1>3, <1>4, OneSlot
  <1>6. CASE count = 0 \/ count = 1
    <2>1. calls' = calls
      BY <1>1, <1>5, <1>4, <1>6 DEF Emplace
    <2>2. /\ ArrayCalls' = ArrayCalls /\ Held' = Held /\ \A where : BlocksOn(where)' = BlocksOn(where)
      BY <2>1 DEF ArrayCalls, BlocksOn, Held
    <2>3. BlocksInv'
      BY <1>1, <1>2, <2>1, <2>2, BlocksKept
    <2>4. CASE count = 0
      <3>1. destroyed' = [destroyed EXCEPT ![m + 1] = @ + 1] /\ owned' = owned
        BY <1>1, <1>4, <2>4
      <3>2. destroyed' \in [Elements -> Nat]
        BY <1>2, <1>3, <1>4, <3>1 DEF MemoryTypeOK
      <3>3. Apart(ArrayCalls, Held, m + 1, destroyed', owned)
        BY <1>1, <1>2, <1>4, <3>1, ApartWhenDestroyed DEF PlacesInv, MemoryTypeOK
      <3>4. PlacesInv'
        BY <1>1, <1>2, <1>4, <2>1, <2>2, <3>1, <3>3 DEF PlacesInv
      <3>5. MemoryTypeOK'
        BY <1>1, <1>2, <1>3, <2>1, <3>1, <3>2 DEF MemoryTypeOK
      <3> QED BY <2>3, <3>4, <3>5 DEF MemoryInv
    <2>5. CASE count = 1
      <3>1. destroyed' = destroyed /\ owned' = owned \cup {m + 1}
        BY <1>1, <1>4, <1>5, <2>5 DEF Emplace
      <3>2. Apart(ArrayCalls, Held, m + 1, destroyed, owned \cup {m + 1})
        BY <1>1, <1>2, <1>4, ApartWhenReturned DEF PlacesInv
      <3>3. PlacesInv'
        BY <1>1, <1>2, <1>4, <2>1, <2>2, <3>1, <3>2 DEF PlacesInv
      <3>4. MemoryTypeOK'
        BY <1>1, <1>2, <1>3, <1>4, <2>1, <3>1 DEF MemoryTypeOK
      <3> QED BY <2>3, <3>3, <3>4 DEF MemoryInv
    <2> QED BY <1>6, <2>4, <2>5
  <1>7. CASE count # 0 /\ count # 1
    <2>1. /\ calls' = Append(calls, [kind |-> "array", count |-> count, slots |-> <<made + 1>>])
          /\ UNCHANGED <<destroyed, owned>>
      BY <1>1, <1>4, <1>5, <1>7 DEF Emplace
    <2>2. PlacesInv' /\ calls' \in Seq(AnyCall)
      BY <1>1, <1>2, <2>1, ArrayBegunFirst
    <2>3. [kind |-> "array", count |-> count, slots |-> <<made + 1>>] \in ArrayCall
      BY <1>1, <1>4, <1>5 DEF ArrayCall
    <2>4. /\ \A where : BlocksOn(where)' = BlocksOn(where)
          /\ \A where : \A c \in BlocksOn(where) : calls'[c] = calls[c]
      BY <1>2, <2>1, <2>3, BlocksBelow DEF MemoryTypeOK
    <2>5. BlocksInv'
      BY <1>1, <1>2, <2>4, BlocksKept
    <2>6. MemoryTypeOK'
      BY <1>1, <1>2, <1>3, <2>1, <2>2 DEF MemoryTypeOK
    <2> QED BY <2>2, <2>5, <2>6 DEF MemoryInv
  <1> QED BY <1>6, <1>7

LEMMA InitializeElementStep ==
  ASSUME MemoryInv, InitializeElement
  PROVE  MemoryInv'
  <1>1. /\ InArray /\ made < MaxElements /\ made' = made + 1
        /\ Emplace(Outer, Innermost.count, Append(Innermost.slots, made'))
        /\ UNCHANGED <<stack, heap, destroyed, stopped>>
    BY DEF InitializeElement
  <1>2. MemoryTypeOK /\ PlacesInv /\ BlocksInv
    BY DEF MemoryInv
  <1>3. made \in Nat /\ MaxElements \in Nat /\ made + 1 \in Elements
    BY <1>1, <1>2, ScopedMemoryAssumption DEF MemoryTypeOK, Elements
  <1>4. PICK A, k, m : A = ArrayCalls /\ k = Len(calls) /\ m = made
    OBVIOUS
  <1>5. /\ k \in A /\ Innermost.slots \in Seq(Elements) /\ Innermost.count \in Nat
        /\ Held[k] = Elems(Innermost.slots)
    BY <1>1, <1>2, <1>4, HeldSlots
  <1>6. CASE Len(Append(Innermost.slots, made + 1)) = Innermost.count
    <2>1. calls' = Outer /\ owned' = owned \cup Elems(Append(Innermost.slots, m + 1))
      BY <1>1, <1>4, <1>6 DEF Emplace
    <2>2. Elems(Append(Innermost.slots, m + 1)) = Held[k] \cup {m + 1}
      BY <1>3, <1>4, <1>5, SlotAppended
    <2>3. owned' = owned \cup (Held[k] \cup {m + 1})
      BY <2>1, <2>2
    <2>4. /\ \A where : BlocksOn(where)' = BlocksOn(where)
          /\ \A where : \A c \in BlocksOn(where) : calls'[c] = calls[c]
          /\ \A c \in ArrayCalls' : Injective(calls'[c].slots)
          /\ ArrayCalls' = A \ {k}
          /\ Held' = [c \in A \ {k} |-> Held[c]]
          /\ calls' \in Seq(AnyCall)
      BY <1>1, <1>2, <1>4, <2>1, ArrayPopped
    <2>5. Apart(A \ {k}, Held', m, destroyed, owned \cup Held[k])
      BY <1>2, <1>4, <1>5, <2>4, ApartWhenPopped DEF PlacesInv
    <2>6. Apart(A \ {k}, Held', m + 1, destroyed, (owned \cup Held[k]) \cup {m + 1})
      BY <1>1, <1>3, <1>4, <2>5, ApartWhenReturned
    <2>7. owned' = (owned \cup Held[k]) \cup {m + 1}
      BY <2>3
    <2>8. PlacesInv'
      BY <1>1, <1>4, <2>4, <2>6, <2>7 DEF PlacesInv
    <2>9. BlocksInv'
      BY <1>1, <1>2, <2>4, BlocksKept
    <2>10. Held[k] \subseteq Elements
      BY <1>2, <1>4, <1>5 DEF PlacesInv, Apart
    <2>11. MemoryTypeOK'
      BY <1>1, <1>2, <1>3, <1>4, <2>3, <2>4, <2>10 DEF MemoryTypeOK
    <2> QED BY <2>8, <2>9, <2>11 DEF MemoryInv
  <1>7. CASE Len(Append(Innermost.slots, made + 1)) # Innermost.count
    <2>1. /\ calls' = Append(Outer, [kind |-> "array", count |-> Innermost.count,
                                     slots |-> Append(Innermost.slots, made + 1)])
          /\ owned' = owned
      BY <1>1, <1>7 DEF Emplace
    <2>2. /\ PlacesInv' /\ calls' \in Seq(AnyCall)
          /\ \A where : BlocksOn(where)' = BlocksOn(where)
          /\ \A c \in DOMAIN calls : c # k => calls'[c] = calls[c]
      BY <1>1, <1>2, <1>4, <2>1, SlotInitialized
    <2>3. \A where : k \notin BlocksOn(where)
      BY <1>4, <1>5, "array" # "temporary" DEF ArrayCalls, BlocksOn
    <2>4. \A where : \A c \in BlocksOn(where) : calls'[c] = calls[c]
      BY <2>2, <2>3 DEF BlocksOn
    <2>5. BlocksInv'
      BY <1>1, <1>2, <2>2, <2>4, BlocksKept
    <2>6. MemoryTypeOK'
      BY <1>1, <1>2, <1>3, <2>1, <2>2 DEF MemoryTypeOK
    <2> QED BY <2>2, <2>5, <2>6 DEF MemoryInv
  <1> QED BY <1>6, <1>7

(* No element stands in two slots, so that each is destroyed once.         *)
LEMMA SlotsOf ==
  ASSUME NEW s \in Seq(Elements), Injective(s), NEW e
  PROVE  Cardinality({j \in DOMAIN s : s[j] = e}) = IF e \in Elems(s) THEN 1 ELSE 0
  <1>1. CASE e \in Elems(s)
    <2>1. PICK i \in DOMAIN s : s[i] = e
      BY <1>1 DEF Elems
    <2>2. {j \in DOMAIN s : s[j] = e} = {i}
      BY <2>1 DEF Injective
    <2> QED BY <1>1, <2>2, FS_Singleton
  <1>2. CASE e \notin Elems(s)
    <2>1. {j \in DOMAIN s : s[j] = e} = {}
      BY <1>2 DEF Elems
    <2> QED BY <1>2, <2>1, FS_EmptySet
  <1> QED BY <1>1, <1>2

LEMMA ArrayThrowsStep ==
  ASSUME MemoryInv, ArrayThrows
  PROVE  MemoryInv'
  <1>1. /\ InArray /\ calls' = Outer
        /\ UNCHANGED <<stack, heap, made, owned, stopped>>
        /\ destroyed' = [e \in Elements |->
             destroyed[e] + Cardinality({j \in DOMAIN Innermost.slots : Innermost.slots[j] = e})]
    BY DEF ArrayThrows
  <1>2. MemoryTypeOK /\ PlacesInv /\ BlocksInv
    BY DEF MemoryInv
  <1>3. PICK A, k, s : A = ArrayCalls /\ k = Len(calls) /\ s = Innermost.slots
    OBVIOUS
  <1>4. k \in A /\ s \in Seq(Elements) /\ Held[k] = Elems(s)
    BY <1>1, <1>2, <1>3, HeldSlots
  <1>5. Injective(s)
    BY <1>2, <1>3, <1>4 DEF PlacesInv, Innermost
  <1>6. \A e \in Elements : Cardinality({j \in DOMAIN s : s[j] = e}) = IF e \in Held[k] THEN 1 ELSE 0
    BY <1>4, <1>5, SlotsOf
  <1>7. destroyed' = [e \in Elements |-> destroyed[e] + IF e \in Held[k] THEN 1 ELSE 0]
    BY <1>1, <1>3, <1>6
  <1>8. /\ \A where : BlocksOn(where)' = BlocksOn(where)
        /\ \A where : \A c \in BlocksOn(where) : calls'[c] = calls[c]
        /\ \A c \in ArrayCalls' : Injective(calls'[c].slots)
        /\ ArrayCalls' = A \ {k}
        /\ Held' = [c \in A \ {k} |-> Held[c]]
        /\ calls' \in Seq(AnyCall)
    BY <1>1, <1>2, <1>3, ArrayPopped
  <1>9. Apart(A \ {k}, Held', made, destroyed', owned)
    <2>1. PICK held, h, g : held = Held /\ h = Held' /\ g = destroyed'
      OBVIOUS
    <2>2. \A c \in A \ {k} : h[c] = held[c]
      BY <1>8, <2>1
    <2>3. \A e \in Elements : g[e] = destroyed[e] + IF e \in held[k] THEN 1 ELSE 0
      BY <1>7, <2>1
    <2>4. Apart(A, held, made, destroyed, owned)
      BY <1>2, <1>3, <2>1 DEF PlacesInv
    <2>5. Apart(A \ {k}, h, made, g, owned)
      BY <1>4, <2>2, <2>3, <2>4, ApartWhenThrown
    <2> QED BY <2>1, <2>5
  <1>10. PlacesInv'
    BY <1>1, <1>8, <1>9 DEF PlacesInv
  <1>11. BlocksInv'
    BY <1>1, <1>2, <1>8, BlocksKept
  <1>12. destroyed' \in [Elements -> Nat]
    BY <1>2, <1>7 DEF MemoryTypeOK
  <1>13. MemoryTypeOK'
    BY <1>1, <1>2, <1>8, <1>12 DEF MemoryTypeOK
  <1> QED BY <1>10, <1>11, <1>13 DEF MemoryInv

LEMMA MaxElementsNat ==
  MaxElements \in Nat
  BY ScopedMemoryAssumption

LEMMA MemoryInitially ==
  MemoryInit => MemoryInv
  <1> SUFFICES ASSUME MemoryInit PROVE MemoryInv
    OBVIOUS
  <1>1. DOMAIN <<>> = {} /\ Len(<<>>) = 0
    OBVIOUS
  <1>2. ArrayCalls = {} /\ \A where : BlocksOn(where) = {}
    BY <1>1 DEF MemoryInit, ArrayCalls, BlocksOn
  <1>3. MemoryTypeOK
    <2>1. calls \in Seq(AnyCall) /\ stack \in Seq(StackBlock)
      BY EmptySeq DEF MemoryInit
    <2>2. destroyed \in [Elements -> Nat]
      BY DEF MemoryInit
    <2>a. stopped \in BOOLEAN
      BY Zenon DEF MemoryInit
    <2>3. made \in Nat /\ made <= MaxElements
      BY MaxElementsNat DEF MemoryInit
    <2>4. heap \subseteq HeapAddresses /\ IsFiniteSet(heap) /\ owned \subseteq Elements
      BY FS_EmptySet DEF MemoryInit
    <2> QED BY <2>1, <2>2, <2>a, <2>3, <2>4 DEF MemoryTypeOK
  <1>4. Apart(ArrayCalls, Held, made, destroyed, owned)
    <2>1. \A e \in Elements : e \in Nat /\ e > 0
      BY DEF Elements
    <2> QED BY <1>2, <2>1 DEF MemoryInit, Apart
  <1>5. PlacesInv
    BY <1>2, <1>4 DEF PlacesInv
  <1>6. BlocksInv
    BY <1>1, <1>2, FS_EmptySet DEF MemoryInit, HeapAddressesDiffer, BlocksFit, BlocksInv
  <1> QED BY <1>3, <1>5, <1>6 DEF MemoryInv

LEMMA MemoryPreserved ==
  ASSUME MemoryInv, [MemoryNext]_memory
  PROVE  MemoryInv'
  <1>1. ASSUME UNCHANGED memory PROVE MemoryInv'
    <2>1. stopped' \in BOOLEAN
      BY <1>1 DEF MemoryInv, MemoryTypeOK, memory
    <2> QED BY <1>1, <2>1, NothingMoved DEF memory
  <1>2. ASSUME NEW capacity \in Capacities, NEW stride \in ElementStrides, NEW alignment \in Alignments,
               NEW computed \in BOOLEAN,
               TemporaryRejected(capacity, stride, alignment, computed)
        PROVE  MemoryInv'
    BY <1>2, NothingMoved DEF TemporaryRejected, Stop
  <1>3. ASSUME NEW capacity \in Capacities, NEW stride \in ElementStrides, NEW alignment \in Alignments,
               NEW computed \in BOOLEAN,
               TemporaryOnStack(capacity, stride, alignment, computed)
        PROVE  MemoryInv'
    BY <1>3, StackStep
  <1>4. ASSUME NEW capacity \in Capacities, NEW stride \in ElementStrides, NEW alignment \in Alignments,
               NEW computed \in BOOLEAN,
               TemporaryOnHeap(capacity, stride, alignment, computed)
        PROVE  MemoryInv'
    BY <1>4, HeapStep
  <1>5. ASSUME NEW capacity \in Capacities, NEW stride \in ElementStrides, NEW alignment \in Alignments,
               NEW computed \in BOOLEAN,
               HeapExhausted(capacity, stride, alignment, computed)
        PROVE  MemoryInv'
    BY <1>5, NothingMoved DEF HeapExhausted, Stop
  <1>6. ASSUME NEW count \in Counts, InitArray(count) \/ InitArrayFirst(count) PROVE MemoryInv'
    BY <1>6, InitArrayStep, InitArrayFirstStep
  <1>7. ASSUME TemporaryReturns \/ TemporaryThrows PROVE MemoryInv'
    BY <1>7, LeaveStep
  <1>8. ASSUME InitializeElement \/ ArrayThrows PROVE MemoryInv'
    BY <1>8, InitializeElementStep, ArrayThrowsStep
  <1> QED
    BY <1>1, <1>2, <1>3, <1>4, <1>5, <1>6, <1>7, <1>8 DEF MemoryNext, MemoryStopped

LEMMA PlacesCounted ==
  MemoryInv => ElementsAccountedFor
  <1> SUFFICES ASSUME MemoryInv, NEW e \in Elements
               PROVE  destroyed[e] + (IF e \in owned THEN 1 ELSE 0)
                        + Cardinality({c \in ArrayCalls : e \in Elems(calls[c].slots)})
                      = IF e <= made THEN 1 ELSE 0
    BY DEF ElementsAccountedFor
  <1>1. Apart(ArrayCalls, Held, made, destroyed, owned)
    BY DEF MemoryInv, PlacesInv
  <1>2. \A c \in ArrayCalls : Held[c] = Elems(calls[c].slots)
    BY DEF Held
  <1>3. CASE \E c \in ArrayCalls : e \in Held[c]
    <2>1. PICK c \in ArrayCalls : e \in Held[c]
      BY <1>3
    <2>2. {d \in ArrayCalls : e \in Elems(calls[d].slots)} = {c}
      BY <1>1, <1>2, <2>1 DEF Apart
    <2>3. e <= made /\ destroyed[e] = 0 /\ e \notin owned
      BY <1>1, <2>1 DEF Apart
    <2>4. Cardinality({d \in ArrayCalls : e \in Elems(calls[d].slots)}) = 1
      BY <2>2, FS_Singleton
    <2> QED BY <2>3, <2>4
  <1>4. CASE ~\E c \in ArrayCalls : e \in Held[c]
    <2>1. {c \in ArrayCalls : e \in Elems(calls[c].slots)} = {}
      BY <1>2, <1>4
    <2>2. /\ destroyed[e] \in {0, 1}
          /\ e \in owned \/ destroyed[e] = 1 => e <= made
          /\ e \in owned => destroyed[e] = 0
          /\ e <= made => e \in owned \/ destroyed[e] = 1
      BY <1>1, <1>4 DEF Apart
    <2> QED BY <2>1, <2>2, FS_EmptySet
  <1> QED BY <1>3, <1>4

(* An initialiser that throws, at any depth, leaves no element behind and  *)
(* destroys none twice.                                                    *)
THEOREM MemoryElements ==
  MemorySpec => []ElementsAccountedFor
  <1> QED BY MemoryInitially, MemoryPreserved, PlacesCounted, PTL DEF MemorySpec

(* Whichever way a body is left, its block goes and no other; and a block  *)
(* on the stack is never larger than StackLimit, unless its size wrapped   *)
(* around.  It takes no trap: the builds of the Makefiles are included.    *)
THEOREM MemoryBlocks ==
  MemorySpec => []BlocksMatchCalls
  <1>1. MemoryInv => BlocksMatchCalls
    BY DEF MemoryInv, BlocksInv, BlocksFit, BlocksMatchCalls
  <1> QED BY <1>1, MemoryInitially, MemoryPreserved, PTL DEF MemorySpec

-----------------------------------------------------------------------------
(*****************************************************************************)
(* Strides.  Where the iterator is on its course as long as no step can      *)
(* wrap around (OnCourse).                                                   *)
(*****************************************************************************)

StridesTypeOK ==
  /\ form \in {"none", "to", "through"}
  /\ start \in Values /\ end \in Values /\ by \in Int /\ current \in Values
  /\ didReturnEnd \in BOOLEAN /\ ended \in BOOLEAN
  /\ terms \in Seq(Int)

(* Where the iterator is, as long as no step can wrap around.              *)
OnCourse ==
  /\ form # "none"
  /\ \A k \in DOMAIN terms : terms[k] = Term(k) /\ Belongs(Term(k))
  /\ ended => ~Belongs(Term(Len(terms) + 1))
  /\ IF didReturnEnd
       THEN form = "through" /\ current = end /\ Term(Len(terms)) = end
       ELSE current = Term(Len(terms) + 1)

StridesInv ==
  /\ StridesTypeOK
  /\ form = "none" => by = 0 /\ terms = <<>> /\ ~didReturnEnd /\ ~ended
  /\ by # 0 /\ EndIsRepresentable => OnCourse

LEMMA NoWrap ==
  ASSUME NEW x \in Int, NEW d \in Int, x + d \in Values
  PROVE  Advanced(x, d) = x + d
  <1>1. PICK a \in Nat, m \in Nat : a = x + d - Lowest /\ m = Highest - Lowest + 1
    BY StridesAssumption DEF Values
  <1>2. a < m
    BY <1>1, StridesAssumption DEF Values
  <1>3. a % m = a
    BY <1>2, ModSmall
  <1> QED BY <1>1, <1>3, StridesAssumption DEF Advanced

LEMMA AdvancedInRange ==
  ASSUME NEW x \in Int, NEW d \in Int
  PROVE  Advanced(x, d) \in Values
  <1>1. PICK a \in Int, m \in Nat \ {0} : a = x + d - Lowest /\ m = Highest - Lowest + 1
    BY StridesAssumption
  <1>2. a % m \in Int /\ 0 <= a % m /\ a % m < m
    OBVIOUS
  <1> QED BY <1>1, <1>2, StridesAssumption DEF Advanced, Values

(* The progression: its next term, and which way it goes.                  *)
LEMMA NonNegativeProduct ==
  ASSUME NEW a \in Nat, NEW b \in Nat
  PROVE  a * b \in Nat
  OBVIOUS

LEMMA TermFacts ==
  ASSUME NEW s \in Int, NEW b \in Int
  PROVE  /\ \A k \in Int : s + (k - 1) * b \in Int /\ s + ((k + 1) - 1) * b = s + (k - 1) * b + b
         /\ \A i, j \in Int : i <= j /\ b > 0 => s + (i - 1) * b <= s + (j - 1) * b
         /\ \A i, j \in Int : i <= j /\ b < 0 => s + (i - 1) * b >= s + (j - 1) * b
  <1>1. ASSUME NEW k \in Int
        PROVE  s + (k - 1) * b \in Int /\ s + ((k + 1) - 1) * b = s + (k - 1) * b + b
    OBVIOUS
  <1>2. ASSUME NEW i \in Int, NEW j \in Int, i <= j, b > 0
        PROVE  s + (i - 1) * b <= s + (j - 1) * b
    <2>1. PICK d \in Nat : j = i + d
      <3>1. j - i \in Nat /\ j = i + (j - i)
        BY <1>2
      <3> QED BY <3>1
    <2>2. d * b \in Nat
      BY <1>2, NonNegativeProduct
    <2>3. (j - 1) * b = (i - 1) * b + d * b
      BY <2>1
    <2>4. (i - 1) * b \in Int
      OBVIOUS
    <2> QED BY <2>2, <2>3, <2>4
  <1>3. ASSUME NEW i \in Int, NEW j \in Int, i <= j, b < 0
        PROVE  s + (i - 1) * b >= s + (j - 1) * b
    <2>1. PICK d \in Nat : j = i + d
      <3>1. j - i \in Nat /\ j = i + (j - i)
        BY <1>3
      <3> QED BY <3>1
    <2>2. PICK c \in Nat : b = -c
      <3>1. -b \in Nat /\ b = -(-b)
        BY <1>3
      <3> QED BY <3>1
    <2>3. d * c \in Nat
      BY NonNegativeProduct
    <2>4. (j - 1) * b = (i - 1) * b - d * c
      BY <2>1, <2>2
    <2>5. (i - 1) * b \in Int
      OBVIOUS
    <2> QED BY <2>3, <2>4, <2>5
  <1> QED BY <1>1, <1>2, <1>3

LEMMA TermsOfTheStride ==
  ASSUME StridesTypeOK
  PROVE  /\ \A k \in Int : Term(k) \in Int /\ Term(k + 1) = Term(k) + by
         /\ \A i, j \in Int : i <= j /\ by > 0 => Term(i) <= Term(j)
         /\ \A i, j \in Int : i <= j /\ by < 0 => Term(i) >= Term(j)
         /\ Term(1) = start
  <1>1. PICK s \in Int, b \in Int : s = start /\ b = by
    BY StridesAssumption DEF StridesTypeOK, Values
  <1>2. \A k : Term(k) = s + (k - 1) * b
    BY <1>1 DEF Term
  <1>3. s + (1 - 1) * b = s
    OBVIOUS
  <1>4. Term(1) = start
    BY <1>1, <1>2, <1>3
  <1>5. \A k \in Int : k + 1 \in Int
    OBVIOUS
  <1> QED BY <1>1, <1>2, <1>4, <1>5, TermFacts

LEMMA BelongsFacts ==
  ASSUME StridesTypeOK, by # 0, form # "none", NEW x \in Int
  PROVE  /\ by > 0 /\ form = "to" => (Belongs(x) <=> x < end)
         /\ by > 0 /\ form = "through" => (Belongs(x) <=> x <= end)
         /\ by < 0 /\ form = "to" => (Belongs(x) <=> x > end)
         /\ by < 0 /\ form = "through" => (Belongs(x) <=> x >= end)
  <1>1. end \in Int /\ by \in Int /\ "to" # "through"
    BY StridesAssumption DEF StridesTypeOK, Values
  <1> QED BY <1>1 DEF Belongs

(* A term before the end is followed by one the type can hold.             *)
LEMMA NextTermInRange ==
  ASSUME StridesTypeOK, by # 0, form # "none", EndIsRepresentable,
         NEW len \in Nat, Term(len + 1) \in Values,
         IF by > 0 THEN Term(len + 1) < end ELSE Term(len + 1) > end
  PROVE  Term(len + 2) \in Values
  <1>1. PICK k \in Int :
          /\ IF form = "to" THEN ~Belongs(Term(k)) ELSE ~Belongs(Term(k)) \/ Term(k) = end
          /\ Term(k) \in Values
    BY StridesAssumption DEF EndIsRepresentable
  <1>2. by \in Int /\ end \in Int /\ form \in {"to", "through"}
    BY StridesAssumption DEF StridesTypeOK, Values
  <1>3. Term(k) \in Int /\ Term(len + 1) \in Int /\ Term(len + 2) \in Int /\ len + 1 \in Int /\ len + 2 \in Int
    BY TermsOfTheStride
  <1>4. IF by > 0 THEN Term(k) >= end ELSE Term(k) <= end
    BY <1>1, <1>2, <1>3, BelongsFacts
  <1>5. /\ k <= len + 1 /\ by > 0 => Term(k) <= Term(len + 1)
        /\ k <= len + 1 /\ by < 0 => Term(k) >= Term(len + 1)
        /\ len + 2 <= k /\ by > 0 => Term(len + 2) <= Term(k)
        /\ len + 2 <= k /\ by < 0 => Term(len + 2) >= Term(k)
    BY <1>3, TermsOfTheStride, Zenon
  <1>6. by > 0 => Term(len + 1) <= Term(len + 2)
    BY <1>3, TermsOfTheStride
  <1>7. by < 0 => Term(len + 1) >= Term(len + 2)
    BY <1>3, TermsOfTheStride
  <1>8. PICK t, u, v : t = Term(k) /\ u = Term(len + 1) /\ v = Term(len + 2)
    OBVIOUS
  <1>9. len + 2 <= k
    BY <1>2, <1>3, <1>4, <1>5, <1>8
  <1>10. /\ u \in Values /\ t \in Values /\ v \in Int /\ by \in Int /\ by # 0
         /\ by > 0 => u <= v /\ v <= t
         /\ by < 0 => u >= v /\ v >= t
    BY <1>1, <1>2, <1>3, <1>5, <1>6, <1>7, <1>8, <1>9
  <1>11. v \in Values
    BY <1>10, StridesAssumption DEF Values
  <1> QED BY <1>8, <1>11

LEMMA TermAppended ==
  ASSUME NEW s \in Seq(Int), NEW x \in Int
  PROVE  /\ Append(s, x) \in Seq(Int) /\ Len(s) \in Nat /\ Len(Append(s, x)) = Len(s) + 1
         /\ DOMAIN Append(s, x) = DOMAIN s \cup {Len(s) + 1}
         /\ \A k \in DOMAIN s : Append(s, x)[k] = s[k]
         /\ Append(s, x)[Len(s) + 1] = x
         /\ DOMAIN s = 1 .. Len(s)
  <1>1. /\ Append(s, x) \in Seq(Int) /\ Len(s) \in Nat /\ Len(Append(s, x)) = Len(s) + 1
        /\ \A i \in 1 .. Len(s) : Append(s, x)[i] = s[i]
        /\ Append(s, x)[Len(s) + 1] = x
        /\ DOMAIN s = 1 .. Len(s)
    BY AppendProperties, LenProperties
  <1>2. DOMAIN Append(s, x) = 1 .. Len(s) + 1
    BY <1>1, LenProperties
  <1>3. 1 .. Len(s) + 1 = (1 .. Len(s)) \cup {Len(s) + 1}
    BY <1>1
  <1> QED BY <1>1, <1>2, <1>3

(* The arguments of the stride never change, nor what depends on them.     *)
LEMMA SameStride ==
  ASSUME UNCHANGED <<form, start, end, by>>
  PROVE  /\ \A k : Term(k)' = Term(k)
         /\ \A x : Belongs(x)' = Belongs(x)
         /\ EndIsRepresentable' = EndIsRepresentable
  BY DEF Term, Belongs, EndIsRepresentable

LEMMA StepOnCourse ==
  ASSUME StridesInv, form # "none", Step, IF by > 0 THEN ~(current >= end) ELSE ~(current <= end)
  PROVE  StridesInv'
  <1>1. /\ terms' = Append(terms, current) /\ current' = Advanced(current, by)
        /\ UNCHANGED <<form, start, end, by, ended, didReturnEnd>>
    BY DEF Step, Yield
  <1>2. StridesTypeOK /\ by \in Int /\ end \in Int /\ current \in Int /\ form \in {"to", "through"}
    BY StridesAssumption DEF StridesInv, StridesTypeOK, Values
  <1>3. current' \in Values
    BY <1>1, <1>2, AdvancedInRange
  <1>4. PICK len \in Nat : len = Len(terms)
    BY <1>2, LenProperties DEF StridesTypeOK
  <1>5. /\ terms' \in Seq(Int) /\ Len(terms') = len + 1
        /\ DOMAIN terms' = DOMAIN terms \cup {len + 1}
        /\ \A k \in DOMAIN terms : terms'[k] = terms[k]
        /\ terms'[len + 1] = current
        /\ DOMAIN terms = 1 .. len
    BY <1>1, <1>2, <1>4, TermAppended DEF StridesTypeOK
  <1>6. StridesTypeOK'
    BY <1>1, <1>2, <1>3, <1>5 DEF StridesTypeOK
  <1>7. ASSUME by # 0, EndIsRepresentable PROVE OnCourse'
    <2>1. OnCourse
      BY <1>7 DEF StridesInv
    <2>2. ~didReturnEnd /\ current = Term(len + 1)
      BY <1>2, <1>4, <2>1 DEF OnCourse
    <2>3. IF by > 0 THEN Term(len + 1) < end ELSE Term(len + 1) > end
      BY <1>2, <2>2
    <2>4. Term(len + 1) \in Values
      BY <1>2, <2>2 DEF StridesTypeOK
    <2>5. Term(len + 2) \in Values
      BY <1>2, <1>7, <2>3, <2>4, NextTermInRange
    <2>6. Term(len + 2) = Term(len + 1) + by
      <3>1. len + 1 \in Int /\ (len + 1) + 1 = len + 2
        OBVIOUS
      <3> QED BY <1>2, <3>1, TermsOfTheStride
    <2>7. current' = Term(len + 2)
      BY <1>1, <1>2, <2>2, <2>5, <2>6, NoWrap
    <2>8. Belongs(Term(len + 1))
      BY <1>2, <1>7, <2>2, <2>3, BelongsFacts
    <2>9. ~ended
      BY <1>4, <2>1, <2>8 DEF OnCourse
    <2>10. \A k \in DOMAIN terms' : terms'[k] = Term(k) /\ Belongs(Term(k))
      BY <1>5, <2>1, <2>2, <2>8 DEF OnCourse
    <2>11. current' = Term(Len(terms') + 1)
      BY <1>5, <2>7
    <2> QED BY <1>1, <1>2, <2>2, <2>9, <2>10, <2>11, SameStride DEF OnCourse
  <1>8. by' # 0 /\ EndIsRepresentable' => OnCourse'
    BY <1>1, <1>7, SameStride
  <1> QED BY <1>1, <1>2, <1>6, <1>8 DEF StridesInv

LEMMA EndYielded ==
  ASSUME StridesInv, form = "through", Yield, current = end, ~didReturnEnd,
         didReturnEnd' = TRUE, UNCHANGED current
  PROVE  StridesInv'
  <1>1. /\ terms' = Append(terms, current)
        /\ UNCHANGED <<form, start, end, by, ended, current>>
    BY DEF Yield
  <1>2. StridesTypeOK /\ by \in Int /\ end \in Int /\ current \in Int
    BY StridesAssumption DEF StridesInv, StridesTypeOK, Values
  <1>4. PICK len \in Nat : len = Len(terms)
    BY <1>2, LenProperties DEF StridesTypeOK
  <1>5. /\ terms' \in Seq(Int) /\ Len(terms') = len + 1
        /\ DOMAIN terms' = DOMAIN terms \cup {len + 1}
        /\ \A k \in DOMAIN terms : terms'[k] = terms[k]
        /\ terms'[len + 1] = current
    BY <1>1, <1>2, <1>4, TermAppended DEF StridesTypeOK
  <1>6. StridesTypeOK'
    <2>1. didReturnEnd' \in BOOLEAN /\ ended' \in BOOLEAN
      BY <1>1, <1>2, Zenon DEF StridesTypeOK
    <2> QED BY <1>1, <1>2, <1>5, <2>1 DEF StridesTypeOK
  <1>7. ASSUME by # 0, EndIsRepresentable PROVE OnCourse'
    <2>1. OnCourse
      BY <1>7 DEF StridesInv
    <2>2. current = Term(len + 1)
      BY <1>4, <2>1 DEF OnCourse
    <2>3. Belongs(Term(len + 1))
      BY <1>2, <1>7, <2>2, BelongsFacts
    <2>4. ~ended
      BY <1>4, <2>1, <2>3 DEF OnCourse
    <2>5. \A k \in DOMAIN terms' : terms'[k] = Term(k) /\ Belongs(Term(k))
      BY <1>5, <2>1, <2>2, <2>3 DEF OnCourse
    <2>6. Term(Len(terms')) = end
      BY <1>5, <2>2
    <2> QED BY <1>1, <2>4, <2>5, <2>6, SameStride DEF OnCourse
  <1>8. by' # 0 /\ EndIsRepresentable' => OnCourse'
    BY <1>1, <1>7, SameStride
  <1> QED BY <1>1, <1>6, <1>8 DEF StridesInv

LEMMA StrideEnded ==
  ASSUME StridesInv, form # "none", EndOfStride,
         IF by > 0 THEN current >= end ELSE current <= end,
         form = "through" => current # end \/ didReturnEnd
  PROVE  StridesInv'
  <1>1. ended' = TRUE /\ UNCHANGED <<form, start, end, by, current, didReturnEnd, terms>>
    BY DEF EndOfStride
  <1>2. StridesTypeOK /\ by \in Int /\ end \in Int /\ current \in Int /\ form \in {"to", "through"}
    BY StridesAssumption DEF StridesInv, StridesTypeOK, Values
  <1>4. PICK len \in Nat : len = Len(terms)
    BY <1>2, LenProperties DEF StridesTypeOK
  <1>6. StridesTypeOK'
    <2>1. didReturnEnd' \in BOOLEAN /\ ended' \in BOOLEAN
      BY <1>1, <1>2, Zenon DEF StridesTypeOK
    <2> QED BY <1>1, <1>2, <2>1 DEF StridesTypeOK
  <1>7. ASSUME by # 0, EndIsRepresentable PROVE OnCourse'
    <2>1. OnCourse
      BY <1>7 DEF StridesInv
    <2>a. len \in Int /\ len + 1 \in Int
      OBVIOUS
    <2>2. Term(len) \in Int /\ Term(len + 1) \in Int /\ Term(len + 1) = Term(len) + by
      BY <1>2, <2>a, TermsOfTheStride, Zenon
    <2>3. IF by > 0 THEN Term(len + 1) >= end ELSE Term(len + 1) <= end
      BY <1>2, <1>4, <1>7, <2>1, <2>2 DEF OnCourse
    <2>4. form = "through" => Term(len + 1) # end
      BY <1>2, <1>4, <1>7, <2>1, <2>2 DEF OnCourse
    <2>5. ~Belongs(Term(len + 1))
      BY <1>2, <1>7, <2>2, <2>3, <2>4, BelongsFacts
    <2> QED BY <1>1, <1>4, <2>1, <2>5, SameStride DEF OnCourse
  <1>8. by' # 0 /\ EndIsRepresentable' => OnCourse'
    BY <1>1, <1>7, SameStride
  <1> QED BY <1>1, <1>2, <1>6, <1>8 DEF StridesInv

LEMMA IteratorMade ==
  ASSUME StridesInv, NEW f \in {"to", "through"}, NEW s \in Values, NEW e \in Values, NEW b \in Distances,
         MakeIterator(f, s, e, b)
  PROVE  StridesInv'
  <1>1. /\ form = "none" /\ form' = f /\ start' = s /\ end' = e /\ by' = b /\ current' = s
        /\ UNCHANGED <<didReturnEnd, terms, ended>>
    BY DEF MakeIterator
  <1>2. StridesTypeOK /\ terms = <<>> /\ ~didReturnEnd /\ ~ended
    BY <1>1 DEF StridesInv
  <1>3. b \in Int
    BY StridesAssumption
  <1>4. StridesTypeOK'
    BY <1>1, <1>2, <1>3 DEF StridesTypeOK
  <1>5. Term(1)' = s
    <2>1. s \in Int /\ s + (1 - 1) * b = s
      BY <1>3, StridesAssumption DEF Values
    <2> QED BY <1>1, <2>1 DEF Term
  <1>6. Len(<<>>) + 1 = 1 /\ DOMAIN <<>> = {}
    OBVIOUS
  <1>7. OnCourse'
    BY <1>1, <1>2, <1>5, <1>6 DEF OnCourse
  <1> QED BY <1>1, <1>4, <1>7 DEF StridesInv

LEMMA StridesPreserved ==
  ASSUME StridesInv, [StridesNext]_striding
  PROVE  StridesInv'
  <1>1. ASSUME UNCHANGED striding PROVE StridesInv'
    <2>1. UNCHANGED <<form, start, end, by>> /\ UNCHANGED <<current, didReturnEnd, terms, ended>>
      BY <1>1 DEF striding
    <2>2. OnCourse' = OnCourse /\ StridesTypeOK' = StridesTypeOK /\ EndIsRepresentable' = EndIsRepresentable
      BY <2>1, SameStride DEF OnCourse, StridesTypeOK
    <2> QED BY <2>1, <2>2 DEF StridesInv
  <1>2. ASSUME NEW s \in Values, NEW e \in Values, NEW b \in Distances,
               StrideTo(s, e, b) \/ StrideThrough(s, e, b)
        PROVE  StridesInv'
    BY <1>2, IteratorMade DEF StrideTo, StrideThrough
  <1>3. ASSUME NextTo PROVE StridesInv'
    <2>1. form = "to" /\ IF AtEnd THEN EndOfStride ELSE Step
      BY <1>3 DEF NextTo
    <2>2. CASE AtEnd
      BY <2>1, <2>2, StrideEnded DEF AtEnd
    <2>3. CASE ~AtEnd
      BY <2>1, <2>3, StepOnCourse DEF AtEnd
    <2> QED BY <2>2, <2>3
  <1>4. ASSUME NextThrough PROVE StridesInv'
    <2>1. /\ form = "through"
          /\ IF ~AtEnd THEN Step
             ELSE IF current = end /\ ~didReturnEnd
                    THEN Yield /\ didReturnEnd' = TRUE /\ UNCHANGED current
             ELSE EndOfStride
      BY <1>4 DEF NextThrough
    <2>2. CASE ~AtEnd
      BY <2>1, <2>2, StepOnCourse DEF AtEnd
    <2>3. CASE AtEnd /\ current = end /\ ~didReturnEnd
      BY <2>1, <2>3, EndYielded
    <2>4. CASE AtEnd /\ ~(current = end /\ ~didReturnEnd)
      BY <2>1, <2>4, StrideEnded DEF AtEnd
    <2> QED BY <2>2, <2>3, <2>4
  <1> QED BY <1>1, <1>2, <1>3, <1>4 DEF StridesNext, NextTerm, AskedEnough

LEMMA CoursePromises ==
  StridesInv => YieldsTheTerms
  <1> SUFFICES ASSUME StridesInv, by # 0, EndIsRepresentable
               PROVE  /\ \A k \in DOMAIN terms : terms[k] = Term(k) /\ Belongs(Term(k))
                      /\ ended => ~Belongs(Term(Len(terms) + 1))
                      /\ ended /\ by > 0 =>
                           \A x \in Values : Contains(x) <=> \E k \in DOMAIN terms : Term(k) = x
    BY DEF YieldsTheTerms
  <1>1. OnCourse /\ StridesTypeOK
    BY DEF StridesInv
  <1>2. start \in Int /\ end \in Int /\ by \in Int /\ form \in {"to", "through"} /\ "to" # "through"
    BY <1>1, StridesAssumption DEF StridesTypeOK, Values, OnCourse
  <1>3. DOMAIN terms \subseteq {k \in Int : k >= 1}
    BY <1>1, LenProperties DEF StridesTypeOK
  <1>4. ASSUME by > 0, NEW k \in DOMAIN terms PROVE ~OutsideBounds(Term(k))
    <2>1. Term(k) \in Int /\ Term(1) = start /\ Term(1) <= Term(k)
      BY <1>1, <1>3, <1>4, TermsOfTheStride
    <2>2. Belongs(Term(k))
      BY <1>1 DEF OnCourse
    <2>3. IF form = "to" THEN Term(k) < end ELSE Term(k) <= end
      BY <1>1, <1>2, <1>4, <2>1, <2>2, BelongsFacts DEF OnCourse
    <2> QED BY <1>2, <2>1, <2>3 DEF OutsideBounds
  <1>5. \A k \in DOMAIN terms : terms[k] = Term(k) /\ Belongs(Term(k))
    BY <1>1 DEF OnCourse
  <1>6. by > 0 => \A x \in Values : Contains(x) <=> \E k \in DOMAIN terms : Term(k) = x
    BY <1>4, <1>5 DEF Contains
  <1> QED BY <1>1, <1>5, <1>6 DEF OnCourse

(* In both directions and up to both ends of the type, an iterator gives   *)
(* the terms of the progression in order, no other value, and its end, if  *)
(* the type can hold the first value at or past the end.                   *)
THEOREM StridesYieldTheTerms ==
  StridesSpec => []YieldsTheTerms
  <1>1. StridesInit => StridesInv
    <2> SUFFICES ASSUME StridesInit PROVE StridesInv
      OBVIOUS
    <2>1. didReturnEnd \in BOOLEAN /\ ended \in BOOLEAN /\ ~didReturnEnd /\ ~ended
      BY Zenon DEF StridesInit
    <2>2. Lowest \in Values
      BY StridesAssumption DEF Values
    <2>3. StridesTypeOK
      BY <2>1, <2>2, EmptySeq DEF StridesInit, StridesTypeOK
    <2> QED BY <2>1, <2>3 DEF StridesInit, StridesInv
  <1> QED BY <1>1, StridesPreserved, CoursePromises, PTL DEF StridesSpec

-----------------------------------------------------------------------------
(***************************************************************************)
(* Flattening.  The place of an index is the number of elements before it; *)
(* one step changes it by one, and no two indices have the same place.  So *)
(* the lengths of the walks and the order of the indices are arithmetic.   *)
(***************************************************************************)
Sizes == UNION {[1 .. m -> 0 .. MaxInner] : m \in 0 .. MaxOuter}

Places(sz) == Row(sz) \cup {EndIndex(sz)}

LEMMA SizesFacts ==
    ASSUME NEW sz \in Sizes
    PROVE  /\ Len(sz) \in Nat
           /\ \A o \in Int : 0 <= o /\ o < Len(sz) =>
                SizeOf(sz, o) \in Int /\ 0 <= SizeOf(sz, o) /\ SizeOf(sz, o) <= MaxInner
  <1>1. PICK m \in 0 .. MaxOuter : sz \in [1 .. m -> 0 .. MaxInner]
    BY DEF Sizes
  <1>2. m \in Nat /\ MaxInner \in Nat
    BY <1>1, FlatteningAssumption
  <1>3. Len(sz) = m
    BY <1>1, <1>2, LenProperties, SeqDef
  <1>4. ASSUME NEW o \in Int, 0 <= o, o < m PROVE sz[o + 1] \in 0 .. MaxInner
    <2>1. o + 1 \in 1 .. m
      BY <1>2, <1>4
    <2> QED
      BY <1>1, <2>1
  <1> QED
    BY <1>2, <1>3, <1>4 DEF SizeOf

LEMMA RowFacts ==
    ASSUME NEW sz \in Sizes
    PROVE  /\ \A i \in Row(sz) :
                /\ i = Index(i.outer, i.inner) /\ i.outer \in Int /\ i.inner \in Int
                /\ 0 <= i.outer /\ i.outer < Len(sz)
                /\ 0 <= i.inner /\ i.inner < SizeOf(sz, i.outer)
           /\ \A o, k \in Int :
                0 <= o /\ o < Len(sz) /\ 0 <= k /\ k < SizeOf(sz, o) =>
                /\ Index(o, k) \in Row(sz) /\ Index(o, k).outer = o /\ Index(o, k).inner = k
           /\ EndIndex(sz).outer = Len(sz) /\ EndIndex(sz).inner = Nil
           /\ EndIndex(sz) \notin Row(sz)
  <1>1. PICK L \in Nat : L = Len(sz)
    BY SizesFacts
  <1>2. PICK M \in Nat : M = MaxInner
    BY FlatteningAssumption
  <1>3. Row(sz) = {i \in [outer : 0 .. L - 1, inner : 0 .. M - 1] : i.inner < SizeOf(sz, i.outer)}
    BY <1>1, <1>2 DEF Row, OuterPositions
  <1>4. ASSUME NEW i \in Row(sz)
        PROVE  /\ i = Index(i.outer, i.inner) /\ i.outer \in Int /\ i.inner \in Int
               /\ 0 <= i.outer /\ i.outer < L
               /\ 0 <= i.inner /\ i.inner < SizeOf(sz, i.outer)
    BY <1>3 DEF Index
  <1>5. ASSUME NEW o \in Int, NEW k \in Int, 0 <= o, o < L, 0 <= k, k < SizeOf(sz, o)
        PROVE  Index(o, k) \in Row(sz) /\ Index(o, k).outer = o /\ Index(o, k).inner = k
    <2>1. SizeOf(sz, o) \in Int /\ SizeOf(sz, o) <= M
      BY <1>1, <1>2, <1>5, SizesFacts
    <2>2. o \in 0 .. L - 1 /\ k \in 0 .. M - 1
      BY <1>5, <2>1
    <2> QED
      BY <1>3, <1>5, <2>2 DEF Index
  <1>6. EndIndex(sz).outer = L /\ EndIndex(sz).inner = Nil
    BY <1>1 DEF EndIndex, Index
  <1>7. EndIndex(sz) \notin Row(sz)
    <2> SUFFICES ASSUME EndIndex(sz) \in Row(sz) PROVE FALSE
      OBVIOUS
    <2>1. Nil \in Int
      BY <1>4, <1>6
    <2> QED
      BY <2>1, FlatteningAssumption
  <1> QED
    BY <1>1, <1>4, <1>5, <1>6, <1>7

LEMMA RowIsFinite ==
    ASSUME NEW sz \in Sizes
    PROVE  IsFiniteSet(Row(sz)) /\ Cardinality(Row(sz)) \in Nat
  <1>1. PICK L \in Nat : L = Len(sz)
    BY SizesFacts
  <1>2. PICK M \in Nat : M = MaxInner
    BY FlatteningAssumption
  <1> DEFINE A == 0 .. L - 1
             B == 0 .. M - 1
             P == A \X B
             f == [p \in P |-> [outer |-> p[1], inner |-> p[2]]]
             R == {f[p] : p \in P}
  <1>3. IsFiniteSet(A) /\ IsFiniteSet(B)
    BY FS_Interval
  <1>4. IsFiniteSet(P)
    <2> HIDE DEF A, B
    <2> QED
      BY <1>3, FS_Product
  <1>5. IsFiniteSet(R)
    <2>1. f \in Surjection(P, R)
      <3>1. f \in [P -> R] /\ \A r \in R : \E p \in P : f[p] = r
        <4> HIDE DEF P
        <4> QED OBVIOUS
      <3> HIDE DEF f, R, P
      <3> QED
        BY <3>1 DEF Surjection
    <2> HIDE DEF f, R, P
    <2> QED
      BY <1>4, <2>1, FS_Surjection
  <1>6. ASSUME NEW i \in Row(sz) PROVE i \in R
    <2>1. i \in [outer : A, inner : B]
      BY <1>1, <1>2 DEF Row, OuterPositions
    <2>2. <<i.outer, i.inner>> \in P
      BY <2>1
    <2>3. f[<<i.outer, i.inner>>] = i
      BY <2>1, <2>2
    <2> QED
      BY <2>2, <2>3
  <1> HIDE DEF R
  <1> QED
    BY <1>5, <1>6, FS_Subset, FS_CardinalityType
LEMMA NonEmptyFacts ==
    ASSUME NEW sz \in Sizes
    PROVE  \A o : o \in NonEmpty(sz) <=> o \in Int /\ 0 <= o /\ o < Len(sz) /\ SizeOf(sz, o) > 0
  <1>1. PICK L \in Nat : L = Len(sz)
    BY SizesFacts
  <1>2. NonEmpty(sz) = {o \in 0 .. L - 1 : SizeOf(sz, o) > 0}
    BY <1>1 DEF NonEmpty, OuterPositions
  <1>3. \A o : o \in 0 .. L - 1 <=> o \in Int /\ 0 <= o /\ o < L
    OBVIOUS
  <1> HIDE DEF NonEmpty
  <1> QED
    BY <1>1, <1>2, <1>3

\* The search ends at the end, past empty collections only, or at the first
\* element of the first collection that has one.
LEMMA FirstFromFacts ==
    ASSUME NEW sz \in Sizes, NEW outer \in Int, 0 <= outer
    PROVE  \/ /\ FirstFrom(sz, outer) = EndIndex(sz)
              /\ \A o \in Int : outer <= o /\ o < Len(sz) => ~(SizeOf(sz, o) > 0)
           \/ \E o \in Int :
                /\ FirstFrom(sz, outer) = Index(o, 0)
                /\ outer <= o /\ o < Len(sz) /\ SizeOf(sz, o) > 0
                /\ \A p \in Int : outer <= p /\ p < o => ~(SizeOf(sz, p) > 0)
  <1> DEFINE left == {o \in NonEmpty(sz) : o >= outer}
  <1>1. CASE left = {}
    <2>1. FirstFrom(sz, outer) = EndIndex(sz)
      BY <1>1 DEF FirstFrom
    <2>2. ASSUME NEW o \in Int, outer <= o, o < Len(sz) PROVE ~(SizeOf(sz, o) > 0)
      <3>1. o \notin NonEmpty(sz)
        BY <1>1, <2>2
      <3> QED
        BY <2>2, <3>1, NonEmptyFacts
    <2> QED
      BY <2>1, <2>2
  <1>2. CASE left # {}
    <2> DEFINE first == CHOOSE o \in left : \A p \in left : o <= p
    <2>1. FirstFrom(sz, outer) = Index(first, 0)
      BY <1>2 DEF FirstFrom
    <2>2. left \in SUBSET Nat
      BY NonEmptyFacts
    <2>3. \E o \in left : \A p \in left : o <= p
      <3> HIDE DEF left
      <3> QED
        BY <1>2, <2>2, LeastNat
    <2>4. first \in left /\ \A p \in left : first <= p
      <3> HIDE DEF left
      <3> QED
        BY <2>3
    <2> HIDE DEF first
    <2>5. /\ first \in Int /\ outer <= first /\ first < Len(sz) /\ SizeOf(sz, first) > 0
      BY <2>4, NonEmptyFacts
    <2>6. ASSUME NEW p \in Int, outer <= p, p < first PROVE ~(SizeOf(sz, p) > 0)
      <3> SUFFICES ASSUME SizeOf(sz, p) > 0 PROVE FALSE
        OBVIOUS
      <3>1. 0 <= p /\ p < Len(sz)
        BY <2>5, <2>6, SizesFacts
      <3>2. p \in left
        BY <2>6, <3>1, NonEmptyFacts
      <3> HIDE DEF left
      <3> QED
        BY <2>4, <2>5, <2>6, <3>2
    <2> QED
      BY <2>1, <2>5, <2>6
  <1> QED
    BY <1>1, <1>2

LEMMA PrecedingFacts ==
    ASSUME NEW sz \in Sizes
    PROVE  /\ \A j, i \in Row(sz) : j \in Preceding(sz, i) <=>
                j.outer < i.outer \/ (j.outer = i.outer /\ j.inner < i.inner)
           /\ Preceding(sz, EndIndex(sz)) = Row(sz)
           /\ \A i : Preceding(sz, i) \subseteq Row(sz)
  <1>1. \A j \in Row(sz) : j.outer < EndIndex(sz).outer
    BY RowFacts
  <1> QED
    BY <1>1 DEF Preceding

\* The index after one has that one before it, and what was before that.
LEMMA AfterFacts ==
    ASSUME NEW sz \in Sizes, NEW i \in Row(sz)
    PROVE  /\ IndexAfter(sz, i) \in Places(sz)
           /\ Preceding(sz, IndexAfter(sz, i)) = Preceding(sz, i) \cup {i}
           /\ i \notin Preceding(sz, i)
  <1>1. PICK o \in Int, k \in Int : i = Index(o, k) /\ o = i.outer /\ k = i.inner
    BY RowFacts
  <1>2. PICK L \in Nat : L = Len(sz)
    BY SizesFacts
  <1>3. PICK t \in Int : t = SizeOf(sz, o)
    BY <1>1, RowFacts, SizesFacts
  <1>4. 0 <= o /\ o < L /\ 0 <= k /\ k < t
    <2>1. /\ 0 <= i.outer /\ i.outer < Len(sz)
          /\ 0 <= i.inner /\ i.inner < SizeOf(sz, i.outer)
      BY RowFacts
    <2> QED
      BY <1>1, <1>2, <1>3, <2>1
  <1>5. i \notin Preceding(sz, i)
    BY <1>1, PrecedingFacts
  <1>6. ASSUME NEW j \in Row(sz), j.outer = o, j.inner = k PROVE j = i
    BY <1>1, <1>6, RowFacts
  <1>7. CASE k + 1 < t
    <2>1. IndexAfter(sz, i) = Index(o, k + 1)
      BY <1>1, <1>3, <1>7 DEF IndexAfter
    <2>2. PICK a \in Row(sz) : a = Index(o, k + 1) /\ a.outer = o /\ a.inner = k + 1
      BY <1>2, <1>3, <1>4, <1>7, RowFacts
    <2>3. ASSUME NEW j \in Row(sz)
          PROVE  j \in Preceding(sz, a) <=> j \in Preceding(sz, i) \/ j = i
      <3>1. j.outer \in Int /\ j.inner \in Int
        BY RowFacts
      <3>2. j \in Preceding(sz, a) <=> j.outer < o \/ (j.outer = o /\ j.inner < k + 1)
        BY <2>2, PrecedingFacts
      <3>3. j \in Preceding(sz, i) <=> j.outer < o \/ (j.outer = o /\ j.inner < k)
        BY <1>1, PrecedingFacts
      <3> QED
        BY <1>1, <1>6, <3>1, <3>2, <3>3
    <2>4. Preceding(sz, a) = Preceding(sz, i) \cup {i}
      BY <2>3, PrecedingFacts
    <2> QED
      BY <1>5, <2>1, <2>2, <2>4 DEF Places
  <1>8. CASE ~(k + 1 < t)
    <2>1. IndexAfter(sz, i) = FirstFrom(sz, o + 1)
      BY <1>1, <1>3, <1>8 DEF IndexAfter
    <2>2. ASSUME NEW j \in Row(sz), j.outer <= o PROVE j \in Preceding(sz, i) \/ j = i
      <3>1. j.outer \in Int /\ j.inner \in Int /\ j.inner < SizeOf(sz, j.outer)
        BY RowFacts
      <3>2. j \in Preceding(sz, i) <=> j.outer < o \/ (j.outer = o /\ j.inner < k)
        BY <1>1, PrecedingFacts
      <3>3. CASE j.outer = o
        <4>1. j.inner <= k
          BY <1>3, <1>8, <3>1, <3>3
        <4> QED
          BY <1>6, <3>1, <3>2, <3>3, <4>1
      <3> QED
        BY <2>2, <3>1, <3>2, <3>3
    <2>3. ASSUME NEW j \in Row(sz), j \in Preceding(sz, i) \/ j = i PROVE j.outer <= o
      <3>1. j.outer \in Int
        BY RowFacts
      <3> QED
        BY <1>1, <2>3, <3>1, PrecedingFacts
    <2>4. CASE FirstFrom(sz, o + 1) = EndIndex(sz) /\
               \A p \in Int : o + 1 <= p /\ p < L => ~(SizeOf(sz, p) > 0)
      <3>1. ASSUME NEW j \in Row(sz) PROVE j.outer <= o
        <4>1. j.outer \in Int /\ j.outer < L
          BY <1>2, RowFacts
        <4>2. SizeOf(sz, j.outer) > 0
          <5>1. /\ j.inner \in Int /\ 0 <= j.inner /\ j.inner < SizeOf(sz, j.outer)
                /\ SizeOf(sz, j.outer) \in Int
            BY RowFacts, SizesFacts
          <5> QED
            BY <5>1
        <4>3. ~(o + 1 <= j.outer)
          BY <2>4, <4>1, <4>2
        <4> QED
          BY <4>1, <4>3
      <3>2. Preceding(sz, EndIndex(sz)) = Preceding(sz, i) \cup {i}
        BY <2>2, <3>1, PrecedingFacts
      <3> QED
        BY <1>5, <2>1, <2>4, <3>2 DEF Places
    <2>5. ASSUME NEW q \in Int, FirstFrom(sz, o + 1) = Index(q, 0),
                 o + 1 <= q, q < L, SizeOf(sz, q) > 0,
                 \A p \in Int : o + 1 <= p /\ p < q => ~(SizeOf(sz, p) > 0)
          PROVE  /\ IndexAfter(sz, i) \in Places(sz)
                 /\ Preceding(sz, IndexAfter(sz, i)) = Preceding(sz, i) \cup {i}
      <3>1. PICK a \in Row(sz) : a = Index(q, 0) /\ a.outer = q /\ a.inner = 0
        <4>1. 0 <= q /\ q < Len(sz) /\ 0 < SizeOf(sz, q)
          <5>1. 0 <= q
            BY <1>4, <2>5
          <5> QED
            BY <1>2, <2>5, <5>1, SizesFacts
        <4> QED
          BY <4>1, RowFacts
      <3>2. ASSUME NEW j \in Row(sz) PROVE j \in Preceding(sz, a) <=> j.outer <= o
        <4>1. /\ j.outer \in Int /\ j.inner \in Int /\ 0 <= j.inner /\ j.inner < SizeOf(sz, j.outer)
              /\ SizeOf(sz, j.outer) \in Int
          BY RowFacts, SizesFacts
        <4>2. j \in Preceding(sz, a) <=> j.outer < q \/ (j.outer = q /\ j.inner < 0)
          BY <3>1, PrecedingFacts
        <4>3. ~(j.inner < 0) /\ SizeOf(sz, j.outer) > 0
          BY <4>1
        <4>4. ~(o + 1 <= j.outer /\ j.outer < q)
          BY <2>5, <4>1, <4>3
        <4> QED
          BY <2>5, <4>1, <4>2, <4>3, <4>4
      <3>3. Preceding(sz, a) = Preceding(sz, i) \cup {i}
        BY <2>2, <2>3, <3>2, PrecedingFacts
      <3> QED
        BY <2>1, <2>5, <3>1, <3>3 DEF Places
    <2>6. o + 1 \in Int /\ 0 <= o + 1
      BY <1>4
    <2> QED
      BY <1>2, <1>5, <2>4, <2>5, <2>6, FirstFromFacts
  <1> QED
    BY <1>7, <1>8

\* Moving backwards undoes that: it comes to the last element before.
LEMMA BeforeFacts ==
    ASSUME NEW sz \in Sizes, NEW i \in Places(sz), Preceding(sz, i) # {}
    PROVE  LET b == IndexBefore(sz, i)
           IN  /\ b \in Row(sz) /\ b \notin Preceding(sz, b)
               /\ Preceding(sz, i) = Preceding(sz, b) \cup {b}
  <1> DEFINE b == IndexBefore(sz, i)
  <1>1. PICK L \in Nat : L = Len(sz)
    BY SizesFacts
  <1>2. PICK o \in Int : o = i.outer /\ 0 <= o /\ o <= L
    <2>1. CASE i \in Row(sz)
      BY <1>1, <2>1, RowFacts
    <2>2. CASE i = EndIndex(sz)
      BY <1>1, <2>2, RowFacts
    <2> QED
      BY <2>1, <2>2 DEF Places
  <1>3. i \in Row(sz) \/ (i = EndIndex(sz) /\ o = L /\ i.inner = Nil)
    BY <1>1, <1>2, RowFacts DEF Places
  <1>4. CASE i.inner # Nil /\ i.inner > 0
    <2>1. i \in Row(sz)
      BY <1>3, <1>4
    <2>2. PICK k \in Int : k = i.inner /\ 0 < k /\ k < SizeOf(sz, o) /\ i = Index(o, k)
      <3>1. i.inner \in Int /\ 0 <= i.inner /\ i.inner < SizeOf(sz, i.outer)
              /\ i = Index(i.outer, i.inner)
        BY <2>1, RowFacts
      <3> QED
        BY <1>2, <1>4, <3>1
    <2>3. b = Index(o, k - 1)
      BY <1>2, <1>4, <2>2 DEF IndexBefore
    <2>4. SizeOf(sz, o) \in Int /\ o < L
      BY <1>1, <1>2, <2>1, RowFacts, SizesFacts
    <2>5. b \in Row(sz) /\ b.outer = o /\ b.inner = k - 1
      <3>1. /\ k - 1 \in Int /\ 0 <= k - 1 /\ k - 1 < SizeOf(sz, o)
        BY <2>2, <2>4
      <3> HIDE DEF b
      <3> QED
        BY <1>1, <1>2, <2>3, <2>4, <3>1, RowFacts
    <2> HIDE DEF b
    <2>6. IndexAfter(sz, b) = i
      <3>1. b.inner + 1 = k
        <4>1. (k - 1) + 1 = k
          OBVIOUS
        <4> QED
          BY <2>5, <4>1
      <3> QED
        BY <2>2, <2>5, <3>1 DEF IndexAfter
    <2> QED
      BY <2>5, <2>6, AfterFacts DEF b
  <1>5. CASE ~(i.inner # Nil /\ i.inner > 0)
    <2> DEFINE passed == {p \in NonEmpty(sz) : p < i.outer}
               last == CHOOSE p \in passed : \A q \in passed : q <= p
    <2>1. b = Index(last, SizeOf(sz, last) - 1)
      BY <1>5 DEF IndexBefore
    <2>2. ASSUME NEW j \in Row(sz)
          PROVE  /\ j.outer \in NonEmpty(sz)
                 /\ j \in Preceding(sz, i) <=> j.outer < o
      <3>1. /\ j.outer \in Int /\ j.inner \in Int /\ 0 <= j.inner /\ j.inner < SizeOf(sz, j.outer)
            /\ 0 <= j.outer /\ j.outer < Len(sz)
        BY RowFacts
      <3>2. SizeOf(sz, j.outer) > 0
        BY <3>1, SizesFacts
      <3>3. j.outer \in NonEmpty(sz)
        BY <3>1, <3>2, NonEmptyFacts
      <3>4. CASE i \in Row(sz)
        <4>1. j \in Preceding(sz, i) <=> j.outer < o \/ (j.outer = o /\ j.inner < i.inner)
          BY <1>2, <3>4, PrecedingFacts
        <4>2. i.inner \in Int /\ i.inner # Nil
          BY <3>4, RowFacts, FlatteningAssumption
        <4> QED
          BY <1>5, <3>1, <3>3, <4>1, <4>2
      <3>5. CASE i = EndIndex(sz)
        BY <1>1, <1>2, <1>3, <3>1, <3>3, <3>5, PrecedingFacts, RowFacts
      <3> QED
        BY <1>3, <3>4, <3>5
    <2>3. passed # {}
      <3>1. PICK j \in Row(sz) : j \in Preceding(sz, i)
        BY PrecedingFacts
      <3>2. j.outer \in NonEmpty(sz) /\ j.outer < i.outer
        BY <1>2, <2>2, <3>1
      <3> QED
        BY <3>2
    <2>4. passed \in SUBSET Int /\ \A p \in passed : p <= o
      BY <1>2, NonEmptyFacts
    <2>5. last \in passed /\ \A q \in passed : q <= last
      <3> HIDE DEF passed
      <3>1. \E p \in passed : \A q \in passed : q <= p
        BY <2>3, <2>4, GreatestInt
      <3> QED
        BY <3>1
    <2>6. PICK p \in Int : p = last /\ 0 <= p /\ p < L /\ p < o /\ SizeOf(sz, p) > 0
      <3> HIDE DEF last
      <3> QED
        BY <1>1, <1>2, <2>5, NonEmptyFacts
    <2>7. ASSUME NEW q \in NonEmpty(sz), q < o PROVE q <= p
      <3>1. q \in passed
        BY <1>2, <2>7
      <3> HIDE DEF last, passed
      <3> QED
        BY <2>5, <2>6, <3>1
    <2>8. PICK t \in Int : t = SizeOf(sz, p) /\ t > 0
      BY <1>1, <2>6, SizesFacts
    <2> HIDE DEF last, passed
    <2>9. b = Index(p, t - 1)
      BY <2>1, <2>6, <2>8
    <2> HIDE DEF b
    <2>10. b \in Row(sz) /\ b.outer = p /\ b.inner = t - 1
      <3>1. t - 1 \in Int /\ 0 <= t - 1 /\ t - 1 < SizeOf(sz, p)
        BY <2>8
      <3> QED
        BY <1>1, <2>6, <2>9, <3>1, RowFacts
    <2>11. ASSUME NEW j \in Row(sz)
           PROVE  j \in Preceding(sz, i) <=> j \in Preceding(sz, b) \/ j = b
      <3>1. j.outer \in Int /\ j.inner \in Int /\ j.inner < SizeOf(sz, j.outer)
              /\ j = Index(j.outer, j.inner)
        BY RowFacts
      <3>2. j \in Preceding(sz, i) <=> j.outer < o
        BY <2>2
      <3>3. j \in Preceding(sz, b) <=> j.outer < p \/ (j.outer = p /\ j.inner < t - 1)
        BY <2>10, PrecedingFacts
      <3>4. j.outer < o => j.outer <= p
        BY <2>2, <2>7
      <3>5. j = b <=> j.outer = p /\ j.inner = t - 1
        BY <2>9, <2>10, <3>1
      <3>6. j.outer = p => j.inner <= t - 1
        BY <2>8, <3>1
      <3> QED
        BY <2>6, <2>8, <3>1, <3>2, <3>3, <3>4, <3>5, <3>6
    <2>12. Preceding(sz, i) = Preceding(sz, b) \cup {b}
      BY <2>10, <2>11, PrecedingFacts
    <2> QED
      BY <2>10, <2>12, AfterFacts DEF b
  <1> QED
    BY <1>4, <1>5

-----------------------------------------------------------------------------
(***************************************************************************)
(* The place of an index is the number of elements before it.              *)
(***************************************************************************)
Position(sz, i) == Cardinality(Preceding(sz, i))

LEMMA PositionFacts ==
    ASSUME NEW sz \in Sizes
    PROVE  /\ \A i : Position(sz, i) \in Nat /\ Position(sz, i) <= Cardinality(Row(sz))
           /\ Position(sz, EndIndex(sz)) = Cardinality(Row(sz))
  <1>1. ASSUME NEW i
        PROVE  Position(sz, i) \in Nat /\ Position(sz, i) <= Cardinality(Row(sz))
    <2>1. Preceding(sz, i) \in SUBSET Row(sz)
      BY PrecedingFacts
    <2>2. IsFiniteSet(Preceding(sz, i)) /\ Cardinality(Preceding(sz, i)) <= Cardinality(Row(sz))
      BY <2>1, RowIsFinite, FS_Subset
    <2> QED
      BY <2>2, FS_CardinalityType DEF Position
  <1> QED
    BY <1>1, PrecedingFacts DEF Position

LEMMA PrecedingIsFinite ==
    ASSUME NEW sz \in Sizes, NEW i
    PROVE  IsFiniteSet(Preceding(sz, i))
  BY PrecedingFacts, RowIsFinite, FS_Subset

\* One step forwards is one place, and so is one step backwards.
LEMMA OneForwards ==
    ASSUME NEW sz \in Sizes, NEW i \in Row(sz)
    PROVE  /\ IndexAfter(sz, i) \in Places(sz)
           /\ Position(sz, IndexAfter(sz, i)) = Position(sz, i) + 1
  <1>1. Cardinality(Preceding(sz, i) \cup {i}) = Cardinality(Preceding(sz, i)) + 1
    BY AfterFacts, PrecedingIsFinite, FS_AddElement
  <1> QED
    BY <1>1, AfterFacts DEF Position

LEMMA OneBackwards ==
    ASSUME NEW sz \in Sizes, NEW i \in Places(sz), Position(sz, i) > 0
    PROVE  /\ IndexBefore(sz, i) \in Places(sz)
           /\ Position(sz, IndexBefore(sz, i)) = Position(sz, i) - 1
  <1>1. Preceding(sz, i) # {}
    BY FS_EmptySet DEF Position
  <1>2. PICK b \in Row(sz) : /\ b = IndexBefore(sz, i) /\ b \notin Preceding(sz, b)
                             /\ Preceding(sz, i) = Preceding(sz, b) \cup {b}
    BY <1>1, BeforeFacts
  <1>3. Cardinality(Preceding(sz, b) \cup {b}) = Cardinality(Preceding(sz, b)) + 1
    BY <1>2, PrecedingIsFinite, FS_AddElement
  <1>4. Position(sz, i) = Position(sz, b) + 1 /\ Position(sz, b) \in Nat
    BY <1>2, <1>3, PositionFacts DEF Position
  <1> QED
    BY <1>2, <1>4 DEF Places

\* The order of the indices is that of their places, and no place has two.
LEMMA BeforeIsLess ==
    ASSUME NEW sz \in Sizes, NEW i \in Places(sz), NEW j \in Places(sz), Before(i, j)
    PROVE  Position(sz, i) < Position(sz, j)
  <1>1. i \in Row(sz)
    <2> SUFFICES ASSUME i = EndIndex(sz) PROVE FALSE
      BY DEF Places
    <2>1. i.outer = Len(sz) /\ i.inner = Nil
      BY RowFacts
    <2>2. j.outer \in Int /\ j.outer <= Len(sz)
      BY RowFacts, SizesFacts DEF Places
    <2> QED
      BY <2>1, <2>2, SizesFacts DEF Before
  <1>2. i \in Preceding(sz, j)
    BY <1>1 DEF Before, Preceding
  <1>3. i \notin Preceding(sz, i)
    BY <1>1, AfterFacts
  <1>4. Preceding(sz, i) \subseteq Preceding(sz, j)
    <2> SUFFICES ASSUME NEW k \in Row(sz), k \in Preceding(sz, i) PROVE k \in Preceding(sz, j)
      BY PrecedingFacts
    <2>1. CASE j \in Row(sz)
      <3>1. /\ k.outer \in Int /\ k.inner \in Int /\ i.outer \in Int /\ i.inner \in Int
            /\ j.outer \in Int /\ j.inner \in Int
        BY <1>1, <2>1, RowFacts
      <3>2. k.outer < i.outer \/ (k.outer = i.outer /\ k.inner < i.inner)
        BY <1>1, PrecedingFacts
      <3>3. i.outer < j.outer \/ (i.outer = j.outer /\ i.inner < j.inner)
        BY DEF Before
      <3>4. k.outer < j.outer \/ (k.outer = j.outer /\ k.inner < j.inner)
        BY <3>1, <3>2, <3>3
      <3> QED
        BY <2>1, <3>4, PrecedingFacts
    <2>2. CASE j = EndIndex(sz)
      BY <2>2, PrecedingFacts
    <2> QED
      BY <2>1, <2>2 DEF Places
  <1>5. Cardinality(Preceding(sz, i)) < Cardinality(Preceding(sz, j))
    <2>1. IsFiniteSet(Preceding(sz, j)) /\ Preceding(sz, i) \in SUBSET Preceding(sz, j)
            /\ Preceding(sz, i) # Preceding(sz, j)
      BY <1>2, <1>3, <1>4, PrecedingIsFinite
    <2>2. Cardinality(Preceding(sz, i)) <= Cardinality(Preceding(sz, j))
      BY <2>1, FS_Subset
    <2>3. Cardinality(Preceding(sz, i)) # Cardinality(Preceding(sz, j))
      BY <2>1, FS_Subset
    <2>4. Cardinality(Preceding(sz, i)) \in Nat /\ Cardinality(Preceding(sz, j)) \in Nat
      BY PrecedingIsFinite, FS_CardinalityType
    <2> QED
      BY <2>2, <2>3, <2>4
  <1> QED
    BY <1>5 DEF Position

LEMMA IndicesAreOrdered ==
    ASSUME NEW sz \in Sizes, NEW i \in Places(sz), NEW j \in Places(sz)
    PROVE  i = j \/ Before(i, j) \/ Before(j, i)
  <1>1. CASE i \in Row(sz) /\ j \in Row(sz)
    <2>1. /\ i.outer \in Int /\ i.inner \in Int /\ i = Index(i.outer, i.inner)
          /\ j.outer \in Int /\ j.inner \in Int /\ j = Index(j.outer, j.inner)
          /\ i.inner # Nil /\ j.inner # Nil
      BY <1>1, RowFacts, FlatteningAssumption
    <2> QED
      BY <2>1 DEF Before
  <1>2. CASE i = EndIndex(sz) /\ j \in Row(sz)
    BY <1>2, RowFacts DEF Before
  <1>3. CASE j = EndIndex(sz) /\ i \in Row(sz)
    BY <1>3, RowFacts DEF Before
  <1> QED
    BY <1>1, <1>2, <1>3 DEF Places

LEMMA BeforeMeans ==
    ASSUME NEW sz \in Sizes, NEW i \in Places(sz), NEW j \in Places(sz)
    PROVE  /\ Before(i, j) <=> Position(sz, i) < Position(sz, j)
           /\ Position(sz, i) = Position(sz, j) => i = j
  <1>1. Position(sz, i) \in Nat /\ Position(sz, j) \in Nat
    BY PositionFacts
  <1> QED
    BY <1>1, BeforeIsLess, IndicesAreOrdered
-----------------------------------------------------------------------------
(***************************************************************************)
(* Walks of several steps towards the side t points to.                    *)
(***************************************************************************)
IsWalk(w, m, sz, i, t) ==
  w = [k \in 0 .. m |-> IF k = 0 THEN i ELSE AdvanceIndex(sz, w[k - 1], t)]

IsLimitedWalk(w, m, sz, i, t, limit) ==
  w = [k \in 0 .. m |-> IF k = 0 THEN i
                       ELSE IF w[k - 1] \in {Nil, limit} THEN Nil
                            ELSE AdvanceIndex(sz, w[k - 1], t)]

LEMMA WalkExists ==
    ASSUME NEW m \in Nat, NEW sz, NEW i, NEW t
    PROVE  \E w : IsWalk(w, m, sz, i, t)
  <1> DEFINE S == {l \in Nat : \E w : w = [k \in 0 .. l |-> IF k = 0 THEN i
                                                          ELSE AdvanceIndex(sz, w[k - 1], t)]}
  <1>1. 0 \in S
    <2> DEFINE w == [k \in 0 .. 0 |-> i]
    <2>1. \A k \in 0 .. 0 : k = 0
      OBVIOUS
    <2>2. w = [k \in 0 .. 0 |-> IF k = 0 THEN i ELSE AdvanceIndex(sz, w[k - 1], t)]
      BY <2>1
    <2> QED
      BY <2>2
  <1>2. ASSUME NEW l \in S \cap Nat PROVE l + 1 \in S
    <2>1. PICK w : w = [k \in 0 .. l |-> IF k = 0 THEN i ELSE AdvanceIndex(sz, w[k - 1], t)]
      BY <1>2
    <2> DEFINE v == [k \in 0 .. l + 1 |-> IF k = l + 1 THEN AdvanceIndex(sz, w[l], t) ELSE w[k]]
    <2>2. \A k \in 0 .. l : v[k] = w[k]
      OBVIOUS
    <2>3. ASSUME NEW k \in 0 .. l + 1
          PROVE  v[k] = IF k = 0 THEN i ELSE AdvanceIndex(sz, v[k - 1], t)
      <3>1. CASE k = l + 1
        <4>1. k # 0 /\ k - 1 = l /\ l \in 0 .. l
          BY <3>1
        <4>2. v[k - 1] = w[l]
          BY <2>2, <4>1
        <4>3. v[k] = AdvanceIndex(sz, w[l], t)
          BY <3>1
        <4> QED
          BY <4>1, <4>2, <4>3
      <3>2. CASE k # l + 1 /\ k # 0
        <4>1. k \in 0 .. l /\ k - 1 \in 0 .. l
          BY <3>2
        <4>2. v[k - 1] = w[k - 1] /\ v[k] = w[k]
          BY <2>2, <4>1
        <4>3. w[k] = AdvanceIndex(sz, w[k - 1], t)
          BY <2>1, <3>2, <4>1
        <4> QED
          BY <3>2, <4>2, <4>3
      <3>3. CASE k = 0
        <4>1. k \in 0 .. l
          BY <3>3
        <4> QED
          BY <2>1, <2>2, <3>3, <4>1
      <3> QED
        BY <3>1, <3>2, <3>3
    <2>4. v = [k \in 0 .. l + 1 |-> IF k = 0 THEN i ELSE AdvanceIndex(sz, v[k - 1], t)]
      <3>1. v = [k \in 0 .. l + 1 |-> v[k]]
        OBVIOUS
      <3> HIDE DEF v
      <3> QED
        BY <2>3, <3>1
    <2>5. l + 1 \in Nat
      OBVIOUS
    <2> HIDE DEF v
    <2> QED
      BY <2>4, <2>5
  <1>3. Nat \subseteq S
    <2> HIDE DEF S
    <2> QED
      BY <1>1, <1>2, NatInduct
  <1> QED
    BY <1>3 DEF IsWalk

LEMMA LimitedWalkExists ==
    ASSUME NEW m \in Nat, NEW sz, NEW i, NEW t, NEW limit
    PROVE  \E w : IsLimitedWalk(w, m, sz, i, t, limit)
  <1> DEFINE On(x) == IF x \in {Nil, limit} THEN Nil ELSE AdvanceIndex(sz, x, t)
             S == {l \in Nat : \E w : w = [k \in 0 .. l |-> IF k = 0 THEN i ELSE On(w[k - 1])]}
  <1>1. 0 \in S
    <2> HIDE DEF On
    <2> DEFINE w == [k \in 0 .. 0 |-> i]
    <2>1. \A k \in 0 .. 0 : k = 0
      OBVIOUS
    <2>2. w = [k \in 0 .. 0 |-> IF k = 0 THEN i ELSE On(w[k - 1])]
      BY <2>1
    <2> QED
      BY <2>2
  <1>2. ASSUME NEW l \in S \cap Nat PROVE l + 1 \in S
    <2> HIDE DEF On
    <2>1. PICK w : w = [k \in 0 .. l |-> IF k = 0 THEN i ELSE On(w[k - 1])]
      BY <1>2
    <2> DEFINE v == [k \in 0 .. l + 1 |-> IF k = l + 1 THEN On(w[l]) ELSE w[k]]
    <2>2. \A k \in 0 .. l : v[k] = w[k]
      OBVIOUS
    <2>3. ASSUME NEW k \in 0 .. l + 1
          PROVE  v[k] = IF k = 0 THEN i ELSE On(v[k - 1])
      <3>1. CASE k = l + 1
        <4>1. k # 0 /\ k - 1 = l /\ l \in 0 .. l
          BY <3>1
        <4>2. v[k - 1] = w[l]
          BY <2>2, <4>1
        <4>3. v[k] = On(w[l])
          BY <3>1
        <4> QED
          BY <4>1, <4>2, <4>3
      <3>2. CASE k # l + 1 /\ k # 0
        <4>1. k \in 0 .. l /\ k - 1 \in 0 .. l
          BY <3>2
        <4>2. v[k - 1] = w[k - 1] /\ v[k] = w[k]
          BY <2>2, <4>1
        <4>3. w[k] = On(w[k - 1])
          BY <2>1, <3>2, <4>1
        <4> QED
          BY <3>2, <4>2, <4>3
      <3>3. CASE k = 0
        <4>1. k \in 0 .. l
          BY <3>3
        <4> QED
          BY <2>1, <2>2, <3>3, <4>1
      <3> QED
        BY <3>1, <3>2, <3>3
    <2>4. v = [k \in 0 .. l + 1 |-> IF k = 0 THEN i ELSE On(v[k - 1])]
      <3>1. v = [k \in 0 .. l + 1 |-> v[k]]
        OBVIOUS
      <3> HIDE DEF v
      <3> QED
        BY <2>3, <3>1
    <2>5. l + 1 \in Nat
      OBVIOUS
    <2> HIDE DEF v
    <2> QED
      BY <2>4, <2>5
  <1>3. Nat \subseteq S
    <2> HIDE DEF S
    <2> QED
      BY <1>1, <1>2, NatInduct
  <1> QED
    BY <1>3 DEF IsLimitedWalk

LEMMA MagnitudeFacts ==
    ASSUME NEW t \in Int
    PROVE  Magnitude(t) \in Nat /\ (t < 0 => Magnitude(t) = -t) /\ (~(t < 0) => Magnitude(t) = t)
  BY DEF Magnitude

LEMMA OffsetIsWalk ==
    ASSUME NEW sz, NEW i, NEW t \in Int
    PROVE  \E w : /\ w[0] = i /\ OffsetBy(sz, i, t) = w[Magnitude(t)]
                  /\ \A k \in Int : 0 <= k /\ k < Magnitude(t) => w[k + 1] = AdvanceIndex(sz, w[k], t)
  <1>1. PICK m \in Nat : m = Magnitude(t)
    BY MagnitudeFacts
  <1> DEFINE w == CHOOSE w : IsWalk(w, m, sz, i, t)
  <1>2. OffsetBy(sz, i, t) = w[m]
    BY <1>1 DEF OffsetBy, IsWalk
  <1>3. w = [k \in 0 .. m |-> IF k = 0 THEN i ELSE AdvanceIndex(sz, w[k - 1], t)]
    <2>1. IsWalk(w, m, sz, i, t)
      BY WalkExists
    <2> HIDE DEF w
    <2> QED
      BY <2>1 DEF IsWalk
  <1> HIDE DEF w
  <1>4. w[0] = i
    BY <1>3
  <1>5. ASSUME NEW k \in Int, 0 <= k, k < m PROVE w[k + 1] = AdvanceIndex(sz, w[k], t)
    <2>1. k + 1 \in 0 .. m /\ k + 1 # 0 /\ (k + 1) - 1 = k
      BY <1>5
    <2>2. w[k + 1] = AdvanceIndex(sz, w[(k + 1) - 1], t)
      BY <1>3, <2>1
    <2> QED
      BY <2>1, <2>2
  <1> QED
    BY <1>1, <1>2, <1>4, <1>5

LEMMA LimitedIsWalk ==
    ASSUME NEW sz, NEW i, NEW t \in Int, NEW limit
    PROVE  \E w : /\ w[0] = i /\ OffsetByLimited(sz, i, t, limit) = w[Magnitude(t)]
                  /\ \A k \in Int : 0 <= k /\ k < Magnitude(t) =>
                       w[k + 1] = IF w[k] \in {Nil, limit} THEN Nil ELSE AdvanceIndex(sz, w[k], t)
  <1>1. PICK m \in Nat : m = Magnitude(t)
    BY MagnitudeFacts
  <1> DEFINE w == CHOOSE w : IsLimitedWalk(w, m, sz, i, t, limit)
  <1>2. OffsetByLimited(sz, i, t, limit) = w[m]
    BY <1>1 DEF OffsetByLimited, IsLimitedWalk
  <1>3. w = [k \in 0 .. m |-> IF k = 0 THEN i
                              ELSE IF w[k - 1] \in {Nil, limit} THEN Nil
                                   ELSE AdvanceIndex(sz, w[k - 1], t)]
    <2>1. IsLimitedWalk(w, m, sz, i, t, limit)
      BY LimitedWalkExists
    <2> HIDE DEF w
    <2> QED
      BY <2>1 DEF IsLimitedWalk
  <1> HIDE DEF w
  <1>4. w[0] = i
    BY <1>3
  <1>5. ASSUME NEW k \in Int, 0 <= k, k < m
        PROVE  w[k + 1] = IF w[k] \in {Nil, limit} THEN Nil ELSE AdvanceIndex(sz, w[k], t)
    <2>1. k + 1 \in 0 .. m /\ k + 1 # 0 /\ (k + 1) - 1 = k
      BY <1>5
    <2>2. w[k + 1] = IF w[(k + 1) - 1] \in {Nil, limit} THEN Nil
                     ELSE AdvanceIndex(sz, w[(k + 1) - 1], t)
      BY <1>3, <2>1
    <2> QED
      BY <2>1, <2>2
  <1> QED
    BY <1>1, <1>2, <1>4, <1>5

\* The place k steps from place p towards the side t points to.
Towards(p, t, k) == IF t < 0 THEN p - k ELSE p + k

LEMMA StepTowards ==
    ASSUME NEW sz \in Sizes, NEW x \in Places(sz), NEW p \in Int, NEW t \in Int, NEW k \in Int,
           Position(sz, x) = Towards(p, t, k),
           0 <= Towards(p, t, k + 1), Towards(p, t, k + 1) <= Cardinality(Row(sz))
    PROVE  /\ AdvanceIndex(sz, x, t) \in Places(sz)
           /\ Position(sz, AdvanceIndex(sz, x, t)) = Towards(p, t, k + 1)
  <1>1. PICK a \in Nat : a = Position(sz, x)
    BY PositionFacts
  <1>2. PICK c \in Nat : c = Cardinality(Row(sz))
    BY RowIsFinite
  <1>3. CASE t < 0
    <2>1. a = p - k /\ 0 <= p - (k + 1) /\ Towards(p, t, k + 1) = p - (k + 1)
      BY <1>1, <1>3 DEF Towards
    <2>2. a > 0 /\ p - (k + 1) = a - 1
      BY <2>1
    <2> QED
      BY <1>1, <1>3, <2>1, <2>2, OneBackwards DEF AdvanceIndex
  <1>4. CASE ~(t < 0)
    <2>1. a = p + k /\ p + (k + 1) <= c /\ Towards(p, t, k + 1) = p + (k + 1)
      BY <1>1, <1>2, <1>4 DEF Towards
    <2>2. a < c /\ p + (k + 1) = a + 1
      BY <2>1
    <2>3. x \in Row(sz)
      BY <1>1, <1>2, <2>2, PositionFacts DEF Places
    <2> QED
      BY <1>1, <1>4, <2>1, <2>2, <2>3, OneForwards DEF AdvanceIndex
  <1> QED
    BY <1>3, <1>4

\* Up to its step l, w moves one index at a time as long as it is on course.
Walks(sz, p, t, l, w) ==
  \A k \in Int : /\ 0 <= k /\ k < l
                 /\ w[k] \in Places(sz) /\ Position(sz, w[k]) = Towards(p, t, k)
                 => w[k + 1] = AdvanceIndex(sz, w[k], t)

LEMMA Walking ==
    ASSUME NEW sz \in Sizes, NEW p \in Int, NEW t \in Int, NEW l \in Nat, NEW w,
           w[0] \in Places(sz), Position(sz, w[0]) = p, 0 <= p, p <= Cardinality(Row(sz)),
           Walks(sz, p, t, l, w),
           0 <= Towards(p, t, l), Towards(p, t, l) <= Cardinality(Row(sz))
    PROVE  \A k \in Int : 0 <= k /\ k <= l =>
             w[k] \in Places(sz) /\ Position(sz, w[k]) = Towards(p, t, k)
  <1> DEFINE S == {k \in Int : w[k] \in Places(sz) /\ Position(sz, w[k]) = Towards(p, t, k)}
  <1>1. 0 \in S
    BY DEF Towards
  <1>2. ASSUME NEW k \in Int, 0 <= k, k < l, k \in S PROVE k + 1 \in S
    <2>1. w[k] \in Places(sz) /\ Position(sz, w[k]) = Towards(p, t, k)
      BY <1>2
    <2>2. w[k + 1] = AdvanceIndex(sz, w[k], t)
      BY <1>2, <2>1 DEF Walks
    <2>3. PICK c \in Nat : c = Cardinality(Row(sz))
      BY RowIsFinite
    <2>4. 0 <= Towards(p, t, k + 1) /\ Towards(p, t, k + 1) <= c
      BY <1>2, <2>3 DEF Towards
    <2>5. /\ AdvanceIndex(sz, w[k], t) \in Places(sz)
          /\ Position(sz, AdvanceIndex(sz, w[k], t)) = Towards(p, t, k + 1)
      BY <2>1, <2>3, <2>4, StepTowards
    <2> QED
      BY <2>2, <2>5
  <1>3. \A k \in Int : 0 <= k /\ k <= l => k \in S
    <2> HIDE DEF S
    <2> QED
      BY <1>1, <1>2, UpwardInduct
  <1> QED
    BY <1>3

\* index(_:offsetBy:) goes as far as it is told to.
LEMMA OffsetFacts ==
    ASSUME NEW sz \in Sizes, NEW i \in Places(sz), NEW t \in Int,
           0 <= Position(sz, i) + t, Position(sz, i) + t <= Cardinality(Row(sz))
    PROVE  /\ OffsetBy(sz, i, t) \in Places(sz)
           /\ Position(sz, OffsetBy(sz, i, t)) = Position(sz, i) + t
  <1>1. PICK p \in Nat : p = Position(sz, i) /\ p <= Cardinality(Row(sz))
    BY PositionFacts
  <1>2. PICK m \in Nat : m = Magnitude(t)
    BY MagnitudeFacts
  <1>3. Towards(p, t, m) = p + t
    BY <1>2, MagnitudeFacts DEF Towards
  <1>4. PICK w : /\ w[0] = i /\ OffsetBy(sz, i, t) = w[m]
                 /\ \A k \in Int : 0 <= k /\ k < m => w[k + 1] = AdvanceIndex(sz, w[k], t)
    <2>1. PICK w : /\ w[0] = i /\ OffsetBy(sz, i, t) = w[Magnitude(t)]
                   /\ \A k \in Int : 0 <= k /\ k < Magnitude(t) =>
                        w[k + 1] = AdvanceIndex(sz, w[k], t)
      BY OffsetIsWalk
    <2> QED
      BY <1>2, <2>1
  <1>5. \A k \in Int : 0 <= k /\ k <= m =>
          w[k] \in Places(sz) /\ Position(sz, w[k]) = Towards(p, t, k)
    <2>1. w[0] \in Places(sz) /\ Position(sz, w[0]) = p /\ p \in Int /\ 0 <= p
      BY <1>1, <1>4
    <2>2. Walks(sz, p, t, m, w)
      BY <1>4 DEF Walks
    <2>3. 0 <= Towards(p, t, m) /\ Towards(p, t, m) <= Cardinality(Row(sz))
      BY <1>1, <1>3
    <2> QED
      BY <1>1, <2>1, <2>2, <2>3, Walking
  <1>6. w[m] \in Places(sz) /\ Position(sz, w[m]) = Towards(p, t, m)
    BY <1>5
  <1> QED
    BY <1>1, <1>3, <1>4, <1>6
LEMMA NilIsNoPlace ==
    ASSUME NEW sz \in Sizes
    PROVE  Nil \notin Places(sz)
  <1> SUFFICES ASSUME NEW i \in Places(sz) PROVE i # Nil
    OBVIOUS
  <1>1. i = Index(i.outer, i.inner) /\ i.outer \in Int /\ i.inner \in Int \cup {Nil}
    <2>1. CASE i \in Row(sz)
      BY <2>1, RowFacts
    <2>2. CASE i = EndIndex(sz)
      BY <2>2, SizesFacts DEF EndIndex, Index
    <2> QED
      BY <2>1, <2>2 DEF Places
  <1>2. i \in [outer : Int, inner : Int \cup {Nil}]
    BY <1>1 DEF Index
  <1> QED
    BY <1>2, FlatteningAssumption

\* The limit at place q lies on the way from p.
OnTheWay(p, q, t) ==
  /\ IF t < 0 THEN q - p <= 0 ELSE q - p >= 0
  /\ Magnitude(t) > Magnitude(q - p)

LEMMA WayFacts ==
    ASSUME NEW p \in Int, NEW q \in Int, NEW t \in Int
    PROVE  /\ OnTheWay(p, q, t) =>
                /\ Towards(p, t, Magnitude(q - p)) = q /\ Magnitude(q - p) < Magnitude(t)
                /\ \A k \in Int : 0 <= k /\ k < Magnitude(q - p) => Towards(p, t, k) # q
           /\ ~OnTheWay(p, q, t) =>
                \A k \in Int : 0 <= k /\ k < Magnitude(t) => Towards(p, t, k) # q
           /\ Towards(p, t, 0) = p /\ Towards(p, t, Magnitude(t)) = p + t
  <1>1. PICK g \in Int : g = q - p
    OBVIOUS
  <1>2. PICK a \in Nat, m \in Nat : a = Magnitude(g) /\ m = Magnitude(t)
    BY MagnitudeFacts
  <1>3. (g < 0 => a = -g) /\ (~(g < 0) => a = g) /\ (t < 0 => m = -t) /\ (~(t < 0) => m = t)
    BY <1>2, MagnitudeFacts
  <1>4. CASE t < 0
    <2>1. OnTheWay(p, q, t) <=> g <= 0 /\ m > a
      BY <1>1, <1>2, <1>4 DEF OnTheWay
    <2>2. \A k \in Int : Towards(p, t, k) = p - k
      BY <1>4 DEF Towards
    <2>3. g <= 0 /\ m > a => p - a = q /\ \A k \in Int : 0 <= k /\ k < a => p - k # q
      BY <1>1, <1>3
    <2>4. ~(g <= 0 /\ m > a) => \A k \in Int : 0 <= k /\ k < m => p - k # q
      BY <1>1, <1>3
    <2> QED
      BY <1>1, <1>2, <1>3, <1>4, <2>1, <2>2, <2>3, <2>4
  <1>5. CASE ~(t < 0)
    <2>1. OnTheWay(p, q, t) <=> g >= 0 /\ m > a
      BY <1>1, <1>2, <1>5 DEF OnTheWay
    <2>2. \A k \in Int : Towards(p, t, k) = p + k
      BY <1>5 DEF Towards
    <2>3. g >= 0 /\ m > a => p + a = q /\ \A k \in Int : 0 <= k /\ k < a => p + k # q
      BY <1>1, <1>3
    <2>4. ~(g >= 0 /\ m > a) => \A k \in Int : 0 <= k /\ k < m => p + k # q
      BY <1>1, <1>3
    <2> QED
      BY <1>1, <1>2, <1>3, <1>5, <2>1, <2>2, <2>3, <2>4
  <1> QED
    BY <1>4, <1>5

LimitedBy(sz, t, d, m, w) ==
  \A k \in Int : 0 <= k /\ k < m =>
    w[k + 1] = IF w[k] \in {Nil, d} THEN Nil ELSE AdvanceIndex(sz, w[k], t)

\* A walk with a limit keeps on until it stands at the limit.
LEMMA LimitedWalks ==
    ASSUME NEW sz \in Sizes, NEW d \in Places(sz), NEW p \in Int, NEW t \in Int, NEW l \in Nat,
           NEW w, NEW m \in Nat, l <= m, LimitedBy(sz, t, d, m, w),
           \A k \in Int : 0 <= k /\ k < l => Towards(p, t, k) # Position(sz, d)
    PROVE  Walks(sz, p, t, l, w)
  <1> SUFFICES ASSUME NEW k \in Int, 0 <= k, k < l,
                      w[k] \in Places(sz), Position(sz, w[k]) = Towards(p, t, k)
               PROVE  w[k + 1] = AdvanceIndex(sz, w[k], t)
    BY DEF Walks
  <1>1. w[k] # d /\ w[k] # Nil
    BY NilIsNoPlace
  <1>2. k < m
    OBVIOUS
  <1> QED
    BY <1>1, <1>2 DEF LimitedBy

LEMMA LimitedStops ==
    ASSUME NEW sz \in Sizes, NEW i \in Places(sz), NEW d \in Places(sz), NEW t \in Int,
           OnTheWay(Position(sz, i), Position(sz, d), t)
    PROVE  OffsetByLimited(sz, i, t, d) = Nil
  <1>1. PICK p \in Nat, q \in Nat : /\ p = Position(sz, i) /\ q = Position(sz, d)
                                    /\ p <= Cardinality(Row(sz)) /\ q <= Cardinality(Row(sz))
    BY PositionFacts
  <1>2. PICK m \in Nat, l \in Nat : m = Magnitude(t) /\ l = Magnitude(q - p)
    <2>1. q - p \in Int
      OBVIOUS
    <2> QED
      BY <2>1, MagnitudeFacts
  <1>3. /\ Towards(p, t, l) = q /\ l < m
        /\ \A k \in Int : 0 <= k /\ k < l => Towards(p, t, k) # q
    <2>1. OnTheWay(p, q, t)
      BY <1>1
    <2>2. /\ Towards(p, t, Magnitude(q - p)) = q /\ Magnitude(q - p) < Magnitude(t)
          /\ \A k \in Int : 0 <= k /\ k < Magnitude(q - p) => Towards(p, t, k) # q
      BY <2>1, WayFacts
    <2> QED
      BY <1>2, <2>2
  <1>4. PICK w : /\ w[0] = i /\ OffsetByLimited(sz, i, t, d) = w[m]
                 /\ \A k \in Int : 0 <= k /\ k < m =>
                      w[k + 1] = IF w[k] \in {Nil, d} THEN Nil ELSE AdvanceIndex(sz, w[k], t)
    <2>1. PICK w : /\ w[0] = i /\ OffsetByLimited(sz, i, t, d) = w[Magnitude(t)]
                   /\ \A k \in Int : 0 <= k /\ k < Magnitude(t) =>
                        w[k + 1] = IF w[k] \in {Nil, d} THEN Nil ELSE AdvanceIndex(sz, w[k], t)
      BY LimitedIsWalk
    <2> QED
      BY <1>2, <2>1
  <1>5. Walks(sz, p, t, l, w)
    <2>1. LimitedBy(sz, t, d, m, w)
      BY <1>4 DEF LimitedBy
    <2>2. \A k \in Int : 0 <= k /\ k < l => Towards(p, t, k) # Position(sz, d)
      BY <1>1, <1>3
    <2>3. l <= m
      BY <1>3
    <2> QED
      BY <2>1, <2>2, <2>3, LimitedWalks
  <1>6. w[l] \in Places(sz) /\ Position(sz, w[l]) = q
    <2>1. /\ w[0] \in Places(sz) /\ Position(sz, w[0]) = p /\ p \in Int /\ 0 <= p
          /\ 0 <= Towards(p, t, l) /\ Towards(p, t, l) <= Cardinality(Row(sz))
      BY <1>1, <1>3, <1>4
    <2>2. \A k \in Int : 0 <= k /\ k <= l =>
            w[k] \in Places(sz) /\ Position(sz, w[k]) = Towards(p, t, k)
      BY <1>1, <1>5, <2>1, Walking
    <2> QED
      BY <1>3, <2>2
  <1>7. w[l] = d
    BY <1>1, <1>6, BeforeMeans
  <1> DEFINE S == {k \in Int : w[k] = Nil}
  <1>8. l + 1 \in S
    BY <1>3, <1>4, <1>7
  <1>9. ASSUME NEW k \in Int, l + 1 <= k, k < m, k \in S PROVE k + 1 \in S
    BY <1>4, <1>9
  <1>10. \A k \in Int : l + 1 <= k /\ k <= m => k \in S
    <2> HIDE DEF S
    <2>1. l + 1 \in Int /\ m \in Int
      OBVIOUS
    <2> QED
      BY <1>8, <1>9, <2>1, UpwardInduct
  <1>11. m \in S
    <2>1. l + 1 <= m
      BY <1>3
    <2> HIDE DEF S
    <2> QED
      BY <1>10, <2>1
  <1> QED
    BY <1>4, <1>11

LEMMA LimitedReaches ==
    ASSUME NEW sz \in Sizes, NEW i \in Places(sz), NEW d \in Places(sz), NEW t \in Int,
           ~OnTheWay(Position(sz, i), Position(sz, d), t),
           0 <= Position(sz, i) + t, Position(sz, i) + t <= Cardinality(Row(sz))
    PROVE  /\ OffsetByLimited(sz, i, t, d) \in Places(sz)
           /\ Position(sz, OffsetByLimited(sz, i, t, d)) = Position(sz, i) + t
  <1>1. PICK p \in Nat, q \in Nat : /\ p = Position(sz, i) /\ q = Position(sz, d)
                                    /\ p <= Cardinality(Row(sz))
    BY PositionFacts
  <1>2. PICK m \in Nat : m = Magnitude(t)
    BY MagnitudeFacts
  <1>3. /\ Towards(p, t, m) = p + t
        /\ \A k \in Int : 0 <= k /\ k < m => Towards(p, t, k) # q
    <2>1. ~OnTheWay(p, q, t)
      BY <1>1
    <2>2. /\ Towards(p, t, Magnitude(t)) = p + t
          /\ \A k \in Int : 0 <= k /\ k < Magnitude(t) => Towards(p, t, k) # q
      BY <2>1, WayFacts
    <2> QED
      BY <1>2, <2>2
  <1>4. PICK w : /\ w[0] = i /\ OffsetByLimited(sz, i, t, d) = w[m]
                 /\ \A k \in Int : 0 <= k /\ k < m =>
                      w[k + 1] = IF w[k] \in {Nil, d} THEN Nil ELSE AdvanceIndex(sz, w[k], t)
    <2>1. PICK w : /\ w[0] = i /\ OffsetByLimited(sz, i, t, d) = w[Magnitude(t)]
                   /\ \A k \in Int : 0 <= k /\ k < Magnitude(t) =>
                        w[k + 1] = IF w[k] \in {Nil, d} THEN Nil ELSE AdvanceIndex(sz, w[k], t)
      BY LimitedIsWalk
    <2> QED
      BY <1>2, <2>1
  <1>5. Walks(sz, p, t, m, w)
    <2>1. LimitedBy(sz, t, d, m, w)
      BY <1>4 DEF LimitedBy
    <2>2. \A k \in Int : 0 <= k /\ k < m => Towards(p, t, k) # Position(sz, d)
      BY <1>1, <1>3
    <2>3. m <= m
      OBVIOUS
    <2> QED
      BY <2>1, <2>2, <2>3, LimitedWalks
  <1>6. w[m] \in Places(sz) /\ Position(sz, w[m]) = p + t
    <2>1. /\ w[0] \in Places(sz) /\ Position(sz, w[0]) = p /\ p \in Int /\ 0 <= p
          /\ 0 <= Towards(p, t, m) /\ Towards(p, t, m) <= Cardinality(Row(sz))
      BY <1>1, <1>3, <1>4
    <2>2. \A k \in Int : 0 <= k /\ k <= m =>
            w[k] \in Places(sz) /\ Position(sz, w[k]) = Towards(p, t, k)
      BY <1>1, <1>5, <2>1, Walking
    <2> QED
      BY <1>3, <2>2
  <1> QED
    BY <1>1, <1>4, <1>6

\* distance(from:to:) is the difference of the places.
LEMMA StepsFacts ==
    ASSUME NEW sz \in Sizes, NEW i \in Places(sz), NEW j \in Places(sz),
           Position(sz, i) <= Position(sz, j)
    PROVE  Steps(sz, i, j) = Position(sz, j) - Position(sz, i)
  <1>1. PICK p \in Nat, q \in Nat, c \in Nat :
          /\ p = Position(sz, i) /\ q = Position(sz, j) /\ c = Cardinality(Row(sz))
          /\ p <= c /\ q <= c /\ p <= q
    BY PositionFacts, RowIsFinite
  <1>2. PICK d \in 0 .. c : d = q - p
    BY <1>1
  <1> DEFINE There(t) == OffsetBy(sz, i, t) = j
             Count(t) == There(t) /\ \A m \in 0 .. t - 1 : ~There(m)
  <1>3. \A m \in Int : 0 <= m /\ m <= d => (There(m) <=> m = d)
    <2> SUFFICES ASSUME NEW m \in Int, 0 <= m, m <= d PROVE There(m) <=> m = d
      OBVIOUS
    <2>1. 0 <= p + m /\ p + m <= c
      BY <1>1, <1>2
    <2>2. OffsetBy(sz, i, m) \in Places(sz) /\ Position(sz, OffsetBy(sz, i, m)) = p + m
      BY <1>1, <2>1, OffsetFacts
    <2>3. OffsetBy(sz, i, m) = j <=> p + m = q
      BY <1>1, <2>2, BeforeMeans
    <2>4. p + m = q <=> m = d
      BY <1>2
    <2> QED
      BY <2>3, <2>4
  <1>4. Steps(sz, i, j) = CHOOSE t \in 0 .. c : Count(t)
    BY <1>1 DEF Steps
  <1> HIDE DEF There
  <1>5. Count(d)
    BY <1>3
  <1>6. ASSUME NEW t \in 0 .. c, Count(t) PROVE t = d
    <2>1. CASE t <= d
      BY <1>3, <1>6, <2>1
    <2>2. CASE ~(t <= d)
      <3>1. d \in 0 .. t - 1 /\ There(d)
        BY <1>3, <2>2
      <3> QED
        BY <1>6, <3>1
    <2> QED
      BY <2>1, <2>2
  <1> HIDE DEF Count
  <1>7. Steps(sz, i, j) = d
    BY <1>4, <1>5, <1>6
  <1> QED
    BY <1>1, <1>2, <1>7

LEMMA DistanceFacts ==
    ASSUME NEW sz \in Sizes, NEW i \in Places(sz), NEW j \in Places(sz)
    PROVE  Distance(sz, i, j) = Position(sz, j) - Position(sz, i)
  <1>1. PICK p \in Nat, q \in Nat : p = Position(sz, i) /\ q = Position(sz, j)
    BY PositionFacts
  <1>2. CASE Before(j, i)
    <2>1. q <= p
      BY <1>1, <1>2, BeforeIsLess
    <2>2. Steps(sz, j, i) = p - q
      BY <1>1, <2>1, StepsFacts
    <2>3. Distance(sz, i, j) = -(p - q)
      BY <1>2, <2>2 DEF Distance
    <2> QED
      BY <1>1, <2>3
  <1>3. CASE ~Before(j, i)
    <2>1. p <= q
      BY <1>1, <1>3, BeforeMeans
    <2>2. Steps(sz, i, j) = q - p
      BY <1>1, <2>1, StepsFacts
    <2> QED
      BY <1>1, <1>3, <2>2 DEF Distance
  <1> QED
    BY <1>2, <1>3

-----------------------------------------------------------------------------
(***************************************************************************)
(* The invariant: the cursors, and the iterator between two calls.         *)
(***************************************************************************)
FlatteningInv ==
  /\ size \in Sizes
  /\ cursor \in [Cursors -> Places(size)] /\ steps \in [Cursors -> Int]
  /\ \A c \in Cursors : Position(size, cursor[c]) = steps[c]
  /\ base \in Int /\ 0 <= base /\ base <= Len(size)
  /\ inner \in Nat /\ returned \in Int
  /\ base = 0 => inner = 0 /\ returned = 0
  /\ base > 0 /\ inner = 0 =>
       ~(SizeOf(size, base - 1) > 0) /\ base = Len(size) /\ returned = RowLength
  /\ base > 0 /\ inner > 0 =>
       /\ inner <= SizeOf(size, base - 1)
       /\ returned = Position(size, Index(base - 1, inner - 1)) + 1

LEMMA StartFacts ==
    ASSUME NEW sz \in Sizes
    PROVE  StartIndex(sz) \in Places(sz) /\ Position(sz, StartIndex(sz)) = 0
  <1>1. StartIndex(sz) \in Places(sz) /\ Preceding(sz, StartIndex(sz)) = {}
    <2>1. ASSUME NEW j \in Row(sz)
          PROVE  /\ j.outer \in Int /\ 0 <= j.outer /\ j.outer < Len(sz)
                 /\ SizeOf(sz, j.outer) > 0
                 /\ j.inner \in Int /\ 0 <= j.inner
      <3>1. /\ j.outer \in Int /\ 0 <= j.outer /\ j.outer < Len(sz)
            /\ j.inner \in Int /\ 0 <= j.inner /\ j.inner < SizeOf(sz, j.outer)
        BY RowFacts
      <3>2. SizeOf(sz, j.outer) \in Int
        BY <3>1, SizesFacts
      <3> QED
        BY <3>1, <3>2
    <2>2. CASE /\ FirstFrom(sz, 0) = EndIndex(sz)
               /\ \A o \in Int : 0 <= o /\ o < Len(sz) => ~(SizeOf(sz, o) > 0)
      <3>1. Row(sz) = {}
        BY <2>1, <2>2
      <3> QED
        BY <2>2, <3>1, PrecedingFacts DEF StartIndex, Places
    <2>3. ASSUME NEW o \in Int, FirstFrom(sz, 0) = Index(o, 0),
                 0 <= o, o < Len(sz), SizeOf(sz, o) > 0,
                 \A p \in Int : 0 <= p /\ p < o => ~(SizeOf(sz, p) > 0)
          PROVE  StartIndex(sz) \in Places(sz) /\ Preceding(sz, StartIndex(sz)) = {}
      <3>1. PICK a \in Row(sz) : a = Index(o, 0) /\ a.outer = o /\ a.inner = 0
        <4>1. SizeOf(sz, o) \in Int /\ 0 < SizeOf(sz, o)
          BY <2>3, SizesFacts
        <4> QED
          BY <2>3, <4>1, RowFacts
      <3>2. ASSUME NEW j \in Row(sz) PROVE j \notin Preceding(sz, a)
        <4>1. j \in Preceding(sz, a) <=> j.outer < o \/ (j.outer = o /\ j.inner < 0)
          BY <3>1, PrecedingFacts
        <4>2. ~(j.outer < o)
          BY <2>1, <2>3
        <4>3. ~(j.inner < 0)
          BY <2>1
        <4> QED
          BY <4>1, <4>2, <4>3
      <3>3. Preceding(sz, a) = {}
        BY <3>2, PrecedingFacts
      <3> QED
        BY <2>3, <3>1, <3>3 DEF StartIndex, Places
    <2>4. 0 \in Int /\ 0 <= 0
      OBVIOUS
    <2> QED
      BY <2>2, <2>3, <2>4, FirstFromFacts
  <1> QED
    BY <1>1, FS_EmptySet DEF Position

LEMMA FlatteningInitially == FlatteningInit => FlatteningInv
  <1> SUFFICES ASSUME FlatteningInit PROVE FlatteningInv
    OBVIOUS
  <1>1. size \in Sizes
    BY DEF FlatteningInit, Sizes
  <1>2. /\ cursor = [c \in Cursors |-> StartIndex(size)] /\ steps = [c \in Cursors |-> 0]
        /\ base = 0 /\ inner = 0 /\ returned = 0
    BY DEF FlatteningInit
  <1>3. Len(size) \in Nat
    BY <1>1, SizesFacts
  <1>4. cursor \in [Cursors -> Places(size)] /\ steps \in [Cursors -> Int]
    BY <1>1, <1>2, StartFacts
  <1>5. \A c \in Cursors : Position(size, cursor[c]) = steps[c]
    BY <1>1, <1>2, StartFacts
  <1> QED
    BY <1>1, <1>2, <1>3, <1>4, <1>5 DEF FlatteningInv

\* What is put into a cursor has to be where it was said to be moved to.
LEMMA PutKeeps ==
    ASSUME FlatteningInv, NEW c \in Cursors, NEW x \in Places(size), NEW moved \in Int,
           Position(size, x) = steps[c] + moved, Put(c, x, moved)
    PROVE  FlatteningInv'
  <1>1. /\ cursor' = [cursor EXCEPT ![c] = x] /\ steps' = [steps EXCEPT ![c] = @ + moved]
        /\ size' = size /\ base' = base /\ inner' = inner /\ returned' = returned
    BY DEF Put
  <1>2. /\ size \in Sizes /\ cursor \in [Cursors -> Places(size)] /\ steps \in [Cursors -> Int]
        /\ \A d \in Cursors : Position(size, cursor[d]) = steps[d]
    BY DEF FlatteningInv
  <1>3. cursor' \in [Cursors -> Places(size)] /\ steps' \in [Cursors -> Int]
    BY <1>1, <1>2
  <1>4. ASSUME NEW d \in Cursors PROVE Position(size, cursor'[d]) = steps'[d]
    BY <1>1, <1>2
  <1> QED
    BY <1>1, <1>2, <1>3, <1>4 DEF FlatteningInv, RowLength

LEMMA CursorFacts ==
    ASSUME FlatteningInv, NEW c \in Cursors
    PROVE  /\ size \in Sizes /\ cursor[c] \in Places(size) /\ steps[c] \in Int
           /\ Position(size, cursor[c]) = steps[c]
           /\ 0 <= steps[c] /\ steps[c] <= RowLength
           /\ RowLength = Cardinality(Row(size)) /\ RowLength \in Nat
  BY PositionFacts, RowIsFinite DEF FlatteningInv, RowLength

LEMMA IndexAfterKeeps ==
    ASSUME FlatteningInv, NEW c \in Cursors, FormIndexAfter(c)
    PROVE  FlatteningInv'
  <1>1. steps[c] < RowLength /\ Put(c, IndexAfter(size, cursor[c]), 1)
    BY DEF FormIndexAfter
  <1>2. cursor[c] \in Row(size)
    BY <1>1, CursorFacts, PositionFacts DEF Places
  <1> QED
    BY <1>1, <1>2, CursorFacts, OneForwards, PutKeeps

LEMMA IndexBeforeKeeps ==
    ASSUME FlatteningInv, NEW c \in Cursors, FormIndexBefore(c)
    PROVE  FlatteningInv'
  <1>1. steps[c] > 0 /\ Put(c, IndexBefore(size, cursor[c]), -1)
    BY DEF FormIndexBefore
  <1>2. /\ IndexBefore(size, cursor[c]) \in Places(size)
        /\ Position(size, IndexBefore(size, cursor[c])) = steps[c] - 1
    BY <1>1, CursorFacts, OneBackwards
  <1>3. steps[c] - 1 = steps[c] + (-1) /\ -1 \in Int
    BY CursorFacts
  <1> QED
    BY <1>1, <1>2, <1>3, PutKeeps

LEMMA OffsetKeeps ==
    ASSUME FlatteningInv, NEW c \in Cursors, NEW t \in Int, FormOffset(c, t)
    PROVE  FlatteningInv'
  <1>1. steps[c] + t \in 0 .. RowLength /\ Put(c, OffsetBy(size, cursor[c], t), t)
    BY DEF FormOffset
  <1>2. 0 <= steps[c] + t /\ steps[c] + t <= RowLength
    BY <1>1, CursorFacts
  <1>3. /\ OffsetBy(size, cursor[c], t) \in Places(size)
        /\ Position(size, OffsetBy(size, cursor[c], t)) = steps[c] + t
    BY <1>2, CursorFacts, OffsetFacts
  <1> QED
    BY <1>1, <1>3, PutKeeps

LEMMA LimitedKeeps ==
    ASSUME FlatteningInv, NEW c \in Cursors, NEW d \in Cursors, NEW t \in Int,
           FormLimited(c, d, t)
    PROVE  FlatteningInv'
  <1> DEFINE reached == OffsetByLimited(size, cursor[c], t, cursor[d])
             stops == OnTheWay(steps[c], steps[d], t)
  <1>1. /\ stops \/ steps[c] + t \in 0 .. RowLength
        /\ Put(c, IF reached = Nil THEN cursor[d] ELSE reached,
               IF stops THEN steps[d] - steps[c] ELSE t)
    BY DEF FormLimited, OnTheWay
  <1>2. /\ size \in Sizes /\ cursor[c] \in Places(size) /\ cursor[d] \in Places(size)
        /\ steps[c] \in Int /\ steps[d] \in Int
        /\ Position(size, cursor[c]) = steps[c] /\ Position(size, cursor[d]) = steps[d]
    BY CursorFacts
  <1>3. CASE stops
    <2>1. reached = Nil
      BY <1>2, <1>3, LimitedStops
    <2>2. Put(c, cursor[d], steps[d] - steps[c])
      <3> HIDE DEF reached, stops
      <3> QED
        BY <1>1, <1>3, <2>1
    <2>3. steps[d] - steps[c] \in Int /\ steps[c] + (steps[d] - steps[c]) = steps[d]
      BY <1>2
    <2>4. Position(size, cursor[d]) = steps[c] + (steps[d] - steps[c])
      BY <1>2, <2>3
    <2> QED
      BY <1>2, <2>2, <2>3, <2>4, PutKeeps
  <1>4. CASE ~stops
    <2>1. 0 <= steps[c] + t /\ steps[c] + t <= Cardinality(Row(size))
      <3> HIDE DEF stops, reached
      <3> QED
        BY <1>1, <1>4, CursorFacts
    <2>2. reached \in Places(size) /\ Position(size, reached) = steps[c] + t
      BY <1>2, <1>4, <2>1, LimitedReaches
    <2>3. reached # Nil
      BY <1>2, <2>2, NilIsNoPlace
    <2> HIDE DEF reached, stops
    <2>4. Put(c, reached, t)
      BY <1>1, <1>4, <2>3
    <2> QED
      BY <2>2, <2>4, PutKeeps
  <1> QED
    BY <1>3, <1>4
\* Behind the last element of an inner collection comes what the search finds.
LEMMA LastOfInner ==
    ASSUME NEW sz \in Sizes, NEW b \in Int, 0 < b, b <= Len(sz), SizeOf(sz, b - 1) > 0
    PROVE  LET i == Index(b - 1, SizeOf(sz, b - 1) - 1)
           IN  /\ FirstFrom(sz, b) \in Places(sz)
               /\ Position(sz, FirstFrom(sz, b)) = Position(sz, i) + 1
  <1>1. PICK o \in Int : o = b - 1 /\ 0 <= o /\ o < Len(sz) /\ o + 1 = b
    <2>1. PICK L \in Nat : L = Len(sz)
      BY SizesFacts
    <2>2. b - 1 \in Int /\ 0 <= b - 1 /\ b - 1 < L /\ (b - 1) + 1 = b
      BY <2>1
    <2> QED
      BY <2>1, <2>2
  <1>2. PICK t \in Int : t = SizeOf(sz, o) /\ t > 0
    BY <1>1, SizesFacts
  <1>3. PICK i \in Row(sz) : i = Index(o, t - 1) /\ i.outer = o /\ i.inner = t - 1
    <2>1. t - 1 \in Int /\ 0 <= t - 1 /\ t - 1 < t
      BY <1>2
    <2> QED
      BY <1>1, <1>2, <2>1, RowFacts
  <1>4. IndexAfter(sz, i) = FirstFrom(sz, b)
    <2>1. ~((t - 1) + 1 < t)
      BY <1>2
    <2> QED
      BY <1>1, <1>2, <1>3, <2>1 DEF IndexAfter
  <1> QED
    BY <1>1, <1>2, <1>3, <1>4, OneForwards

\* What the search finds is the end or the first element of a collection.
LEMMA FoundFacts ==
    ASSUME NEW sz \in Sizes, NEW b \in Int, 0 <= b, FirstFrom(sz, b) # EndIndex(sz)
    PROVE  \E o \in Int : /\ FirstFrom(sz, b) = Index(o, 0) /\ Index(o, 0).outer = o
                          /\ 0 <= o /\ o < Len(sz) /\ 1 <= SizeOf(sz, o)
  <1>1. PICK o \in Int : /\ FirstFrom(sz, b) = Index(o, 0)
                         /\ b <= o /\ o < Len(sz) /\ SizeOf(sz, o) > 0
    BY FirstFromFacts
  <1>2. 0 <= o
    BY <1>1
  <1>3. 1 <= SizeOf(sz, o)
    BY <1>1, <1>2, SizesFacts
  <1> QED
    BY <1>1, <1>2, <1>3 DEF Index

LEMMA IteratorKeeps ==
    ASSUME FlatteningInv, IteratorNext PROVE FlatteningInv'
  <1>1. /\ size \in Sizes /\ base \in Int /\ 0 <= base /\ base <= Len(size)
        /\ inner \in Nat /\ returned \in Int
    BY DEF FlatteningInv
  <1>2. /\ base = 0 => inner = 0 /\ returned = 0
        /\ base > 0 /\ inner = 0 =>
             ~(SizeOf(size, base - 1) > 0) /\ base = Len(size) /\ returned = RowLength
        /\ base > 0 /\ inner > 0 =>
             /\ inner <= SizeOf(size, base - 1)
             /\ returned = Position(size, Index(base - 1, inner - 1)) + 1
    BY DEF FlatteningInv
  <1>3. UNCHANGED <<size, cursor, steps>>
    BY DEF IteratorNext
  <1>4. RowLength' = RowLength /\ RowLength \in Nat /\ Len(size) \in Nat
    BY <1>1, <1>3, RowIsFinite, SizesFacts DEF RowLength
  <1> DEFINE following == FirstFrom(size, base)
  (* What the three ways of next() have to show. *)
  <1>5. ASSUME base' \in Int, 0 <= base', base' <= Len(size), inner' \in Nat, returned' \in Int,
               base' = 0 => inner' = 0 /\ returned' = 0,
               base' > 0 /\ inner' = 0 =>
                 /\ ~(SizeOf(size, base' - 1) > 0) /\ base' = Len(size)
                 /\ returned' = RowLength,
               base' > 0 /\ inner' > 0 =>
                 /\ inner' <= SizeOf(size, base' - 1)
                 /\ returned' = Position(size, Index(base' - 1, inner' - 1)) + 1
        PROVE  FlatteningInv'
    BY <1>1, <1>3, <1>4, <1>5 DEF FlatteningInv
  (* Where the last collection is used up, the search goes on from the place *)
  (* of the next element.                                                    *)
  <1>6. ASSUME ~(base > 0 /\ inner < SizeOf(size, base - 1)), base = 0 \/ inner > 0
        PROVE  following \in Places(size) /\ Position(size, following) = returned
    <2>1. CASE base = 0
      BY <1>1, <1>2, <2>1, StartFacts DEF StartIndex
    <2>2. CASE base # 0
      <3>1. base > 0 /\ inner > 0
        BY <1>1, <1>6, <2>2
      <3>2. SizeOf(size, base - 1) \in Int
        <4>1. base - 1 \in Int /\ 0 <= base - 1 /\ base - 1 < Len(size)
          BY <1>1, <1>4, <3>1
        <4> QED
          BY <1>1, <4>1, SizesFacts
      <3>3. inner = SizeOf(size, base - 1) /\ SizeOf(size, base - 1) > 0
        BY <1>1, <1>2, <1>6, <3>1, <3>2
      <3>4. returned = Position(size, Index(base - 1, SizeOf(size, base - 1) - 1)) + 1
        BY <1>2, <3>1, <3>3
      <3> QED
        BY <1>1, <3>1, <3>3, <3>4, LastOfInner
    <2> QED
      BY <2>1, <2>2
  <1>7. CASE base > 0 /\ inner < SizeOf(size, base - 1)
    <2>1. base' = base /\ inner' = inner + 1 /\ returned' = returned + 1
      BY <1>7 DEF IteratorNext
    <2>2. inner > 0
      BY <1>1, <1>2, <1>7
    <2>3. PICK o \in Int : o = base - 1 /\ 0 <= o /\ o < Len(size)
      <3>1. base - 1 \in Int /\ 0 <= base - 1 /\ base - 1 < Len(size)
        BY <1>1, <1>4, <1>7
      <3> QED
        BY <3>1
    <2>4. PICK t \in Int : t = SizeOf(size, o) /\ inner < t
      BY <1>1, <1>7, <2>3, SizesFacts
    <2>5. PICK i \in Row(size) : i = Index(o, inner - 1) /\ i.outer = o /\ i.inner = inner - 1
      <3>1. inner - 1 \in Int /\ 0 <= inner - 1 /\ inner - 1 < t
        BY <1>1, <2>2, <2>4
      <3> QED
        BY <1>1, <2>3, <2>4, <3>1, RowFacts
    <2>6. IndexAfter(size, i) = Index(o, inner)
      <3>1. (inner - 1) + 1 = inner
        BY <1>1
      <3> QED
        BY <2>4, <2>5, <3>1 DEF IndexAfter
    <2>7. Position(size, Index(o, inner)) = returned
      <3>1. returned = Position(size, i) + 1
        BY <1>2, <1>7, <2>2, <2>3, <2>5
      <3> QED
        BY <1>1, <2>6, <3>1, OneForwards
    <2>8. inner' - 1 = inner /\ inner' \in Nat /\ inner' > 0 /\ inner' <= t /\ returned' \in Int
      BY <1>1, <2>1, <2>4
    <2> HIDE DEF following
    <2> QED
      BY <1>1, <1>5, <1>7, <2>1, <2>3, <2>4, <2>7, <2>8
  <1>8. CASE ~(base > 0 /\ inner < SizeOf(size, base - 1)) /\ following # EndIndex(size)
    <2>1. base' = following.outer + 1 /\ inner' = 1 /\ returned' = returned + 1
      BY <1>8 DEF IteratorNext
    <2>2. PICK o \in Int : /\ following = Index(o, 0) /\ Index(o, 0).outer = o
                           /\ 0 <= o /\ o < Len(size) /\ 1 <= SizeOf(size, o)
      BY <1>1, <1>8, FoundFacts
    <2>3. base = 0 \/ inner > 0
      <3> SUFFICES ASSUME base > 0, inner = 0 PROVE FALSE
        BY <1>1
      <3>1. base = Len(size)
        BY <1>2
      <3>2. following = EndIndex(size)
        <4>1. ASSUME NEW q \in Int, base <= q, q < Len(size) PROVE FALSE
          BY <1>1, <1>4, <3>1, <4>1
        <4> QED
          BY <1>1, <4>1, FirstFromFacts
      <3> QED
        BY <1>8, <3>2
    <2>4. Position(size, following) = returned
      BY <1>6, <1>8, <2>3
    <2> HIDE DEF following
    <2>5. base' = o + 1 /\ base' - 1 = o /\ inner' - 1 = 0
      BY <2>1, <2>2
    <2>6. base' \in Int /\ base' > 0 /\ base' <= Len(size) /\ returned' \in Int
      BY <1>1, <1>4, <2>1, <2>2, <2>5
    <2>7. returned' = Position(size, Index(o, 0)) + 1
      BY <2>1, <2>2, <2>4
    <2> QED
      BY <1>5, <2>1, <2>2, <2>5, <2>6, <2>7
  <1>9. CASE ~(base > 0 /\ inner < SizeOf(size, base - 1)) /\ following = EndIndex(size)
    <2>1. /\ base' = Len(size) /\ inner' = (IF base = Len(size) THEN inner ELSE 0)
          /\ returned' = returned
      BY <1>9 DEF IteratorNext
    <2>2. CASE base = Len(size)
      <3>1. base' = base /\ inner' = inner /\ returned' = returned
        BY <2>1, <2>2
      <3> HIDE DEF following
      <3> QED
        BY <1>1, <1>2, <1>5, <3>1
    <2>3. CASE base # Len(size)
      <3>1. base' = Len(size) /\ inner' = 0 /\ returned' = returned
        BY <2>1, <2>3
      <3>2. base = 0 \/ inner > 0
        BY <1>1, <1>2, <2>3
      <3>3. returned = RowLength
        <4>1. Position(size, following) = returned
          BY <1>6, <1>9, <3>2
        <4> QED
          BY <1>1, <1>9, <4>1, PositionFacts DEF RowLength
      <3>4. base < Len(size)
        BY <1>1, <1>4, <2>3
      <3>5. ~(SizeOf(size, Len(size) - 1) > 0)
        <4>1. PICK o \in Int : o = Len(size) - 1 /\ base <= o /\ o < Len(size)
          <5>1. Len(size) - 1 \in Int /\ base <= Len(size) - 1 /\ Len(size) - 1 < Len(size)
            BY <1>1, <1>4, <3>4
          <5> QED
            BY <5>1
        <4>2. ASSUME NEW q \in Int, q < Len(size), 0 <= q PROVE Index(q, 0) # EndIndex(size)
          <5>1. Index(q, 0).outer = q /\ EndIndex(size).outer = Len(size)
            BY <1>1, RowFacts DEF Index
          <5> QED
            BY <1>4, <4>2, <5>1
        <4>3. \A q \in Int : base <= q /\ q < Len(size) => ~(SizeOf(size, q) > 0)
          <5>1. ASSUME NEW q \in Int, base <= q PROVE 0 <= q
            BY <1>1, <5>1
          <5> QED
            BY <1>1, <1>9, <4>2, <5>1, FirstFromFacts
        <4> QED
          BY <4>1, <4>3
      <3> HIDE DEF following
      <3>6. base' \in Int /\ base' > 0 /\ base' <= Len(size) /\ inner' \in Nat
        BY <1>1, <1>4, <3>1, <3>4
      <3> QED
        BY <1>1, <1>5, <3>1, <3>3, <3>5, <3>6
    <2> QED
      BY <2>2, <2>3
  <1> QED
    BY <1>7, <1>8, <1>9

LEMMA FlatteningStutters == FlatteningInv /\ UNCHANGED flattening => FlatteningInv'
  BY DEF FlatteningInv, flattening, RowLength

LEMMA FlatteningPreserved == FlatteningInv /\ [FlatteningNext]_flattening => FlatteningInv'
  <1> SUFFICES ASSUME FlatteningInv, [FlatteningNext]_flattening PROVE FlatteningInv'
    OBVIOUS
  <1>1. ASSUME NEW t \in Offsets PROVE t \in Int
    BY FlatteningAssumption DEF Offsets
  <1>2. CASE \E c \in Cursors : FormIndexAfter(c) \/ FormIndexBefore(c)
    BY <1>2, IndexAfterKeeps, IndexBeforeKeeps
  <1>3. CASE \E c \in Cursors, t \in Offsets : FormOffset(c, t)
    BY <1>1, <1>3, OffsetKeeps
  <1>4. CASE \E c, d \in Cursors, t \in Offsets : FormLimited(c, d, t)
    BY <1>1, <1>4, LimitedKeeps
  <1>5. CASE IteratorNext
    BY <1>5, IteratorKeeps
  <1>6. CASE UNCHANGED flattening
    BY <1>6, FlatteningStutters
  <1> QED
    BY <1>2, <1>3, <1>4, <1>5, <1>6 DEF FlatteningNext

LEMMA FlatteningPromises == FlatteningInv => IndicesFollowTheRow
  <1> SUFFICES ASSUME FlatteningInv PROVE IndicesFollowTheRow
    OBVIOUS
  <1>1. size \in Sizes
    BY DEF FlatteningInv
  <1>2. ASSUME NEW c \in Cursors
        PROVE  /\ cursor[c] \in Row(size) \cup {EndIndex(size)}
               /\ PositionOf(cursor[c]) = steps[c]
    BY CursorFacts DEF Places, Position, PositionOf
  <1>3. ASSUME NEW c \in Cursors, NEW d \in Cursors
        PROVE  /\ Distance(size, cursor[c], cursor[d]) = steps[d] - steps[c]
               /\ Before(cursor[c], cursor[d]) <=> steps[c] < steps[d]
    <2>1. /\ cursor[c] \in Places(size) /\ cursor[d] \in Places(size)
          /\ Position(size, cursor[c]) = steps[c] /\ Position(size, cursor[d]) = steps[d]
      BY CursorFacts
    <2> QED
      BY <1>1, <2>1, DistanceFacts, BeforeMeans
  <1>4. IF inner > 0 THEN returned = PositionOf(Index(base - 1, inner - 1)) + 1
        ELSE base > 0 => returned = RowLength
    BY DEF FlatteningInv, Position, PositionOf
  <1> QED
    BY <1>2, <1>3, <1>4 DEF IndicesFollowTheRow

(* Wherever two indices of a flattened collection are moved, each is where *)
(* it was told to go, distances and order agree with that, and the         *)
(* iterator comes by the same elements (src/Flatten.swift).                *)
THEOREM FlatteningFollowsTheRow == FlatteningSpec => []IndicesFollowTheRow
  <1>1. FlatteningSpec => []FlatteningInv
    BY FlatteningInitially, FlatteningPreserved, PTL DEF FlatteningSpec
  <1> QED
    BY <1>1, FlatteningPromises, PTL

-----------------------------------------------------------------------------
(*****************************************************************************)
(* One of them at work in a program, the others not yet called.              *)
(*****************************************************************************)

LEMMA AlgorithmsAreReorderings == AlgorithmsSpec => ReorderingSpec
  <1>1. AlgorithmsInit => ReorderingInit
    BY DEF AlgorithmsInit
  <1>2. [AlgorithmsNext]_algorithms => [ReorderingNext]_reordering
    BY DEF AlgorithmsNext, algorithms, Reordered
  <1> QED BY <1>1, <1>2, PTL DEF AlgorithmsSpec, ReorderingSpec

LEMMA AlgorithmsAreMemory == AlgorithmsSpec => MemorySpec
  <1>1. AlgorithmsInit => MemoryInit
    BY DEF AlgorithmsInit
  <1>2. [AlgorithmsNext]_algorithms => [MemoryNext]_memory
    BY DEF AlgorithmsNext, algorithms
  <1> QED BY <1>1, <1>2, PTL DEF AlgorithmsSpec, MemorySpec

LEMMA AlgorithmsAreStrides == AlgorithmsSpec => StridesSpec
  <1>1. AlgorithmsInit => StridesInit
    BY DEF AlgorithmsInit
  <1>2. [AlgorithmsNext]_algorithms => [StridesNext]_striding
    BY DEF AlgorithmsNext, algorithms
  <1> QED BY <1>1, <1>2, PTL DEF AlgorithmsSpec, StridesSpec

LEMMA AlgorithmsAreFlattenings == AlgorithmsSpec => FlatteningSpec
  <1>1. AlgorithmsInit => FlatteningInit
    BY DEF AlgorithmsInit
  <1>2. [AlgorithmsNext]_algorithms => [FlatteningNext]_flattening
    BY DEF AlgorithmsNext, algorithms
  <1> QED BY <1>1, <1>2, PTL DEF AlgorithmsSpec, FlatteningSpec

(* What the single state machines promise holds in a program that uses any *)
(* of them: reordering loses no element and returns what it says; of the   *)
(* elements a closure makes none is leaked or destroyed twice; a stride    *)
(* gives its terms; the indices of a flattened collection follow the row   *)
(* of its elements; and the blocks that are live are those of the calls    *)
(* that have not returned.                                                 *)
THEOREM PromisesOfPrograms ==
  AlgorithmsSpec =>
    /\ []EveryElementKept /\ []ReturnsWhatItPromises
    /\ []ElementsAccountedFor /\ []BlocksMatchCalls
    /\ []YieldsTheTerms /\ []IndicesFollowTheRow
  <1>1. AlgorithmsSpec => []EveryElementKept /\ []ReturnsWhatItPromises
    BY AlgorithmsAreReorderings, KeepsEveryElement, ReturnsPromised, PTL
  <1>2. AlgorithmsSpec => []ElementsAccountedFor
    BY AlgorithmsAreMemory, MemoryElements, PTL
  <1>3. AlgorithmsSpec => []YieldsTheTerms
    BY AlgorithmsAreStrides, StridesYieldTheTerms, PTL
  <1>4. AlgorithmsSpec => []BlocksMatchCalls
    BY AlgorithmsAreMemory, MemoryBlocks, PTL
  <1>5. AlgorithmsSpec => []IndicesFollowTheRow
    BY AlgorithmsAreFlattenings, FlatteningFollowsTheRow, PTL
  <1> QED BY <1>1, <1>2, <1>3, <1>4, <1>5, PTL
=============================================================================
