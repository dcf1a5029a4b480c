----------------------------- MODULE Once_proofs -----------------------------
(***************************************************************************)
(* For every set of contexts, priorities and globals: as long as no        *)
(* initialiser comes back to its own global, swift_once initialises each   *)
(* global once and before its use, unless a handler that may reach the     *)
(* global interrupts its initialisation.                                   *)
(*                                                                         *)
(* The argument: a global that is being initialised lies below the running *)
(* code on the stack, and nothing above it can reach it again -- code that *)
(* an initialiser starts because initialisers are acyclic, handlers        *)
(* because the global would be disturbed.                                  *)
(***************************************************************************)
EXTENDS Once, FiniteSetTheorems, TLAPS

(* What runs above a global cannot reach it. *)
Apart ==
  \A j \in 1 .. Len(stack), i \in 1 .. Len(stack) :
    i < j /\ stack[i].code \in Globals \ disturbed
      => stack[i].code \notin Reached[stack[j].code]

(* Predicate, frame and count of one global agree. *)
Consistent(g) ==
  /\ runs[g] \in {0, 1}
  /\ predicate[g] = 0 => runs[g] = 0
  /\ predicate[g] # 0 /\ runs[g] = 0
       => \E i \in 1 .. Len(stack) : stack[i] = Frame(g, "running")
  /\ \A i \in 1 .. Len(stack) :
       stack[i].code = g => runs[g] = 0 /\ (stack[i].at = "running" => predicate[g] # 0)

IInv ==
  /\ TypeOK /\ stack[1] = Frame(Main, "running")
  /\ Apart
  /\ \A g \in Globals \ disturbed : Consistent(g)

-----------------------------------------------------------------------------
(* What Append and SubSeq make of a stack. *)
LEMMA PushFacts ==
  ASSUME NEW F, NEW s \in Seq(F), NEW f \in F
  PROVE  /\ Append(s, f) \in Seq(F) /\ Len(Append(s, f)) = Len(s) + 1
         /\ \A i \in 1 .. Len(s) : Append(s, f)[i] = s[i]
         /\ Append(s, f)[Len(s) + 1] = f
  OBVIOUS

LEMMA PopFacts ==
  ASSUME NEW F, NEW s \in Seq(F), Len(s) > 1
  PROVE  LET t == SubSeq(s, 1, Len(s) - 1)
         IN  t \in Seq(F) /\ Len(t) = Len(s) - 1
             /\ \A i \in 1 .. Len(s) - 1 : t[i] = s[i]
  OBVIOUS

(* The initial state. *)
LEMMA InitIInv == Init => IInv
  <1> SUFFICES ASSUME Init PROVE IInv
    OBVIOUS
  <1> USE DEF Init
  <1>1. TypeOK
    BY ContextsAssumption DEF TypeOK, Frame, Code
  <1>2. Len(stack) = 1 /\ stack[1] = Frame(Main, "running")
    OBVIOUS
  <1>3. Apart
    BY <1>2 DEF Apart
  <1>4. \A g \in Globals : Main # g
    BY ContextsAssumption
  <1>5. \A g \in Globals : Consistent(g)
    BY <1>2, <1>4 DEF Consistent, Frame
  <1> QED
    BY <1>1, <1>2, <1>3, <1>5 DEF IInv

(* An access that finds the predicate zero. *)
LEMMA TestPredicateStep ==
  ASSUME IInv, Acyclic, NEW d \in Code, NEW g \in Globals, TestPredicate(d, g)
  PROVE  IInv'
  <1> DEFINE F == [code : Code, at : {"tested", "running"}]
             n == Len(stack)
  <1>1. stack \in Seq(F) /\ n \in Nat /\ n > 0 /\ Frame(g, "tested") \in F
    BY DEF IInv, TypeOK, Frame, Code
  <1>2. stack' \in Seq(F) /\ Len(stack') = n + 1
        /\ (\A i \in 1 .. n : stack'[i] = stack[i]) /\ stack'[n + 1] = Frame(g, "tested")
    <2> HIDE DEF F
    <2> QED
      BY <1>1, PushFacts DEF TestPredicate, Push
  <1>3. stack[n] = Frame(d, "running") /\ g \in Uses[d] /\ predicate[g] = 0
        /\ UNCHANGED <<predicate, runs, disturbed>>
    BY DEF TestPredicate, Running, Top
  <1>4. TypeOK'
    BY <1>2, <1>3, <1>1 DEF IInv, TypeOK
  <1>5. Apart'
    <2> SUFFICES ASSUME NEW j \in 1 .. n + 1, NEW i \in 1 .. n + 1, i < j,
                        stack'[i].code \in Globals \ disturbed
                 PROVE  stack'[i].code \notin Reached[stack'[j].code]
      BY <1>2, <1>3 DEF Apart
    <2>1. i \in 1 .. n /\ stack'[i] = stack[i]
      BY <1>1, <1>2
    <2>2. CASE j \in 1 .. n
      BY <2>1, <2>2, <1>2 DEF IInv, Apart
    <2>3. CASE j = n + 1
      <3>1. stack'[j].code = g /\ Reached[g] \subseteq Reached[d] /\ stack[n].code = d
        BY <2>3, <1>2, <1>3, UsesAssumption DEF Frame
      <3>2. CASE i = n
        BY <3>1, <3>2, <2>1, <1>3 DEF Acyclic
      <3>3. CASE i < n
        <4>1. n \in 1 .. n
          BY <1>1
        <4> QED
          BY <4>1, <3>1, <3>3, <2>1 DEF IInv, Apart
      <3> QED
        BY <3>2, <3>3, <2>1, <1>1
    <2> QED
      BY <2>2, <2>3, <1>1
  <1>6. ASSUME NEW h \in Globals \ disturbed
        PROVE  Consistent(h)'
    <2>1. Consistent(h)
      BY DEF IInv
    <2>2. h = g => runs[h] = 0
      BY <2>1, <1>3 DEF Consistent
    <2>3. predicate[h] # 0 /\ runs[h] = 0
            => \E i \in 1 .. n + 1 : stack'[i] = Frame(h, "running")
      BY <2>1, <1>1, <1>2 DEF Consistent
    <2>4. ASSUME NEW i \in 1 .. n + 1, stack'[i].code = h
          PROVE  runs[h] = 0 /\ (stack'[i].at = "running" => predicate[h] # 0)
      <3>1. CASE i \in 1 .. n
        BY <3>1, <2>4, <2>1, <1>2 DEF Consistent
      <3>2. CASE i = n + 1
        BY <3>2, <2>4, <2>2, <1>2 DEF Frame
      <3> QED
        BY <3>1, <3>2, <1>1
    <2> QED
      BY <2>1, <2>3, <2>4, <1>2, <1>3 DEF Consistent
  <1>7. stack'[1] = Frame(Main, "running")
    BY <1>1, <1>2 DEF IInv
  <1> QED
    BY <1>3, <1>4, <1>5, <1>6, <1>7 DEF IInv

(* The predicate is set and the initialiser called. *)
LEMMA SetPredicateStep ==
  ASSUME IInv, NEW g \in Globals, SetPredicate(g)
  PROVE  IInv'
  <1> DEFINE F == [code : Code, at : {"tested", "running"}]
             n == Len(stack)
  <1>1. stack \in Seq(F) /\ n \in Nat /\ n > 0 /\ n \in 1 .. n
    BY DEF IInv, TypeOK
  <1>2. stack[n] = Frame(g, "tested") /\ UNCHANGED <<runs, disturbed>>
        /\ predicate' = [predicate EXCEPT ![g] = -1]
        /\ stack' = [stack EXCEPT ![n] = Frame(g, "running")]
    BY DEF SetPredicate, Top
  <1>3. stack' \in Seq(F) /\ Len(stack') = n
    <2>1. Frame(g, "running") \in F
      BY DEF Frame, Code
    <2> HIDE DEF F
    <2> QED
      BY <2>1, <1>1, <1>2
  <1>4. (\A i \in 1 .. n : i # n => stack'[i] = stack[i])
        /\ stack'[n] = Frame(g, "running")
    BY <1>1, <1>2 DEF Frame
  <1>5. \A i \in 1 .. n : stack'[i].code = stack[i].code
    BY <1>2, <1>4 DEF Frame
  <1>6. TypeOK'
    BY <1>1, <1>2, <1>3 DEF IInv, TypeOK
  <1>7. Apart'
    BY <1>2, <1>3, <1>5 DEF IInv, Apart
  <1>8. ASSUME NEW h \in Globals \ disturbed
        PROVE  Consistent(h)'
    <2>1. Consistent(h) /\ predicate \in [Globals -> {0, -1}]
      BY DEF IInv, TypeOK
    <2>2. CASE h = g
      <3>1. runs[h] = 0 /\ predicate'[h] = -1
        BY <2>1, <2>2, <1>1, <1>2 DEF Consistent, Frame
      <3>2. \E i \in 1 .. n : stack'[i] = Frame(h, "running")
        BY <2>2, <1>1, <1>4
      <3>3. predicate'[h] # 0 /\ runs'[h] = 0
        BY <3>1, <1>2
      <3> QED
        BY <3>2, <3>3, <1>3 DEF Consistent
    <2>3. CASE h # g
      <3>1. predicate'[h] = predicate[h] /\ stack[n].code # h /\ stack'[n].code # h
        BY <2>1, <2>3, <1>2, <1>4 DEF Frame
      <3>2. \A i \in 1 .. n : stack[i].code = h => stack'[i] = stack[i]
        BY <3>1, <1>4
      <3>3. (\E i \in 1 .. n : stack[i] = Frame(h, "running"))
              => \E i \in 1 .. n : stack'[i] = Frame(h, "running")
        BY <3>2 DEF Frame
      <3>4. \A i \in 1 .. n : stack'[i].code = h => stack'[i] = stack[i]
        BY <3>2, <1>5
      <3> QED
        BY <2>1, <3>1, <3>3, <3>4, <1>2, <1>3 DEF Consistent
    <2> QED
      BY <2>2, <2>3
  <1>9. stack'[1] = Frame(Main, "running")
    <2>1. Main # g
      BY ContextsAssumption
    <2> QED
      BY <2>1, <1>1, <1>2, <1>4 DEF IInv, Frame
  <1> QED
    BY <1>2, <1>6, <1>7, <1>8, <1>9 DEF IInv

(* What a return leaves of the invariant but for the global that returns. *)
LEMMA PopStep ==
  ASSUME IInv, NEW d \in Code, d # Main, Running(d), Pop,
         UNCHANGED <<predicate, disturbed>>, runs' \in [Globals -> Nat],
         \A h \in Globals : h # d => runs'[h] = runs[h]
  PROVE  /\ TypeOK' /\ Apart' /\ stack'[1] = Frame(Main, "running")
         /\ \A h \in Globals \ disturbed : h # d => Consistent(h)'
         /\ d \in Globals \ disturbed => \A i \in 1 .. Len(stack') : stack'[i].code # d
  <1> DEFINE F == [code : Code, at : {"tested", "running"}]
             n == Len(stack)
  <1>1. stack \in Seq(F) /\ n \in Nat /\ n > 0 /\ n \in 1 .. n
        /\ stack[n] = Frame(d, "running") /\ stack[n].code = d
    BY DEF IInv, TypeOK, Running, Top, Frame
  <1>2. n > 1
    <2>1. n # 1
      BY <1>1 DEF IInv, Frame
    <2> HIDE DEF F, n
    <2> QED
      BY <2>1, <1>1
  <1>3. stack' \in Seq(F) /\ Len(stack') = n - 1
        /\ \A i \in 1 .. n - 1 : stack'[i] = stack[i]
    <2> HIDE DEF F
    <2> QED
      BY <1>1, <1>2, PopFacts DEF Pop
  <1>4. 1 .. n - 1 \subseteq 1 .. n /\ \A i \in 1 .. n - 1 : i < n
    BY <1>1
  <1>5. TypeOK'
    BY <1>2, <1>3, <1>1 DEF IInv, TypeOK
  <1>6. Apart'
    BY <1>3, <1>4 DEF IInv, Apart
  <1>7. stack'[1] = Frame(Main, "running")
    BY <1>1, <1>2, <1>3 DEF IInv
  <1>8. ASSUME NEW h \in Globals \ disturbed, h # d
        PROVE  Consistent(h)'
    <2>1. Consistent(h) /\ runs'[h] = runs[h] /\ predicate'[h] = predicate[h]
      BY <1>8 DEF IInv
    <2>2. \A i \in 1 .. n : stack[i].code = h => i \in 1 .. n - 1
      BY <1>1, <1>8
    <2>3. (\E i \in 1 .. n : stack[i] = Frame(h, "running"))
            => \E i \in 1 .. n - 1 : stack'[i] = Frame(h, "running")
      BY <2>2, <1>3 DEF Frame
    <2>4. \A i \in 1 .. n - 1 : stack'[i].code = h => stack[i].code = h
      BY <1>3
    <2> QED
      BY <2>1, <2>3, <2>4, <1>3, <1>4 DEF Consistent
  <1>9. ASSUME d \in Globals \ disturbed, NEW i \in 1 .. Len(stack')
        PROVE  stack'[i].code # d
    <2>1. i \in 1 .. n /\ i < n /\ stack'[i] = stack[i]
      BY <1>3, <1>4
    <2>2. d \in Reached[d]
      BY <1>9, UsesAssumption
    <2> QED
      BY <2>1, <2>2, <1>1, <1>9 DEF IInv, Apart
  <1> QED
    BY <1>5, <1>6, <1>7, <1>8, <1>9

(* The initialiser returns. *)
LEMMA FunctionReturnsStep ==
  ASSUME IInv, NEW g \in Globals, FunctionReturns(g)
  PROVE  IInv'
  <1>1. g # Main /\ g \in Code /\ Running(g) /\ Pop /\ UNCHANGED <<predicate, disturbed>>
        /\ runs' = [runs EXCEPT ![g] = @ + 1] /\ runs \in [Globals -> Nat]
    BY ContextsAssumption DEF FunctionReturns, Code, IInv, TypeOK
  <1>2. runs' \in [Globals -> Nat] /\ \A h \in Globals : h # g => runs'[h] = runs[h]
    BY <1>1
  <1>3. /\ TypeOK' /\ Apart' /\ stack'[1] = Frame(Main, "running")
        /\ \A h \in Globals \ disturbed : h # g => Consistent(h)'
        /\ g \in Globals \ disturbed => \A i \in 1 .. Len(stack') : stack'[i].code # g
    BY <1>1, <1>2, PopStep
  <1>4. ASSUME g \notin disturbed
        PROVE  Consistent(g)'
    <2>1. Len(stack) \in 1 .. Len(stack) /\ stack[Len(stack)].code = g
          /\ stack[Len(stack)].at = "running"
      BY <1>1 DEF IInv, TypeOK, Running, Top, Frame
    <2>2. runs[g] = 0 /\ predicate[g] # 0
      BY <2>1, <1>4 DEF IInv, Consistent
    <2>3. runs'[g] = 1 /\ predicate'[g] # 0
      BY <2>2, <1>1
    <2> QED
      BY <2>3, <1>3, <1>4 DEF Consistent
  <1> QED
    BY <1>1, <1>3, <1>4 DEF IInv

(* A handler returns. *)
LEMMA InterruptReturnsStep ==
  ASSUME IInv, NEW c \in Contexts, InterruptReturns(c)
  PROVE  IInv'
  <1>1. c # Main /\ c \in Code /\ c \notin Globals /\ Running(c) /\ Pop
        /\ UNCHANGED <<predicate, runs, disturbed>> /\ runs \in [Globals -> Nat]
    BY ContextsAssumption DEF InterruptReturns, Code, IInv, TypeOK
  <1>2. /\ TypeOK' /\ Apart' /\ stack'[1] = Frame(Main, "running")
        /\ \A h \in Globals \ disturbed : h # c => Consistent(h)'
    BY <1>1, PopStep
  <1> QED
    BY <1>1, <1>2 DEF IInv

(* A handler comes in: the globals it may reach count as disturbed.       *)
LEMMA InterruptStep ==
  ASSUME IInv, NEW c \in Contexts, Interrupt(c)
  PROVE  IInv'
  <1> DEFINE F == [code : Code, at : {"tested", "running"}]
             n == Len(stack)
  <1>1. stack \in Seq(F) /\ n \in Nat /\ n > 0 /\ Frame(c, "running") \in F
        /\ c \notin Globals
    BY ContextsAssumption DEF IInv, TypeOK, Frame, Code
  <1>2. stack' \in Seq(F) /\ Len(stack') = n + 1
        /\ (\A i \in 1 .. n : stack'[i] = stack[i]) /\ stack'[n + 1] = Frame(c, "running")
    <2> HIDE DEF F
    <2> QED
      BY <1>1, PushFacts DEF Interrupt, Push
  <1>3. UNCHANGED <<predicate, runs>>
        /\ disturbed' = disturbed \cup (OnStack \cap Reached[c])
    BY DEF Interrupt
  <1>4. disturbed \subseteq disturbed' /\ disturbed' \subseteq Globals
    BY <1>3, UsesAssumption DEF IInv, TypeOK, Code
  <1>5. TypeOK'
    BY <1>1, <1>2, <1>3, <1>4 DEF IInv, TypeOK
  <1>6. Apart'
    <2> SUFFICES ASSUME NEW j \in 1 .. n + 1, NEW i \in 1 .. n + 1, i < j,
                        stack'[i].code \in Globals \ disturbed'
                 PROVE  stack'[i].code \notin Reached[stack'[j].code]
      BY <1>2 DEF Apart
    <2>1. i \in 1 .. n /\ stack'[i] = stack[i] /\ stack[i].code \in Globals \ disturbed
      BY <1>1, <1>2, <1>4
    <2>2. CASE j \in 1 .. n
      BY <2>1, <2>2, <1>2 DEF IInv, Apart
    <2>3. CASE j = n + 1
      <3>1. stack'[j].code = c
        BY <2>3, <1>2 DEF Frame
      <3>2. stack[i].code \in OnStack
        BY <2>1 DEF OnStack
      <3> QED
        BY <3>1, <3>2, <2>1, <1>3
    <2> QED
      BY <2>2, <2>3, <1>1
  <1>7. ASSUME NEW h \in Globals \ disturbed'
        PROVE  Consistent(h)'
    <2>1. Consistent(h)
      BY <1>4 DEF IInv
    <2>2. predicate[h] # 0 /\ runs[h] = 0
            => \E i \in 1 .. n + 1 : stack'[i] = Frame(h, "running")
      BY <2>1, <1>1, <1>2 DEF Consistent
    <2>3. ASSUME NEW i \in 1 .. n + 1, stack'[i].code = h
          PROVE  runs[h] = 0 /\ (stack'[i].at = "running" => predicate[h] # 0)
      <3>1. i # n + 1
        BY <2>3, <1>1, <1>2 DEF Frame
      <3>2. i \in 1 .. n
        BY <3>1, <1>1
      <3> QED
        BY <3>2, <2>3, <2>1, <1>2 DEF Consistent
    <2> QED
      BY <2>1, <2>2, <2>3, <1>2, <1>3 DEF Consistent
  <1>8. stack'[1] = Frame(Main, "running")
    BY <1>1, <1>2 DEF IInv
  <1> QED
    BY <1>5, <1>6, <1>7, <1>8 DEF IInv

-----------------------------------------------------------------------------
(* The invariant is inductive. *)
THEOREM InductiveInvariant ==
  ASSUME Acyclic
  PROVE  Spec => []IInv
  <1>1. IInv /\ [Next]_vars => IInv'
    <2> SUFFICES ASSUME IInv, [Next]_vars PROVE IInv'
      OBVIOUS
    <2>1. ASSUME NEW d \in Code, NEW g \in Globals, TestPredicate(d, g) PROVE IInv'
      BY <2>1, TestPredicateStep
    <2>2. ASSUME NEW g \in Globals, SetPredicate(g) PROVE IInv'
      BY <2>2, SetPredicateStep
    <2>3. ASSUME NEW g \in Globals, FunctionReturns(g) PROVE IInv'
      BY <2>3, FunctionReturnsStep
    <2>4. ASSUME NEW c \in Contexts, Interrupt(c) PROVE IInv'
      BY <2>4, InterruptStep
    <2>5. ASSUME NEW c \in Contexts, InterruptReturns(c) PROVE IInv'
      BY <2>5, InterruptReturnsStep
    <2>6. CASE UNCHANGED vars
      BY <2>6 DEF vars, IInv, TypeOK, Apart, Consistent
    <2> QED
      BY <2>1, <2>2, <2>3, <2>4, <2>5, <2>6 DEF Next
  <1> QED
    BY <1>1, InitIInv, PTL DEF Spec

(* Every variable keeps its type. *)
THEOREM TypeCorrect ==
  ASSUME Acyclic
  PROVE  Spec => []TypeOK
  <1>1. IInv => TypeOK
    BY DEF IInv
  <1> QED
    BY <1>1, InductiveInvariant, PTL

(* The initialiser of a global runs once, unless a handler that may reach  *)
(* the global interrupts its initialisation.                               *)
THEOREM OnceOnly ==
  ASSUME Acyclic
  PROVE  Spec => []InitialisedOnce
  <1>1. IInv => InitialisedOnce
    BY DEF IInv, Consistent, InitialisedOnce
  <1> QED
    BY <1>1, InductiveInvariant, PTL

(* No code goes on with a global whose initialiser is still at work. *)
THEOREM Readiness ==
  ASSUME Acyclic
  PROVE  Spec => []ReadyWhenUsed
  <1>1. IInv => ReadyWhenUsed
    <2> SUFFICES ASSUME IInv, NEW d \in Code, Running(d), NEW g \in Uses[d] \ disturbed,
                        predicate[g] # 0, ~(runs[g] > 0)
                 PROVE  FALSE
      BY DEF ReadyWhenUsed
    <2>1. g \in Globals \ disturbed /\ g \in Reached[g] /\ Reached[g] \subseteq Reached[d]
      BY UsesAssumption
    <2>2. runs[g] = 0
      BY <2>1 DEF IInv, Consistent
    <2>3. PICK i \in 1 .. Len(stack) : stack[i] = Frame(g, "running")
      BY <2>1, <2>2 DEF IInv, Consistent
    <2>4. stack[Len(stack)].code = d /\ stack[i].code = g
          /\ Len(stack) \in 1 .. Len(stack)
      BY <2>3 DEF IInv, TypeOK, Running, Top, Frame
    <2>5. CASE i = Len(stack)
      BY <2>1, <2>4, <2>5 DEF Acyclic
    <2>6. CASE i < Len(stack)
      BY <2>1, <2>4, <2>6 DEF IInv, Apart
    <2> QED
      BY <2>3, <2>5, <2>6 DEF IInv, TypeOK
  <1> QED
    BY <1>1, InductiveInvariant, PTL

-----------------------------------------------------------------------------
(***************************************************************************)
(* How often a disturbed global may be initialised.  Every activation of   *)
(* swift_once for g is the work of the context whose code is nearest below *)
(* it on the stack.  No context has two of them at a time, since           *)
(* initialisers are acyclic, and none is new once the predicate is set.    *)
(***************************************************************************)
(* What lies above i up to j was started by the code at i. *)
Chained(s) ==
  \A j \in 1 .. Len(s), i \in 1 .. Len(s) :
    i < j /\ (\A k \in i + 1 .. j : s[k].code \in Globals)
      => /\ Reached[s[j].code] \subseteq Reached[s[i].code]
         /\ s[i].code \notin Reached[s[j].code]

(* Position k holds the context that position i belongs to. *)
BaseOf(s, i, k) == s[k].code \in Contexts /\ \A l \in k + 1 .. i : s[l].code \in Globals

Based(s) == \A i \in 1 .. Len(s) : \E k \in 1 .. i : BaseOf(s, i, k)

(* No handler interrupts itself. *)
Nested(s) ==
  \A i \in 1 .. Len(s), j \in 1 .. Len(s) : i < j /\ s[j].code \in Contexts => s[i].code # s[j].code

Activations(s, g) == {i \in 1 .. Len(s) : s[i].code = g}

Users(g) == {c \in Contexts : g \in Reached[c]}

Started(g) ==
  /\ predicate[g] = 0 => runs[g] = 0
  /\ \A i \in 1 .. Len(stack) : stack[i] = Frame(g, "running") => predicate[g] # 0

Counted(g) == runs[g] + Cardinality(Activations(stack, g)) <= Cardinality(Users(g))

CInv ==
  /\ IInv
  /\ Chained(stack) /\ Based(stack) /\ Nested(stack)
  /\ \A g \in Globals : Started(g)
  /\ \A g \in Globals : Counted(g)

Frames == [code : Code, at : {"tested", "running"}]

LEMMA ActivationsFinite ==
  ASSUME NEW s \in Seq(Frames), NEW g
  PROVE  IsFiniteSet(Activations(s, g)) /\ Cardinality(Activations(s, g)) \in Nat
  <1>1. IsFiniteSet(1 .. Len(s))
    BY FS_Interval
  <1> QED
    BY <1>1, FS_Subset, FS_CardinalityType DEF Activations

(* Each activation of swift_once for g has a user of g to itself. *)
LEMMA OneEach ==
  ASSUME NEW s \in Seq(Frames), Chained(s), Based(s), Nested(s), NEW g \in Globals
  PROVE  Cardinality(Activations(s, g)) <= Cardinality(Users(g))
  <1> DEFINE base(i) == CHOOSE k \in 1 .. i : BaseOf(s, i, k)
             user == [i \in Activations(s, g) |-> s[base(i)].code]
  <1>1. ASSUME NEW i \in Activations(s, g)
        PROVE  i \in 1 .. Len(s) /\ s[i].code = g /\ base(i) \in 1 .. i /\ BaseOf(s, i, base(i))
    <2>1. i \in 1 .. Len(s) /\ s[i].code = g
      BY DEF Activations
    <2>2. \E k \in 1 .. i : BaseOf(s, i, k)
      BY <2>1 DEF Based
    <2> QED
      BY <2>1, <2>2
  <1> HIDE DEF base
  <1>2. ASSUME NEW i \in Activations(s, g)
        PROVE  s[base(i)].code \in Users(g)
    <2>1. i \in 1 .. Len(s) /\ s[i].code = g /\ base(i) \in 1 .. i /\ BaseOf(s, i, base(i))
      BY <1>1
    <2>2. base(i) # i
      BY <2>1, ContextsAssumption DEF BaseOf
    <2>3. base(i) \in 1 .. Len(s) /\ base(i) < i
      BY <2>1, <2>2
    <2>4. Reached[g] \subseteq Reached[s[base(i)].code]
      BY <2>1, <2>3 DEF Chained, BaseOf
    <2> QED
      BY <2>1, <2>4, UsesAssumption DEF Users, BaseOf
  <1>3. ASSUME NEW i \in Activations(s, g), NEW j \in Activations(s, g), i < j
        PROVE  s[base(i)].code # s[base(j)].code
    <2>1. /\ i \in 1 .. Len(s) /\ s[i].code = g /\ base(i) \in 1 .. i /\ BaseOf(s, i, base(i))
          /\ j \in 1 .. Len(s) /\ s[j].code = g /\ base(j) \in 1 .. j /\ BaseOf(s, j, base(j))
      BY <1>1
    <2>2. i < base(j)
      <3> SUFFICES ASSUME ~(i < base(j)) PROVE FALSE
        OBVIOUS
      <3>1. \A k \in i + 1 .. j : s[k].code \in Globals
        <4> SUFFICES ASSUME NEW k \in i + 1 .. j PROVE s[k].code \in Globals
          OBVIOUS
        <4>1. k \in base(j) + 1 .. j
          BY <2>1
        <4> QED BY <2>1, <4>1 DEF BaseOf
      <3> QED
        BY <1>3, <2>1, <3>1, UsesAssumption DEF Chained
    <2>3. base(i) < base(j) /\ base(i) \in 1 .. Len(s) /\ base(j) \in 1 .. Len(s)
      BY <2>1, <2>2
    <2> QED
      BY <2>1, <2>3 DEF Nested, BaseOf
  <1>4. user \in [Activations(s, g) -> Users(g)]
    BY <1>2
  <1>5. \A i \in Activations(s, g), j \in Activations(s, g) : user[i] = user[j] => i = j
    <2> SUFFICES ASSUME NEW i \in Activations(s, g), NEW j \in Activations(s, g), i # j
                 PROVE  user[i] # user[j]
      OBVIOUS
    <2>1. i \in Int /\ j \in Int
      BY DEF Activations
    <2> QED BY <2>1, <1>3
  <1>6. user \in Injection(Activations(s, g), Users(g))
    BY <1>4, <1>5 DEF Injection, IsInjective
  <1>7. IsFiniteSet(Users(g))
    BY ContextsAssumption, FS_Subset DEF Users
  <1> HIDE DEF user
  <1> QED
    BY <1>6, <1>7, FS_Injection

(* What a push does to the stack's properties: of a global that the top    *)
(* uses, or of a context that is not on it.                                *)
LEMMA PushGlobal ==
  ASSUME Acyclic, NEW s \in Seq(Frames), Len(s) > 0, Chained(s), Based(s), Nested(s),
         NEW d \in Code, NEW g \in Globals, s[Len(s)].code = d, g \in Uses[d],
         NEW t, Len(t) = Len(s) + 1, \A i \in 1 .. Len(s) : t[i] = s[i], t[Len(s) + 1].code = g
  PROVE  Chained(t) /\ Based(t) /\ Nested(t)
  <1> DEFINE n == Len(s)
  <1>1. n \in Nat /\ n \in 1 .. n /\ 1 .. n + 1 = 1 .. n \cup {n + 1}
    OBVIOUS
  <1>2. g \in Reached[g] /\ Reached[g] \subseteq Reached[d] /\ d \notin Reached[g]
    BY UsesAssumption, ContextsAssumption DEF Acyclic, Code
  <1>3. Chained(t)
    <2> SUFFICES ASSUME NEW j \in 1 .. n + 1, NEW i \in 1 .. n + 1, i < j,
                        \A k \in i + 1 .. j : t[k].code \in Globals
                 PROVE  /\ Reached[t[j].code] \subseteq Reached[t[i].code]
                        /\ t[i].code \notin Reached[t[j].code]
      BY DEF Chained
    <2>1. i \in 1 .. n /\ t[i] = s[i]
      BY <1>1
    <2>2. CASE j \in 1 .. n
      <3>1. \A k \in i + 1 .. j : s[k].code \in Globals
        BY <2>1, <2>2
      <3> QED BY <2>1, <2>2, <3>1 DEF Chained
    <2>3. CASE j = n + 1 /\ i = n
      BY <1>2, <2>1, <2>3
    <2>4. CASE j = n + 1 /\ i < n
      <3>1. \A k \in i + 1 .. n : s[k].code \in Globals
        BY <2>1, <2>4
      <3>2. Reached[d] \subseteq Reached[s[i].code] /\ s[i].code \notin Reached[d]
        BY <1>1, <2>1, <2>4, <3>1 DEF Chained
      <3> QED BY <1>2, <2>1, <2>4, <3>2
    <2> QED BY <1>1, <2>1, <2>2, <2>3, <2>4
  <1>4. Based(t)
    <2>1. ASSUME NEW i \in 1 .. n, NEW k \in 1 .. i, BaseOf(s, i, k)
          PROVE  BaseOf(t, i, k)
      BY <2>1 DEF BaseOf
    <2>2. \E k \in 1 .. n + 1 : BaseOf(t, n + 1, k)
      <3>1. PICK k \in 1 .. n : BaseOf(s, n, k)
        BY <1>1 DEF Based
      <3>2. \A l \in k + 1 .. n + 1 : t[l].code \in Globals
        <4> SUFFICES ASSUME NEW l \in k + 1 .. n + 1 PROVE t[l].code \in Globals
          OBVIOUS
        <4>1. l = n + 1 \/ l \in k + 1 .. n
          OBVIOUS
        <4> QED BY <3>1, <4>1 DEF BaseOf
      <3> QED BY <3>1, <3>2 DEF BaseOf
    <2> QED BY <1>1, <2>1, <2>2 DEF Based
  <1>5. Nested(t)
    <2>1. g \notin Contexts
      BY ContextsAssumption
    <2> QED BY <1>1, <2>1 DEF Nested
  <1> QED
    BY <1>3, <1>4, <1>5

LEMMA PushContext ==
  ASSUME NEW s \in Seq(Frames), Chained(s), Based(s), Nested(s),
         NEW c \in Contexts, \A i \in 1 .. Len(s) : s[i].code # c,
         NEW t, Len(t) = Len(s) + 1, \A i \in 1 .. Len(s) : t[i] = s[i], t[Len(s) + 1].code = c
  PROVE  Chained(t) /\ Based(t) /\ Nested(t)
  <1> DEFINE n == Len(s)
  <1>1. n \in Nat /\ 1 .. n + 1 = 1 .. n \cup {n + 1} /\ c \notin Globals
    BY ContextsAssumption
  <1>2. Chained(t)
    <2> SUFFICES ASSUME NEW j \in 1 .. n + 1, NEW i \in 1 .. n + 1, i < j,
                        \A k \in i + 1 .. j : t[k].code \in Globals
                 PROVE  /\ Reached[t[j].code] \subseteq Reached[t[i].code]
                        /\ t[i].code \notin Reached[t[j].code]
      BY DEF Chained
    <2>1. j \in 1 .. n /\ i \in 1 .. n
      <3>1. t[j].code \in Globals
        OBVIOUS
      <3> QED BY <1>1, <3>1
    <2>2. \A k \in i + 1 .. j : s[k].code \in Globals
      BY <2>1
    <2> QED BY <2>1, <2>2 DEF Chained
  <1>3. Based(t)
    <2>1. ASSUME NEW i \in 1 .. n, NEW k \in 1 .. i, BaseOf(s, i, k)
          PROVE  BaseOf(t, i, k)
      BY <2>1 DEF BaseOf
    <2>2. BaseOf(t, n + 1, n + 1)
      BY DEF BaseOf
    <2> QED BY <1>1, <2>1, <2>2 DEF Based
  <1>4. Nested(t)
    BY <1>1 DEF Nested
  <1> QED
    BY <1>2, <1>3, <1>4

(* The properties look at codes only, and are inherited by what a pop      *)
(* leaves.                                                                 *)
LEMMA SameCodes ==
  ASSUME NEW s \in Seq(Frames), Chained(s), Based(s), Nested(s),
         NEW t, Len(t) \in Nat, Len(t) <= Len(s), \A i \in 1 .. Len(t) : t[i].code = s[i].code
  PROVE  Chained(t) /\ Based(t) /\ Nested(t)
  <1> DEFINE n == Len(t)
  <1>1. Chained(t)
    <2> SUFFICES ASSUME NEW j \in 1 .. n, NEW i \in 1 .. n, i < j,
                        \A k \in i + 1 .. j : t[k].code \in Globals
                 PROVE  /\ Reached[t[j].code] \subseteq Reached[t[i].code]
                        /\ t[i].code \notin Reached[t[j].code]
      BY DEF Chained
    <2>1. j \in 1 .. Len(s) /\ i \in 1 .. Len(s) /\ \A k \in i + 1 .. j : s[k].code \in Globals
      OBVIOUS
    <2> QED BY <2>1 DEF Chained
  <1>2. Based(t)
    <2>1. ASSUME NEW i \in 1 .. n PROVE \E k \in 1 .. i : BaseOf(t, i, k)
      <3>1. PICK k \in 1 .. i : BaseOf(s, i, k)
        BY DEF Based
      <3> QED BY <3>1 DEF BaseOf
    <2> QED BY <2>1 DEF Based
  <1>3. Nested(t)
    BY DEF Nested
  <1> QED
    BY <1>1, <1>2, <1>3

LEMMA InitCInv == Init => CInv
  <1> SUFFICES ASSUME Init PROVE CInv
    OBVIOUS
  <1>1. /\ IInv /\ Len(stack) = 1 /\ stack[1] = Frame(Main, "running") /\ stack \in Seq(Frames)
        /\ predicate = [g \in Globals |-> 0] /\ runs = [g \in Globals |-> 0]
    BY InitIInv DEF Init, IInv, TypeOK, Frames
  <1>2. Chained(stack) /\ Based(stack) /\ Nested(stack)
    BY <1>1, ContextsAssumption DEF Chained, Based, BaseOf, Nested, Frame
  <1>3. ASSUME NEW g \in Globals PROVE Started(g) /\ Counted(g)
    <2>1. \A i \in 1 .. Len(stack) : stack[i] # Frame(g, "running")
      BY <1>1, ContextsAssumption DEF Frame
    <2>2. Cardinality(Activations(stack, g)) <= Cardinality(Users(g))
      BY <1>1, <1>2, OneEach
    <2> QED
      BY <1>1, <2>1, <2>2, ActivationsFinite DEF Started, Counted
  <1> QED
    BY <1>1, <1>2, <1>3 DEF CInv

LEMMA TestPredicateCount ==
  ASSUME CInv, IInv', Acyclic, NEW d \in Code, NEW g \in Globals, TestPredicate(d, g)
  PROVE  CInv'
  <1> DEFINE n == Len(stack)
  <1>1. stack \in Seq(Frames) /\ n > 0 /\ stack' \in Seq(Frames) /\ Frame(g, "tested") \in Frames
    BY DEF CInv, IInv, TypeOK, Frames, Frame, Code
  <1>2. Len(stack') = n + 1 /\ (\A i \in 1 .. n : stack'[i] = stack[i])
        /\ stack'[n + 1] = Frame(g, "tested")
    BY <1>1, PushFacts DEF TestPredicate, Push
  <1>3. /\ stack[n].code = d /\ g \in Uses[d] /\ predicate[g] = 0
        /\ UNCHANGED <<predicate, runs>>
    BY DEF TestPredicate, Running, Top, Frame
  <1>4. stack'[n + 1].code = g
    BY <1>2 DEF Frame
  <1>5. Chained(stack') /\ Based(stack') /\ Nested(stack')
    BY <1>1, <1>2, <1>3, <1>4, PushGlobal DEF CInv
  <1>6. ASSUME NEW h \in Globals PROVE Started(h)'
    <2>1. Started(h)
      BY DEF CInv
    <2>2. stack'[n + 1] # Frame(h, "running")
      BY <1>2 DEF Frame
    <2> QED
      BY <1>1, <1>2, <1>3, <2>1, <2>2 DEF Started
  <1>7. ASSUME NEW h \in Globals PROVE Counted(h)'
    <2>1. CASE h = g
      <3>1. runs'[h] = 0
        BY <1>3, <2>1 DEF CInv, Started
      <3>2. Cardinality(Activations(stack', h)) <= Cardinality(Users(h))
        BY <1>1, <1>5, OneEach
      <3>3. Cardinality(Activations(stack', h)) \in Nat
        BY <1>1, ActivationsFinite
      <3> QED
        BY <3>1, <3>2, <3>3 DEF Counted
    <2>2. CASE h # g
      <3>1. Activations(stack', h) = Activations(stack, h)
        BY <1>1, <1>2, <1>4, <2>2 DEF Activations
      <3> QED
        BY <1>3, <3>1 DEF CInv, Counted
    <2> QED BY <2>1, <2>2
  <1> QED
    BY <1>5, <1>6, <1>7 DEF CInv

LEMMA SetPredicateCount ==
  ASSUME CInv, IInv', NEW g \in Globals, SetPredicate(g)
  PROVE  CInv'
  <1> DEFINE n == Len(stack)
  <1>1. stack \in Seq(Frames) /\ n > 0 /\ n \in 1 .. n /\ predicate \in [Globals -> {0, -1}]
    BY DEF CInv, IInv, TypeOK, Frames
  <1>2. /\ stack[n] = Frame(g, "tested") /\ UNCHANGED runs
        /\ predicate' = [predicate EXCEPT ![g] = -1]
        /\ stack' = [stack EXCEPT ![n] = Frame(g, "running")]
    BY DEF SetPredicate, Top
  <1>3. /\ Len(stack') = n /\ (\A i \in 1 .. n : i # n => stack'[i] = stack[i])
        /\ stack'[n] = Frame(g, "running")
    BY <1>1, <1>2
  <1>4. \A i \in 1 .. n : stack'[i].code = stack[i].code
    <2>1. stack[n].code = g /\ stack'[n].code = g
      <3>1. stack[n] = Frame(g, "tested") /\ stack'[n] = Frame(g, "running")
        BY <1>2, <1>3
      <3> HIDE DEF n
      <3> QED BY <3>1 DEF Frame
    <2>2. \A i \in 1 .. n : i # n => stack'[i] = stack[i]
      BY <1>3
    <2> HIDE DEF n
    <2> QED BY <2>1, <2>2
  <1>5. Chained(stack') /\ Based(stack') /\ Nested(stack')
    BY <1>1, <1>3, <1>4, SameCodes DEF CInv
  <1>6. ASSUME NEW h \in Globals PROVE Started(h)'
    <2>1. Started(h)
      BY DEF CInv
    <2>2. CASE h = g
      BY <1>1, <1>2, <2>2 DEF Started
    <2>3. CASE h # g
      <3>1. predicate'[h] = predicate[h]
        BY <1>1, <1>2, <2>3
      <3>2. Frame(g, "running") # Frame(h, "running")
        BY <2>3 DEF Frame
      <3>3. stack'[n] # Frame(h, "running")
        BY <1>3, <3>2
      <3> QED
        BY <1>1, <1>2, <1>3, <2>1, <3>1, <3>3 DEF Started
    <2> QED BY <2>2, <2>3
  <1>7. ASSUME NEW h \in Globals PROVE Counted(h)'
    <2>1. Activations(stack', h) = Activations(stack, h)
      BY <1>3, <1>4 DEF Activations
    <2> QED
      BY <1>2, <2>1 DEF CInv, Counted
  <1> QED
    BY <1>5, <1>6, <1>7 DEF CInv

LEMMA InterruptCount ==
  ASSUME CInv, IInv', NEW c \in Contexts, Interrupt(c)
  PROVE  CInv'
  <1> DEFINE n == Len(stack)
  <1>1. stack \in Seq(Frames) /\ n \in Nat /\ stack' \in Seq(Frames) /\ Frame(c, "running") \in Frames
    BY DEF CInv, IInv, TypeOK, Frames, Frame, Code
  <1>2. Len(stack') = n + 1 /\ (\A i \in 1 .. n : stack'[i] = stack[i])
        /\ stack'[n + 1] = Frame(c, "running")
    BY <1>1, PushFacts DEF Interrupt, Push
  <1>3. UNCHANGED <<predicate, runs>> /\ stack'[n + 1].code = c /\ c \notin Globals
    BY <1>2, ContextsAssumption DEF Interrupt, Frame
  <1>4. \A i \in 1 .. n : stack[i].code # c
    <2>1. c \notin OnStack
      BY ContextsAssumption DEF Interrupt
    <2> QED BY <2>1 DEF OnStack
  <1>5. Chained(stack') /\ Based(stack') /\ Nested(stack')
    BY <1>1, <1>2, <1>3, <1>4, PushContext DEF CInv
  <1>6. ASSUME NEW h \in Globals PROVE Started(h)'
    <2>1. Started(h) /\ stack'[n + 1] # Frame(h, "running")
      BY <1>2, <1>3 DEF CInv, Frame
    <2> QED
      BY <1>1, <1>2, <1>3, <2>1 DEF Started
  <1>7. ASSUME NEW h \in Globals PROVE Counted(h)'
    <2>1. Activations(stack', h) = Activations(stack, h)
      BY <1>1, <1>2, <1>3 DEF Activations
    <2> QED
      BY <1>3, <2>1 DEF CInv, Counted
  <1> QED
    BY <1>5, <1>6, <1>7 DEF CInv

(* A return removes one activation of the global that returns, whose       *)
(* initialiser has then run once more.                                     *)
LEMMA PopCount ==
  ASSUME CInv, IInv', NEW d \in Code, d # Main, Running(d), Pop, UNCHANGED predicate,
         \A h \in Globals : runs'[h] = IF h = d THEN runs[h] + 1 ELSE runs[h]
  PROVE  CInv'
  <1> DEFINE n == Len(stack)
  <1>1. stack \in Seq(Frames) /\ n \in Nat /\ n > 0 /\ stack[n] = Frame(d, "running")
        /\ stack' \in Seq(Frames)
    BY DEF CInv, IInv, TypeOK, Frames, Running, Top
  <1>2. n > 1
    <2>1. n # 1
      BY <1>1 DEF CInv, IInv, Frame
    <2> HIDE DEF n
    <2> QED BY <1>1, <2>1
  <1>3. Len(stack') = n - 1 /\ \A i \in 1 .. n - 1 : stack'[i] = stack[i]
    BY <1>1, <1>2, PopFacts DEF Pop
  <1>4. Chained(stack') /\ Based(stack') /\ Nested(stack')
    BY <1>1, <1>2, <1>3, SameCodes DEF CInv
  <1>5. ASSUME NEW h \in Globals PROVE Started(h)' /\ Counted(h)'
    <2>1. Started(h) /\ Counted(h) /\ runs[h] \in Nat
      BY DEF CInv, IInv, TypeOK
    <2>2. CASE h = d
      <3>1. predicate'[h] # 0
        BY <1>1, <2>1, <2>2 DEF Started
      <3>2. Activations(stack', h) = Activations(stack, h) \ {n}
        BY <1>1, <1>3 DEF Activations
      <3>3. n \in Activations(stack, h)
        BY <1>1, <2>2 DEF Activations, Frame
      <3>4. Cardinality(Activations(stack', h)) = Cardinality(Activations(stack, h)) - 1
        BY <1>1, <3>2, <3>3, ActivationsFinite, FS_RemoveElement
      <3>5. Counted(h)'
        BY <1>1, <2>1, <2>2, <3>4, ActivationsFinite DEF Counted
      <3> QED
        BY <3>1, <3>5 DEF Started
    <2>3. CASE h # d
      <3>1. Activations(stack', h) = Activations(stack, h)
        BY <1>1, <1>3, <2>3 DEF Activations, Frame
      <3>2. Counted(h)'
        BY <2>1, <2>3, <3>1 DEF Counted
      <3>3. Started(h)'
        BY <1>1, <1>3, <2>1, <2>3 DEF Started
      <3> QED BY <3>2, <3>3
    <2> QED BY <2>2, <2>3
  <1> QED
    BY <1>4, <1>5 DEF CInv

(* Each context that may reach a global runs its initialiser at most once, *)
(* even if handlers interrupt its initialisation.                          *)
THEOREM PerContext ==
  ASSUME Acyclic
  PROVE  Spec => []OncePerContext
  <1>1. CInv /\ IInv' /\ [Next]_vars => CInv'
    <2> SUFFICES ASSUME CInv, IInv', [Next]_vars PROVE CInv'
      OBVIOUS
    <2>1. ASSUME NEW d \in Code, NEW g \in Globals, TestPredicate(d, g) PROVE CInv'
      BY <2>1, TestPredicateCount
    <2>2. ASSUME NEW g \in Globals, SetPredicate(g) PROVE CInv'
      BY <2>2, SetPredicateCount
    <2>3. ASSUME NEW g \in Globals, FunctionReturns(g) PROVE CInv'
      <3>1. g # Main /\ g \in Code /\ runs \in [Globals -> Nat]
        BY ContextsAssumption DEF Code, CInv, IInv, TypeOK
      <3>2. /\ Running(g) /\ Pop /\ UNCHANGED predicate
            /\ \A h \in Globals : runs'[h] = IF h = g THEN runs[h] + 1 ELSE runs[h]
        BY <2>3, <3>1 DEF FunctionReturns
      <3> QED BY <3>1, <3>2, PopCount
    <2>4. ASSUME NEW c \in Contexts, Interrupt(c) PROVE CInv'
      BY <2>4, InterruptCount
    <2>5. ASSUME NEW c \in Contexts, InterruptReturns(c) PROVE CInv'
      <3>1. c # Main /\ c \in Code /\ c \notin Globals
        BY <2>5, ContextsAssumption DEF InterruptReturns, Code
      <3>2. Running(c) /\ Pop /\ UNCHANGED predicate /\ \A h \in Globals : runs'[h] = runs[h]
        BY <2>5 DEF InterruptReturns
      <3> QED BY <3>1, <3>2, PopCount
    <2>6. CASE UNCHANGED vars
      BY <2>6 DEF vars, CInv, Started, Counted
    <2> QED
      BY <2>1, <2>2, <2>3, <2>4, <2>5, <2>6 DEF Next
  <1>2. CInv => OncePerContext
    <2> SUFFICES ASSUME CInv, NEW g \in Globals
                 PROVE  runs[g] <= Cardinality(Users(g))
      BY DEF OncePerContext, Users
    <2>1. Counted(g) /\ runs[g] \in Nat /\ stack \in Seq(Frames)
      BY DEF CInv, IInv, TypeOK, Frames
    <2>2. IsFiniteSet(Users(g))
      BY ContextsAssumption, FS_Subset DEF Users
    <2>3. Cardinality(Users(g)) \in Nat
      BY <2>2, FS_CardinalityType
    <2> QED
      BY <2>1, <2>3, ActivationsFinite DEF Counted
  <1> QED
    BY <1>1, <1>2, InitCInv, InductiveInvariant, PTL DEF Spec
=============================================================================
