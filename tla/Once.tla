--------------------------------- MODULE Once ---------------------------------
(***************************************************************************)
(* swift_once of src/Runtime/legacyStubs.c: the lazy initialisation of     *)
(* global variables on a single core.  Every access to a global calls it   *)
(* with the predicate and the initialiser of that global.                  *)
(*                                                                         *)
(* The contexts share one call stack, as they do on an AVR: an interrupt   *)
(* handler runs on top of whatever it interrupted and returns before that  *)
(* goes on.  An initialiser is code like any other, which may access other *)
(* globals and may be interrupted.                                         *)
(***************************************************************************)
EXTENDS Integers, Sequences, FiniteSets

CONSTANTS
  Contexts,  (* the main program and the interrupt handlers                *)
  Main,
  Priority,  (* [Contexts -> Nat]: who may interrupt whom                  *)
  Globals,
  Uses,      (* the globals that the code of a context, or the initialiser *)
             (* of a global, accesses itself                               *)
  Reached    (* those it may access through the initialisers it starts     *)

Code == Contexts \cup Globals

ASSUME ContextsAssumption ==
  /\ Main \in Contexts /\ Contexts \cap Globals = {} /\ IsFiniteSet(Contexts)
  /\ Priority \in [Contexts -> Nat]

ASSUME UsesAssumption ==
  /\ Uses \in [Code -> SUBSET Globals]
  /\ Reached \in [Code -> SUBSET Globals]
  /\ \A g \in Globals : g \in Reached[g]
  /\ \A d \in Code : \A g \in Uses[d] : Reached[g] \subseteq Reached[d]

VARIABLES
  stack,      (* what runs: <<interrupted, ..., running>>                  *)
  predicate,  (* per global: 0, or -1 from the first access on             *)
  runs,       (* per global: how often its initialiser has run             *)
  disturbed   (* history: the globals whose initialisation was interrupted *)
              (* by a handler that may reach them                          *)

vars == <<stack, predicate, runs, disturbed>>

(* A frame is the code of a context, or an activation of swift_once: with  *)
(* the predicate found zero, or in the call of the initialiser.            *)
Frame(code, at) == [code |-> code, at |-> at]
Top == stack[Len(stack)]
Running(code) == Top = Frame(code, "running")
Push(f) == stack' = Append(stack, f)
Pop == stack' = SubSeq(stack, 1, Len(stack) - 1)

Init ==
  /\ stack = <<Frame(Main, "running")>>
  /\ predicate = [g \in Globals |-> 0]
  /\ runs = [g \in Globals |-> 0]
  /\ disturbed = {}

(* An access to g by the running code.  When the predicate is not zero     *)
(* swift_once does nothing and the access goes on (no step here); when it  *)
(* is zero ...                                                             *)
TestPredicate(d, g) ==
  /\ Running(d) /\ g \in Uses[d]
  /\ predicate[g] = 0
  /\ Push(Frame(g, "tested"))
  /\ UNCHANGED <<predicate, runs, disturbed>>

(* Mutants: the store is lost; it stores 1; the initialiser is not called. *)
SetPredicateLost(g) ==
  /\ Top = Frame(g, "tested")
  /\ stack' = [stack EXCEPT ![Len(stack)] = Frame(g, "running")]
  /\ UNCHANGED <<predicate, runs, disturbed>>

SetPredicateToOne(g) ==
  /\ Top = Frame(g, "tested")
  /\ predicate' = [predicate EXCEPT ![g] = 1]
  /\ stack' = [stack EXCEPT ![Len(stack)] = Frame(g, "running")]
  /\ UNCHANGED <<runs, disturbed>>

SetPredicateOnly(g) ==
  /\ Top = Frame(g, "tested")
  /\ predicate' = [predicate EXCEPT ![g] = -1]
  /\ Pop
  /\ UNCHANGED <<runs, disturbed>>

(* ... the predicate is set and the initialiser is called ... *)
SetPredicate(g) ==
  /\ Top = Frame(g, "tested")
  /\ predicate' = [predicate EXCEPT ![g] = -1]
  /\ stack' = [stack EXCEPT ![Len(stack)] = Frame(g, "running")]
  /\ UNCHANGED <<runs, disturbed>>

(* ... which stores the first value of g and returns. *)
FunctionReturns(g) ==
  /\ Running(g)
  /\ runs' = [runs EXCEPT ![g] = @ + 1]
  /\ Pop
  /\ UNCHANGED <<predicate, disturbed>>

OnStack == {stack[i].code : i \in 1 .. Len(stack)}

Interrupt(c) ==
  /\ \A d \in OnStack \cap Contexts : Priority[d] < Priority[c]
  /\ Push(Frame(c, "running"))
  /\ disturbed' = disturbed \cup (OnStack \cap Reached[c])
  /\ UNCHANGED <<predicate, runs>>

InterruptReturns(c) ==
  /\ c # Main /\ Running(c)
  /\ Pop
  /\ UNCHANGED <<predicate, runs, disturbed>>

Next ==
  \/ \E d \in Code, g \in Globals : TestPredicate(d, g)
  \/ \E g \in Globals : SetPredicate(g) \/ FunctionReturns(g)
  \/ \E c \in Contexts : Interrupt(c) \/ InterruptReturns(c)

Spec == Init /\ [][Next]_vars

(* Handlers and initialisers end, and between two interrupts the code that *)
(* was interrupted gets on (an AVR executes one instruction of it at       *)
(* least), however often they come: strong fairness.                       *)
Fairness ==
  /\ \A g \in Globals : SF_vars(SetPredicate(g)) /\ SF_vars(FunctionReturns(g))
  /\ \A c \in Contexts : SF_vars(InterruptReturns(c))

FairSpec == Spec /\ Fairness

-----------------------------------------------------------------------------
TypeOK ==
  /\ stack \in Seq([code : Code, at : {"tested", "running"}])
  /\ Len(stack) > 0
  /\ predicate \in [Globals -> {0, -1}]
  /\ runs \in [Globals -> Nat]
  /\ disturbed \subseteq Globals

(* "Only an interrupt handler could throw us off": unless a handler that  *)
(* may reach a global interrupts its initialisation, the initialiser runs  *)
(* once, and a value code already works with is never replaced.            *)
InitialisedOnce == \A g \in Globals \ disturbed : runs[g] <= 1

(* Whenever the running code may access such a global without initialising *)
(* it, because swift_once finds the predicate set, it has its first value: *)
(* nobody reads a global whose initialiser is still at work.               *)
ReadyWhenUsed ==
  \A d \in Code : Running(d) =>
    \A g \in Uses[d] \ disturbed : predicate[g] # 0 => runs[g] > 0

(* And at worst each context that uses a global runs its initialiser once, *)
(* wherever handlers come in between.                                      *)
OncePerContext ==
  \A g \in Globals : runs[g] <= Cardinality({c \in Contexts : g \in Reached[c]})

(* A global whose initialisation has begun gets its value, however often   *)
(* handlers interrupt it.                                                  *)
InitialiserCompletes == \A g \in Globals : g \in OnStack ~> runs[g] > 0

(* What the theorems ask of a program: no initialiser comes back to its    *)
(* own global.                                                             *)
Acyclic == \A g \in Globals : \A h \in Uses[g] : g \notin Reached[h]
=============================================================================
