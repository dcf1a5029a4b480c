# Verification of uSwift in TLA+

uSwift is a Swift standard library and runtime for microcontrollers (AVR,
ARM Thumb, ESP32): no threads, but interrupt handlers that fall between any
two instructions; no checks, because `_precondition` and `_internalInvariant`
are compiled away; a 16-bit `Int` on AVR; and at most a few kilobytes of RAM,
so that nothing may leak. This directory holds TLA+ models of the parts where
that is hard to get right, TLC configurations that check them on small
instances, and TLAPS proofs for every size.

Contents

1. [The system](#1-the-system)
2. [Modules](#2-modules)
3. [How the models correspond to the code](#3-how-the-models-correspond-to-the-code)
4. [What is checked](#4-what-is-checked)
5. [What is proved](#5-what-is-proved)
6. [Where code and documentation disagree](#6-where-code-and-documentation-disagree)
7. [What is not modelled](#7-what-is-not-modelled)
8. [What is left](#8-what-is-left)

## 1. The system

Two kinds of code make up a program: the library (Swift sources, compiled with
`-parse-stdlib` into one module) and the runtime functions that the compiler
calls (`swift_retain`, `swift_once`, ...), written partly in Swift
(`EmbeddedRuntime.swift`), partly in C (`Runtime/`). A firmware image runs a
main loop and interrupt handlers on one stack.

| Component | State it keeps | Operations | Talks to | What is hard | What makes it correct |
|---|---|---|---|---|---|
| **Strong reference counting** `EmbeddedRuntime.swift` | the two-word header of every object: metadata, count word (`doNotFreeBit`, 15- or 31-bit count) | alloc, initStack, initStatic, retain(_n), release(_n), isUniquelyReferenced, setDeallocating, dealloc | malloc; compiler-generated destroyers | load and read-modify-write are two steps and a handler falls between; destroyers run inside release and release further objects; the count word is narrow and has two special values | memory safety, no leak, exact counts, one destruction per life |
| **Arrays and slices** `Array`, `ArraySlice`, `ContiguousArrayBuffer`, `SliceBuffer`, `ArrayShared`, `ArrayBody` | storage object (capacity, count, elements); views of it (whole, or bounds) | constructors, subscripts, slicing, lending memory to a closure, conversion | reference counting; the failure hooks | constructors run program code which may throw, while the count says something else than the memory holds; nothing is copied on write, so views share storage | count and initialised memory agree; element references balanced; views stay inside their storage |
| **One-time initialisation** `Runtime/legacyStubs.c` | a predicate word per global | `swift_once` | initialisers, which call it again; handlers | test, store and initialiser are separate steps; the store comes before the initialiser | initialised once, before use |
| **Globals shared with handlers** `Volatile.swift` | program variables | `@Volatile`, `Flag`, `hardwarePointer` | handlers | values wider than a byte are torn on AVR | a reader sees values that were written |
| **Side-table counts, weak references** `Runtime/HeapObject.cpp`, `RefCount.cpp`, `WeakReference.h` (experimental) | strong and unowned count in the header or in a side table, weak count in the side table; weak variables | retain, release, unowned and weak entry points, destruction | compiler-generated destroyers; `RefCount.h` of the absent shims | the counts move to a side table between a load and a store; three counts end in any order; destroyers nest | nothing dangles, the counts are exact, weak variables become nil with the last strong reference |
| **Unicode** `UTF8`, `UTF16`, `UTF32`, `UTFEncoding`, `UnicodeParser` | the parser's 32-bit word of lookahead with a count of the units in it; the iterator | forward and reverse parsing, transcoding, measuring, decoding one scalar | iterators | validity and length are read off a word that the end of the input cuts short, and without its count; errors come between scalars | the division and the values of the Unicode standard, both ways; every call advances |
| **Inline arrays, temporary allocations** | elements initialised so far; stack or heap buffer | init from a closure, `withUnsafeTemporaryAllocation` | closures that throw | partial failure | no element leaks, the buffer goes back on each way out |
| **Ranges, strides** `Stride` | iterator position | next, contains | — | ends of the integer type | visits each term, stops |
| **Collection algorithms, lazy collections** `CollectionAlgorithms`, `Reverse`, `Flatten` | the two indices of a loop; an index of a flattened collection | partition, shuffle, reverse; index movement, distance, iteration | closures that throw | throws halfway; empty inner collections | no element lost; indices agree with the elements |
| **Failure hooks** `TopLevelFunctions`, `Runtime/uswiftRuntime.c`, `wrapping_array_handler.c` | — | `_precondition`, `fatalError`, `_microswift_array_out_of_bounds` | linker (weak symbols) | checks disappear with the build | a failing check stops the program |
| Integers, floating point, hashing, pointers, spans, optionals, metadata headers | — | pure functions over compiler builtins | — | — | — |

`PROJECT.json` lists all components with their sources, and under `hazards`
each place where the code is hard to test, with the properties that watch it.

How they interact in the models: `Arrays` relies on the promise that
`StrongReferences` states — a storage object dies with its last reference — and
`EmbeddedRuntime` is shown to implement that promise. `Once` shares with
`EmbeddedRuntime` the notion of contexts that preempt each other; its
initialisers are ordinary program code. The failure hooks occur in
`EmbeddedRuntime` (`AllocObjectOOM`), in `Arrays` (`Trap`, `Handler`), in
`WeakReferences` (`Abort`) and in `ScopedMemory` (`Stop`). `WeakReferences` is an
alternative to `EmbeddedRuntime`, and has its own abstract specification.
`Algorithms` puts the library's self-contained algorithms into one program.

## 2. Modules

| Module | Role |
|---|---|
| `StrongReferences` | abstract specification: what automatic reference counting promises, without counters |
| `EmbeddedRuntime` | the counting runtime, one action per step between two preemption points |
| `EmbeddedRuntime_proofs` | inductive invariant, safety theorems, saturation, and the proof that it implements `StrongReferences` |
| `MCEmbeddedRuntime`, `MCEmbeddedSaturation`, `MCEmptyArray`, `MCEmbeddedDeinit` | instances for TLC |
| `Arrays`, `MCArrays` | arrays, slices, their shared storage, and its instances |
| `Arrays_proofs` | theorems about them for every number of variables, storages, elements and places |
| `Once`, `MCOnce`, `Once_proofs` | `swift_once`, its instance, its theorems |
| `UnicodeEncodings` | what the code computes on units, words and scalars: masks, lengths, conversions |
| `UnicodeStandard` | the reference: well-formed sequences, the division of a text, values, by ranges |
| `UTFParser`, `MCUTFParser` | `parseScalar` with buffer and iterator, and the loops around it; its instances |
| `Induction` | induction over an interval of numbers, stated with sets; the division of a text and other recursive functions rest on it |
| `UnicodeEncodings_proofs` | masks, decoding and encoding against the ranges; the division of every text, and that the next parse finds its next element |
| `UTFParser_proofs` | lookahead, progress, results, transcoded text and its length, for every text |
| `ZeroingReferences` | abstract specification: what weak references promise, without counts and side tables |
| `WeakReferences`, `MCWeakReferences` | the experimental runtime, one action per step that other code can fall before; its instance |
| `WeakReferences_proofs` | theorems about it for every number of contexts, objects, side tables and weak variables, and the proof that it implements `ZeroingReferences` |
| `Reordering` | partition, half-stable partition, shuffle, reverse in place |
| `ScopedMemory` | memory lent to closures: inline arrays under initialisation, temporary allocations |
| `Strides` | `stride(from:to:by:)`, `stride(from:through:by:)` over a fixed-width type |
| `Flattening` | indices and iterator of a collection of collections |
| `Algorithms`, `MCAlgorithms` | a program that uses one of these four; its instance |
| `Algorithms_proofs` | theorems about reordering, lent memory, strides and flattened indices, for every length, nesting and integer type |

## 3. How the models correspond to the code

### EmbeddedRuntime

*A strong reference is a slot*: a local variable of a context, a stored
property of an object, or a global (`Home` says which). The compiler is not
part of the repository; what compiled code may do with slots — move a reference,
copy one it holds borrowed, give one up — is taken from how the runtime
functions are meant to be called, and marked external in the map. *A context*
is the main loop or an interrupt handler (or a core of an ESP32).

| Variable | In the code |
|---|---|
| `refcount` | `HeapObject.refcount`, a word of `2*Half` values; `Half` is 2^15 on AVR |
| `life` | not stored anywhere: unused memory, live object, destroyer in its deinit body, destroyer releasing the stored properties |
| `freeList` | what malloc may hand out |
| `call` | a retain or release between its relaxed load (`:187`, `:216`) and its atomic update (`:191`, `:220`) |
| `frames` | the destroyers on the call stack of a context |
| `checked` | the variable that `isUniquelyReferenced` has just answered true for |
| `halted` | `fatalError()` after the out-of-memory hook |

`swift_retain` and `swift_release` are each two actions (load; update), because a
preemption between them is the point of the model. The branch of release that
tests for a negative result is dead code, because the mask has cleared the sign,
and has no counterpart. `swift_release` of the last reference pushes a destroyer, which runs in
steps: the deinit body (arbitrary program code, `EndDeinit` when it ends), one
release per stored property (`ReleaseField`), then `swift_deallocClassInstance`,
which tests `doNotFreeBit`, or `swift_deallocObject`, which does not.
`swift_setDeallocating` does nothing and is therefore no action.

Assumed of programs: a global is moved out of by one context before another uses
it (two contexts that race on the variable itself race outside the runtime);
stack-promoted objects stay in one context's locals (escape analysis).

### Arrays

A storage is a record of capacity, count, and `MaxCount + 1` places, each an
element or `Uninit`; a view is a kind with an owner and bounds. Constructors
that run program code between their steps are interleaved (`making`): literals,
`unsafeUninitializedCapacity`, and the builder behind `Array(sequence)`, each
with return and throw. `withUnsafeMutableBufferPointer` empties the variable
during the body (`lent`). `Settle` ends every step: storages that lost their
last reference run `_ContiguousArrayStorage.deinit`, which releases `count`
elements. `owned` counts the retains and releases of elements the way the code
does them, independent of what the places hold; `ElementsOwned` compares the
two. `corrupt` records that a step took uninitialised memory for an element.

Constants switch what a build or program may do: `TrapOnPrecondition` for
`SHOULD_TRAP_ON_PRECONDITION`, `Hooks` for the out-of-bounds handler that is linked (both
are tried), `SliceToEnd` for ranges that reach `endIndex` of what they slice, which section
6 shows to be wrong, and `RepeatSlices` for `ArraySlice(repeating:count:)`, which sets a
count that no slice stores (`SliceBuffer.swift:303`), so that its slices are empty and its
elements are never released. The passing run excludes both so as to see what holds
otherwise, and the comments of the properties say so; with `RepeatSlices` on, TLC finds
`CountMatchesElements` violated. The program is taken to keep the preconditions when they
are compiled away, except in subscripts, whose `condfail` is always there; where they trap,
what they reject stops the program (`SliceOutOfRange`, `UnsafeRejected`).

### Once

One stack for all contexts, as on the hardware. A frame is the code of a context
or an activation of `swift_once`, between its test and its store, or in its
initialiser. Three steps correspond to the four lines of the function; when the
predicate is found set, nothing happens and there is no step. `disturbed` is a
history variable: the globals that were on the stack when a handler that may
reach them came in. The store of a multi-byte predicate is one step although an
AVR makes two: its values are all zeros and all ones, and any mixture is non-zero
like the latter.

### Unicode

A behaviour of `UTFParser` is one call: `transcode`, `UTF16.transcodedLength`,
`UTF8._decodeOne`, or a caller of `parseScalar` alone, which is how a reverse
parser is used. Each action is a call of `parseScalar` together with what its
caller does with the result: one of its three ways through (`ScalarFromInput`,
`ScalarFromBuffer`, `ParseBuffered`), or `EmptyInput`. `transcodedLength` starts
with a loop of its own (`CountASCII`), and puts the unit that ended it into the
buffer of a new parser (`SeedParser`).

| Variable | In the code |
|---|---|
| `input` | the iterator; a reverse parser is given the text from its end |
| `buffer` | `_UIntBuffer`: the whole word, and the count, which the parsers do not look at |
| `results` | the `ParseResult` of each call; the units counted by the ASCII loop as well |
| `output`, `count`, `ascii`, `hadError` | the loops' results |
| `phase` | `"ascii"` in `transcodedLength`'s first loop, `"parse"`, `"done"` |

A unit is its value. A test on bits (`codeunits & 0b1100_0000__1110_0000`) is a
division and a remainder by powers of two on the units it concerns, so the four
sets of masks (forward and reverse, complete and truncated) become `Complete` and
`Incomplete` on the word in text order, `InOrder`. `BufferedScalar` keeps the addition of
`0x01010101` with its carries. `Transcode` goes through the scalar's value, where the code
moves the bits directly; the result is the same. `AppendAll` appends up to the capacity
in one step, as the loop in `parseScalar` does.

### WeakReferences

The counts of an object are one record, `count`, at the object or at its side table;
`table` says which. A change of that record is one step: `RefCount.h` belongs to a
submodule that is not part of the source, and its bit operations are taken from how
`HeapObject.cpp` and `RefCount.cpp` use them. What those two files and
`WeakReference.h` do around it is in steps: a call that is between two of them is in
`call`, with what it has read. `allocateSideTable` loads the counts (`WeakAssign`,
`UnownedRetainSlow`) and stores them later (`AllocateSideTable`); `nativeAssign` forms
the new reference, writes the variable, then gives up the old one (`FormWeakReference`,
`DropWeak`); a load reads the variable and then tries to retain (`WeakLoadStrong`,
`TryRetain`); copy and take assignments destroy first (`WeakTransfer`, `CopyInit`,
`TakeInit`). A destroyer that is through with the stored properties loads the counts once
(`CanBeFreedNow`), and by what it saw gives the memory back without another look
(`FreeObject`) or gives up the object's own unowned reference (`ReleaseObject`).

| Variable | In the code |
|---|---|
| `memory` | what `swift_slowAlloc` and `new` have given out and not got back |
| `table`, `count` | the header: inline counts or the address of the side table, and the counts |
| `weak`, `owner` | the weak count and the object of a side table |
| `weakVar` | `WeakReference::nativeValue` |
| `held`, `unowned` | the references compiled code has, per context: not stored anywhere |
| `dying` | destroyers on the stack of a context: the deinit body, then `fields` |
| `halted` | one of the three aborts |

Contexts interleave at every step, which covers handlers that run to their end. The
program keeps the rule of `WeakReference.h:46-65`: a weak variable is not written while
another context reads or writes it (`MayRead`, `MayWrite`). Two switches name what the
run assumes beyond that. `TablesExclusive`: no other context touches an object between
the load and the store of `allocateSideTable`. With the switch off TLC finds a release
that is lost in between, and `CountsAreExact` violated: the second test for a side
table (`RefCount.cpp:104`) looks at the same copy of the header as the first.
It takes one edit of `weak_references.cfg` to see it. `TakesAlive`: `swift_weakTakeStrong`
is called while the caller has a strong reference, which `HeapObject.h:564` does not ask
for; the run `weak_take` has this switch off (section 6).

### Algorithms

`Reordering` names elements by the index they have when the call begins; one step is one
call of the predicate, or one turn of a loop without predicate. The predicate is a set
(`second`), and may throw at any call. `ScopedMemory` is the stack of calls that lend memory
to a closure; what runs is the innermost closure, which may call again, return an element,
return, or throw; a caught error is a `Throws` after which the outer closure goes on.
`Strides` keeps the iterator and what it has returned; `Advanced` wraps around like the `+`
of the integer types. `Flattening` has two indices that are moved about and an iterator; a
search past empty collections is the choice of the first (going back, the last) that has an
element, and the passes of the loop of `distance` are the steps to the larger index.
`Algorithms` composes the four: they share no state, so a behaviour uses one of them.

Switches and conditions: `TrapOnPrecondition` is on in the run and rejects the arguments
that the program computes, but not constants (`TemporaryAllocation.swift:40`, `:45`), so
that the run has both; in the builds of the Makefiles, which do not define it, every
argument passes like a constant. The product of 8192 and 4 then wraps to a negative byte
count and a block of 32 KB goes on the stack, and so does a block of a negative capacity.
`BlocksMatchCalls` claims nothing about the size of such blocks, only that they go with
their calls. `YieldsTheTerms` is asked for non-zero strides whose first term at or past the
end is a value of the type (`EndIsRepresentable`); otherwise the last step wraps, and
`stride(from: 250, to: 255, by: 10)` over `UInt8` goes on from 4. `contains` is asked for
ascending strides only: `_customContainsEquatableElement` compares with the bounds in
ascending order, so a descending stride contains nothing. A comment in `_partitionImpl`
(`CollectionAlgorithms.swift:152`) lists `lo < hi` among the invariants at the start of its
loop; it does not hold for an empty collection or after the last swap, which the loop's own
tests allow for.

## 4. What is checked

Passing runs:

| Run | Instance | States | Shows |
|---|---|---|---|
| `embedded_runtime` | main with three variables, a handler with one; two heap cells (one with a stored property), one stack object, one shared global; words of 4 bits; `retain_n`/`release_n` with n up to 2 | 29,996 | the safety invariants under every interleaving, and `ImplementsARC` |
| `embedded_saturation` | main with two variables, a handler with one, a shared global; count saturates at 5; a linked pair of objects, a static object | 96,706 | nothing dangles when counts saturate, saturated and static objects stay, destruction completes |
| `arrays` | two variables, two storages, up to three elements, two element objects, both handlers | 235,598 | the six array invariants |
| `utf_parser` | 14 byte classes in texts of up to three bytes, five in texts of up to five, each leading and second byte with two bytes behind; seven UTF-16 units in texts of up to four | 410,628 | the parsers and the loops around them against the standard |
| `weak_references` | two contexts; two objects, of which one has a weak variable; a shared weak variable; two side tables; strong and unowned counts up to 2, in the header as in a side table | 1,846,172 | nothing dangles, counts are exact, and `ImplementsZeroing` |
| `algorithms` | see the bounds below | 158,051 | the in-place algorithms, lent memory, strides, flattened indices |
| `once` | main and two handlers that nest; four globals whose initialisers use each other | 5,064 | initialisation once, before use, and to the end |

The properties in a sentence each:

* `NoDanglingReference` – no reference to an object whose destruction has begun; also when
  counts reach the immortal value and stay there.
* `NoLeakedObject` – an object nothing refers to is not left alive.
* `CountIsExact` – the count word is the number of references, also in the middle
  of other contexts' calls.
* `UniqueMeansSole` – the uniqueness answer is not overtaken by another context.
* `DestroyedOnce`, `HeapIsConsistent`, `PropertiesReleasedFirst` – one destroyer
  per life, `free()` exactly once per heap object and never for stack or static
  storage, stored properties released before.
* `ImplementsARC` – refinement of `StrongReferences`.
* `SaturatedStaysAlive` – a count that has become immortal sticks, once no call is left
  that had loaded an earlier value: a retain or release preempted between its load and its
  update while the count got there does move it (`EmbeddedRuntime.swift:187`–`:191`,
  `:216`–`:220`).
* `DestructionCompletes` – liveness: a destruction, with its cascade, ends.
* `OnlyElementsAreUsed`, `CountMatchesElements`, `ElementsOwned` – memory and
  count agree whatever throws; element references balance.
* `ViewsInBounds`, `PointerStaysValid` – no view or lent pointer leaves its
  storage, as long as no range reaches `endIndex` of what it slices (section 6).
* `InitialisedOnce`, `ReadyWhenUsed` – the comment "only an interrupt handler
  could throw us off" as a property; `OncePerContext` bounds the damage when one
  does; `InitialiserCompletes` is liveness.
* `LookaheadIsTheText` – the buffer and the iterator hold the rest of the text, the
  buffer never overflows, and unused slots are zero.
* `DividesLikeTheStandard` – scalars and maximal ill-formed subparts, forward and in
  reverse, are those of `UnicodeStandard`; none is missing at the end.
* `ScalarsOfTheText` – the scalars handed out are those of the text; in reverse only
  if no byte is 255 (section 6).
* `TranscodesFaithfully`, `LengthOfTheCopy` – output, length, the ASCII flag and the
  error flag describe the same text as the input.
* `EveryStepAdvances` – no call comes back without having consumed something, so every
  loop ends.
* `NothingDangles` – no strong, unowned or weak reference, and no call or destroyer between
  two of its steps, outlives what it refers to. This and the next two hold under
  `TablesExclusive` and `TakesAlive` only.
* `CountsAreExact` – each of the three counts is the number of its references, in the
  header and after it has moved to a side table; what has none is gone.
* `ImplementsZeroing` – refinement of `ZeroingReferences`: weak variables are nil from the
  step in which the last strong reference goes.
* `EveryElementKept`, `ReturnsWhatItPromises` – the in-place algorithms permute, also when
  the predicate throws; their results are what they document.
* `ElementsAccountedFor`, `BlocksMatchCalls` – throwing closures leak no element, destroy
  none twice, and give back their block and no other; a block on the stack is small if its
  size is representable.
* `YieldsTheTerms` – a stride yields its arithmetic progression, and stops.
* `IndicesFollowTheRow` – movements, distance, order and iteration of a flattened
  collection agree with the row of its elements.

**Bounds.** `embedded_runtime`: two contexts suffice for each pair of steps to interleave;
three variables of main let one `retain_n` copy into two of them while a third keeps the
source; one stored property lets objects form a chain and a cycle. Words of 4 bits have room
for all six references below the immortal value 7, as `Disciplined` asks; real widths have
far more. `embedded_saturation` turns this round: immortal is 5, and the five references
there can be reach it. Not more of them: retains that return because the count is immortal
are not counted, so with one reference more (`Half = 5`) a preempted release that brings the
count below the immortal value leaves it too low, and TLC finds `NoDanglingReference`
violated. On an AVR that takes more than 32,765 references to one object. `MaxN = 1` there,
because with larger n the addition can jump over the immortal value. `arrays`: three
elements give a proper sub-slice of a proper sub-slice and a builder that grows 1, 2, then
stops; two storages make moving between storages and running out of memory possible. The
builder's growth beyond `MaxCount` is cut off by the guard `wider <= MaxCount`. `once`:
three contexts nest to depth three; the initialisers form a chain of length three with a
shared end, so a handler can hit the chain at every link. `utf_parser`: each byte stands for
a class that the masks cannot tell apart: ASCII; continuation bytes below 0x90, from 0x90,
and from 0xA0; leading bytes of every length, with the special ones C0, E0, ED, F0, F4 and
those beyond, F5 and FF. Three bytes of every class show each decision about a scalar's
first three bytes; every leading and second byte with two bytes behind shows the fourth;
texts of five bytes are longer than the word, so the buffer is refilled after each kind of
result and shrinks at the end. `weak_references`: with two objects, one in the weak variable
of the other, destroyers nest and a dying object drops the last weak reference to another;
two side tables cover both objects having one; the maxima are the smallest that leave room
for an unowned reference beside the object's own in the header, so that its memory may go
with either, and for an overflow that moves the counts or stops the program. `MaxN = 1`: with
counts this low, n = 2 would mostly overflow; `embedded_runtime` has it. A new side table is only asked for when there is
one (`RoomForTable`), for an exhausted `operator new` is outside the source. `algorithms`:
five elements let both indices of a partition move, swap, and meet in either loop; depth
three lets an error pass through a stack block between two heap blocks, and an inner array
throw into an outer one; 256 and 257 elements of four bytes lie on both sides of the limit
of 1024, 8192 of them overflow 16 bits; strides cover every pair of bounds of a four-bit
type, with distances beyond its width; four collections of up to two elements allow for runs
of empty ones at the start, between and at the end.

**Symmetry.** `LocalsAlike` permutes main's variables; `Alike` permutes storages,
variables and elements, or in `MCWeakReferences` contexts and side tables. Nothing in
the modules distinguishes them. Only invariants and the two refinements (`ImplementsARC`,
`ImplementsZeroing`: safety, themselves symmetric) are checked under symmetry; the runs with
liveness declare none.

**Fairness.** `EmbeddedRuntime!Fairness`: weak fairness for the steps of the
runtime and the destroyers (an interrupt handler returns, then main goes on),
strong fairness for the end of a deinit body, which is disabled while destroyers
nest inside it. Program steps (allocating, copying) have none. `Once!Fairness`:
strong fairness for the steps of `swift_once`, initialisers and handlers, because
handlers disable what they interrupt again and again; an AVR executes at least one
instruction of the interrupted code between two interrupts.

**Mutants.** Each property of a passing run has a mutated definition in the
module, next to the original and marked `Mutant`, which changes it the way a
plausible bug would (a mask forgotten, a count not reset, a store lost); TLC finds
the property violated with it.

## 5. What is proved

`EmbeddedRuntime_proofs`, for all sets of cells, contexts and slots and all word
widths, assuming `Disciplined`: no reference to the statically initialised empty
array, no deinit body that copies `self` (section 6 shows both to break the runtime),
and fewer slots than the immortal count.

* `InductiveInvariant` – `Spec => []IInv`. The checked invariants are not
  inductive: `IInv` adds that counts are exact also for objects being destroyed
  (`CountInv`), that frames hold distinct objects in destruction (`FrameInv`), and
  that a preempted retain still holds the reference it copies and its
  targets are still empty, a preempted release what it gives up (`CallOK`). The
  latter is why two-step calls are sound: the slots involved are private to
  the context.
* From it: `TypeCorrect`, `MemorySafety`, `NoLeak`, `ExactCount`, `Uniqueness`,
  `SingleDestruction`, `StaticSafety`, `HeapSafety`, `PropertiesFirst`.
* `Refinement` – `Spec => ARC!Spec`, one lemma per action.
* `SaturationIsFinal` (`SaturatedStaysAlive`) has other assumptions, because saturation is
  what `Disciplined` excludes: objects from the heap or static ones, any number of contexts,
  and no bound on the references. It speaks of objects that are `Settled`: immortal, with
  no call left that had loaded an earlier count. The action property does not follow from
  the type of the state: although counts may jump over the immortal value, wrap around and
  leave dangling references, only heap cells get into the free list, and a static object is
  never among them (`StaticInv`).

`Once_proofs`, for all contexts, priorities and globals, assuming `Acyclic` (no
initialiser comes back to its own global): `InductiveInvariant`, `TypeCorrect`,
`OnceOnly` (`InitialisedOnce`), `Readiness` (`ReadyWhenUsed`). The strengthening is `Apart`:
what runs above an undisturbed global on the stack cannot reach it — code started by
initialisers because they are acyclic, handlers by the definition of `disturbed`.
`Reached` need only be closed under `Uses`; any over-approximation will do.
`PerContext` (`OncePerContext`) holds of disturbed globals, too, and needs a second
invariant, `CInv`, over a finite set of contexts: an activation of `swift_once` on the
stack belongs to the nearest context below it; the code between the two uses each
other and is all different, so a context has at most one activation of a global, and each
of the runs that have ended or are under way took one of the contexts that may use the global.

`Arrays_proofs`, for all variables, elements, storages (a finite set) and capacities,
assuming `Restricted` (`SliceToEnd` and `RepeatSlices` off, as in the run `arrays`; with a
slice that reaches `endIndex` of its base the code goes one place too far, with
`repeating:count:` it leaks, so without the assumption these are false):
`InductiveInvariant`, `TypeCorrect`, `NoGarbageUsed` (`OnlyElementsAreUsed`), `CountsMatch`
(`CountMatchesElements`), `ElementsBalance` (`ElementsOwned`), `BoundsHold`
(`ViewsInBounds`) and `PointersHold` (`PointerStaysValid`). The invariant has two parts.
`Good`: a constructor has its storage for itself and has filled the first `done` places of it,
every other storage in use has exactly `count` elements, in front, and views and loans lie
in such storages. `Exact`: array memory has retained each element as often as there
are places that hold it. As each step but the traps ends in `Settle`, one lemma, `Settled`,
shows that the destruction of what lost its last reference keeps both parts, and there
is one lemma per action which shows that `Settle` gets arguments that satisfy them.
`Exact` is a sum over places: a write to one storage changes the set of places that
hold an element by a row, whose cardinality is what the code adds to or takes from `owned`.

`UnicodeEncodings_proofs`, for all units and all texts. On sequences: `WholeSequences` (the
masks accept exactly the well-formed sequences), `TruncatedSequences` (and those for the
length of an ill-formed one exactly the proper beginnings), `DecodesTheValue` (`decode`
gives a well-formed sequence its value, never a surrogate or anything beyond U+10FFFF) and
`EncodesTheValue` (`encode` gives every scalar value a well-formed sequence of that
value, in both encodings). They close the gap that the byte classes of the run leave open.
On texts: `Segments` is a recursive function, so its equation is proved first
(`RecursionFromTheEnd`), and then what it yields: elements that lie end to end from the first
unit to the last (`SegmentsDivide`; `Starts` gives each the place where it starts).
`IsNext` says what a parser that stands at a unit of the text needs to know of the
element there. Reading forward it is the element that starts there (`ForwardNext`). Reading
backward it is the one that ends there, and that a parser which sees only what is
behind it can tell is the core of the argument (`ReverseNext`): an element starts wherever a unit
is not a trailing one (`HeadsStart`), so no element that began earlier can reach past the
sequence the masks find, or, when they find none, past the trailing units in front. Then
`ScalarIsNext` and `ParseIsNext`: what a parse takes from a word that holds the text ahead
is that element; `ScalarTaken`: the scalar that the reverse parser computes with an addition
across four bytes is the sequence unless a byte is 255 and carries.

`UTFParser_proofs`, for all calls and all texts, has three invariants, one on top of the other.
`IInv` says of the buffer that the slots behind its last unit are zero, that it has room
except at the one call of `_decodeOne`, and that it and the input are the end of the text.
A zero neither leads nor continues anything, so a sequence that the masks find in the word
lies within the units in use, and the shift that takes it out brings in zeros. From it:
`Lookahead` (`LookaheadIsTheText`) and `Progress` (`EveryStepAdvances`). `DInv` says that the
results are the first elements of the division in the order of reading and that the next one
starts with the first unread unit (`InStep`). From it: `Divides` (`DividesLikeTheStandard`)
and `Scalars` (`ScalarsOfTheText`). `TInv` says what the callers have made of the results: the
output is a well-formed text whose scalars are those of the results, with the replacement
character for errors; the count is one for each result and one more for each value above
65535; and a strict caller has returned with the first error. That the output is divided as
it was put together needs the division again: a well-formed element is not changed by what
is appended to the text (`ElementStays`), and a text has only one division
(`StartsUnique`). From it: `Faithful` (`TranscodesFaithfully`), `LengthIsThatOfTheCopy`
(`LengthOfTheCopy`) and `TypeCorrect`. The runs compare with texts of up to a few units,
these theorems with texts of every length over all units.

`Algorithms_proofs` has an invariant for each of the state machines that `Algorithms` puts
together, and `PromisesOfPrograms` carries the results over to `AlgorithmsSpec`, which the run
checks.

* *Reordering*, for collections of every length and every predicate, throwing wherever it
  likes: `KeepsEveryElement` (`EveryElementKept`) and `ReturnsPromised`
  (`ReturnsWhatItPromises`). `ReorderingInv` is what the comment in `_partitionImpl` says about
  the two ends, stated per loop: below `lo` nothing and from `hi` on everything belongs
  in the second part, with one exception each while an index stands on the element it
  has just tested; for the half-stable partition the first part is in its original order and
  everything between `lo` and `hi` belongs in the second; for reverse both ends are
  mirrored and the middle is untouched. A swap keeps a permutation (`EveryElementKept` is a
  surjection onto the same finite range).
* *ScopedMemory*, for every width of Int, limit, heap and depth of nesting:
  `MemoryElements` (`ElementsAccountedFor`) and `MemoryBlocks` (`BlocksMatchCalls`),
  whether preconditions trap or not. `PlacesInv` says that the storages of the calls hold different
  elements, all of them made, none destroyed or handed out, and no element twice; the
  equation between counts follows because each term is 0 or 1. `BlocksInv` relates
  the addresses of the blocks to the positions of their calls; that a stack block fits
  the limit (`BlocksFit`) rests on its size being representable, as then the product
  does not wrap around.
* *Strides*, for every integer type, bounds and distance: `StridesYieldTheTerms`
  (`YieldsTheTerms`). `OnCourse` says that the iterator stands at the next term of the
  unbounded progression; the terms are monotone, so whatever lies between the start and a
  representable term past the end is representable, and no step wraps around.
* *Flattening*, for collections of any number and sizes, empty ones among them, and offsets of
  any length: `FlatteningFollowsTheRow` (`IndicesFollowTheRow`). The place of an index is
  the number of elements before it. One step forwards adds the element it leaves
  (`AfterFacts`), one backwards takes it away again (`BeforeFacts`), and two indices with the
  same place are the same (`BeforeMeans`), so that walks (`Walking`), the limit on their way
  (`LimitedStops`, `LimitedReaches`) and distances (`StepsFacts`) are arithmetic of places.
  `FlatteningInv` adds the iterator: what it has returned is the place of its next element,
  and once it has given up at the end only empty collections are left.

`WeakReferences_proofs`, for all contexts, objects and weak variables (finite sets), all
side tables and all widths of the counts, assuming `Restricted` (`TablesExclusive` and
`TakesAlive`, as in the run, neither of which the code ensures; without them the theorems are
false): `InductiveInvariant`, `TypeCorrect`, `NothingEverDangles`
(`NothingDangles`), `CountsStayExact` (`CountsAreExact`) and `Refinement`
(`ImplementsZeroing`). `IInv` has one part per
relation between two kinds of state. `RefsGood` and `StacksGood`: what references and
destroyers name is there, an object is on one stack once, and only a deinit body has
anything nested above it. `TablesGood`: a live object and its side table name each other.
`CountsGood`, `WeakGood`: the three counts are the numbers of references, and an object
without strong ones is past the start of its deinit.
`CallGood`: what a call that is between two steps still relies on — the counts it has
read, a side table that belongs to an object to which its caller still refers, a variable that
still holds what it read. `CallsApart`: the variables that calls write are written and read
by no other call. The last two carry the argument: a step of one context keeps what the
calls of the others rely on (`Keeps`, `CallsKept`) because it either holds a reference itself
or leaves the counts above zero, and never writes their variables. Beside `IInv` stands
`FreeGood`: an object between `CanBeFreedNow` and `FreeObject` has no unowned reference but its
own, and no side table. It is what makes the single look at the
counts enough: whoever could make a new reference to it would need one already. The sums are
cardinalities (`TotalShifts`: one context's n references more or fewer change the sum by n;
`SameButShift`: one holder more or fewer of a side table), so that the last reference
goes exactly when nobody has one (`TotalSole`). Steps of one kind share a lemma:
`CountActionKeeps`, `CallOnlyKeeps`, `EntersKeeps`, `RemovesKeeps`, `VarStepKeeps`.

`Refinement` maps a weak variable to the object of its side table while that is alive
(`WeakRef`), and the load of a variable to the abstract question (`Asking`). A live side table
belongs to an object that someone refers to (`Target`), so what a form or a copy stores is
never nil without reason; the last strong release sets `deiniting` in one cell, which
is the side table of all variables that refer to the object and of no other (`ReleaseRefines`);
everything that only moves counts, stacks and calls is not seen (`CountStepUnseen` and
its neighbours). Overflow stops the program and is a stutter.

Only model-checked: liveness (`DestructionCompletes`, `InitialiserCompletes`;
temporal reasoning about fairness is out of the prover's reach). Every invariant and
every action property of a passing run is a theorem. The induction theorems of the library take
the property as an operator, which the provers cannot instantiate; `Induction` states
induction over numbers with a set instead, which they can, so that a recursive function over
numbers can be reasoned about once it is known to satisfy its equation.

## 6. Where code and documentation disagree

Each has a run that TLC ends with a counterexample, and an entry under `findings`.

| Run | Documented | The code |
|---|---|---|
| `empty_array` | the empty array storage is "statically initialized" and shared by all empty arrays | its count is initialised to -1, the immortal value that was commented out; two copies and one release bring it to 0 and destroy it (`StaticNeverDestroyed`) |
| `embedded_deinit_self` | `swift_setDeallocating` sets a flag (`HeapObject.h`) | it is empty; a deinit body that copies and drops `self` runs the destroyer again |
| `arrays_slice_range` | a slice has "the given bounds" and no more elements than its buffer | half-open ranges are passed on as closed ones: one element too many |
| `utf_reverse_scalars` | `Unicode.Scalar` asserts that its value is no surrogate (`Unicode.swift:303`); `_ValidUTF8Buffer` "stores valid UTF8" (`ValidUTF8Buffer.swift:13`) | `UTF8.ReverseParser._bufferedScalar` adds one to all four bytes of the word by a single addition; a byte 255 before the scalar in the text carries into its leading byte: FF EC A0 80 read from the end gives U+D800 |
| `weak_take` | `swift_weakTakeStrong` loads "as if by swift_weakLoadStrong" (`HeapObject.h:564`), which returns null for an object that has begun deallocation (`:555`) | `nativeTakeStrong` gives up its weak reference first; when that was the last one of a dead object, it asks a deleted side table to retain (`WeakReference.h:165`) |

Two more are not runs. "Array-like types with value semantics" (`Array.swift:13`)
promises what no subscript of `Array` does: uniqueness is never established, so that a write
through a copy is seen in the original; `Write` models it so. And an update that
comes between `RefCount.cpp:85` and `:118` is lost (`TablesExclusive`, section 3), of which no
comment says otherwise.

That `swift_once` is not safe against handlers is acknowledged in its comment and
is no finding; `Once` says exactly when it is.

## 7. What is not modelled

* *Of the C++ side-table runtime* (listed in the makefiles, its library commented out):
  boxes, objects on the stack, immortal objects, `swift_tryRetain` and the functions
  that only report a count; what `RefCount.h` does inside one operation, since it belongs
  to a submodule that is absent.
* *Not in the firmware*: `AVRArrayBuffer`, `Set`, `Bitset` are in no build. Vendored
  compiler support is third-party.
* *Shared globals* (`@Volatile`, `hardwarePointer`): one load or store of a compiled
  program. Whether a value of several bytes can be torn is decided by the instructions the
  compiler chooses and by whether the program disables interrupts, neither of which is in
  the source.
* *What the models leave out of functions they have*: the slow path of
  `withUnsafeTemporaryAllocation` outside embedded builds (`TemporaryAllocation.swift:91-98`),
  which asks the system how much stack is left; running out of memory in the experimental
  runtime's `swift_allocObject` (in `EmbeddedRuntime` it is `AllocObjectOOM`); value
  semantics of arrays, which they do not have (section 6).
* *Sequence and lazy adaptors* (`map`, `filter`, `zip`, `prefix`, ...): loops over one
  iterator or one-line translations of an index. `Sequence.map` and its likes assign through
  the subscript into an array whose count covers uninitialised elements
  (`Sequence.swift:232`); for elements that are class references each assignment releases
  whatever the memory held. There is no invariant to check short of initialising first;
  it is listed under `hazards`.
* *Hashing*: a pure function of 64-bit arithmetic.
* *Compiler builtins*: integer and floating point operators and the accesses of raw
  pointers expand to them. Buffers and spans add a bounds test and an offset, and
  keep no state.
* *Operations of arrays marked unavailable* (append, insert, remove,
  replaceSubrange) and the internal functions only they would call.
* *`UTF32`*: its parser takes one unit per call and has no buffer. The index movements
  of `_UIntBuffer` and `_ValidUTF8Buffer` serve collections of units, which nothing
  modelled here iterates.
* *Memory below the word*: the atomic operations are taken as atomic, as
  `Builtin.atomicrmw` promises (the AVR back end masks interrupts around them).

## 8. What is left

The order was: reference counting, because everything rests on it; arrays over its
promise; one-time initialisation; the parsers; the experimental runtime; the algorithms.
All six are modelled and checked. What would come next:

* boxes of the experimental runtime, once `RefCount.h` is available;
* `Sequence.map` over class elements, if uninitialised memory gets a model.
