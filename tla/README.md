# TLA+ verification of StrideJIT

StrideJIT compiles Stride programs with LLVM, in memory or to objects, and gives
a host (an audio engine, a test runner, a firmware) functions to call:
`<Domain>_init` and `<Domain>_process` for each domain of the program, on a
state struct that the host allocates per instance, and `<Domain>_load`, once per
program. What can go wrong for a long time unnoticed is the *generated* code's
behaviour over many ticks, and the agreement between the places in the compiler
that generate it. That is what these modules model.

## Inventory

| Component | Source | State | Operations | Hard parts |
|---|---|---|---|---|
| Buffer layout | `bufferspec.cpp` | none (pure) | resolve a declaration | many combined rules, early returns, a division |
| Buffer code | `binaryexprast.cpp` 1299-1521, `stridegenerator.cpp` 289-319, 431-454 | ring, index, count, since, ready, flush, trigger | push, frame view, frame copy, end of tick, init | deferred flush, wrap-around, mirror, order of the streams in a tick |
| Multirate scheduling | `binaryexprast.cpp` 902-1258 | a phase field per segment | downsampled tick, upsampling loop, init | drift, exact remainders, termination |
| Stream code generation | `stridegenerator.cpp` | rate segments, phase fields of a stream | pre-scan, segmentation, stages | two passes that must agree |
| State machines | `statemachine.cpp`, `stridegenerator.cpp` 183-242, 403-429 | active state, entered, request, argument, histories, latches | tick, host request, init | hierarchy, edges, stale requests |
| Domain load | `stridegenerator.cpp` 677-799 | an atomic guard | load, and init that calls it | threads, memory order, waiting |
| Domain composition | `stridegenerator.cpp` 236-460 | the state struct of an instance | init, process | what a restart restores, the order of streams, machines and resets |
| Functions and instances | `functionast.cpp` | instance structs, loop state | calls, nested instances, reset | instance identity, temporaries, early ends |
| Expressions | `binaryexprast.cpp`, `listexprast.cpp` | none | promotion, lists, assignment, reset | widths, switch edges |
| Compiler context | `stridecompiler.cpp` | state struct layouts, dynamic fields | build structs, defaults | offsets against field order |
| Compilation and cache | `strideenvironment.cpp` 384-555, 586-1325, 2239-2660 | JIT, object cache, snapshots of defaults, values of constants | generate, evaluate constant fills, optimise, emit, compile, run | order of snapshot and optimisation, cache keys, streams that run early |
| Host access | `strideenvironment.cpp` 1429-1790 | the host's state memory | get, set, request | name resolution, widths |
| String runtime | `strideruntime_string.cpp` | an arena per operation and thread; strings are views | concatenate, repeat, format; substring, trim, find, tokenize | an arena that starts over under views still held |
| Testing framework | `src/testing` | test cases, cycles | extract, run, report | none that other parts do not have |
| Name mangler, debug emitter, CLI | the rest | none | conversions | none a model would show |

How they interact. The generator builds a tree of expressions per domain and
generates the code of all of them in the order of the streams, then the state
machines, then the end of the tick. A *tick* is one call of
`<Domain>_process` by the host's thread; nothing else runs on that instance
meanwhile. Streams write switches; a rising edge sets the latches of the
transitions that have that switch as `trigger`. Buffers and machines are
restarted by `<Domain>_init`, which calls `<Domain>_load` first. The host may
change memory only between ticks, through `setStateVar` and
`requestTransition`. Several instances, and several domains, may run in threads
of their own: what they share are root blocks and the load guard.

`PROJECT.json` lists the components with their status, and the hazards at the
lines where they bite.

## Modules

| Module | Models | State and actions against the code |
|---|---|---|
| `BufferLayout` | the rules on sizes that validation and code generation share | `Mirrored`, `SizesOrdered` |
| `BufferSpec` | `BufferSpec::fromDeclaration` | a declaration is a record of properties; `Errors`, `HopOf`, `TriggerOf` follow the function from top to bottom, `FromDeclaration` is its result |
| `FrameSource` | *abstract*: what a buffer promises the reactions it triggers | intervals of numbered samples; no ring |
| `Buffer` | the generated code of one buffer in a tick program | variables carry the names of the fields without the prefix; `Push` is the whole of `BufferPushExprAST::codegen`, `React` and `Peek` read `View`, `EndTick` and `DomainInit` are the end of `process` and `init` |
| `RateScheduleSpec` | `RateScheduleSpec::build` | `Build` |
| `PhaseFields` | the pre-scan of `generateCodeForTree`, the segments of `createStreamCode`, and the state's words they share | `Scan...` and `Generate...` are one turn of the loop of either pass; `Run...` is one segment of a tick, `Load` and `Store` what the access does to memory |
| `RateSchedule` | `DownsampleExprAST`, `UpsampleExprAST` | `schedule` is what is fixed at compile time, `phase` the field, `sub` the loop's phi; `DirectTick`, `CounterTick`, `DecimateTick` and the loop are a tick of each kind of segment, `InitPhase` is init |
| `StateMachine` | `StateMachine` and `StateMachineExprAST` | `activeState` and `histories` are the fields, `side` says whether the host or a tick runs; `InitMachine` is init, `Fire(t)` is everything from the fire block to the end of the switch, with the clearing of latches after it; user blocks are guards that may be open and writes of switches |
| `NameOrder` | the order of a `std::map` of names | used wherever fields are visited by name |
| `DomainCode` | `StrideGenerator::compile`, `buildNodeState`, `getDefaultConstant` | `ProcessBody` and `InitBody` list statements in the order they are generated; `Allocated` is the struct a host gets |
| `Callables` | `FunctionAST::codegen`, `CallExprAST::codegen` and the statements inside | `mem` holds cells, `frames` the calls that run; `Call` is the whole call sequence up to the callee's first statement, `Return` what follows its last |
| `CallRules` | which calls fit the functions they call | an assumption, `CallsAssumption`: what the compiler reports or presumes of a program, and one thing that it does neither of, see the proofs |
| `CallMeaning` | *abstract*: what calls mean, by value, without pointers, stack cells or temporaries | `Turn` is one step of the innermost call: a statement, a call or a return |
| `StateFields` | `getStateVar`, `setStateVar`, `requestTransition` | `Found` is the search for a field, `SetElement` the offset arithmetic |
| `Domain` | one instance of a domain: init, process and the host between them | composes `Callables` and `StateFields`; `Allocate`, then `CallDomain`, `RunCall` and `Access` |
| `DomainMeaning` | a domain beside what its calls mean | `Domain` in lockstep with `CallMeaning`: `meant` is the world that the calls so far mean |
| `StringViews` | the operations that return views or numbers | one operator each; positions count from 0 |
| `StringRuntime` | the operations that fill an arena | `Concat`, `Repeat`, `FormatText`; `Room` and `FormatRoom` decide when the arena starts over |
| `ConstantFills` | the evaluation of streams that fill constants | a stream is what it names itself (`reads`), what the bodies it calls read (`inner`), whether they call into the host or keep state, and the tables whose negative elements it indexes with (`edge`); `RuntimeRead` looks at `reads` only, as the code does. `Fills` chooses the streams, `Running` runs streams one after the other, `Folded` and `Remaining` are what is generated |
| `Environment` | `StrideEnvironment`, from files and platform library to running code | an action per call of the API; `CompileInMemory` is the whole function, cache included. `Key` is the primary file with the include directories (`Primary`) and `Tag`; `trees` are the prepared trees, kept with no dependencies; `plain` is what the program makes with every constant filled at run time |
| `Once` | *abstract*: a call that runs its body once for all callers | |
| `DomainLoad` | `<Domain>_load` and the inits that call it | one action per atomic access; `visible` is what the acquired release store publishes |
| `IntegerSets` | least and greatest elements, induction over a set of integers, division | lemmas that several proofs use |
| `MC...`, `*_proofs` | instances for TLC; theorems and proofs | `MCBufferParts`, `MCTickParts` and `MCDomainParts` check several modules in one run: a variable `part` is chosen at the start, that module runs and the others stay in an initial state |

History variables (`total`, `base`, `owed` in `Buffer`; `elapsed`, `bodyRuns`, `even`
in `RateSchedule`; `ticks`, `runs` in `PhaseFields`; `inside`, `restored`, `edges`, `fired`, `asked`, `taken` in
`StateMachine`; `visible`, `runs` in `DomainLoad`; `last` in `Domain`; `meant` in `DomainMeaning`; `held`,
`since`, `largest`, `intact`, `last` in `StringRuntime`; `plain`, `source`, `early`, `raced`,
`asked`, `used` in `Environment`) record the execution and never
guard what the code does; the only guards on them are the named bounds, and in
`Upgrade` that the library which comes was not used yet. `ran` in
`Environment` counts the runs for a bound and stands for the guards of the loads,
which `DomainLoad` has in full.

## Runs

| Run | Instance | What it shows |
|---|---|---|
| `layout_and_sliding_ring` | *layout*: all properties of a declaration, sizes -1 or 0 to 8, save frame and hop both 0 | accepted declarations have a usable layout; storage is doubled exactly when a frame straddles the end of the ring |
| | *ring*: overlapping frames, mirrored | ring, counters, view, cadence; implements `FrameSource` |
| `buffer_blocks` | three blocks that divide the ring, not mirrored | the view is a fresh block, in order, on every tick; implements `FrameSource` |
| `rates_and_machine` | *segment*: all pairs of rates up to the bound | no drift, even spread, termination |
| | *stream*: chains of two to four signals over six rates, at even and odd offsets | each segment has a field of its own, the right one where the passes agree; segments keep pace beside one another, through restarts |
| | *machine*: seven states in three levels, seven transitions of every kind | histories stay inside, edges and requests are spent once, entered states |
| `calls_and_load` | *calls*: four programs, chains of nested modules, loops, reactions, machines with arrays | calls do what they mean to every instance; a step writes the fields of no instance but those whose statements write, or await the write; init's defaults win over its streams; host calls reach the field they name |
| | *load*: three threads | runs once, visible to every init, everyone returns |
| `strings` | strings of up to four bytes and every short delimiter; results in an arena of 16 | views and searches agree, and tokens, their count where the string does not begin with the delimiter; held views survive their slack; short results are whole |
| `compilation` | programs of up to three streams, two processes, one edit, two libraries | defaults survive; loaded code is the generated program's in what keys tell; constants filled while compiling are what the run would make, under the conditions below |
| `bufferspec_errors` | declarations, zero hops included | *violated*: a frame and a hop of 0 divide by zero (finding 1) |
| `phase_fields_init` | chains over two slower rates and the domain's | *violated*: init leaves half of a phase (finding 2) |
| `buffer_oneblock` | one block that is the whole ring, read on every tick | *violated*: the view is out of order while it is not ready (finding 3) |
| `token_count` | the strings of `strings` | *violated*: the count stops at a delimiter at the start (finding 4) |
| `compilation_fills` | the instance of `compilation` | *violated*: a fill is evaluated whose called body reads a constant left to the load (finding 5) |
| `compilation_key` | the instance of `compilation` | *violated*: a cached object lacks functions that were generated (finding 6) |

Three runs check several modules, one *part* in each behaviour: the parts share no
variable, a property speaks of the variables of its own part, and in the other
parts those stay in an initial state.

**What filled constants promise.** `FillsMatchLoad` compares the loaded code with
the generated program run with all constants filled at run time, and asks of the
program what a reader has to know (`Comparable`, `BodiesReadFilled`): each constant
is written by one stream; no stream runs before the fill of a constant it uses;
fills outside of an onLoad list, which run on every tick, keep no state (a
constant is the first value of such a fill for ever); no negative element is an
index (folded into the code it reads off or 0, at run time it reads outside of
the block); and the bodies that fills call read only constants with fills before
them. Without the last it is `FillsAreLeftToLoad`, which is false (finding 5).

**What keys promise.** `LoadedCodeIsCurrent` says of each thing that code is made
of when the loaded code has the generated one's: the program if no two programs
that were looked for have the same primary file, the functions if all asked for the same
ones, the library if it was never replaced. What the code should do without the
second condition is `KeyTellsFunctions`, which is false (finding 6).

**Bounds.** A ring wraps and a hop recurs within two capacities, so the samples
pushed (`MaxSamples`) exceed twice the ring; the tick programs hold each order
of write, push, reaction and peek, and two pushes in a tick. The phase of a
segment repeats after `domain / gcd` ticks, and `MaxElapsed` exceeds that for all
pairs of rates. The rates of the chains hold one of each schedule and two
that decimate, and `MaxTicks` of `PhaseFields` exceeds their longest period, five ticks; a chain
of four has a first segment, a last one and others. `WordSize` stands for 2^32:
phases stay far below half of it, as they do in the code. The state machine has a transition of each kind at each level:
from an ancestor, around its owner, into a history and past one; the rising
edges and the requests (`MaxEdges`, `MaxRequests`) allow a stale one beside a
fresh one. Three threads allow one loader and two waiters that finish in either
order. `Arena` (16) and `Reserve` (6) stand for 65536 and 4096; results of up to
`MaxCount` copies fill the arena several times over and are clipped, and
`MaxSince` lets later results reach the held one. Sources have four bytes out of
a blank, both braces and a letter (`MaxLength`), delimiters two (`MaxDelim`),
so that delimiters overlap, repeat and end a string. The programs of `calls_and_load`
have two calls of a module on two levels, a loop with a stateful callee, one that
its callee ends, a reaction that ends early, and machines one of whose names
contains the other's; sums wrap at `Word` (3, for 2^32), which keeps the states
finite without a counter, `Leftovers` is what a stack cell may hold before it is
written, and loops end because their limits stay below 2. In `compilation`,
`MaxOpen` (2) processes share the disk, each runs `Process` up to `MaxTicks` (2)
times, so that a fill which counts differs between its turns, and loads both
domains; the first process sets any options, `Later` are those of the second,
and `Followed` are the programs that a second process, an edit or another
library meets: a fill that is shown, and one of a program that imports. Libraries
are told apart by their names only, hence the symmetry; two are enough to replace
one. No symmetry is used where liveness is checked.

**Fairness.** Safety needs none, and `Buffer`, `PhaseFields`, `StateMachine`, `Domain`,
`StringRuntime`, `Environment` and `BufferSpec` assume none: the host may stop calling at any time. `RateSchedule` assumes weak
fairness of the steps of a loop that was entered (the thread that runs
`process` goes on), for `LoopEnds`. `DomainLoad` assumes weak fairness of each
thread inside a call (a spinning thread does not starve the loader), and none
of `CallLoad`. Where a run does not check for deadlock, a named bound is what stops it,
or, where a declaration is resolved, that there is one step. `calls_and_load` checks for
deadlock.

**Findings.**
1. `BufferSpec::fromDeclaration` computes `capacity % hop` even when the hop
   has just been rejected as 0; with `frameSize = hop = 0` the `&&` does not
   protect it, and the compiler dies of a division by zero instead of reporting
   the error that `tests/jit_buffer_tests.cpp` expects of invalid sizes. The run
   shows it with `capacity: 1`, `triggerMode: TriggerHalf` and `frameSize: 0`,
   where the hop is 1/2 = 0; a quarter of a capacity below 4 does the same, and
   so does `TriggerPeriodic` with a hop of 0 or none.
2. The pre-scan cuts a chain wherever its rate changes; `createStreamCode` does
   not at its second signal, because no assignment has been made that could be
   flushed. If the first signal alone has a rate that needs a phase, a field is
   added that no segment is meant for, and every later segment takes the field
   before its own, perhaps of another width. In a 100 Hz domain,
   `A (25 Hz) >> B (40 Hz)` keeps a 64-bit phase in a 32-bit field; init resets
   the lower half, and a negative phase becomes about -2^32: from the second
   init on, the 40 Hz segment runs on every tick. `doc/multirate_compilation.md:80`
   says that init resets all phases. `CutAlike` is the exact condition under
   which the fields do fit, and that is proved.
3. `doc/buffers_and_frequency_domain.md:272` says of the view that it is in order
   on every tick. In a ring that is one block, which is the layout when only
   `capacity` is given, it is while `ready` is on; then the next block is written
   over it: of capacity 3, the view behind the fourth push is 4, 2, 3
   (`binaryexprast.cpp:1477`). `ViewInOrder` is proved of all other rings.
4. `__stride_string_token_count` leaves its loop at a delimiter found at position
   0 (`strideruntime_string.cpp:285`) and returns 1 for a string that begins with
   its delimiter, however many tokens follow; `doc/runtime_library.md:144` has
   it count them all. Of one blank it counts 1 where `Tokenize` makes two.
5. `runtimeRead` (`strideenvironment.cpp:590`) does not look into the bodies that
   a stream calls, as `impureCall` does, although bodies read root constants
   (`SumTable` in `tests/data/constant_array.stride`). If D is left to the load,
   say because its stream calls into the host, and C is filled by a stream whose
   called body reads D, then C is evaluated with D unset and its stream removed:
   loading fills D and leaves C as it is. `strideenvironment.hpp:376-377` says
   that streams which cannot be evaluated are left to run at load time.
6. The key of a cached object (`strideenvironment.cpp:2247-2258`) does not tell
   which functions were generated. An object with the domains only, made by
   `generateIr(path, false)`, is loaded in place of a module with all root
   functions; `doc/caching.md:77` says that the key must change with any factor
   that influences the output. The platform library is in no key either, and
   prepared trees are looked up without dependencies (395-396, 474-475, 535-539);
   both are conditions of `LoadedCodeIsCurrent`.

**Remarks.** Seen while modelling, and not run as findings; where a property
had to state one of these as its condition, its name follows.

Buffers and rates.
- `doc/multirate_compilation.md:74` describes fractional downsampling as firing
  when an accumulator reaches its limit; the code fires when the phase is not
  positive, so that the first tick runs the segment, as for integer ratios.
- A flush of an unmirrored buffer delivers its last complete block and drops the
  partial one (`NoSampleSkipped`).

Machines, calls and init.
- A restored history runs the entry blocks of the default child (`ActiveIsEntered`).
- `doc/code_geneartion.md:46` says that persistent state is reset at domain init.
  Fields of module instances are not, and neither are requests, histories and
  blocks without a default (`InitRestoresDeclared` says what is).
- A domain without dynamic fields keeps the state of its modules on the stack
  and sets it up again on every tick, against `doc/code_geneartion.md:51`.
- A reset signal that is itself a field resets only fields that sort after its
  name (`FieldsReset`). Latches are not set by writes inside modules.
- What a reaction that is not triggered leaves in an output that is local to a
  loop is undefined; what a callee writes to a value of a loop is lost if it
  comes as an external.
- A call that passes one variable to be written and once more, say as an output
  and as an input, works on one cell under two names and does not do what it
  means; the compiler does not check for it (`CallsFit` excludes it).
- A loop over an iterator compares its limit with itself and never counts
  (`functionast.cpp:873-880`); such loops are not modelled.

Host access.
- A 16-bit field is written with 32 bits (`HostTouchesOneField`); no index is
  checked; `setStateVar` reads an index in brackets, `getStateVar` does not.
- A request for machine `Door` may land in `Door2` (`RequestsReachTheirMachine`).

Compilation.
- Several files are generated before `initializeJIT` sets the data layout
  (`DefaultsSurvive`).
- Files edited between `generateIr` and `compileInMemory` leave an object in the
  cache under the new files' key (`raced`); the key does not tell the debug mode
  either, and an optimisation level above 0 only as on or off.
- A constant filled on every tick by a stream that calls a stateful module is
  frozen at its first value (`FillsKeepNothing`); a negative element reads off or
  0 once its table is folded (`IndicesAreInside`), and outside of the block while
  it is not; programs of several files evaluate no fills; a second writer of an
  evaluated constant is not ordered (`WrittenOnce`).

Strings.
- An empty text is not contained in a string that starts with it (`ViewsAgree`
  asks for a delimiter). A concatenation longer than the arena is not checked;
  it is a bound of `Concat`.

Testing framework.
- An external that a test both prepares and validates is never injected
  (`doc/unit_testing.md`, section 7); the runner is not modelled.

## Proofs

Proved for every value of the constants, from the named assumptions of each
module only (`SizesAssumption`, `ProgramsAssumption`, `RatesAssumption`, `PhaseFieldsAssumption`,
`TreeAssumption`, `TransitionsAssumption`, `WritesAssumption`,
`NamesAssumption`, `HostAssumption`, `LayoutsAssumption`, `CallsAssumption`, `StringsAssumption`, `NullAssumption`,
`EnvironmentAssumption`, `FillsAssumption`):

- `Buffer_proofs`. The inductive invariant is `TypeOK` and `RingConsistent`:
  `RingConsistent` ties `storage` to the history variables slot by slot, which
  is what view properties need and what a push needs to keep the mirror. The
  view's bounds, `ViewIsNewest` and `ViewCoversFreshSamples` follow from it, for
  every layout. `BuiltinCadence` is inductive with it. A ring of blocks needs
  the phase of its index as well (`BlockPhase`): with it `ViewInOrder` and
  `ImplementsFrameSource` hold of mirrored rings and of rings of several
  blocks (`SeveralBlocks`, which both theorems assume; each action maps to one
  of `FrameSource`, `SkipReaction` and `WriteTrigger` stutter). They are false
  of the ring that is one block, see finding 3. `NoSampleSkipped` is about two
  reactions and all that lies between them; its invariant counts what has been
  pushed since the last one. The layouts of `BufferSpec` are proved usable for
  every declaration, and to meet `SizesAssumption`, so that the two modules
  join without a gap.
- `RateSchedule_proofs`. The phase equals `Ahead`, and in each state it is
  within one step of zero; `KeepsPace` reads this off. `EvenlySpread` needs what
  is ahead at the last run, tied to `even`. That `Build` yields positive steps
  rests on the greatest-divisor lemma in `IntegerSets`.
- `PhaseFields_proofs`. `Ends` is the set of places where a segment with a phase
  ends; the generator ends the same but place 2 (`GenEnds`). The invariant says
  that the fields are counted by `Ends`, the segments by `GenEnds`, and that the
  n-th of each belongs to the n-th place: counting grows with the set, so the
  fields suffice, and without place 2 the two agree. `SegmentsKeepPace` needs
  that the fields lie apart in memory (`FieldsApart`, the recursion of the
  offsets unfolded by induction), that an aligned store of one or two words is
  read back, and for each segment what its phase says of its runs (`PaceInv`).
  It assumes `StepsFit`: a rate's steps fit the words of its field. Of the
  accumulators the code sees to that (`kMaxIntRate`,
  `binaryexprast.cpp:932-939`); of a counter's 32 bits nothing does, and a
  segment 2^31 times slower than its domain would be needed to break it.
- `StateMachine_proofs`. `Closure` is the least set closed under a function; the
  lemmas on it (it contains its start, is closed, is least, and is transitive)
  replace recursion. `EdgesFireOnce` is inductive with "a latch is set only if
  an edge has not been spent", `RequestsFireOnce` with the same of a request.
- `Domain_proofs`. Of the load guard, the invariant says that its value, the
  number of threads in `run` and the writes made agree; the refinement of
  `Once!Safety` follows. Of the host's access: the elements of a field lie one
  after the other in the struct and nowhere else (`FieldsPlaced`, from the
  flattening of the layout unfolded by induction), so that `setStateVar`'s
  offset arrives at the element it was asked for and a field that is not 16 bits
  wide spills nothing. `HostTouchesOneField` follows for any state; a request
  also has to find its field in the struct, and the invariant for that
  (`CellsInv`) says that no statement, call or return of generated code takes a
  field of the domain away. The assumptions are facts of `buildNodeState` and
  the names it gives: fields have names of their own and share no element, and
  a machine's request field is named for it, as nothing else is. Of init:
  `InitRestoresDeclared` says that the defaults win over all that went before,
  the writes of init's own streams included. Its invariant (`InitInv`) follows
  the outermost frame: while calls run above it, it is still in the onInit
  streams and nothing is restored yet; past them each statement is an assignment
  of a number to a field of its own (`RestoredFields`), so that what is behind
  the frame's `pc` stays restored.

  Of calls: a call gets pointers to cells of its callers, makes cells on the
  stack for what has none, and its instance is a child struct of its caller's.
  `PointersHold` is the inductive invariant about them (`PointerInv`): calls under
  way are nested, each at the path of the call sites that led to it
  (`PathsAreSites`); each cell that one of them reaches exists, since struct
  types are built for all sites, call by call (`Instances`), and a stack cell
  belongs to a call that still runs; what a call writes is its own, or was lent
  by a call that waits for it, and has no second name in a call that waits,
  save the names that call will take back (`Apart`). `InstancesStayApart` reads
  `InstancesApart` off it: a step changes a field only of the instance one of
  whose statements writes it. `CallsMeanWhatTheyDo` proves
  `CallsMatchTheirMeaning`. That is a statement about the moment when no call
  runs, and far from inductive; `MeantInv` says what holds in between. Frame by
  frame, generated call and meant call stand at the same statement (`Twins`);
  every name that has a value has the same one in both, unless the call waits
  and has lent it (`NamesAgree`, `Pending`); so has every field, unless it is
  lent (`FieldsAgree`). A return then gives all that was lent back at once. A
  call that is not triggered has to leave alone what it would have written, and
  an early end must have given its outputs a value (`PlaceOK`, from `Known`,
  which counts what has been set before a statement). Resets at the entry of a
  call come one after the other in the code and at once in what it means; that
  they agree is an induction over the names' order.

  These two theorems, and `PointersHold`, assume of programs what `CallRules`
  states: arguments match in number, names have one meaning, nothing is read
  before it is set (a reaction's outputs count as set only behind a call that
  surely ran), inputs are not written, reset signals are arguments or fields
  reset earlier, functions do not call themselves. Most of these the compiler
  reports or relies on, at the lines named there. That a call passes no variable
  both to be written and once more it neither checks nor presumes:
  without it the theorem is false, which is why it is an assumption and a remark
  above. TLC evaluates the assumption on the programs of `calls_and_load`.
  All theorems on a domain are about `InstanceSpec`, whose steps are those of
  `MeaningSpec` without `meant`, except `CallsMeanWhatTheyDo`, which is about
  `MeaningSpec`.
- `StringRuntime_proofs`. Every operation allocates a result that lies in the
  arena and starts where `Room` or `FormatRoom` says (`EveryStepAllocates`).
  The invariant has two cases: the arena has not started over since the held
  result, and the offset is its end plus `since`; or it has, and then what was
  left of the arena was smaller than the slack, so that `since` bounds the
  offset. A result that would reach the held view makes `since` too large. What the
  operations compute is proved of strings of every length: an occurrence is a
  slice that equals the delimiter, `Find` is the least and `FindLast` the
  greatest of them; the walk over the tokens cuts a string at increasing places
  (`CutAt`), of which the count, the tokens and the joined string are read off;
  `Format` behind a place undoes `Escaped` behind it (`FormatUndoesEscape`).
- `Environment_proofs`. For the defaults: until the bytes are copied, their
  constant is alive in a module that nothing has optimised or handed to the JIT
  (`DefaultsInv`). For the code: the module is of the source; while no edit
  raced, an object in the cache is of a program and a set of functions that
  objects were looked for, and its primary file is the one in its key
  (`CacheCurrent`), and the files of a generated program are unchanged until it
  is loaded. So loaded code is the source's or that of another that was asked
  for under the same primary file (`LoadedCurrent`), which the conditions of
  `LoadedCodeIsCurrent` rule out part by part. For the evaluated constants: each
  fill writes a constant that no other fill writes, and what it names itself is
  written by fills before it (`GoodFills`); that the bodies it calls read no
  others the theorem has to assume (`Modest`). Then what the fills leave is a
  fixed point of them (`FillIs`); a full run and a run of the remaining streams
  agree stream by stream (`Agree`, `StreamAgrees`), and what the JIT holds was
  made of either (`FillInv`).

A recursive function is unfolded by induction over the *set* of arguments for
which it is known (`Induction` in `IntegerSets`); that is why strings, tokens,
offsets and fills are functions of a place and not recursive operators.

Only model-checked: liveness (`LoopEnds`, `EveryCallReturns`, the fairness part
of `ImplementsOnce`). Every other property of a passing run is the subject of a
theorem. Of the ring that
is a single block all is proved but the order of its view (`ViewInOrder`,
`ImplementsFrameSource`; finding 3).

## Not modelled

See `PROJECT.json`. In short: the parser and LLVM are external; type promotion
and lists choose instructions and keep no state; debug information, reports and
mangling are formatting; the testing framework runs cases one after the other.
In the machine, the extra `onProcess` of parallel states and a cyclic
`initialState`; in a chain of signals, functions between them, other domains and
the topological stages; in multirate scheduling, the floating-point accumulator
used for rates that do not scale to integers; in calls, arrays and bundles,
strings, platform functions, iterators, and a domain's inputs and outputs passed as
arguments; in strings, the conversions of numbers.

## Plan

What is left, the parts that decide most first:

1. `Domain` with a buffer, a rate segment and a full machine that share a
   trigger switch: the tick as their composition.
2. Arrays in calls: element-wise calls and the state of each element.
3. Functions in the chains of `PhaseFields`.
4. Type promotion of mixed expressions, with widths.
5. Proofs: `CallsMatchTheirMeaning` for those once they are modelled, and of the
   full machine inside a domain.
