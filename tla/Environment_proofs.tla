------------------------- MODULE Environment_proofs -------------------------
(***************************************************************************)
(* What holds of environments for all programs, however many processes     *)
(* open one: the defaults a state is allocated with, the code that objects *)
(* found on disk hold, and the constants that are filled while compiling.  *)
(***************************************************************************)
EXTENDS Environment, SequenceTheorems, IntegerSets, TLAPS

Generated == source # NoSource

\* The defaults are kept, or the constant they come from can still be read.
Kept(d) == d.bytes = "defaults" \/ (d.bytes = "none" /\ d.constant = "valid")

LEMMA NoCodeIsCode == IsCode(NoCode) /\ NoCode.functions = {}
BY DEF IsCode, NoCode, Code, FunctionSets

LEMMA NoSourceIsSource == IsSource(NoSource)
BY DEF IsSource, NoSource, FunctionSets

LEMMA GeneratedIsCode ==
  ASSUME NEW p \in Texts, NEW many \in BOOLEAN, NEW f \in FunctionSets, NEW v,
         NEW lib \in Libraries
  PROVE  IsCode(Code(p, many, f, v, lib))
BY DEF IsCode, Code

LEMMA SnapshotOf ==
  ASSUME NEW d \in Defaults
  PROVE  /\ Snapshot(d) \in Defaults
         /\ Snapshot(d).built = d.built
         /\ Kept(d) => Snapshot(d).bytes = "defaults"
BY DEF Snapshot, Defaults, Kept

LEMMA OptimizedOf ==
  ASSUME NEW d \in Defaults, NEW o \in Optimized(d)
  PROVE  /\ o \in Defaults /\ o.built = d.built
         /\ Kept(d) => o.bytes = "defaults"
<1>1. CASE ~options.optimize
  BY <1>1, SnapshotOf DEF Optimized
<1>2. CASE options.optimize
  <2>1. PICK c \in {"null", Snapshot(d).constant, "dangling"} :
          o = [Snapshot(d) EXCEPT !.constant = c]
    BY <1>2 DEF Optimized, AfterPasses
  <2> QED BY <2>1, SnapshotOf DEF Defaults
<1> QED BY <1>1, <1>2

-----------------------------------------------------------------------------
\* One step of compiling, whichever way it ends.
LEMMA CompileSteps ==
  ASSUME TypeOK, CompileInMemory
  PROVE  /\ defaults' \in Defaults /\ defaults'.built = defaults.built
         /\ Kept(defaults) => defaults'.bytes = "defaults"
         /\ env' \in [optimized : BOOLEAN, path : BOOLEAN, layout : Layouts]
         /\ module' \in {module, NoCode}
         /\ early' \in BOOLEAN
         /\ \/ UNCHANGED <<loaded, cache>>
            \/ /\ UsesCache /\ UNCHANGED cache
               /\ Key \in DOMAIN cache /\ loaded' = cache[Key]
            \/ /\ UsesCache /\ loaded' = module
               /\ cache' = [key \in DOMAIN cache \cup {Key} |->
                              IF key = Key THEN module ELSE cache[key]]
            \/ UNCHANGED cache /\ loaded' = module
<1> USE DEF TypeOK, Layouts
<1>0. /\ defaults \in Defaults /\ Snapshot(defaults) \in Defaults
      /\ Snapshot(defaults).built = defaults.built
      /\ Kept(defaults) => Snapshot(defaults).bytes = "defaults"
      /\ Kept(defaults) => Kept(Snapshot(defaults))
  BY SnapshotOf DEF Kept
<1>1. CASE CompileFromCache
  BY <1>0, <1>1 DEF CompileFromCache, Load, Hit
<1>2. CASE CompileToCache
  <2>1. /\ defaults' \in Defaults /\ defaults'.built = defaults.built
        /\ Kept(defaults) => defaults'.bytes = "defaults"
    BY <1>0, <1>2, OptimizedOf DEF CompileToCache
  <2> QED BY <1>2, <2>1 DEF CompileToCache, Load, NeedsOptimizing
<1>3. CASE CompileModule
  <2>1. PICK d \in Defaults :
          /\ d.built = defaults.built
          /\ Kept(defaults) => Kept(d)
          /\ defaults' = [Snapshot(d) EXCEPT !.constant = "null"]
    BY <1>0, <1>3, OptimizedOf DEF CompileModule, Kept
  <2>2. /\ defaults' \in Defaults /\ defaults'.built = defaults.built
        /\ Kept(defaults) => defaults'.bytes = "defaults"
    BY <2>1, SnapshotOf DEF Defaults
  <2> QED BY <1>3, <2>2 DEF CompileModule, Load, NeedsOptimizing
<1>4. CASE CompileFails
  <2>1. /\ defaults' \in Defaults /\ defaults'.built = defaults.built
        /\ Kept(defaults) => defaults'.bytes = "defaults"
    BY <1>0, <1>4, OptimizedOf DEF CompileFails
  <2> QED BY <1>4, <2>1 DEF CompileFails, NeedsOptimizing
<1> QED BY <1>1, <1>2, <1>3, <1>4 DEF CompileInMemory

-----------------------------------------------------------------------------
LEMMA TypeInit == Init => TypeOK
<1> SUFFICES ASSUME Init PROVE TypeOK
  OBVIOUS
<1>1. DOMAIN cache = {} /\ DOMAIN trees = {} /\ files \in Texts
  BY DEF Init, Texts
<1>2. /\ env \in [optimized : BOOLEAN, path : BOOLEAN, layout : Layouts]
      /\ defaults \in Defaults
  BY DEF Init, NoEnv, NoDefaults, Defaults, Layouts
<1>3. IsCode(module) /\ IsCode(loaded) /\ IsSource(source) /\ asked = {} /\ used = {}
  BY NoCodeIsCode, NoSourceIsSource DEF Init
<1> QED BY <1>1, <1>2, <1>3 DEF Init, TypeOK

LEMMA TypeStep == TypeOK /\ [Next]_vars => TypeOK'
<1> SUFFICES ASSUME TypeOK, [Next]_vars PROVE TypeOK'
  OBVIOUS
<1> USE DEF TypeOK, disk, history
<1>1. CASE Open
  <2>1. options' \in Options
    BY <1>1, EnvironmentAssumption DEF Open
  <2> QED
    BY <1>1, <2>1, NoCodeIsCode, NoSourceIsSource
       DEF Open, NoEnv, NoDefaults, Defaults, Layouts, IsCode, IsSource
<1>2. CASE Edit
  BY <1>2 DEF Edit, Texts, IsCode, IsSource
<1>3. CASE Upgrade
  BY <1>3 DEF Upgrade, IsCode, IsSource
<1>4. CASE InitializeJIT
  BY <1>4 DEF InitializeJIT, Layouts, IsCode, IsSource
<1>5. ASSUME NEW many \in BOOLEAN, NEW all \in BOOLEAN, Generate(many, all)
      PROVE  TypeOK'
  <2> DEFINE functions == {"domains"} \cup IF all THEN {"all"} ELSE {}
             layout == IF many THEN env.layout ELSE "host"
             fresh == [built |-> layout, constant |-> "valid", bytes |-> "none"]
  <2>1. layout \in Layouts /\ functions \in FunctionSets
    BY DEF Layouts, FunctionSets
  <2>2. fresh \in Defaults
    BY <2>1 DEF Defaults
  <2>3. defaults' \in Defaults
    BY <1>5, <2>2, OptimizedOf DEF Generate
  <2>4. Prepared \subseteq Libraries
    BY DEF Prepared, TreeFound
  <2>5. IsCode(module')
    BY <1>5, <2>1, <2>4, GeneratedIsCode DEF Generate
  <2>6. /\ env' \in [optimized : BOOLEAN, path : BOOLEAN, layout : Layouts]
        /\ IsSource(source')
    BY <1>5, <2>1 DEF Generate, IsSource
  <2>7. used' = used \cup {library}
    BY <1>5 DEF Generate
  <2>8. /\ DOMAIN trees' \subseteq Texts
        /\ \A t \in DOMAIN trees' : trees'[t] \in used'
    <3>1. \/ trees' = trees
          \/ trees' = [t \in DOMAIN trees \cup {files} |->
                         IF t = files THEN library ELSE trees[t]]
      BY <1>5 DEF Generate, KeepTree
    <3> QED
      BY <2>7, <3>1
  <2> QED
    BY <1>5, <2>3, <2>5, <2>6, <2>7, <2>8 DEF Generate, IsCode
<1>6. CASE GenerateStandalone
  BY <1>6 DEF GenerateStandalone, IsCode, IsSource, FunctionSets
<1>7. CASE EmitObject
  <2>1. defaults' \in Defaults
    BY <1>7, OptimizedOf DEF EmitObject
  <2>2. env' \in [optimized : BOOLEAN, path : BOOLEAN, layout : Layouts]
    <3>1. options.optimize \in BOOLEAN /\ env.optimized \in BOOLEAN
          /\ env.path \in BOOLEAN /\ "target" \in Layouts
      BY DEF Layouts, Options
    <3>2. env' = [env EXCEPT !.layout = "target",
                             !.optimized = env.optimized \/ options.optimize]
      BY <1>7 DEF EmitObject
    <3>3. env.optimized \/ options.optimize \in BOOLEAN
      BY <3>1
    <3> QED BY <3>1, <3>2, <3>3
  <2> QED BY <1>7, <2>1, <2>2 DEF EmitObject, IsCode, IsSource
<1>8. CASE CompileInMemory
  <2>1. IsCode(module')
    BY <1>8, CompileSteps, NoCodeIsCode
  <2>2. Key \in Range(Primary) \X BOOLEAN
    <3>1. options.optimize \in BOOLEAN
      BY DEF Options
    <3>2. Primary[files] \in Range(Primary)
      BY EnvironmentAssumption DEF Range
    <3> QED
      BY <3>1, <3>2 DEF Key, Tag
  <2>3. /\ IsCode(loaded')
        /\ DOMAIN cache' \subseteq Range(Primary) \X BOOLEAN
        /\ \A key \in DOMAIN cache' : IsCode(cache'[key])
    BY <1>8, <2>2, CompileSteps DEF CompileInMemory
  <2>4. asked' \subseteq [program : Texts \cup {<< >>}, functions : FunctionSets]
    BY <1>8 DEF CompileInMemory, Asked, IsSource
  <2> QED
    BY <1>8, <2>1, <2>3, <2>4, CompileSteps DEF CompileInMemory, IsSource
<1>9. ASSUME NEW container \in Range(Containers), Run(container)
      PROVE  TypeOK'
  BY <1>9 DEF Run, IsCode, IsSource
<1>10. CASE UNCHANGED vars
  BY <1>10 DEF vars, IsCode, IsSource
<1> QED
  BY <1>1, <1>2, <1>3, <1>4, <1>5, <1>6, <1>7, <1>8, <1>9, <1>10 DEF Next

(* The variables of an environment stay in range, for every set of         *)
(* programs and any number of processes.                                   *)
THEOREM TypeCorrect == Spec => []TypeOK
BY TypeInit, TypeStep, PTL DEF Spec

-----------------------------------------------------------------------------
(* Until they are copied, the defaults can be read from a constant that is *)
(* alive in the module.                                                    *)
DefaultsInv ==
  /\ ~Generated => module = NoCode /\ loaded = NoCode
  /\ Generated => \/ defaults.bytes = "defaults"
                  \/ /\ defaults.bytes = "none" /\ defaults.constant = "valid"
                     /\ module # NoCode
  /\ Generated /\ defaults.built # "host" => source.many

LEMMA DefaultsInit == Init => DefaultsInv
BY DEF Init, DefaultsInv, Generated

LEMMA SomethingGenerated ==
  ASSUME NEW many \in BOOLEAN, NEW all \in BOOLEAN, Generate(many, all)
  PROVE  source' # NoSource /\ module' # NoCode
<1>1. /\ "domains" \in source'.functions /\ "domains" \in module'.functions
  BY DEF Generate, Code
<1> QED BY <1>1 DEF NoSource, NoCode, Code

LEMMA StandaloneGenerated ==
  ASSUME TypeOK, GenerateStandalone
  PROVE  source' # NoSource /\ module' # NoCode
<1>1. "standalone" \in source'.functions /\ "standalone" \in module'.functions
  BY DEF GenerateStandalone, TypeOK, IsCode, IsSource
<1> QED BY <1>1 DEF NoSource, NoCode, Code

LEMMA DefaultsStep == TypeOK /\ DefaultsInv /\ [Next]_vars => DefaultsInv'
<1> SUFFICES ASSUME TypeOK, DefaultsInv, [Next]_vars PROVE DefaultsInv'
  OBVIOUS
<1> USE DEF DefaultsInv, Generated, disk, history
<1>1. CASE Open
  BY <1>1 DEF Open
<1>2. CASE Edit
  BY <1>2 DEF Edit
<1>3. CASE Upgrade
  BY <1>3 DEF Upgrade
<1>4. CASE InitializeJIT
  BY <1>4 DEF InitializeJIT
<1>5. ASSUME NEW many \in BOOLEAN, NEW all \in BOOLEAN, Generate(many, all)
      PROVE  DefaultsInv'
  <2> DEFINE layout == IF many THEN env.layout ELSE "host"
             fresh == [built |-> layout, constant |-> "valid", bytes |-> "none"]
  <2>1. fresh \in Defaults /\ Kept(fresh)
    BY DEF Defaults, Layouts, Kept, TypeOK
  <2>2. /\ defaults'.built = layout
        /\ defaults'.bytes = "defaults" \/ defaults' = fresh
    BY <1>5, <2>1, OptimizedOf DEF Generate
  <2>3. source'.many = many
    BY <1>5 DEF Generate
  <2> QED BY <1>5, <2>2, <2>3, SomethingGenerated DEF Generate
<1>6. CASE GenerateStandalone
  <2>1. Generated /\ source'.many = source.many /\ UNCHANGED defaults
    BY <1>6 DEF GenerateStandalone, TypeOK, IsSource
  <2> QED BY <1>6, <2>1, StandaloneGenerated
<1>7. CASE EmitObject
  <2>1. /\ defaults \in Defaults /\ Generated
        /\ UNCHANGED <<module, source>> /\ module # NoCode
    BY <1>7 DEF EmitObject, TypeOK
  <2>2. \/ UNCHANGED defaults
        \/ /\ defaults'.built = defaults.built
           /\ Kept(defaults) => defaults'.bytes = "defaults"
    BY <1>7, <2>1, OptimizedOf DEF EmitObject
  <2> QED BY <2>1, <2>2 DEF Kept
<1>8. CASE CompileInMemory
  <2>1. Generated /\ UNCHANGED source
    BY <1>8 DEF CompileInMemory
  <2>2. Kept(defaults)
    BY <2>1 DEF Kept
  <2> QED BY <1>8, <2>1, <2>2, CompileSteps
<1>9. ASSUME NEW container \in Range(Containers), Run(container)
      PROVE  DefaultsInv'
  BY <1>9 DEF Run
<1>10. CASE UNCHANGED vars
  BY <1>10 DEF vars
<1> QED BY <1>1, <1>2, <1>3, <1>4, <1>5, <1>6, <1>7, <1>8, <1>9, <1>10 DEF Next

LEMMA DefaultsImply == TypeOK /\ DefaultsInv => DefaultsSurvive
<1> SUFFICES ASSUME TypeOK, DefaultsInv, Generated
             PROVE  /\ AllocateState.bytes = "defaults"
                    /\ AllocateState.layout # "host" => source.many
  BY DEF DefaultsSurvive, Generated
<1>1. defaults \in Defaults
  BY DEF TypeOK
<1>2. Snapshot(defaults).bytes = "defaults"
  BY <1>1, SnapshotOf DEF DefaultsInv, Kept
<1> QED BY <1>2 DEF DefaultsInv, AllocateState

(* Whenever the host allocates a state, it holds the declared defaults,    *)
(* whatever was generated, optimised, emitted or compiled before.          *)
THEOREM DefaultsAlwaysSurvive == Spec => []DefaultsSurvive
<1>1. Spec => [](TypeOK /\ DefaultsInv)
  BY TypeInit, TypeStep, DefaultsInit, DefaultsStep, PTL DEF Spec
<1> QED BY <1>1, DefaultsImply, PTL

-----------------------------------------------------------------------------
(* While no files changed between generating and compiling, an object on   *)
(* disk is of a program that objects were looked for, with its primary     *)
(* file and functions.  All code was generated with a library in use then. *)
LibrariesUsed ==
  /\ module # NoCode => module.library \in used
  /\ Generated => source.library \in used
  /\ loaded # NoCode => loaded.library \in used
  /\ \A key \in DOMAIN cache : cache[key].library \in used

ModuleCurrent ==
  module # NoCode =>
    /\ module.program = source.program /\ module.many = source.many
    /\ module.functions = source.functions /\ env.path = ~source.many

CacheCurrent ==
  \A key \in DOMAIN cache :
    /\ Asked(cache[key]) \in asked /\ ~cache[key].many
    /\ Primary[cache[key].program] = key[1]

LoadedCurrent ==
  loaded # NoCode =>
    /\ loaded.many = source.many
    /\ \/ /\ loaded.program = source.program
          /\ loaded.functions = source.functions
       \/ /\ Asked(loaded) \in asked /\ Asked(source) \in asked
          /\ Primary[loaded.program] = Primary[source.program]

CurrentInv ==
  /\ LibrariesUsed /\ ModuleCurrent
  /\ ~raced => /\ CacheCurrent /\ LoadedCurrent
               /\ Generated /\ loaded = NoCode => source.program = files

LEMMA CurrentInit == Init => CurrentInv
<1> SUFFICES ASSUME Init PROVE CurrentInv
  OBVIOUS
<1>1. DOMAIN cache = {} /\ module = NoCode /\ loaded = NoCode
  BY DEF Init
<1> QED BY <1>1 DEF Init, CurrentInv, LibrariesUsed, ModuleCurrent, CacheCurrent,
                    LoadedCurrent, Generated

\* Compiling keeps them: what was found names the primary file generated.
LEMMA CurrentCompile ==
  ASSUME TypeOK, DefaultsInv, CurrentInv, CompileInMemory
  PROVE  CurrentInv'
<1>1. /\ module # NoCode /\ loaded = NoCode /\ Generated
      /\ UNCHANGED <<files, library, trees, options, source, raced, used>>
      /\ asked' = asked \cup (IF UsesCache THEN {Asked(source)} ELSE {})
  BY DEF CompileInMemory, DefaultsInv, disk
<1>2. env'.path = env.path
  BY DEF TypeOK, CompileInMemory, CompileFromCache, CompileToCache, CompileModule,
         CompileFails
<1>3. module' \in {module, NoCode}
  BY CompileSteps
<1>4. ModuleCurrent'
  BY <1>1, <1>2, <1>3 DEF CurrentInv, ModuleCurrent
<1>5. LibrariesUsed'
  <2>1. LibrariesUsed
    BY DEF CurrentInv
  <2>2. \/ UNCHANGED <<loaded, cache>>
        \/ UNCHANGED cache /\ Key \in DOMAIN cache /\ loaded' = cache[Key]
        \/ /\ loaded' = module
           /\ cache' = [key \in DOMAIN cache \cup {Key} |->
                          IF key = Key THEN module ELSE cache[key]]
        \/ UNCHANGED cache /\ loaded' = module
    BY CompileSteps
  <2> QED BY <1>1, <1>3, <2>1, <2>2 DEF LibrariesUsed, Generated
<1>6. ASSUME ~raced
      PROVE  /\ CacheCurrent' /\ LoadedCurrent'
             /\ Generated' /\ loaded' = NoCode => source'.program = files'
  <2>1. /\ source.program = files /\ CacheCurrent
        /\ module.program = files /\ module.many = source.many
        /\ module.functions = source.functions
        /\ UsesCache => ~source.many
    BY <1>1, <1>6 DEF CurrentInv, ModuleCurrent, UsesCache
  <2>2. source'.program = files'
    BY <1>1, <2>1
  <2>3. Key[1] = Primary[files]
    BY DEF Key
  <2>4. Asked(module) = Asked(source)
    BY <2>1 DEF Asked
  <2>5. CASE UNCHANGED <<loaded, cache>>
    BY <1>1, <2>1, <2>2, <2>5 DEF CacheCurrent, LoadedCurrent
  <2>6. CASE UsesCache /\ UNCHANGED cache /\ Key \in DOMAIN cache
             /\ loaded' = cache[Key]
    <3>1. CacheCurrent'
      BY <1>1, <2>1, <2>6 DEF CacheCurrent
    <3>2. /\ Asked(cache[Key]) \in asked /\ ~cache[Key].many
          /\ Primary[cache[Key].program] = Primary[source.program]
      BY <2>1, <2>3, <2>6 DEF CacheCurrent
    <3>3. cache[Key].many \in BOOLEAN /\ source.many \in BOOLEAN
      BY <2>6 DEF TypeOK, IsCode, IsSource
    <3>4. Asked(cache[Key]) \in asked' /\ Asked(source) \in asked'
      BY <1>1, <2>6, <3>2
    <3>5. LoadedCurrent'
      BY <1>1, <2>1, <2>6, <3>2, <3>3, <3>4 DEF LoadedCurrent
    <3> QED BY <3>1, <3>5, <2>2
  <2>7. CASE /\ UsesCache /\ loaded' = module
             /\ cache' = [key \in DOMAIN cache \cup {Key} |->
                            IF key = Key THEN module ELSE cache[key]]
    <3>1. CacheCurrent'
      BY <1>1, <2>1, <2>3, <2>4, <2>7 DEF CacheCurrent
    <3>2. LoadedCurrent'
      BY <1>1, <2>1, <2>7 DEF LoadedCurrent
    <3> QED BY <3>1, <3>2, <2>2
  <2>8. CASE UNCHANGED cache /\ loaded' = module
    BY <1>1, <2>1, <2>2, <2>8 DEF CacheCurrent, LoadedCurrent
  <2> QED BY <2>5, <2>6, <2>7, <2>8, CompileSteps
<1> QED BY <1>1, <1>4, <1>5, <1>6 DEF CurrentInv

LEMMA CurrentStep ==
  TypeOK /\ DefaultsInv /\ CurrentInv /\ [Next]_vars => CurrentInv'
<1> SUFFICES ASSUME TypeOK, DefaultsInv, CurrentInv, [Next]_vars
             PROVE  CurrentInv'
  OBVIOUS
<1> USE DEF CurrentInv, LibrariesUsed, ModuleCurrent, CacheCurrent, LoadedCurrent,
            Generated, disk, history
<1>1. CASE Open
  BY <1>1 DEF Open
<1>2. CASE Edit
  BY <1>2 DEF Edit
<1>3. CASE Upgrade
  BY <1>3 DEF Upgrade
<1>4. CASE InitializeJIT
  <2>1. env'.path = env.path
    BY <1>4 DEF InitializeJIT, TypeOK
  <2> QED BY <1>4, <2>1 DEF InitializeJIT
<1>5. ASSUME NEW many \in BOOLEAN, NEW all \in BOOLEAN, Generate(many, all)
      PROVE  CurrentInv'
  <2>1. /\ module'.program = source'.program /\ module'.many = source'.many
        /\ module'.functions = source'.functions
        /\ env'.path = ~source'.many /\ source'.program = files
    BY <1>5 DEF Generate, Code
  <2>2. /\ UNCHANGED <<files, cache, loaded, raced, asked>> /\ loaded = NoCode
        /\ used' = used \cup {library} /\ source'.library = library
    BY <1>5 DEF Generate
  <2>3. Prepared \subseteq used'
    BY <2>2 DEF Prepared, TreeFound, TypeOK
  <2>4. module'.library \in used'
    BY <1>5, <2>3 DEF Generate, Code
  <2> QED BY <2>1, <2>2, <2>4
<1>6. CASE GenerateStandalone
  <2>1. /\ module'.program = module.program /\ module'.many = module.many
        /\ module'.functions = module.functions \cup {"standalone"}
        /\ module'.library = module.library
        /\ source'.program = source.program /\ source'.many = source.many
        /\ source'.functions = source.functions \cup {"standalone"}
        /\ source'.library = source.library
        /\ env'.path = env.path
    BY <1>6 DEF GenerateStandalone, TypeOK, IsCode, IsSource
  <2>2. /\ UNCHANGED <<files, cache, loaded, raced, asked, used>>
        /\ loaded = NoCode /\ module # NoCode
    BY <1>6 DEF GenerateStandalone
  <2>3. Generated
    BY <2>2 DEF DefaultsInv
  <2> QED BY <2>1, <2>2, <2>3
<1>7. CASE EmitObject
  <2>1. env'.path = env.path
    BY <1>7 DEF EmitObject, TypeOK
  <2> QED BY <1>7, <2>1 DEF EmitObject
<1>8. CASE CompileInMemory
  BY <1>8, CurrentCompile
<1>9. ASSUME NEW container \in Range(Containers), Run(container)
      PROVE  CurrentInv'
  BY <1>9 DEF Run
<1>10. CASE UNCHANGED vars
  BY <1>10 DEF vars
<1> QED
  BY <1>1, <1>2, <1>3, <1>4, <1>5, <1>6, <1>7, <1>8, <1>9, <1>10 DEF Next

LEMMA CurrentImplies == DefaultsInv /\ CurrentInv => LoadedCodeIsCurrent
<1> SUFFICES ASSUME DefaultsInv, CurrentInv, loaded # NoCode, ~raced
             PROVE  /\ loaded.many = source.many
                    /\ (\A a, b \in asked : Primary[a.program] = Primary[b.program]
                                              => a.program = b.program)
                       => loaded.program = source.program
                    /\ (\A a, b \in asked : a.functions = b.functions)
                       => loaded.functions = source.functions
                    /\ (\A l, m \in used : l = m)
                       => loaded.library = source.library
  BY DEF LoadedCodeIsCurrent
<1>1. Generated /\ loaded.library \in used /\ source.library \in used
  BY DEF DefaultsInv, CurrentInv, LibrariesUsed
<1>2. /\ loaded.many = source.many
      /\ \/ /\ loaded.program = source.program
            /\ loaded.functions = source.functions
         \/ /\ Asked(loaded) \in asked /\ Asked(source) \in asked
            /\ Primary[loaded.program] = Primary[source.program]
  BY DEF CurrentInv, LoadedCurrent
<1>3. /\ Asked(loaded).program = loaded.program
      /\ Asked(loaded).functions = loaded.functions
      /\ Asked(source).program = source.program
      /\ Asked(source).functions = source.functions
  BY DEF Asked
<1> QED BY <1>1, <1>2, <1>3

(* Without edits between generating and compiling, the code that the JIT   *)
(* has is the generated program's, as far as keys tell: if primary files   *)
(* tell programs apart, all ask for the same functions and the library     *)
(* stays (strideenvironment.cpp:2239-2259, 2411-2452).                     *)
THEOREM LoadedCodeStaysCurrent == Spec => []LoadedCodeIsCurrent
<1>1. Spec => [](TypeOK /\ DefaultsInv /\ CurrentInv)
  BY TypeInit, TypeStep, DefaultsInit, DefaultsStep, CurrentInit, CurrentStep, PTL
     DEF Spec
<1> QED BY <1>1, CurrentImplies, PTL

-----------------------------------------------------------------------------
(***************************************************************************)
(* Running streams                                                         *)
(***************************************************************************)

\* The blocks behind place i when g has those behind the place before it.
BehindPlace(program, places, start, run, g, i) ==
  IF i = 0 THEN start
  ELSE IF i \in places
  THEN [g[i - 1] EXCEPT ![program[i].to] = Written(program[i], g[i - 1], run)]
  ELSE g[i - 1]

Runs(program, places, start, run, g, n) ==
  g = [i \in 0 .. n |-> BehindPlace(program, places, start, run, g, i)]

(* Running is what its recursion calls for.                                *)
LEMMA RunningUnfolds ==
  ASSUME NEW program, Len(program) \in Nat, NEW places, NEW start, NEW run,
         NEW running, running = Running(program, places, start, run)
  PROVE  \A i \in 0 .. Len(program) :
           running[i] = BehindPlace(program, places, start, run, running, i)
<1> DEFINE n == Len(program)
           Now(g, i) == BehindPlace(program, places, start, run, g, i)
           S == {k \in Nat : \E g : Runs(program, places, start, run, g, k)}
<1>1. ASSUME NEW k \in Nat, NEW g, \A i \in 0 .. k - 1 : g[i] = Now(g, i)
      PROVE  k \in S
  <2> DEFINE h == [i \in 0 .. k |-> Now(g, i)]
  <2>1. ASSUME NEW i \in 0 .. k PROVE Now(g, i) = Now(h, i)
    <3>1. i = 0 \/ (i - 1 \in 0 .. k - 1 /\ i - 1 \in 0 .. k)
      OBVIOUS
    <3>2. i = 0 \/ h[i - 1] = g[i - 1]
      <4> HIDE DEF Now
      <4> QED
        BY <1>1, <3>1
    <3> HIDE DEF h
    <3> QED
      BY <3>2, Zenon DEF BehindPlace
  <2>2. h = [i \in 0 .. k |-> Now(h, i)]
    BY <2>1, Zenon
  <2> HIDE DEF h
  <2>3. Runs(program, places, start, run, h, k)
    BY <2>2 DEF Runs
  <2> QED
    BY <2>3
<1>2. 0 \in S
  <2> DEFINE none == [i \in {} |-> 0]
  <2>1. 0 \in Nat /\ \A i \in 0 .. 0 - 1 : none[i] = Now(none, i)
    OBVIOUS
  <2> HIDE DEF none, Now, S
  <2> QED
    BY <1>1, <2>1
<1>3. ASSUME NEW k \in Nat, k \in S PROVE k + 1 \in S
  <2>1. PICK g : Runs(program, places, start, run, g, k)
    BY <1>3
  <2>2. \A i \in 0 .. k : g[i] = Now(g, i)
    BY <2>1, Zenon DEF Runs
  <2>3. k + 1 \in Nat /\ (k + 1) - 1 = k
    OBVIOUS
  <2> HIDE DEF Now, S
  <2> QED
    BY <1>1, <2>2, <2>3
<1>4. n \in S
  <2> HIDE DEF S
  <2> QED
    BY <1>2, <1>3, Induction
<1> DEFINE W == CHOOSE g : Runs(program, places, start, run, g, n)
<1>5. Runs(program, places, start, run, W, n)
  BY <1>4, Zenon
<1>6. running = W
  BY DEF Running, Runs, BehindPlace
<1> HIDE DEF W
<1> QED
  BY <1>5, <1>6, Zenon DEF Runs

-----------------------------------------------------------------------------
(***************************************************************************)
(* The fills of a program                                                  *)
(***************************************************************************)

\* The fills among a container's streams up to place i, and those before them.
CollectedAt(program, container, fills, g, i) ==
  IF i = 0 THEN fills
  ELSE IF i \in StreamsAt(program, container) /\ CanFill(program[i], g[i - 1])
  THEN Append(g[i - 1], program[i])
  ELSE g[i - 1]

Collects(program, container, fills, g, n) ==
  g = [i \in 0 .. n |-> CollectedAt(program, container, fills, g, i)]

LEMMA CollectUnfolds ==
  ASSUME NEW program, Len(program) \in Nat, NEW container, NEW fills
  PROVE  \E g : /\ Collect(program, container, fills) = g[Len(program)]
                /\ \A i \in 0 .. Len(program) :
                     g[i] = CollectedAt(program, container, fills, g, i)
<1> DEFINE n == Len(program)
           Now(g, i) == CollectedAt(program, container, fills, g, i)
           S == {k \in Nat : \E g : Collects(program, container, fills, g, k)}
<1>1. ASSUME NEW k \in Nat, NEW g, \A i \in 0 .. k - 1 : g[i] = Now(g, i)
      PROVE  k \in S
  <2> DEFINE h == [i \in 0 .. k |-> Now(g, i)]
  <2>1. ASSUME NEW i \in 0 .. k PROVE Now(g, i) = Now(h, i)
    <3>1. i = 0 \/ (i - 1 \in 0 .. k - 1 /\ i - 1 \in 0 .. k)
      OBVIOUS
    <3>2. i = 0 \/ h[i - 1] = g[i - 1]
      <4> HIDE DEF Now
      <4> QED
        BY <1>1, <3>1
    <3> HIDE DEF h
    <3> QED
      BY <3>2, Zenon DEF CollectedAt
  <2>2. h = [i \in 0 .. k |-> Now(h, i)]
    BY <2>1, Zenon
  <2> HIDE DEF h
  <2>3. Collects(program, container, fills, h, k)
    BY <2>2 DEF Collects
  <2> QED
    BY <2>3
<1>2. 0 \in S
  <2> DEFINE none == [i \in {} |-> 0]
  <2>1. 0 \in Nat /\ \A i \in 0 .. 0 - 1 : none[i] = Now(none, i)
    OBVIOUS
  <2> HIDE DEF none, Now, S
  <2> QED
    BY <1>1, <2>1
<1>3. ASSUME NEW k \in Nat, k \in S PROVE k + 1 \in S
  <2>1. PICK g : Collects(program, container, fills, g, k)
    BY <1>3
  <2>2. \A i \in 0 .. k : g[i] = Now(g, i)
    BY <2>1, Zenon DEF Collects
  <2>3. k + 1 \in Nat /\ (k + 1) - 1 = k
    OBVIOUS
  <2> HIDE DEF Now, S
  <2> QED
    BY <1>1, <2>2, <2>3
<1>4. n \in S
  <2> HIDE DEF S
  <2> QED
    BY <1>2, <1>3, Induction
<1> DEFINE W == CHOOSE g : Collects(program, container, fills, g, n)
<1>5. Collects(program, container, fills, W, n)
  BY <1>4, Zenon
<1>6. Collect(program, container, fills) = W[n]
  BY DEF Collect, Collects, CollectedAt
<1> HIDE DEF W
<1> QED
  BY <1>5, <1>6, Zenon DEF Collects

\* The fills of the first c containers.
FillsOf(program, g, c) ==
  IF c = 0 THEN << >> ELSE Collect(program, Containers[c], g[c - 1])

FillsUpTo(program, g, n) == g = [c \in 0 .. n |-> FillsOf(program, g, c)]

LEMMA FillsUnfold ==
  ASSUME NEW program
  PROVE  /\ Len(Containers) \in Nat
         /\ \E g : /\ Fills(program) = g[Len(Containers)]
                   /\ \A c \in 0 .. Len(Containers) : g[c] = FillsOf(program, g, c)
<1> DEFINE n == Len(Containers)
           Now(g, i) == FillsOf(program, g, i)
           S == {k \in Nat : \E g : FillsUpTo(program, g, k)}
<1>0. n \in Nat
  <2>1. <<Process>> \in Seq({Process} \cup Range(Domains))
        /\ Domains \in Seq({Process} \cup Range(Domains))
    BY FillsAssumption
  <2>2. Containers \in Seq({Process} \cup Range(Domains))
    BY <2>1, ConcatProperties DEF Containers
  <2> QED
    BY <2>2
<1>1. ASSUME NEW k \in Nat, NEW g, \A i \in 0 .. k - 1 : g[i] = Now(g, i)
      PROVE  k \in S
  <2> DEFINE h == [i \in 0 .. k |-> Now(g, i)]
  <2>1. ASSUME NEW i \in 0 .. k PROVE Now(g, i) = Now(h, i)
    <3>1. i = 0 \/ (i - 1 \in 0 .. k - 1 /\ i - 1 \in 0 .. k)
      OBVIOUS
    <3>2. i = 0 \/ h[i - 1] = g[i - 1]
      <4> HIDE DEF Now
      <4> QED
        BY <1>1, <3>1
    <3> HIDE DEF h
    <3> QED
      BY <3>2, Zenon DEF FillsOf
  <2>2. h = [i \in 0 .. k |-> Now(h, i)]
    BY <2>1, Zenon
  <2> HIDE DEF h
  <2>3. FillsUpTo(program, h, k)
    BY <2>2 DEF FillsUpTo
  <2> QED
    BY <2>3
<1>2. 0 \in S
  <2> DEFINE none == [i \in {} |-> 0]
  <2>1. 0 \in Nat /\ \A i \in 0 .. 0 - 1 : none[i] = Now(none, i)
    OBVIOUS
  <2> HIDE DEF none, Now, S
  <2> QED
    BY <1>1, <2>1
<1>3. ASSUME NEW k \in Nat, k \in S PROVE k + 1 \in S
  <2>1. PICK g : FillsUpTo(program, g, k)
    BY <1>3
  <2>2. \A i \in 0 .. k : g[i] = Now(g, i)
    BY <2>1, Zenon DEF FillsUpTo
  <2>3. k + 1 \in Nat /\ (k + 1) - 1 = k
    OBVIOUS
  <2> HIDE DEF Now, S
  <2> QED
    BY <1>1, <2>2, <2>3
<1>4. n \in S
  <2> HIDE DEF S
  <2> QED
    BY <1>0, <1>2, <1>3, Induction
<1> DEFINE W == CHOOSE g : FillsUpTo(program, g, n)
<1>5. FillsUpTo(program, W, n)
  BY <1>4, Zenon
<1>6. Fills(program) = W[n]
  BY DEF Fills, FillsUpTo, FillsOf
<1> HIDE DEF W
<1> QED
  BY <1>0, <1>5, <1>6, Zenon DEF FillsUpTo

(* Fills are streams of the program that depend on fills before them only, *)
(* and on nothing of the run; no two fill the same constant.               *)
GoodFills(program, fills) ==
  /\ fills \in Seq(Range(program))
  /\ \A k \in 1 .. Len(fills) :
       /\ fills[k].to \in Constants /\ ~fills[k].host
       /\ \A b \in fills[k].reads : \E j \in 1 .. k - 1 : fills[j].to = b
  /\ \A j, k \in 1 .. Len(fills) : fills[j].to = fills[k].to => j = k

LEMMA TargetsAre ==
  ASSUME NEW A, NEW fills \in Seq(A)
  PROVE  /\ DOMAIN fills = 1 .. Len(fills) /\ Len(fills) \in Nat
         /\ \A b : b \in Targets(fills) <=> \E j \in 1 .. Len(fills) : fills[j].to = b
BY DEF Targets, Range

LEMMA NoFillsAreGood == ASSUME NEW program PROVE GoodFills(program, << >>)
BY DEF GoodFills

LEMMA FoundFillIsGood ==
  ASSUME NEW program, NEW fills, GoodFills(program, fills),
         NEW s \in Range(program), CanFill(s, fills)
  PROVE  GoodFills(program, Append(fills, s))
<1> DEFINE more == Append(fills, s)
           n == Len(fills)
<1>1. /\ fills \in Seq(Range(program)) /\ n \in Nat
      /\ \A b : b \in Targets(fills) <=> \E j \in 1 .. n : fills[j].to = b
  BY TargetsAre DEF GoodFills
<1>2. /\ more \in Seq(Range(program)) /\ Len(more) = n + 1 /\ more[n + 1] = s
      /\ \A k \in 1 .. n : more[k] = fills[k]
  BY <1>1, AppendProperties
<1>3. /\ s.to \in Constants /\ ~s.host
      /\ \A j \in 1 .. n : fills[j].to # s.to
      /\ \A b \in s.reads : \E j \in 1 .. n : fills[j].to = b
  BY <1>1 DEF CanFill, RuntimeRead, CallsHost
<1> HIDE DEF more
<1>4. ASSUME NEW k \in 1 .. n + 1
      PROVE  /\ more[k].to \in Constants /\ ~more[k].host
             /\ \A b \in more[k].reads : \E j \in 1 .. k - 1 : more[j].to = b
  <2>1. CASE k = n + 1
    <3>1. k - 1 = n
      BY <1>1, <2>1
    <3> QED
      BY <1>2, <1>3, <2>1, <3>1
  <2>2. CASE k # n + 1
    <3>1. k \in 1 .. n /\ \A j \in 1 .. k - 1 : j \in 1 .. n
      BY <1>1, <2>2
    <3> QED
      BY <1>2, <3>1 DEF GoodFills
  <2> QED
    BY <2>1, <2>2
<1>5. ASSUME NEW j \in 1 .. n + 1, NEW k \in 1 .. n + 1, more[j].to = more[k].to
      PROVE  j = k
  <2>1. (j = n + 1 \/ j \in 1 .. n) /\ (k = n + 1 \/ k \in 1 .. n)
    BY <1>1
  <2> QED
    BY <1>2, <1>3, <1>5, <2>1 DEF GoodFills
<1> QED
  BY <1>2, <1>4, <1>5 DEF GoodFills, more

LEMMA CollectedAreGood ==
  ASSUME NEW program, program \in Seq(Range(program)), NEW container,
         NEW fills, GoodFills(program, fills)
  PROVE  GoodFills(program, Collect(program, container, fills))
<1> DEFINE n == Len(program)
<1>1. n \in Nat /\ DOMAIN program = 1 .. n
  OBVIOUS
<1>2. PICK g : /\ Collect(program, container, fills) = g[n]
               /\ \A i \in 0 .. n : g[i] = CollectedAt(program, container, fills, g, i)
  BY <1>1, CollectUnfolds
<1> DEFINE S == {k \in Nat : k <= n => GoodFills(program, g[k])}
<1>3. 0 \in S
  <2>1. 0 \in 0 .. n
    BY <1>1
  <2> QED
    BY <1>2, <2>1 DEF CollectedAt
<1>4. ASSUME NEW k \in Nat, k \in S PROVE k + 1 \in S
  <2> SUFFICES ASSUME k + 1 <= n PROVE GoodFills(program, g[k + 1])
    OBVIOUS
  <2>1. k + 1 \in 0 .. n /\ k + 1 # 0 /\ (k + 1) - 1 = k /\ k + 1 \in 1 .. n /\ k <= n
    BY <1>1
  <2>2. GoodFills(program, g[k]) /\ program[k + 1] \in Range(program)
    BY <1>1, <1>4, <2>1 DEF Range
  <2>3. g[k + 1] \in {g[k], Append(g[k], program[k + 1])}
        /\ (g[k + 1] = g[k] \/ CanFill(program[k + 1], g[k]))
    BY <1>2, <2>1 DEF CollectedAt
  <2> QED
    BY <2>2, <2>3, FoundFillIsGood
<1>5. n \in S
  <2> HIDE DEF S
  <2> QED
    BY <1>1, <1>3, <1>4, Induction
<1> QED
  BY <1>1, <1>2, <1>5

LEMMA FillsAreGood ==
  ASSUME NEW program, program \in Seq(Range(program))
  PROVE  GoodFills(program, Fills(program))
<1> DEFINE n == Len(Containers)
<1>1. n \in Nat
  BY FillsUnfold
<1>2. PICK g : /\ Fills(program) = g[n]
               /\ \A c \in 0 .. n : g[c] = FillsOf(program, g, c)
  BY FillsUnfold
<1> DEFINE S == {k \in Nat : k <= n => GoodFills(program, g[k])}
<1>3. 0 \in S
  <2>1. 0 \in 0 .. n
    BY <1>1
  <2> QED
    BY <1>2, <2>1, NoFillsAreGood DEF FillsOf
<1>4. ASSUME NEW k \in Nat, k \in S PROVE k + 1 \in S
  <2> SUFFICES ASSUME k + 1 <= n PROVE GoodFills(program, g[k + 1])
    OBVIOUS
  <2>1. k + 1 \in 0 .. n /\ k + 1 # 0 /\ (k + 1) - 1 = k /\ k <= n
    BY <1>1
  <2>2. GoodFills(program, g[k])
    BY <1>4, <2>1
  <2>3. g[k + 1] = Collect(program, Containers[k + 1], g[k])
    BY <1>2, <2>1 DEF FillsOf
  <2> QED
    BY <2>2, <2>3, CollectedAreGood
<1>5. n \in S
  <2> HIDE DEF S
  <2> QED
    BY <1>1, <1>3, <1>4, Induction
<1> QED
  BY <1>1, <1>2, <1>5

-----------------------------------------------------------------------------
(***************************************************************************)
(* The values that fills make                                              *)
(***************************************************************************)

\* What a stream that does not depend on the run writes.
WrittenOf(s, blocks) ==
  [by |-> s.id, of |-> [b \in Uses(s) |-> blocks[b]], when |-> "whenever",
   turn |-> 0, outside |-> {}]

LEMMA WrittenIs ==
  ASSUME NEW s, ~s.host, s.edge = {}, NEW blocks,
         NEW run, s.keeps => run.turn = 0
  PROVE  Written(s, blocks, run) = WrittenOf(s, blocks)
<1>1. {} \ run.folded = {}
  OBVIOUS
<1> QED
  BY <1>1 DEF Written, WrittenOf

\* The bodies that fills call read what was filled before.
BodiesFilled(fills) ==
  \A k \in DOMAIN fills : \A c \in fills[k].inner :
    \E j \in 1 .. k - 1 : fills[j].to = c

(* Fills run in order write each constant once: a constant has the value   *)
(* that its fill makes of the values all fills end with.                   *)
LEMMA FilledOnce ==
  ASSUME NEW program, NEW fills, GoodFills(program, fills), BodiesFilled(fills),
         IndicesAreInside(program),
         NEW start, DOMAIN start = Blocks,
         NEW v, v = RunStreams(fills, DOMAIN fills, start, Compiling)
  PROVE  \A k \in 1 .. Len(fills) : v[fills[k].to] = WrittenOf(fills[k], v)
<1> DEFINE n == Len(fills)
           g == Running(fills, DOMAIN fills, start, Compiling)
<1>1. n \in Nat /\ DOMAIN fills = 1 .. n
  BY TargetsAre DEF GoodFills
<1>2. /\ v = g[n]
      /\ \A i \in 0 .. n : g[i] = BehindPlace(fills, DOMAIN fills, start, Compiling, g, i)
  BY <1>1, RunningUnfolds DEF RunStreams
<1> HIDE DEF g
<1>3. g[0] = start
  <2>1. 0 \in 0 .. n
    BY <1>1
  <2> QED
    BY <1>2, <2>1 DEF BehindPlace
<1>4. ASSUME NEW i \in 1 .. n
      PROVE  g[i] = [g[i - 1] EXCEPT ![fills[i].to] = WrittenOf(fills[i], g[i - 1])]
  <2>1. i \in 0 .. n /\ i # 0 /\ i \in DOMAIN fills
    BY <1>1
  <2>2. ~fills[i].host /\ fills[i] \in Range(program)
    BY <2>1 DEF GoodFills
  <2>3. fills[i].edge = {} /\ Compiling.turn = 0
    BY <2>2 DEF IndicesAreInside, Compiling
  <2> QED
    BY <1>2, <2>1, <2>2, <2>3, WrittenIs DEF BehindPlace
<1> DEFINE D == {k \in Nat : k <= n => DOMAIN g[k] = Blocks}
<1>5. \A k \in Nat : k \in D
  <2>1. 0 \in D
    BY <1>3
  <2>2. ASSUME NEW k \in Nat, k \in D PROVE k + 1 \in D
    <3> SUFFICES ASSUME k + 1 <= n PROVE DOMAIN g[k + 1] = Blocks
      OBVIOUS
    <3>1. k + 1 \in 1 .. n /\ (k + 1) - 1 = k /\ k <= n
      BY <1>1
    <3> QED
      BY <1>4, <2>2, <3>1
  <2> HIDE DEF D
  <2> QED
    BY <2>1, <2>2, Induction
<1>6. ASSUME NEW i \in 1 .. n
      PROVE  /\ i - 1 \in Nat /\ DOMAIN g[i - 1] = Blocks
             /\ fills[i].to \in Blocks
             /\ g[i][fills[i].to] = WrittenOf(fills[i], g[i - 1])
             /\ \A b \in Blocks : b # fills[i].to => g[i][b] = g[i - 1][b]
  <2>1. i - 1 \in Nat /\ i - 1 <= n
    BY <1>1
  <2>2. DOMAIN g[i - 1] = Blocks
    BY <1>5, <2>1
  <2>3. fills[i].to \in Blocks
    BY DEF GoodFills, Blocks
  <2> QED
    BY <1>4, <2>1, <2>2, <2>3
<1>7. ASSUME NEW j \in 1 .. n
      PROVE  \A i \in j .. n : g[i][fills[j].to] = g[j][fills[j].to]
  <2> DEFINE K == {k \in Nat : j + k <= n => g[j + k][fills[j].to] = g[j][fills[j].to]}
  <2>1. 0 \in K
    <3>1. j + 0 = j
      OBVIOUS
    <3> QED
      BY <3>1
  <2>2. ASSUME NEW k \in Nat, k \in K PROVE k + 1 \in K
    <3> SUFFICES ASSUME j + (k + 1) <= n
                 PROVE  g[j + (k + 1)][fills[j].to] = g[j][fills[j].to]
      OBVIOUS
    <3> DEFINE i == j + (k + 1)
    <3>1. i \in 1 .. n /\ i - 1 = j + k /\ j + k <= n /\ i # j
      BY <1>1
    <3> HIDE DEF i
    <3>2. fills[i].to # fills[j].to
      BY <3>1 DEF GoodFills
    <3>3. g[i][fills[j].to] = g[i - 1][fills[j].to]
      BY <1>6, <3>1, <3>2
    <3> QED
      BY <2>2, <3>1, <3>3 DEF i
  <2>3. \A k \in Nat : k \in K
    <3> HIDE DEF K
    <3> QED
      BY <2>1, <2>2, Induction
  <2>4. ASSUME NEW i \in j .. n PROVE g[i][fills[j].to] = g[j][fills[j].to]
    <3>1. i - j \in Nat /\ j + (i - j) = i /\ i <= n
      BY <1>1
    <3> QED
      BY <2>3, <3>1
  <2> QED
    BY <2>4
<1>8. ASSUME NEW k \in 1 .. n PROVE v[fills[k].to] = WrittenOf(fills[k], v)
  <2>1. n \in k .. n
    BY <1>1
  <2>2. v[fills[k].to] = WrittenOf(fills[k], g[k - 1])
    BY <1>2, <1>6, <1>7, <2>1
  <2>3. ASSUME NEW b \in Uses(fills[k]) PROVE g[k - 1][b] = v[b]
    <3>0. k \in DOMAIN fills /\ (b \in fills[k].reads \/ b \in fills[k].inner)
      BY <1>1 DEF Uses
    <3>1. PICK j \in 1 .. k - 1 : fills[j].to = b
      BY <3>0 DEF GoodFills, BodiesFilled
    <3>2. j \in 1 .. n /\ k - 1 \in j .. n /\ n \in j .. n
      BY <1>1
    <3> QED
      BY <1>2, <1>7, <3>1, <3>2
  <2>4. WrittenOf(fills[k], g[k - 1]) = WrittenOf(fills[k], v)
    BY <2>3, Zenon DEF WrittenOf
  <2> QED
    BY <2>2, <2>4
<1> QED
  BY <1>8

\* The blocks as compiling leaves them.
Results(program) ==
  RunStreams(Fills(program), DOMAIN Fills(program), Blank(Unfilled), Compiling)

IsFill(program, s) == s \in Range(Fills(program))

\* What is asked of a program, beside that it writes each constant once.
Modest(program) ==
  /\ BodiesReadFilled(program) /\ FillsKeepNothing(program)
  /\ IndicesAreInside(program)

LEMMA FillIs ==
  ASSUME NEW program, program \in Seq(Range(program)), Modest(program),
         NEW s, IsFill(program, s)
  PROVE  /\ s \in Range(program) /\ s.to \in Constants /\ ~s.host
         /\ s.edge = {} /\ (s.at = Process => ~s.keeps)
         /\ \A b \in Uses(s) : \E t : IsFill(program, t) /\ t.to = b
         /\ Results(program)[s.to] = WrittenOf(s, Results(program))
<1> DEFINE fills == Fills(program)
<1>1. GoodFills(program, fills) /\ BodiesFilled(fills) /\ IndicesAreInside(program)
  BY FillsAreGood DEF Modest, BodiesReadFilled, BodiesFilled
<1>2. DOMAIN Blank(Unfilled) = Blocks
  BY DEF Blank
<1>3. \A k \in 1 .. Len(fills) :
        Results(program)[fills[k].to] = WrittenOf(fills[k], Results(program))
  BY <1>1, <1>2, FilledOnce DEF Results
<1>4. PICK k \in DOMAIN fills : fills[k] = s
  BY DEF IsFill, Range
<1> HIDE DEF fills
<1>5. /\ fills \in Seq(Range(program)) /\ DOMAIN fills = 1 .. Len(fills)
      /\ Len(fills) \in Nat
  BY <1>1 DEF GoodFills
<1>6. k \in 1 .. Len(fills) /\ \A j \in 1 .. k - 1 : j \in DOMAIN fills
  BY <1>4, <1>5
<1>7. ASSUME NEW b \in Uses(s) PROVE \E t : IsFill(program, t) /\ t.to = b
  <2>0. b \in fills[k].reads \/ b \in fills[k].inner
    BY <1>4 DEF Uses
  <2>1. PICK j \in 1 .. k - 1 : fills[j].to = b
    BY <1>1, <1>6, <2>0 DEF GoodFills, BodiesFilled
  <2>2. fills[j] \in Range(fills)
    BY <1>6 DEF Range
  <2> QED
    BY <2>1, <2>2 DEF IsFill, fills
<1>8. s \in Range(program) /\ s.to \in Constants /\ ~s.host
  BY <1>1, <1>4, <1>5, <1>6 DEF GoodFills
<1>9. s.edge = {} /\ (s.at = Process => ~s.keeps)
  BY <1>1, <1>8 DEF Modest, IndicesAreInside, FillsKeepNothing, IsFill
<1> QED
  BY <1>3, <1>4, <1>6, <1>7, <1>8, <1>9

\* A value says who wrote it; Unfilled was written by nobody.
LEMMA WrittenIsFilled ==
  ASSUME NEW s, NEW blocks, NEW run, run.when = "running"
  PROVE  Written(s, blocks, run) # Unfilled
<1>1. Written(s, blocks, run).when \in {"running", "whenever"}
  BY DEF Written
<1>2. Unfilled.when = "never"
  BY DEF Unfilled, Initial
<1> QED
  BY <1>1, <1>2

-----------------------------------------------------------------------------
(***************************************************************************)
(* Two runs of a program: p runs its streams, m those that compiling left, *)
(* from the values that it made                                            *)
(***************************************************************************)

Made(program, values, s) == IsFill(program, s) /\ values[s.to] # Unfilled

Agree(program, values, m, p) ==
  /\ DOMAIN m = Blocks /\ DOMAIN p = Blocks
  /\ \A b \in Signals : p[b] # Unfilled
  /\ \A b \in Blocks : p[b] # Unfilled => m[b] = p[b]
  /\ \A s : IsFill(program, s) => p[s.to] \in {Unfilled, Results(program)[s.to]}
  /\ \A s : Made(program, values, s) => m[s.to] = Results(program)[s.to]

(* The runs that the two executions make of a container's streams: the     *)
(* process counts them, an onLoad list runs once.                          *)
SameRun(now, folding, container) ==
  /\ now.when = "running" /\ folding.when = now.when /\ folding.turn = now.turn
  /\ container # Process => now.turn = 0

\* The stream runs in both, in m unless it was made; it uses nothing unfilled.
BothRun(s, made, now, folding, m, p, m2, p2) ==
  /\ \A c \in Uses(s) \cap Constants : p[c] # Unfilled
  /\ p2 = [p EXCEPT ![s.to] = Written(s, p, now)]
  /\ m2 = IF made THEN m ELSE [m EXCEPT ![s.to] = Written(s, m, folding)]

(* One stream more: a fill writes again what compiling made of it.         *)
LEMMA StreamAgrees ==
  ASSUME NEW program, program \in Seq(Range(program)), WrittenOnce(program),
         Modest(program),
         NEW values, NEW m, NEW p, Agree(program, values, m, p),
         NEW s \in Range(program), s.to \in Blocks, Uses(s) \subseteq Blocks,
         NEW now, NEW folding, SameRun(now, folding, s.at),
         NEW m2, NEW p2,
         BothRun(s, Made(program, values, s), now, folding, m, p, m2, p2)
  PROVE  Agree(program, values, m2, p2)
<1> DEFINE w == Written(s, p, now)
           r == Results(program)
<1> USE DEF Agree, BothRun
<1>1. /\ DOMAIN p2 = Blocks /\ p2[s.to] = w
      /\ \A b \in Blocks : b # s.to => p2[b] = p[b]
  OBVIOUS
<1>2. \A b \in Uses(s) : p[b] # Unfilled /\ m[b] = p[b]
  BY DEF Blocks
<1>3. Written(s, m, folding) = w
  <2>1. s.edge \ folding.folded = {} /\ s.edge \ now.folded = {}
    BY DEF Modest, IndicesAreInside
  <2>2. [b \in Uses(s) |-> m[b]] = [b \in Uses(s) |-> p[b]]
    BY <1>2, Zenon
  <2> QED
    BY <2>1, <2>2 DEF Written, SameRun
<1>4. w # Unfilled
  BY WrittenIsFilled DEF SameRun
<1> HIDE DEF w
<1>5. /\ DOMAIN m2 = Blocks
      /\ \A b \in Blocks : b # s.to => m2[b] = m[b]
      /\ m2[s.to] = IF Made(program, values, s) THEN m[s.to] ELSE w
  BY <1>3
<1>6. ASSUME IsFill(program, s) PROVE w = r[s.to]
  <2>1. /\ ~s.host /\ s.edge = {} /\ (s.at = Process => ~s.keeps)
        /\ r[s.to] = WrittenOf(s, r)
        /\ \A b \in Uses(s) : \E t : IsFill(program, t) /\ t.to = b
    BY <1>6, FillIs
  <2>2. w = WrittenOf(s, p)
    <3>1. s.keeps => now.turn = 0
      BY <2>1 DEF SameRun
    <3> QED
      BY <2>1, <3>1, WrittenIs DEF w
  <2>3. \A b \in Uses(s) : p[b] = r[b]
    BY <1>2, <2>1
  <2>4. WrittenOf(s, p) = WrittenOf(s, r)
    BY <2>3, Zenon DEF WrittenOf
  <2> QED
    BY <2>1, <2>2, <2>4
<1>7. ASSUME NEW t, IsFill(program, t), t.to = s.to PROVE t = s
  <2>1. t \in Range(program) /\ t.to \in Constants
    BY <1>7, FillIs
  <2>2. PICK i \in DOMAIN program : program[i] = s
    BY DEF Range
  <2>3. PICK j \in DOMAIN program : program[j] = t
    BY <2>1 DEF Range
  <2> QED
    BY <1>7, <2>1, <2>2, <2>3 DEF WrittenOnce
<1>8. m2[s.to] = w
  <2>1. CASE Made(program, values, s)
    BY <1>5, <1>6, <2>1 DEF Made
  <2>2. CASE ~Made(program, values, s)
    BY <1>5, <2>2
  <2> QED
    BY <2>1, <2>2
<1>9. \A b \in Signals : p2[b] # Unfilled
  BY <1>1, <1>4 DEF Blocks
<1>10. \A b \in Blocks : p2[b] # Unfilled => m2[b] = p2[b]
  BY <1>1, <1>5, <1>8
<1>11. ASSUME NEW t, IsFill(program, t)
       PROVE  /\ p2[t.to] \in {Unfilled, r[t.to]}
              /\ Made(program, values, t) => m2[t.to] = r[t.to]
  <2>1. t.to \in Blocks
    BY <1>11, FillIs DEF Blocks
  <2>2. CASE t.to = s.to
    BY <1>1, <1>6, <1>7, <1>8, <1>11, <2>2
  <2>3. CASE t.to # s.to
    BY <1>1, <1>5, <1>11, <2>1, <2>3
  <2> QED
    BY <2>2, <2>3
<1>12. \A t : Made(program, values, t) => IsFill(program, t)
  BY DEF Made
<1> QED
  BY <1>1, <1>5, <1>9, <1>10, <1>11, <1>12

IsProgram(program) ==
  program \in Seq(Range(program)) /\ \A s \in Range(program) : IsStream(s)

LEMMA TextsArePrograms == \A program \in Texts \cup {<< >>} : IsProgram(program)
<1>1. IsProgram(<< >>)
  BY DEF IsProgram, Range
<1> QED
  BY <1>1, EnvironmentAssumption DEF IsProgram, Texts

(* A container's streams, one after the other.                             *)
LEMMA RunAgrees ==
  ASSUME NEW program, IsProgram(program), WrittenOnce(program), Modest(program),
         NEW values, NEW container,
         NEW all, all = StreamsAt(program, container),
         NEW m, NEW p, Agree(program, values, m, p),
         NEW now, NEW folding, SameRun(now, folding, container),
         ~UsesUnfilled(program, all, p, now)
  PROVE  Agree(program, values,
               RunStreams(program, all \cap Remaining(program, values), m, folding),
               RunStreams(program, all, p, now))
<1> DEFINE n == Len(program)
           left == all \cap Remaining(program, values)
           gm == Running(program, left, m, folding)
           gp == Running(program, all, p, now)
<1>1. n \in Nat /\ DOMAIN program = 1 .. n /\ program \in Seq(Range(program))
  BY DEF IsProgram
<1>2. \A i \in 0 .. n : gm[i] = BehindPlace(program, left, m, folding, gm, i)
  BY <1>1, RunningUnfolds
<1>3. \A i \in 0 .. n : gp[i] = BehindPlace(program, all, p, now, gp, i)
  BY <1>1, RunningUnfolds
<1>4. \A i \in all : \A c \in Uses(program[i]) \cap Constants : gp[i - 1][c] # Unfilled
  BY DEF UsesUnfilled
<1>5. /\ RunStreams(program, left, m, folding) = gm[n]
      /\ RunStreams(program, all, p, now) = gp[n]
  BY DEF RunStreams
<1>6. \A i \in all : i \in left <=> ~Made(program, values, program[i])
  <2>1. all \subseteq DOMAIN program
    BY DEF StreamsAt
  <2> QED
    BY <2>1 DEF Remaining, Made, IsFill
<1>7. left \subseteq all
  OBVIOUS
<1> HIDE DEF gm, gp, left
<1> DEFINE S == {k \in Nat : k <= n => Agree(program, values, gm[k], gp[k])}
<1>8. 0 \in S
  <2>1. 0 \in 0 .. n
    BY <1>1
  <2>2. gm[0] = m /\ gp[0] = p
    BY <1>2, <1>3, <2>1 DEF BehindPlace
  <2> QED
    BY <2>2
<1>9. ASSUME NEW k \in Nat, k \in S PROVE k + 1 \in S
  <2> SUFFICES ASSUME k + 1 <= n PROVE Agree(program, values, gm[k + 1], gp[k + 1])
    OBVIOUS
  <2> DEFINE i == k + 1
             s == program[i]
  <2>1. i \in 0 .. n /\ i # 0 /\ i - 1 = k /\ i \in 1 .. n /\ k <= n
    BY <1>1
  <2> HIDE DEF i
  <2>2. Agree(program, values, gm[k], gp[k])
    BY <1>9, <2>1
  <2>3. /\ gm[i] = IF i \in left THEN [gm[k] EXCEPT ![s.to] = Written(s, gm[k], folding)]
                   ELSE gm[k]
        /\ gp[i] = IF i \in all THEN [gp[k] EXCEPT ![s.to] = Written(s, gp[k], now)]
                   ELSE gp[k]
    <3>1. gm[i] = BehindPlace(program, left, m, folding, gm, i)
      BY <1>2, <2>1
    <3>2. gp[i] = BehindPlace(program, all, p, now, gp, i)
      BY <1>3, <2>1
    <3> QED
      BY <2>1, <3>1, <3>2 DEF BehindPlace
  <2>4. CASE i \notin all
    BY <1>7, <2>2, <2>3, <2>4 DEF i
  <2>5. CASE i \in all
    <3>1. /\ s \in Range(program) /\ s.to \in Blocks /\ Uses(s) \subseteq Blocks
          /\ SameRun(now, folding, s.at)
      <4>1. s \in Range(program)
        BY <1>1, <2>1 DEF Range
      <4>2. s.at = container
        BY <2>5 DEF StreamsAt
      <4> QED
        BY <4>1, <4>2 DEF IsProgram, IsStream, Uses, Blocks
    <3>2. \A c \in Uses(s) \cap Constants : gp[k][c] # Unfilled
      BY <1>4, <2>1, <2>5
    <3>3. /\ gp[i] = [gp[k] EXCEPT ![s.to] = Written(s, gp[k], now)]
          /\ gm[i] = IF Made(program, values, s) THEN gm[k]
                     ELSE [gm[k] EXCEPT ![s.to] = Written(s, gm[k], folding)]
      BY <1>6, <2>3, <2>5
    <3>4. BothRun(s, Made(program, values, s), now, folding, gm[k], gp[k], gm[i], gp[i])
      BY <3>2, <3>3 DEF BothRun
    <3> HIDE DEF s
    <3>5. Agree(program, values, gm[i], gp[i])
      BY <1>1, <2>2, <3>1, <3>4, StreamAgrees
    <3> QED
      BY <3>5 DEF i
  <2> QED
    BY <2>4, <2>5
<1>10. n \in S
  <2> HIDE DEF S
  <2> QED
    BY <1>1, <1>8, <1>9, Induction
<1> QED
  BY <1>1, <1>5, <1>10 DEF left

(* Freshly loaded code has the values that compiling made, or none.        *)
LEMMA LoadedAgrees ==
  ASSUME NEW program, IsProgram(program), Modest(program),
         NEW values, values \in {Evaluated(program), NotEvaluated},
         NEW m, m = [b \in Blocks |-> IF b \in Constants THEN values[b] ELSE Supplied],
         NEW p, p = Blank(Supplied)
  PROVE  Agree(program, values, m, p)
<1>1. /\ DOMAIN m = Blocks /\ DOMAIN p = Blocks
      /\ \A b \in Blocks : p[b] = IF b \in Signals THEN Supplied ELSE Unfilled
  BY DEF Blank
<1>2. Supplied # Unfilled
  <2>1. Supplied.when = "input" /\ Unfilled.when = "never"
    BY DEF Supplied, Unfilled, Initial
  <2> QED
    BY <2>1
<1>3. \A b \in Signals : b \in Blocks /\ b \notin Constants
  BY FillsAssumption DEF Blocks
<1>4. \A b \in Blocks : p[b] # Unfilled => m[b] = p[b]
  BY <1>1, <1>3
<1>5. ASSUME NEW s, IsFill(program, s)
      PROVE  /\ p[s.to] = Unfilled
             /\ Made(program, values, s) => m[s.to] = Results(program)[s.to]
  <2>1. s.to \in Constants /\ s.to \in Blocks /\ s.to \notin Signals
    BY <1>5, FillIs, FillsAssumption DEF IsProgram, Blocks
  <2>2. values[s.to] \in {Unfilled, Results(program)[s.to]}
    BY <2>1 DEF Evaluated, NotEvaluated, Results
  <2> QED
    BY <1>1, <2>1, <2>2 DEF Made
<1> QED
  BY <1>1, <1>2, <1>3, <1>4, <1>5 DEF Agree, Made

-----------------------------------------------------------------------------
(* Whatever code there is was made of a program with the values compiling  *)
(* gives its constants, or none.  The two executions agree while the       *)
(* program can be compared.                                                *)
MadeOf(code) == code.values \in {Evaluated(code.program), NotEvaluated}

FillInv ==
  /\ MadeOf(module) /\ MadeOf(loaded)
  /\ \A key \in DOMAIN cache : MadeOf(cache[key])
  /\ Comparable /\ BodiesReadFilled(source.program) =>
       Agree(source.program, loaded.values, memory, plain)

LEMMA NoCodeIsMade == MadeOf(NoCode)
BY DEF MadeOf, NoCode, Code

LEMMA FillInit == Init => FillInv
<1> SUFFICES ASSUME Init PROVE FillInv
  OBVIOUS
<1>1. DOMAIN cache = {} /\ module = NoCode /\ loaded = NoCode
  BY DEF Init
<1> QED
  BY <1>1, NoCodeIsMade DEF FillInv, Comparable

LEMMA FillCompile ==
  ASSUME TypeOK, FillInv, CompileInMemory, TypeOK'
  PROVE  FillInv'
<1>1. module' \in {module, NoCode}
  BY CompileSteps
<1>2. \/ UNCHANGED <<loaded, cache>>
      \/ /\ UsesCache /\ UNCHANGED cache
         /\ Key \in DOMAIN cache /\ loaded' = cache[Key]
      \/ /\ UsesCache /\ loaded' = module
         /\ cache' = [key \in DOMAIN cache \cup {Key} |->
                        IF key = Key THEN module ELSE cache[key]]
      \/ UNCHANGED cache /\ loaded' = module
  BY CompileSteps
<1>3. MadeOf(module') /\ MadeOf(loaded') /\ \A key \in DOMAIN cache' : MadeOf(cache'[key])
  BY <1>1, <1>2, NoCodeIsMade DEF FillInv
<1>4. \/ loaded' = NoCode
      \/ /\ memory' = [b \in Blocks |-> IF b \in Constants THEN loaded'.values[b]
                                        ELSE Supplied]
         /\ plain' = Blank(Supplied)
  BY DEF CompileInMemory, CompileFromCache, CompileToCache, CompileModule,
         CompileFails, Load
<1>5. ASSUME Comparable', BodiesReadFilled(source'.program)
      PROVE  Agree(source'.program, loaded'.values, memory', plain')
  <2>1. /\ loaded' # NoCode /\ loaded'.program = source'.program
        /\ Modest(source'.program)
    BY <1>5 DEF Comparable, Modest
  <2>2. IsProgram(source'.program)
    BY TextsArePrograms DEF TypeOK, IsSource
  <2>3. loaded'.values \in {Evaluated(source'.program), NotEvaluated}
    BY <1>3, <2>1 DEF MadeOf
  <2> QED
    BY <1>4, <2>1, <2>2, <2>3, LoadedAgrees
<1> QED
  BY <1>3, <1>5 DEF FillInv, MadeOf

LEMMA FillStep ==
  ASSUME TypeOK, TypeOK', FillInv, [Next]_vars
  PROVE  FillInv'
<1> USE DEF disk, history
<1>1. CASE Open
  <2>1. MadeOf(module') /\ loaded' = NoCode /\ MadeOf(loaded') /\ UNCHANGED cache
    BY <1>1, NoCodeIsMade DEF Open
  <2> QED
    BY <2>1 DEF FillInv, MadeOf, Comparable
<1>2. CASE Edit
  BY <1>2 DEF Edit, FillInv, MadeOf, Comparable
<1>3. CASE Upgrade
  BY <1>3 DEF Upgrade, FillInv, MadeOf, Comparable
<1>4. CASE InitializeJIT
  BY <1>4 DEF InitializeJIT, FillInv, MadeOf, Comparable
<1>5. ASSUME NEW many \in BOOLEAN, NEW all \in BOOLEAN, Generate(many, all)
      PROVE  FillInv'
  <2>1. MadeOf(module')
    <3> DEFINE functions == {"domains"} \cup IF all THEN {"all"} ELSE {}
    <3>1. PICK values \in {Evaluated(files), NotEvaluated}, lib \in Prepared :
            module' = Code(files, many, functions, values, lib)
      <4>1. PICK values \in IF options.evaluate /\ ~many
                            THEN {Evaluated(files), NotEvaluated}
                            ELSE {NotEvaluated} :
              \E lib \in Prepared :
                module' = Code(files, many, functions, values, lib)
        BY <1>5, Zenon DEF Generate
      <4> QED
        BY <4>1
    <3>2. module'.program = files /\ module'.values = values
      BY <3>1 DEF Code
    <3> QED
      BY <3>2 DEF MadeOf
  <2>2. loaded = NoCode /\ UNCHANGED <<loaded, cache>>
    BY <1>5 DEF Generate
  <2> QED
    BY <2>1, <2>2 DEF FillInv, MadeOf, Comparable
<1>6. CASE GenerateStandalone
  <2>1. module'.program = module.program /\ module'.values = module.values
    BY <1>6 DEF GenerateStandalone, TypeOK, IsCode
  <2>2. loaded = NoCode /\ UNCHANGED <<loaded, cache>>
    BY <1>6 DEF GenerateStandalone
  <2> QED
    BY <2>1, <2>2 DEF FillInv, MadeOf, Comparable
<1>7. CASE EmitObject
  BY <1>7 DEF EmitObject, FillInv, MadeOf, Comparable
<1>8. CASE CompileInMemory
  BY <1>8, FillCompile
<1>9. ASSUME NEW container \in Range(Containers), Run(container)
      PROVE  FillInv'
  <2> DEFINE program == source.program
             all == StreamsAt(program, container)
             now == [when |-> "running",
                     turn |-> IF container = Process THEN ran.ticks ELSE 0,
                     folded |-> {}]
             folding == [now EXCEPT !.folded = Folded(loaded.values)]
  <2>1. /\ UNCHANGED <<module, loaded, cache, source>> /\ loaded # NoCode
        /\ plain' = RunStreams(program, all, plain, now)
        /\ memory' = RunStreams(loaded.program,
                                StreamsAt(loaded.program, container)
                                \cap Remaining(loaded.program, loaded.values),
                                memory, folding)
        /\ early' = (early \/ UsesUnfilled(program, all, plain, now))
    BY <1>9, Zenon DEF Run
  <2>2. SameRun(now, folding, container)
    BY DEF SameRun
  <2> HIDE DEF now, folding
  <2>3. ASSUME Comparable', BodiesReadFilled(program)
        PROVE  Agree(program, loaded.values, memory', plain')
    <3>1. Comparable /\ ~UsesUnfilled(program, all, plain, now)
      BY <2>1, <2>3 DEF Comparable
    <3>2. Agree(program, loaded.values, memory, plain)
      BY <2>3, <3>1 DEF FillInv
    <3>3. /\ loaded.program = program /\ WrittenOnce(program)
          /\ Modest(program)
      BY <2>3, <3>1 DEF Comparable, Modest
    <3>4. IsProgram(program)
      BY TextsArePrograms DEF TypeOK, IsSource
    <3> HIDE DEF program
    <3>5. Agree(program, loaded.values,
                RunStreams(program, all \cap Remaining(program, loaded.values),
                           memory, folding),
                RunStreams(program, all, plain, now))
      BY <2>2, <3>1, <3>2, <3>3, <3>4, RunAgrees
    <3> QED
      BY <2>1, <3>3, <3>5
  <2> QED
    BY <2>1, <2>3 DEF FillInv, MadeOf
<1>10. CASE UNCHANGED vars
  BY <1>10 DEF vars, FillInv, MadeOf, Comparable
<1> QED
  BY <1>1, <1>2, <1>3, <1>4, <1>5, <1>6, <1>7, <1>8, <1>9, <1>10 DEF Next

LEMMA FillImplies == FillInv => FillsMatchLoad
BY DEF FillInv, FillsMatchLoad, FilledAsLoaded, Agree

(* Filling constants while compiling changes nothing that a comparable     *)
(* program, whose fills call bodies that read filled constants only, can   *)
(* tell: for every such program, order of its streams, onLoad lists and    *)
(* object cache (strideenvironment.cpp:586-1112).                          *)
THEOREM FillsAlwaysMatchLoad == Spec => []FillsMatchLoad
<1> DEFINE Inv == TypeOK /\ FillInv
<1>1. Init => Inv
  BY TypeInit, FillInit
<1>2. Inv /\ [Next]_vars => Inv'
  BY TypeStep, FillStep
<1>3. Inv => FillsMatchLoad
  BY FillImplies
<1> QED
  BY <1>1, <1>2, <1>3, PTL DEF Spec
=============================================================================
