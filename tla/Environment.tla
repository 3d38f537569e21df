---------------------------- MODULE Environment ----------------------------
(***************************************************************************)
(* The life of compiled programs.  Processes open an environment, generate *)
(* a module from the program's files and the platform library, have it     *)
(* optimised, emitted and compiled in memory, allocate state for it and    *)
(* run it; prepared trees and objects are kept on disk for the next        *)
(* process, and the files and the library may change at any time.          *)
(*                                                                         *)
(* Two executions go side by side: memory is what the compiled code makes, *)
(* plain what the generated program's streams make with every constant     *)
(* filled at run time.                                                     *)
(***************************************************************************)
EXTENDS ConstantFills

CONSTANTS
  Programs,  \* what the files may hold
  Edits,     \* what they may be changed to
  Importing, \* those that import other files
  Primary,   \* what a key tells of the files, for each of these
  Libraries, \* what the platform library may hold
  Followed,  \* bound: programs that later processes, or an edit, meet
  Later,     \* bound: options that later processes set
  MaxTicks,  \* bound: the process runs this often in a process
  MaxOpen    \* bound: environments

Texts == Programs \cup Edits
Options == [optimize : BOOLEAN, evaluate : BOOLEAN,
            caching : {"off", "trees", "objects"}]

ASSUME EnvironmentAssumption ==
  /\ \A p \in Texts : p \in Seq(Range(p)) /\ \A s \in Range(p) : IsStream(s)
  /\ Importing \subseteq Texts /\ DOMAIN Primary = Texts
  /\ Later \subseteq Options /\ MaxTicks \in Nat /\ MaxOpen \in Nat

VARIABLES
  files,   \* what the source files hold
  library, \* what the platform library holds
  trees,   \* prepared trees on disk: the library each was prepared with
  cache,   \* objects on disk, by their keys
  options, \* [optimize, evaluate, caching], set on the environment
  module,  \* the code generated, NoCode before and once the JIT owns it
  env,     \* [optimized, path, layout]: the module's flags and data layout
  defaults,\* [built, constant, bytes] of the state struct
  loaded,  \* the code in the JIT, or NoCode
  memory,  \* blocks, as the loaded code leaves them
  \* History:
  plain,   \* blocks, as the module's own program leaves them
  source,  \* [program, many, functions, library] to generate code of
  early,   \* a stream has read a constant before its fill
  raced,   \* the files changed between generating and compiling, ever
  asked,   \* [program, functions] that objects were looked for
  used,    \* the libraries that code was generated with
  ran,     \* [ticks, loads] of the loaded code: a load runs once
  opened

disk == <<files, library, trees>>
history == <<raced, asked, used, opened>>
vars == <<disk, cache, options, module, env, defaults, loaded, memory,
          plain, source, early, ran, history>>

(* Code is told apart by the program it came from, whether other files are *)
(* part of it, the functions it has, what its constants start with and the *)
(* library whose declarations it was made of.                              *)
Code(program, many, functions, values, lib) ==
  [program |-> program, many |-> many, functions |-> functions,
   values |-> values, library |-> lib]

Asked(code) == [program |-> code.program, functions |-> code.functions]

NoLibrary == "none"
NoCode == Code(<< >>, FALSE, {}, NotEvaluated, NoLibrary)
NoSource == [program |-> << >>, many |-> FALSE, functions |-> {},
             library |-> NoLibrary]
NoDefaults == [built |-> "none", constant |-> "null", bytes |-> "none"]
NoRuns == [ticks |-> 0, loads |-> {}]
NoEnv == [optimized |-> FALSE, path |-> FALSE, layout |-> "default"]

Init ==
  /\ files \in Programs /\ library \in Libraries
  /\ trees = << >> /\ cache = << >>
  /\ options \in Options
  /\ module = NoCode /\ env = NoEnv /\ defaults = NoDefaults
  /\ loaded = NoCode
  /\ memory = Blank(Supplied) /\ plain = Blank(Supplied)
  /\ source = NoSource /\ early = FALSE /\ ran = NoRuns
  /\ raced = FALSE /\ asked = {} /\ used = {} /\ opened = 1

\* The process ends and another opens an environment; the disk stays.
Open ==
  /\ opened < MaxOpen /\ files \in Followed \cup Edits
  /\ opened' = opened + 1
  /\ options' \in Later
  /\ module' = NoCode /\ env' = NoEnv /\ defaults' = NoDefaults
  /\ loaded' = NoCode
  /\ memory' = Blank(Supplied) /\ plain' = Blank(Supplied)
  /\ source' = NoSource /\ early' = FALSE /\ ran' = NoRuns
  /\ UNCHANGED <<disk, cache, raced, asked, used>>

Edit ==
  /\ files \in Followed /\ files' \in Edits
  /\ raced' = (raced \/ (source # NoSource /\ loaded = NoCode))
  /\ UNCHANGED <<library, trees, cache, options, module, env, defaults,
                 loaded, memory, plain, source, early, asked, used, ran,
                 opened>>

\* The library that code was generated with is replaced by one not used yet.
Upgrade ==
  /\ files \in Followed /\ library \in used /\ library' \in Libraries \ used
  /\ UNCHANGED <<files, trees, cache, options, module, env, defaults, loaded,
                 memory, plain, source, early, ran, history>>

-----------------------------------------------------------------------------
\* The bytes of the state struct's defaults, written once.
NoSnapshot(d) == d
Snapshot(d) ==
  IF d.bytes # "none" \/ d.constant = "null" THEN d
  ELSE [d EXCEPT !.bytes = IF d.constant = "valid" THEN "defaults" ELSE "garbage"]

\* Passes may free the globals that constants point to.
AfterPasses(d) ==
  {[d EXCEPT !.constant = c] :
     c \in IF d.constant = "null" THEN {"null"} ELSE {d.constant, "dangling"}}

Optimized(d) ==
  IF options.optimize THEN AfterPasses(Snapshot(d)) ELSE {Snapshot(d)}

NeedsOptimizing == options.optimize /\ ~env.optimized

\* The host has the target's layout set on the module.
InitializeJIT ==
  /\ loaded = NoCode /\ env.layout # "host"
  /\ env' = [env EXCEPT !.layout = "host"]
  /\ UNCHANGED <<disk, cache, options, module, defaults, loaded, memory,
                 plain, source, early, ran, history>>

(* A prepared tree is looked for without the library in the key; what it   *)
(* holds was prepared with the library of its time.  The tree of a program *)
(* without imports is kept.                                                *)
TreeFound == options.caching # "off" /\ files \in DOMAIN trees
Prepared == {library} \cup (IF TreeFound THEN {trees[files]} ELSE {})

KeepTree ==
  trees' = IF options.caching = "off" \/ TreeFound \/ files \in Importing
           THEN trees
           ELSE [t \in DOMAIN trees \cup {files} |->
                   IF t = files THEN library ELSE trees[t]]

(* One file, or several.  State structs are laid out as the module is at   *)
(* that time; with all set, every root function is made and the module is  *)
(* optimised at once.                                                      *)
Generate(many, all) ==
  /\ module = NoCode /\ loaded = NoCode
  /\ LET functions == {"domains"} \cup IF all THEN {"all"} ELSE {}
         layout == IF many THEN env.layout ELSE "host"
         fresh == [built |-> layout, constant |-> "valid", bytes |-> "none"]
     IN  /\ \E values \in IF options.evaluate /\ ~many
                          THEN {Evaluated(files), NotEvaluated}
                          ELSE {NotEvaluated} :
            \E lib \in Prepared :
              module' = Code(files, many, functions, values, lib)
         /\ env' = [optimized |-> all, path |-> ~many, layout |-> layout]
         /\ defaults' \in IF all THEN Optimized(fresh) ELSE {fresh}
         /\ source' = [program |-> files, many |-> many,
                       functions |-> functions, library |-> library]
  /\ KeepTree
  /\ used' = used \cup {library}
  /\ UNCHANGED <<files, library, cache, options, loaded, memory, plain,
                 early, raced, asked, ran, opened>>

\* A function is generated on its own, into the same module.
GenerateStandalone ==
  /\ module # NoCode /\ loaded = NoCode /\ "standalone" \notin module.functions
  /\ module' = [module EXCEPT !.functions = @ \cup {"standalone"}]
  /\ source' = [source EXCEPT !.functions = @ \cup {"standalone"}]
  /\ env' = [env EXCEPT !.optimized = FALSE]
  /\ UNCHANGED <<disk, cache, options, defaults, loaded, memory, plain,
                 early, ran, history>>

\* An object file for some target: the module keeps the target's layout.
EmitObject ==
  /\ module # NoCode
  /\ defaults' \in IF NeedsOptimizing THEN Optimized(defaults) ELSE {defaults}
  /\ env' = [env EXCEPT !.layout = "target",
                        !.optimized = @ \/ options.optimize]
  /\ UNCHANGED <<disk, cache, options, module, loaded, memory, plain,
                 source, early, ran, history>>

-----------------------------------------------------------------------------
WithoutPath == options.caching = "objects"
UsesCache == options.caching = "objects" /\ env.path

(* A key is made of the primary file, the include directories, which stay, *)
(* and the tag.  Neither the functions nor the library are in it.          *)
Tag == options.optimize
Key == <<Primary[files], Tag>>

Hit == UsesCache /\ Key \in DOMAIN cache

\* The code is in the JIT; its blocks start from its constants' values.
Load(code) ==
  /\ loaded' = code
  /\ memory' = [b \in Blocks |-> IF b \in Constants THEN code.values[b]
                                 ELSE Supplied]
  /\ plain' = Blank(Supplied)
  /\ early' = FALSE /\ ran' = NoRuns

(* An object found on disk is loaded, and the module is kept as it is.     *)
CompileFromCache ==
  /\ Hit
  /\ defaults' = Snapshot(defaults)
  /\ env' = [env EXCEPT !.layout = "host"]
  /\ Load(cache[Key])
  /\ UNCHANGED <<module, cache>>

(* The module is optimised unless an object was found that did not load.   *)
(* The object it is compiled to is saved, and the module is kept.          *)
CompileToCache ==
  /\ UsesCache
  /\ \/ /\ NeedsOptimizing /\ ~Hit
        /\ defaults' \in Optimized(Snapshot(defaults))
     \/ /\ ~(NeedsOptimizing /\ ~Hit)
        /\ defaults' = Snapshot(defaults)
  /\ env' = [env EXCEPT !.layout = "host",
                        !.optimized = @ \/ (NeedsOptimizing /\ ~Hit)]
  /\ cache' = [key \in DOMAIN cache \cup {Key} |->
                 IF key = Key THEN module ELSE cache[key]]
  /\ Load(module)
  /\ UNCHANGED module

\* Without the cache the JIT takes the module, and its constants with it.
CompileModule ==
  /\ ~UsesCache
  /\ \E d \in IF NeedsOptimizing THEN Optimized(Snapshot(defaults))
              ELSE {Snapshot(defaults)} :
       defaults' = [Snapshot(d) EXCEPT !.constant = "null"]
  /\ env' = [env EXCEPT !.layout = "host", !.optimized = @ \/ NeedsOptimizing]
  /\ Load(module)
  /\ module' = NoCode
  /\ UNCHANGED cache

\* No JIT for this host: the host may try again.
CompileFails ==
  /\ \/ /\ NeedsOptimizing /\ ~Hit
        /\ defaults' \in Optimized(Snapshot(defaults))
     \/ /\ ~(NeedsOptimizing /\ ~Hit)
        /\ defaults' = Snapshot(defaults)
  /\ env' = [env EXCEPT !.layout = "host",
                        !.optimized = @ \/ (NeedsOptimizing /\ ~Hit)]
  /\ UNCHANGED <<module, cache, loaded, memory, plain, early, ran>>

CompileInMemory ==
  /\ module # NoCode /\ loaded = NoCode
  /\ CompileFromCache \/ CompileToCache \/ CompileModule \/ CompileFails
  /\ asked' = asked \cup (IF UsesCache THEN {Asked(source)} ELSE {})
  /\ UNCHANGED <<disk, options, source, raced, used, opened>>

-----------------------------------------------------------------------------
\* What a state holds that is allocated now: the bytes, or the constant while
\* the module still has it.
AllocateState ==
  [layout |-> defaults.built,
   bytes |-> IF defaults.bytes # "none" THEN defaults.bytes
             ELSE IF defaults.constant = "null" \/ module = NoCode THEN "zeros"
             ELSE Snapshot(defaults).bytes]

\* The host loads a domain, once, or has the process run.
Run(container) ==
  /\ loaded # NoCode /\ container \notin ran.loads
  /\ container = Process => ran.ticks < MaxTicks
  /\ LET all == StreamsAt(source.program, container)
         left == StreamsAt(loaded.program, container)
                 \cap Remaining(loaded.program, loaded.values)
         now == [when |-> "running",
                 turn |-> IF container = Process THEN ran.ticks ELSE 0,
                 folded |-> {}]
         folding == [now EXCEPT !.folded = Folded(loaded.values)]
     IN  /\ all # {}
         /\ plain' = RunStreams(source.program, all, plain, now)
         /\ memory' = RunStreams(loaded.program, left, memory, folding)
         /\ early' = (early \/ UsesUnfilled(source.program, all, plain, now))
  /\ ran' = IF container = Process THEN [ran EXCEPT !.ticks = @ + 1]
            ELSE [ran EXCEPT !.loads = @ \cup {container}]
  /\ UNCHANGED <<disk, cache, options, module, env, defaults, loaded,
                 source, history>>

Next ==
  \/ Open \/ Edit \/ Upgrade \/ InitializeJIT
  \/ \E many, all \in BOOLEAN : Generate(many, all)
  \/ GenerateStandalone \/ EmitObject
  \/ CompileInMemory
  \/ \E container \in Range(Containers) : Run(container)

Spec == Init /\ [][Next]_vars

-----------------------------------------------------------------------------
(***************************************************************************)
(* Properties                                                              *)
(***************************************************************************)

FunctionSets == SUBSET {"domains", "all", "standalone"}
IsCode(c) ==
  c \in [program : Texts \cup {<< >>}, many : BOOLEAN,
         functions : FunctionSets, values : {c.values},
         library : Libraries \cup {NoLibrary}]
IsSource(c) ==
  c \in [program : Texts \cup {<< >>}, many : BOOLEAN,
         functions : FunctionSets, library : Libraries \cup {NoLibrary}]
Layouts == {"default", "host", "target"}
Defaults == [built : Layouts \cup {"none"},
             constant : {"valid", "dangling", "null"},
             bytes : {"none", "defaults", "garbage"}]

TypeOK ==
  /\ files \in Texts /\ library \in Libraries
  /\ DOMAIN trees \subseteq Texts /\ \A t \in DOMAIN trees : trees[t] \in used
  /\ DOMAIN cache \subseteq Range(Primary) \X BOOLEAN
  /\ \A key \in DOMAIN cache : IsCode(cache[key])
  /\ options \in Options
  /\ IsCode(module) /\ IsCode(loaded) /\ IsSource(source)
  /\ env \in [optimized : BOOLEAN, path : BOOLEAN, layout : Layouts]
  /\ defaults \in Defaults
  /\ early \in BOOLEAN /\ raced \in BOOLEAN
  /\ asked \subseteq [program : Texts \cup {<< >>}, functions : FunctionSets]
  /\ used \subseteq Libraries

(* A program whose loaded code can be held against it: files and library   *)
(* are those that it was generated with.  It writes each constant once and *)
(* uses none before its fill, in the order the host runs it; the fills     *)
(* that the process repeats keep no state, and no index is negative.       *)
Comparable ==
  /\ loaded # NoCode
  /\ loaded.program = source.program /\ loaded.library = source.library
  /\ WrittenOnce(source.program) /\ ~early
  /\ FillsKeepNothing(source.program) /\ IndicesAreInside(source.program)

FilledAsLoaded == \A b \in Blocks : plain[b] # Unfilled => memory[b] = plain[b]

(* Where the bodies that fills call read constants with fills before them, *)
(* filling constants while compiling changes nothing that a comparable     *)
(* program can tell: once a stream has filled a constant at run time, or   *)
(* written a signal, the compiled code holds the same there, however its   *)
(* object came to be (strideenvironment.cpp:586-1112).                     *)
FillsMatchLoad ==
  Comparable /\ BodiesReadFilled(source.program) => FilledAsLoaded

(* Streams that cannot be evaluated are left to run at load time: the      *)
(* same of every comparable program, whatever the bodies that its fills    *)
(* call read (strideenvironment.hpp:371-377, strideenvironment.cpp:590).   *)
FillsAreLeftToLoad == Comparable => FilledAsLoaded

(* While no files change between generating a program and compiling it,    *)
(* the code in the JIT, from the disk or not, is the generated program's   *)
(* if no two programs that objects were looked for have the same primary   *)
(* file; it has the generated functions if all asked for the same ones,    *)
(* and is made of the library in use if that was never replaced: these are *)
(* what keys do not tell (strideenvironment.cpp:395-396, 514-536,          *)
(* 2239-2259, 2411-2452).                                                  *)
LoadedCodeIsCurrent ==
  loaded # NoCode /\ ~raced =>
    /\ loaded.many = source.many
    /\ (\A a, b \in asked : Primary[a.program] = Primary[b.program]
                              => a.program = b.program)
       => loaded.program = source.program
    /\ (\A a, b \in asked : a.functions = b.functions)
       => loaded.functions = source.functions
    /\ (\A l, m \in used : l = m) => loaded.library = source.library

(* The cache key changes with every factor that influences the output:     *)
(* code from the disk has all functions that were generated                *)
(* (doc/caching.md:77, strideenvironment.cpp:2239-2259).                   *)
KeyTellsFunctions ==
  loaded # NoCode /\ ~raced => source.functions \subseteq loaded.functions

(* A state that the host allocates, whenever it does, holds the declared   *)
(* defaults: they were copied while the constants they come from were      *)
(* alive.  They are where the code expects them, unless several files were *)
(* generated before the host initialised the JIT: then the struct is laid  *)
(* out without a target (strideenvironment.cpp:1114-1116, 1285-1324,       *)
(* stridecompiler.cpp:1134-1168).                                          *)
DefaultsSurvive ==
  source # NoSource =>
    /\ AllocateState.bytes = "defaults"
    /\ AllocateState.layout # "host" => source.many
=============================================================================
