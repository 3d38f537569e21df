----------------------------- MODULE DomainLoad -----------------------------
(***************************************************************************)
(* <Domain>_load, which StrideGenerator::generateLoadFunction builds, and  *)
(* the <Domain>_init functions that call it first.  The host may call them *)
(* from several threads, one or more instances of the domain each.  The    *)
(* onLoad streams write root blocks, which all instances share, one write  *)
(* after the other.                                                        *)
(*                                                                         *)
(* The guard is atomic: an exchange, a load with acquire order, a store    *)
(* with release order.  The other memory is plain, so that what a thread   *)
(* surely sees of the onLoad streams' writes is what it wrote itself or    *)
(* what came before the release store whose value it has acquired.         *)
(***************************************************************************)
EXTENDS Integers

CONSTANTS
  Threads,   \* the host's threads
  Writes     \* how many writes the onLoad streams make

ASSUME WritesAssumption == Writes \in Nat

VARIABLES
  guard,     \* __<Domain>_loadState: 0 not loaded, 1 loading, 2 loaded
  pc,        \* of each thread: "idle", in "load", "run" or "wait", or in "init"
  forInit,   \* of each thread: its call of load is that of an init
  step,      \* of each thread: the writes it has made as runner
  visible,   \* of each thread: the writes it surely sees
  runs       \* how often the onLoad streams have run to their end

vars == <<guard, pc, forInit, step, visible, runs>>

Init ==
  /\ guard = 0
  /\ pc = [t \in Threads |-> "idle"]
  /\ forInit = [t \in Threads |-> FALSE]
  /\ step = [t \in Threads |-> 0]
  /\ visible = [t \in Threads |-> 0]
  /\ runs = 0

\* The host calls <Domain>_load or <Domain>_init.
CallLoad(t) ==
  /\ pc[t] = "idle"
  /\ pc' = [pc EXCEPT ![t] = "load"]
  /\ \E init \in BOOLEAN : forInit' = [forInit EXCEPT ![t] = init]
  /\ UNCHANGED <<guard, step, visible, runs>>

Relaxed(t) == visible[t]
Acquired(t) == IF guard = 2 THEN Writes ELSE visible[t]

NotLoaded == guard # 2
Untouched == guard = 0

\* cmpxchg 0 -> 1: the winner runs the streams.
Exchange(t) ==
  /\ pc[t] = "load"
  /\ guard' = IF Untouched THEN 1 ELSE guard
  /\ pc' = [pc EXCEPT ![t] = IF Untouched THEN "run" ELSE "wait"]
  /\ visible' = [visible EXCEPT ![t] = Acquired(t)]
  /\ UNCHANGED <<forInit, step, runs>>

RunStream(t) ==
  /\ pc[t] = "run" /\ step[t] < Writes
  /\ step' = [step EXCEPT ![t] = step[t] + 1]
  /\ visible' = [visible EXCEPT ![t] = step[t] + 1]
  /\ UNCHANGED <<guard, pc, forInit, runs>>

ReturnTo(t) == IF forInit[t] THEN "init" ELSE "idle"

StillLoading == 1
Loaded == 2

StoreLoaded(t) ==
  /\ pc[t] = "run" /\ step[t] = Writes
  /\ guard' = Loaded
  /\ pc' = [pc EXCEPT ![t] = ReturnTo(t)]
  /\ runs' = runs + 1
  /\ UNCHANGED <<forInit, step, visible>>

SomeoneLoads == guard # 0
LoadIsDone == guard = 2

\* The spin loop, left when the load is done.
Wait(t) ==
  /\ pc[t] = "wait" /\ LoadIsDone
  /\ pc' = [pc EXCEPT ![t] = ReturnTo(t)]
  /\ visible' = [visible EXCEPT ![t] = Acquired(t)]
  /\ UNCHANGED <<guard, forInit, step, runs>>

\* The rest of <Domain>_init, which may read root blocks.
RunInit(t) ==
  /\ pc[t] = "init"
  /\ pc' = [pc EXCEPT ![t] = "idle"]
  /\ UNCHANGED <<guard, forInit, step, visible, runs>>

InCall(t) == Exchange(t) \/ RunStream(t) \/ StoreLoaded(t) \/ Wait(t) \/ RunInit(t)

Next == \E t \in Threads : CallLoad(t) \/ InCall(t)

\* The operating system lets every thread run; the host need not call.
Spec == Init /\ [][Next]_vars /\ \A t \in Threads : WF_vars(InCall(t))

-----------------------------------------------------------------------------
(***************************************************************************)
(* Properties                                                              *)
(***************************************************************************)

TypeOK ==
  /\ guard \in 0 .. 2
  /\ pc \in [Threads -> {"idle", "load", "run", "wait", "init"}]
  /\ forInit \in [Threads -> BOOLEAN]
  /\ step \in [Threads -> 0 .. Writes] /\ visible \in [Threads -> 0 .. Writes]
  /\ runs \in 0 .. 1

(* The onLoad streams run once per program, in one thread, and the guard   *)
(* tells so (stridegenerator.cpp:758).                                     *)
RunsOnce ==
  /\ runs = IF guard = 2 THEN 1 ELSE 0
  /\ \A t, u \in Threads : pc[t] = "run" /\ pc[u] = "run" => t = u
  /\ guard # 1 => \A t \in Threads : pc[t] # "run"

(* An instance's init sees everything the onLoad streams wrote, in         *)
(* whichever thread they ran (stridegenerator.cpp:769, 795).               *)
InitSeesLoad == \A t \in Threads : pc[t] = "init" => visible[t] = Writes

(* Every call comes back: waiting threads are not left spinning.           *)
EveryCallReturns == \A t \in Threads : pc[t] # "idle" ~> pc[t] = "idle"

(* The guard implements the abstract promise of a call that runs once.     *)
Promise == INSTANCE Once WITH
  Callers <- Threads,
  ran     <- CASE guard = 0 -> "no" [] guard = 1 -> "running" [] guard = 2 -> "yes",
  calling <- {t \in Threads : pc[t] \in {"load", "run", "wait"}}

ImplementsOnce == Promise!Spec
=============================================================================
