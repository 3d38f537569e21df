---------------------------- MODULE StateMachine ----------------------------
(***************************************************************************)
(* A hierarchical state machine of a domain: how StateMachine              *)
(* (flattenStateMachine, resolveLeafInitialState) numbers its states and   *)
(* transitions, and the code that StateMachineExprAST generates for it,    *)
(* which runs after the domain's streams in every tick.                    *)
(*                                                                         *)
(* States are their ids: the root is 1 and a state's id is greater than    *)
(* its parent's.  0 stands for "none" (-1 for the root's parent in the     *)
(* source).  Users' code blocks are modelled by what the machine can tell  *)
(* of them: a guard is open or not, and any block may write a switch.      *)
(***************************************************************************)
EXTENDS Integers

CONSTANTS
  NumStates,
  Parent,        \* of each state, 0 for the root
  InitialState,  \* of each state, 0 if it declares none
  Resume,        \* the states with resumeLastState
  NumTransitions,
  Owner,         \* of each transition
  Target,        \* of each transition, its targetState
  On,            \* "request", "guard" (triggerOnGuard) or the trigger switch
  Guarded,       \* the transitions with a guard block
  Generator,     \* the parameters a generator transition takes, else {}
  Switches,      \* the switches some transition has as trigger
  Momentary,     \* those declared `trigger`
  DefaultOn,     \* those with a default, by its value
  DefaultOff,
  Args,          \* the parameters a host may give with a request
  MaxEdges,      \* bound: rising edges between two inits
  MaxRequests    \* bound: requests of the host between two inits

States == 1 .. NumStates
Transitions == 1 .. NumTransitions

\* The least set that holds s and, with a state, its image unless that is 0.
Closure(f, s) ==
  {x \in States :
     \A S \in SUBSET States :
       s \in S /\ (\A y \in S : f[y] # 0 => f[y] \in S) => x \in S}

\* A state and the states around it; a state and its chain of initial states.
Ancestry == [s \in States |-> Closure(Parent, s)]
InitialChain == [s \in States |-> Closure(InitialState, s)]

ASSUME TreeAssumption ==
  /\ NumStates \in Nat \ {0}
  /\ Parent \in [States -> States \cup {0}]
  /\ Parent[1] = 0 /\ \A s \in States \ {1} : Parent[s] \in 1 .. s - 1
  /\ InitialState \in [States -> States \cup {0}]
  /\ \A s \in States : LET i == InitialState[s]
                       IN i # 0 => i # s /\ s \in Ancestry[i]
  /\ Resume \subseteq States

ASSUME TransitionsAssumption ==
  /\ NumTransitions \in Nat
  /\ Owner \in [Transitions -> States] /\ Target \in [Transitions -> States]
  /\ \A t, u \in Transitions : t < u => Owner[t] <= Owner[u]
  /\ "request" \notin Switches /\ "guard" \notin Switches
  /\ On \in [Transitions -> {"request", "guard"} \cup Switches]
  /\ Guarded \subseteq Transitions /\ Generator \in [Transitions -> SUBSET Int]
  /\ Momentary \subseteq Switches /\ DefaultOn \cup DefaultOff \subseteq Switches
  /\ Args \subseteq Int /\ MaxEdges \in Nat /\ MaxRequests \in Nat

VARIABLES
  side,         \* "host" between ticks, "tick" in the process function
  activeState,  \* __<Domain>_<SM>_active_state_id
  entered,      \* .._is_entered
  request, arg, \* .._transition_request_id and .._transition_request_arg
  histories,    \* .._history_state_id of the states in Resume
  latch,        \* .._trigger_latch of the transitions with a trigger
  switch,       \* the domain's switches
  \* History of the execution:
  inside,       \* states entered and not exited since
  restored,     \* the last transition restored a history
  edges, fired, \* rising edges, and transitions fired by one, since init
  asked, taken  \* requests, and transitions fired by one, since init

host == <<request, arg>>
ghost == <<inside, restored, edges, fired, asked, taken>>
machineVars ==
  <<side, activeState, entered, host, histories, latch, switch, ghost>>

-----------------------------------------------------------------------------
(***************************************************************************)
(* The tables the code is generated from                                   *)
(***************************************************************************)

\* resolveLeafInitialState
Leaf == [s \in States |-> CHOOSE l \in InitialChain[s] : InitialState[l] = 0]
InitialLeaf == Leaf[1]

\* The transitions a state's code tests: its own, then those around it.
Candidates(s) == {t \in Transitions : Owner[t] \in Ancestry[s]}
TestedBefore(t, u) == Owner[t] > Owner[u] \/ (Owner[t] = Owner[u] /\ t < u)

Triggered(t) == On[t] \in Switches

\* The states whose onExit runs: from s up to the transition's owner.
Exited(s, t) == {e \in Ancestry[s] : Owner[t] \in Ancestry[e]}

-----------------------------------------------------------------------------
(***************************************************************************)
(* Memory as allocateState leaves it                                       *)
(***************************************************************************)

MachineInit ==
  /\ side = "host"
  /\ activeState = InitialLeaf /\ entered = FALSE
  /\ request = 0 /\ arg = 0
  /\ histories = [s \in Resume |-> 0]
  /\ latch = [t \in Transitions |-> FALSE]
  /\ switch = [w \in Switches |-> w \in DefaultOn]
  /\ inside = {} /\ restored = FALSE
  /\ edges = 0 /\ fired = 0 /\ asked = 0 /\ taken = 0

-----------------------------------------------------------------------------
(***************************************************************************)
(* The host, between ticks                                                 *)
(***************************************************************************)

\* requestTransition, with a parameter or without: then arg stays.
Request ==
  /\ side = "host" /\ asked < MaxRequests
  /\ request' \in Transitions
  /\ arg' \in Args \cup {arg}
  /\ asked' = asked + 1
  /\ UNCHANGED <<side, activeState, entered, histories, latch, switch,
                 inside, restored, edges, fired, taken>>

\* setStateVar writes memory: no latch.
HostWrite ==
  /\ side = "host"
  /\ \E w \in Switches, v \in BOOLEAN : switch' = [switch EXCEPT ![w] = v]
  /\ UNCHANGED <<side, activeState, entered, host, histories, latch, ghost>>

\* <Domain>_init: the latches are cleared, then the defaults are written
\* like any other write to a switch, so that a default may latch an edge.
InitMachine ==
  /\ side = "host"
  /\ activeState' = InitialLeaf /\ entered' = FALSE
  /\ switch' = [w \in Switches |-> w \in DefaultOn \/ (w \notin DefaultOff /\ switch[w])]
  /\ latch' = [t \in Transitions |->
                 Triggered(t) /\ ~switch[On[t]] /\ switch'[On[t]]]
  /\ edges' = IF \E t \in Transitions : latch'[t] THEN 1 ELSE 0
  /\ inside' = {} /\ restored' = FALSE
  /\ fired' = 0 /\ taken' = 0 /\ asked' = IF request = 0 THEN 0 ELSE 1
  /\ UNCHANGED <<side, host, histories>>

StartTick ==
  /\ side = "host" /\ side' = "tick"
  /\ UNCHANGED <<activeState, entered, host, histories, latch, switch, ghost>>

-----------------------------------------------------------------------------
(***************************************************************************)
(* The process function                                                    *)
(***************************************************************************)

\* A stream of the domain, or the onEntry and updateGuard blocks that run
\* before the transitions are tested, writes a switch.
WriteSwitch ==
  /\ side = "tick"
  /\ \E w \in Switches, v \in BOOLEAN :
       LET rose == ~switch[w] /\ v
       IN /\ rose => edges < MaxEdges
          /\ switch' = [switch EXCEPT ![w] = v]
          /\ latch' = [t \in Transitions |-> latch[t] \/ (On[t] = w /\ rose)]
          /\ edges' = IF rose THEN edges + 1 ELSE edges
  /\ UNCHANGED <<side, activeState, entered, host, histories,
                 inside, restored, fired, asked, taken>>

LeafOnly(s) == {s}
EntryPath(s) == Ancestry[s]

\* The onEntry blocks of the initial state, once.
InitialEntry ==
  /\ side = "tick" /\ ~entered
  /\ entered' = TRUE
  /\ inside' = inside \cup EntryPath(InitialLeaf)
  /\ UNCHANGED <<side, activeState, host, histories, latch, switch,
                 restored, edges, fired, asked, taken>>

\* What makes a transition fire if its guard block, if any, is open.
LevelTriggered(t) == switch[On[t]]
EdgeTriggered(t) == latch[t]

Raised(t) ==
  /\ Triggered(t) => EdgeTriggered(t)
  /\ On[t] = "request" => request = t
  /\ Generator[t] # {} => arg \in Generator[t]

\* The first transition that fires is the only one.
IsFirst(t) ==
  \A u \in Candidates(activeState) :
    TestedBefore(u, t) /\ Raised(u) => u \in Guarded

LatchesCleared == [t \in Transitions |-> FALSE]

\* The blocks that run when the transitions have been tested may write
\* switches too, but their edges are gone with the latches.
EndOfTick ==
  /\ side' = "host"
  /\ latch' = LatchesCleared
  /\ switch' \in [Switches -> BOOLEAN]
  /\ \A w \in Momentary : ~switch'[w]

\* A composite state records the active leaf when it or a child is exited.
Recording(t) ==
  Exited(activeState, t) \cup {Parent[e] : e \in Exited(activeState, t)}

RecordsTarget(t) ==
  [c \in Resume |-> IF c \in Recording(t) THEN Target[t] ELSE histories[c]]

HistoryAfter(t) ==
  [c \in Resume |-> IF c \in Recording(t) THEN activeState ELSE histories[c]]

HistoryUnchecked(t) == Target[t] \in Resume
Restores(t) == Target[t] \in Resume /\ HistoryAfter(t)[Target[t]] # 0

RequestKept == request
RequestDone == 0

Fire(t) ==
  /\ side = "tick" /\ entered
  /\ t \in Candidates(activeState) /\ Raised(t) /\ IsFirst(t)
  /\ histories' = HistoryAfter(t)
  /\ activeState' = IF Restores(t) THEN HistoryAfter(t)[Target[t]]
                    ELSE Leaf[Target[t]]
  /\ request' = RequestDone /\ arg' = 0
  /\ inside' = (inside \ Exited(activeState, t)) \cup EntryPath(Leaf[Target[t]])
  /\ restored' = Restores(t)
  /\ fired' = IF Triggered(t) THEN fired + 1 ELSE fired
  /\ taken' = IF On[t] = "request" THEN taken + 1 ELSE taken
  /\ EndOfTick
  /\ UNCHANGED <<entered, edges, asked>>

\* No transition fires: the active state's onProcess runs.
Process ==
  /\ side = "tick" /\ entered
  /\ \A t \in Candidates(activeState) : Raised(t) => t \in Guarded
  /\ EndOfTick
  /\ UNCHANGED <<activeState, entered, host, histories, ghost>>

MachineNext ==
  \/ Request \/ HostWrite \/ InitMachine \/ StartTick
  \/ WriteSwitch \/ InitialEntry \/ Process
  \/ \E t \in Transitions : Fire(t)

MachineSpec == MachineInit /\ [][MachineNext]_machineVars

-----------------------------------------------------------------------------
(***************************************************************************)
(* Properties                                                              *)
(***************************************************************************)

MachineTypeOK ==
  /\ side \in {"host", "tick"}
  /\ activeState \in States /\ entered \in BOOLEAN
  /\ request \in Transitions \cup {0} /\ arg \in Int
  /\ histories \in [Resume -> States \cup {0}]
  /\ latch \in [Transitions -> BOOLEAN] /\ switch \in [Switches -> BOOLEAN]
  /\ inside \subseteq States /\ restored \in BOOLEAN
  /\ edges \in Nat /\ fired \in Nat /\ asked \in Nat /\ taken \in Nat

(* A composite state only ever remembers a state inside it, through        *)
(* whatever nesting, owner and target the transitions have                 *)
(* (statemachine.cpp:693-712).                                             *)
HistoryInside == \A c \in Resume : histories[c] # 0 => c \in Ancestry[histories[c]]

(* A transition lands inside its target state, restored or not             *)
(* (statemachine.cpp:751-776).                                             *)
LandsInTarget ==
  [][\A t \in Transitions :
       Fire(t) => Target[t] \in Ancestry[activeState']]_machineVars

(* A rising edge fires at most one transition, at most once, however long  *)
(* the switch stays on and whatever state is entered                       *)
(* (statemachine.hpp:50, statemachine.cpp:863).                            *)
EdgesFireOnce == fired <= edges

(* A request of the host fires at most one transition, even when it waits  *)
(* for ticks until its state is active (statemachine.cpp:777).             *)
RequestsFireOnce == taken <= asked

(* The active state and the states around it have run their onEntry and    *)
(* not since their onExit, unless the last transition restored a history:  *)
(* then the entry blocks of the default state ran (statemachine.cpp:784).  *)
ActiveIsEntered == entered /\ ~restored => Ancestry[activeState] \subseteq inside
=============================================================================
