------------------------ MODULE StateMachine_proofs ------------------------
(***************************************************************************)
(* Proofs about StateMachine, for every tree of states and every set of    *)
(* transitions.  What the code does by walking parents is the least closed *)
(* set here, so that "is inside" is shown to be reflexive and transitive   *)
(* without induction over the tree.                                        *)
(***************************************************************************)
EXTENDS StateMachine, IntegerSets

(***************************************************************************)
(* Walks through the tree                                                  *)
(***************************************************************************)

(* A walk starts where it starts and follows the function to its end.      *)
LEMMA ClosureIsClosed ==
  ASSUME NEW f \in [States -> States \cup {0}], NEW s \in States
  PROVE  /\ s \in Closure(f, s) /\ Closure(f, s) \subseteq States
         /\ \A y \in Closure(f, s) : f[y] # 0 => f[y] \in Closure(f, s)
<1>1. s \in Closure(f, s) /\ Closure(f, s) \subseteq States
  BY DEF Closure
<1>2. ASSUME NEW y \in Closure(f, s), f[y] # 0 PROVE f[y] \in Closure(f, s)
  <2>1. y \in States /\ f[y] \in States
    BY <1>1, <1>2
  <2>2. ASSUME NEW S \in SUBSET States, s \in S,
               \A z \in S : f[z] # 0 => f[z] \in S
        PROVE  f[y] \in S
    BY <1>2, <2>2, Zenon DEF Closure
  <2> QED
    BY <2>1, <2>2, Zenon DEF Closure
<1> QED
  BY <1>1, <1>2

(* A set that is closed under the function holds the whole walk.           *)
LEMMA ClosureIsLeast ==
  ASSUME NEW f, NEW s, NEW S \in SUBSET States, s \in S,
         \A y \in S : f[y] # 0 => f[y] \in S
  PROVE  Closure(f, s) \subseteq S
  BY Zenon DEF Closure

(* A state is inside itself, and a state is inside the parents of those    *)
(* it is inside.                                                           *)
LEMMA AncestryIsClosed ==
  ASSUME NEW s \in States
  PROVE  /\ s \in Ancestry[s] /\ Ancestry[s] \subseteq States
         /\ \A y \in Ancestry[s] : Parent[y] # 0 => Parent[y] \in Ancestry[s]
<1>1. Ancestry[s] = Closure(Parent, s) /\ Parent \in [States -> States \cup {0}]
  BY TreeAssumption DEF Ancestry
<1> QED
  BY <1>1, ClosureIsClosed

(* Being inside is transitive.                                             *)
LEMMA InsideIsTransitive ==
  ASSUME NEW s \in States, NEW y \in Ancestry[s]
  PROVE  y \in States /\ Ancestry[y] \subseteq Ancestry[s]
<1>1. y \in States /\ Ancestry[s] \in SUBSET States
      /\ \A z \in Ancestry[s] : Parent[z] # 0 => Parent[z] \in Ancestry[s]
  BY AncestryIsClosed
<1>2. Ancestry[y] = Closure(Parent, y)
  BY <1>1 DEF Ancestry
<1>3. Closure(Parent, y) \subseteq Ancestry[s]
  BY <1>1, ClosureIsLeast
<1> QED
  BY <1>1, <1>2, <1>3

(* A state's id is not less than those of the states around it.            *)
LEMMA AncestorsComeFirst ==
  ASSUME NEW s \in States, NEW a \in Ancestry[s]
  PROVE  a <= s
<1> DEFINE S == {x \in States : x <= s}
<1>1. s \in S /\ S \in SUBSET States
  BY DEF States
<1>2. ASSUME NEW y \in S, Parent[y] # 0 PROVE Parent[y] \in S
  <2>1. y \in States /\ y <= s /\ y # 1
    BY <1>2, TreeAssumption
  <2>2. Parent[y] \in 1 .. y - 1 /\ Parent[y] \in States
    BY <1>2, <2>1, TreeAssumption
  <2> QED
    BY <2>1, <2>2 DEF States
<1>3. Closure(Parent, s) \subseteq S
  BY <1>1, <1>2, ClosureIsLeast
<1> QED
  BY <1>3 DEF Ancestry

(* The chain of initial states ends, in a state inside the first one.      *)
LEMMA LeafInside ==
  ASSUME NEW s \in States
  PROVE  Leaf[s] \in States /\ s \in Ancestry[Leaf[s]]
<1>0. InitialState \in [States -> States \cup {0}]
      /\ InitialChain[s] = Closure(InitialState, s)
  BY TreeAssumption DEF InitialChain
<1>1. /\ s \in InitialChain[s] /\ InitialChain[s] \subseteq States
      /\ \A y \in InitialChain[s] : InitialState[y] # 0 => InitialState[y] \in InitialChain[s]
  BY <1>0, ClosureIsClosed
<1>2. PICK l \in InitialChain[s] : \A y \in InitialChain[s] : y <= l
  <2>1. InitialChain[s] \in SUBSET Int /\ \A y \in InitialChain[s] : y <= NumStates
    BY <1>1 DEF States
  <2>2. InitialChain[s] # {} /\ NumStates \in Int
    BY <1>1, TreeAssumption
  <2> QED
    BY <2>1, <2>2, Greatest
<1>3. InitialState[l] = 0
  <2>1. SUFFICES ASSUME InitialState[l] # 0 PROVE FALSE
    OBVIOUS
  <2>2. l \in States /\ InitialState[l] \in States /\ InitialState[l] \in InitialChain[s]
    BY <1>0, <1>1, <1>2, <2>1
  <2>3. InitialState[l] # l /\ l \in Ancestry[InitialState[l]]
    BY <2>1, <2>2, TreeAssumption
  <2>4. l <= InitialState[l] /\ InitialState[l] <= l
    BY <1>2, <2>2, <2>3, AncestorsComeFirst
  <2> QED
    BY <2>2, <2>3, <2>4 DEF States
<1>4. Leaf[s] \in InitialChain[s]
  BY <1>2, <1>3 DEF Leaf
<1>5. InitialChain[s] \subseteq {x \in States : s \in Ancestry[x]}
  <2> DEFINE S == {x \in States : s \in Ancestry[x]}
  <2>1. s \in S /\ S \in SUBSET States
    BY AncestryIsClosed
  <2>2. ASSUME NEW y \in S, InitialState[y] # 0 PROVE InitialState[y] \in S
    <3>1. y \in States /\ InitialState[y] \in States /\ s \in Ancestry[y]
      BY <1>0, <2>2
    <3>2. y \in Ancestry[InitialState[y]]
      BY <2>2, <3>1, TreeAssumption
    <3> QED
      BY <3>1, <3>2, InsideIsTransitive
  <2>3. Closure(InitialState, s) \subseteq S
    BY <2>1, <2>2, ClosureIsLeast
  <2> QED
    BY <1>0, <2>3
<1> QED
  BY <1>4, <1>5

(***************************************************************************)
(* The invariant                                                           *)
(***************************************************************************)

\* An edge that is still latched has not fired, and a pending request has
\* not been taken.
CreditLeft ==
  /\ EdgesFireOnce /\ ((\E t \in Transitions : latch[t]) => fired < edges)
  /\ RequestsFireOnce /\ (request # 0 => taken < asked)

NotEnteredYet == ~entered => activeState = InitialLeaf

IInv == MachineTypeOK /\ HistoryInside /\ CreditLeft /\ ActiveIsEntered /\ NotEnteredYet

LEMMA RootInside == InitialLeaf \in States
  BY LeafInside, TreeAssumption DEF InitialLeaf, States

(* Memory as allocated satisfies the invariant.                            *)
LEMMA InitInv == MachineInit => IInv
<1> SUFFICES ASSUME MachineInit PROVE IInv
  OBVIOUS
<1>1. MachineTypeOK
  <2>1. switch \in [Switches -> BOOLEAN] /\ latch \in [Transitions -> BOOLEAN]
    <3>1. latch = [t \in Transitions |-> FALSE] /\ switch = [w \in Switches |-> w \in DefaultOn]
      BY DEF MachineInit
    <3>2. \A w \in Switches : (w \in DefaultOn) \in BOOLEAN
      OBVIOUS
    <3>3. latch \in [Transitions -> BOOLEAN]
      BY <3>1, Zenon
    <3>4. switch \in [Switches -> BOOLEAN]
      BY <3>1, <3>2, Zenon
    <3> QED
      BY <3>3, <3>4
  <2>2. histories \in [Resume -> States \cup {0}]
    BY DEF MachineInit
  <2> QED
    <3>1. /\ side \in {"host", "tick"} /\ activeState \in States /\ entered \in BOOLEAN
          /\ request \in Transitions \cup {0} /\ arg \in Int
      <4>1. side = "host" /\ activeState = InitialLeaf /\ entered = FALSE /\ request = 0 /\ arg = 0
        BY Zenon DEF MachineInit
      <4>2. 0 \in Int /\ FALSE \in BOOLEAN
        OBVIOUS
      <4> QED
        BY <4>1, <4>2, RootInside, Zenon
    <3>2. /\ inside \subseteq States /\ restored \in BOOLEAN
          /\ edges \in Nat /\ fired \in Nat /\ asked \in Nat /\ taken \in Nat
      BY DEF MachineInit
    <3> QED
      BY <2>1, <2>2, <3>1, <3>2, Zenon DEF MachineTypeOK
<1>2. HistoryInside /\ NotEnteredYet /\ ActiveIsEntered
  BY DEF MachineInit, HistoryInside, NotEnteredYet, ActiveIsEntered
<1>3. CreditLeft
  BY DEF MachineInit, CreditLeft, EdgesFireOnce, RequestsFireOnce
<1> QED
  BY <1>1, <1>2, <1>3 DEF IInv

(* What a firing transition records lies inside the recording states.      *)
LEMMA RecordedInside ==
  ASSUME MachineTypeOK, HistoryInside, NEW t \in Transitions,
         NEW c \in Resume, HistoryAfter(t)[c] # 0
  PROVE  HistoryAfter(t)[c] \in States /\ c \in Ancestry[HistoryAfter(t)[c]]
<1>1. CASE c \in Recording(t)
  <2>1. HistoryAfter(t)[c] = activeState /\ activeState \in States /\ c \in States
    BY <1>1, TreeAssumption DEF HistoryAfter, MachineTypeOK
  <2>2. c \in Ancestry[activeState]
    <3>1. CASE c \in Exited(activeState, t)
      BY <3>1 DEF Exited
    <3>2. CASE c \in {Parent[e] : e \in Exited(activeState, t)}
      <4>1. PICK e \in Ancestry[activeState] : c = Parent[e]
        BY <3>2 DEF Exited
      <4>2. c # 0
        BY <2>1 DEF States
      <4> QED
        BY <2>1, <4>1, <4>2, AncestryIsClosed
    <3> QED
      BY <1>1, <3>1, <3>2 DEF Recording
  <2> QED
    BY <2>1, <2>2
<1>2. CASE c \notin Recording(t)
  <2>1. HistoryAfter(t)[c] = histories[c]
    BY <1>2 DEF HistoryAfter
  <2> QED
    BY <2>1 DEF MachineTypeOK, HistoryInside
<1> QED
  BY <1>1, <1>2

(* Where a transition lands.                                               *)
LEMMA Landing ==
  ASSUME MachineTypeOK, HistoryInside, NEW t \in Transitions, Fire(t)
  PROVE  activeState' \in States /\ Target[t] \in Ancestry[activeState']
<1>1. Target[t] \in States
  BY TransitionsAssumption
<1>2. CASE Restores(t)
  <2>1. activeState' = HistoryAfter(t)[Target[t]]
    BY <1>2 DEF Fire
  <2> QED
    BY <1>2, <2>1, RecordedInside DEF Restores
<1>3. CASE ~Restores(t)
  <2>1. activeState' = Leaf[Target[t]]
    BY <1>3 DEF Fire
  <2> QED
    BY <1>1, <2>1, LeafInside
<1> QED
  BY <1>2, <1>3

(* Every step keeps the invariant.                                         *)
LEMMA NextInv == IInv /\ [MachineNext]_machineVars => IInv'
<1> SUFFICES ASSUME IInv, [MachineNext]_machineVars PROVE IInv'
  OBVIOUS
<1> USE DEF IInv
<1>1. CASE Request
  <2>1. MachineTypeOK'
    BY <1>1, TransitionsAssumption DEF Request, MachineTypeOK
  <2>2. HistoryInside' /\ ActiveIsEntered' /\ NotEnteredYet'
    BY <1>1 DEF Request, HistoryInside, ActiveIsEntered, NotEnteredYet
  <2>3. CreditLeft'
    BY <1>1 DEF Request, CreditLeft, EdgesFireOnce, RequestsFireOnce, MachineTypeOK
  <2> QED
    BY <2>1, <2>2, <2>3
<1>2. CASE HostWrite
  <2>1. switch' \in [Switches -> BOOLEAN]
    BY <1>2, Zenon DEF HostWrite, MachineTypeOK
  <2>2. MachineTypeOK'
    BY <1>2, <2>1 DEF HostWrite, MachineTypeOK, host, ghost
  <2>3. HistoryInside' /\ ActiveIsEntered' /\ NotEnteredYet' /\ CreditLeft'
    BY <1>2 DEF HostWrite, HistoryInside, ActiveIsEntered, NotEnteredYet, CreditLeft,
                EdgesFireOnce, RequestsFireOnce, host, ghost
  <2> QED
    BY <2>2, <2>3
<1>3. CASE InitMachine
  <2>1. switch' \in [Switches -> BOOLEAN] /\ latch' \in [Transitions -> BOOLEAN]
    BY <1>3, Zenon DEF InitMachine
  <2>2. /\ UNCHANGED <<side, request, arg, histories>> /\ activeState' = InitialLeaf /\ entered' = FALSE
        /\ inside' = {} /\ restored' = FALSE /\ fired' = 0 /\ taken' = 0
        /\ asked' = IF request = 0 THEN 0 ELSE 1
        /\ edges' = IF \E t \in Transitions : latch'[t] THEN 1 ELSE 0
    BY <1>3 DEF InitMachine, host
  <2>3. MachineTypeOK'
    BY <2>1, <2>2, RootInside DEF MachineTypeOK
  <2>4. HistoryInside' /\ ActiveIsEntered' /\ NotEnteredYet'
    BY <2>2 DEF HistoryInside, ActiveIsEntered, NotEnteredYet
  <2>5. CreditLeft'
    <3>1. (\E t \in Transitions : latch'[t]) => edges' = 1
      BY <2>2, Zenon
    <3>2. edges' \in {0, 1}
      BY <2>2
    <3> QED
      BY <2>2, <3>1, <3>2 DEF CreditLeft, EdgesFireOnce, RequestsFireOnce
  <2> QED
    BY <2>3, <2>4, <2>5
<1>4. CASE StartTick
  BY <1>4 DEF StartTick, MachineTypeOK, HistoryInside, ActiveIsEntered, NotEnteredYet, CreditLeft,
              EdgesFireOnce, RequestsFireOnce, host, ghost
<1>5. CASE WriteSwitch
  <2>0. PICK w \in Switches, v \in BOOLEAN :
          LET rose == ~switch[w] /\ v
          IN /\ switch' = [switch EXCEPT ![w] = v]
             /\ latch' = [t \in Transitions |-> latch[t] \/ (On[t] = w /\ rose)]
             /\ edges' = IF rose THEN edges + 1 ELSE edges
    BY <1>5 DEF WriteSwitch
  <2> DEFINE rose == ~switch[w] /\ v
  <2>1. /\ switch' = [switch EXCEPT ![w] = v]
        /\ latch' = [t \in Transitions |-> latch[t] \/ (On[t] = w /\ rose)]
        /\ edges' = IF rose THEN edges + 1 ELSE edges
    BY <2>0, Zenon
  <2> HIDE DEF rose
  <2>2. UNCHANGED <<side, activeState, entered, request, arg, histories, inside, restored, fired, asked, taken>>
    BY <1>5 DEF WriteSwitch, host
  <2>3. switch' \in [Switches -> BOOLEAN] /\ latch' \in [Transitions -> BOOLEAN]
    BY <2>1, Zenon DEF MachineTypeOK
  <2>4. edges' \in Nat /\ edges' >= edges /\ (rose => edges' > edges)
    BY <2>1 DEF MachineTypeOK
  <2>5. MachineTypeOK'
    BY <2>2, <2>3, <2>4 DEF MachineTypeOK
  <2>6. HistoryInside' /\ ActiveIsEntered' /\ NotEnteredYet'
    BY <2>2 DEF HistoryInside, ActiveIsEntered, NotEnteredYet
  <2>7. CreditLeft'
    <3>1. ASSUME NEW t \in Transitions, latch'[t] PROVE latch[t] \/ rose
      BY <2>1, <3>1, Zenon
    <3>2. (\E t \in Transitions : latch'[t]) => fired < edges'
      <4>1. CASE rose
        BY <2>4, <4>1 DEF CreditLeft, EdgesFireOnce, MachineTypeOK
      <4>2. CASE ~rose
        BY <2>4, <3>1, <4>2 DEF CreditLeft, MachineTypeOK
      <4> QED
        BY <4>1, <4>2
    <3>3. fired <= edges'
      BY <2>4 DEF CreditLeft, EdgesFireOnce, MachineTypeOK
    <3> QED
      BY <2>2, <3>2, <3>3 DEF CreditLeft, EdgesFireOnce, RequestsFireOnce
  <2> QED
    BY <2>5, <2>6, <2>7
<1>6. CASE InitialEntry
  <2>1. /\ UNCHANGED <<side, activeState, request, arg, histories, latch, switch, restored, edges, fired, asked, taken>>
        /\ ~entered /\ entered' = TRUE /\ inside' = inside \cup Ancestry[InitialLeaf]
    BY <1>6 DEF InitialEntry, host, EntryPath
  <2>2. Ancestry[InitialLeaf] \subseteq States
    BY RootInside, AncestryIsClosed
  <2>3. MachineTypeOK'
    BY <2>1, <2>2 DEF MachineTypeOK
  <2>4. HistoryInside' /\ NotEnteredYet' /\ CreditLeft'
    BY <2>1 DEF HistoryInside, NotEnteredYet, CreditLeft, EdgesFireOnce, RequestsFireOnce
  <2>5. ActiveIsEntered'
    BY <2>1 DEF ActiveIsEntered, NotEnteredYet
  <2> QED
    BY <2>3, <2>4, <2>5
<1>7. CASE Process
  <2>1. /\ UNCHANGED <<activeState, entered, request, arg, histories, inside, restored, edges, fired, asked, taken>>
        /\ side' = "host" /\ latch' = [t \in Transitions |-> FALSE]
        /\ switch' \in [Switches -> BOOLEAN]
    BY <1>7 DEF Process, EndOfTick, LatchesCleared, host, ghost
  <2>2. latch' \in [Transitions -> BOOLEAN] /\ \A t \in Transitions : ~latch'[t]
    BY <2>1, Zenon
  <2>3. MachineTypeOK'
    BY <2>1, <2>2 DEF MachineTypeOK
  <2>4. HistoryInside' /\ NotEnteredYet' /\ ActiveIsEntered'
    BY <2>1 DEF HistoryInside, NotEnteredYet, ActiveIsEntered
  <2>5. CreditLeft'
    BY <2>1, <2>2 DEF CreditLeft, EdgesFireOnce, RequestsFireOnce
  <2> QED
    BY <2>3, <2>4, <2>5
<1>8. ASSUME NEW t \in Transitions, Fire(t) PROVE IInv'
  <2>1. /\ side' = "host" /\ latch' = [u \in Transitions |-> FALSE]
        /\ switch' \in [Switches -> BOOLEAN]
        /\ UNCHANGED <<entered, edges, asked>> /\ entered
        /\ histories' = HistoryAfter(t) /\ request' = 0 /\ arg' = 0
        /\ inside' = (inside \ Exited(activeState, t)) \cup Ancestry[Leaf[Target[t]]]
        /\ restored' = Restores(t)
        /\ activeState' = IF Restores(t) THEN HistoryAfter(t)[Target[t]] ELSE Leaf[Target[t]]
    BY <1>8 DEF Fire, EndOfTick, LatchesCleared, RequestDone, EntryPath
  <2>2. /\ fired' = IF Triggered(t) THEN fired + 1 ELSE fired
        /\ taken' = IF On[t] = "request" THEN taken + 1 ELSE taken
        /\ Triggered(t) => latch[t]
        /\ On[t] = "request" => request = t
    <3>1. Raised(t) /\ (Triggered(t) => On[t] # "request")
      BY <1>8, TransitionsAssumption DEF Fire, Triggered
    <3>2. /\ Triggered(t) => latch[t]
          /\ On[t] = "request" => request = t
      BY <3>1 DEF Raised, EdgeTriggered
    <3> QED
      BY <1>8, <3>2 DEF Fire
  <2>3. latch' \in [Transitions -> BOOLEAN] /\ \A u \in Transitions : ~latch'[u]
    BY <2>1, Zenon
  <2>4. Target[t] \in States /\ activeState' \in States
    BY <1>8, Landing, TransitionsAssumption
  <2>5. histories' \in [Resume -> States \cup {0}]
    <3>1. ASSUME NEW c \in Resume PROVE HistoryAfter(t)[c] \in States \cup {0}
      BY RecordedInside
    <3>2. HistoryAfter(t) = [c \in Resume |-> HistoryAfter(t)[c]]
      BY DEF HistoryAfter
    <3> QED
      BY <2>1, <3>1, <3>2
  <2>6. HistoryInside'
    BY <2>1, RecordedInside DEF HistoryInside
  <2>7. Ancestry[Leaf[Target[t]]] \subseteq States
    BY <2>4, LeafInside, AncestryIsClosed
  <2>8. fired' \in Nat /\ taken' \in Nat
    BY <2>2 DEF MachineTypeOK
  <2>9. MachineTypeOK'
    <3>1. restored' \in BOOLEAN
      BY <2>1 DEF Restores
    <3>2. inside' \subseteq States
      BY <2>1, <2>7 DEF MachineTypeOK
    <3> QED
      BY <2>1, <2>3, <2>4, <2>5, <2>8, <3>1, <3>2 DEF MachineTypeOK
  <2>10. CreditLeft'
    <3>1. fired' <= edges
      BY <2>2 DEF CreditLeft, EdgesFireOnce, MachineTypeOK
    <3>2. taken' <= asked
      <4>1. On[t] = "request" => request # 0
        BY <2>2 DEF Transitions
      <4> QED
        BY <2>2, <4>1 DEF CreditLeft, RequestsFireOnce, MachineTypeOK
    <3> QED
      BY <2>1, <2>3, <3>1, <3>2 DEF CreditLeft, EdgesFireOnce, RequestsFireOnce
  <2>11. ActiveIsEntered' /\ NotEnteredYet'
    BY <2>1 DEF ActiveIsEntered, NotEnteredYet
  <2> QED
    BY <2>6, <2>9, <2>10, <2>11
<1>9. CASE UNCHANGED machineVars
  BY <1>9 DEF machineVars, MachineTypeOK, HistoryInside, ActiveIsEntered, NotEnteredYet, CreditLeft,
              EdgesFireOnce, RequestsFireOnce, host, ghost
<1> QED
  BY <1>1, <1>2, <1>3, <1>4, <1>5, <1>6, <1>7, <1>8, <1>9 DEF MachineNext

LEMMA InvHolds == MachineSpec => []IInv
  BY InitInv, NextInv, PTL DEF MachineSpec

-----------------------------------------------------------------------------
(* The machine's memory keeps its type.                                    *)
THEOREM TypeCorrect == MachineSpec => []MachineTypeOK
  BY InvHolds, PTL DEF IInv

(* A composite state only ever remembers a state inside it.                *)
THEOREM HistoryStaysInside == MachineSpec => []HistoryInside
  BY InvHolds, PTL DEF IInv

(* One rising edge fires one transition at most.                           *)
THEOREM EdgesAreSpentOnce == MachineSpec => []EdgesFireOnce
  BY InvHolds, PTL DEF IInv, CreditLeft

(* One request fires one transition at most.                               *)
THEOREM RequestsAreSpentOnce == MachineSpec => []RequestsFireOnce
  BY InvHolds, PTL DEF IInv, CreditLeft

(* The active state has been entered, with all the states around it.       *)
THEOREM ActiveStateIsEntered == MachineSpec => []ActiveIsEntered
  BY InvHolds, PTL DEF IInv

(* Every transition lands inside its target, in every machine.             *)
THEOREM TransitionsLandInTarget == MachineSpec => LandsInTarget
<1>1. IInv /\ [MachineNext]_machineVars =>
        [\A t \in Transitions : Fire(t) => Target[t] \in Ancestry[activeState']]_machineVars
  BY Landing DEF IInv
<1> QED
  BY <1>1, InvHolds, PTL DEF MachineSpec, LandsInTarget
=============================================================================
