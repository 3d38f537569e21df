---------------------------- MODULE MCTickParts ----------------------------
(* What one tick keeps for the next: the phase of one rate segment, the    *)
(* phases of a stream's segments in the domain's state, or a state         *)
(* machine.  One of them runs, and the others stay in an initial state.    *)
EXTENDS MCRateSchedule, MCPhaseFields, MCStateMachine

VARIABLE part  \* "segment", "stream" or "machine"

AnySchedule == CHOOSE s \in Schedules : TRUE
AnyChain == CHOOSE c \in Chains : TRUE
AnyBase == CHOOSE b \in Bases : TRUE

PartsInit ==
  \/ /\ part = "segment" /\ chain = AnyChain /\ base = AnyBase
     /\ ScheduleInit /\ Init /\ MachineInit
  \/ /\ part = "stream" /\ schedule = AnySchedule
     /\ ScheduleInit /\ Init /\ MachineInit
  \/ /\ part = "machine" /\ schedule = AnySchedule
     /\ chain = AnyChain /\ base = AnyBase
     /\ ScheduleInit /\ Init /\ MachineInit

PartsNext ==
  \/ part = "segment" /\ ScheduleNext /\ UNCHANGED <<vars, machineVars, part>>
  \/ part = "stream" /\ Next /\ UNCHANGED <<scheduleVars, machineVars, part>>
  \/ part = "machine" /\ MachineNext /\ UNCHANGED <<scheduleVars, vars, part>>

PartsSpec ==
  /\ PartsInit /\ [][PartsNext]_<<scheduleVars, vars, machineVars, part>>
  /\ WF_scheduleVars(RunLoopBody \/ LeaveLoop)
=============================================================================
