---------------------------- MODULE RateSchedule ----------------------------
(***************************************************************************)
(* How a segment of a stream that runs at another rate than its domain is  *)
(* scheduled: RateScheduleSpec::build picks a schedule from the two rates, *)
(* and the code of DownsampleExprAST or UpsampleExprAST runs the segment's *)
(* body on some of the domain's ticks or several times in one tick.        *)
(*                                                                         *)
(* Rates are integers, as they are once build has scaled decimal rates.    *)
(* The floating-point accumulator, which build falls back to for rates     *)
(* that do not scale, is not modelled.                                     *)
(***************************************************************************)
EXTENDS RateScheduleSpec

CONSTANTS
  Rates,       \* the pairs of rates considered, [domain, chain]
  MaxElapsed,  \* bound: domain ticks between two inits
  MaxRuns      \* bound: runs of an upsampled body between two inits

ASSUME RatesAssumption ==
  /\ Rates \subseteq [domain : Int, chain : Int]
  /\ MaxElapsed \in Nat /\ MaxRuns \in Nat

Schedules == {Build(r.domain, r.chain) : r \in Rates}

-----------------------------------------------------------------------------
VARIABLES
  schedule,   \* the segment's schedule, fixed when it is compiled
  phase,      \* __rate_phase_<Domain>_<n>, unused by "direct" and "loop"
  at,         \* "tick" between ticks, "loop" in an upsampling loop
  sub,        \* the loop's own counter
  \* History since the domain's last init:
  elapsed,    \* domain ticks done
  bodyRuns,   \* times the body has run
  even        \* body runs of this tick, or ticks since the last body run

scheduleVars == <<schedule, phase, at, sub, elapsed, bodyRuns, even>>

StepD == schedule.stepD
StepC == schedule.stepC

ScheduleInit ==
  /\ schedule \in Schedules
  /\ phase = 0 /\ at = "tick" /\ sub = 0
  /\ elapsed = 0 /\ bodyRuns = 0 /\ even = 0

TickOf(kind) ==
  /\ at = "tick" /\ schedule.kind = kind /\ elapsed < MaxElapsed
  /\ elapsed' = elapsed + 1

\* Once per tick, without any state.
DirectTick ==
  /\ TickOf("direct")
  /\ bodyRuns' = bodyRuns + 1
  /\ UNCHANGED <<schedule, phase, at, sub, even>>

\* The body runs when `due`, and the phase advances on every tick.
Downsample(due, next) ==
  /\ phase' = next
  /\ bodyRuns' = IF due THEN bodyRuns + 1 ELSE bodyRuns
  /\ even' = IF due THEN 1 ELSE even + 1
  /\ UNCHANGED <<schedule, at, sub>>

WrapsLate(count) == IF count > StepD THEN 0 ELSE count
NextCount(count) == IF count >= StepD THEN 0 ELSE count

\* Every StepD-th tick, counted.
CounterTick == TickOf("counter") /\ Downsample(phase = 0, NextCount(phase + 1))

RunsOnlyAtZero == phase = 0
DueNow == phase <= 0

\* StepC runs every StepD ticks, spread by a Bresenham accumulator.
DecimateTick ==
  /\ TickOf("decimate")
  /\ Downsample(DueNow, (IF DueNow THEN phase + StepD ELSE phase) - StepC)

EnterLoop ==
  /\ at = "tick" /\ schedule.kind \in {"loop", "interpolate"}
  /\ elapsed < MaxElapsed
  /\ at' = "loop"
  /\ sub' = IF schedule.kind = "loop" THEN 0 ELSE phase
  /\ even' = 0
  /\ UNCHANGED <<schedule, phase, elapsed, bodyRuns>>

NeverAdvances == 0
Advanced == StepD

RunLoopBody ==
  /\ at = "loop" /\ sub < StepC /\ bodyRuns < MaxRuns
  /\ sub' = sub + Advanced
  /\ bodyRuns' = bodyRuns + 1 /\ even' = even + 1
  /\ UNCHANGED <<schedule, phase, at, elapsed>>

PhaseKept == sub
Remainder == sub - StepC

\* The accumulator keeps what is left of the tick; the plain loop does not.
LeaveLoop ==
  /\ at = "loop" /\ ~(sub < StepC)
  /\ at' = "tick" /\ elapsed' = elapsed + 1
  /\ phase' = IF schedule.kind = "interpolate" THEN Remainder ELSE phase
  /\ UNCHANGED <<schedule, sub, bodyRuns, even>>

PhaseSurvivesInit == phase
PhaseReset == 0

\* <Domain>_init, between ticks.
InitPhase ==
  /\ at = "tick"
  /\ phase' = PhaseReset
  /\ elapsed' = 0 /\ bodyRuns' = 0 /\ even' = 0
  /\ UNCHANGED <<schedule, at, sub>>

ScheduleNext ==
  DirectTick \/ CounterTick \/ DecimateTick \/ EnterLoop \/ RunLoopBody \/ LeaveLoop
    \/ InitPhase

\* The thread that runs the process function does not stop in a loop.
ScheduleSpec ==
  /\ ScheduleInit /\ [][ScheduleNext]_scheduleVars
  /\ WF_scheduleVars(RunLoopBody \/ LeaveLoop)

-----------------------------------------------------------------------------
(***************************************************************************)
(* Properties                                                              *)
(***************************************************************************)

Down == schedule.kind \in {"counter", "decimate"}
Up == schedule.kind \in {"loop", "interpolate"}

\* What the runs are ahead of the ticks, in units of 1/StepD tick or
\* 1/StepC run.
Ahead == bodyRuns * StepD - elapsed * StepC

ScheduleTypeOK ==
  /\ schedule \in Schedules
  /\ StepD \in Nat \ {0} /\ StepC \in Nat \ {0}
  /\ at \in {"tick", "loop"} /\ (at = "loop" => Up)
  /\ phase \in Int /\ sub \in Nat
  /\ elapsed \in Nat /\ bodyRuns \in Nat /\ even \in Nat

(* The phase is what the segment is ahead of the domain: runs in units of  *)
(* StepD against ticks in units of StepC.  A counter has no units: it      *)
(* counts the ticks since the last run (binaryexprast.cpp:989-1021,        *)
(* 1217-1220).                                                             *)
PhaseTracksTime ==
  /\ schedule.kind = "decimate" => phase = Ahead
  /\ schedule.kind = "interpolate" => IF at = "tick" THEN phase = Ahead
                                                     ELSE sub = Ahead
  /\ schedule.kind = "counter" =>
       /\ phase \in 0 .. StepD - 1
       /\ IF phase = 0 THEN elapsed = bodyRuns * StepD
          ELSE elapsed = (bodyRuns - 1) * StepD + phase

(* A segment keeps pace for ever: after any number of ticks since an init  *)
(* its runs are those its rate calls for, never one more or one less, so   *)
(* that it does not drift, a downsampled segment runs on the first tick,   *)
(* and segments of one rate run in the same ticks                          *)
(* (binaryexprast.cpp:902, doc/multirate_compilation.md:70).               *)
KeepsPace ==
  at = "tick" =>
    /\ schedule.kind = "direct" => bodyRuns = elapsed
    /\ Up => 0 <= Ahead /\ Ahead < StepD
    /\ Down => -StepC < Ahead /\ Ahead <= StepD - StepC

(* Runs are spread as evenly as whole ticks allow: the ticks between two   *)
(* runs of a downsampled body, or the runs in one tick of an upsampled     *)
(* one, are the ratio of the rates rounded up or down.                     *)
EvenlySpread ==
  [][/\ Down /\ bodyRuns > 0 /\ bodyRuns' > bodyRuns =>
          (even - 1) * StepC < StepD /\ StepD < (even + 1) * StepC
     /\ LeaveLoop =>
          (even - 1) * StepD < StepC /\ StepC < (even + 1) * StepD]_scheduleVars

(* An upsampling loop ends, whatever phase the previous tick left.         *)
LoopEnds == at = "loop" ~> at = "tick"
=============================================================================
