------------------------ MODULE RateSchedule_proofs ------------------------
(***************************************************************************)
(* Proofs about RateSchedule, for every set of rates.  The invariant pins  *)
(* the phase between two bounds: the schedule's arithmetic is exact, so    *)
(* the distance between runs and ticks cannot grow.                        *)
(***************************************************************************)
EXTENDS RateSchedule, IntegerSets, TLAPS

(* Two positive rates have a greatest common divisor.                      *)
LEMMA GcdDivides ==
  ASSUME NEW a \in Nat \ {0}, NEW b \in Nat \ {0}
  PROVE  Gcd(a, b) \in Nat \ {0} /\ a % Gcd(a, b) = 0 /\ b % Gcd(a, b) = 0
<1>1. \E g \in CommonDivisors(a, b) : \A h \in CommonDivisors(a, b) : h <= g
  BY CommonDivisor DEF CommonDivisors
<1>2. Gcd(a, b) \in CommonDivisors(a, b)
  BY <1>1 DEF Gcd
<1> QED
  BY <1>2 DEF CommonDivisors

(***************************************************************************)
(* The schedules build can produce                                         *)
(***************************************************************************)

ScheduleRules(s) ==
  /\ s.kind \in {"direct", "counter", "loop", "decimate", "interpolate"}
  /\ s.stepD \in Nat \ {0} /\ s.stepC \in Nat \ {0}
  /\ s.kind = "direct" => s.stepD = 1 /\ s.stepC = 1
  /\ s.kind = "counter" => s.stepD > 1 /\ s.stepC = 1
  /\ s.kind = "loop" => s.stepD = 1
  /\ s.kind = "decimate" => s.stepC < s.stepD

(* A counter counts to more than one, and a decimated segment owes fewer   *)
(* runs than there are ticks.                                              *)
LEMMA ScheduleIsSound == \A s \in Schedules : ScheduleRules(s)
<1> SUFFICES ASSUME NEW domain \in Int, NEW chain \in Int
             PROVE  ScheduleRules(Build(domain, chain))
  BY RatesAssumption DEF Schedules
<1>1. CASE RunsEveryTick(domain, chain)
  <2>1. Build(domain, chain) = [kind |-> "direct", stepD |-> 1, stepC |-> 1]
    BY <1>1 DEF Build
  <2> QED
    BY <2>1 DEF ScheduleRules
<1>2. CASE ~RunsEveryTick(domain, chain)
  <2>0. domain \in Nat \ {0} /\ chain \in Nat \ {0} /\ domain # chain
    BY <1>2 DEF RunsEveryTick
  <2>1. CASE domain % chain = 0
    <3>1. Build(domain, chain) = [kind |-> "counter", stepD |-> domain \div chain, stepC |-> 1]
      BY <1>2, <2>1 DEF Build
    <3>2. domain \div chain \in Nat \ {0} /\ domain = chain * (domain \div chain)
      BY <2>0, <2>1, Quotient
    <3>3. domain \div chain # 1
      BY <2>0, <3>2
    <3> HIDE DEF Build
    <3>4. domain \div chain > 1
      BY <3>2, <3>3
    <3> QED
      BY <3>1, <3>2, <3>4 DEF ScheduleRules
  <2>2. CASE domain % chain # 0 /\ chain % domain = 0
    <3>1. Build(domain, chain) = [kind |-> "loop", stepD |-> 1, stepC |-> chain \div domain]
      BY <1>2, <2>2 DEF Build
    <3>2. chain \div domain \in Nat \ {0}
      BY <2>0, <2>2, Quotient
    <3> QED
      BY <3>1, <3>2 DEF ScheduleRules
  <2>3. CASE domain % chain # 0 /\ chain % domain # 0
    <3> DEFINE g == Gcd(domain, chain)
    <3>1. Build(domain, chain) =
            [kind  |-> IF chain < domain THEN "decimate" ELSE "interpolate",
             stepD |-> domain \div g, stepC |-> chain \div g]
      BY <1>2, <2>3 DEF Build
    <3>2. g \in Nat \ {0} /\ domain % g = 0 /\ chain % g = 0
      BY <2>0, GcdDivides
    <3> HIDE DEF g
    <3>3. domain \div g \in Nat \ {0} /\ chain \div g \in Nat \ {0}
      BY <2>0, <3>2, Quotient
    <3>4. chain < domain => chain \div g < domain \div g
      BY <2>0, <3>2, QuotientsInOrder
    <3> QED
      BY <3>1, <3>3, <3>4 DEF ScheduleRules
  <2> QED
    BY <2>1, <2>2, <2>3
<1> QED
  BY <1>1, <1>2

(***************************************************************************)
(* The invariant                                                           *)
(***************************************************************************)

\* How far the phase or the loop counter is from the last run of a segment
\* that is run less often, and from the start of an upsampled tick.
Spacing ==
  /\ schedule.kind = "counter" /\ bodyRuns > 0 => even = IF phase = 0 THEN StepD ELSE phase
  /\ schedule.kind = "decimate" /\ bodyRuns > 0 =>
       StepD - StepC - even * StepC < phase /\ phase <= StepD - even * StepC
  /\ Down /\ bodyRuns = 0 => elapsed = 0
  /\ at = "loop" => 0 <= sub - even * StepD /\ sub - even * StepD < StepD /\ sub < StepC + StepD
  /\ at = "loop" => sub = Ahead

IInv == ScheduleTypeOK /\ PhaseTracksTime /\ KeepsPace /\ Spacing

(* Every segment starts level with its domain.                             *)
LEMMA InitInv == ScheduleInit => IInv
<1> SUFFICES ASSUME ScheduleInit PROVE IInv
  OBVIOUS
<1>1. ScheduleRules(schedule)
  BY ScheduleIsSound DEF ScheduleInit
<1>2. ScheduleTypeOK
  BY <1>1 DEF ScheduleInit, ScheduleTypeOK, ScheduleRules, StepD, StepC
<1>3. Ahead = 0
  BY <1>2 DEF ScheduleInit, Ahead, ScheduleTypeOK
<1>4. PhaseTracksTime
  BY <1>1, <1>2, <1>3 DEF ScheduleInit, PhaseTracksTime, ScheduleTypeOK, StepD, StepC
<1>5. KeepsPace
  BY <1>1, <1>2, <1>3 DEF ScheduleInit, KeepsPace, ScheduleTypeOK, Up, Down, ScheduleRules, StepD, StepC
<1>6. Spacing
  BY <1>2 DEF ScheduleInit, Spacing, Down
<1> QED
  BY <1>2, <1>4, <1>5, <1>6 DEF IInv

(* Each action keeps a segment within one step of its domain.              *)
LEMMA NextInv == IInv /\ [ScheduleNext]_scheduleVars => IInv'
<1> SUFFICES ASSUME IInv, [ScheduleNext]_scheduleVars PROVE IInv'
  OBVIOUS
<1>0. /\ ScheduleRules(schedule) /\ ScheduleTypeOK
      /\ StepD \in Nat \ {0} /\ StepC \in Nat \ {0} /\ Ahead \in Int
  BY ScheduleIsSound DEF IInv, ScheduleTypeOK, Ahead
<1> USE DEF IInv
<1>1. CASE DirectTick
  <2>1. /\ UNCHANGED <<schedule, phase, at, sub, even>> /\ StepD' = StepD /\ StepC' = StepC
        /\ bodyRuns' = bodyRuns + 1 /\ elapsed' = elapsed + 1 /\ schedule.kind = "direct" /\ at = "tick"
    BY <1>1 DEF DirectTick, TickOf, StepD, StepC
  <2>2. ScheduleTypeOK'
    BY <1>0, <2>1 DEF ScheduleTypeOK, Up
  <2>3. PhaseTracksTime' /\ Spacing'
    BY <2>1 DEF PhaseTracksTime, Spacing, Down
  <2>4. KeepsPace'
    BY <2>1 DEF KeepsPace, Up, Down
  <2> QED
    BY <2>2, <2>3, <2>4
<1>2. CASE CounterTick
  <2>1. /\ UNCHANGED <<schedule, at, sub>> /\ StepD' = StepD /\ StepC' = StepC /\ StepC = 1 /\ StepD > 1
        /\ elapsed' = elapsed + 1 /\ schedule.kind = "counter" /\ at = "tick"
        /\ phase' = (IF phase + 1 >= StepD THEN 0 ELSE phase + 1)
        /\ bodyRuns' = IF phase = 0 THEN bodyRuns + 1 ELSE bodyRuns
        /\ even' = IF phase = 0 THEN 1 ELSE even + 1
    BY <1>0, <1>2 DEF CounterTick, TickOf, Downsample, NextCount, ScheduleRules, StepD, StepC
  <2>2. phase \in 0 .. StepD - 1 /\ elapsed \in Nat /\ bodyRuns \in Nat /\ even \in Nat
        /\ IF phase = 0 THEN elapsed = bodyRuns * StepD ELSE elapsed = (bodyRuns - 1) * StepD + phase
    BY <2>1 DEF PhaseTracksTime, ScheduleTypeOK
  <2>3. (bodyRuns + 1) * StepD = bodyRuns * StepD + StepD /\ (bodyRuns - 1) * StepD = bodyRuns * StepD - StepD /\ bodyRuns * StepD \in Int
        /\ (bodyRuns + 1) - 1 = bodyRuns
    BY <1>0, <2>2, OneMore
  <2>4. ScheduleTypeOK'
    BY <1>0, <2>1, <2>2 DEF ScheduleTypeOK, Up
  <2>5. /\ phase' \in 0 .. StepD - 1
        /\ IF phase' = 0 THEN elapsed' = bodyRuns' * StepD ELSE elapsed' = (bodyRuns' - 1) * StepD + phase'
    <3>1. CASE phase = 0
      BY <1>0, <2>1, <2>2, <2>3, <3>1
    <3>2. CASE phase # 0
      BY <1>0, <2>1, <2>2, <2>3, <3>2
    <3> QED
      BY <3>1, <3>2
  <2>6. PhaseTracksTime'
    BY <2>1, <2>5 DEF PhaseTracksTime
  <2>7. Ahead' = bodyRuns' * StepD - elapsed'
    BY <2>1, <2>4 DEF Ahead, ScheduleTypeOK
  <2>8. Ahead' \in Nat /\ Ahead' <= StepD - 1
    <3>1. bodyRuns' \in Nat /\ (bodyRuns' - 1) * StepD = bodyRuns' * StepD - StepD /\ bodyRuns' * StepD \in Int
      BY <1>0, <2>4, OneMore DEF ScheduleTypeOK
    <3>2. CASE phase' = 0
      <4>1. elapsed' = bodyRuns' * StepD
        BY <2>5, <3>2
      <4>2. Ahead' = 0
        BY <2>7, <3>1, <4>1
      <4> QED
        BY <1>0, <4>2
    <3>3. CASE phase' # 0
      <4>1. elapsed' = bodyRuns' * StepD - StepD + phase'
        BY <2>5, <3>1, <3>3
      <4>2. Ahead' = StepD - phase'
        BY <1>0, <2>5, <2>7, <3>1, <4>1
      <4>3. phase' \in 1 .. StepD - 1
        BY <1>0, <2>5, <3>3
      <4>4. \A q \in 1 .. StepD - 1 : StepD - q \in Nat /\ StepD - q <= StepD - 1
        BY <1>0
      <4> QED
        BY <4>2, <4>3, <4>4
    <3> QED
      BY <3>2, <3>3
  <2>9. KeepsPace'
    BY <1>0, <2>1, <2>8 DEF KeepsPace, Up, Down
  <2>10. Spacing'
    <3>1. bodyRuns > 0 => even = IF phase = 0 THEN StepD ELSE phase
      BY <2>1 DEF Spacing
    <3>2. bodyRuns = 0 => elapsed = 0 /\ phase = 0
      <4>1. ASSUME bodyRuns = 0 PROVE phase = 0
        BY <2>2, <2>3, <4>1, <1>0
      <4> QED
        BY <2>1, <4>1 DEF Spacing, Down
    <3>3. bodyRuns' > 0
      BY <2>1, <2>2, <3>2
    <3>4. even' = IF phase' = 0 THEN StepD ELSE phase'
      BY <1>0, <2>1, <2>2, <3>1, <3>2
    <3> QED
      BY <2>1, <2>4, <3>3, <3>4 DEF Spacing, Down, ScheduleTypeOK
  <2> QED
    BY <2>4, <2>6, <2>9, <2>10
<1>3. CASE DecimateTick
  <2>1. /\ UNCHANGED <<schedule, at, sub>> /\ StepD' = StepD /\ StepC' = StepC /\ StepC < StepD
        /\ elapsed' = elapsed + 1 /\ schedule.kind = "decimate" /\ at = "tick"
        /\ phase' = (IF phase <= 0 THEN phase + StepD ELSE phase) - StepC
        /\ bodyRuns' = IF phase <= 0 THEN bodyRuns + 1 ELSE bodyRuns
        /\ even' = IF phase <= 0 THEN 1 ELSE even + 1
    BY <1>0, <1>3 DEF DecimateTick, TickOf, Downsample, DueNow, ScheduleRules, StepD, StepC
  <2>2. /\ elapsed \in Nat /\ bodyRuns \in Nat /\ even \in Nat /\ phase \in Int
        /\ phase = Ahead /\ -StepC < phase /\ phase <= StepD - StepC
    BY <2>1 DEF PhaseTracksTime, ScheduleTypeOK, KeepsPace, Down
  <2>3. /\ (bodyRuns + 1) * StepD = bodyRuns * StepD + StepD /\ bodyRuns * StepD \in Int
        /\ (elapsed + 1) * StepC = elapsed * StepC + StepC /\ elapsed * StepC \in Int
        /\ (even + 1) * StepC = even * StepC + StepC /\ even * StepC \in Int
    BY <1>0, <2>2, OneMore
  <2>4. ScheduleTypeOK'
    BY <1>0, <2>1, <2>2 DEF ScheduleTypeOK, Up
  <2>5. Ahead' = bodyRuns' * StepD - elapsed' * StepC
    BY <2>1 DEF Ahead
  <2>6. phase' = Ahead'
    BY <1>0, <2>1, <2>2, <2>3, <2>5 DEF Ahead
  <2>7. PhaseTracksTime'
    BY <2>1, <2>6 DEF PhaseTracksTime
  <2>8. -StepC < phase' /\ phase' <= StepD - StepC
    BY <1>0, <2>1, <2>2
  <2>9. KeepsPace'
    BY <2>1, <2>6, <2>8 DEF KeepsPace, Up, Down
  <2>10. Spacing'
    <3>1. CASE phase <= 0
      <4>1. even' * StepC = StepC /\ bodyRuns' > 0
        BY <1>0, <2>1, <2>2, <3>1
      <4>2. StepD - StepC - even' * StepC < phase' /\ phase' <= StepD - even' * StepC
        BY <1>0, <2>1, <2>2, <3>1, <4>1
      <4> QED
        BY <2>1, <4>1, <4>2 DEF Spacing, Down
    <3>2. CASE phase > 0
      <4>1. bodyRuns > 0
        <5>1. ASSUME bodyRuns = 0 PROVE FALSE
          <6>1. elapsed = 0
            BY <2>1, <5>1 DEF Spacing, Down
          <6>2. Ahead = 0
            BY <1>0, <5>1, <6>1 DEF Ahead
          <6> QED
            BY <2>2, <3>2, <6>2
        <5> QED
          BY <2>2, <5>1
      <4>2. StepD - StepC - even * StepC < phase /\ phase <= StepD - even * StepC
        BY <2>1, <4>1 DEF Spacing
      <4>3. /\ even' * StepC = even * StepC + StepC /\ phase' = phase - StepC
            /\ bodyRuns' = bodyRuns /\ bodyRuns' > 0 /\ even * StepC \in Int
        BY <1>0, <2>1, <2>2, <2>3, <3>2, <4>1
      <4>4. StepD - StepC - even' * StepC < phase' /\ phase' <= StepD - even' * StepC
        BY <1>0, <2>2, <4>2, <4>3
      <4> QED
        BY <2>1, <4>3, <4>4 DEF Spacing, Down
    <3> QED
      BY <2>2, <3>1, <3>2
  <2> QED
    BY <2>4, <2>7, <2>9, <2>10
<1>4. CASE EnterLoop
  <2>1. /\ UNCHANGED <<schedule, phase, elapsed, bodyRuns>> /\ StepD' = StepD /\ StepC' = StepC
        /\ Up /\ at = "tick" /\ at' = "loop" /\ even' = 0
        /\ sub' = IF schedule.kind = "loop" THEN 0 ELSE phase
        /\ schedule.kind = "loop" => StepD = 1
    BY <1>0, <1>4 DEF EnterLoop, Up, ScheduleRules, StepD, StepC
  <2>2. 0 <= Ahead /\ Ahead < StepD /\ Ahead' = Ahead
    BY <2>1 DEF KeepsPace, Ahead, StepD, StepC
  <2>3. sub' = Ahead
    <3>1. CASE schedule.kind = "loop"
      BY <1>0, <2>1, <2>2, <3>1
    <3>2. CASE schedule.kind = "interpolate"
      BY <2>1, <3>2 DEF PhaseTracksTime
    <3> QED
      BY <2>1, <3>1, <3>2 DEF Up
  <2>4. ScheduleTypeOK'
    BY <1>0, <2>1, <2>2, <2>3 DEF ScheduleTypeOK, Up
  <2>5. PhaseTracksTime'
    BY <2>1, <2>2, <2>3 DEF PhaseTracksTime, Up
  <2>6. KeepsPace'
    BY <2>1 DEF KeepsPace
  <2>7. Spacing'
    <3>1. even' * StepD = 0 /\ sub' = Ahead'
      BY <1>0, <2>1, <2>2, <2>3
    <3>2. 0 <= sub' - even' * StepD /\ sub' - even' * StepD < StepD /\ sub' < StepC + StepD
      BY <1>0, <2>2, <2>3, <3>1
    <3> QED
      BY <2>1, <3>1, <3>2 DEF Spacing, Up, Down
  <2> QED
    BY <2>4, <2>5, <2>6, <2>7
<1>5. CASE RunLoopBody
  <2>1. /\ UNCHANGED <<schedule, phase, elapsed, at>> /\ StepD' = StepD /\ StepC' = StepC
        /\ Up /\ at = "loop" /\ even' = even + 1 /\ bodyRuns' = bodyRuns + 1
        /\ sub < StepC /\ sub' = sub + StepD
    BY <1>0, <1>5 DEF RunLoopBody, Advanced, ScheduleTypeOK, StepD, StepC
  <2>2. /\ sub \in Nat /\ even \in Nat /\ bodyRuns \in Nat /\ sub = Ahead
        /\ 0 <= sub - even * StepD /\ sub - even * StepD < StepD
    BY <2>1 DEF ScheduleTypeOK, Spacing
  <2>3. /\ (bodyRuns + 1) * StepD = bodyRuns * StepD + StepD /\ bodyRuns * StepD \in Int
        /\ (even + 1) * StepD = even * StepD + StepD /\ even * StepD \in Int
    BY <1>0, <2>2, OneMore
  <2>4. ScheduleTypeOK'
    BY <1>0, <2>1, <2>2 DEF ScheduleTypeOK, Up
  <2>5. Ahead' = bodyRuns' * StepD - elapsed * StepC /\ elapsed * StepC \in Int
    BY <1>0, <2>1 DEF Ahead, ScheduleTypeOK
  <2>6. sub' = Ahead'
    BY <1>0, <2>1, <2>2, <2>3, <2>5 DEF Ahead
  <2>7. PhaseTracksTime'
    BY <2>1, <2>6 DEF PhaseTracksTime, Up
  <2>8. KeepsPace'
    BY <2>1 DEF KeepsPace
  <2>9. 0 <= sub' - even' * StepD /\ sub' - even' * StepD < StepD /\ sub' < StepC + StepD
    BY <1>0, <2>1, <2>2, <2>3
  <2>10. Spacing'
    BY <2>1, <2>6, <2>9 DEF Spacing, Up, Down
  <2> QED
    BY <2>4, <2>7, <2>8, <2>10
<1>6. CASE LeaveLoop
  <2>1. /\ UNCHANGED <<schedule, sub, bodyRuns, even>> /\ StepD' = StepD /\ StepC' = StepC
        /\ Up /\ at = "loop" /\ at' = "tick" /\ elapsed' = elapsed + 1 /\ ~(sub < StepC)
        /\ phase' = IF schedule.kind = "interpolate" THEN sub - StepC ELSE phase
    BY <1>0, <1>6 DEF LeaveLoop, Remainder, ScheduleTypeOK, StepD, StepC
  <2>2. sub \in Nat /\ elapsed \in Nat /\ bodyRuns \in Nat /\ sub = Ahead /\ sub < StepC + StepD
    BY <2>1 DEF ScheduleTypeOK, Spacing
  <2>3. (elapsed + 1) * StepC = elapsed * StepC + StepC /\ elapsed * StepC \in Int /\ bodyRuns * StepD \in Int
    BY <1>0, <2>2, OneMore
  <2>4. ScheduleTypeOK'
    BY <1>0, <2>1, <2>2 DEF ScheduleTypeOK, Up
  <2>5. Ahead' = bodyRuns * StepD - elapsed' * StepC
    BY <2>1 DEF Ahead
  <2>6. Ahead' = sub - StepC
    BY <1>0, <2>1, <2>2, <2>3, <2>5 DEF Ahead
  <2>7. PhaseTracksTime'
    BY <2>1, <2>6 DEF PhaseTracksTime, Up
  <2>8. KeepsPace'
    BY <1>0, <2>1, <2>2, <2>6 DEF KeepsPace, Up, Down
  <2>9. Spacing'
    BY <2>1 DEF Spacing, Up, Down
  <2> QED
    BY <2>4, <2>7, <2>8, <2>9
<1>7. CASE InitPhase
  <2>1. /\ UNCHANGED <<schedule, at, sub>> /\ StepD' = StepD /\ StepC' = StepC /\ at = "tick"
        /\ phase' = 0 /\ elapsed' = 0 /\ bodyRuns' = 0 /\ even' = 0
    BY <1>7 DEF InitPhase, PhaseReset, StepD, StepC
  <2>2. ScheduleTypeOK'
    BY <1>0, <2>1 DEF ScheduleTypeOK, Up
  <2>3. Ahead' = 0
    BY <1>0, <2>1 DEF Ahead
  <2>4. PhaseTracksTime'
    BY <1>0, <2>1, <2>3 DEF PhaseTracksTime
  <2>5. KeepsPace'
    BY <1>0, <2>1, <2>3 DEF KeepsPace, Up, Down, ScheduleRules, StepD, StepC
  <2>6. Spacing'
    BY <2>1 DEF Spacing, Down
  <2> QED
    BY <2>2, <2>4, <2>5, <2>6
<1>8. CASE UNCHANGED scheduleVars
  BY <1>8 DEF scheduleVars, ScheduleTypeOK, PhaseTracksTime, KeepsPace, Spacing, Ahead, Up, Down, StepD, StepC
<1> QED
  BY <1>1, <1>2, <1>3, <1>4, <1>5, <1>6, <1>7, <1>8 DEF ScheduleNext

LEMMA InvHolds == ScheduleSpec => []IInv
  BY InitInv, NextInv, PTL DEF ScheduleSpec

-----------------------------------------------------------------------------
(* A schedule keeps its type, whatever the rates.                          *)
THEOREM TypeCorrect == ScheduleSpec => []ScheduleTypeOK
  BY InvHolds, PTL DEF IInv

(* The phase is exactly what the segment is ahead of its domain.           *)
THEOREM PhaseIsExact == ScheduleSpec => []PhaseTracksTime
  BY InvHolds, PTL DEF IInv

(* No segment ever drifts from its domain, whatever the rates and however  *)
(* long it runs.                                                           *)
THEOREM NoDrift == ScheduleSpec => []KeepsPace
  BY InvHolds, PTL DEF IInv

(* Runs are spread evenly, whatever the rates.                             *)
THEOREM RunsAreEvenlySpread == ScheduleSpec => EvenlySpread
<1> DEFINE Even ==
      /\ Down /\ bodyRuns > 0 /\ bodyRuns' > bodyRuns => (even - 1) * StepC < StepD /\ StepD < (even + 1) * StepC
      /\ LeaveLoop => (even - 1) * StepD < StepC /\ StepC < (even + 1) * StepD
<1>1. IInv /\ [ScheduleNext]_scheduleVars => [Even]_scheduleVars
  <2> SUFFICES ASSUME IInv, ScheduleNext PROVE Even
    BY DEF scheduleVars, Even
  <2>0. /\ ScheduleRules(schedule) /\ StepD \in Nat \ {0} /\ StepC \in Nat \ {0}
        /\ bodyRuns \in Nat /\ even \in Nat /\ sub \in Nat /\ phase \in Int
    BY ScheduleIsSound DEF IInv, ScheduleTypeOK
  <2>1. /\ (even + 1) * StepC = even * StepC + StepC /\ (even - 1) * StepC = even * StepC - StepC
        /\ (even + 1) * StepD = even * StepD + StepD /\ (even - 1) * StepD = even * StepD - StepD
        /\ even * StepC \in Int /\ even * StepD \in Int
    BY <2>0, OneMore
  <2>2. ASSUME Down, bodyRuns > 0, bodyRuns' > bodyRuns PROVE (even - 1) * StepC < StepD /\ StepD < (even + 1) * StepC
    <3>1. CounterTick \/ DecimateTick
      BY <2>0, <2>2 DEF ScheduleNext, DirectTick, EnterLoop, RunLoopBody, LeaveLoop, InitPhase,
                        TickOf, Down, IInv, ScheduleTypeOK, Up
    <3>2. CASE CounterTick
      <4>1. StepC = 1 /\ phase = 0 /\ even = StepD
        BY <2>0, <2>2, <3>2 DEF CounterTick, TickOf, Downsample, IInv, Spacing, ScheduleRules, StepD, StepC
      <4> QED
        BY <2>0, <4>1
    <3>3. CASE DecimateTick
      <4>1. /\ phase <= 0 /\ -StepC < phase
            /\ StepD - StepC - even * StepC < phase /\ phase <= StepD - even * StepC
        BY <2>0, <2>2, <3>3 DEF DecimateTick, TickOf, Downsample, DueNow, IInv, Spacing,
                                KeepsPace, PhaseTracksTime, Down
      <4> QED
        BY <2>0, <2>1, <4>1
    <3> QED
      BY <3>1, <3>2, <3>3
  <2>3. ASSUME LeaveLoop PROVE (even - 1) * StepD < StepC /\ StepC < (even + 1) * StepD
    <3>1. /\ ~(sub < StepC) /\ sub < StepC + StepD
          /\ 0 <= sub - even * StepD /\ sub - even * StepD < StepD
      BY <2>3 DEF LeaveLoop, IInv, Spacing
    <3> QED
      BY <2>0, <2>1, <3>1
  <2> QED
    BY <2>2, <2>3
<1> QED
  BY <1>1, InvHolds, PTL DEF ScheduleSpec, EvenlySpread
=============================================================================
