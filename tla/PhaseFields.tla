---------------------------- MODULE PhaseFields ----------------------------
(***************************************************************************)
(* Where the phases of a stream's rate segments are kept.  The layout of   *)
(* the domain's state must be known before code is generated, so the       *)
(* generator goes twice through a stream: a pre-scan adds a field to the   *)
(* state for each segment that needs a phase, and createStreamCode cuts    *)
(* the stream into segments again, taking the fields in order.  The two    *)
(* passes find the segments by different rules.                            *)
(*                                                                         *)
(* A stream is a chain of signals of one domain, the first of which may    *)
(* be an expression, each with its rate; functions in a chain are not      *)
(* modelled.  The state is a sequence of 32-bit words, so that a field     *)
(* read with another type than it was declared with is what the target     *)
(* makes of it (a little-endian one that aligns an i64 to two words).      *)
(***************************************************************************)
EXTENDS RateScheduleSpec, Sequences, FiniteSets

CONSTANTS
  DomainRate,  \* the domain's own rate
  Chains,      \* the streams considered: sequences of the rates of signals
  Bases,       \* words of the domain's state before the stream's fields
  WordSize,    \* bound: stands for 2^32
  MaxTicks     \* bound: domain ticks between two inits

ASSUME PhaseFieldsAssumption ==
  /\ DomainRate \in Int
  /\ \A chain \in Chains : chain \in Seq(Nat \ {0}) /\ Len(chain) >= 2
  /\ Bases \subseteq Nat
  /\ WordSize \in Nat \ {0} /\ WordSize % 2 = 0
  /\ MaxTicks \in Nat

VARIABLES
  chain, base,
  stage,     \* "scan", "generate", then "run"
  node,      \* the next signal of the chain
  active,    \* activeRate of the pass, 0 when not set
  pending,   \* the pass's last expression: "none", "read" or "assigned"
  fields,    \* widths in words of the fields added by the pre-scan
  segments,  \* the segments that code was generated for: rate and field
  memory,    \* the words of the domain's state
  running,   \* the segment the process function runs next, 0 between ticks
  \* History since the domain's last init:
  ticks,     \* domain ticks done
  runs       \* times the body of each segment has run

stream == <<chain, base>>
pass == <<stage, node, active, pending>>
program == <<stream, pass, fields, segments>>
history == <<ticks, runs>>
vars == <<program, memory, running, history>>

-----------------------------------------------------------------------------
(***************************************************************************)
(* Layout                                                                  *)
(***************************************************************************)

Schedule(rate) == Build(DomainRate, rate)

\* needsPersistentPhaseState and the type of the field, in words.
Width(rate) ==
  CASE Schedule(rate).kind = "counter" -> 1
    [] Schedule(rate).kind \in {"decimate", "interpolate"} -> 2
    [] OTHER -> 0

Aligned(offset, width) == IF width = 2 THEN offset + (offset % 2) ELSE offset

Offset[f \in DOMAIN fields] ==
  Aligned(IF f = 1 THEN base ELSE Offset[f - 1] + fields[f - 1], fields[f])

\* The words the fields take; one more for an access that is too wide.
Words == base .. base + 2 * Len(fields) + 1

Signed(word) == IF 2 * word >= WordSize THEN word - WordSize ELSE word

\* A load and a store of the given width.
Load(offset, width) ==
  IF width = 1 THEN Signed(memory[offset])
  ELSE memory[offset] + WordSize * Signed(memory[offset + 1])

Store(offset, width, value) ==
  [w \in DOMAIN memory |->
     CASE w = offset -> value % WordSize
       [] w = offset + 1 /\ width = 2 -> (value \div WordSize) % WordSize
       [] OTHER -> memory[w]]

-----------------------------------------------------------------------------
Init ==
  /\ chain \in Chains /\ base \in Bases
  /\ stage = "scan" /\ node = 1 /\ active = 0 /\ pending = "none"
  /\ fields = << >> /\ segments = << >>
  /\ memory = << >> /\ running = 0
  /\ ticks = 0 /\ runs = << >>

Rate == chain[node]
RateChanges == active # 0 /\ Rate # active

Advance(expr) == node' = node + 1 /\ active' = Rate /\ pending' = expr

-----------------------------------------------------------------------------
(***************************************************************************)
(* The pre-scan                                                            *)
(***************************************************************************)

Scanning == stage = "scan" /\ node <= Len(chain)

FieldAlways == Append(fields, Width(active))
WithField ==
  IF pending = "none" \/ Width(active) = 0 THEN fields
  ELSE Append(fields, Width(active))

ScanSame ==
  /\ Scanning /\ ~RateChanges
  /\ Advance("read")
  /\ UNCHANGED <<stream, stage, fields, segments, memory, running, history>>

ScanChange ==
  /\ Scanning /\ RateChanges
  /\ fields' = WithField
  /\ Advance("read")
  /\ UNCHANGED <<stream, stage, segments, memory, running, history>>

NoLastFlush == fields
LastFlush == WithField

\* The state's layout is fixed, and createStreamCode starts over.
ScanEnd ==
  /\ stage = "scan" /\ node > Len(chain)
  /\ fields' = LastFlush
  /\ stage' = "generate" /\ node' = 1 /\ active' = 0 /\ pending' = "none"
  /\ UNCHANGED <<stream, segments, memory, running, history>>

-----------------------------------------------------------------------------
(***************************************************************************)
(* createStreamCode and flushRateSegment                                   *)
(***************************************************************************)

Generating == stage = "generate" /\ node <= Len(chain)

FieldsTaken == Cardinality({s \in DOMAIN segments : Width(segments[s].rate) > 0})

AlwaysFirst == 1
NextField == FieldsTaken + 1

\* Field 0: the segment needs none, or none is left and it runs every tick.
FieldFor(rate) ==
  IF Width(rate) > 0 /\ NextField <= Len(fields) THEN NextField ELSE 0

WithSegment == Append(segments, [rate |-> active, field |-> FieldFor(active)])

\* The first node has nothing before it to be assigned from.
GenerateRead ==
  /\ Generating /\ pending = "none"
  /\ Advance("read")
  /\ UNCHANGED <<stream, stage, fields, segments, memory, running, history>>

Completed == pending = "assigned"

\* The same rate, or a change before any assignment, which flushes nothing.
GenerateAssign ==
  /\ Generating /\ pending # "none"
  /\ ~(RateChanges /\ Completed)
  /\ Advance("assigned")
  /\ UNCHANGED <<stream, stage, fields, segments, memory, running, history>>

\* A change after an assignment: what was assigned is read in a new segment.
GenerateFlush ==
  /\ Generating /\ RateChanges /\ Completed
  /\ segments' = WithSegment
  /\ Advance("assigned")
  /\ UNCHANGED <<stream, stage, fields, memory, running, history>>

\* The last segment is flushed; the program runs in a zeroed state.
GenerateEnd ==
  /\ stage = "generate" /\ node > Len(chain)
  /\ segments' = WithSegment
  /\ stage' = "run"
  /\ memory' = [w \in Words |-> 0]
  /\ runs' = [s \in DOMAIN segments' |-> 0]
  /\ UNCHANGED <<stream, node, active, pending, fields, running, ticks>>

-----------------------------------------------------------------------------
(***************************************************************************)
(* The process function and <Domain>_init                                  *)
(***************************************************************************)

Tick ==
  /\ stage = "run" /\ running = 0 /\ ticks < MaxTicks
  /\ running' = 1
  /\ UNCHANGED <<program, memory, history>>

Segment == segments[running]
D == Schedule(Segment.rate).stepD
C == Schedule(Segment.rate).stepC

\* A segment whose field is missing runs directly.
Kind ==
  IF Width(Segment.rate) > 0 /\ Segment.field = 0
  THEN "direct" ELSE Schedule(Segment.rate).kind

Runs(kind) == running > 0 /\ Kind = kind

Ran(times) ==
  /\ runs' = [runs EXCEPT ![running] = @ + times]
  /\ running' = IF running = Len(segments) THEN 0 ELSE running + 1
  /\ ticks' = IF running = Len(segments) THEN ticks + 1 ELSE ticks
  /\ UNCHANGED program

Phase(s) == Load(Offset[segments[s].field], Width(segments[s].rate))
SetPhase(value) ==
  memory' = Store(Offset[Segment.field], Width(Segment.rate), value)

RunDirect == Runs("direct") /\ Ran(1) /\ UNCHANGED memory
RunLoop == Runs("loop") /\ Ran(C) /\ UNCHANGED memory

RunCounter ==
  /\ Runs("counter")
  /\ LET next == Phase(running) + 1 IN SetPhase(IF next >= D THEN 0 ELSE next)
  /\ Ran(IF Phase(running) = 0 THEN 1 ELSE 0)

RunDecimate ==
  /\ Runs("decimate")
  /\ LET due == Phase(running) <= 0 IN
       /\ SetPhase((IF due THEN Phase(running) + D ELSE Phase(running)) - C)
       /\ Ran(IF due THEN 1 ELSE 0)

\* The runs of the loop, from the phase it starts with to one not below C.
RunInterpolate ==
  /\ Runs("interpolate")
  /\ LET times == IF Phase(running) < C
                  THEN (C - Phase(running) + D - 1) \div D ELSE 0
     IN  SetPhase(Phase(running) + times * D - C) /\ Ran(times)

LowWordsReset == {Offset[f] : f \in DOMAIN fields}
WordsReset ==
  UNION {Offset[f] .. Offset[f] + fields[f] - 1 : f \in DOMAIN fields}

\* Each field is reset as the type it was declared with.
DomainInit ==
  /\ stage = "run" /\ running = 0
  /\ memory' = [w \in Words |-> IF w \in WordsReset THEN 0 ELSE memory[w]]
  /\ ticks' = 0 /\ runs' = [s \in DOMAIN segments |-> 0]
  /\ UNCHANGED <<program, running>>

Next ==
  \/ ScanSame \/ ScanChange \/ ScanEnd
  \/ GenerateRead \/ GenerateAssign \/ GenerateFlush \/ GenerateEnd
  \/ Tick \/ DomainInit
  \/ RunDirect \/ RunLoop \/ RunCounter \/ RunDecimate \/ RunInterpolate

Spec == Init /\ [][Next]_vars

-----------------------------------------------------------------------------
(***************************************************************************)
(* Properties                                                              *)
(***************************************************************************)

ProgramTypeOK ==
  /\ chain \in Chains
  /\ stage \in {"scan", "generate", "run"}
  /\ node \in 1 .. Len(chain) + 1 /\ active \in Nat
  /\ pending \in {"none", "read", "assigned"}
  /\ fields \in Seq({1, 2})
  /\ segments \in Seq([rate : Nat \ {0}, field : 0 .. Len(fields)])

TypeOK ==
  /\ ProgramTypeOK
  /\ base \in Bases
  /\ memory \in [DOMAIN memory -> 0 .. WordSize - 1]
  /\ running \in 0 .. Len(segments)
  /\ ticks \in 0 .. MaxTicks /\ runs \in Seq(Nat)

Running == stage = "run"
NeedsField(s) == Width(segments[s].rate) > 0

(* However the chain changes its rate, the code never cuts it into more    *)
(* segments with a phase than the pre-scan added fields for: no segment    *)
(* falls back to running on every tick, and no two share a field           *)
(* (stridegenerator.cpp:2211-2227).                                        *)
EverySegmentHasItsField ==
  Running =>
    \A s \in DOMAIN segments : NeedsField(s) =>
      /\ segments[s].field \in DOMAIN fields
      /\ \A t \in DOMAIN segments \ {s} : segments[t].field # segments[s].field

\* createStreamCode cuts off no first signal that the pre-scan did cut off.
CutAlike == Width(chain[1]) = 0 \/ chain[1] = chain[2]

Fits(s) ==
  NeedsField(s) => /\ segments[s].field \in DOMAIN fields
                   /\ fields[segments[s].field] = Width(segments[s].rate)

(* Where the two passes cut a chain alike, each segment takes the field    *)
(* the pre-scan declared for it and none is left over                      *)
(* (stridegenerator.cpp:1330-1352, 2211-2221).                             *)
FieldsFit ==
  Running /\ CutAlike =>
    /\ \A s \in DOMAIN segments : Fits(s)
    /\ FieldsTaken = Len(fields)

\* On the first tick and then as the rate allows, or all a tick calls for.
Due(s) ==
  LET schedule == Schedule(segments[s].rate)
      begun == IF s < running THEN ticks + 1 ELSE ticks
  IN  IF schedule.stepC <= schedule.stepD
      THEN ((begun - 1) * schedule.stepC) \div schedule.stepD + 1
      ELSE (begun * schedule.stepC + schedule.stepD - 1) \div schedule.stepD

(* Segments that keep their phases in one state do not disturb one         *)
(* another: after any inits, each has run as often as its rate calls for   *)
(* since the last (binaryexprast.cpp:982-1022, stridegenerator.cpp:456).   *)
SegmentsKeepPace ==
  Running /\ (\A s \in DOMAIN segments : Fits(s)) =>
    \A s \in DOMAIN segments : runs[s] = Due(s)

(* After <Domain>_init, every segment starts from phase 0                  *)
(* (doc/multirate_compilation.md:80, stridegenerator.cpp:456-474).         *)
InitResetsPhases ==
  Running /\ running = 0 /\ ticks = 0 =>
    \A s \in DOMAIN segments : segments[s].field > 0 => Phase(s) = 0
=============================================================================
