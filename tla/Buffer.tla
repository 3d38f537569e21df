------------------------------- MODULE Buffer -------------------------------
(***************************************************************************)
(* The code StrideJIT generates for one buffer of a domain: the push of a  *)
(* sample (BufferPushExprAST), the frame view (BufferViewExprAST) that     *)
(* triggered reactions and frame copies read, the end of the domain's      *)
(* process function, which turns `ready` off, and the domain's init, which *)
(* restarts the buffer.  All of it runs on the thread that calls the       *)
(* domain's functions, one after the other.                                *)
(*                                                                         *)
(* The n-th sample ever pushed has the value n; 0 is storage never written *)
(* to.  A program is the kind of the buffer's `trigger` block and the      *)
(* sequence of the steps the domain's streams take in one tick, in source  *)
(* order:                                                                  *)
(*   "write"  a stream writes the switch the buffer has as `trigger`       *)
(*   "push"   X >> Buf                                                     *)
(*   "react"  Buf.ready >> Reaction(buffer: Buf), run only when ready      *)
(*   "peek"   Buf.frame >> Sink, run every tick                            *)
(***************************************************************************)
EXTENDS Integers, Sequences, BufferLayout

CONSTANTS
  Capacity, FrameSize, Hop,  \* a resolved layout (see BufferSpec)
  Programs,                  \* the programs considered
  MaxSamples                 \* bound: samples pushed in a behaviour

ASSUME SizesAssumption ==
  /\ Capacity \in Nat /\ FrameSize \in Nat /\ Hop \in Nat
  /\ SizesOrdered(Capacity, FrameSize, Hop)

ASSUME ProgramsAssumption ==
  /\ Programs \subseteq [block : {"none", "switch", "trigger"},
                          steps : Seq({"write", "push", "react", "peek"})]
  /\ MaxSamples \in Nat

VARIABLES
  program, pc,  \* the domain's streams, and the next one to run
  storage,      \* <B>
  index,        \* <B>_index, where the next sample goes
  count,        \* <B>_count, samples held
  since,        \* <B>_since, samples since `ready` or a restart
  ready,        \* <B>_ready, a trigger
  flush,        \* <B>_flush, empty the buffer at the next push
  trigger,      \* the switch named by `trigger`
  frame,        \* what the last reader of the view got
  \* History of the execution, which the code does not keep:
  total,        \* samples pushed
  base,         \* samples pushed when the buffer last emptied
  owed          \* reactions are owed every sample after this one

code == <<storage, index, count, since, ready, flush, trigger>>
ghost == <<total, base, owed>>
vars == <<program, pc, code, frame, ghost>>

IsMirrored == Mirrored(Capacity, FrameSize, Hop)
StorageNotDoubled == Capacity
StorageSize == IF IsMirrored THEN 2 * Capacity ELSE Capacity
HasTrigger == program.block # "none"

\* A declared default of either value, or none at all.
TriggerDefaults == IF HasTrigger THEN BOOLEAN ELSE {FALSE}

Init ==
  /\ program \in Programs /\ pc = 1
  /\ storage = [slot \in 0 .. StorageSize - 1 |-> 0]
  /\ index = 0 /\ count = 0 /\ since = 0
  /\ ready = FALSE /\ flush = FALSE /\ trigger \in TriggerDefaults
  /\ frame = [i \in {} |-> 0]
  /\ total = 0 /\ base = 0 /\ owed = 0

-----------------------------------------------------------------------------
(***************************************************************************)
(* The frame view                                                          *)
(***************************************************************************)

ViewLength == IF count < FrameSize THEN count ELSE FrameSize

\* Mutants.
StartNotWrapped == (index \div Hop) * Hop + (Capacity - FrameSize)
BlockNotComplete == (index \div Hop) * Hop

BlockEnd == (index \div Hop) * Hop

BlockStart ==
  LET start == BlockEnd + (Capacity - FrameSize)
  IN IF start >= Capacity THEN start - Capacity ELSE start

ViewStart ==
  IF IsMirrored THEN index + Capacity - ViewLength
  ELSE IF count < FrameSize THEN 0
  ELSE BlockStart

\* The valid elements; the reader's port spans FrameSize elements.
View == [i \in 0 .. ViewLength - 1 |-> storage[ViewStart + i]]

-----------------------------------------------------------------------------
(***************************************************************************)
(* One tick of the domain's process function                               *)
(***************************************************************************)

Step(kind) == pc <= Len(program.steps) /\ program.steps[pc] = kind /\ pc' = pc + 1

\* A stream writes the trigger switch.
WriteTrigger ==
  /\ Step("write") /\ HasTrigger
  /\ trigger' \in BOOLEAN
  /\ UNCHANGED <<program, storage, index, count, since, ready, flush, frame, ghost>>

\* Mutants, named for the mistake.
MirrorNotWritten(at) == {at}
CountNotReset == count
WrapOneLate(next) == IF next > Capacity THEN 0 ELSE next

\* The slots a sample is stored to: its own and its mirror.
Slots(at) == IF IsMirrored THEN {at, at + Capacity} ELSE {at}

\* A pending flush restarts the ring and the counters.
At == IF flush THEN 0 ELSE index
Held == IF flush THEN 0 ELSE count
Waited == (IF flush THEN 0 ELSE since) + 1

Wrap(next) == IF next = Capacity THEN 0 ELSE next
Held1 == IF Held + 1 > Capacity THEN Capacity ELSE Held + 1
Flushes == HasTrigger /\ trigger
WaitsForFullRing == (Held1 >= Capacity /\ Waited >= Hop) \/ Flushes
HopOffByOne == (Held1 >= FrameSize /\ Waited > Hop) \/ Flushes
Fires == (Held1 >= FrameSize /\ Waited >= Hop) \/ Flushes

Push ==
  /\ Step("push") /\ total < MaxSamples
  /\ storage' = [slot \in DOMAIN storage |->
                   IF slot \in Slots(At) THEN total + 1 ELSE storage[slot]]
  /\ index' = Wrap(At + 1)
  /\ count' = Held1
  /\ since' = IF Fires THEN 0 ELSE Waited
  /\ ready' = (ready \/ Fires)
  /\ flush' = Flushes
  /\ total' = total + 1
  /\ base' = IF flush THEN total ELSE base
  /\ UNCHANGED <<program, trigger, frame, owed>>

ReadView ==
  /\ frame' = View
  /\ UNCHANGED <<program, code, total, base>>

\* A reaction that has read the frame is owed what comes after it.
React ==
  /\ Step("react") /\ ready
  /\ ReadView
  /\ owed' = View[ViewLength - 1]

SkipReaction ==
  /\ Step("react") /\ ~ready
  /\ UNCHANGED <<program, code, frame, ghost>>

Peek ==
  /\ Step("peek")
  /\ ReadView
  /\ UNCHANGED owed

\* `ready` and the domain's triggers are momentary.
EndTick ==
  /\ pc > Len(program.steps) /\ pc' = 1
  /\ ready' = FALSE
  /\ trigger' = (trigger /\ program.block # "trigger")
  /\ UNCHANGED <<program, storage, index, count, since, flush, frame, ghost>>

\* The host calls <Domain>_init between ticks.  Stored samples stay.
DomainInit ==
  /\ pc = 1
  /\ index' = 0 /\ count' = 0 /\ since' = 0
  /\ ready' = FALSE /\ flush' = FALSE /\ trigger' \in TriggerDefaults
  /\ base' = total /\ owed' = total
  /\ UNCHANGED <<program, pc, storage, frame, total>>

Next ==
  WriteTrigger \/ Push \/ React \/ SkipReaction \/ Peek \/ EndTick \/ DomainInit

Spec == Init /\ [][Next]_vars

-----------------------------------------------------------------------------
(***************************************************************************)
(* Properties                                                              *)
(***************************************************************************)

TypeOK ==
  /\ program \in Programs /\ pc \in 1 .. Len(program.steps) + 1
  /\ storage \in [0 .. StorageSize - 1 -> 0 .. total]
  /\ index \in 0 .. Capacity - 1 /\ count \in 0 .. Capacity
  /\ since \in 0 .. FrameSize
  /\ ready \in BOOLEAN /\ flush \in BOOLEAN /\ trigger \in BOOLEAN
  /\ total \in 0 .. MaxSamples /\ base \in 0 .. total /\ owed \in 0 .. total

\* Where the k-th newest sample is stored (0 is the newest).
SlotOf(k) == IF index - 1 - k >= 0 THEN index - 1 - k ELSE index - 1 - k + Capacity

Fresh == total - base

(* The ring holds what the counters say: `count` is the samples since the  *)
(* buffer last emptied up to the capacity, a ring that has not wrapped is  *)
(* filled from 0, every held sample is in its slot and in its mirror,      *)
(* `since` cannot outgrow the frame, and a frame that is ready holds some  *)
(* sample (binaryexprast.cpp:1382-1436).                                   *)
RingConsistent ==
  /\ count = IF Fresh < Capacity THEN Fresh ELSE Capacity
  /\ Fresh < Capacity => index = Fresh
  /\ \A k \in 0 .. count - 1 :
       /\ storage[SlotOf(k)] = total - k
       /\ IsMirrored => storage[SlotOf(k) + Capacity] = total - k
  /\ since <= count
  /\ count >= FrameSize => since < FrameSize
  /\ ready => count > 0

(* Whatever is pushed, flushed or restarted, the FrameSize elements that a *)
(* reader's port spans lie inside the buffer's storage                     *)
(* (binaryexprast.cpp:1467-1487, doc/buffers_and_frequency_domain.md:272). *)
ViewInBounds == ViewStart >= 0 /\ ViewStart + FrameSize <= StorageSize

(* The view is in order on every tick: its elements are consecutive        *)
(* samples, oldest first (doc/buffers_and_frequency_domain.md:272).  True  *)
(* of mirrored rings and of rings of several blocks; a ring of one block   *)
(* is read while the next frame is written over it                         *)
(* (binaryexprast.cpp:1473-1482), and breaks it.                           *)
ViewInOrder == \A i \in 1 .. ViewLength - 1 : View[i] = View[i - 1] + 1

(* A frame view only covers samples pushed since the buffer restarted,     *)
(* although init leaves the old ones in place (stridegenerator.cpp:431).   *)
ViewCoversFreshSamples == \A i \in 0 .. ViewLength - 1 : View[i] > base

(* A mirrored buffer always shows the newest samples, up to a frame of     *)
(* them, contiguous and oldest first (binaryexprast.cpp:1444).             *)
ViewIsNewest ==
  IsMirrored =>
    View = [i \in 0 .. ViewLength - 1 |-> total - ViewLength + 1 + i]

(* Built-in triggers keep their period: the first full frame fires, then   *)
(* every Hop samples, so the samples since the last one are those past the *)
(* last multiple of the hop (binaryexprast.cpp:1412-1432).                 *)
BuiltinCadence ==
  ~HasTrigger /\ Fresh >= FrameSize =>
    since = (Fresh - FrameSize) % Hop

\* A flush of a ring of blocks drops the samples after the last complete one.
DropsPartialBlock == HasTrigger /\ ~IsMirrored
IsOnlyPush(p) ==
  \A i \in DOMAIN program.steps : program.steps[i] = "push" <=> i = p
OnePushPerTick == \E p \in DOMAIN program.steps : IsOnlyPush(p)

(* No sample falls between two frames: a reaction that runs whenever the   *)
(* buffer is ready sees every sample pushed since the last restart, since  *)
(* frames are at least as long as the hop (bufferspec.cpp:180) and a flush *)
(* delivers what it empties.                                               *)
NoSampleSkipped ==
  [][React /\ OnePushPerTick /\ ~DropsPartialBlock => View[0] <= owed + 1]_vars

(* A mirrored ring, or one of several blocks, implements with its counters *)
(* the abstract source of frames: whatever a reader gets is the frame that *)
(* the pushes, flushes and restarts call for.                              *)
Source == INSTANCE FrameSource WITH
  first <- base, last <- total, fired <- total - since, pending <- flush,
  Blocks <- ~IsMirrored

ImplementsFrameSource == Source!Spec
=============================================================================
