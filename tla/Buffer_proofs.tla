--------------------------- MODULE Buffer_proofs ----------------------------
(***************************************************************************)
(* Proofs about Buffer, for every capacity, frame size, hop, trigger block *)
(* and program.  The inductive invariant is TypeOK /\ RingConsistent: the  *)
(* view is right because every sample counted is in its slot and mirror.   *)
(* Rings of blocks need the phase of the index beside it (BlockPhase), and *)
(* the reactions what was delivered to the last one (Delivery).            *)
(*                                                                         *)
(* The end of the module is about BufferSpec: the layouts it resolves are  *)
(* those that the theorems before are proved for.                          *)
(***************************************************************************)
EXTENDS Buffer, BufferSpec, TLAPS

IInv == TypeOK /\ RingConsistent

\* The sizes, as the arithmetic below uses them.
LEMMA Sizes ==
  /\ Capacity \in Nat /\ FrameSize \in Nat /\ Hop \in Nat
  /\ 0 < Hop /\ Hop <= FrameSize /\ FrameSize <= Capacity
BY SizesAssumption DEF SizesOrdered

LEMMA TriggerDefaultsAreBoolean == TriggerDefaults \subseteq BOOLEAN
BY DEF TriggerDefaults

-----------------------------------------------------------------------------
LEMMA InitIInv == Init => IInv
<1> SUFFICES ASSUME Init PROVE IInv
  OBVIOUS
<1>1. program \in Programs /\ pc \in 1 .. Len(program.steps) + 1
  BY ProgramsAssumption DEF Init
<1>2. ready \in BOOLEAN /\ flush \in BOOLEAN /\ trigger \in BOOLEAN
  BY TriggerDefaultsAreBoolean DEF Init
<1>3. storage \in [0 .. StorageSize - 1 -> 0 .. total]
  BY DEF Init
<1>4. /\ index \in 0 .. Capacity - 1 /\ count \in 0 .. Capacity
      /\ since \in 0 .. FrameSize
      /\ total \in 0 .. MaxSamples /\ base \in 0 .. total /\ owed \in 0 .. total
  BY Sizes, ProgramsAssumption DEF Init
<1>5. TypeOK
  BY <1>1, <1>2, <1>3, <1>4 DEF TypeOK
<1>6. RingConsistent
  BY Sizes DEF Init, RingConsistent, Fresh
<1> QED
  BY <1>5, <1>6 DEF IInv

\* A step of the tick program moves on to the next one.
LEMMA StepType ==
  ASSUME TypeOK, pc <= Len(program.steps), pc' = pc + 1, program' = program
  PROVE  (program \in Programs /\ pc \in 1 .. Len(program.steps) + 1)'
<1>1. Len(program.steps) \in Nat
  BY ProgramsAssumption DEF TypeOK
<1> QED
  BY <1>1 DEF TypeOK

\* A push stores the new sample in the slots it names and in no other.
LEMMA StoreEffect ==
  ASSUME NEW at \in 0 .. Capacity - 1,
         total \in Nat,
         storage \in [0 .. StorageSize - 1 -> 0 .. total],
         storage' = [slot \in DOMAIN storage |->
                       IF slot \in Slots(at) THEN total + 1 ELSE storage[slot]]
  PROVE  /\ storage' \in [0 .. StorageSize - 1 -> 0 .. total + 1]
         /\ storage'[at] = total + 1
         /\ IsMirrored => storage'[at + Capacity] = total + 1
         /\ \A s \in 0 .. Capacity - 1 : s # at =>
              /\ storage'[s] = storage[s]
              /\ IsMirrored => storage'[s + Capacity] = storage[s + Capacity]
<1>1. CASE IsMirrored
  BY <1>1, Sizes, ProgramsAssumption DEF StorageSize, Slots
<1>2. CASE ~IsMirrored
  BY <1>2, Sizes, ProgramsAssumption DEF StorageSize, Slots
<1> QED
  BY <1>1, <1>2

LEMMA PushIInv ==
  ASSUME IInv, Push
  PROVE  IInv'
<1>1. /\ TypeOK /\ RingConsistent
      /\ At \in 0 .. Capacity - 1
      /\ Held \in 0 .. Capacity /\ Waited \in 1 .. FrameSize + 1
      /\ total \in 0 .. MaxSamples /\ total < MaxSamples /\ MaxSamples \in Nat
      /\ base \in 0 .. total
  BY Sizes, ProgramsAssumption DEF IInv, TypeOK, Push, At, Held, Waited
<1>2. /\ storage' = [slot \in DOMAIN storage |->
                       IF slot \in Slots(At) THEN total + 1 ELSE storage[slot]]
      /\ index' = IF At + 1 = Capacity THEN 0 ELSE At + 1
      /\ count' = Held1
      /\ since' = IF Fires THEN 0 ELSE Waited
      /\ ready' = (ready \/ Fires)
      /\ flush' = (HasTrigger /\ trigger)
      /\ total' = total + 1
      /\ base' = IF flush THEN total ELSE base
      /\ trigger' = trigger /\ owed' = owed
  BY DEF Push, Wrap, Flushes
<1>3. /\ Fires \in BOOLEAN
      /\ ~Fires => ~(Held1 >= FrameSize /\ Waited >= Hop)
  BY DEF Fires
<1>4. Held1 = IF Held + 1 > Capacity THEN Capacity ELSE Held + 1
  BY DEF Held1
\* A counter never outgrows what the buffer holds, flush or not.
<1>5. /\ Waited - 1 <= Held
      /\ Held >= FrameSize => Waited - 1 < FrameSize
  BY <1>1, Sizes DEF RingConsistent, TypeOK, Held, Waited
<1>6. index' \in 0 .. Capacity - 1 /\ Held1 \in 1 .. Capacity
  BY <1>1, <1>2, <1>4, Sizes
<1>7. /\ storage' \in [0 .. StorageSize - 1 -> 0 .. total']
      /\ storage'[At] = total + 1
      /\ IsMirrored => storage'[At + Capacity] = total + 1
      /\ \A s \in 0 .. Capacity - 1 : s # At =>
           /\ storage'[s] = storage[s]
           /\ IsMirrored => storage'[s + Capacity] = storage[s + Capacity]
  <2>1. total \in Nat /\ storage \in [0 .. StorageSize - 1 -> 0 .. total]
    BY <1>1 DEF TypeOK
  <2> QED
    BY <1>1, <1>2, <2>1, StoreEffect
<1>8. /\ since' <= count'
      /\ count' >= FrameSize => since' < FrameSize
  <2>1. count' = Held1 /\ Held1 <= Capacity /\ Held1 > 0 /\ Held1 \in Nat
    BY <1>2, <1>6, Sizes
  <2>2. CASE Fires
    <3>1. since' = 0
      BY <1>2, <2>2, Zenon
    <3> QED
      BY <2>1, <3>1, Sizes
  \* A full frame held for a hop would have fired.
  <2>3. CASE ~Fires
    <3>1. since' = Waited
      BY <1>2, <2>3, Zenon
    <3>2. ~(Held1 >= FrameSize /\ Waited >= Hop)
      BY <1>3, <2>3
    <3>3. Held \in 0 .. Capacity /\ Waited \in 1 .. FrameSize + 1
      BY <1>1
    <3> QED
      BY <1>4, <1>5, <2>1, <3>1, <3>2, <3>3, Sizes
  <2> QED
    BY <2>2, <2>3
<1>9. TypeOK'
  <2>1. (program \in Programs /\ pc \in 1 .. Len(program.steps) + 1)'
    BY <1>1, StepType DEF Push, Step
  <2>2. (ready \in BOOLEAN /\ flush \in BOOLEAN /\ trigger \in BOOLEAN)'
    BY <1>1, <1>2, <1>3, ZenonT(30) DEF TypeOK
  <2>3. since' \in 0 .. FrameSize /\ count' \in 0 .. Capacity
    BY <1>1, <1>2, <1>3, <1>6, <1>8, Sizes
  <2>4. (total \in 0 .. MaxSamples /\ base \in 0 .. total /\ owed \in 0 .. total)'
    BY <1>1, <1>2 DEF TypeOK
  <2> QED
    BY <1>6, <1>7, <2>1, <2>2, <2>3, <2>4 DEF TypeOK, StorageSize, IsMirrored
<1>10. /\ count' = IF Fresh' < Capacity THEN Fresh' ELSE Capacity
       /\ Fresh' < Capacity => index' = Fresh'
  BY <1>1, <1>2, <1>4, Sizes DEF RingConsistent, Fresh, At, Held
<1>11. ASSUME NEW k \in 0 .. count' - 1
       PROVE  /\ storage'[SlotOf(k)'] = total' - k
              /\ IsMirrored => storage'[SlotOf(k)' + Capacity] = total' - k
  <2>1. CASE k = 0
    <3>1. SlotOf(0)' = At
      BY <1>1, <1>2, Sizes DEF SlotOf
    <3> QED
      BY <2>1, <3>1, <1>1, <1>2, <1>7
  <2>2. CASE k # 0
    <3>1. ~flush /\ k \in 1 .. Capacity - 1 /\ k - 1 \in 0 .. count - 1
      BY <2>2, <1>1, <1>2, <1>4, <1>6, Sizes DEF TypeOK, Held
    <3>2. At = index
      BY <3>1 DEF At
    <3>3. SlotOf(k)' = SlotOf(k - 1) /\ SlotOf(k - 1) # At
          /\ SlotOf(k - 1) \in 0 .. Capacity - 1
      BY <3>1, <3>2, <1>1, <1>2, Sizes DEF SlotOf
    <3>4. /\ storage[SlotOf(k - 1)] = total - (k - 1)
          /\ IsMirrored => storage[SlotOf(k - 1) + Capacity] = total - (k - 1)
      BY <3>1, <1>1 DEF RingConsistent
    <3>5. /\ storage'[SlotOf(k - 1)] = storage[SlotOf(k - 1)]
          /\ IsMirrored => storage'[SlotOf(k - 1) + Capacity]
                            = storage[SlotOf(k - 1) + Capacity]
      BY <3>3, <1>7
    <3>6. total - (k - 1) = total' - k
      BY <3>1, <1>1, <1>2
    <3> QED
      BY <3>3, <3>4, <3>5, <3>6
  <2> QED
    BY <2>1, <2>2
<1>12. count' > 0
  BY <1>2, <1>6, Sizes
<1>13. RingConsistent'
  <2>1. (\A k \in 0 .. count - 1 :
          /\ storage[SlotOf(k)] = total - k
          /\ IsMirrored => storage[SlotOf(k) + Capacity] = total - k)'
    BY <1>11 DEF IsMirrored
  <2>2. (/\ count = IF Fresh < Capacity THEN Fresh ELSE Capacity
         /\ Fresh < Capacity => index = Fresh
         /\ since <= count
         /\ count >= FrameSize => since < FrameSize
         /\ ready => count > 0)'
    BY <1>8, <1>10, <1>12
  <2> HIDE DEF SlotOf, Fresh
  <2> QED
    BY <2>1, <2>2 DEF RingConsistent
<1> QED
  BY <1>9, <1>13 DEF IInv

-----------------------------------------------------------------------------
(***************************************************************************)
(* The frame view                                                          *)
(***************************************************************************)

LEMMA ViewLengthRange ==
  ASSUME IInv
  PROVE  ViewLength \in 0 .. FrameSize /\ ViewLength <= count
BY Sizes DEF IInv, TypeOK, ViewLength

\* A block ends on a multiple of the hop no later than the index.
LEMMA BlockEndRange ==
  ASSUME index \in 0 .. Capacity - 1
  PROVE  /\ BlockEnd \in 0 .. index
         /\ BlockEnd < Hop => BlockEnd = 0
<1> DEFINE q == index \div Hop
<1>1. q \in Nat /\ q * Hop <= index
  BY Sizes, Z3
<1>2. q * Hop \in Nat
  BY <1>1, Sizes
<1>3. q * Hop < Hop => q = 0
  BY <1>1, Sizes, Z3
<1> QED
  BY <1>1, <1>2, <1>3, Sizes DEF BlockEnd

LEMMA MirroredViewInBounds ==
  ASSUME IInv, IsMirrored
  PROVE  ViewInBounds
<1>1. /\ index \in 0 .. Capacity - 1 /\ count \in 0 .. Capacity
      /\ count < FrameSize => index = count
  BY Sizes DEF IInv, TypeOK, RingConsistent, Fresh
<1> QED
  BY <1>1, Sizes DEF ViewInBounds, ViewStart, ViewLength, StorageSize

LEMMA BlockViewInBounds ==
  ASSUME IInv, ~IsMirrored
  PROVE  ViewInBounds
<1>1. FrameSize = Hop /\ index \in 0 .. Capacity - 1
  BY DEF IInv, TypeOK, IsMirrored, Mirrored
<1>2. BlockEnd \in 0 .. index /\ (BlockEnd < Hop => BlockEnd = 0)
  BY <1>1, BlockEndRange
<1>3. BlockStart >= 0 /\ BlockStart + FrameSize <= Capacity
  <2> HIDE DEF BlockEnd
  <2> QED
    BY <1>1, <1>2, Sizes DEF BlockStart
<1> QED
  BY <1>3, Sizes DEF ViewInBounds, ViewStart, StorageSize

LEMMA IInvViewInBounds == IInv => ViewInBounds
BY MirroredViewInBounds, BlockViewInBounds

LEMMA IInvViewIsNewest == IInv => ViewIsNewest
<1> SUFFICES ASSUME IInv, IsMirrored,
                    NEW i \in 0 .. ViewLength - 1
             PROVE  storage[ViewStart + i] = total - ViewLength + 1 + i
  BY DEF ViewIsNewest, View
<1> DEFINE k == ViewLength - 1 - i
<1>1. ViewLength \in 0 .. FrameSize /\ ViewLength <= count
  BY ViewLengthRange
<1>2. index \in 0 .. Capacity - 1 /\ count \in 0 .. Capacity /\ total \in Nat
  BY DEF IInv, TypeOK
<1>3. k \in 0 .. count - 1
  BY <1>1, <1>2, Sizes
<1>4. storage[SlotOf(k)] = total - k /\ storage[SlotOf(k) + Capacity] = total - k
  BY <1>3 DEF IInv, RingConsistent
\* The sample is read in its slot, or in its mirror if it comes before index.
<1>5. ViewStart + i = SlotOf(k) \/ ViewStart + i = SlotOf(k) + Capacity
  BY <1>1, <1>2, Sizes DEF ViewStart, SlotOf
<1>6. total - k = total - ViewLength + 1 + i
  BY <1>1, <1>2, Sizes
<1> QED
  BY <1>4, <1>5, <1>6

\* Every element of the view is a sample.
LEMMA ViewType ==
  ASSUME IInv, NEW i \in 0 .. ViewLength - 1
  PROVE  View[i] \in 0 .. total
<1>1. ViewStart \in Int /\ StorageSize \in Nat
  <2>1. index \in Nat /\ count \in Nat
    BY DEF IInv, TypeOK
  <2>2. BlockEnd \in Int
    BY <2>1, BlockEndRange DEF IInv, TypeOK
  <2> HIDE DEF BlockEnd
  <2> QED
    BY <2>1, <2>2, Sizes DEF ViewStart, BlockStart, ViewLength, StorageSize
<1>2. ViewStart + i \in 0 .. StorageSize - 1
  <2> HIDE DEF ViewStart, ViewLength, StorageSize
  <2> QED
    BY <1>1, ViewLengthRange, IInvViewInBounds, Sizes DEF ViewInBounds
<1> QED
  BY <1>2 DEF View, IInv, TypeOK

-----------------------------------------------------------------------------
(***************************************************************************)
(* Every step keeps the invariant                                          *)
(***************************************************************************)

LEMMA ReactIInv ==
  ASSUME IInv, React
  PROVE  IInv'
<1>1. owed' \in 0 .. total
  <2>1. ViewLength - 1 \in 0 .. ViewLength - 1
    BY Sizes DEF IInv, RingConsistent, TypeOK, React, ViewLength
  <2> QED
    BY <2>1, ViewType DEF React
<1>2. (program \in Programs /\ pc \in 1 .. Len(program.steps) + 1)'
  BY StepType DEF IInv, React, ReadView, Step
<1> QED
  BY <1>1, <1>2 DEF IInv, TypeOK, RingConsistent, Fresh, React, ReadView, code,
                    StorageSize, IsMirrored, SlotOf

\* Steps that leave the ring, its counters and the history alone.
LEMMA QuietIInv ==
  ASSUME IInv, WriteTrigger \/ SkipReaction \/ Peek
  PROVE  IInv'
<1>1. (program \in Programs /\ pc \in 1 .. Len(program.steps) + 1)'
  BY StepType DEF IInv, WriteTrigger, SkipReaction, Peek, ReadView, Step
<1>2. UNCHANGED <<storage, index, count, since, ready, total, base, owed, flush>>
      /\ trigger' \in BOOLEAN
  BY DEF IInv, TypeOK, WriteTrigger, SkipReaction, Peek, ReadView, code, ghost
<1> QED
  BY <1>1, <1>2 DEF IInv, TypeOK, RingConsistent, Fresh, StorageSize,
                    IsMirrored, SlotOf

LEMMA EndTickIInv ==
  ASSUME IInv, EndTick
  PROVE  IInv'
<1>1. (program \in Programs /\ pc \in 1 .. Len(program.steps) + 1)'
  BY ProgramsAssumption DEF IInv, TypeOK, EndTick
<1>2. UNCHANGED <<storage, index, count, since, total, base, owed, flush>>
      /\ ready' = FALSE /\ trigger' \in BOOLEAN
  BY DEF IInv, TypeOK, EndTick, ghost
<1> QED
  BY <1>1, <1>2 DEF IInv, TypeOK, RingConsistent, Fresh, StorageSize,
                    IsMirrored, SlotOf

\* An empty ring holds no sample, so the ones left in place do not count.
LEMMA DomainInitIInv ==
  ASSUME IInv, DomainInit
  PROVE  IInv'
<1>1. trigger' \in BOOLEAN
  BY TriggerDefaultsAreBoolean DEF DomainInit
<1>2. TypeOK'
  <2>1. (ready \in BOOLEAN /\ flush \in BOOLEAN /\ trigger \in BOOLEAN)'
    BY <1>1 DEF DomainInit
  <2>2. (/\ index \in 0 .. Capacity - 1 /\ count \in 0 .. Capacity
         /\ since \in 0 .. FrameSize
         /\ total \in 0 .. MaxSamples /\ base \in 0 .. total /\ owed \in 0 .. total)'
    BY Sizes DEF IInv, TypeOK, DomainInit
  <2>3. (/\ program \in Programs /\ pc \in 1 .. Len(program.steps) + 1
         /\ storage \in [0 .. StorageSize - 1 -> 0 .. total])'
    BY DEF IInv, TypeOK, DomainInit, StorageSize, IsMirrored
  <2> QED
    BY <2>1, <2>2, <2>3 DEF TypeOK
<1>3. RingConsistent'
  <2>1. count' = 0 /\ since' = 0 /\ index' = 0 /\ ready' = FALSE
    BY DEF DomainInit
  <2>2. Fresh' = 0
    BY DEF IInv, TypeOK, DomainInit, Fresh
  <2>3. \A k \in 0 .. count' - 1 : FALSE
    BY <2>1
  <2> QED
    BY <2>1, <2>2, <2>3, Sizes DEF RingConsistent
<1> QED
  BY <1>2, <1>3 DEF IInv

LEMMA NextIInv == IInv /\ [Next]_vars => IInv'
<1> SUFFICES ASSUME IInv, [Next]_vars PROVE IInv'
  OBVIOUS
<1>1. CASE UNCHANGED vars
  BY <1>1 DEF vars, code, ghost, IInv, TypeOK, RingConsistent, Fresh,
              StorageSize, IsMirrored, SlotOf
<1>2. CASE Next
  BY <1>2, PushIInv, ReactIInv, QuietIInv, EndTickIInv, DomainInitIInv DEF Next
<1> QED
  BY <1>1, <1>2

LEMMA Inductive == Spec => []IInv
BY InitIInv, NextIInv, PTL DEF Spec

-----------------------------------------------------------------------------
(* The state of a buffer stays in its types: the indices in the ring, the  *)
(* counters within the capacity and the frame.                             *)
THEOREM TypeCorrect == Spec => []TypeOK
<1>1. IInv => TypeOK
  BY DEF IInv
<1> QED
  BY <1>1, Inductive, PTL

(* Every sample counted is stored in its slot and its mirror.              *)
THEOREM RingIsConsistent == Spec => []RingConsistent
<1>1. IInv => RingConsistent
  BY DEF IInv
<1> QED
  BY <1>1, Inductive, PTL

(* No reader is ever handed a pointer past the storage, in any layout.     *)
THEOREM ViewStaysInBounds == Spec => []ViewInBounds
BY IInvViewInBounds, Inductive, PTL

(* The view of a mirrored buffer is always the newest samples in order.    *)
THEOREM MirroredViewIsNewest == Spec => []ViewIsNewest
BY IInvViewIsNewest, Inductive, PTL

-----------------------------------------------------------------------------
(***************************************************************************)
(* Built-in triggers keep their period                                     *)
(***************************************************************************)

LEMMA RemainderUnique ==
  ASSUME NEW q \in Int, NEW p \in Int,
         NEW r \in 0 .. Hop - 1, NEW s \in 0 .. Hop - 1,
         q * Hop + r = p * Hop + s
  PROVE  r = s
<1>1. CASE q = p
  <2>1. q * Hop \in Int
    BY Sizes
  <2> QED
    BY <1>1, <2>1, Sizes
<1>2. CASE q >= p + 1
  <2>1. q * Hop >= p * Hop + Hop
    BY <1>2, Sizes, Z3
  <2>2. q * Hop \in Int /\ p * Hop \in Int
    BY Sizes
  <2> QED
    BY <2>1, <2>2, Sizes
<1>3. CASE p >= q + 1
  <2>1. p * Hop >= q * Hop + Hop
    BY <1>3, Sizes, Z3
  <2>2. q * Hop \in Int /\ p * Hop \in Int
    BY Sizes
  <2> QED
    BY <2>1, <2>2, Sizes
<1> QED
  BY <1>1, <1>2, <1>3

LEMMA ModNext ==
  ASSUME NEW x \in Nat
  PROVE  (x + 1) % Hop = IF (x % Hop) + 1 = Hop THEN 0 ELSE (x % Hop) + 1
<1> DEFINE q == x \div Hop
           r == x % Hop
           p == (x + 1) \div Hop
           s == (x + 1) % Hop
<1>1. q \in Int /\ r \in 0 .. Hop - 1 /\ x = q * Hop + r
  BY Sizes, Z3
<1>2. p \in Int /\ s \in 0 .. Hop - 1 /\ x + 1 = p * Hop + s
  BY Sizes, Z3
<1>3. s = IF r + 1 = Hop THEN 0 ELSE r + 1
  <2> HIDE DEF q, r, p, s
  <2>1. CASE r + 1 = Hop
    <3>1. (q + 1) * Hop = q * Hop + Hop
      BY <1>1, Sizes, Z3
    <3>2. q * Hop \in Int /\ p * Hop \in Int /\ q + 1 \in Int
      BY <1>1, <1>2, Sizes
    <3>3. (q + 1) * Hop + 0 = p * Hop + s
      BY <1>1, <1>2, <2>1, <3>1, <3>2, Sizes
    <3>4. 0 \in 0 .. Hop - 1
      BY Sizes
    <3>5. 0 = s
      BY <1>2, <3>2, <3>3, <3>4, RemainderUnique, Zenon
    <3> QED
      BY <2>1, <3>5
  <2>2. CASE r + 1 # Hop
    <3>1. q * Hop \in Int /\ p * Hop \in Int
      BY <1>1, <1>2, Sizes
    <3>2. r + 1 \in 0 .. Hop - 1 /\ q * Hop + (r + 1) = p * Hop + s
      BY <1>1, <1>2, <2>2, <3>1, Sizes
    <3> QED
      BY <1>1, <1>2, <2>2, <3>2, RemainderUnique, Sizes
  <2> QED
    BY <2>1, <2>2
<1> QED
  BY <1>3

\* Before the first frame `since` counts every sample, then those past the
\* last multiple of the hop.
Cadence ==
  ~HasTrigger =>
    /\ ~flush
    /\ Fresh < FrameSize => since = Fresh
    /\ Fresh >= FrameSize => since = (Fresh - FrameSize) % Hop

LEMMA PushCadence ==
  ASSUME IInv, Cadence, Push
  PROVE  Cadence'
<1> SUFFICES ASSUME ~HasTrigger
             PROVE  Cadence'
  BY DEF Push, Cadence, HasTrigger
<1>1. ~HasTrigger /\ ~flush
  BY DEF Cadence
<1>2. ~flush' /\ Fresh' = Fresh + 1 /\ Fresh \in Nat
  <2>1. ~flush'
    BY <1>1 DEF Push, Flushes
  <2> QED
    BY <1>1, <2>1 DEF Push, Fresh, IInv, TypeOK
<1>3. since' = IF Fresh + 1 >= FrameSize /\ since + 1 >= Hop
               THEN 0 ELSE since + 1
  BY <1>1, <1>2, Sizes
  DEF Push, IInv, RingConsistent, TypeOK, Fires, Held, Held1, Waited, Flushes
<1>4. CASE Fresh + 1 < FrameSize
  BY <1>2, <1>3, <1>4, Sizes DEF Cadence
<1>5. CASE Fresh + 1 = FrameSize
  <2>1. 0 % Hop = 0
    BY Sizes, Z3
  <2> QED
    BY <1>2, <1>3, <1>5, <2>1, Sizes DEF Cadence
<1>6. CASE Fresh >= FrameSize
  <2> DEFINE x == Fresh - FrameSize
  <2>1. x \in Nat /\ Fresh' - FrameSize = x + 1
    BY <1>2, <1>6, Sizes
  <2>2. since = x % Hop /\ x % Hop \in 0 .. Hop - 1
    BY <2>1, <1>6, Sizes DEF Cadence
  <2> HIDE DEF x
  <2>3. since' = (x + 1) % Hop
    BY <2>1, <2>2, <1>2, <1>3, <1>6, ModNext, Sizes
  <2> QED
    BY <2>1, <2>3, <1>2, <1>6, Sizes DEF Cadence
<1> QED
  BY <1>2, <1>4, <1>5, <1>6, Sizes

LEMMA NextCadence == IInv /\ Cadence /\ [Next]_vars => Cadence'
<1> SUFFICES ASSUME IInv, Cadence, [Next]_vars PROVE Cadence'
  OBVIOUS
<1>1. CASE Push
  BY <1>1, PushCadence
<1>2. CASE DomainInit
  BY <1>2, Sizes DEF DomainInit, Cadence, Fresh, IInv, TypeOK, HasTrigger
<1>3. CASE WriteTrigger \/ React \/ SkipReaction \/ Peek \/ EndTick \/ UNCHANGED vars
  BY <1>3 DEF WriteTrigger, React, SkipReaction, Peek, EndTick, ReadView, vars,
              code, ghost, Cadence, Fresh, HasTrigger
<1> QED
  BY <1>1, <1>2, <1>3 DEF Next

(* With built-in triggers only, `ready` fires on the first full frame and  *)
(* then exactly every Hop samples, for every layout.                       *)
THEOREM CadenceIsKept == Spec => []BuiltinCadence
<1>1. Init => Cadence
  BY Sizes DEF Init, Cadence, Fresh
<1>2. Cadence => BuiltinCadence
  BY DEF Cadence, BuiltinCadence
<1> QED
  BY <1>1, <1>2, NextCadence, Inductive, PTL DEF Spec

-----------------------------------------------------------------------------
(***************************************************************************)
(* Steps of the buffer are steps of the abstract source of frames          *)
(***************************************************************************)

\* The frame that the source calls for is the one the view shows.
LEMMA ViewIsFrame ==
  ASSUME IInv, IsMirrored
  PROVE  View = Source!Frame
<1>1. ViewLength = Source!FrameLength
  BY Sizes DEF ViewLength, Source!FrameLength, IInv, RingConsistent, Fresh, TypeOK
<1>2. Source!FrameEnd = total
  BY DEF Source!FrameEnd
<1>3. View = [i \in 0 .. ViewLength - 1 |-> total - ViewLength + 1 + i]
  BY IInvViewIsNewest DEF ViewIsNewest
<1> QED
  BY <1>1, <1>2, <1>3 DEF Source!Frame

LEMMA PushImplements ==
  ASSUME IInv, Push
  PROVE  Source!Push(HasTrigger /\ trigger)
<1>1. /\ count \in 0 .. Capacity /\ since \in Nat /\ total \in Nat /\ base \in 0 .. total
      /\ count = IF total - base < Capacity THEN total - base ELSE Capacity
  BY Sizes DEF IInv, TypeOK, RingConsistent, Fresh
<1>2. CASE flush
  BY <1>1, <1>2, Sizes
  DEF Push, Source!Push, At, Held, Held1, Waited, Fires, Flushes
<1>3. CASE ~flush
  BY <1>1, <1>3, Sizes
  DEF Push, Source!Push, At, Held, Held1, Waited, Fires, Flushes
<1> QED
  BY <1>2, <1>3

\* Every step but a read does what the source does, in any layout.
LEMMA OtherStepsImplement ==
  ASSUME IInv, [Next]_vars, ~(React \/ Peek)
  PROVE  [Source!Next]_(Source!vars)
<1>1. CASE Push
  <2>1. (HasTrigger /\ trigger) \in BOOLEAN
    OBVIOUS
  <2> QED
    BY <1>1, <2>1, PushImplements DEF Source!Next
<1>2. CASE EndTick
  BY <1>2 DEF EndTick, ghost, Source!Next, Source!EndTick
<1>3. CASE DomainInit
  BY <1>3 DEF DomainInit, Source!Next, Source!Restart, IInv, TypeOK
<1>4. CASE WriteTrigger \/ SkipReaction \/ UNCHANGED vars
  BY <1>4 DEF WriteTrigger, SkipReaction, vars, code, ghost, Source!vars
<1> QED
  BY <1>1, <1>2, <1>3, <1>4 DEF Next

-----------------------------------------------------------------------------
(***************************************************************************)
(* Blocks read in place                                                    *)
(*                                                                         *)
(* A ring that is not mirrored is a whole number of hops, so its index is  *)
(* as far into a block as the samples held since it last emptied are.      *)
(***************************************************************************)

InBlock == index % Hop
BlockPhase == ~IsMirrored => InBlock = Fresh % Hop

LEMMA ZeroInBlock == 0 % Hop = 0
BY Sizes, Z3

\* A remainder, and the multiple of the hop it is counted from.
LEMMA Division ==
  ASSUME NEW x \in Nat
  PROVE  /\ x \div Hop \in Nat /\ x % Hop \in 0 .. Hop - 1
         /\ (x \div Hop) * Hop \in Nat /\ x = (x \div Hop) * Hop + (x % Hop)
         /\ x % Hop = 0 /\ x > Hop => x >= 2 * Hop
<1> DEFINE q == x \div Hop
<1>1. q \in Nat /\ x % Hop \in 0 .. Hop - 1 /\ x = q * Hop + (x % Hop)
  BY Sizes, Z3
<1>2. q * Hop \in Nat
  BY <1>1, Sizes
<1>3. x % Hop = 0 /\ x > Hop => q * Hop >= 2 * Hop
  <2> SUFFICES ASSUME x % Hop = 0, x > Hop PROVE q * Hop >= 2 * Hop
    OBVIOUS
  <2>1. q > 1
    BY <1>1, Sizes, Z3
  <2> HIDE DEF q
  <2> QED
    BY <1>1, <2>1, Sizes, Z3
<1> QED
  BY <1>1, <1>2, <1>3

LEMMA PushBlockPhase ==
  ASSUME IInv, BlockPhase, Push
  PROVE  BlockPhase'
<1> DEFINE held == IF flush THEN 0 ELSE Fresh
<1> SUFFICES ASSUME ~IsMirrored PROVE index' % Hop = Fresh' % Hop
  BY DEF BlockPhase, IsMirrored, InBlock
<1>1. /\ At \in 0 .. Capacity - 1 /\ held \in Nat
      /\ index' = IF At + 1 = Capacity THEN 0 ELSE At + 1
      /\ Fresh' = held + 1
  BY Sizes DEF IInv, TypeOK, Push, At, Wrap, Fresh
<1>2. At % Hop = held % Hop
  BY DEF BlockPhase, InBlock, At
<1>3. Capacity % Hop = 0
  BY DEF IsMirrored, Mirrored
<1> HIDE DEF held
<1>4. index' % Hop = (At + 1) % Hop
  BY <1>1, <1>3, ZeroInBlock
<1>5. (At + 1) % Hop = (held + 1) % Hop
  BY <1>1, <1>2, ModNext
<1> QED
  BY <1>1, <1>4, <1>5

LEMMA NextBlockPhase == IInv /\ BlockPhase /\ [Next]_vars => BlockPhase'
<1> SUFFICES ASSUME IInv, BlockPhase, [Next]_vars PROVE BlockPhase'
  OBVIOUS
<1>1. CASE Push
  BY <1>1, PushBlockPhase
<1>2. CASE DomainInit
  BY <1>2 DEF DomainInit, BlockPhase, InBlock, IsMirrored, Fresh, IInv, TypeOK
<1>3. CASE WriteTrigger \/ React \/ SkipReaction \/ Peek \/ EndTick \/ UNCHANGED vars
  BY <1>3 DEF WriteTrigger, React, SkipReaction, Peek, EndTick, ReadView, vars,
              code, ghost, BlockPhase, InBlock, IsMirrored, Fresh
<1> QED
  BY <1>1, <1>2, <1>3 DEF Next

LEMMA BlocksInductive == Spec => [](IInv /\ BlockPhase)
<1>1. Init => BlockPhase
  BY DEF Init, BlockPhase, InBlock, Fresh
<1> QED
  BY <1>1, Inductive, NextBlockPhase, PTL DEF Spec

\* Every slot of the ring that holds a sample is one of the newest `count`.
LEMMA SlotHolds ==
  ASSUME IInv, NEW slot \in 0 .. Capacity - 1,
         count = Capacity \/ slot < count
  PROVE  \E k \in 0 .. count - 1 : slot = SlotOf(k)
<1>1. index \in 0 .. Capacity - 1 /\ count \in 0 .. Capacity
      /\ (count < Capacity => index = count)
  BY Sizes DEF IInv, TypeOK, RingConsistent, Fresh
<1> DEFINE k == IF slot < index THEN index - 1 - slot ELSE index - 1 - slot + Capacity
<1>2. k \in 0 .. count - 1 /\ slot = SlotOf(k)
  BY <1>1, Sizes DEF SlotOf
<1> QED
  BY <1>2

\* The first slot of a block, once a frame is held.
LEMMA BlockStartSlot ==
  ASSUME IInv, ~IsMirrored, count >= FrameSize
  PROVE  /\ FrameSize = Hop /\ ViewLength = Hop /\ InBlock \in 0 .. Hop - 1
         /\ ViewStart = IF index - InBlock = 0 THEN Capacity - Hop
                                               ELSE index - InBlock - Hop
         /\ ViewStart \in 0 .. Capacity - Hop
<1>1. FrameSize = Hop /\ index \in 0 .. Capacity - 1 /\ count \in Nat
  BY Sizes DEF IInv, TypeOK, IsMirrored, Mirrored
<1>2. InBlock \in 0 .. Hop - 1 /\ BlockEnd = index - InBlock
  BY <1>1, Division DEF InBlock, BlockEnd
<1>3. BlockEnd \in 0 .. index /\ (BlockEnd < Hop => BlockEnd = 0)
  BY <1>1, BlockEndRange
<1>4. ViewStart = BlockStart /\ ViewLength = Hop
  BY <1>1, Sizes DEF ViewStart, ViewLength
<1>5. BlockStart = IF BlockEnd = 0 THEN Capacity - Hop ELSE BlockEnd - Hop
  <2> HIDE DEF BlockEnd
  <2> QED
    BY <1>1, <1>3, Sizes DEF BlockStart
<1> HIDE DEF BlockEnd
<1> QED
  BY <1>1, <1>2, <1>3, <1>4, <1>5, Sizes

(* A view never shows a sample from before the buffer last emptied, in any *)
(* layout: what init leaves in the storage is not read again.              *)
LEMMA IInvViewCoversFresh == IInv => ViewCoversFreshSamples
<1> SUFFICES ASSUME IInv, NEW i \in 0 .. ViewLength - 1
             PROVE  View[i] > base
  BY DEF ViewCoversFreshSamples
<1>1. /\ total \in Nat /\ base \in 0 .. total /\ count \in 0 .. Capacity
      /\ count <= total - base
  BY Sizes DEF IInv, TypeOK, RingConsistent, Fresh
<1>2. ViewLength \in 0 .. FrameSize /\ ViewLength <= count
  BY ViewLengthRange
<1>3. CASE IsMirrored
  BY <1>1, <1>2, <1>3, IInvViewIsNewest, Sizes DEF ViewIsNewest
<1>4. CASE ~IsMirrored
  <2> DEFINE slot == ViewStart + i
  <2>1. slot \in 0 .. Capacity - 1 /\ (count = Capacity \/ slot < count)
    <3>1. CASE count < FrameSize
      BY <3>1, <1>1, <1>2, <1>4, Sizes DEF ViewStart
    <3>2. CASE count >= FrameSize
      <4>1. slot \in 0 .. Capacity - 1
        BY <3>2, <1>1, <1>2, <1>4, BlockStartSlot, Sizes
      <4>2. count < Capacity => index = count
        BY <1>1, Sizes DEF IInv, RingConsistent, Fresh
      <4>3. index \in 0 .. Capacity - 1
        BY DEF IInv, TypeOK
      <4>4. count < Capacity => slot < count
        BY <3>2, <4>2, <4>3, <1>1, <1>2, <1>4, BlockStartSlot, BlockEndRange, Sizes
      <4> QED
        BY <4>1, <4>4, <1>1, Sizes
    <3> QED
      BY <3>1, <3>2, <1>1, Sizes
  <2>2. PICK k \in 0 .. count - 1 : slot = SlotOf(k)
    <3> HIDE DEF slot
    <3> QED
      BY <2>1, SlotHolds
  <2>3. storage[slot] = total - k
    BY <2>2 DEF IInv, RingConsistent
  <2>4. View[i] = storage[slot]
    BY DEF View
  <2> QED
    BY <1>1, <2>2, <2>3, <2>4
<1> QED
  BY <1>3, <1>4

(* No frame shows a sample pushed before the last flush or restart, in any *)
(* layout and any program, although init leaves the old ones in place.     *)
THEOREM ViewIsFresh == Spec => []ViewCoversFreshSamples
BY IInvViewCoversFresh, Inductive, PTL
-----------------------------------------------------------------------------
(***************************************************************************)
(* What a view of blocks shows                                             *)
(***************************************************************************)

\* Before a frame is held, the view is what was pushed, from the first slot.
LEMMA PartialView ==
  ASSUME IInv, ~IsMirrored, count < FrameSize
  PROVE  View = [i \in 0 .. ViewLength - 1 |-> total - ViewLength + 1 + i]
<1> SUFFICES ASSUME NEW i \in 0 .. ViewLength - 1
             PROVE  storage[ViewStart + i] = total - ViewLength + 1 + i
  BY DEF View
<1> DEFINE k == count - 1 - i
<1>1. ViewLength = count /\ ViewStart = 0 /\ index = count
      /\ count \in Nat /\ total \in Nat
  BY Sizes DEF IInv, TypeOK, RingConsistent, Fresh, ViewLength, ViewStart
<1>2. k \in 0 .. count - 1 /\ SlotOf(k) = i
  BY <1>1 DEF SlotOf
<1>3. storage[SlotOf(k)] = total - k
  BY <1>2 DEF IInv, RingConsistent
<1> QED
  BY <1>1, <1>2, <1>3

\* Once a frame is held, it is the last complete block, if that block is
\* still whole.
LEMMA BlockView ==
  ASSUME IInv, ~IsMirrored, count >= FrameSize, InBlock + Hop <= count
  PROVE  View = [i \in 0 .. ViewLength - 1 |->
                   total - InBlock - ViewLength + 1 + i]
<1> SUFFICES ASSUME NEW i \in 0 .. ViewLength - 1
             PROVE  storage[ViewStart + i] = total - InBlock - ViewLength + 1 + i
  BY DEF View
<1> DEFINE k == InBlock + Hop - 1 - i
<1>1. /\ FrameSize = Hop /\ ViewLength = Hop /\ InBlock \in 0 .. Hop - 1
      /\ ViewStart = IF index - InBlock = 0 THEN Capacity - Hop
                                            ELSE index - InBlock - Hop
      /\ ViewStart \in 0 .. Capacity - Hop
  BY BlockStartSlot
<1>2. index \in 0 .. Capacity - 1 /\ count \in 0 .. Capacity /\ total \in Nat
  BY DEF IInv, TypeOK
<1>3. k \in 0 .. count - 1 /\ SlotOf(k) = ViewStart + i
  <2> HIDE DEF InBlock
  <2> QED
    BY <1>1, <1>2, Sizes DEF SlotOf
<1>4. storage[SlotOf(k)] = total - k
  BY <1>3 DEF IInv, RingConsistent
<1>5. total - k = total - InBlock - ViewLength + 1 + i
  BY <1>1, <1>2, Sizes
<1> QED
  BY <1>3, <1>4, <1>5

\* The ring holds more than one frame: a block is whole until the next one
\* is, since the samples that follow it go to another block.
SeveralBlocks == IsMirrored \/ Hop < Capacity

LEMMA BlockIsWhole ==
  ASSUME IInv, ~IsMirrored, Hop < Capacity, count >= FrameSize
  PROVE  InBlock + Hop <= count
<1>1. /\ FrameSize = Hop /\ InBlock \in 0 .. Hop - 1
      /\ index \in 0 .. Capacity - 1 /\ count \in 0 .. Capacity
      /\ (count < Capacity => index = count)
  BY BlockStartSlot, Sizes DEF IInv, TypeOK, RingConsistent, Fresh
<1>2. CASE count = Capacity
  <2>1. Capacity % Hop = 0
    BY DEF IsMirrored, Mirrored
  <2>2. Capacity >= 2 * Hop
    BY <2>1, Division, Sizes
  <2> HIDE DEF InBlock
  <2> QED
    BY <1>1, <1>2, <2>2, Sizes
<1>3. CASE count < Capacity
  <2>1. BlockEnd = index - InBlock /\ (BlockEnd < Hop => BlockEnd = 0)
    BY <1>1, Division, BlockEndRange DEF BlockEnd, InBlock
  <2> HIDE DEF InBlock, BlockEnd
  <2> QED
    BY <1>1, <1>3, <2>1, Sizes
<1> QED
  BY <1>1, <1>2, <1>3, Sizes

LEMMA IInvViewInOrder ==
  ASSUME IInv, SeveralBlocks
  PROVE  ViewInOrder
<1>1. total \in Nat /\ ViewLength \in Nat
  BY ViewLengthRange, Sizes DEF IInv, TypeOK
<1>2. CASE IsMirrored \/ count < FrameSize
  BY <1>1, <1>2, IInvViewIsNewest, PartialView DEF ViewIsNewest, ViewInOrder
<1>3. CASE ~IsMirrored /\ count >= FrameSize
  <2>1. InBlock \in Nat /\ InBlock + Hop <= count
    BY <1>3, BlockStartSlot, BlockIsWhole, Sizes DEF SeveralBlocks
  <2> HIDE DEF InBlock
  <2> QED
    BY <1>1, <1>3, <2>1, BlockView DEF ViewInOrder
<1> QED
  BY <1>2, <1>3, Sizes DEF IInv, TypeOK

(* The view is in order on every tick, unless the ring is a single block:  *)
(* that one is read while the next frame is written over it.               *)
THEOREM ViewStaysInOrder ==
  ASSUME SeveralBlocks
  PROVE  Spec => []ViewInOrder
BY IInvViewInOrder, Inductive, PTL

-----------------------------------------------------------------------------
(***************************************************************************)
(* Every buffer of several blocks implements the abstract source of frames *)
(***************************************************************************)

LEMMA ViewIsFrameOfAnyLayout ==
  ASSUME IInv, BlockPhase, SeveralBlocks
  PROVE  View = Source!Frame
<1>1. /\ Fresh \in Nat /\ Fresh = total - base /\ base \in Nat /\ total \in Nat
      /\ ViewLength \in Nat /\ count \in Nat
      /\ (count < FrameSize <=> Fresh < FrameSize)
      /\ ViewLength = Source!FrameLength
  BY Sizes DEF IInv, TypeOK, RingConsistent, Fresh, ViewLength, Source!FrameLength
<1>2. CASE IsMirrored
  BY <1>2, ViewIsFrame
<1>3. CASE ~IsMirrored /\ count < FrameSize
  <2>1. Source!FrameEnd = total
    BY <1>1, <1>3, Sizes DEF Source!FrameEnd
  <2> QED
    BY <1>1, <1>3, <2>1, PartialView DEF Source!Frame
<1>4. CASE ~IsMirrored /\ count >= FrameSize
  <2>1. InBlock = Fresh % Hop
    BY <1>4 DEF BlockPhase
  <2>2. /\ (Fresh \div Hop) * Hop \in Nat
        /\ Fresh = (Fresh \div Hop) * Hop + InBlock
        /\ InBlock \in Nat
    BY <1>1, <2>1, Division
  <2>3. Source!FrameEnd = base + (Fresh \div Hop) * Hop
    BY <1>1, <1>4, Sizes DEF Source!FrameEnd
  <2>4. Source!FrameEnd = total - InBlock
    BY <1>1, <2>2, <2>3
  <2>5. View = [i \in 0 .. ViewLength - 1 |-> total - InBlock - ViewLength + 1 + i]
    BY <1>4, BlockView, BlockIsWhole DEF SeveralBlocks
  <2> QED
    BY <1>1, <2>4, <2>5 DEF Source!Frame
<1> QED
  BY <1>1, <1>2, <1>3, <1>4, Sizes

LEMMA NextImplementsOfAnyLayout ==
  ASSUME IInv, BlockPhase, SeveralBlocks, [Next]_vars
  PROVE  [Source!Next]_(Source!vars)
<1>1. CASE React \/ Peek
  BY <1>1, ViewIsFrameOfAnyLayout
  DEF React, Peek, ReadView, code, Source!Next, Source!Read
<1>2. CASE ~(React \/ Peek)
  BY <1>2, OtherStepsImplement
<1> QED
  BY <1>1, <1>2

(* Whatever is pushed, flushed, restarted and read, in whatever order, a   *)
(* reader gets the frames of the abstract source, mirrored or in blocks.   *)
THEOREM ImplementsSource ==
  ASSUME SeveralBlocks
  PROVE  Spec => ImplementsFrameSource
<1>1. Init => Source!Init
  BY DEF Init, Source!Init
<1>2. IInv /\ BlockPhase /\ [Next]_vars => [Source!Next]_(Source!vars)
  BY NextImplementsOfAnyLayout
<1> QED
  BY <1>1, <1>2, BlocksInductive, PTL DEF Spec, ImplementsFrameSource, Source!Spec
-----------------------------------------------------------------------------
(***************************************************************************)
(* No sample falls between two frames                                      *)
(*                                                                         *)
(* While no frame is ready, and once a reaction has read the one that is,  *)
(* the samples owed are at most those `since` counts; when a frame is      *)
(* ready, the samples owed are all in the view.                            *)
(***************************************************************************)

\* A held frame waits less than a hop, and a flush follows a frame.
HopNotMissed ==
  /\ count >= FrameSize => since < Hop
  /\ flush => since = 0

\* With one push in a tick, `ready` is that push's.
ReadyIsPushed ==
  \A p \in DOMAIN program.steps :
    IsOnlyPush(p) /\ ready => pc > p /\ since = 0

\* A reaction after the only push of the tick.
ReactsAfterPush(p, r) ==
  IsOnlyPush(p) /\ p < r /\ program.steps[r] = "react" /\ ~DropsPartialBlock

Owing ==
  \A p, r \in DOMAIN program.steps :
    ReactsAfterPush(p, r) =>
      /\ ready => total - owed <= ViewLength
      /\ ~ready \/ pc > r => total - owed <= since

Delivery == HopNotMissed /\ ReadyIsPushed /\ Owing

\* A step but a push, a reaction, the end of the tick or init leaves the
\* buffer and what is owed alone, and moves on in the tick.
LEMMA QuietStep ==
  ASSUME TypeOK, WriteTrigger \/ SkipReaction \/ Peek
  PROVE  /\ UNCHANGED <<program, storage, index, count, since, ready, flush,
                        total, base, owed>>
         /\ pc' = pc + 1 /\ pc \in Nat
BY ProgramsAssumption
DEF TypeOK, WriteTrigger, SkipReaction, Peek, ReadView, Step, code, ghost

LEMMA PushHopNotMissed ==
  ASSUME IInv, HopNotMissed, Push
  PROVE  HopNotMissed'
<1>1. /\ count' = Held1 /\ since' = (IF Fires THEN 0 ELSE Waited)
      /\ flush' = Flushes /\ Waited \in 1 .. FrameSize + 1 /\ Held1 \in Nat
  BY Sizes DEF IInv, TypeOK, Push, Waited, Held1, Held
<1>2. Flushes => Fires
  BY DEF Fires
<1>3. ~Fires => ~(Held1 >= FrameSize /\ Waited >= Hop)
  BY DEF Fires
<1>4. CASE Fires
  <2>1. since' = 0
    BY <1>1, <1>4, Zenon
  <2> QED
    BY <2>1, Sizes DEF HopNotMissed
<1>5. CASE ~Fires
  <2>1. since' = Waited /\ ~flush'
    BY <1>1, <1>2, <1>5, Zenon
  <2> QED
    BY <2>1, <1>1, <1>3, <1>5, Sizes DEF HopNotMissed
<1> QED
  BY <1>4, <1>5

\* What a push leaves waiting fits the view it leaves.
LEMMA PushFitsView ==
  ASSUME IInv, HopNotMissed, Push
  PROVE  /\ Waited \in Nat /\ Waited <= ViewLength'
         /\ Waited = (IF flush THEN 0 ELSE since) + 1
<1>1. /\ count' = Held1 /\ Held1 = (IF Held + 1 > Capacity THEN Capacity ELSE Held + 1)
      /\ Waited = (IF flush THEN 0 ELSE since) + 1
      /\ Held = (IF flush THEN 0 ELSE count)
      /\ since \in 0 .. FrameSize /\ count \in 0 .. Capacity /\ since <= count
  BY DEF IInv, TypeOK, RingConsistent, Push, Waited, Held1, Held
<1>2. count >= FrameSize => since < Hop
  BY DEF HopNotMissed
<1>3. ViewLength' = IF Held1 < FrameSize THEN Held1 ELSE FrameSize
  BY <1>1 DEF ViewLength
<1> QED
  BY <1>1, <1>2, <1>3, Sizes

LEMMA PushOwing ==
  ASSUME IInv, Delivery, Push
  PROVE  ReadyIsPushed' /\ Owing'
<1>1. /\ program' = program /\ pc' = pc + 1 /\ pc \in DOMAIN program.steps
      /\ program.steps[pc] = "push"
      /\ ready' = (ready \/ Fires) /\ since' = (IF Fires THEN 0 ELSE Waited)
      /\ total' = total + 1 /\ owed' = owed /\ pc \in Nat /\ total \in Nat
      /\ owed \in Nat
  BY ProgramsAssumption DEF Push, Step, IInv, TypeOK
<1>2. Waited \in Nat /\ Waited <= ViewLength' /\ Waited = (IF flush THEN 0 ELSE since) + 1
  BY PushFitsView DEF Delivery
<1>3. since \in Nat /\ ViewLength' \in Nat /\ (flush => since = 0)
  BY Sizes DEF IInv, TypeOK, Delivery, HopNotMissed, Push, ViewLength, Held1, Held
<1>4. ASSUME NEW p \in DOMAIN program.steps, IsOnlyPush(p)
      PROVE  pc = p /\ ~ready
  BY <1>1, <1>4 DEF IsOnlyPush, Delivery, ReadyIsPushed
<1>5. ReadyIsPushed'
  <2> SUFFICES ASSUME NEW p \in DOMAIN program.steps, IsOnlyPush(p), ready'
               PROVE  pc' > p /\ since' = 0
    BY <1>1 DEF ReadyIsPushed, IsOnlyPush
  <2>1. pc = p /\ ~ready
    BY <1>4
  <2>2. Fires
    BY <1>1, <2>1, Zenon
  <2>3. since' = 0
    BY <1>1, <2>2, Zenon
  <2> QED
    BY <1>1, <2>1, <2>3
<1>6. Owing'
  <2> SUFFICES ASSUME NEW p \in DOMAIN program.steps, NEW r \in DOMAIN program.steps,
                      ReactsAfterPush(p, r)
               PROVE  /\ ready' => total' - owed' <= ViewLength'
                      /\ ~ready' \/ pc' > r => total' - owed' <= since'
    BY <1>1 DEF Owing, ReactsAfterPush, IsOnlyPush, DropsPartialBlock, HasTrigger, IsMirrored
  <2>1. pc = p /\ ~ready /\ p < r /\ r \in Nat
    BY <1>4, ProgramsAssumption DEF ReactsAfterPush, IInv, TypeOK
  <2>2. total - owed <= since
    BY <2>1 DEF Delivery, Owing
  <2>3. total' - owed' <= Waited
    BY <1>1, <1>2, <1>3, <2>2
  <2>4. ready' => total' - owed' <= ViewLength'
    BY <1>1, <1>2, <1>3, <2>3
  <2>5. ASSUME ~ready' PROVE total' - owed' <= since'
    <3>1. since' = Waited
      BY <1>1, <2>5, Zenon
    <3> QED
      BY <2>3, <3>1
  <2>6. ~(pc' > r)
    BY <1>1, <2>1
  <2> QED
    BY <2>4, <2>5, <2>6
<1> QED
  BY <1>5, <1>6

\* The view of a frame that is ready ends at the newest sample.
LEMMA ReadyView ==
  ASSUME IInv, BlockPhase, Cadence, ready, since = 0, ~DropsPartialBlock
  PROVE  /\ ViewLength \in 1 .. FrameSize /\ ViewLength <= count
         /\ View = [i \in 0 .. ViewLength - 1 |-> total - ViewLength + 1 + i]
<1>1. /\ ViewLength \in 1 .. FrameSize /\ ViewLength <= count /\ total \in Nat
      /\ count \in Nat /\ count > 0
  BY ViewLengthRange, Sizes DEF IInv, TypeOK, RingConsistent, ViewLength
<1>2. CASE IsMirrored
  BY <1>1, <1>2, IInvViewIsNewest DEF ViewIsNewest
<1>3. CASE ~IsMirrored
  <2>1. ~HasTrigger /\ FrameSize = Hop
    BY <1>3 DEF DropsPartialBlock, IsMirrored, Mirrored
  <2>2. /\ Fresh \in Nat /\ count <= Fresh
        /\ count = IF Fresh < Capacity THEN Fresh ELSE Capacity
    BY Sizes DEF IInv, TypeOK, RingConsistent, Fresh
  <2>3. Fresh >= FrameSize /\ (Fresh - FrameSize) % Hop = 0
    BY <1>1, <2>1, <2>2, Sizes DEF Cadence
  \* As many samples as whole hops: the block ends at the index.
  <2>4. Fresh % Hop = 0
    <3> DEFINE x == Fresh - Hop
    <3>1. x \in Nat /\ x % Hop = 0 /\ Fresh = x + Hop
      <4>1. x = Fresh - FrameSize
        BY <2>1
      <4> QED
        BY <4>1, <2>1, <2>2, <2>3, Sizes
    <3>2. x \div Hop \in Int /\ x = (x \div Hop) * Hop /\ (x \div Hop) * Hop \in Int
      BY <3>1, Division
    <3>3. /\ Fresh \div Hop \in Int /\ Fresh % Hop \in 0 .. Hop - 1
          /\ (Fresh \div Hop) * Hop \in Int
          /\ Fresh = (Fresh \div Hop) * Hop + (Fresh % Hop)
      BY <2>2, Division
    <3> HIDE DEF x
    <3>4. ((x \div Hop) + 1) * Hop = x + Hop /\ 0 \in 0 .. Hop - 1
      BY <3>2, Sizes, Z3
    <3>5. (x \div Hop) + 1 \in Int
      BY <3>2
    <3>6. ((x \div Hop) + 1) * Hop + 0 = (Fresh \div Hop) * Hop + (Fresh % Hop)
      BY <3>1, <3>3, <3>4, Sizes
    <3>7. 0 = Fresh % Hop
      BY <3>3, <3>4, <3>5, <3>6, RemainderUnique, Zenon
    <3> QED
      BY <3>7
  <2>5. InBlock = 0
    BY <1>3, <2>4 DEF BlockPhase
  <2>6. count >= FrameSize /\ InBlock + Hop <= count
    BY <2>1, <2>2, <2>3, <2>5, Sizes
  <2>7. View = [i \in 0 .. ViewLength - 1 |-> total - 0 - ViewLength + 1 + i]
    BY <1>3, <2>5, <2>6, BlockView
  <2> QED
    BY <1>1, <2>7
<1> QED
  BY <1>1, <1>2, <1>3

LEMMA ReactOwing ==
  ASSUME IInv, BlockPhase, Cadence, Delivery, React
  PROVE  ReadyIsPushed' /\ Owing'
<1>1. /\ UNCHANGED <<program, count, since, ready, total>>
      /\ pc' = pc + 1 /\ pc \in Nat /\ ready /\ owed' = View[ViewLength - 1]
      /\ total \in Nat /\ since \in Nat
  BY ProgramsAssumption DEF React, ReadView, Step, code, IInv, TypeOK
<1>2. ReadyIsPushed'
  <2> SUFFICES ASSUME NEW p \in DOMAIN program.steps, IsOnlyPush(p)
               PROVE  pc' > p /\ since' = 0
    BY <1>1 DEF ReadyIsPushed, IsOnlyPush
  <2>1. pc > p /\ since = 0
    BY <1>1 DEF Delivery, ReadyIsPushed
  <2>2. p \in Nat
    BY ProgramsAssumption DEF IInv, TypeOK
  <2> QED
    BY <1>1, <2>1, <2>2
<1>3. Owing'
  <2> SUFFICES ASSUME NEW p \in DOMAIN program.steps, NEW r \in DOMAIN program.steps,
                      ReactsAfterPush(p, r)
               PROVE  /\ total' - owed' <= ViewLength'
                      /\ total' - owed' <= since'
    BY <1>1 DEF Owing, ReactsAfterPush, IsOnlyPush, DropsPartialBlock, HasTrigger, IsMirrored
  <2>1. since = 0
    BY <1>1 DEF Delivery, ReadyIsPushed, ReactsAfterPush
  <2>2. /\ ViewLength \in 1 .. FrameSize
        /\ View = [i \in 0 .. ViewLength - 1 |-> total - ViewLength + 1 + i]
    BY <1>1, <2>1, ReadyView DEF ReactsAfterPush
  <2>3. ViewLength - 1 \in 0 .. ViewLength - 1 /\ ViewLength \in Nat
    BY <2>2, Sizes
  <2>4. owed' = total - ViewLength + 1 + (ViewLength - 1)
    BY <1>1, <2>2, <2>3
  <2>5. owed' = total
    BY <1>1, <2>3, <2>4
  <2>6. ViewLength' = ViewLength
    BY <1>1 DEF ViewLength
  <2> QED
    BY <1>1, <2>3, <2>5, <2>6
<1> QED
  BY <1>2, <1>3

LEMMA NextDelivery ==
  ASSUME IInv, BlockPhase, Cadence, Delivery, [Next]_vars
  PROVE  Delivery'
<1> USE DEF Delivery
<1>1. CASE Push
  BY <1>1, PushHopNotMissed, PushOwing
<1>2. CASE React
  <2>1. HopNotMissed'
    BY <1>2 DEF React, ReadView, code, HopNotMissed
  <2> QED
    BY <1>2, <2>1, ReactOwing
<1>3. CASE WriteTrigger \/ SkipReaction \/ Peek
  <2>1. /\ UNCHANGED <<program, count, since, ready, flush, total, owed>>
        /\ pc' = pc + 1 /\ pc \in Nat
    BY <1>3, QuietStep DEF IInv
  <2>2. HopNotMissed'
    BY <2>1 DEF HopNotMissed
  <2>3. ReadyIsPushed'
    <3> SUFFICES ASSUME NEW p \in DOMAIN program.steps, IsOnlyPush(p), ready
                 PROVE  pc' > p /\ since' = 0
      BY <2>1 DEF ReadyIsPushed, IsOnlyPush
    <3>1. pc > p /\ since = 0 /\ p \in Nat
      BY ProgramsAssumption DEF ReadyIsPushed, IInv, TypeOK
    <3> QED
      BY <2>1, <3>1
  <2>4. Owing'
    <3> SUFFICES ASSUME NEW p \in DOMAIN program.steps,
                        NEW r \in DOMAIN program.steps, ReactsAfterPush(p, r)
                 PROVE  /\ ready => total - owed <= ViewLength
                        /\ ~ready \/ pc' > r => total - owed <= since
      BY <2>1 DEF Owing, ReactsAfterPush, IsOnlyPush, DropsPartialBlock,
                  HasTrigger, IsMirrored, ViewLength
    \* The step at r is the reaction, which was not ready.
    <3>1. pc = r /\ ready => FALSE
      BY <1>3 DEF WriteTrigger, SkipReaction, Peek, Step, ReactsAfterPush
    <3>2. r \in Nat
      BY ProgramsAssumption DEF IInv, TypeOK
    <3> QED
      BY <2>1, <3>1, <3>2 DEF Owing
  <2> QED
    BY <2>2, <2>3, <2>4
<1>4. CASE EndTick
  <2>1. /\ UNCHANGED <<program, count, since, flush, total, owed>>
        /\ ~ready' /\ pc > Len(program.steps)
    BY <1>4 DEF EndTick, ghost
  <2>2. ASSUME NEW p \in DOMAIN program.steps, NEW r \in DOMAIN program.steps,
               ReactsAfterPush(p, r)
        PROVE  total - owed <= since
    <3>1. pc > r
      BY <2>1, ProgramsAssumption DEF IInv, TypeOK
    <3> QED
      BY <2>2, <3>1 DEF Owing
  <2> QED
    BY <2>1, <2>2 DEF HopNotMissed, ReadyIsPushed, Owing, ReactsAfterPush,
                      IsOnlyPush, DropsPartialBlock, HasTrigger, IsMirrored
<1>5. CASE DomainInit
  <2>1. /\ count' = 0 /\ since' = 0 /\ ready' = FALSE /\ flush' = FALSE
        /\ total' = total /\ owed' = total /\ total \in Nat
    BY <1>5 DEF DomainInit, IInv, TypeOK
  <2>2. total' - owed' = 0
    BY <2>1
  <2> QED
    BY <2>1, <2>2, Sizes DEF HopNotMissed, ReadyIsPushed, Owing
<1>6. CASE UNCHANGED vars
  BY <1>6 DEF vars, code, ghost, HopNotMissed, ReadyIsPushed, Owing,
              ReactsAfterPush, IsOnlyPush, DropsPartialBlock, HasTrigger,
              IsMirrored, ViewLength
<1> QED
  BY <1>1, <1>2, <1>3, <1>4, <1>5, <1>6 DEF Next

LEMMA ReactSkipsNone ==
  ASSUME IInv, BlockPhase, Cadence, Delivery, React, OnePushPerTick, ~DropsPartialBlock
  PROVE  View[0] <= owed + 1
<1>1. PICK p \in DOMAIN program.steps : IsOnlyPush(p)
  BY DEF OnePushPerTick
<1>2. ready /\ pc \in DOMAIN program.steps /\ program.steps[pc] = "react"
  BY ProgramsAssumption DEF React, Step, IInv, TypeOK
<1>3. pc > p /\ since = 0 /\ p \in Nat /\ pc \in Nat
  BY <1>1, <1>2, ProgramsAssumption DEF Delivery, ReadyIsPushed, IInv, TypeOK
<1>4. ReactsAfterPush(p, pc)
  BY <1>1, <1>2, <1>3 DEF ReactsAfterPush
<1>5. total - owed <= ViewLength
  BY <1>1, <1>2, <1>4 DEF Delivery, Owing
<1>6. /\ ViewLength \in 1 .. FrameSize
      /\ View = [i \in 0 .. ViewLength - 1 |-> total - ViewLength + 1 + i]
  BY <1>2, <1>3, ReadyView
<1>7. View[0] = total - ViewLength + 1 + 0
  BY <1>6, Sizes
<1>8. total \in Nat /\ owed \in Nat /\ ViewLength \in Nat
  BY <1>6, Sizes DEF IInv, TypeOK
<1> QED
  BY <1>5, <1>7, <1>8

(* A reaction after the one push of the tick, run whenever the buffer is   *)
(* ready, sees every sample pushed since the last restart: for every hop,  *)
(* frame, capacity and trigger block, whatever is flushed or restarted.    *)
THEOREM ReactionsSkipNoSample == Spec => NoSampleSkipped
<1>1. Init => Cadence /\ Delivery
  BY Sizes DEF Init, Cadence, Fresh, Delivery, HopNotMissed, ReadyIsPushed, Owing
<1>2. IInv /\ BlockPhase /\ Cadence /\ Delivery /\ [Next]_vars => Delivery'
  BY NextDelivery
<1>3. IInv /\ BlockPhase /\ Cadence /\ Delivery /\ [Next]_vars =>
        [React /\ OnePushPerTick /\ ~DropsPartialBlock => View[0] <= owed + 1]_vars
  BY ReactSkipsNone
<1> QED
  BY <1>1, <1>2, <1>3, BlocksInductive, NextCadence, PTL DEF Spec, NoSampleSkipped
-----------------------------------------------------------------------------
(***************************************************************************)
(* The layouts that a declaration resolves to                              *)
(*                                                                         *)
(* What BufferSpec resolves is what Buffer assumes of its sizes, and the   *)
(* decision to mirror is right for every declaration.                      *)
(***************************************************************************)

Resolved == spec = Unset \/ spec = FromDeclaration(decl)

LEMMA ResolvedOnce == LayoutSpec => []Resolved
<1>1. Declared => Resolved
  BY DEF Declared, Resolved
<1>2. Resolved /\ [Resolve]_layoutVars => Resolved'
  BY DEF Resolve, layoutVars, Resolved
<1> QED
  BY <1>1, <1>2, PTL DEF LayoutSpec

\* A valid layout has no error, so its sizes are integers and in order.
LEMMA ValidSizes ==
  ASSUME Resolved, IsValid
  PROVE  /\ spec.capacity \in Int /\ spec.frameSize \in Int /\ spec.hop \in Int
         /\ SizesOrdered(spec.capacity, spec.frameSize, spec.hop)
         /\ spec.mirrored = Mirrored(spec.capacity, spec.frameSize, spec.hop)
         /\ spec.trigger = TriggerOf(decl) /\ spec.hop = HopOf(decl)
         /\ spec.capacity = decl.capacity
         /\ spec.trigger \in Triggers
         /\ spec.trigger = "Half" => decl.capacity % 2 = 0
         /\ spec.trigger = "Quarter" => decl.capacity % 4 = 0
         /\ decl.trigger \in {Unset, "switch"}
<1> DEFINE d == decl
<1>1. /\ spec = FromDeclaration(d)
      /\ ~DividesByZero(d) /\ ~ReturnsEarly(d) /\ Errors(d) = {}
      /\ spec.capacity = d.capacity /\ spec.frameSize = FrameSizeOf(d)
      /\ spec.hop = HopOf(d) /\ spec.trigger = TriggerOf(d)
      /\ spec.mirrored = Mirrored(d.capacity, FrameSizeOf(d), HopOf(d))
  <2>1. spec = FromDeclaration(d) /\ spec.outcome = "valid"
    BY DEF Resolved, IsValid
  <2>2. ~DividesByZero(d)
    BY <2>1 DEF FromDeclaration
  <2>3. ~ReturnsEarly(d)
    BY <2>1, <2>2 DEF FromDeclaration
  <2>4. spec = [outcome   |-> IF Errors(d) = {} THEN "valid" ELSE "rejected",
                errors    |-> Errors(d),
                capacity  |-> d.capacity,
                frameSize |-> FrameSizeOf(d),
                hop       |-> HopOf(d),
                trigger   |-> TriggerOf(d),
                mirrored  |-> Mirrored(d.capacity, FrameSizeOf(d),
                                              HopOf(d))]
    BY <2>1, <2>2, <2>3, Zenon DEF FromDeclaration
  <2>5. Errors(d) = {}
    BY <2>1, <2>4
  <2> QED
    BY <2>1, <2>2, <2>3, <2>4, <2>5 DEF Mirrored
<1> HIDE DEF d
<1>2. d.capacity \in Int /\ TriggerOf(d) \in Triggers
  <2>1. d.capacity \in Int
    BY <1>1 DEF ReturnsEarly, NoCapacity, IsInt
  <2>2. d.triggerMode = Unset \/ d.triggerMode \in Triggers
    BY <1>1 DEF ReturnsEarly, BadTriggerMode
  <2> QED
    BY <2>1, <2>2 DEF TriggerOf, Triggers
<1>3. FrameSizeOf(d) \in Int
  BY <1>2 DEF FrameSizeOf, EvalInt
<1>4. HopOf(d) \in Int
  <2>1. d.capacity \div 2 \in Int /\ d.capacity \div 4 \in Int
    BY <1>2
  <2>2. EvalInt(d.hop, FrameSizeOf(d)) \in Int
    BY <1>3 DEF EvalInt
  <2> QED
    BY <1>2, <2>1, <2>2 DEF HopOf, Triggers
<1>5. /\ ~(TriggerOf(d) = "Half" /\ d.capacity % 2 # 0)
      /\ ~(TriggerOf(d) = "Quarter" /\ d.capacity % 4 # 0)
      /\ SizesOrdered(d.capacity, FrameSizeOf(d), HopOf(d))
      /\ d.trigger \in {Unset, "switch"}
  <2> DEFINE hop == HopOf(d)
             fires == TriggerOf(d)
             rules == [
               frame   |-> d.frameSize = NotConstant,
               half    |-> fires = "Half" /\ d.capacity % 2 # 0,
               quarter |-> fires = "Quarter" /\ d.capacity % 4 # 0,
               clash   |-> IsInt(d.hop) /\ fires # "Periodic" /\ d.hop # hop,
               order   |-> ~SizesOrdered(d.capacity, FrameSizeOf(d), hop),
               switch  |-> d.trigger \notin {Unset, "switch"} ]
  <2>1. {rule \in DOMAIN rules : rules[rule]} = {}
    BY <1>1 DEF Errors, LayoutErrors
  <2>2. {"half", "quarter", "order", "switch"} \subseteq DOMAIN rules
    OBVIOUS
  <2>3. ~rules["half"] /\ ~rules["quarter"] /\ ~rules["order"] /\ ~rules["switch"]
    <3> HIDE DEF rules
    <3> QED
      BY <2>1, <2>2
  <2> QED
    BY <2>3 DEF SizesOrdered
<1> QED
  BY <1>1, <1>2, <1>3, <1>4, <1>5, Zenon DEF d

(* Every declaration that resolves without an error has ordered sizes and  *)
(* a hop that its trigger mode calls for.                                  *)
THEOREM LayoutIsValid == LayoutSpec => []ValidLayout
<1>1. Resolved => ValidLayout
  <2> SUFFICES ASSUME Resolved, IsValid
               PROVE  /\ SizesOrdered(spec.capacity, spec.frameSize, spec.hop)
                      /\ spec.trigger = "Half" => spec.capacity = 2 * spec.hop
                      /\ spec.trigger = "Quarter" => spec.capacity = 4 * spec.hop
                      /\ spec.trigger = "Full" => spec.frameSize = spec.capacity
                      /\ decl.trigger \in {Unset, "switch"}
    BY DEF ValidLayout
  <2>1. /\ spec.capacity \in Int /\ spec.frameSize \in Int /\ spec.hop \in Int
        /\ SizesOrdered(spec.capacity, spec.frameSize, spec.hop)
        /\ spec.trigger = TriggerOf(decl) /\ spec.hop = HopOf(decl)
        /\ spec.capacity = decl.capacity
        /\ spec.trigger = "Half" => decl.capacity % 2 = 0
        /\ spec.trigger = "Quarter" => decl.capacity % 4 = 0
        /\ decl.trigger \in {Unset, "switch"}
    BY ValidSizes
  <2>2. spec.trigger = "Half" => spec.capacity = 2 * spec.hop
    BY <2>1, Z3 DEF HopOf
  <2>3. spec.trigger = "Quarter" => spec.capacity = 4 * spec.hop
    BY <2>1, Z3 DEF HopOf
  <2>4. spec.trigger = "Full" => spec.frameSize = spec.capacity
    BY <2>1 DEF HopOf, SizesOrdered
  <2> QED
    BY <2>1, <2>2, <2>3, <2>4 DEF SizesOrdered
<1> QED
  BY <1>1, ResolvedOnce, PTL

\* What Buffer assumes of the layout whose code it models.
LayoutAssumed ==
  IsValid =>
    /\ spec.capacity \in Nat /\ spec.frameSize \in Nat /\ spec.hop \in Nat
    /\ SizesOrdered(spec.capacity, spec.frameSize, spec.hop)
    /\ spec.mirrored = Mirrored(spec.capacity, spec.frameSize, spec.hop)

(* The layouts a declaration resolves to are those the generated code is   *)
(* proved for: SizesAssumption holds of them, and the mirror they were     *)
(* given is the one the push code and the view go by.                      *)
THEOREM LayoutsMeetAssumption == LayoutSpec => []LayoutAssumed
<1>1. Resolved => LayoutAssumed
  BY ValidSizes DEF LayoutAssumed, SizesOrdered
<1> QED
  BY <1>1, ResolvedOnce, PTL

\* Multiples of a positive integer, and where they fall in a ring of c.
LEMMA Multiple ==
  ASSUME NEW c \in Nat \ {0}, NEW x \in Nat
  PROVE  /\ x \div c \in Nat /\ x % c \in 0 .. c - 1
         /\ (x \div c) * c \in Nat /\ x = (x \div c) * c + (x % c)
         /\ x \div c = 0 <=> x < c
<1>1. x \div c \in Nat /\ x % c \in 0 .. c - 1 /\ x = (x \div c) * c + (x % c)
  BY Z3
<1>2. (x \div c) * c \in Nat
  BY <1>1
<1>3. x \div c = 0 => x < c
  BY <1>1
<1>4. x \div c # 0 => (x \div c) * c >= c
  BY <1>1, Z3
<1> QED
  BY <1>1, <1>2, <1>3, <1>4

\* Overlapping frames, or hops that do not divide the ring: the frame that
\* ends with the hop in which the ring first wraps is on both sides of its end.
LEMMA SomeFrameStraddles ==
  ASSUME NEW c \in Nat, NEW f \in Nat, NEW h \in Nat,
         c >= f, f >= h, h > 0, f > h \/ c % h # 0
  PROVE  \E n \in 1 .. 3 * c :
           /\ (n * h - 1) - f + 1 >= 0
           /\ ((n * h - 1) - f + 1) \div c # (n * h - 1) \div c
<1> DEFINE q == c \div h
           n == q + 1
           last == n * h - 1
           first == last - f + 1
<1>1. q \in Nat /\ q * h \in Nat /\ c = q * h + (c % h) /\ c % h \in 0 .. h - 1
  BY Multiple
<1>2. q <= c
  BY <1>1, Z3
<1>3. n * h = q * h + h
  BY <1>1, Z3
<1>4. n \in 1 .. 3 * c
  BY <1>1, <1>2
<1>5. last \in Nat /\ last >= c /\ first \in Nat /\ first < c
  BY <1>1, <1>3
<1> HIDE DEF n, last, first, q
<1>6. first >= 0 /\ first \div c = 0 /\ last \div c # 0
  BY <1>5, Multiple
<1>7. /\ (n * h - 1) - f + 1 >= 0
      /\ ((n * h - 1) - f + 1) \div c # (n * h - 1) \div c
  BY <1>6, Zenon DEF last, first
<1> QED
  BY <1>4, <1>7, Zenon

\* Frames that are whole blocks of a ring of blocks never straddle.
LEMMA NoBlockStraddles ==
  ASSUME NEW c \in Nat, NEW h \in Nat, c >= h, h > 0, c % h = 0,
         NEW n \in Nat \ {0}
  PROVE  (n * h - h) \div c = (n * h - 1) \div c
<1> DEFINE k == c \div h
           m == n - 1
           first == n * h - h
           last == n * h - 1
<1>1. k \in Nat \ {0} /\ c = k * h /\ m \in Nat
  <2>1. h \in Nat \ {0}
    OBVIOUS
  <2>2. k \in Nat /\ k * h \in Nat /\ c = k * h + (c % h) /\ (k = 0 <=> c < h)
    BY <2>1, Multiple
  <2> HIDE DEF k
  <2> QED
    BY <2>2
<1>0. first = m * h
  BY Z3
<1> HIDE DEF k, m
<1> DEFINE q == m \div k
           r == m % k
<1>2. q \in Nat /\ r \in 0 .. k - 1 /\ q * k \in Nat /\ m = q * k + r
  BY <1>1, Multiple
<1> HIDE DEF q, r
<1>4. m * h = q * c + r * h
  <2>1. m * h = (q * k + r) * h
    BY <1>2
  <2>2. (q * k + r) * h = q * (k * h) + r * h
    BY <1>1, <1>2, Z3
  <2> QED
    BY <1>1, <2>1, <2>2
<1>5. r * h \in Nat /\ r * h <= c - h
  <2>1. r * h <= (k - 1) * h
    BY <1>1, <1>2, Z3
  <2>2. (k - 1) * h = k * h - h
    BY <1>1, Z3
  <2>3. r * h \in Nat
    BY <1>2
  <2> QED
    BY <1>1, <2>1, <2>2, <2>3
<1>6. q * c \in Nat /\ last = first + (h - 1)
  BY <1>0, <1>2
<1> DEFINE a == r * h
           b == r * h + (h - 1)
<1>7. a \in 0 .. c - 1 /\ b \in 0 .. c - 1 /\ first = q * c + a /\ last = q * c + b
  BY <1>0, <1>4, <1>5, <1>6
<1> HIDE DEF a, b, first, last
<1>8. (q * c + a) \div c = q
  BY <1>2, <1>7, Z3
<1>9. (q * c + b) \div c = q
  BY <1>2, <1>7, Z3
<1> QED
  BY <1>7, <1>8, <1>9 DEF first, last

(* The storage of a buffer is doubled exactly when a frame of it would     *)
(* wrap around the end of the plain ring, for every declaration.           *)
THEOREM MirrorIsNeeded == LayoutSpec => []MirroredWhenFramesStraddle
<1>1. Resolved => MirroredWhenFramesStraddle
  <2> DEFINE c == spec.capacity
             f == spec.frameSize
             h == spec.hop
  <2> SUFFICES ASSUME Resolved, IsValid
               PROVE  spec.mirrored <=>
                        \E n \in 1 .. 3 * c : FrameStraddles(spec, n)
    BY DEF MirroredWhenFramesStraddle
  <2>1. /\ c \in Nat /\ f \in Nat /\ h \in Nat /\ c >= f /\ f >= h /\ h > 0
        /\ spec.mirrored = ~(f = h /\ c % h = 0)
    BY ValidSizes DEF SizesOrdered, Mirrored
  <2>2. \A n \in 1 .. 3 * c : FrameStraddles(spec, n) <=>
           /\ (n * h - 1) - f + 1 >= 0
           /\ ((n * h - 1) - f + 1) \div c # (n * h - 1) \div c
    BY DEF FrameStraddles
  <2> HIDE DEF c, f, h
  <2>3. CASE f = h /\ c % h = 0
    <3>1. ASSUME NEW n \in 1 .. 3 * c PROVE ~FrameStraddles(spec, n)
      <4>0. n \in Nat \ {0}
        BY <2>1
      <4>1. (n * h - h) \div c = (n * h - 1) \div c
        BY <2>1, <2>3, <4>0, NoBlockStraddles
      <4>2. (n * h - 1) - f + 1 = n * h - h
        BY <2>1, <2>3
      <4> QED
        BY <2>2, <4>1, <4>2
    <3> QED
      BY <2>1, <2>3, <3>1
  <2>4. CASE ~(f = h /\ c % h = 0)
    <3>1. f > h \/ c % h # 0
      BY <2>1, <2>4
    <3>2. PICK n \in 1 .. 3 * c :
            /\ (n * h - 1) - f + 1 >= 0
            /\ ((n * h - 1) - f + 1) \div c # (n * h - 1) \div c
      BY <2>1, <3>1, SomeFrameStraddles
    <3> QED
      BY <2>1, <2>2, <2>4, <3>2
  <2> QED
    BY <2>3, <2>4
<1> QED
  BY <1>1, ResolvedOnce, PTL
=============================================================================
