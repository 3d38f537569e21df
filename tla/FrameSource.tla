---------------------------- MODULE FrameSource -----------------------------
(***************************************************************************)
(* What a Stride buffer promises the reactions it triggers, without rings, *)
(* indices or mirrors (doc/buffers_and_frequency_domain.md 2.3 to 2.6).    *)
(*                                                                         *)
(* Samples are numbered in the order they are pushed.  The buffer holds    *)
(* the samples first+1 .. last, and a frame is an interval of them.        *)
(***************************************************************************)
EXTENDS Integers

CONSTANTS
  FrameSize,    \* N, the longest frame
  Hop,          \* H, samples between two built-in triggers
  Blocks        \* frames are whole hops rather than the newest samples

VARIABLES
  first,        \* the last sample pushed before the buffer last emptied
  last,         \* the last sample pushed
  fired,        \* the last sample that turned `ready` on, or `first`
  pending,      \* the buffer empties at the next push
  ready,        \* a frame is ready in this tick
  frame         \* the samples a reader last got, as a function from 0

vars == <<first, last, fired, pending, ready, frame>>

Init ==
  /\ first = 0 /\ last = 0 /\ fired = 0
  /\ pending = FALSE /\ ready = FALSE
  /\ frame = [i \in {} |-> 0]

\* The frame is the newest samples, up to FrameSize of them; of blocks, the
\* newest complete one, or all there is before the first is complete.
FrameEnd ==
  IF Blocks /\ last - first >= FrameSize
  THEN first + ((last - first) \div Hop) * Hop
  ELSE last

FrameLength == IF last - first < FrameSize THEN last - first ELSE FrameSize

Frame == [i \in 0 .. FrameLength - 1 |-> FrameEnd - FrameLength + 1 + i]

Push(trigger) ==
  LET from  == IF pending THEN last ELSE first
      since == IF pending THEN last ELSE fired
      fires == \/ last + 1 - from >= FrameSize /\ last + 1 - since >= Hop
               \/ trigger
  IN /\ first' = from
     /\ last' = last + 1
     /\ fired' = IF fires THEN last + 1 ELSE since
     /\ ready' = (ready \/ fires)
     /\ pending' = trigger
     /\ UNCHANGED frame

Read ==
  /\ frame' = Frame
  /\ UNCHANGED <<first, last, fired, pending, ready>>

EndTick ==
  /\ ready' = FALSE
  /\ UNCHANGED <<first, last, fired, pending, frame>>

Restart ==
  /\ first' = last /\ fired' = last
  /\ pending' = FALSE /\ ready' = FALSE
  /\ UNCHANGED <<last, frame>>

Next == Read \/ EndTick \/ Restart \/ \E trigger \in BOOLEAN : Push(trigger)

Spec == Init /\ [][Next]_vars
=============================================================================
