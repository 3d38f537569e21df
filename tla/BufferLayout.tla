---------------------------- MODULE BufferLayout ----------------------------
(***************************************************************************)
(* The layout rules shared by the validation of a declaration (BufferSpec) *)
(* and by the generated push and view code (Buffer), as they are shared    *)
(* through the C++ class BufferSpec.                                       *)
(***************************************************************************)
EXTENDS Integers

SizesOrdered(capacity, frameSize, hop) ==
  capacity >= frameSize /\ frameSize >= hop /\ hop > 0

OverlapOnly(capacity, frameSize, hop) == frameSize > hop

\* Frames that overlap, or a hop that does not divide the ring.
Mirrored(capacity, frameSize, hop) ==
  ~(frameSize = hop /\ capacity % hop = 0)
=============================================================================
