----------------------------- MODULE BufferSpec -----------------------------
(***************************************************************************)
(* How the compiler resolves a `buffer` declaration to the layout that     *)
(* validation, storage, the push code and the frame view share             *)
(* (src/src/bufferspec.cpp, BufferSpec::fromDeclaration).                  *)
(*                                                                         *)
(* A declaration is a record of its properties.  A size is an integer, or  *)
(* Unset when the property is absent or `none`, or NotConstant when it is  *)
(* not a constant integer expression.  Errors are the kinds of message,    *)
(* not their text.                                                         *)
(***************************************************************************)
EXTENDS Integers, BufferLayout

CONSTANTS
  Unset,        \* the property is not given
  NotConstant,  \* given, but not a constant integer expression
  Declarations  \* the declarations a run resolves

VARIABLES
  decl,         \* the declaration being resolved
  spec          \* what it resolved to, Unset before

layoutVars == <<decl, spec>>

Triggers == {"Full", "Half", "Quarter", "Periodic"}
Modes == {"Sliding", "Fifo", "OverlapAdd"}

(***************************************************************************)
(* One property at a time                                                  *)
(***************************************************************************)

\* evalInt: the value of a constant size, else what was there before.
EvalInt(given, default) == IF given \in Int THEN given ELSE default
IsInt(given) == given \in Int

\* triggerMode, or Periodic when only a hop is given.
TriggerOf(d) ==
  CASE d.triggerMode \in Triggers              -> d.triggerMode
    [] d.triggerMode = Unset /\ IsInt(d.hop)   -> "Periodic"
    [] OTHER                                   -> "Full"

FrameSizeOf(d) == EvalInt(d.frameSize, d.capacity)

HopAsGiven(d) == EvalInt(d.hop, d.capacity)

HopOf(d) ==
  CASE TriggerOf(d) = "Full"     -> d.capacity
    [] TriggerOf(d) = "Half"     -> d.capacity \div 2
    [] TriggerOf(d) = "Quarter"  -> d.capacity \div 4
    [] TriggerOf(d) = "Periodic" -> EvalInt(d.hop, FrameSizeOf(d))

(***************************************************************************)
(* Returns taken before the layout is computed                             *)
(***************************************************************************)

NoCapacity(d) == ~IsInt(d.capacity)
BadCapacity(d) == IsInt(d.capacity) /\ d.capacity <= 0
BadMode(d) == d.mode # Unset /\ d.mode # "Sliding"
BadTriggerMode(d) == d.triggerMode # Unset /\ d.triggerMode \notin Triggers

ReturnsEarly(d) ==
  NoCapacity(d) \/ BadCapacity(d) \/ BadMode(d) \/ BadTriggerMode(d)

(***************************************************************************)
(* The errors recorded on the way                                          *)
(***************************************************************************)

ReadOnlyErrors(d) == IF d.readOnly THEN {"read-only property"} ELSE {}

\* `hop` is evaluated after the mode and before the trigger mode.
ReachesHop(d) == ~NoCapacity(d) /\ ~BadCapacity(d) /\ ~BadMode(d)

EarlyErrors(d) ==
  CASE NoCapacity(d)  -> IF d.capacity = Unset THEN {"capacity required"}
                                               ELSE {"capacity not constant"}
    [] BadCapacity(d) -> {"capacity not positive"}
    [] BadMode(d)     -> {"mode"}
    [] OTHER          -> (IF d.hop = NotConstant THEN {"hop not constant"} ELSE {})
                         \cup (IF BadTriggerMode(d) THEN {"triggerMode"} ELSE {})

LayoutErrors(d) ==
  LET hop == HopOf(d)
      fires == TriggerOf(d)
      rules == [
        frame   |-> d.frameSize = NotConstant,
        half    |-> fires = "Half" /\ d.capacity % 2 # 0,
        quarter |-> fires = "Quarter" /\ d.capacity % 4 # 0,
        clash   |-> IsInt(d.hop) /\ fires # "Periodic" /\ d.hop # hop,
        order   |-> ~SizesOrdered(d.capacity, FrameSizeOf(d), hop),
        switch  |-> d.trigger \notin {Unset, "switch"} ]
  IN {rule \in DOMAIN rules : rules[rule]}

Errors(d) ==
  ReadOnlyErrors(d) \cup EarlyErrors(d)
    \cup (IF ReturnsEarly(d) THEN {} ELSE LayoutErrors(d))

(***************************************************************************)
(* The mirroring decision                                                  *)
(***************************************************************************)

\* The decision is taken whether or not an error was recorded.  With
\* frameSize = hop = 0 it divides by zero: undefined behaviour.
DividesByZero(d) ==
  ~ReturnsEarly(d) /\ FrameSizeOf(d) = HopOf(d) /\ HopOf(d) = 0

FromDeclaration(d) ==
  IF DividesByZero(d) THEN [outcome |-> "undefined"]
  ELSE IF ReturnsEarly(d) THEN [outcome |-> "rejected", errors |-> Errors(d)]
  ELSE [outcome   |-> IF Errors(d) = {} THEN "valid" ELSE "rejected",
        errors    |-> Errors(d),
        capacity  |-> d.capacity,
        frameSize |-> FrameSizeOf(d),
        hop       |-> HopOf(d),
        trigger   |-> TriggerOf(d),
        mirrored  |-> Mirrored(d.capacity, FrameSizeOf(d), HopOf(d))]

(***************************************************************************)
(* One resolution per declaration (named apart from the steps of Buffer)   *)
(***************************************************************************)

Declared == decl \in Declarations /\ spec = Unset

Resolve ==
  /\ spec = Unset
  /\ spec' = FromDeclaration(decl)
  /\ UNCHANGED decl

LayoutSpec == Declared /\ [][Resolve]_layoutVars

-----------------------------------------------------------------------------
IsValid == spec # Unset /\ spec.outcome = "valid"

(* A declaration that resolves without error has a layout the push code    *)
(* and the frame view can work with: ordered sizes, a hop that matches the *)
(* trigger mode, and a trigger that names a switch (bufferspec.cpp:180-203). *)
ValidLayout ==
  IsValid =>
    /\ SizesOrdered(spec.capacity, spec.frameSize, spec.hop)
    /\ spec.trigger = "Half" => spec.capacity = 2 * spec.hop
    /\ spec.trigger = "Quarter" => spec.capacity = 4 * spec.hop
    /\ spec.trigger = "Full" => spec.frameSize = spec.capacity
    /\ decl.trigger \in {Unset, "switch"}

\* The n-th frame of a ring read in place is the frameSize samples that end
\* at sample n * hop; it straddles when it wraps around the end of the ring.
FrameStraddles(s, n) ==
  LET last == n * s.hop - 1
      first == last - s.frameSize + 1
  IN first >= 0 /\ first \div s.capacity # last \div s.capacity

(* The storage is doubled exactly when some frame would not be contiguous  *)
(* in the plain ring, so a frame view never needs a copy                   *)
(* (bufferspec.cpp:202-207).                                               *)
MirroredWhenFramesStraddle ==
  IsValid =>
    (spec.mirrored <=> \E n \in 1 .. 3 * spec.capacity : FrameStraddles(spec, n))

(* Sizes that are not ordered are reported as an error, whatever else the  *)
(* declaration says; the layout code never runs into undefined behaviour   *)
(* on them (doc/buffers_and_frequency_domain.md:87, bufferspec.cpp:180).   *)
BadSizesAreReported == spec # Unset => spec.outcome \in {"valid", "rejected"}
=============================================================================
