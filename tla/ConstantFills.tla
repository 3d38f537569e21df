--------------------------- MODULE ConstantFills ---------------------------
(***************************************************************************)
(* Constants that streams fill.  A constant declared without a value gets  *)
(* it from the stream that writes it, which runs with the domain's process *)
(* or, from an onLoad list, when the domain loads.  Before compiling, the  *)
(* environment runs such streams itself where it can, makes the results    *)
(* the constants' values and drops the streams.                            *)
(*                                                                         *)
(* A program is a sequence of streams in source order.  What a stream      *)
(* writes is not computed: it is told apart by the stream that wrote it,   *)
(* the values it used, when it ran if it calls into the host, which turn   *)
(* it was if it calls a module that keeps state, and the tables whose      *)
(* negative elements led it outside of a block.                            *)
(***************************************************************************)
EXTENDS SequencesExt

CONSTANTS
  Constants, \* constants declared without a value
  Signals,   \* blocks that have a value at run time only
  Domains,   \* the domains with an onLoad list, in the order of the tree
  Readable   \* constants whose type has a literal: numbers and switches

Process == "process"  \* where the streams outside of onLoad lists run
Containers == <<Process>> \o Domains
Blocks == Constants \cup Signals

(* reads are the blocks that the stream names itself, also in a property   *)
(* of a call; inner the root constants that the bodies of the modules,     *)
(* loops and reactions it calls read; edge the constants whose elements,   *)
(* negative ones, it indexes a block with.                                 *)
IsStream(s) ==
  /\ s.at \in Range(Containers) /\ s.to \in Blocks
  /\ s.reads \subseteq Blocks /\ s.inner \subseteq Constants
  /\ s.host \in BOOLEAN /\ s.keeps \in BOOLEAN /\ s.edge \subseteq Constants

Uses(s) == s.reads \cup s.inner

ASSUME FillsAssumption ==
  /\ Constants \cap Signals = {} /\ Readable \subseteq Constants
  /\ Domains \in Seq(Range(Domains)) /\ Process \notin Range(Domains)

\* The places, in source order, of the streams in a container.
StreamsAt(program, container) ==
  {i \in DOMAIN program : program[i].at = container}

-----------------------------------------------------------------------------
\* A stream's reads are looked at, never the bodies that it calls.
SignalsOnly(s, filled) == s.reads \cap Signals
RuntimeRead(s, filled) == s.reads \ filled

CallsHost(s) == s.host

Targets(fills) == {s.to : s \in Range(fills)}

CanFill(s, fills) ==
  /\ s.to \in Constants \ Targets(fills)
  /\ RuntimeRead(s, Targets(fills)) = {}
  /\ ~CallsHost(s)

\* The fills found so far, and those among a container's streams.
Collect(program, container, fills) ==
  LET Upto[i \in 0 .. Len(program)] ==
        IF i = 0 THEN fills
        ELSE IF i \in StreamsAt(program, container)
                /\ CanFill(program[i], Upto[i - 1])
        THEN Append(Upto[i - 1], program[i])
        ELSE Upto[i - 1]
  IN  Upto[Len(program)]

(* The streams that can run while compiling, in the order they will: those *)
(* outside of onLoad lists, then each domain's.  One that reads a constant *)
(* needs its fill before it.                                               *)
Fills(program) ==
  LET Upto[c \in 0 .. Len(Containers)] ==
        IF c = 0 THEN << >>
        ELSE Collect(program, Containers[c], Upto[c - 1])
  IN  Upto[Len(Containers)]

-----------------------------------------------------------------------------
Initial(when) ==
  [by |-> 0, of |-> << >>, when |-> when, turn |-> 0, outside |-> {}]
Unfilled == Initial("never")
Supplied == Initial("input")

\* The blocks before anything runs, with the values signals have by then.
Blank(signal) == [b \in Blocks |-> IF b \in Signals THEN signal ELSE Unfilled]

(* A run of streams: when it is, how often they ran before, and the        *)
(* constants whose elements were folded into the code.  A negative element *)
(* that was folded reads nothing, off or 0; at run time the stream reads   *)
(* outside of the block that it indexes.                                   *)
Written(s, memory, run) ==
  [by |-> s.id, of |-> [b \in Uses(s) |-> memory[b]],
   when |-> IF s.host THEN run.when ELSE "whenever",
   turn |-> IF s.keeps THEN run.turn ELSE 0,
   outside |-> s.edge \ run.folded]

(* The blocks as they are before anything runs, and behind each place of a *)
(* program when the streams at some of its places run.                     *)
Running(program, places, memory, run) ==
  LET Behind[i \in 0 .. Len(program)] ==
        IF i = 0 THEN memory
        ELSE IF i \in places
        THEN [Behind[i - 1] EXCEPT
                ![program[i].to] = Written(program[i], Behind[i - 1], run)]
        ELSE Behind[i - 1]
  IN  Behind

RunStreams(program, places, memory, run) ==
  Running(program, places, memory, run)[Len(program)]

Compiling == [when |-> "compiling", turn |-> 0, folded |-> {}]

(* The values that constants have from the start, Unfilled for those that  *)
(* streams are left to fill.  A result that has no literal is dropped.     *)
Evaluated(program) ==
  LET fills == Fills(program)
      results == RunStreams(fills, DOMAIN fills, Blank(Unfilled), Compiling)
  IN  [c \in Constants |-> IF c \in Readable THEN results[c] ELSE Unfilled]

NotEvaluated == [c \in Constants |-> Unfilled]

\* Elements of these are folded into the code, everywhere in it.
Folded(values) == {c \in Constants : values[c] # Unfilled}

\* The places of the streams that stay: all but those that made the values.
Remaining(program, values) ==
  LET fills == Fills(program)
  IN  {i \in DOMAIN program : ~(/\ program[i] \in Range(fills)
                                /\ values[program[i].to] # Unfilled)}

-----------------------------------------------------------------------------
(* A constant belongs to the one stream that fills it.                     *)
WrittenOnce(program) ==
  \A i, j \in DOMAIN program :
    program[i].to = program[j].to /\ program[i].to \in Constants => i = j

(* A fill that runs again and again, outside of an onLoad list, keeps no   *)
(* state.                                                                  *)
FillsKeepNothing(program) ==
  \A s \in Range(Fills(program)) : s.at = Process => ~s.keeps

\* No stream uses a negative element as an index.
IndicesAreInside(program) == \A s \in Range(program) : s.edge = {}

\* The bodies that a fill calls read constants with fills before it only.
BodiesReadFilled(program) ==
  \A k \in DOMAIN Fills(program) : \A c \in Fills(program)[k].inner :
    \E j \in 1 .. k - 1 : Fills(program)[j].to = c

\* One of the streams uses a constant that nothing has filled yet.
UsesUnfilled(program, places, memory, run) ==
  LET behind == Running(program, places, memory, run)
  IN  \E i \in places : \E c \in Uses(program[i]) \cap Constants :
        behind[i - 1][c] = Unfilled
=============================================================================
