--------------------------- MODULE StringRuntime ---------------------------
(***************************************************************************)
(* The operations of the string runtime that make new strings.  Each has   *)
(* an arena of its own, per thread: a buffer that is filled from one end   *)
(* and started over when a result does not fit, while a program may still  *)
(* hold views of earlier results.                                          *)
(*                                                                         *)
(* Arenas do not touch one another, so a behaviour follows one of them.    *)
(* It sees the lengths of strings only: what becomes of the bytes of one   *)
(* result, the held one, is told by where later results are written.       *)
(***************************************************************************)
EXTENDS StringViews

CONSTANTS
  Arena,     \* bytes of each buffer: 65536
  Reserve,   \* bytes that format wants to find free: 4096
  Texts,     \* the strings a host supplies: a source and a delimiter
  Followed,  \* bound: the texts that results are made of
  MaxCount,  \* bound: copies in a result
  MaxSince   \* bound: bytes allocated after the held result

ASSUME StringsAssumption ==
  /\ Arena \in Nat /\ Reserve \in 1 .. Arena
  /\ \A t \in Texts : {t.src, t.delim} \subseteq Seq(Int) \cup {Null}
  /\ Followed \subseteq Texts
  /\ MaxCount \in Nat /\ MaxSince \in Nat

VARIABLES
  text,    \* the strings of the program
  op,      \* the operation whose arena is followed
  offset,  \* where its next result goes
  \* History:
  held,    \* the view the program holds, and the bytes its result took
  since,   \* bytes taken by results after the held one
  largest, \* the most that one of them took
  intact,  \* none of them was written over the held view
  last     \* bytes wanted of the last result, and those it has

vars == <<text, op, offset, held, since, largest, intact, last>>

Init ==
  /\ text \in Texts
  /\ op \in {"concat", "repeat", "format"}
  /\ offset = 0
  /\ held = [start |-> 0, len |-> 0, size |-> 0]
  /\ since = 0 /\ largest = 0 /\ intact = TRUE
  /\ last = [want |-> 0, written |-> 0]

Overwrites(dest, len) == dest < held.start + held.len /\ held.start <= dest + len

(* A result of len bytes and its final NUL is written at dest, and takes   *)
(* size bytes of the arena; the program may hold on to it.                 *)
Allocate(dest, len, size, want) ==
  /\ since <= MaxSince
  /\ offset' = dest + size
  /\ last' = [want |-> want, written |-> len]
  /\ \/ /\ held' = [start |-> dest, len |-> len, size |-> size]
        /\ since' = 0 /\ largest' = 0 /\ intact' = TRUE
     \/ /\ since' = since + size
        /\ largest' = IF size > largest THEN size ELSE largest
        /\ intact' = (intact /\ ~Overwrites(dest, len))
        /\ UNCHANGED held
  /\ UNCHANGED <<text, op>>

StartsOver(size) == IF offset > 0 THEN 0 ELSE offset
Room(size) == IF offset + size > Arena THEN 0 ELSE offset

\* Copies of the source, and the delimiter after them.
Total(n) == n * Size(text.src) + Size(text.delim)

\* Bound: a result without its NUL fits the arena; the code does not check.
Concat(n) ==
  /\ op = "concat"
  /\ Total(n) > 0 /\ Total(n) < Arena
  /\ Allocate(Room(Total(n) + 1), Total(n), Total(n) + 1, Total(n))

Clipped(total) == IF total > Arena - 1 THEN Arena - 1 ELSE total

\* A clipped result is made of whole copies and takes the whole arena.
Repeat(n) ==
  /\ op = "repeat"
  /\ n > 0 /\ Size(text.src) > 0
  /\ LET want == n * Size(text.src)
         copies == Clipped(want) \div Size(text.src)
     IN  Allocate(Room(Clipped(want) + 1), copies * Size(text.src),
                  Clipped(want) + 1, want)

FullToTheEnd == IF offset + 1 > Arena THEN 0 ELSE offset
FormatRoom == IF offset + Reserve > Arena THEN 0 ELSE offset

\* What does not fit behind FormatRoom is cut off.
FormatText(n) ==
  /\ op = "format"
  /\ LET available == Arena - FormatRoom - 1
         len == IF Total(n) > available THEN available ELSE Total(n)
     IN  Allocate(FormatRoom, len, len + 1, Total(n))

Next ==
  /\ text \in Followed
  /\ \E n \in 0 .. MaxCount : Concat(n) \/ Repeat(n) \/ FormatText(n)

Spec == Init /\ [][Next]_vars

-----------------------------------------------------------------------------
(***************************************************************************)
(* Properties                                                              *)
(***************************************************************************)

TypeOK ==
  /\ text \in Texts
  /\ op \in {"concat", "repeat", "format"}
  /\ offset \in 0 .. Arena
  /\ held \in [start : Nat, len : Nat, size : Nat]
  /\ since \in Nat /\ largest \in Nat /\ intact \in BOOLEAN
  /\ last \in [want : Nat, written : Nat]

Slack == IF op = "format" THEN Reserve ELSE largest

(* A view that a program keeps shows its own bytes as long as the result   *)
(* it belongs to, those made since by the same operation, and the largest  *)
(* of them once more (4096 bytes for format) fit the arena: what is        *)
(* written after a restart has not reached it                              *)
(* (strideruntime_string.cpp:301-309, 539-545, 580-587, 737-739).          *)
HeldViewsSurvive == since + held.size + Slack <= Arena + 1 => intact

(* A result is never cut because of the results before it if it is shorter *)
(* than what the operation makes sure to find: the arena, or for format    *)
(* the reserve (strideruntime_string.cpp:298-305, 578-596).                *)
ShortResultsAreWhole ==
  last.want < (IF op = "format" THEN Reserve ELSE Arena) =>
    last.written = last.want

src == text.src
delim == text.delim

RebuildsFrom(tokens) ==
  LET From[i \in 1 .. Len(tokens)] ==
        IF i = Len(tokens) THEN tokens[i]
        ELSE tokens[i] \o Separator(delim) \o From[i + 1]
  IN  IF tokens = << >> THEN << >> ELSE From[1]

Tokens == Tokenize(src, delim, Size(src) + 1)

\* Where the count does not stop at the first delimiter.
BeginsWithToken == Find(src, Separator(delim), 0) # 0

(* The tokens of a string, and the delimiter between them, are the string  *)
(* again; no token holds the delimiter; TokenAt gives the same tokens and  *)
(* none after them; and in a string that does not begin with the delimiter *)
(* TokenCount counts them (strideruntime_string.cpp:197-290).              *)
TokensAgree ==
  /\ Size(src) > 0 => RebuildsFrom(Tokens.tokens) = src
  /\ ~Tokens.overflow
  /\ \A i \in DOMAIN Tokens.tokens :
       /\ ~HasText(Tokens.tokens[i], Separator(delim))
       /\ TokenAt(src, delim, i - 1) = Tokens.tokens[i]
  /\ TokenAt(src, delim, Tokens.count) = Null
  /\ BeginsWithToken => TokenCount(src, delim) = Tokens.count

(* TokenCount counts the tokens of a string, whatever the string begins    *)
(* with: "the total number of tokens in `src` separated by `delim`"        *)
(* (doc/runtime_library.md:144, strideruntime_string.cpp:269-290).         *)
CountsAllTokens == TokenCount(src, delim) = Tokens.count

(* What searching finds is what substring cuts out, and the two ways to    *)
(* search, the tests for either end and the comparisons tell the same of   *)
(* it; what is trimmed on the left first or on the right first is the same *)
(* text, and neither end of it is left to trim                             *)
(* (strideruntime_string.cpp:12-163).                                      *)
ViewsAgree ==
  LET first == Find(src, delim, 0)
      final == FindLast(src, delim)
      piece == Substring(src, first, Size(delim))
      kept == Trim(src, delim)
  IN  /\ Size(delim) > 0 =>
           /\ first <= final /\ Find(src, delim, final + 1) = -1
           /\ HasText(src, delim) =>
                Equal(piece, delim) /\ Compare(piece, delim) = 0
           /\ StartsWith(src, delim) <=> first = 0
           /\ EndsWith(src, delim) <=>
                final >= 0 /\ final + Size(delim) = Size(src)
      /\ Equal(kept, TrimLeft(TrimRight(src, delim), delim))
      /\ \A c \in Trimmed(delim) :
           ~StartsWith(kept, <<c>>) /\ ~EndsWith(kept, <<c>>)

Escaped(s) ==
  LET From[p \in 1 .. Len(s) + 1] ==
        IF p > Len(s) THEN << >>
        ELSE (IF s[p] \in {Open, Close} THEN <<s[p], s[p]>> ELSE <<s[p]>>)
             \o From[p + 1]
  IN  From[1]

(* Text with its braces doubled is written as it was, whatever arguments   *)
(* come with it (strideruntime_string.cpp:603-617, 728-736).               *)
EscapedTextIsLiteral == src # Null => Format(Escaped(src), <<delim>>) = src
=============================================================================
