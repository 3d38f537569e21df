---------------------------- MODULE StringViews ----------------------------
(***************************************************************************)
(* The operations of the string runtime that return views of the strings   *)
(* they are given, or numbers.  A string is a sequence of bytes, or Null   *)
(* where the code has a view without data; positions count from 0, as in   *)
(* the code.  An operation takes the same values as its                    *)
(* __stride_jit_string_... wrapper, which only handles missing arguments.  *)
(***************************************************************************)
EXTENDS Integers, Sequences, FiniteSetsExt, Functions

CONSTANT Null  \* a view whose data is a null pointer

ASSUME NullAssumption == Null \notin Seq(Int)

Space == 32
Open == 123
Close == 125
Whitespace == {Space, 9, 13, 10}

Size(s) == IF s = Null THEN 0 ELSE Len(s)

\* The bytes from position start up to position end.
Slice(s, start, end) == SubSeq(s, start + 1, end)

Substring(s, start, len) ==
  IF s = Null \/ start < 0 \/ start >= Size(s) THEN Null
  ELSE Slice(s, start,
             IF len < 0 \/ len > Len(s) - start THEN Len(s) ELSE start + len)

-----------------------------------------------------------------------------
Trimmed(chars) == IF Size(chars) > 0 THEN Range(chars) ELSE Whitespace

Kept(s, chars) == {i \in 1 .. Len(s) : s[i] \notin Trimmed(chars)}

TrimLeft(s, chars) ==
  IF Size(s) = 0 THEN Null
  ELSE Slice(s, Min(Kept(s, chars) \cup {Len(s) + 1}) - 1, Len(s))

TrimRight(s, chars) ==
  IF Size(s) = 0 THEN Null
  ELSE Slice(s, 0, Max(Kept(s, chars) \cup {0}))

Trim(s, chars) == TrimRight(TrimLeft(s, chars), chars)

-----------------------------------------------------------------------------
\* Where needle occurs in s at or after start; an empty one occurs nowhere.
Occurrences(s, needle, start) ==
  IF Size(s) = 0 \/ Size(needle) = 0 THEN {}
  ELSE {i \in Max({start, 0}) .. Len(s) - Len(needle) :
          Slice(s, i, i + Len(needle)) = needle}

Find(s, needle, start) ==
  LET at == Occurrences(s, needle, start) IN IF at = {} THEN -1 ELSE Min(at)

BeforeTheEnd(s, needle) ==
  Max({i \in Occurrences(s, needle, 0) : i + Len(needle) < Len(s)} \cup {-1})
FindLast(s, needle) == Max(Occurrences(s, needle, 0) \cup {-1})

HasText(s, needle) == Find(s, needle, 0) >= 0

StartsWith(s, prefix) ==
  /\ s # Null /\ prefix # Null /\ Len(prefix) <= Len(s)
  /\ Slice(s, 0, Len(prefix)) = prefix

EndsWith(s, suffix) ==
  /\ s # Null /\ suffix # Null /\ Len(suffix) <= Len(s)
  /\ Slice(s, Len(s) - Len(suffix), Len(s)) = suffix

Equal(a, b) == Size(a) = Size(b) /\ (Size(a) = 0 \/ a = b)

Differ(a, b) == {i \in 1 .. Min({Size(a), Size(b)}) : a[i] # b[i]}

Compare(a, b) ==
  LET less == IF Differ(a, b) # {} THEN a[Min(Differ(a, b))] < b[Min(Differ(a, b))]
              ELSE Size(a) < Size(b)
  IN  IF Differ(a, b) = {} /\ Size(a) = Size(b) THEN 0
      ELSE IF less THEN -1 ELSE 1

-----------------------------------------------------------------------------
Separator(delim) == IF Size(delim) > 0 THEN delim ELSE <<Space>>

(* The walk that all three token functions make from one separator to the  *)
(* next; they differ in the search results, up to last, that end it.       *)
Walk(s, delim, last) ==
  LET d == Separator(delim)
      From[start \in 0 .. Len(s)] ==
        LET found == IF start < Len(s) THEN Find(s, d, start) ELSE -1
        IN  <<Slice(s, start, IF found >= 0 THEN found ELSE Len(s))>>
            \o (IF found <= last THEN << >> ELSE From[found + Len(d)])
  IN  IF Size(s) = 0 THEN << >> ELSE From[0]

NotFoundOrFirst == 0
NotFound == -1

\* At most max tokens are stored; the count goes on beyond them.
Tokenize(s, delim, max) ==
  LET all == Walk(s, delim, NotFound)
  IN  [tokens |-> SubSeq(all, 1, Min({Len(all), max})),
       count |-> Len(all), overflow |-> Len(all) > max]

TokenAt(s, delim, index) ==
  LET all == Walk(s, delim, NotFound)
  IN  IF index \in 0 .. Len(all) - 1 THEN all[index + 1] ELSE Null

TokenCount(s, delim) == Len(Walk(s, delim, NotFoundOrFirst))

-----------------------------------------------------------------------------
(* What format writes: a doubled brace is one brace, a closed pair is the  *)
(* next argument or nothing when there is none left, an open brace that is *)
(* never closed is itself.                                                 *)
DoubledOpen(fmt, p) ==
  p < Len(fmt) /\ fmt[p] = Open /\ fmt[p + 1] = Open
Doubled(fmt, p) ==
  p < Len(fmt) /\ fmt[p] \in {Open, Close} /\ fmt[p + 1] = fmt[p]

Format(fmt, args) ==
  LET Closing(p) == {q \in p + 1 .. Len(fmt) : fmt[q] = Close}
      Argument(k) == IF k <= Len(args) THEN args[k] ELSE << >>
      From[p \in 1 .. Len(fmt) + 1] == [k \in 1 .. Len(args) + 1 |->
        IF p > Len(fmt) THEN << >>
        ELSE IF Doubled(fmt, p) THEN <<fmt[p]>> \o From[p + 2][k]
        ELSE IF fmt[p] = Open /\ Closing(p) # {}
        THEN Argument(k) \o From[Min(Closing(p)) + 1][Min({k, Len(args)}) + 1]
        ELSE <<fmt[p]>> \o From[p + 1][k]]
  IN  From[1][1]
=============================================================================
