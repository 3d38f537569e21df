------------------------ MODULE StringRuntime_proofs ------------------------
(***************************************************************************)
(* Proofs about strings of every length: what a view a program holds is    *)
(* worth in an arena of any size, and that the operations on strings agree *)
(* with one another.  Their recursions are over places in a string; each   *)
(* is unfolded by induction over the set of places where it is known.      *)
(***************************************************************************)
EXTENDS StringRuntime, SequenceTheorems, IntegerSets, TLAPS

LEMMA SizesAreNat ==
  ASSUME NEW t \in Texts
  PROVE  Size(t.src) \in Nat /\ Size(t.delim) \in Nat
<1>1. {t.src, t.delim} \subseteq Seq(Int) \cup {Null}
  BY StringsAssumption
<1> QED  BY <1>1 DEF Size

LEMMA ProductIsNat == ASSUME NEW m \in Nat, NEW n \in Nat PROVE m * n \in Nat
  BY SMT

\* n whole copies of something fit where they were counted to.
LEMMA WholeCopiesFit ==
  ASSUME NEW total \in Nat, NEW size \in Nat \ {0}
  PROVE  (total \div size) * size \in 0 .. total
  BY SMT

(***************************************************************************)
(* Every result is written by Allocate, to a place where there is room and *)
(* that starts over only when the end is near.                             *)
(***************************************************************************)
Fits(dest, len, size) ==
  /\ dest \in Nat /\ len \in Nat /\ size \in Nat
  /\ len < size /\ dest + size <= Arena
  /\ dest = offset \/ (dest = 0 /\ offset + (IF op = "format" THEN Reserve ELSE size) > Arena)

LEMMA EveryStepAllocates ==
  ASSUME TypeOK, Next
  PROVE  \E dest, len, size, want \in Nat :
           /\ Allocate(dest, len, size, want)
           /\ Fits(dest, len, size)
           /\ want < (IF op = "format" THEN Reserve ELSE Arena) => len = want
<1> DEFINE Goal == \E dest, len, size, want \in Nat :
             /\ Allocate(dest, len, size, want)
             /\ Fits(dest, len, size)
             /\ want < (IF op = "format" THEN Reserve ELSE Arena) => len = want
<1>1. PICK n \in 0 .. MaxCount : Concat(n) \/ Repeat(n) \/ FormatText(n)
  BY DEF Next
<1>2. n \in Nat /\ Size(text.src) \in Nat /\ Size(text.delim) \in Nat
  BY SizesAreNat, StringsAssumption DEF TypeOK
<1>3. n * Size(text.src) \in Nat /\ Total(n) \in Nat
  BY <1>2, ProductIsNat DEF Total
<1>4. offset \in 0 .. Arena /\ Arena \in Nat /\ Reserve \in 1 .. Arena
  BY StringsAssumption DEF TypeOK
<1>5. CASE Concat(n)
  <2> DEFINE dest == Room(Total(n) + 1)
  <2>1. op = "concat" /\ Total(n) < Arena
        /\ Allocate(dest, Total(n), Total(n) + 1, Total(n))
    BY <1>5 DEF Concat
  <2>2. dest \in Nat /\ Fits(dest, Total(n), Total(n) + 1)
    BY <1>3, <1>4, <2>1 DEF Fits, Room
  <2> QED  BY <1>3, <2>1, <2>2
<1>6. CASE Repeat(n)
  <2> DEFINE want == n * Size(text.src)
             clip == Clipped(want)
             len == (clip \div Size(text.src)) * Size(text.src)
             dest == Room(clip + 1)
  <2>1. op = "repeat" /\ n > 0 /\ Size(text.src) > 0
        /\ Allocate(dest, len, clip + 1, want)
    BY <1>6 DEF Repeat
  <2>2. want \in Nat /\ clip \in Nat /\ clip < Arena
    BY <1>3, <1>4 DEF Clipped
  <2>3. len \in 0 .. clip
    BY <1>2, <2>1, <2>2, WholeCopiesFit
  <2>4. dest \in Nat /\ Fits(dest, len, clip + 1)
    BY <1>4, <2>1, <2>2, <2>3 DEF Fits, Room
  <2>5. want < Arena => len = want
    <3> SUFFICES ASSUME want < Arena PROVE len = want
      OBVIOUS
    <3>1. clip = n * Size(text.src)
      BY <1>3, <1>4 DEF Clipped
    <3>2. (n * Size(text.src)) \div Size(text.src) = n
      BY <1>2, <2>1, SMT
    <3> QED  BY <3>1, <3>2
  <2> QED  BY <2>1, <2>2, <2>3, <2>4, <2>5
<1>7. CASE FormatText(n)
  <2> DEFINE available == Arena - FormatRoom - 1
             len == IF Total(n) > available THEN available ELSE Total(n)
  <2>1. op = "format" /\ Allocate(FormatRoom, len, len + 1, Total(n))
    BY <1>7 DEF FormatText
  <2>2. FormatRoom \in Nat /\ available \in Nat /\ available >= Reserve - 1
    BY <1>4 DEF FormatRoom
  <2>3. Fits(FormatRoom, len, len + 1)
    BY <1>3, <1>4, <2>1, <2>2 DEF Fits, FormatRoom
  <2> QED  BY <1>3, <1>4, <2>1, <2>2, <2>3
<1> QED  BY <1>1, <1>5, <1>6, <1>7

(* Offsets, results and their sizes stay in range, for any arena           *)
(* (strideruntime_string.cpp:303-345, 520-741).                            *)
THEOREM TypeCorrect == Spec => []TypeOK
<1>1. Init => TypeOK
  BY StringsAssumption DEF Init, TypeOK
<1>2. TypeOK /\ [Next]_vars => TypeOK'
  <2> SUFFICES ASSUME TypeOK, [Next]_vars PROVE TypeOK'
    OBVIOUS
  <2>1. CASE UNCHANGED vars
    BY <2>1 DEF vars, TypeOK
  <2>2. CASE Next
    <3>1. PICK dest, len, size, want \in Nat :
            Allocate(dest, len, size, want) /\ Fits(dest, len, size)
      BY <2>2, EveryStepAllocates
    <3>2. Arena \in Nat /\ offset \in Nat /\ since \in Nat /\ largest \in Nat
      BY StringsAssumption DEF TypeOK
    <3>3. offset' \in 0 .. Arena /\ text' = text /\ op' = op
      BY <3>1, <3>2 DEF Allocate, Fits
    <3>4. last' \in [want : Nat, written : Nat]
      BY <3>1 DEF Allocate
    <3>5. CASE held' = [start |-> dest, len |-> len, size |-> size]
               /\ since' = 0 /\ largest' = 0 /\ intact' = TRUE
      BY <3>3, <3>4, <3>5 DEF TypeOK
    <3>6. CASE /\ since' = since + size
               /\ largest' = IF size > largest THEN size ELSE largest
               /\ intact' = (intact /\ ~Overwrites(dest, len))
               /\ held' = held
      <4>1. since' \in Nat /\ largest' \in Nat
        BY <3>2, <3>6
      <4>2. intact' \in BOOLEAN
        BY <3>6 DEF TypeOK
      <4> QED  BY <3>3, <3>4, <3>6, <4>1, <4>2 DEF TypeOK
    <3> QED  BY <3>1, <3>5, <3>6 DEF Allocate
  <2> QED  BY <2>1, <2>2
<1> QED  BY <1>1, <1>2, PTL DEF Spec

(* A result shorter than the room an operation makes sure of is whole      *)
(* (ShortResultsAreWhole), for every arena and any results before it.      *)
THEOREM ShortResultsStayWhole == Spec => []ShortResultsAreWhole
<1>1. Init => ShortResultsAreWhole
  BY DEF Init, ShortResultsAreWhole
<1>2. TypeOK /\ ShortResultsAreWhole /\ [Next]_vars => ShortResultsAreWhole'
  <2> SUFFICES ASSUME TypeOK, ShortResultsAreWhole, [Next]_vars
               PROVE  ShortResultsAreWhole'
    OBVIOUS
  <2>1. CASE UNCHANGED vars
    BY <2>1 DEF vars, ShortResultsAreWhole
  <2>2. CASE Next
    <3>1. PICK dest, len, size, want \in Nat :
            /\ Allocate(dest, len, size, want)
            /\ want < (IF op = "format" THEN Reserve ELSE Arena) => len = want
      BY <2>2, EveryStepAllocates
    <3> QED  BY <3>1 DEF Allocate, ShortResultsAreWhole
  <2> QED  BY <2>1, <2>2
<1> QED  BY <1>1, <1>2, TypeCorrect, PTL DEF Spec

(***************************************************************************)
(* Either no result since the held one started the arena over, and they    *)
(* lie behind it, or what was passed over at the end of the arena is less  *)
(* than Slack, so that since has grown with the offset.                    *)
(***************************************************************************)
NotStartedOver == offset = held.start + held.size + since /\ intact

StartedOver ==
  since + held.size + held.start + Slack >= Arena + 1 + offset

ArenaInv ==
  /\ held.len <= held.size
  /\ NotStartedOver \/ StartedOver
  /\ HeldViewsSurvive

LEMMA StepKeepsArenaInv ==
  ASSUME TypeOK, ArenaInv, Next
  PROVE  ArenaInv'
<1>1. PICK dest, len, size, want \in Nat :
        Allocate(dest, len, size, want) /\ Fits(dest, len, size)
  BY EveryStepAllocates
<1>2. /\ Arena \in Nat /\ Reserve \in Nat /\ offset \in Nat /\ since \in Nat
      /\ largest \in Nat /\ held.start \in Nat /\ held.len \in Nat
      /\ held.size \in Nat /\ intact \in BOOLEAN
  BY StringsAssumption DEF TypeOK
<1>3. op' = op /\ offset' = dest + size
  BY <1>1 DEF Allocate
<1>4. CASE held' = [start |-> dest, len |-> len, size |-> size]
           /\ since' = 0 /\ largest' = 0 /\ intact' = TRUE
  BY <1>1, <1>2, <1>3, <1>4
     DEF ArenaInv, NotStartedOver, HeldViewsSurvive, Fits
<1>5. CASE /\ since' = since + size
           /\ largest' = IF size > largest THEN size ELSE largest
           /\ intact' = (intact /\ ~Overwrites(dest, len))
           /\ held' = held
  <2>1. Slack \in Nat /\ Slack' \in Nat /\ Slack' >= Slack
    BY <1>2, <1>3, <1>5 DEF Slack
  <2>2. dest # offset => dest = 0 /\ offset + Slack' > Arena
    BY <1>1, <1>2, <1>3, <1>5 DEF Fits, Slack
  <2>3. CASE NotStartedOver /\ dest = offset
    <3>1. ~Overwrites(dest, len)
      BY <1>1, <1>2, <2>3 DEF ArenaInv, NotStartedOver, Overwrites
    <3>2. intact' = TRUE
      BY <1>2, <1>5, <2>3, <3>1 DEF NotStartedOver
    <3>3. NotStartedOver'
      BY <1>2, <1>3, <1>5, <2>3, <3>2 DEF NotStartedOver
    <3> QED  BY <1>5, <3>2, <3>3 DEF ArenaInv, HeldViewsSurvive
  <2>4. CASE ~(NotStartedOver /\ dest = offset)
    <3>0. /\ held'.start = held.start /\ held'.size = held.size
          /\ offset' = dest + size /\ since' = since + size /\ size \in Nat
          /\ dest = offset \/ dest = 0
      BY <1>1, <1>3, <1>5 DEF Fits
    <3>1. StartedOver'
      <4>1. CASE StartedOver
        BY <1>2, <2>1, <3>0, <4>1 DEF StartedOver
      <4>2. CASE NotStartedOver
        BY <1>2, <2>1, <2>2, <2>4, <3>0, <4>2 DEF StartedOver, NotStartedOver
      <4> QED  BY <4>1, <4>2 DEF ArenaInv
    <3>2. Overwrites(dest, len) => ~(since' + held'.size + Slack' <= Arena + 1)
      BY <1>1, <1>2, <1>3, <1>5, <2>1, <3>1 DEF StartedOver, Overwrites, Fits
    <3>3. HeldViewsSurvive'
      BY <1>1, <1>2, <1>5, <2>1, <3>2 DEF ArenaInv, HeldViewsSurvive
    <3> QED  BY <1>5, <3>1, <3>3 DEF ArenaInv
  <2> QED  BY <2>3, <2>4
<1> QED  BY <1>1, <1>4, <1>5 DEF Allocate

(* A view is not written over (HeldViewsSurvive) as long as what is made   *)
(* after it fits the arena with it, for every size of arena and reserve.   *)
THEOREM ViewsSurviveTheirSlack == Spec => []HeldViewsSurvive
<1>1. Init => ArenaInv
  BY DEF Init, ArenaInv, NotStartedOver, HeldViewsSurvive
<1>2. TypeOK /\ ArenaInv /\ [Next]_vars => ArenaInv'
  <2>1. ASSUME ArenaInv, UNCHANGED vars PROVE ArenaInv'
    BY <2>1 DEF vars, ArenaInv, NotStartedOver, StartedOver, HeldViewsSurvive, Slack
  <2> QED  BY <2>1, StepKeepsArenaInv
<1>3. ArenaInv => HeldViewsSurvive
  BY DEF ArenaInv
<1> QED  BY <1>1, <1>2, <1>3, TypeCorrect, PTL DEF Spec

-----------------------------------------------------------------------------
(***************************************************************************)
(* Slices of a string, and the first and the last of a set of positions    *)
(***************************************************************************)

Strings == Seq(Int)

(* A slice has the bytes between its positions.                            *)
LEMMA SliceIs ==
  ASSUME NEW s \in Strings, NEW a \in Nat, NEW b \in Nat, a <= b, b <= Len(s)
  PROVE  /\ Slice(s, a, b) \in Strings /\ Len(Slice(s, a, b)) = b - a
         /\ \A i \in 1 .. b - a : Slice(s, a, b)[i] = s[a + i]
<1>1. a + 1 \in Int /\ b \in Int /\ \A i \in a + 1 .. b : s[i] \in Int
  BY DEF Strings
<1>2. /\ SubSeq(s, a + 1, b) \in Seq(Int)
      /\ Len(SubSeq(s, a + 1, b)) = IF a + 1 <= b THEN b - (a + 1) + 1 ELSE 0
      /\ \A i \in 1 .. b - (a + 1) + 1 : SubSeq(s, a + 1, b)[i] = s[(a + 1) + i - 1]
  BY <1>1, SubSeqProperties
<1>3. /\ (IF a + 1 <= b THEN b - (a + 1) + 1 ELSE 0) = b - a
      /\ b - (a + 1) + 1 = b - a
      /\ \A i \in 1 .. b - a : (a + 1) + i - 1 = a + i
  OBVIOUS
<1> QED
  BY <1>2, <1>3, Zenon DEF Slice, Strings

(* Strings of the same bytes are the same.                                 *)
LEMMA SameBytes ==
  ASSUME NEW s \in Strings, NEW t \in Strings, Len(s) = Len(t),
         \A i \in 1 .. Len(s) : s[i] = t[i]
  PROVE  s = t
  BY SeqEqual DEF Strings

(* A slice of a slice is a slice.                                          *)
LEMMA SliceOfSlice ==
  ASSUME NEW s \in Strings, NEW a \in Nat, NEW b \in Nat, a <= b, b <= Len(s),
         NEW i \in Nat, NEW j \in Nat, i <= j, j <= b - a
  PROVE  Slice(Slice(s, a, b), i, j) = Slice(s, a + i, a + j)
<1> DEFINE u == Slice(s, a, b)
           v == Slice(u, i, j)
           w == Slice(s, a + i, a + j)
<1>1. u \in Strings /\ Len(u) = b - a /\ \A k \in 1 .. b - a : u[k] = s[a + k]
  BY SliceIs
<1> HIDE DEF u
<1>2. v \in Strings /\ Len(v) = j - i /\ \A k \in 1 .. j - i : v[k] = u[i + k]
  BY <1>1, SliceIs
<1>3. w \in Strings /\ Len(w) = j - i /\ \A k \in 1 .. j - i : w[k] = s[(a + i) + k]
  <2>1. /\ a + i \in Nat /\ a + j \in Nat /\ a + i <= a + j /\ a + j <= Len(s)
        /\ (a + j) - (a + i) = j - i /\ Len(s) \in Nat
    BY DEF Strings
  <2>2. /\ w \in Strings /\ Len(w) = (a + j) - (a + i)
        /\ \A k \in 1 .. (a + j) - (a + i) : w[k] = s[(a + i) + k]
    BY <2>1, SliceIs
  <2> QED
    BY <2>1, <2>2
<1> HIDE DEF v, w
<1>4. ASSUME NEW k \in 1 .. Len(v) PROVE v[k] = w[k]
  <2>1. k \in 1 .. j - i /\ i + k \in 1 .. b - a /\ a + (i + k) = (a + i) + k
    BY <1>2
  <2> QED
    BY <1>1, <1>2, <1>3, <2>1
<1>5. v = w
  BY <1>2, <1>3, <1>4, SameBytes
<1> QED
  BY <1>5 DEF u, v, w

(* The whole of a string is a slice of it.                                 *)
LEMMA WholeSlice ==
  ASSUME NEW s \in Strings PROVE Slice(s, 0, Len(s)) = s
<1>1. SubSeq(s, 1, Len(s)) = s
  BY SubSeqFull DEF Strings
<1> QED
  BY <1>1 DEF Slice

(* Adjacent slices make one.                                               *)
LEMMA SlicesJoin ==
  ASSUME NEW s \in Strings, NEW a \in Nat, NEW b \in Nat, NEW c \in Nat,
         a <= b, b <= c, c <= Len(s)
  PROVE  Slice(s, a, b) \o Slice(s, b, c) = Slice(s, a, c)
<1>1. /\ s \in Seq(Int) /\ Len(s) \in Nat
      /\ a + 1 \in 1 .. Len(s) + 1 /\ b \in (a + 1) - 1 .. Len(s) /\ c \in b .. Len(s)
  BY DEF Strings
<1>2. SubSeq(s, a + 1, b) \o SubSeq(s, b + 1, c) = SubSeq(s, a + 1, c)
  BY <1>1, ConcatAdjacentSubSeq
<1> QED
  BY <1>2 DEF Slice

(* The least and the greatest of a set of positions.                       *)
LEMMA MinIs ==
  ASSUME NEW S \in SUBSET Int, S # {}, \E b \in Int : \A x \in S : b <= x
  PROVE  Min(S) \in S /\ \A y \in S : Min(S) <= y
<1>1. \E x \in S : \A y \in S : x <= y
  BY Least
<1> QED
  BY <1>1 DEF Min

LEMMA MaxIs ==
  ASSUME NEW S \in SUBSET Int, S # {}, \E b \in Int : \A x \in S : x <= b
  PROVE  Max(S) \in S /\ \A y \in S : y <= Max(S)
<1>1. PICK x \in S : \A y \in S : y <= x
  BY Greatest
<1>2. \A y \in S : x >= y
  BY <1>1
<1>3. Max(S) \in S /\ \A y \in S : Max(S) >= y
  BY <1>2 DEF Max
<1> QED
  BY <1>3

-----------------------------------------------------------------------------
(***************************************************************************)
(* Searching                                                               *)
(***************************************************************************)

\* d lies in s behind i bytes.
Occurs(s, d, i) == i + Len(d) <= Len(s) /\ Slice(s, i, i + Len(d)) = d

(* A text of the program is a string or a view without data.               *)
LEMMA TextIs ==
  ASSUME NEW t \in Texts
  PROVE  /\ t.src = Null \/ t.src \in Strings
         /\ t.delim = Null \/ t.delim \in Strings
  BY StringsAssumption DEF Strings

LEMMA StringIs ==
  ASSUME NEW s \in Strings
  PROVE  s # Null /\ Size(s) = Len(s) /\ Len(s) \in Nat /\ DOMAIN s = 1 .. Len(s)
         /\ \A i \in 1 .. Len(s) : s[i] \in Int
  BY NullAssumption DEF Strings, Size

(* The search looks at every place from its start on.                      *)
LEMMA OccurrencesAre ==
  ASSUME NEW s \in Strings, NEW d \in Strings, Len(d) > 0, NEW start \in Nat
  PROVE  /\ Occurrences(s, d, start) \in SUBSET (0 .. Len(s))
         /\ \A i \in Int :
              i \in Occurrences(s, d, start) <=> start <= i /\ Occurs(s, d, i)
<1>1. Size(s) = Len(s) /\ Len(s) \in Nat /\ Size(d) = Len(d) /\ Len(d) \in Nat
  BY StringIs
<1>2. Max({start, 0}) = start
  <2>1. {start, 0} \in SUBSET Int /\ \E b \in Int : \A x \in {start, 0} : x <= b
    OBVIOUS
  <2>2. Max({start, 0}) \in {start, 0} /\ \A y \in {start, 0} : y <= Max({start, 0})
    BY <2>1, MaxIs
  <2> QED
    BY <2>2
<1>3. CASE Len(s) = 0
  <2>1. Occurrences(s, d, start) = {}
    BY <1>1, <1>3 DEF Occurrences
  <2>2. \A i \in Int : start <= i => ~(i + Len(d) <= Len(s))
    BY <1>1, <1>3
  <2> QED
    BY <2>1, <2>2 DEF Occurs
<1>4. CASE Len(s) # 0
  <2>1. Occurrences(s, d, start) =
          {i \in start .. Len(s) - Len(d) : Slice(s, i, i + Len(d)) = d}
    BY <1>1, <1>2, <1>4 DEF Occurrences
  <2>2. \A i \in Int : i \in start .. Len(s) - Len(d) <=> start <= i /\ i + Len(d) <= Len(s)
    BY <1>1
  <2>3. start .. Len(s) - Len(d) \subseteq 0 .. Len(s)
    BY <1>1
  <2> QED
    BY <2>1, <2>2, <2>3 DEF Occurs
<1> QED
  BY <1>3, <1>4

(* find gives the first place from its start on, or -1.                    *)
LEMMA FindIs ==
  ASSUME NEW s \in Strings, NEW d \in Strings, Len(d) > 0, NEW start \in Nat,
         NEW found, found = Find(s, d, start)
  PROVE  \/ /\ found \in Nat /\ start <= found /\ Occurs(s, d, found)
            /\ found + Len(d) <= Len(s)
            /\ \A i \in Int : start <= i /\ Occurs(s, d, i) => found <= i
         \/ found = -1 /\ \A i \in Int : start <= i => ~Occurs(s, d, i)
<1> DEFINE O == Occurrences(s, d, start)
<1>1. /\ O \in SUBSET (0 .. Len(s)) /\ Len(s) \in Nat
      /\ \A i \in Int : i \in O <=> start <= i /\ Occurs(s, d, i)
  BY OccurrencesAre, StringIs
<1>2. found = IF O = {} THEN -1 ELSE Min(O)
  BY DEF Find
<1> HIDE DEF O
<1>3. CASE O = {}
  BY <1>1, <1>2, <1>3
<1>4. CASE O # {}
  <2>1. O \in SUBSET Int /\ \E b \in Int : \A x \in O : b <= x
    BY <1>1
  <2>2. Min(O) \in O /\ \A y \in O : Min(O) <= y
    BY <1>4, <2>1, MinIs
  <2>3. found \in O /\ found \in Nat /\ \A y \in O : found <= y
    <3>1. found = Min(O)
      BY <1>2, <1>4
    <3>2. \A y \in O : y \in Nat
      BY <1>1
    <3> QED
      BY <2>2, <3>1, <3>2
  <2> QED
    BY <1>1, <2>3 DEF Occurs
<1> QED
  BY <1>3, <1>4

(* find_last gives the last place, or -1.                                  *)
LEMMA FindLastIs ==
  ASSUME NEW s \in Strings, NEW d \in Strings, Len(d) > 0,
         NEW found, found = FindLast(s, d)
  PROVE  \/ /\ found \in Nat /\ Occurs(s, d, found)
            /\ \A i \in Nat : Occurs(s, d, i) => i <= found
         \/ found = -1 /\ \A i \in Nat : ~Occurs(s, d, i)
<1> DEFINE O == Occurrences(s, d, 0)
           P == O \cup {-1}
<1>1. /\ O \in SUBSET (0 .. Len(s)) /\ Len(s) \in Nat
      /\ \A i \in Int : i \in O <=> 0 <= i /\ Occurs(s, d, i)
  BY OccurrencesAre, StringIs
<1>2. found = Max(P)
  BY DEF FindLast
<1> HIDE DEF O
<1>3. P \in SUBSET Int /\ P # {} /\ \E b \in Int : \A x \in P : x <= b
  <2>1. \A x \in P : x <= Len(s)
    BY <1>1
  <2>2. P \in SUBSET Int /\ P # {} /\ Len(s) \in Int
    BY <1>1
  <2> HIDE DEF P
  <2> QED
    BY <2>1, <2>2
<1> HIDE DEF P
<1>4. found \in P /\ \A y \in P : y <= found
  BY <1>1, <1>2, <1>3, MaxIs
<1>5. CASE found \in O
  BY <1>1, <1>4, <1>5 DEF P
<1>6. CASE found \notin O
  <2>1. found = -1
    BY <1>4, <1>6 DEF P
  <2>2. ASSUME NEW i \in Nat, Occurs(s, d, i) PROVE FALSE
    <3>1. i \in P
      BY <1>1, <2>2 DEF P
    <3> QED
      BY <1>4, <2>1, <3>1
  <2> QED
    BY <2>1, <2>2
<1> QED
  BY <1>5, <1>6

(* A string without data, or of no bytes, holds nothing.                   *)
LEMMA NothingFound ==
  ASSUME NEW s, Size(s) = 0, NEW d, NEW start
  PROVE  Find(s, d, start) = -1 /\ FindLast(s, d) = -1
<1>1. Occurrences(s, d, start) = {} /\ Occurrences(s, d, 0) = {}
  BY DEF Occurrences
<1>2. Max({-1}) = -1
  <2>1. {-1} \in SUBSET Int /\ \E b \in Int : \A x \in {-1} : x <= b
    OBVIOUS
  <2> QED
    BY <2>1, MaxIs
<1> QED
  BY <1>1, <1>2 DEF Find, FindLast

-----------------------------------------------------------------------------
(***************************************************************************)
(* The views agree                                                         *)
(***************************************************************************)

(* What is found is what substring cuts out.                               *)
LEMMA FoundIsCutOut ==
  ASSUME NEW s \in Strings, NEW d \in Strings, Len(d) > 0, NEW i \in Nat, Occurs(s, d, i)
  PROVE  Substring(s, i, Size(d)) = d
<1>1. /\ s # Null /\ Size(s) = Len(s) /\ Size(d) = Len(d)
      /\ Len(s) \in Nat /\ Len(d) \in Nat
  BY StringIs
<1>2. i + Len(d) <= Len(s) /\ Slice(s, i, i + Len(d)) = d
  BY DEF Occurs
<1>3. ~(i < 0) /\ ~(i >= Len(s)) /\ ~(Len(d) < 0) /\ ~(Len(d) > Len(s) - i)
  BY <1>1, <1>2
<1> QED
  BY <1>1, <1>2, <1>3, Zenon DEF Substring

(* Equal strings compare as such.                                          *)
LEMMA SameCompares == \A d \in Strings : Equal(d, d) /\ Compare(d, d) = 0
<1> TAKE d \in Strings
<1>1. Differ(d, d) = {}
  BY DEF Differ
<1> QED
  BY <1>1 DEF Equal, Compare

(* The two ways to search and the tests for either end agree.              *)
LEMMA SearchesAgree ==
  ASSUME NEW s, s = Null \/ s \in Strings, NEW d \in Strings, Len(d) > 0,
         NEW first, first = Find(s, d, 0), NEW final, final = FindLast(s, d)
  PROVE  /\ first <= final /\ Find(s, d, final + 1) = -1
         /\ HasText(s, d) =>
              /\ Equal(Substring(s, first, Size(d)), d)
              /\ Compare(Substring(s, first, Size(d)), d) = 0
         /\ StartsWith(s, d) <=> first = 0
         /\ EndsWith(s, d) <=> final >= 0 /\ final + Size(d) = Size(s)
<1>1. d # Null /\ Size(d) = Len(d) /\ Len(d) \in Nat \ {0}
  BY StringIs
<1>2. HasText(s, d) <=> first >= 0
  BY DEF HasText
<1>3. CASE s = Null
  <2>1. Size(s) = 0
    BY <1>3 DEF Size
  <2>2. first = -1 /\ final = -1 /\ Find(s, d, final + 1) = -1
    BY <2>1, NothingFound
  <2>3. ~StartsWith(s, d) /\ ~EndsWith(s, d)
    BY <1>3 DEF StartsWith, EndsWith
  <2> QED
    BY <1>2, <2>2, <2>3
<1>4. CASE s \in Strings
  <2>1. s # Null /\ Size(s) = Len(s) /\ Len(s) \in Nat
    BY <1>4, StringIs
  <2>2. \/ /\ first \in Nat /\ Occurs(s, d, first) /\ first + Len(d) <= Len(s)
           /\ \A i \in Nat : Occurs(s, d, i) => first <= i
        \/ first = -1 /\ \A i \in Nat : ~Occurs(s, d, i)
    <3>1. 0 \in Nat /\ \A i \in Nat : i \in Int /\ 0 <= i
      OBVIOUS
    <3> QED
      BY <1>4, <3>1, FindIs
  <2>3. \/ /\ final \in Nat /\ Occurs(s, d, final)
           /\ \A i \in Nat : Occurs(s, d, i) => i <= final
        \/ final = -1 /\ \A i \in Nat : ~Occurs(s, d, i)
    BY <1>4, FindLastIs
  <2>4. first <= final
    BY <2>2, <2>3
  <2>5. Find(s, d, final + 1) = -1
    <3> DEFINE next == Find(s, d, final + 1)
    <3>1. final + 1 \in Nat
      BY <2>3
    <3>2. \/ next \in Nat /\ final + 1 <= next /\ Occurs(s, d, next)
          \/ next = -1
      BY <1>4, <3>1, FindIs
    <3> HIDE DEF next
    <3>3. ASSUME next \in Nat, final + 1 <= next, Occurs(s, d, next) PROVE FALSE
      BY <2>3, <3>3
    <3>4. next = -1
      BY <3>2, <3>3
    <3> QED
      BY <3>4 DEF next
  <2>6. ASSUME first >= 0
        PROVE  /\ Equal(Substring(s, first, Size(d)), d)
               /\ Compare(Substring(s, first, Size(d)), d) = 0
    <3>1. Substring(s, first, Size(d)) = d
      BY <1>4, <2>2, <2>6, FoundIsCutOut
    <3> QED
      BY <3>1, SameCompares
  <2>7. StartsWith(s, d) <=> Occurs(s, d, 0)
    BY <1>1, <2>1 DEF StartsWith, Occurs
  <2>8. EndsWith(s, d) <=> Len(s) - Len(d) \in Nat /\ Occurs(s, d, Len(s) - Len(d))
    <3>1. (Len(s) - Len(d)) + Len(d) = Len(s) /\ Len(s) <= Len(s)
          /\ (Len(d) <= Len(s) <=> Len(s) - Len(d) \in Nat)
      BY <1>1, <2>1
    <3> QED
      BY <1>1, <2>1, <3>1, Zenon DEF EndsWith, Occurs
  <2>9. Occurs(s, d, 0) <=> first = 0
    BY <2>2
  <2>10. Len(s) - Len(d) \in Nat /\ Occurs(s, d, Len(s) - Len(d))
           <=> final >= 0 /\ final + Len(d) = Len(s)
    <3>1. ASSUME Len(s) - Len(d) \in Nat, Occurs(s, d, Len(s) - Len(d))
          PROVE  final >= 0 /\ final + Len(d) = Len(s)
      <4>1. final \in Nat /\ Len(s) - Len(d) <= final
        BY <2>3, <3>1
      <4>2. final + Len(d) <= Len(s)
        BY <2>3, <4>1 DEF Occurs
      <4> QED
        BY <1>1, <2>1, <4>1, <4>2
    <3>2. ASSUME final >= 0, final + Len(d) = Len(s)
          PROVE  Len(s) - Len(d) \in Nat /\ Occurs(s, d, Len(s) - Len(d))
      <4>1. final \in Nat /\ Occurs(s, d, final) /\ Len(s) - Len(d) = final
        BY <1>1, <2>1, <2>3, <3>2
      <4> QED
        BY <4>1
    <3> QED
      BY <3>1, <3>2
  <2> QED
    BY <1>1, <1>2, <2>1, <2>4, <2>5, <2>6, <2>7, <2>8, <2>9, <2>10
<1> QED
  BY <1>3, <1>4

(* Trimming keeps what lies between the first and the last byte to keep.   *)
LEMMA TrimmedBetween ==
  ASSUME NEW s \in Strings, NEW d, NEW a \in Kept(s, d), NEW b \in Kept(s, d),
         \A i \in Kept(s, d) : a <= i /\ i <= b
  PROVE  /\ TrimLeft(s, d) = Slice(s, a - 1, Len(s))
         /\ TrimRight(s, d) = Slice(s, 0, b)
<1> DEFINE K == Kept(s, d)
<1>1. Size(s) = Len(s) /\ Len(s) \in Nat
  BY StringIs
<1>2. K \in SUBSET (1 .. Len(s)) /\ a \in K /\ b \in K
  BY DEF Kept
<1>3. \A i \in K : a <= i /\ i <= b
  OBVIOUS
<1> HIDE DEF K
<1>4. Size(s) # 0
  BY <1>1, <1>2
<1> DEFINE P == K \cup {Len(s) + 1}
           Q == K \cup {0}
<1>5. Min(P) = a
  <2>1. P \in SUBSET Int /\ P # {} /\ \A x \in P : a <= x
    <3>1. \A x \in K : x \in Int /\ a <= x
      BY <1>2, <1>3
    <3>2. Len(s) + 1 \in Int /\ a <= Len(s) + 1
      BY <1>1, <1>2
    <3> QED
      BY <3>1, <3>2
  <2>2. a \in P /\ a \in Int
    BY <1>2
  <2> HIDE DEF P
  <2>3. Min(P) \in P /\ \A y \in P : Min(P) <= y
    BY <2>1, <2>2, MinIs
  <2>4. Min(P) <= a /\ a <= Min(P) /\ Min(P) \in Int
    BY <2>1, <2>2, <2>3
  <2> QED
    BY <2>2, <2>4
<1>6. Max(Q) = b
  <2>1. Q \in SUBSET Int /\ Q # {} /\ \A x \in Q : x <= b
    BY <1>1, <1>2, <1>3
  <2>2. b \in Q /\ b \in Int
    BY <1>2
  <2> HIDE DEF Q
  <2>3. Max(Q) \in Q /\ \A y \in Q : y <= Max(Q)
    BY <2>1, <2>2, MaxIs
  <2>4. Max(Q) <= b /\ b <= Max(Q) /\ Max(Q) \in Int
    BY <2>1, <2>2, <2>3
  <2> QED
    BY <2>2, <2>4
<1> QED
  BY <1>4, <1>5, <1>6 DEF TrimLeft, TrimRight, K

(* A string of nothing to keep is trimmed to nothing.                      *)
LEMMA TrimmedToNothing ==
  ASSUME NEW s \in Strings, NEW d, Kept(s, d) = {}
  PROVE  /\ Size(TrimLeft(s, d)) = 0 /\ Size(TrimRight(s, d)) = 0
<1>1. Size(s) = Len(s) /\ Len(s) \in Nat
  BY StringIs
<1>2. CASE Len(s) = 0
  BY <1>1, <1>2 DEF TrimLeft, TrimRight, Size
<1>3. CASE Len(s) # 0
  <2>1. Min({Len(s) + 1}) = Len(s) + 1 /\ Max({0}) = 0
    <3>1. /\ {Len(s) + 1} \in SUBSET Int /\ {0} \in SUBSET Int /\ Len(s) + 1 \in Int
          /\ \A x \in {Len(s) + 1} : Len(s) + 1 <= x
          /\ \A x \in {0} : x <= 0
      BY <1>1
    <3> QED
      BY <3>1, MinIs, MaxIs
  <2>2. /\ TrimLeft(s, d) = Slice(s, (Len(s) + 1) - 1, Len(s))
        /\ TrimRight(s, d) = Slice(s, 0, 0)
    BY <1>1, <1>3, <2>1 DEF TrimLeft, TrimRight
  <2>3. \A i \in 0 .. Len(s) : Slice(s, i, i) \in Strings /\ Len(Slice(s, i, i)) = 0
    <3> TAKE i \in 0 .. Len(s)
    <3>1. i \in Nat /\ i <= i /\ i <= Len(s) /\ i - i = 0
      BY <1>1
    <3>2. Slice(s, i, i) \in Strings /\ Len(Slice(s, i, i)) = i - i
      BY <3>1, SliceIs
    <3> QED
      BY <3>1, <3>2
  <2>4. (Len(s) + 1) - 1 = Len(s) /\ Len(s) \in 0 .. Len(s) /\ 0 \in 0 .. Len(s)
    BY <1>1
  <2> QED
    BY <2>2, <2>3, <2>4, StringIs
<1> QED
  BY <1>2, <1>3

(* A string of no bytes is trimmed to one without data.                    *)
LEMMA NothingToTrim ==
  ASSUME NEW s, Size(s) = 0, NEW d
  PROVE  TrimLeft(s, d) = Null /\ TrimRight(s, d) = Null
  BY DEF TrimLeft, TrimRight

(* Trimming either end first gives the same, with neither end left.        *)
LEMMA TrimsAgree ==
  ASSUME NEW s, s = Null \/ s \in Strings, NEW d
  PROVE  /\ Equal(Trim(s, d), TrimLeft(TrimRight(s, d), d))
         /\ \A c \in Trimmed(d) :
              ~StartsWith(Trim(s, d), <<c>>) /\ ~EndsWith(Trim(s, d), <<c>>)
<1>0. Equal(Null, Null) /\ \A c : ~StartsWith(Null, <<c>>) /\ ~EndsWith(Null, <<c>>)
  BY DEF Equal, Size, StartsWith, EndsWith
<1>1. CASE s = Null
  <2>1. Size(s) = 0 /\ Size(Null) = 0
    BY <1>1 DEF Size
  <2>2. Trim(s, d) = Null /\ TrimLeft(TrimRight(s, d), d) = Null
    BY <2>1, NothingToTrim DEF Trim
  <2> QED
    BY <1>0, <2>2
<1>2. CASE s \in Strings /\ Kept(s, d) = {}
  <2>1. Trim(s, d) = Null /\ TrimLeft(TrimRight(s, d), d) = Null
    BY <1>2, TrimmedToNothing, NothingToTrim DEF Trim
  <2> QED
    BY <1>0, <2>1
<1>3. CASE s \in Strings /\ Kept(s, d) # {}
  <2> DEFINE K == Kept(s, d)
             n == Len(s)
  <2>0. s \in Strings /\ n \in Nat
    BY <1>3, StringIs
  <2>1. K \in SUBSET Int /\ \A i \in K : 1 <= i /\ i <= n
    BY <2>0 DEF Kept
  <2>2. PICK a \in K : \A i \in K : a <= i
    <3>1. K # {} /\ 1 \in Int
      BY <1>3
    <3> HIDE DEF K
    <3> QED
      BY <2>1, <3>1, Least
  <2>3. PICK b \in K : \A i \in K : i <= b
    <3>1. K # {} /\ n \in Int
      BY <1>3, <2>0
    <3> HIDE DEF K, n
    <3> QED
      BY <2>1, <3>1, Greatest
  <2>4. a \in 1 .. n /\ b \in 1 .. n /\ a <= b /\ a - 1 \in Nat
    BY <2>0, <2>1, <2>2, <2>3
  <2>5. \A i \in 1 .. n : i \in K <=> s[i] \notin Trimmed(d)
    BY DEF Kept
  <2> DEFINE L == Slice(s, a - 1, n)
             R == Slice(s, 0, b)
             M == Slice(s, a - 1, b)
             k == b - (a - 1)
  <2>6. TrimLeft(s, d) = L /\ TrimRight(s, d) = R
    BY <2>0, <2>2, <2>3, TrimmedBetween
  <2>7. /\ L \in Strings /\ Len(L) = n - (a - 1)
        /\ \A i \in 1 .. n - (a - 1) : L[i] = s[(a - 1) + i]
    <3>1. a - 1 \in Nat /\ a - 1 <= n /\ n <= n
      BY <2>0, <2>4
    <3> QED
      BY <2>0, <3>1, SliceIs
  <2>8. R \in Strings /\ Len(R) = b /\ \A i \in 1 .. b : R[i] = s[i]
    <3>1. 0 \in Nat /\ b \in Nat /\ 0 <= b /\ b <= n /\ b - 0 = b
      BY <2>0, <2>4
    <3>2. /\ R \in Strings /\ Len(R) = b - 0
          /\ \A i \in 1 .. b - 0 : R[i] = s[0 + i]
      BY <2>0, <3>1, SliceIs
    <3> QED
      BY <3>1, <3>2
  <2>9. M \in Strings /\ Len(M) = k /\ \A i \in 1 .. k : M[i] = s[(a - 1) + i]
    <3>1. a - 1 \in Nat /\ b \in Nat /\ a - 1 <= b /\ b <= n
      BY <2>0, <2>4
    <3> QED
      BY <2>0, <3>1, SliceIs
  <2>10. Slice(L, 0, k) = M /\ Slice(R, a - 1, b) = M
    <3>1. /\ a - 1 \in Nat /\ a - 1 <= n /\ n <= n /\ k \in Nat /\ 0 <= k
          /\ k <= n - (a - 1) /\ (a - 1) + 0 = a - 1 /\ (a - 1) + k = b
      BY <2>0, <2>4
    <3>2. Slice(L, 0, k) = Slice(s, (a - 1) + 0, (a - 1) + k)
      BY <2>0, <3>1, SliceOfSlice
    <3>3. /\ 0 \in Nat /\ b \in Nat /\ 0 <= b /\ b <= n /\ a - 1 <= b /\ b <= b - 0
          /\ 0 + (a - 1) = a - 1 /\ 0 + b = b
      BY <2>0, <2>4
    <3>4. Slice(R, a - 1, b) = Slice(s, 0 + (a - 1), 0 + b)
      BY <2>0, <3>1, <3>3, SliceOfSlice
    <3> QED
      BY <3>1, <3>2, <3>3, <3>4
  <2> HIDE DEF K, L, R, M
  <2>11. TrimRight(L, d) = Slice(L, 0, k)
    <3>1. 1 \in Kept(L, d) /\ k \in Kept(L, d)
      <4>1. /\ 1 \in 1 .. n - (a - 1) /\ k \in 1 .. n - (a - 1)
            /\ (a - 1) + 1 = a /\ (a - 1) + k = b
        BY <2>0, <2>4
      <4>2. L[1] \notin Trimmed(d) /\ L[k] \notin Trimmed(d)
        BY <2>2, <2>3, <2>4, <2>5, <2>7, <4>1
      <4> QED
        BY <2>7, <4>1, <4>2 DEF Kept
    <3>2. ASSUME NEW i \in Kept(L, d) PROVE 1 <= i /\ i <= k
      <4>1. i \in 1 .. n - (a - 1) /\ L[i] \notin Trimmed(d)
        BY <2>7 DEF Kept
      <4>2. (a - 1) + i \in 1 .. n /\ s[(a - 1) + i] \notin Trimmed(d)
        BY <2>0, <2>4, <2>7, <4>1
      <4>3. (a - 1) + i <= b
        BY <2>3, <2>5, <4>2
      <4> QED
        BY <2>0, <2>4, <4>1, <4>3
    <3> QED
      BY <2>7, <3>1, <3>2, TrimmedBetween
  <2>12. TrimLeft(R, d) = Slice(R, a - 1, b)
    <3>1. a \in Kept(R, d) /\ b \in Kept(R, d)
      BY <2>2, <2>3, <2>4, <2>5, <2>8 DEF Kept
    <3>2. ASSUME NEW i \in Kept(R, d) PROVE a <= i /\ i <= b
      <4>1. i \in 1 .. b /\ R[i] \notin Trimmed(d)
        BY <2>8 DEF Kept
      <4>2. i \in 1 .. n /\ i \in K
        BY <2>0, <2>4, <2>5, <2>8, <4>1
      <4> QED
        BY <2>2, <2>3, <4>2
    <3> QED
      BY <2>8, <3>1, <3>2, TrimmedBetween
  <2>13. Trim(s, d) = M /\ TrimLeft(TrimRight(s, d), d) = M
    BY <2>6, <2>10, <2>11, <2>12 DEF Trim
  <2>14. ASSUME NEW c \in Trimmed(d) PROVE ~StartsWith(M, <<c>>) /\ ~EndsWith(M, <<c>>)
    <3>1. k \in Nat \ {0} /\ (a - 1) + 1 = a /\ (a - 1) + k = b
      BY <2>0, <2>4
    <3>2. M[1] \notin Trimmed(d) /\ M[k] \notin Trimmed(d)
      <4>1. 1 \in 1 .. k /\ k \in 1 .. k
        BY <3>1
      <4> QED
        BY <2>2, <2>3, <2>4, <2>5, <2>9, <3>1, <4>1
    <3> HIDE DEF k
    <3>3. Len(<<c>>) = 1 /\ <<c>>[1] = c
      OBVIOUS
    <3>4. Slice(M, 0, 1)[1] = M[1]
      <4>1. 0 \in Nat /\ 1 \in Nat /\ 0 <= 1 /\ 1 <= Len(M) /\ 1 \in 1 .. 1 - 0 /\ 0 + 1 = 1
        BY <2>9, <3>1
      <4>2. \A i \in 1 .. 1 - 0 : Slice(M, 0, 1)[i] = M[0 + i]
        BY <2>9, <4>1, SliceIs
      <4> QED
        BY <4>1, <4>2
    <3>5. Slice(M, k - 1, k)[1] = M[k]
      <4>1. /\ k - 1 \in Nat /\ k \in Nat /\ k - 1 <= k /\ k <= Len(M)
            /\ 1 \in 1 .. k - (k - 1) /\ (k - 1) + 1 = k
        BY <2>9, <3>1
      <4>2. \A i \in 1 .. k - (k - 1) : Slice(M, k - 1, k)[i] = M[(k - 1) + i]
        BY <2>9, <4>1, SliceIs
      <4> QED
        BY <4>1, <4>2
    <3>6. ~StartsWith(M, <<c>>)
      BY <3>2, <3>3, <3>4 DEF StartsWith
    <3>7. ~EndsWith(M, <<c>>)
      BY <2>9, <3>2, <3>3, <3>5 DEF EndsWith
    <3> QED
      BY <3>6, <3>7
  <2>15. Equal(M, M)
    BY DEF Equal
  <2> QED
    BY <2>13, <2>14, <2>15
<1> QED
  BY <1>1, <1>2, <1>3

(* The operations that return views agree with one another, for every      *)
(* string and delimiter (strideruntime_string.cpp:12-163).                 *)
THEOREM ViewsAlwaysAgree == Spec => []ViewsAgree
<1>1. TypeOK => ViewsAgree
  <2> SUFFICES ASSUME TypeOK PROVE ViewsAgree
    OBVIOUS
  <2>1. /\ src = Null \/ src \in Strings
        /\ delim = Null \/ delim \in Strings
    BY TextIs DEF TypeOK, src, delim
  <2>2. Size(delim) > 0 => delim \in Strings /\ Len(delim) > 0
    BY <2>1 DEF Size
  <2> QED
    BY <2>1, <2>2, SearchesAgree, TrimsAgree DEF ViewsAgree
<1> QED
  BY <1>1, TypeCorrect, PTL

-----------------------------------------------------------------------------
(***************************************************************************)
(* The walk over the tokens                                                *)
(***************************************************************************)

\* The next separator d, and the walk from start on when g has what follows.
NextCut(s, d, start) == IF start < Len(s) THEN Find(s, d, start) ELSE -1

WalkFrom(s, d, end, g, start) ==
  <<Slice(s, start, IF NextCut(s, d, start) >= 0 THEN NextCut(s, d, start) ELSE Len(s))>>
  \o (IF NextCut(s, d, start) <= end THEN << >> ELSE g[NextCut(s, d, start) + Len(d)])

Walks(s, d, end, g, from) ==
  g = [start \in from .. Len(s) |-> WalkFrom(s, d, end, g, start)]

(* A separator is a string of some bytes.                                  *)
LEMMA SeparatorIs ==
  ASSUME NEW d, d = Null \/ d \in Strings
  PROVE  Separator(d) \in Strings /\ Len(Separator(d)) \in Nat \ {0}
<1>1. CASE Size(d) > 0
  BY <1>1, StringIs DEF Separator, Size
<1>2. CASE ~(Size(d) > 0)
  <2>1. Separator(d) = <<32>>
    BY <1>2 DEF Separator, Space
  <2> QED
    BY <2>1 DEF Strings
<1> QED
  BY <1>1, <1>2

(* The walk goes on behind the next separator, or stops.                   *)
LEMMA NextCutIs ==
  ASSUME NEW s \in Strings, NEW d \in Strings, Len(d) > 0, NEW start \in 0 .. Len(s),
         NEW found, found = NextCut(s, d, start)
  PROVE  \/ /\ found \in Nat /\ start <= found /\ Occurs(s, d, found)
            /\ found + Len(d) \in start + 1 .. Len(s)
            /\ \A i \in Int : start <= i /\ Occurs(s, d, i) => found <= i
         \/ found = -1 /\ \A i \in Int : start <= i => ~Occurs(s, d, i)
<1>1. Len(s) \in Nat /\ Len(d) \in Nat
  BY StringIs
<1>2. CASE start < Len(s)
  <2>1. start \in Nat /\ found = Find(s, d, start)
    BY <1>1, <1>2 DEF NextCut
  <2>2. \/ /\ found \in Nat /\ start <= found /\ Occurs(s, d, found)
           /\ found + Len(d) <= Len(s)
           /\ \A i \in Int : start <= i /\ Occurs(s, d, i) => found <= i
        \/ found = -1 /\ \A i \in Int : start <= i => ~Occurs(s, d, i)
    BY <2>1, FindIs
  <2>3. found \in Nat /\ start <= found /\ found + Len(d) <= Len(s) =>
          found + Len(d) \in start + 1 .. Len(s)
    BY <1>1, <2>1
  <2> QED
    BY <2>2, <2>3
<1>3. CASE ~(start < Len(s))
  <2>1. found = -1
    BY <1>3 DEF NextCut
  <2>2. \A i \in Int : start <= i => ~Occurs(s, d, i)
    BY <1>1, <1>3 DEF Occurs
  <2> QED
    BY <2>1, <2>2
<1> QED
  BY <1>2, <1>3

(* What the walk reads from start on lies behind start.                    *)
LEMMA WalkLooksAhead ==
  ASSUME NEW s \in Strings, NEW d \in Strings, Len(d) > 0, NEW end \in {-1, 0},
         NEW start \in 0 .. Len(s), NEW g, NEW h,
         \A x \in start + 1 .. Len(s) : g[x] = h[x]
  PROVE  WalkFrom(s, d, end, g, start) = WalkFrom(s, d, end, h, start)
<1> DEFINE found == NextCut(s, d, start)
<1>1. (found \in Nat /\ found + Len(d) \in start + 1 .. Len(s)) \/ found = -1
  BY NextCutIs
<1>2. found <= end \/ g[found + Len(d)] = h[found + Len(d)]
  <2> HIDE DEF found
  <2> QED
    BY <1>1
<1> QED
  BY <1>2 DEF WalkFrom

(* The walk is what its recursion calls for.                               *)
LEMMA WalkUnfolds ==
  ASSUME NEW s \in Strings, Len(s) > 0, NEW delimiter, NEW end \in {-1, 0},
         delimiter = Null \/ delimiter \in Strings,
         NEW d, d = Separator(delimiter)
  PROVE  \E g : Walks(s, d, end, g, 0) /\ Walk(s, delimiter, end) = g[0]
<1> DEFINE n == Len(s)
           S == {k \in Nat : k <= n => \E g : Walks(s, d, end, g, n - k)}
<1>1. d \in Strings /\ Len(d) > 0 /\ n \in Nat /\ Size(s) = n
  BY SeparatorIs, StringIs
<1>2. 0 \in S
  <2> DEFINE none == [x \in {} |-> 0]
             g == [x \in n .. n |-> WalkFrom(s, d, end, none, x)]
  <2>1. ASSUME NEW u, NEW v, NEW x \in n .. n
        PROVE  WalkFrom(s, d, end, u, x) = WalkFrom(s, d, end, v, x)
    <3>1. x = n /\ n \in 0 .. Len(s)
      BY <1>1
    <3>2. ASSUME NEW y \in n + 1 .. Len(s) PROVE u[y] = v[y]
      BY <1>1
    <3> HIDE DEF n
    <3>3. WalkFrom(s, d, end, u, n) = WalkFrom(s, d, end, v, n)
      BY <1>1, <3>1, <3>2, WalkLooksAhead
    <3> QED
      BY <3>1, <3>3
  <2>2. g = [x \in n .. n |-> WalkFrom(s, d, end, g, x)]
    BY <2>1, Zenon
  <2>3. Walks(s, d, end, g, n - 0)
    <3>1. n - 0 = n
      BY <1>1
    <3> HIDE DEF g
    <3> QED
      BY <2>2, <3>1 DEF Walks
  <2> QED
    BY <2>3
<1>3. ASSUME NEW k \in Nat, k \in S PROVE k + 1 \in S
  <2> SUFFICES ASSUME k + 1 <= n PROVE \E g : Walks(s, d, end, g, n - (k + 1))
    OBVIOUS
  <2> DEFINE from == n - (k + 1)
  <2>1. from \in 0 .. n /\ from + 1 = n - k /\ k <= n
    BY <1>1
  <2>2. PICK g : Walks(s, d, end, g, from + 1)
    BY <1>3, <2>1
  <2> DEFINE h == [x \in from .. n |-> WalkFrom(s, d, end, g, x)]
  <2> HIDE DEF from
  <2>3. \A x \in from + 1 .. n : g[x] = WalkFrom(s, d, end, g, x)
    BY <2>2, Zenon DEF Walks
  <2>4. \A x \in from + 1 .. n : h[x] = g[x]
    <3>1. \A x \in from + 1 .. n : x \in from .. n
      BY <1>1, <2>1
    <3> QED
      BY <2>3, <3>1
  <2>5. ASSUME NEW x \in from .. n
        PROVE  WalkFrom(s, d, end, g, x) = WalkFrom(s, d, end, h, x)
    <3>1. x \in 0 .. Len(s) /\ \A y \in x + 1 .. Len(s) : y \in from + 1 .. n
      BY <1>1, <2>1
    <3>2. \A y \in x + 1 .. Len(s) : g[y] = h[y]
      BY <2>4, <3>1
    <3> HIDE DEF h
    <3> QED
      BY <1>1, <3>1, <3>2, WalkLooksAhead
  <2>6. h = [x \in from .. n |-> WalkFrom(s, d, end, h, x)]
    BY <2>5, Zenon
  <2> HIDE DEF h
  <2>7. Walks(s, d, end, h, from)
    BY <2>6 DEF Walks
  <2> QED
    BY <2>7 DEF from
<1>4. n \in S
  <2> HIDE DEF S
  <2> QED
    BY <1>1, <1>2, <1>3, Induction
<1>5. \E g : Walks(s, d, end, g, 0)
  <2>1. n - n = 0
    BY <1>1
  <2> QED
    BY <1>1, <1>4, <2>1
<1> DEFINE W == CHOOSE g : Walks(s, d, end, g, 0)
<1>6. Walks(s, d, end, W, 0)
  BY <1>5, Zenon
<1>7. Walk(s, delimiter, end) = W[0]
  BY <1>1 DEF Walk, Walks, WalkFrom, NextCut
<1> HIDE DEF W
<1> QED
  BY <1>6, <1>7

-----------------------------------------------------------------------------
(***************************************************************************)
(* The tokens of a walk: token i starts at st[i] and ends where the next   *)
(* separator is, or at the end of the string                               *)
(***************************************************************************)

TokenEnd(s, d, st, m, i) == IF i = m THEN Len(s) ELSE st[i + 1] - Len(d)

CutAt(s, d, ts, st, m) ==
  /\ m \in Nat \ {0} /\ ts \in Seq(Strings) /\ Len(ts) = m
  /\ st \in [1 .. m -> 0 .. Len(s)] /\ st[1] + m <= Len(s) + 1
  /\ \A i \in 1 .. m :
       /\ st[i] <= TokenEnd(s, d, st, m, i)
       /\ ts[i] = Slice(s, st[i], TokenEnd(s, d, st, m, i))
       /\ i < m => Occurs(s, d, TokenEnd(s, d, st, m, i))
       /\ \A j \in Int : st[i] <= j /\ Occurs(s, d, j) =>
            i < m /\ TokenEnd(s, d, st, m, i) <= j

Cut(s, d, start, ts) == \E st, m : CutAt(s, d, ts, st, m) /\ st[1] = start

(* The last token has no separator behind it.                              *)
LEMMA LastToken ==
  ASSUME NEW s \in Strings, NEW d \in Strings, Len(d) > 0, NEW start \in 0 .. Len(s),
         \A i \in Int : start <= i => ~Occurs(s, d, i)
  PROVE  Cut(s, d, start, <<Slice(s, start, Len(s))>>)
<1> DEFINE n == Len(s)
           t == Slice(s, start, n)
           st == [i \in 1 .. 1 |-> start]
<1>1. n \in Nat /\ start \in Nat
  BY StringIs
<1>2. t \in Strings
  <2>1. start <= n /\ n <= n
    BY <1>1
  <2> QED
    BY <1>1, <2>1, SliceIs
<1>3. st[1] = start /\ st \in [1 .. 1 -> 0 .. n] /\ start + 1 <= n + 1
  BY <1>1
<1>4. TokenEnd(s, d, st, 1, 1) = n
  BY DEF TokenEnd
<1>5. <<t>> \in Seq(Strings) /\ Len(<<t>>) = 1 /\ <<t>>[1] = t
  BY <1>2
<1> HIDE DEF st
<1>6. CutAt(s, d, <<Slice(s, start, n)>>, st, 1)
  <2>1. ASSUME NEW i \in 1 .. 1
        PROVE  /\ st[i] <= TokenEnd(s, d, st, 1, i)
               /\ <<t>>[i] = Slice(s, st[i], TokenEnd(s, d, st, 1, i))
               /\ ~(i < 1)
               /\ \A j \in Int : st[i] <= j => ~Occurs(s, d, j)
    <3>1. i = 1
      OBVIOUS
    <3> QED
      BY <1>1, <1>3, <1>4, <1>5, <3>1
  <2> HIDE DEF t
  <2> QED
    BY <1>3, <1>5, <2>1 DEF CutAt, t
<1> QED
  BY <1>3, <1>6 DEF Cut

(* A token goes before those behind its separator.                         *)
LEMMA TokenBefore ==
  ASSUME NEW s \in Strings, NEW d \in Strings, Len(d) > 0, NEW start \in 0 .. Len(s),
         NEW found \in Nat, start <= found, Occurs(s, d, found),
         found + Len(d) \in start + 1 .. Len(s),
         \A i \in Int : start <= i /\ Occurs(s, d, i) => found <= i,
         NEW ts, Cut(s, d, found + Len(d), ts)
  PROVE  Cut(s, d, start, <<Slice(s, start, found)>> \o ts)
<1> DEFINE n == Len(s)
           t == Slice(s, start, found)
           more == <<t>> \o ts
<1>1. n \in Nat /\ start \in Nat /\ Len(d) \in Nat
  BY StringIs
<1>2. PICK st, m : CutAt(s, d, ts, st, m) /\ st[1] = found + Len(d)
  BY DEF Cut
<1>3. /\ m \in Nat \ {0} /\ ts \in Seq(Strings) /\ Len(ts) = m
      /\ st \in [1 .. m -> 0 .. n] /\ st[1] + m <= n + 1
  BY <1>2 DEF CutAt
<1>4. t \in Strings
  <2>1. found <= n
    BY <1>1
  <2> QED
    BY <1>1, <2>1, SliceIs
<1>5. /\ more \in Seq(Strings) /\ Len(more) = m + 1 /\ more[1] = t
      /\ \A i \in 2 .. m + 1 : more[i] = ts[i - 1]
  <2>1. <<t>> \in Seq(Strings) /\ Len(<<t>>) = 1 /\ <<t>>[1] = t
    BY <1>4
  <2> HIDE DEF t
  <2>2. /\ more \in Seq(Strings) /\ Len(more) = 1 + m
        /\ \A i \in 1 .. 1 + m : more[i] = IF i <= 1 THEN <<t>>[i] ELSE ts[i - 1]
    BY <1>3, <2>1, ConcatProperties
  <2> HIDE DEF more
  <2> QED
    BY <1>3, <2>1, <2>2
<1> DEFINE st2 == [i \in 1 .. m + 1 |-> IF i = 1 THEN start ELSE st[i - 1]]
<1>6. /\ st2[1] = start /\ \A i \in 2 .. m + 1 : st2[i] = st[i - 1]
      /\ st2 \in [1 .. m + 1 -> 0 .. n]
  <2>1. \A i \in 1 .. m + 1 : i = 1 \/ i - 1 \in 1 .. m
    BY <1>3
  <2>2. 1 \in 1 .. m + 1 /\ \A i \in 2 .. m + 1 : i # 1 /\ i \in 1 .. m + 1
    BY <1>3
  <2> QED
    BY <1>3, <2>1, <2>2
<1>7. start + (m + 1) <= n + 1
  BY <1>1, <1>2, <1>3
<1> HIDE DEF st2, t, more
<1>8. TokenEnd(s, d, st2, m + 1, 1) = found
  <2>1. 1 # m + 1 /\ 2 \in 2 .. m + 1
    BY <1>3
  <2>2. st2[1 + 1] = st[1]
    BY <1>6, <2>1
  <2> QED
    BY <1>1, <1>2, <2>1, <2>2 DEF TokenEnd
<1>9. ASSUME NEW i \in 2 .. m + 1
      PROVE  TokenEnd(s, d, st2, m + 1, i) = TokenEnd(s, d, st, m, i - 1)
  <2>1. CASE i = m + 1
    BY <1>3, <2>1 DEF TokenEnd
  <2>2. CASE i # m + 1
    <3>1. i + 1 \in 2 .. m + 1 /\ (i + 1) - 1 = (i - 1) + 1 /\ i - 1 # m
      BY <1>3, <2>2
    <3>2. st2[i + 1] = st[(i - 1) + 1]
      BY <1>6, <3>1
    <3> QED
      BY <2>2, <3>1, <3>2 DEF TokenEnd
  <2> QED
    BY <2>1, <2>2
<1>10. ASSUME NEW i \in 1 .. m + 1
       PROVE  /\ st2[i] <= TokenEnd(s, d, st2, m + 1, i)
              /\ more[i] = Slice(s, st2[i], TokenEnd(s, d, st2, m + 1, i))
              /\ i < m + 1 => Occurs(s, d, TokenEnd(s, d, st2, m + 1, i))
              /\ \A j \in Int : st2[i] <= j /\ Occurs(s, d, j) =>
                   i < m + 1 /\ TokenEnd(s, d, st2, m + 1, i) <= j
  <2>1. CASE i = 1
    <3>1. i < m + 1
      BY <1>3, <2>1
    <3> QED
      BY <1>5, <1>6, <1>8, <2>1, <3>1 DEF t
  <2>2. CASE i # 1
    <3>1. i \in 2 .. m + 1 /\ i - 1 \in 1 .. m /\ (i < m + 1 <=> i - 1 < m)
      BY <1>3, <2>2
    <3>2. /\ st[i - 1] <= TokenEnd(s, d, st, m, i - 1)
          /\ ts[i - 1] = Slice(s, st[i - 1], TokenEnd(s, d, st, m, i - 1))
          /\ i - 1 < m => Occurs(s, d, TokenEnd(s, d, st, m, i - 1))
          /\ \A j \in Int : st[i - 1] <= j /\ Occurs(s, d, j) =>
               i - 1 < m /\ TokenEnd(s, d, st, m, i - 1) <= j
      BY <1>2, <3>1 DEF CutAt
    <3>3. /\ st2[i] = st[i - 1] /\ more[i] = ts[i - 1]
          /\ TokenEnd(s, d, st2, m + 1, i) = TokenEnd(s, d, st, m, i - 1)
      BY <1>5, <1>6, <1>9, <3>1
    <3> QED
      BY <3>1, <3>2, <3>3
  <2> QED
    BY <2>1, <2>2
<1>11. CutAt(s, d, more, st2, m + 1)
  <2>1. m + 1 \in Nat \ {0}
    BY <1>3
  <2> QED
    BY <1>5, <1>6, <1>7, <1>10, <2>1 DEF CutAt
<1> QED
  BY <1>6, <1>11 DEF Cut, more, t

(* Every walk to the last separator cuts the string into its tokens.       *)
LEMMA WalkCuts ==
  ASSUME NEW s \in Strings, NEW d \in Strings, Len(d) > 0, NEW g, Walks(s, d, -1, g, 0)
  PROVE  \A start \in 0 .. Len(s) : Cut(s, d, start, g[start])
<1> DEFINE n == Len(s)
           S == {k \in Nat : \A x \in 0 .. n : x >= n - k => Cut(s, d, x, g[x])}
<1>1. n \in Nat /\ Len(d) \in Nat
  BY StringIs
<1>2. ASSUME NEW x \in 0 .. n, \A y \in x + 1 .. n : Cut(s, d, y, g[y])
      PROVE  Cut(s, d, x, g[x])
  <2> DEFINE found == NextCut(s, d, x)
  <2>1. g[x] = WalkFrom(s, d, -1, g, x)
    BY Zenon DEF Walks
  <2>2. \/ /\ found \in Nat /\ x <= found /\ Occurs(s, d, found)
           /\ found + Len(d) \in x + 1 .. n
           /\ \A i \in Int : x <= i /\ Occurs(s, d, i) => found <= i
        \/ found = -1 /\ \A i \in Int : x <= i => ~Occurs(s, d, i)
    BY NextCutIs
  <2>3. g[x] = <<Slice(s, x, IF found >= 0 THEN found ELSE n)>>
               \o (IF found <= -1 THEN << >> ELSE g[found + Len(d)])
    BY <2>1 DEF WalkFrom
  <2> HIDE DEF found
  <2>4. CASE found = -1
    <3>1. \A i \in Int : x <= i => ~Occurs(s, d, i)
      BY <2>2, <2>4
    <3>2. Cut(s, d, x, <<Slice(s, x, n)>>)
      BY <3>1, LastToken
    <3>3. Slice(s, x, n) \in Strings
      <4>1. x \in Nat /\ x <= n /\ n <= n
        BY <1>1
      <4> QED
        BY <1>1, <4>1, SliceIs
    <3>4. <<Slice(s, x, n)>> \o << >> = <<Slice(s, x, n)>>
      <4> DEFINE t == Slice(s, x, n)
      <4>1. <<t>> \in Seq(Strings)
        BY <3>3
      <4> HIDE DEF t
      <4>2. <<t>> \o << >> = <<t>>
        BY <4>1, ConcatEmptySeq
      <4> QED
        BY <4>2 DEF t
    <3> QED
      BY <2>3, <2>4, <3>2, <3>4
  <2>5. CASE found # -1
    <3>1. /\ found \in Nat /\ x <= found /\ Occurs(s, d, found)
          /\ found + Len(d) \in x + 1 .. n
          /\ \A i \in Int : x <= i /\ Occurs(s, d, i) => found <= i
      BY <2>2, <2>5
    <3>2. Cut(s, d, found + Len(d), g[found + Len(d)])
      BY <1>2, <3>1
    <3>3. found >= 0 /\ ~(found <= -1)
      BY <3>1
    <3>4. g[x] = <<Slice(s, x, found)>> \o g[found + Len(d)]
      BY <2>3, <3>3, Zenon
    <3>5. Cut(s, d, x, <<Slice(s, x, found)>> \o g[found + Len(d)])
      BY <3>1, <3>2, TokenBefore
    <3> QED
      BY <3>4, <3>5
  <2> QED
    BY <2>4, <2>5
<1>3. 0 \in S
  <2>1. ASSUME NEW x \in 0 .. n, x >= n - 0 PROVE Cut(s, d, x, g[x])
    <3>1. \A y \in x + 1 .. n : FALSE
      BY <1>1, <2>1
    <3> QED
      BY <1>2, <3>1
  <2> QED
    BY <2>1
<1>4. ASSUME NEW k \in Nat, k \in S PROVE k + 1 \in S
  <2>1. ASSUME NEW x \in 0 .. n, x >= n - (k + 1) PROVE Cut(s, d, x, g[x])
    <3>1. \A y \in x + 1 .. n : y \in 0 .. n /\ y >= n - k
      BY <1>1, <2>1
    <3>2. \A y \in x + 1 .. n : Cut(s, d, y, g[y])
      BY <1>4, <3>1
    <3> QED
      BY <1>2, <3>2
  <2> QED
    BY <2>1
<1>5. n \in S
  <2> HIDE DEF S
  <2> QED
    BY <1>1, <1>3, <1>4, Induction
<1> QED
  BY <1>1, <1>5

(* Where token i starts and ends, and where the next one starts.           *)
LEMMA TokenPlaces ==
  ASSUME NEW s \in Strings, NEW d \in Strings, Len(d) > 0, NEW ts, NEW st, NEW m,
         CutAt(s, d, ts, st, m), NEW i \in 1 .. m,
         NEW e, e = TokenEnd(s, d, st, m, i)
  PROVE  /\ st[i] \in Nat /\ e \in Nat /\ st[i] <= e /\ e <= Len(s)
         /\ ts[i] = Slice(s, st[i], e)
         /\ i < m => /\ i + 1 \in 1 .. m /\ st[i + 1] = e + Len(d) /\ st[i + 1] <= Len(s)
                     /\ Slice(s, e, st[i + 1]) = d
<1>1. /\ m \in Nat \ {0} /\ st \in [1 .. m -> 0 .. Len(s)]
      /\ st[i] <= e /\ ts[i] = Slice(s, st[i], e)
      /\ i < m => Occurs(s, d, e)
  BY DEF CutAt
<1>2. Len(s) \in Nat /\ Len(d) \in Nat
  BY StringIs
<1>3. CASE i = m
  <2>1. e = Len(s)
    BY <1>3 DEF TokenEnd
  <2> QED
    BY <1>1, <1>2, <1>3, <2>1
<1>4. CASE i # m
  <2>1. i < m /\ i + 1 \in 1 .. m
    BY <1>1, <1>4
  <2>2. e = st[i + 1] - Len(d)
    BY <1>4 DEF TokenEnd
  <2>3. st[i] \in 0 .. Len(s) /\ st[i + 1] \in 0 .. Len(s)
    BY <1>1, <2>1
  <2>4. e \in Nat /\ st[i + 1] = e + Len(d) /\ e <= Len(s)
    BY <1>1, <1>2, <2>2, <2>3
  <2>5. Slice(s, e, st[i + 1]) = d
    BY <1>1, <2>1, <2>4 DEF Occurs
  <2> QED
    BY <1>1, <2>1, <2>3, <2>4, <2>5
<1> QED
  BY <1>3, <1>4

(* Joined by the separator, the tokens are the string again.               *)
LEMMA TokensRebuild ==
  ASSUME NEW s \in Strings, NEW d \in Strings, Len(d) > 0, d = Separator(delim),
         NEW ts, NEW st, NEW m, CutAt(s, d, ts, st, m)
  PROVE  RebuildsFrom(ts) = Slice(s, st[1], Len(s))
<1> DEFINE n == Len(s)
           Body(g) == [i \in 1 .. Len(ts) |->
                         IF i = Len(ts) THEN ts[i] ELSE ts[i] \o Separator(delim) \o g[i + 1]]
           whole == [i \in 1 .. m |-> Slice(s, st[i], n)]
           R == CHOOSE g : g = Body(g)
<1>1. /\ n \in Nat /\ m \in Nat \ {0} /\ Len(ts) = m
      /\ ts \in Seq(Strings)
  BY StringIs DEF CutAt
<1>2. ASSUME NEW i \in 1 .. m
      PROVE  Slice(s, st[i], n) =
               IF i = m THEN ts[i] ELSE ts[i] \o d \o Slice(s, st[i + 1], n)
  <2> DEFINE e == TokenEnd(s, d, st, m, i)
  <2>1. CASE i = m
    <3>1. e = n
      BY <2>1 DEF TokenEnd
    <3> QED
      BY <2>1, <3>1, TokenPlaces
  <2>2. CASE i # m
    <3>1. i < m
      BY <1>1, <2>2
    <3>2. /\ st[i] \in Nat /\ e \in Nat /\ st[i] <= e /\ ts[i] = Slice(s, st[i], e)
          /\ st[i + 1] = e + Len(d) /\ st[i + 1] <= n /\ Slice(s, e, st[i + 1]) = d
      BY <3>1, TokenPlaces
    <3> HIDE DEF e
    <3>3. st[i + 1] \in Nat /\ e <= st[i + 1] /\ st[i] <= st[i + 1] /\ n <= n
      BY <1>1, <3>2, StringIs
    <3>4. Slice(s, st[i], e) \o Slice(s, e, st[i + 1]) = Slice(s, st[i], st[i + 1])
      BY <3>2, <3>3, SlicesJoin
    <3>5. Slice(s, st[i], st[i + 1]) \o Slice(s, st[i + 1], n) = Slice(s, st[i], n)
      <4> DEFINE a == st[i]
                 b == st[i + 1]
      <4>1. /\ a \in Nat /\ b \in Nat /\ n \in Nat
            /\ a <= b /\ b <= n /\ n <= Len(s)
        BY <1>1, <3>2, <3>3
      <4> HIDE DEF a, b, n
      <4>2. Slice(s, a, b) \o Slice(s, b, n) = Slice(s, a, n)
        BY <4>1, SlicesJoin
      <4> QED
        BY <4>2 DEF a, b
    <3> QED
      BY <2>2, <3>2, <3>4, <3>5
  <2> QED
    BY <2>1, <2>2
<1>3. whole = Body(whole)
  <2>1. ASSUME NEW i \in 1 .. m, i # m
        PROVE  whole[i + 1] = Slice(s, st[i + 1], n)
    <3>1. i + 1 \in 1 .. m
      BY <1>1, <2>1
    <3> QED
      BY <3>1
  <2>2. ASSUME NEW i \in 1 .. m
        PROVE  Slice(s, st[i], n) =
                 IF i = m THEN ts[i] ELSE ts[i] \o Separator(delim) \o whole[i + 1]
    <3> HIDE DEF whole
    <3> QED
      BY <1>2, <2>1, <2>2
  <2>3. whole = [i \in 1 .. m |->
                   IF i = m THEN ts[i] ELSE ts[i] \o Separator(delim) \o whole[i + 1]]
    BY <2>2, Zenon
  <2> HIDE DEF whole
  <2> QED
    BY <1>1, <2>3
<1>4. R = Body(R)
  <2> HIDE DEF Body, whole
  <2> QED
    BY <1>3
<1>5. RebuildsFrom(ts) = R[1]
  <2>1. ts # << >>
    BY <1>1
  <2> QED
    BY <2>1 DEF RebuildsFrom
<1> HIDE DEF R
<1>6. \A i \in 1 .. m : R[i] =
         IF i = m THEN ts[i] ELSE ts[i] \o Separator(delim) \o R[i + 1]
  BY <1>1, <1>4
<1> DEFINE S == {k \in Nat : \A i \in 1 .. m : i >= m - k => R[i] = Slice(s, st[i], n)}
<1>7. 0 \in S
  <2>1. ASSUME NEW i \in 1 .. m, i >= m - 0 PROVE R[i] = Slice(s, st[i], n)
    <3>1. i = m
      BY <1>1, <2>1
    <3> QED
      BY <1>2, <1>6, <3>1
  <2> QED
    BY <2>1
<1>8. ASSUME NEW k \in Nat, k \in S PROVE k + 1 \in S
  <2>1. ASSUME NEW i \in 1 .. m, i >= m - (k + 1) PROVE R[i] = Slice(s, st[i], n)
    <3>1. CASE i = m
      BY <1>2, <1>6, <3>1
    <3>2. CASE i # m
      <4>1. i + 1 \in 1 .. m /\ i + 1 >= m - k
        BY <1>1, <2>1, <3>2
      <4>2. R[i + 1] = Slice(s, st[i + 1], n)
        BY <1>8, <4>1
      <4> QED
        BY <1>2, <1>6, <3>2, <4>2
    <3> QED
      BY <3>1, <3>2
  <2> QED
    BY <2>1
<1>9. m \in S
  <2> HIDE DEF S
  <2> QED
    BY <1>1, <1>7, <1>8, Induction
<1>10. R[1] = Slice(s, st[1], n)
  <2>1. 1 \in 1 .. m /\ 1 >= m - m
    BY <1>1
  <2> QED
    BY <1>9, <2>1
<1> QED
  BY <1>5, <1>10

(* No token holds the separator.                                           *)
LEMMA NoSeparatorInside ==
  ASSUME NEW s \in Strings, NEW d \in Strings, Len(d) > 0, NEW ts, NEW st, NEW m,
         CutAt(s, d, ts, st, m), NEW i \in 1 .. m
  PROVE  ~HasText(ts[i], d)
<1> DEFINE e == TokenEnd(s, d, st, m, i)
           a == st[i]
           u == ts[i]
<1>1. a \in Nat /\ e \in Nat /\ a <= e /\ e <= Len(s) /\ u = Slice(s, a, e)
  BY TokenPlaces
<1>2. \A j \in Int : a <= j /\ Occurs(s, d, j) => i < m /\ e <= j
  BY DEF CutAt
<1>3. Len(d) \in Nat /\ Len(s) \in Nat
  BY StringIs
<1> HIDE DEF e, a, u
<1>4. u \in Strings /\ Len(u) = e - a
  BY <1>1, SliceIs
<1>5. ASSUME NEW j \in Nat, Occurs(u, d, j) PROVE FALSE
  <2>1. j + Len(d) <= e - a /\ Slice(u, j, j + Len(d)) = d
    BY <1>4, <1>5 DEF Occurs
  <2>2. j + Len(d) \in Nat /\ j <= j + Len(d)
    BY <1>3
  <2>3. Slice(u, j, j + Len(d)) = Slice(s, a + j, a + (j + Len(d)))
    BY <1>1, <2>1, <2>2, SliceOfSlice
  <2>4. a + (j + Len(d)) = (a + j) + Len(d) /\ (a + j) + Len(d) <= Len(s)
        /\ a + j \in Int /\ a <= a + j
    BY <1>1, <1>3, <2>1
  <2>5. Occurs(s, d, a + j)
    BY <2>1, <2>3, <2>4 DEF Occurs
  <2>6. e <= a + j
    BY <1>2, <2>4, <2>5
  <2> QED
    BY <1>1, <1>3, <2>1, <2>6
<1>6. Find(u, d, 0) = -1
  <2> DEFINE found == Find(u, d, 0)
  <2>1. (found \in Nat /\ Occurs(u, d, found)) \/ found = -1
    BY <1>4, FindIs
  <2> HIDE DEF found
  <2>2. found = -1
    BY <1>5, <2>1
  <2> QED
    BY <2>2 DEF found
<1> QED
  BY <1>6 DEF HasText, u

(* The walk of TokenCount differs at a separator at the very start only.   *)
LEMMA CountWalk ==
  ASSUME NEW s \in Strings, Len(s) > 0, NEW d \in Strings, Len(d) > 0,
         NEW g, Walks(s, d, -1, g, 0), NEW h, Walks(s, d, 0, h, 0)
  PROVE  IF Find(s, d, 0) = 0 THEN Len(h[0]) = 1 ELSE h[0] = g[0]
<1> DEFINE n == Len(s)
           S == {k \in Nat : \A x \in 1 .. n : x >= n - k => h[x] = g[x]}
<1>1. n \in Nat /\ Len(d) \in Nat
  BY StringIs
<1>2. /\ \A x \in 0 .. n : g[x] = WalkFrom(s, d, -1, g, x)
      /\ \A x \in 0 .. n : h[x] = WalkFrom(s, d, 0, h, x)
  BY Zenon DEF Walks
<1>3. ASSUME NEW x \in 0 .. n, \A y \in x + 1 .. n : h[y] = g[y],
             NextCut(s, d, x) # 0
      PROVE  h[x] = g[x]
  <2> DEFINE found == NextCut(s, d, x)
  <2>1. (found \in Nat /\ found + Len(d) \in x + 1 .. n) \/ found = -1
    BY NextCutIs
  <2>2. /\ g[x] = <<Slice(s, x, IF found >= 0 THEN found ELSE n)>>
                  \o (IF found <= -1 THEN << >> ELSE g[found + Len(d)])
        /\ h[x] = <<Slice(s, x, IF found >= 0 THEN found ELSE n)>>
                  \o (IF found <= 0 THEN << >> ELSE h[found + Len(d)])
    BY <1>2 DEF WalkFrom
  <2>3. found # 0
    BY <1>3
  <2> HIDE DEF found
  <2>4. CASE found = -1
    BY <2>2, <2>4
  <2>5. CASE found # -1
    <3>1. h[found + Len(d)] = g[found + Len(d)] /\ ~(found <= 0) /\ ~(found <= -1)
      BY <1>3, <2>1, <2>3, <2>5
    <3> QED
      BY <2>2, <3>1
  <2> QED
    BY <2>4, <2>5
<1>4. ASSUME NEW x \in 1 .. n PROVE x \in 0 .. n /\ NextCut(s, d, x) # 0
  <2> DEFINE found == NextCut(s, d, x)
  <2>1. x \in 0 .. n /\ x >= 1
    BY <1>1
  <2>2. (found \in Nat /\ x <= found) \/ found = -1
    BY <2>1, NextCutIs
  <2> HIDE DEF found
  <2>3. found # 0
    BY <1>1, <2>1, <2>2
  <2> QED
    BY <2>1, <2>3 DEF found
<1>5. 0 \in S
  <2>1. ASSUME NEW x \in 1 .. n, x >= n - 0 PROVE h[x] = g[x]
    <3>1. \A y \in x + 1 .. n : FALSE
      BY <1>1, <2>1
    <3> QED
      BY <1>3, <1>4, <3>1
  <2> QED
    BY <2>1
<1>6. ASSUME NEW k \in Nat, k \in S PROVE k + 1 \in S
  <2>1. ASSUME NEW x \in 1 .. n, x >= n - (k + 1) PROVE h[x] = g[x]
    <3>1. \A y \in x + 1 .. n : y \in 1 .. n /\ y >= n - k
      BY <1>1, <2>1
    <3>2. \A y \in x + 1 .. n : h[y] = g[y]
      BY <1>6, <3>1
    <3> QED
      BY <1>3, <1>4, <3>2
  <2> QED
    BY <2>1
<1>7. n \in S
  <2> HIDE DEF S
  <2> QED
    BY <1>1, <1>5, <1>6, Induction
<1>8. \A y \in 0 + 1 .. n : h[y] = g[y]
  BY <1>1, <1>7
<1>9. NextCut(s, d, 0) = Find(s, d, 0) /\ 0 \in 0 .. n
  BY <1>1 DEF NextCut
<1>10. CASE Find(s, d, 0) = 0
  <2>1. h[0] = <<Slice(s, 0, 0)>> \o << >>
    <3> DEFINE found == NextCut(s, d, 0)
    <3>1. h[0] = <<Slice(s, 0, IF found >= 0 THEN found ELSE n)>>
                 \o (IF found <= 0 THEN << >> ELSE h[found + Len(d)])
      BY <1>2, <1>9 DEF WalkFrom
    <3>2. found = 0
      BY <1>9, <1>10
    <3> HIDE DEF found
    <3>3. found >= 0 /\ found <= 0
      BY <3>2
    <3> QED
      BY <3>1, <3>2, <3>3
  <2>2. Len(<<Slice(s, 0, 0)>> \o << >>) = 1
    <3> DEFINE t == Slice(s, 0, 0)
    <3>1. t \in Strings
      <4>1. 0 \in Nat /\ 0 <= 0 /\ 0 <= n
        BY <1>1
      <4> QED
        BY <4>1, SliceIs
    <3> HIDE DEF t
    <3>2. <<t>> \in Seq(Strings) /\ Len(<<t>>) = 1
      BY <3>1
    <3>3. <<t>> \o << >> = <<t>>
      BY <3>2, ConcatEmptySeq
    <3> QED
      BY <3>2, <3>3 DEF t
  <2> QED
    BY <1>10, <2>1, <2>2
<1>11. CASE Find(s, d, 0) # 0
  BY <1>3, <1>8, <1>9, <1>11
<1> QED
  BY <1>10, <1>11

(* A string of no bytes has no tokens.                                     *)
LEMMA NoTokens ==
  ASSUME NEW s, Size(s) = 0, NEW d
  PROVE  \A end : Walk(s, d, end) = << >>
  BY DEF Walk

LEMMA MinOfTwo ==
  ASSUME NEW a \in Int, NEW b \in Int, a <= b PROVE Min({a, b}) = a
<1>1. {a, b} \in SUBSET Int /\ {a, b} # {} /\ \A x \in {a, b} : a <= x
  OBVIOUS
<1>2. Min({a, b}) \in {a, b} /\ \A y \in {a, b} : Min({a, b}) <= y
  BY <1>1, MinIs
<1> QED
  BY <1>2

(* The three token functions tell the same of every string, and joined by  *)
(* the delimiter its tokens are the string again: no byte is lost          *)
(* (strideruntime_string.cpp:197-290).                                     *)
THEOREM TokensAlwaysAgree == Spec => []TokensAgree
<1>1. TypeOK => TokensAgree
  <2> SUFFICES ASSUME TypeOK PROVE TokensAgree
    OBVIOUS
  <2> DEFINE d == Separator(delim)
             all == Walk(src, delim, -1)
             max == Size(src) + 1
             got == Tokenize(src, delim, max)
  <2>0. /\ src = Null \/ src \in Strings
        /\ delim = Null \/ delim \in Strings
    BY TextIs DEF TypeOK, src, delim
  <2>1. d \in Strings /\ Len(d) > 0
    BY <2>0, SeparatorIs
  <2>2. /\ got.tokens = SubSeq(all, 1, Min({Len(all), max}))
        /\ got.count = Len(all) /\ got.overflow = (Len(all) > max)
    BY DEF Tokenize, NotFound
  <2>3. /\ \A i : TokenAt(src, delim, i) =
                    IF i \in 0 .. Len(all) - 1 THEN all[i + 1] ELSE Null
        /\ TokenCount(src, delim) = Len(Walk(src, delim, 0))
    BY DEF TokenAt, TokenCount, NotFound, NotFoundOrFirst
  <2>4. ASSUME Len(all) \in Nat, Len(all) <= max, max \in Nat
        PROVE  /\ got.tokens = SubSeq(all, 1, Len(all)) /\ ~got.overflow
               /\ TokenAt(src, delim, got.count) = Null
               /\ \A i \in 1 .. Len(all) : TokenAt(src, delim, i - 1) = all[i]
    <3> DEFINE n == Len(all)
    <3>1. n \in Nat /\ n <= max /\ max \in Int /\ n \in Int
      BY <2>4
    <3>2. /\ ~(n \in 0 .. n - 1) /\ ~(n > max)
          /\ \A i \in 1 .. n : i - 1 \in 0 .. n - 1 /\ (i - 1) + 1 = i
      BY <3>1
    <3>3. Min({n, max}) = n
      <4> HIDE DEF n, max
      <4> QED
        BY <3>1, MinOfTwo
    <3> HIDE DEF all, got, max
    <3> QED
      BY <2>2, <2>3, <3>2, <3>3
  <2>5. CASE src = Null \/ Len(src) = 0
    <3>1. Size(src) = 0
      BY <2>5 DEF Size
    <3>2. all = << >> /\ Walk(src, delim, 0) = << >>
      BY <3>1, NoTokens
    <3>3. Len(all) = 0 /\ max = 1
      BY <3>1, <3>2
    <3>4. /\ got.tokens = SubSeq(all, 1, Len(all)) /\ ~got.overflow
          /\ TokenAt(src, delim, got.count) = Null
      BY <2>4, <3>3
    <3>5. got.tokens = << >>
      <4>1. SubSeq(<< >>, 1, 0) = << >>
        BY SubSeqEmpty
      <4> QED
        BY <3>2, <3>3, <3>4, <4>1
    <3>6. DOMAIN got.tokens = {}
      BY <3>5
    <3>7. Find(src, d, 0) = -1
      BY <3>1, NothingFound
    <3>8. TokenCount(src, delim) = 0 /\ got.count = 0
      BY <2>2, <2>3, <3>2, <3>3
    <3> HIDE DEF got, max
    <3> QED
      BY <3>1, <3>4, <3>6, <3>7, <3>8 DEF TokensAgree, Tokens, BeginsWithToken, got, max
  <2>6. CASE src \in Strings /\ Len(src) > 0
    <3>0. src \in Strings /\ Size(src) = Len(src) /\ Len(src) \in Nat \ {0}
      BY <2>6, StringIs
    <3>1. PICK g : Walks(src, d, -1, g, 0) /\ all = g[0]
      BY <2>0, <2>6, WalkUnfolds
    <3>2. PICK h : Walks(src, d, 0, h, 0) /\ Walk(src, delim, 0) = h[0]
      BY <2>0, <2>6, WalkUnfolds
    <3> HIDE DEF d, all, got, max
    <3>3. Cut(src, d, 0, all)
      <4>1. 0 \in 0 .. Len(src)
        BY <3>0
      <4> QED
        BY <2>1, <3>0, <3>1, <4>1, WalkCuts
    <3>4. PICK st, m : CutAt(src, d, all, st, m) /\ st[1] = 0
      BY <3>3 DEF Cut
    <3>5. /\ m \in Nat \ {0} /\ all \in Seq(Strings) /\ Len(all) = m
          /\ m <= Len(src) + 1 /\ DOMAIN all = 1 .. m
      BY <3>0, <3>4 DEF CutAt
    <3>6. /\ got.tokens = SubSeq(all, 1, Len(all)) /\ ~got.overflow
          /\ TokenAt(src, delim, got.count) = Null
          /\ \A i \in 1 .. Len(all) : TokenAt(src, delim, i - 1) = all[i]
      <4>1. max \in Nat /\ Len(all) <= max
        BY <3>0, <3>5 DEF max
      <4> QED
        BY <2>4, <3>5, <4>1
    <3>7. got.tokens = all
      BY <3>5, <3>6, SubSeqFull
    <3>8. RebuildsFrom(all) = src
      <4>1. RebuildsFrom(all) = Slice(src, st[1], Len(src))
        BY <2>1, <3>0, <3>4, TokensRebuild DEF d
      <4>2. Slice(src, 0, Len(src)) = src
        BY <3>0, WholeSlice
      <4> QED
        BY <3>4, <4>1, <4>2
    <3>9. \A i \in 1 .. m : ~HasText(all[i], d)
      BY <2>1, <3>0, <3>4, NoSeparatorInside
    <3>10. TokenCount(src, delim) = IF Find(src, d, 0) = 0 THEN 1 ELSE got.count
      <4>1. IF Find(src, d, 0) = 0 THEN Len(h[0]) = 1 ELSE h[0] = g[0]
        BY <2>1, <2>6, <3>1, <3>2, CountWalk
      <4> QED
        BY <2>2, <2>3, <3>1, <3>2, <4>1
    <3> QED
      BY <3>5, <3>6, <3>7, <3>8, <3>9, <3>10 DEF TokensAgree, Tokens, BeginsWithToken, got, max, d
  <2> QED
    BY <2>0, <2>5, <2>6, StringIs
<1> QED
  BY <1>1, TypeCorrect, PTL

-----------------------------------------------------------------------------
(***************************************************************************)
(* Formatting                                                              *)
(***************************************************************************)

Closings(fmt, p) == {q \in p + 1 .. Len(fmt) : fmt[q] = Close}
ArgumentAt(args, k) == IF k <= Len(args) THEN args[k] ELSE << >>

\* What is written from p on, the k-th argument being the next, when g has
\* what follows.
Writes(fmt, args, g, p, k) ==
  IF p > Len(fmt) THEN << >>
  ELSE IF Doubled(fmt, p) THEN <<fmt[p]>> \o g[p + 2][k]
  ELSE IF fmt[p] = Open /\ Closings(fmt, p) # {}
  THEN ArgumentAt(args, k)
       \o g[Min(Closings(fmt, p)) + 1][Min({k, Len(args)}) + 1]
  ELSE <<fmt[p]>> \o g[p + 1][k]

FormatFrom(fmt, args, g, p) ==
  [k \in 1 .. Len(args) + 1 |-> Writes(fmt, args, g, p, k)]

Formats(fmt, args, g, from) ==
  g = [p \in from .. Len(fmt) + 1 |-> FormatFrom(fmt, args, g, p)]

(* What is written from p on depends on what follows p only.               *)
LEMMA FormatLooksAhead ==
  ASSUME NEW fmt \in Strings, NEW args, NEW p \in 1 .. Len(fmt) + 1, NEW g, NEW h,
         \A x \in p + 1 .. Len(fmt) + 1 : g[x] = h[x]
  PROVE  FormatFrom(fmt, args, g, p) = FormatFrom(fmt, args, h, p)
<1> DEFINE n == Len(fmt)
           closing == Closings(fmt, p)
<1>1. n \in Nat
  BY StringIs
<1>2. CASE p > n
  BY <1>2, Zenon DEF FormatFrom, Writes
<1>3. CASE p <= n /\ Doubled(fmt, p)
  <2>1. p + 2 \in p + 1 .. n + 1
    BY <1>1, <1>3 DEF Doubled
  <2>2. g[p + 2] = h[p + 2] /\ ~(p > n)
    BY <1>1, <1>3, <2>1
  <2> QED
    BY <1>3, <2>2, Zenon DEF FormatFrom, Writes
<1>4. CASE p <= n /\ ~Doubled(fmt, p) /\ closing # {}
  <2>1. closing \in SUBSET Int /\ \E b \in Int : \A x \in closing : b <= x
    BY <1>1 DEF Closings
  <2>2. Min(closing) \in closing
    <3> HIDE DEF closing
    <3> QED
      BY <1>4, <2>1, MinIs
  <2>3. Min(closing) + 1 \in p + 1 .. n + 1 /\ p + 1 \in p + 1 .. n + 1
    BY <1>1, <1>4, <2>2 DEF Closings
  <2>4. g[Min(closing) + 1] = h[Min(closing) + 1] /\ g[p + 1] = h[p + 1]
    BY <2>3
  <2>5. ~(p > n)
    BY <1>1, <1>4
  <2> QED
    BY <1>4, <2>4, <2>5, Zenon DEF FormatFrom, Writes
<1>5. CASE p <= n /\ ~Doubled(fmt, p) /\ closing = {}
  <2>1. p + 1 \in p + 1 .. n + 1 /\ ~(p > n)
    BY <1>1, <1>5
  <2>2. g[p + 1] = h[p + 1]
    BY <2>1
  <2> QED
    BY <1>5, <2>1, <2>2, Zenon DEF FormatFrom, Writes
<1>6. p > n \/ p <= n
  BY <1>1
<1> QED
  BY <1>2, <1>3, <1>4, <1>5, <1>6

(* Formatting is what its recursion calls for.                             *)
LEMMA FormatUnfolds ==
  ASSUME NEW fmt \in Strings, NEW args
  PROVE  \E g : Formats(fmt, args, g, 1) /\ Format(fmt, args) = g[1][1]
<1> DEFINE n == Len(fmt)
           S == {k \in Nat : k <= n => \E g : Formats(fmt, args, g, n + 1 - k)}
<1>1. n \in Nat
  BY StringIs
<1>2. ASSUME NEW from \in 1 .. n + 1, NEW g,
             \A x \in from + 1 .. n + 1 : g[x] = FormatFrom(fmt, args, g, x)
      PROVE  \E h : Formats(fmt, args, h, from)
  <2> DEFINE h == [x \in from .. n + 1 |-> FormatFrom(fmt, args, g, x)]
  <2>1. \A x \in from + 1 .. n + 1 : h[x] = g[x]
    <3>1. \A x \in from + 1 .. n + 1 : x \in from .. n + 1
      BY <1>1
    <3> QED
      BY <1>2, <3>1
  <2>2. ASSUME NEW x \in from .. n + 1
        PROVE  FormatFrom(fmt, args, g, x) = FormatFrom(fmt, args, h, x)
    <3>1. x \in 1 .. n + 1 /\ \A y \in x + 1 .. n + 1 : y \in from + 1 .. n + 1
      BY <1>1
    <3>2. \A y \in x + 1 .. n + 1 : g[y] = h[y]
      BY <2>1, <3>1
    <3> HIDE DEF h
    <3> QED
      BY <3>1, <3>2, FormatLooksAhead
  <2>3. h = [x \in from .. n + 1 |-> FormatFrom(fmt, args, h, x)]
    BY <2>2, Zenon
  <2> HIDE DEF h
  <2> QED
    BY <2>3 DEF Formats
<1>3. 0 \in S
  <2> DEFINE none == [x \in {} |-> 0]
  <2>1. n + 1 \in 1 .. n + 1 /\ n + 1 - 0 = n + 1
        /\ \A x \in (n + 1) + 1 .. n + 1 : FALSE
    BY <1>1
  <2>2. \E h : Formats(fmt, args, h, n + 1)
    <3>1. \A x \in (n + 1) + 1 .. n + 1 : none[x] = FormatFrom(fmt, args, none, x)
      BY <2>1
    <3> HIDE DEF none, n
    <3> QED
      BY <1>2, <2>1, <3>1
  <2> QED
    BY <2>1, <2>2
<1>4. ASSUME NEW k \in Nat, k \in S PROVE k + 1 \in S
  <2> SUFFICES ASSUME k + 1 <= n
               PROVE  \E g : Formats(fmt, args, g, n + 1 - (k + 1))
    OBVIOUS
  <2> DEFINE from == n + 1 - (k + 1)
  <2>1. from \in 1 .. n + 1 /\ from + 1 = n + 1 - k /\ k <= n
    BY <1>1
  <2>2. PICK g : Formats(fmt, args, g, from + 1)
    BY <1>4, <2>1
  <2> HIDE DEF from
  <2>3. \A x \in from + 1 .. n + 1 : g[x] = FormatFrom(fmt, args, g, x)
    BY <2>2, Zenon DEF Formats
  <2>4. \E h : Formats(fmt, args, h, from)
    <3> HIDE DEF n
    <3> QED
      BY <1>2, <2>1, <2>3
  <2> QED
    BY <2>4 DEF from
<1>5. n \in S
  <2> HIDE DEF S
  <2> QED
    BY <1>1, <1>3, <1>4, Induction
<1>6. \E g : Formats(fmt, args, g, 1)
  <2>1. n + 1 - n = 1 /\ n <= n
    BY <1>1
  <2> QED
    BY <1>5, <2>1
<1> DEFINE W == CHOOSE g : Formats(fmt, args, g, 1)
<1>7. Formats(fmt, args, W, 1)
  BY <1>6, Zenon
<1>8. Format(fmt, args) = W[1][1]
  BY DEF Format, Formats, FormatFrom, Writes, Closings, ArgumentAt
<1> HIDE DEF W
<1> QED
  BY <1>7, <1>8

-----------------------------------------------------------------------------
(***************************************************************************)
(* Text with its braces doubled                                            *)
(***************************************************************************)

EscapedByte(c) == IF c \in {Open, Close} THEN <<c, c>> ELSE <<c>>

EscapeFrom(s, g, p) ==
  IF p > Len(s) THEN << >> ELSE EscapedByte(s[p]) \o g[p + 1]

Escapes(s, g, from) == g = [p \in from .. Len(s) + 1 |-> EscapeFrom(s, g, p)]

(* Escaping is what its recursion calls for.                               *)
LEMMA EscapeUnfolds ==
  ASSUME NEW s \in Strings
  PROVE  \E g : Escapes(s, g, 1) /\ Escaped(s) = g[1]
<1> DEFINE n == Len(s)
           S == {k \in Nat : k <= n => \E g : Escapes(s, g, n + 1 - k)}
<1>1. n \in Nat
  BY StringIs
<1>2. ASSUME NEW from \in 1 .. n + 1, NEW g,
             \A x \in from + 1 .. n + 1 : g[x] = EscapeFrom(s, g, x)
      PROVE  \E h : Escapes(s, h, from)
  <2> DEFINE h == [x \in from .. n + 1 |-> EscapeFrom(s, g, x)]
  <2>1. \A x \in from + 1 .. n + 1 : h[x] = g[x]
    <3>1. \A x \in from + 1 .. n + 1 : x \in from .. n + 1
      BY <1>1
    <3> QED
      BY <1>2, <3>1
  <2>2. ASSUME NEW x \in from .. n + 1
        PROVE  EscapeFrom(s, g, x) = EscapeFrom(s, h, x)
    <3>1. x > n \/ x + 1 \in from + 1 .. n + 1
      BY <1>1
    <3> HIDE DEF h
    <3>2. x > n \/ g[x + 1] = h[x + 1]
      BY <2>1, <3>1
    <3> QED
      BY <3>2, Zenon DEF EscapeFrom
  <2>3. h = [x \in from .. n + 1 |-> EscapeFrom(s, h, x)]
    BY <2>2, Zenon
  <2> HIDE DEF h
  <2> QED
    BY <2>3 DEF Escapes
<1>3. 0 \in S
  <2> DEFINE none == [x \in {} |-> 0]
  <2>1. n + 1 \in 1 .. n + 1 /\ n + 1 - 0 = n + 1
        /\ \A x \in (n + 1) + 1 .. n + 1 : FALSE
    BY <1>1
  <2>2. \E h : Escapes(s, h, n + 1)
    <3>1. \A x \in (n + 1) + 1 .. n + 1 : none[x] = EscapeFrom(s, none, x)
      BY <2>1
    <3> HIDE DEF none, n
    <3> QED
      BY <1>2, <2>1, <3>1
  <2> QED
    BY <2>1, <2>2
<1>4. ASSUME NEW k \in Nat, k \in S PROVE k + 1 \in S
  <2> SUFFICES ASSUME k + 1 <= n PROVE \E g : Escapes(s, g, n + 1 - (k + 1))
    OBVIOUS
  <2> DEFINE from == n + 1 - (k + 1)
  <2>1. from \in 1 .. n + 1 /\ from + 1 = n + 1 - k /\ k <= n
    BY <1>1
  <2>2. PICK g : Escapes(s, g, from + 1)
    BY <1>4, <2>1
  <2> HIDE DEF from
  <2>3. \A x \in from + 1 .. n + 1 : g[x] = EscapeFrom(s, g, x)
    BY <2>2, Zenon DEF Escapes
  <2>4. \E h : Escapes(s, h, from)
    <3> HIDE DEF n
    <3> QED
      BY <1>2, <2>1, <2>3
  <2> QED
    BY <2>4 DEF from
<1>5. n \in S
  <2> HIDE DEF S
  <2> QED
    BY <1>1, <1>3, <1>4, Induction
<1>6. \E g : Escapes(s, g, 1)
  <2>1. n + 1 - n = 1 /\ n <= n
    BY <1>1
  <2> QED
    BY <1>5, <2>1
<1> DEFINE W == CHOOSE g : Escapes(s, g, 1)
<1>7. Escapes(s, W, 1)
  BY <1>6, Zenon
<1>8. Escaped(s) = W[1]
  BY DEF Escaped, Escapes, EscapeFrom, EscapedByte
<1> HIDE DEF W
<1> QED
  BY <1>7, <1>8

(* One byte, once or twice.                                                *)
LEMMA EscapedByteIs ==
  ASSUME NEW c \in Int, NEW rest \in Strings
  PROVE  /\ EscapedByte(c) \o rest \in Strings
         /\ EscapedByte(c) \in Strings
         /\ Len(EscapedByte(c)) = IF c \in {Open, Close} THEN 2 ELSE 1
         /\ Len(EscapedByte(c) \o rest) = Len(EscapedByte(c)) + Len(rest)
         /\ \A j \in 1 .. Len(EscapedByte(c)) : (EscapedByte(c) \o rest)[j] = c
         /\ \A j \in 1 .. Len(rest) :
              (EscapedByte(c) \o rest)[Len(EscapedByte(c)) + j] = rest[j]
<1> DEFINE e == EscapedByte(c)
<1>1. /\ e \in Strings /\ Len(e) = IF c \in {Open, Close} THEN 2 ELSE 1
      /\ \A j \in 1 .. Len(e) : e[j] = c
  BY DEF EscapedByte, Strings
<1>2. Len(e) \in Nat /\ Len(rest) \in Nat
  BY <1>1, StringIs
<1> HIDE DEF e
<1>3. /\ e \o rest \in Seq(Int) /\ Len(e \o rest) = Len(e) + Len(rest)
      /\ \A i \in 1 .. Len(e) + Len(rest) :
           (e \o rest)[i] = IF i <= Len(e) THEN e[i] ELSE rest[i - Len(e)]
  BY <1>1, ConcatProperties DEF Strings
<1>4. ASSUME NEW j \in 1 .. Len(e) PROVE (e \o rest)[j] = c
  <2>1. j \in 1 .. Len(e) + Len(rest) /\ j <= Len(e)
    BY <1>2
  <2> QED
    BY <1>1, <1>3, <2>1
<1>5. ASSUME NEW j \in 1 .. Len(rest) PROVE (e \o rest)[Len(e) + j] = rest[j]
  <2>1. /\ Len(e) + j \in 1 .. Len(e) + Len(rest) /\ ~(Len(e) + j <= Len(e))
        /\ (Len(e) + j) - Len(e) = j
    BY <1>2
  <2> QED
    BY <1>3, <2>1
<1> QED
  BY <1>1, <1>3, <1>4, <1>5 DEF e, Strings

(* From every byte on, escaped text is a string.                           *)
LEMMA EscapedIsText ==
  ASSUME NEW s \in Strings, NEW g, Escapes(s, g, 1)
  PROVE  \A p \in 1 .. Len(s) + 1 : g[p] \in Strings /\ g[p] = EscapeFrom(s, g, p)
<1> DEFINE n == Len(s)
           S == {k \in Nat : \A p \in 1 .. n + 1 : p >= n + 1 - k => g[p] \in Strings}
<1>1. n \in Nat
  BY StringIs
<1>2. \A p \in 1 .. n + 1 : g[p] = EscapeFrom(s, g, p)
  BY Zenon DEF Escapes
<1>3. 0 \in S
  <2>1. ASSUME NEW p \in 1 .. n + 1, p >= n + 1 - 0 PROVE g[p] \in Strings
    <3>1. p > n
      BY <1>1, <2>1
    <3>2. g[p] = << >>
      BY <1>2, <3>1 DEF EscapeFrom
    <3> QED
      BY <3>2, EmptySeq DEF Strings
  <2> QED
    BY <2>1
<1>4. ASSUME NEW k \in Nat, k \in S PROVE k + 1 \in S
  <2>1. ASSUME NEW p \in 1 .. n + 1, p >= n + 1 - (k + 1) PROVE g[p] \in Strings
    <3>1. CASE p > n
      <4>1. p >= n + 1 - k
        BY <1>1, <3>1
      <4> QED
        BY <1>4, <4>1
    <3>2. CASE p <= n
      <4>1. p + 1 \in 1 .. n + 1 /\ p + 1 >= n + 1 - k /\ ~(p > n) /\ p \in 1 .. n
        BY <1>1, <2>1, <3>2
      <4>2. g[p + 1] \in Strings /\ s[p] \in Int
        BY <1>4, <4>1, StringIs
      <4>3. g[p] = EscapedByte(s[p]) \o g[p + 1]
        BY <1>2, <4>1 DEF EscapeFrom
      <4> QED
        BY <4>2, <4>3, EscapedByteIs
    <3>3. p > n \/ p <= n
      BY <1>1
    <3> QED
      BY <3>1, <3>2, <3>3
  <2> QED
    BY <2>1
<1>5. n \in S
  <2> HIDE DEF S
  <2> QED
    BY <1>1, <1>3, <1>4, Induction
<1>6. \A p \in 1 .. n + 1 : p >= n + 1 - n
  BY <1>1
<1> QED
  BY <1>2, <1>5, <1>6

\* t is what e ends with, behind o bytes.
Ends(e, t, o) == /\ o \in Nat /\ o + Len(t) = Len(e)
                 /\ \A j \in 1 .. Len(t) : e[o + j] = t[j]

(* What follows an escaped byte is what the text ends with, too.           *)
LEMMA EndsBehind ==
  ASSUME NEW e \in Strings, NEW c \in Int, NEW rest \in Strings, NEW o,
         Ends(e, EscapedByte(c) \o rest, o)
  PROVE  /\ o + Len(EscapedByte(c)) <= Len(e)
         /\ \A j \in 1 .. Len(EscapedByte(c)) : e[o + j] = c
         /\ Ends(e, rest, o + Len(EscapedByte(c)))
<1> DEFINE w == Len(EscapedByte(c))
           t == EscapedByte(c) \o rest
<1>1. /\ w \in Nat /\ Len(rest) \in Nat /\ Len(e) \in Nat /\ Len(t) = w + Len(rest)
      /\ \A j \in 1 .. w : t[j] = c
      /\ \A j \in 1 .. Len(rest) : t[w + j] = rest[j]
  BY EscapedByteIs, StringIs
<1>2. /\ o \in Nat /\ o + Len(t) = Len(e)
      /\ \A j \in 1 .. Len(t) : e[o + j] = t[j]
  BY DEF Ends
<1> HIDE DEF w, t
<1>3. ASSUME NEW j \in 1 .. w PROVE e[o + j] = c
  <2>1. j \in 1 .. Len(t)
    BY <1>1
  <2> QED
    BY <1>1, <1>2, <2>1
<1>4. ASSUME NEW j \in 1 .. Len(rest) PROVE e[(o + w) + j] = rest[j]
  <2>1. w + j \in 1 .. Len(t) /\ o + (w + j) = (o + w) + j
    BY <1>1, <1>2
  <2> QED
    BY <1>1, <1>2, <2>1
<1>5. o + w <= Len(e) /\ o + w \in Nat /\ (o + w) + Len(rest) = Len(e)
  BY <1>1, <1>2
<1> QED
  BY <1>3, <1>4, <1>5 DEF w, Ends

(* A slice begins with its first byte.                                     *)
LEMMA SliceFirst ==
  ASSUME NEW s \in Strings, NEW p \in 1 .. Len(s)
  PROVE  <<s[p]>> \o Slice(s, p, Len(s)) = Slice(s, p - 1, Len(s))
<1>1. /\ p \in Nat /\ p - 1 \in Nat /\ Len(s) \in Nat /\ p - 1 <= p /\ p <= Len(s)
      /\ p - (p - 1) = 1 /\ (p - 1) + 1 = p /\ s[p] \in Int
  BY StringIs
<1> DEFINE a == p - 1
           t == Slice(s, a, p)
<1>2. /\ t \in Strings /\ Len(t) = p - a
      /\ \A i \in 1 .. p - a : t[i] = s[a + i]
  <2> HIDE DEF a
  <2> QED
    BY <1>1, SliceIs DEF a
<1>3. <<s[p]>> \in Strings /\ Len(<<s[p]>>) = 1 /\ <<s[p]>>[1] = s[p]
  BY <1>1 DEF Strings
<1>4. t = <<s[p]>>
  <2> HIDE DEF t
  <2>1. Len(t) = 1 /\ t[1] = s[p]
    BY <1>1, <1>2
  <2>2. \A i \in 1 .. Len(t) : t[i] = <<s[p]>>[i]
    BY <1>3, <2>1
  <2> QED
    BY <1>2, <1>3, <2>1, <2>2, SameBytes
<1>5. t \o Slice(s, p, Len(s)) = Slice(s, a, Len(s))
  <2> HIDE DEF a
  <2>1. a \in Nat /\ a <= p
    BY <1>1 DEF a
  <2> QED
    BY <1>1, <2>1, SlicesJoin
<1> QED
  BY <1>4, <1>5

(* From a byte on, formatting undoes what escaping did, wherever the rest  *)
(* of the escaped text begins.                                             *)
LEMMA FormatUndoesEscape ==
  ASSUME NEW s \in Strings, NEW x, Escapes(s, x, 1), NEW e, e = x[1],
         NEW d, NEW f, Formats(e, <<d>>, f, 1)
  PROVE  f[1][1] = s
<1> DEFINE n == Len(s)
           Written(p) == \A o : Ends(e, x[p], o) => f[o + 1][1] = Slice(s, p - 1, n)
           S == {k \in Nat : \A p \in 1 .. n + 1 : p >= n + 1 - k => Written(p)}
<1>1. /\ n \in Nat /\ 1 \in 1 .. n + 1
      /\ \A p \in 1 .. n + 1 : x[p] \in Strings /\ x[p] = EscapeFrom(s, x, p)
  BY StringIs, EscapedIsText
<1>2. e \in Strings /\ Len(e) \in Nat
  BY <1>1, StringIs
<1>3. 1 \in 1 .. Len(<<d>>) + 1
  <2>1. Len(<<d>>) = 1
    OBVIOUS
  <2> QED
    BY <2>1
<1>4. \A p \in 1 .. Len(e) + 1 :
        /\ p > Len(e) => f[p][1] = << >>
        /\ p <= Len(e) /\ Doubled(e, p) => f[p][1] = <<e[p]>> \o f[p + 2][1]
        /\ p <= Len(e) /\ ~Doubled(e, p) /\ e[p] # Open =>
             f[p][1] = <<e[p]>> \o f[p + 1][1]
  <2> DEFINE args == <<d>>
  <2>1. ASSUME NEW p \in 1 .. Len(e) + 1 PROVE f[p] = FormatFrom(e, args, f, p)
    BY Zenon DEF Formats
  <2>2. 1 \in 1 .. Len(args) + 1
    BY <1>3
  <2> HIDE DEF args
  <2> SUFFICES ASSUME NEW p \in 1 .. Len(e) + 1
               PROVE  /\ p > Len(e) => f[p][1] = << >>
                      /\ p <= Len(e) /\ Doubled(e, p) =>
                           f[p][1] = <<e[p]>> \o f[p + 2][1]
                      /\ p <= Len(e) /\ ~Doubled(e, p) /\ e[p] # Open =>
                           f[p][1] = <<e[p]>> \o f[p + 1][1]
    OBVIOUS
  <2>3. ~(p <= Len(e)) \/ ~(p > Len(e))
    BY <1>2
  <2>4. f[p][1] = Writes(e, args, f, p, 1)
    <3>1. f[p] = [k \in 1 .. Len(args) + 1 |-> Writes(e, args, f, p, k)]
      BY <2>1 DEF FormatFrom
    <3> QED
      BY <2>2, <3>1
  <2> QED
    BY <2>3, <2>4, Zenon DEF Writes
<1>5. Written(n + 1)
  <2> SUFFICES ASSUME NEW o, Ends(e, x[n + 1], o)
               PROVE  f[o + 1][1] = Slice(s, (n + 1) - 1, n)
    OBVIOUS
  <2>1. x[n + 1] = << >>
    <3>1. n + 1 \in 1 .. n + 1 /\ n + 1 > n
      BY <1>1
    <3> QED
      BY <1>1, <3>1 DEF EscapeFrom
  <2>2. o \in Nat /\ o = Len(e)
    BY <2>1, <1>2 DEF Ends
  <2>3. f[o + 1][1] = << >>
    <3>1. o + 1 \in 1 .. Len(e) + 1 /\ o + 1 > Len(e)
      BY <1>2, <2>2
    <3> QED
      BY <1>4, <3>1
  <2>4. Slice(s, (n + 1) - 1, n) = << >>
    <3>1. Slice(s, n, n) \in Strings /\ Len(Slice(s, n, n)) = n - n
      <4>1. n \in Nat /\ n <= n /\ n <= Len(s)
        BY <1>1
      <4> HIDE DEF n
      <4> QED
        BY <4>1, SliceIs
    <3>2. (n + 1) - 1 = n /\ n - n = 0
      BY <1>1
    <3> QED
      BY <3>1, <3>2, EmptySeq DEF Strings
  <2> QED
    BY <2>3, <2>4
<1>6. ASSUME NEW p \in 1 .. n, Written(p + 1) PROVE Written(p)
  <2> SUFFICES ASSUME NEW o, Ends(e, x[p], o) PROVE f[o + 1][1] = Slice(s, p - 1, n)
    OBVIOUS
  <2> DEFINE c == s[p]
             w == Len(EscapedByte(c))
  <2>1. /\ c \in Int /\ p \in 1 .. n + 1 /\ p + 1 \in 1 .. n + 1 /\ ~(p > n)
        /\ (p + 1) - 1 = p
    BY <1>1, StringIs
  <2>2. x[p] = EscapedByte(c) \o x[p + 1] /\ x[p + 1] \in Strings
    BY <1>1, <2>1 DEF EscapeFrom
  <2>3. /\ o + w <= Len(e) /\ \A j \in 1 .. w : e[o + j] = c
        /\ Ends(e, x[p + 1], o + w)
    <3> HIDE DEF c
    <3> QED
      BY <1>2, <2>1, <2>2, EndsBehind
  <2>4. f[(o + w) + 1][1] = Slice(s, p, n)
    BY <1>6, <2>1, <2>3
  <2>5. w = IF c \in {Open, Close} THEN 2 ELSE 1
    BY <2>1, <2>2, EscapedByteIs
  <2>6. o \in Nat
    BY DEF Ends
  <2> HIDE DEF c, w
  <2>7. /\ o + 1 \in 1 .. Len(e) + 1 /\ o + 1 <= Len(e) /\ e[o + 1] = c
        /\ c \in {Open, Close} => o + 2 <= Len(e) /\ e[o + 2] = c
    BY <1>2, <2>3, <2>5, <2>6
  <2>8. f[o + 1][1] = <<c>> \o Slice(s, p, n)
    <3>1. CASE c \in {Open, Close}
      <4>1. (o + 1) + 1 = o + 2 /\ (o + 1) + 2 = (o + w) + 1 /\ o + 1 < Len(e)
        BY <1>2, <2>5, <2>6, <2>7, <3>1
      <4>2. Doubled(e, o + 1)
        BY <2>7, <3>1, <4>1 DEF Doubled
      <4>3. f[o + 1][1] = <<e[o + 1]>> \o f[(o + 1) + 2][1]
        BY <1>4, <2>7, <4>1, <4>2
      <4> QED
        BY <2>4, <2>7, <4>1, <4>3
    <3>2. CASE c \notin {Open, Close}
      <4>1. ~Doubled(e, o + 1) /\ e[o + 1] # Open
        BY <2>7, <3>2 DEF Doubled
      <4>2. f[o + 1][1] = <<e[o + 1]>> \o f[(o + 1) + 1][1]
        BY <1>4, <2>7, <4>1
      <4>3. (o + 1) + 1 = (o + w) + 1
        BY <2>5, <3>2
      <4> QED
        BY <2>4, <2>7, <4>2, <4>3
    <3> QED
      BY <3>1, <3>2
  <2> QED
    BY <2>8, SliceFirst DEF c
<1> HIDE DEF Written
<1>7. 0 \in S
  <2>1. ASSUME NEW p \in 1 .. n + 1, p >= n + 1 - 0 PROVE Written(p)
    <3>1. p = n + 1
      BY <1>1, <2>1
    <3> QED
      BY <1>5, <3>1
  <2> QED
    BY <2>1
<1>8. ASSUME NEW k \in Nat, k \in S PROVE k + 1 \in S
  <2>1. ASSUME NEW p \in 1 .. n + 1, p >= n + 1 - (k + 1) PROVE Written(p)
    <3>1. CASE p = n + 1
      BY <1>5, <3>1
    <3>2. CASE p # n + 1
      <4>1. p \in 1 .. n /\ p + 1 \in 1 .. n + 1 /\ p + 1 >= n + 1 - k
        BY <1>1, <2>1, <3>2
      <4>2. Written(p + 1)
        BY <1>8, <4>1
      <4> QED
        BY <1>6, <4>1, <4>2
    <3> QED
      BY <3>1, <3>2
  <2> QED
    BY <2>1
<1>9. n \in S
  <2> HIDE DEF S
  <2> QED
    BY <1>1, <1>7, <1>8, Induction
<1>10. Written(1)
  <2>1. 1 >= n + 1 - n
    BY <1>1
  <2> QED
    BY <1>1, <1>9, <2>1
<1>11. Ends(e, x[1], 0)
  <2>1. 0 \in Nat /\ 0 + Len(e) = Len(e) /\ \A j \in 1 .. Len(e) : 0 + j = j
    BY <1>2
  <2> QED
    BY <2>1 DEF Ends
<1>12. f[0 + 1][1] = Slice(s, 1 - 1, n)
  BY <1>10, <1>11 DEF Written
<1>13. 0 + 1 = 1 /\ 1 - 1 = 0
  OBVIOUS
<1> QED
  BY <1>12, <1>13, WholeSlice

(* Doubling the braces of a text makes format write it as it was, for      *)
(* every text and whatever argument comes with it                          *)
(* (strideruntime_string.cpp:603-617, 728-736).                            *)
THEOREM EscapedTextStaysLiteral == Spec => []EscapedTextIsLiteral
<1>1. TypeOK => EscapedTextIsLiteral
  <2> SUFFICES ASSUME TypeOK, src # Null PROVE Format(Escaped(src), <<delim>>) = src
    BY DEF EscapedTextIsLiteral
  <2>1. src \in Strings
    BY TextIs DEF TypeOK, src
  <2> DEFINE s == src
  <2> HIDE DEF s
  <2>2. s \in Strings
    BY <2>1 DEF s
  <2>3. PICK x : Escapes(s, x, 1) /\ Escaped(s) = x[1]
    BY <2>2, EscapeUnfolds
  <2>4. Escaped(s) \in Strings
    <3>1. 1 \in 1 .. Len(s) + 1
      BY <2>2, StringIs
    <3> QED
      BY <2>2, <2>3, <3>1, EscapedIsText
  <2>5. PICK f : /\ Formats(Escaped(s), <<delim>>, f, 1)
                 /\ Format(Escaped(s), <<delim>>) = f[1][1]
    BY <2>4, FormatUnfolds
  <2>6. f[1][1] = s
    BY <2>2, <2>3, <2>5, FormatUndoesEscape
  <2> QED
    BY <2>5, <2>6 DEF s
<1> QED
  BY <1>1, TypeCorrect, PTL
=============================================================================
