------------------------- MODULE PhaseFields_proofs -------------------------
(***************************************************************************)
(* Proofs about the two passes of PhaseFields, for every set of chains and *)
(* every domain rate.  Both passes count the places where a segment with a *)
(* phase ends; the invariant ties the fields and the segments to the same  *)
(* places of the chain, of which the generator misses at most one.         *)
(*                                                                         *)
(* Then the segments run: their fields lie apart in the state's words, so  *)
(* each phase says what its segment is ahead, whatever the others store.   *)
(***************************************************************************)
EXTENDS PhaseFields, FiniteSetTheorems, IntegerSets, TLAPS

\* A segment of the pre-scan, or of the generator, with a phase ends before i.
EndsAt(c, i) ==
  (i = Len(c) + 1 \/ c[i] # c[i - 1]) /\ Width(c[i - 1]) > 0

Ends(c) == {i \in 2 .. Len(c) + 1 : EndsAt(c, i)}
GenEnds(c) == Ends(c) \ {2}

Count(S, n) == Cardinality({i \in S : i <= n})

Taken(ss) == Cardinality({s \in DOMAIN ss : Width(ss[s].rate) > 0})

-----------------------------------------------------------------------------
(***************************************************************************)
(* Counting                                                                *)
(***************************************************************************)

(* A field takes no word, one or two.                                      *)
LEMMA WidthType == \A r : Width(r) \in {0, 1, 2}
  BY DEF Width

(* The places up to n are finitely many, and the next is one more.         *)
LEMMA CountStep ==
  ASSUME NEW m \in Nat, NEW S \in SUBSET (1 .. m), NEW n \in Nat
  PROVE  /\ Count(S, n) \in Nat
         /\ n + 1 \in S => Count(S, n + 1) = Count(S, n) + 1
         /\ n + 1 \notin S => Count(S, n + 1) = Count(S, n)
<1> DEFINE T == {i \in S : i <= n}
<1>0. \A i \in S : i \in Nat
  OBVIOUS
<1>1. IsFiniteSet(T)
  <2>1. IsFiniteSet(1 .. m)
    BY FS_Interval
  <2> QED
    BY <2>1, FS_Subset
<1>2. Count(S, n) \in Nat
  BY <1>1, FS_CardinalityType DEF Count
<1>3. CASE n + 1 \in S
  <2>1. {i \in S : i <= n + 1} = T \cup {n + 1}
    <3>1. \A i \in S : i <= n + 1 <=> i <= n \/ i = n + 1
      BY <1>0
    <3> QED
      BY <1>3, <3>1, Zenon
  <2>2. n + 1 \notin T
    OBVIOUS
  <2>3. Cardinality(T \cup {n + 1}) = Cardinality(T) + 1
    BY <1>1, <2>2, FS_AddElement
  <2> QED
    BY <1>2, <1>3, <2>1, <2>3 DEF Count
<1>4. CASE n + 1 \notin S
  <2>1. {i \in S : i <= n + 1} = T
    <3>1. \A i \in S : i <= n + 1 <=> i <= n
      BY <1>0, <1>4
    <3> QED
      BY <3>1, Zenon
  <2> QED
    BY <1>2, <1>4, <2>1 DEF Count
<1> QED
  BY <1>3, <1>4

(* More places, or places further on, count no less.                       *)
LEMMA CountGrows ==
  ASSUME NEW m \in Nat, NEW T \in SUBSET (1 .. m), NEW S \in SUBSET T,
         NEW i \in Nat, NEW j \in Nat, i <= j
  PROVE  Count(S, i) <= Count(T, j)
<1> DEFINE A == {k \in S : k <= i}
           B == {k \in T : k <= j}
<1>1. IsFiniteSet(B)
  <2>1. IsFiniteSet(1 .. m)
    BY FS_Interval
  <2> QED
    BY <2>1, FS_Subset
<1>2. A \subseteq B
  <2>1. \A k \in S : k \in T /\ k \in Nat
    OBVIOUS
  <2>2. \A k \in S : k <= i => k <= j
    BY <2>1
  <2> QED
    BY <2>1, <2>2, Zenon
<1> QED
  BY <1>1, <1>2, FS_Subset DEF Count

(* A place counts itself.                                                  *)
LEMMA CountsItself ==
  ASSUME NEW m \in Nat, NEW S \in SUBSET (1 .. m), NEW i \in S
  PROVE  Count(S, i) \in Nat \ {0}
<1> DEFINE n == i - 1
<1>1. n \in Nat /\ n + 1 = i
  OBVIOUS
<1> HIDE DEF n
<1>2. Count(S, n) \in Nat /\ Count(S, n + 1) = Count(S, n) + 1
  BY <1>1, CountStep
<1> QED
  BY <1>1, <1>2

(* The places of a chain.                                                  *)
LEMMA EndsInChain ==
  ASSUME NEW c \in Chains
  PROVE  /\ Len(c) \in Nat /\ Len(c) >= 2
         /\ \A i \in 1 .. Len(c) : c[i] \in Nat \ {0}
         /\ Ends(c) \in SUBSET (1 .. Len(c) + 1)
         /\ GenEnds(c) \in SUBSET Ends(c)
         /\ GenEnds(c) \in SUBSET (1 .. Len(c) + 1)
         /\ 1 \notin Ends(c) /\ 2 \notin GenEnds(c)
<1>1. c \in Seq(Nat \ {0}) /\ Len(c) >= 2
  BY PhaseFieldsAssumption
<1> QED
  BY <1>1 DEF Ends, GenEnds

-----------------------------------------------------------------------------
(***************************************************************************)
(* What the two passes have done, up to place n of chain c                 *)
(***************************************************************************)

Segments == Seq([rate : Nat \ {0}, field : Nat])

Scanned(c, fs, n) ==
  /\ Len(fs) = Count(Ends(c), n)
  /\ \A i \in Ends(c) : i <= n => fs[Count(Ends(c), i)] = Width(c[i - 1])

\* Segment s ends before place i, and has its field.
TakenAt(c, seg, i) ==
  seg.rate = c[i - 1] /\ seg.field = Count(GenEnds(c), i)

Generated(c, ss, n) ==
  /\ Taken(ss) = Count(GenEnds(c), n)
  /\ \A s \in DOMAIN ss :
       IF Width(ss[s].rate) = 0 THEN ss[s].field = 0
       ELSE /\ ss[s].field \in 1 .. Taken(ss)
            /\ \E i \in GenEnds(c) : TakenAt(c, ss[s], i)
  /\ \A s, t \in DOMAIN ss :
       Width(ss[s].rate) > 0 /\ s # t => ss[s].field # ss[t].field

(* A bound on the fields may be forgotten.                                 *)
LEMMA WiderFields ==
  ASSUME NEW fs \in Seq({1, 2}),
         NEW ss \in Seq([rate : Nat \ {0}, field : 0 .. Len(fs)])
  PROVE  ss \in Segments
<1> DEFINE A == [rate : Nat \ {0}, field : 0 .. Len(fs)]
           B == [rate : Nat \ {0}, field : Nat]
<1>1. A \subseteq B
  OBVIOUS
<1>2. ss \in Seq(A)
  OBVIOUS
<1> HIDE DEF A, B
<1>3. ss \in Seq(B)
  BY <1>1, <1>2
<1> QED
  BY <1>3 DEF Segments, B

(* Nothing ends before the second place.                                   *)
LEMMA NothingYet ==
  ASSUME NEW c \in Chains
  PROVE  Count(Ends(c), 0) = 0 /\ Count(GenEnds(c), 0) = 0
<1>1. \A i \in Ends(c) : i \in Nat /\ ~(i <= 0)
  BY EndsInChain
<1>2. {i \in Ends(c) : i <= 0} = {} /\ {i \in GenEnds(c) : i <= 0} = {}
  BY <1>1, EndsInChain
<1> QED
  BY <1>2, FS_EmptySet DEF Count

(* One more segment takes one more field if it has a phase.                *)
LEMMA TakenStep ==
  ASSUME NEW ss \in Segments, NEW seg \in [rate : Nat \ {0}, field : Nat]
  PROVE  /\ Taken(ss) \in Nat
         /\ Taken(Append(ss, seg)) =
              IF Width(seg.rate) > 0 THEN Taken(ss) + 1 ELSE Taken(ss)
<1> DEFINE T == {s \in DOMAIN ss : Width(ss[s].rate) > 0}
           more == Append(ss, seg)
           k == Len(ss) + 1
<1>1. DOMAIN ss = 1 .. Len(ss) /\ Len(ss) \in Nat
  BY DEF Segments
<1>2. IsFiniteSet(T) /\ Cardinality(T) \in Nat
  <2>1. IsFiniteSet(DOMAIN ss)
    BY <1>1, FS_Interval
  <2> QED
    BY <2>1, FS_Subset, FS_CardinalityType
<1>3. /\ DOMAIN more = DOMAIN ss \cup {k} /\ k \notin DOMAIN ss
      /\ more[k] = seg /\ \A s \in DOMAIN ss : more[s] = ss[s]
  BY <1>1 DEF Segments
<1> HIDE DEF more, k
<1>4. CASE Width(seg.rate) > 0
  <2>1. {s \in DOMAIN more : Width(more[s].rate) > 0} = T \cup {k}
    BY <1>3, <1>4
  <2>2. k \notin T
    BY <1>3
  <2>3. Cardinality(T \cup {k}) = Cardinality(T) + 1
    BY <1>2, <2>2, FS_AddElement
  <2> QED
    BY <1>2, <1>4, <2>1, <2>3 DEF Taken, more
<1>5. CASE ~(Width(seg.rate) > 0)
  <2>1. {s \in DOMAIN more : Width(more[s].rate) > 0} = T
    BY <1>3, <1>5
  <2> QED
    BY <1>2, <1>5, <2>1 DEF Taken, more
<1> QED
  BY <1>4, <1>5

(* A segment flushed where one ends takes the next field, which is there.  *)
LEMMA Flushed ==
  ASSUME NEW c \in Chains, NEW fs, NEW ss \in Segments, NEW n \in 3 .. Len(c) + 1,
         n = Len(c) + 1 \/ c[n] # c[n - 1],
         Scanned(c, fs, Len(c) + 1), Generated(c, ss, n - 1),
         NEW f, f = IF Width(c[n - 1]) > 0 /\ Taken(ss) + 1 <= Len(fs)
                    THEN Taken(ss) + 1 ELSE 0
  PROVE  /\ Generated(c, Append(ss, [rate |-> c[n - 1], field |-> f]), n)
         /\ f \in 0 .. Len(fs)
<1> DEFINE seg == [rate |-> c[n - 1], field |-> f]
           more == Append(ss, seg)
           k == Len(ss) + 1
<1>1. /\ Len(c) \in Nat /\ n - 1 \in Nat /\ (n - 1) + 1 = n
      /\ c[n - 1] \in Nat \ {0} /\ n # 2
  BY EndsInChain
<1>2. Taken(ss) \in Nat
  <2>1. [rate |-> 1, field |-> 0] \in [rate : Nat \ {0}, field : Nat]
    OBVIOUS
  <2> QED
    BY <2>1, TakenStep
<1>3. n \in GenEnds(c) <=> Width(c[n - 1]) > 0
  BY <1>1 DEF GenEnds, Ends, EndsAt
<1>4. Count(GenEnds(c), n) = IF Width(c[n - 1]) > 0 THEN Taken(ss) + 1 ELSE Taken(ss)
  <2> DEFINE p == n - 1
  <2>1. Taken(ss) = Count(GenEnds(c), p) /\ p + 1 = n /\ p \in Nat
    BY <1>1 DEF Generated
  <2> HIDE DEF p
  <2>2. Len(c) + 1 \in Nat /\ GenEnds(c) \in SUBSET (1 .. Len(c) + 1)
    BY <1>1, EndsInChain
  <2>3. /\ p + 1 \in GenEnds(c) => Count(GenEnds(c), p + 1) = Count(GenEnds(c), p) + 1
        /\ p + 1 \notin GenEnds(c) => Count(GenEnds(c), p + 1) = Count(GenEnds(c), p)
    BY <2>1, <2>2, CountStep
  <2> QED
    BY <1>3, <2>1, <2>3
<1>5. Count(GenEnds(c), n) <= Len(fs)
  <2>1. /\ Len(c) + 1 \in Nat /\ Ends(c) \in SUBSET (1 .. Len(c) + 1)
        /\ GenEnds(c) \in SUBSET Ends(c) /\ n \in Nat /\ n <= Len(c) + 1
    BY <1>1, EndsInChain
  <2>2. Count(GenEnds(c), n) <= Count(Ends(c), Len(c) + 1)
    BY <2>1, CountGrows
  <2> QED
    BY <2>2 DEF Scanned
<1>6. f = IF Width(c[n - 1]) > 0 THEN Taken(ss) + 1 ELSE 0
  BY <1>4, <1>5
<1>7. f \in 0 .. Len(fs) /\ f \in Nat
  BY <1>2, <1>4, <1>5, <1>6, WidthType DEF Scanned
<1>8. Taken(more) = Count(GenEnds(c), n)
  <2>1. seg \in [rate : Nat \ {0}, field : Nat] /\ seg.rate = c[n - 1]
    BY <1>1, <1>7
  <2> HIDE DEF seg
  <2> QED
    BY <2>1, <1>4, TakenStep
<1>9. /\ DOMAIN more = DOMAIN ss \cup {k} /\ k \notin DOMAIN ss
      /\ more[k] = seg /\ \A s \in DOMAIN ss : more[s] = ss[s]
  BY DEF Segments
<1> HIDE DEF more, k
<1>10. ASSUME NEW s \in DOMAIN more
       PROVE  IF Width(more[s].rate) = 0 THEN more[s].field = 0
              ELSE /\ more[s].field \in 1 .. Taken(more)
                   /\ \E i \in GenEnds(c) : TakenAt(c, more[s], i)
  <2>1. CASE s = k
    <3>1. more[s].rate = c[n - 1] /\ more[s].field = f
      BY <1>9, <2>1
    <3>2. CASE Width(c[n - 1]) > 0
      <4>1. f = Count(GenEnds(c), n) /\ f = Taken(more) /\ f \in Nat \ {0}
        BY <1>2, <1>4, <1>6, <1>8, <3>2
      <4>2. TakenAt(c, more[s], n) /\ n \in GenEnds(c)
        BY <1>3, <3>1, <3>2, <4>1 DEF TakenAt
      <4>3. more[s].field \in 1 .. Taken(more)
        BY <3>1, <4>1
      <4>4. Width(more[s].rate) # 0
        BY <3>1, <3>2
      <4> QED
        BY <4>2, <4>3, <4>4
    <3>3. CASE ~(Width(c[n - 1]) > 0)
      BY <1>6, <3>1, <3>3, WidthType
    <3> QED
      BY <3>2, <3>3
  <2>2. CASE s \in DOMAIN ss
    <3>1. more[s] = ss[s] /\ Taken(ss) <= Taken(more) /\ Taken(more) \in Nat
      BY <1>2, <1>4, <1>8, <1>9, <2>2
    <3>2. IF Width(ss[s].rate) = 0 THEN ss[s].field = 0
          ELSE /\ ss[s].field \in 1 .. Taken(ss)
               /\ \E i \in GenEnds(c) : TakenAt(c, ss[s], i)
      BY <2>2 DEF Generated
    <3>3. ss[s].field \in 1 .. Taken(ss) => ss[s].field \in 1 .. Taken(more)
      BY <1>2, <3>1
    <3> QED
      BY <3>1, <3>2, <3>3
  <2> QED
    BY <1>9, <2>1, <2>2
<1>11. ASSUME NEW s \in DOMAIN more, NEW t \in DOMAIN more,
              Width(more[s].rate) > 0, s # t
       PROVE  more[s].field # more[t].field
  <2>1. \A u \in DOMAIN ss : ss[u].field \in 0 .. Taken(ss)
    BY <1>2 DEF Generated
  <2>2. Width(c[n - 1]) > 0 => f = Taken(ss) + 1
    BY <1>6
  <2>3. CASE s = k
    <3>1. t \in DOMAIN ss /\ more[t] = ss[t] /\ more[s].field = f
      BY <1>9, <1>11, <2>3
    <3>2. f = Taken(ss) + 1
      BY <1>9, <1>11, <2>2, <2>3
    <3> QED
      BY <1>2, <2>1, <3>1, <3>2
  <2>4. CASE s \in DOMAIN ss /\ t = k
    <3>1. more[s] = ss[s] /\ more[t].field = f /\ Width(ss[s].rate) > 0
      BY <1>9, <1>11, <2>4
    <3>2. ss[s].field \in 1 .. Taken(ss)
      BY <2>4, <3>1, WidthType DEF Generated
    <3>3. f = Taken(ss) + 1 \/ f = 0
      BY <1>6
    <3> QED
      BY <1>2, <3>1, <3>2, <3>3
  <2>5. CASE s \in DOMAIN ss /\ t \in DOMAIN ss
    BY <1>9, <1>11, <2>5 DEF Generated
  <2> QED
    BY <1>9, <2>3, <2>4, <2>5
<1> QED
  BY <1>7, <1>8, <1>10, <1>11 DEF Generated, more, seg
(* The pre-scan adds a field exactly where a segment with a phase ends.    *)
LEMMA ScannedNext ==
  ASSUME NEW c \in Chains, NEW fs \in Seq({1, 2}), NEW n \in 1 .. Len(c) + 1,
         Scanned(c, fs, n - 1)
  PROVE  /\ n \notin Ends(c) => Scanned(c, fs, n)
         /\ n \in Ends(c) => Scanned(c, Append(fs, Width(c[n - 1])), n)
<1> DEFINE p == n - 1
           w == Width(c[n - 1])
           more == Append(fs, w)
<1>1. p + 1 = n /\ p \in Nat /\ Len(c) \in Nat /\ n \in Nat
  BY EndsInChain
<1>2. Scanned(c, fs, p)
  OBVIOUS
<1>3. Len(c) + 1 \in Nat /\ Ends(c) \in SUBSET (1 .. Len(c) + 1)
  BY <1>1, EndsInChain
<1>4. \A i \in Ends(c) : i \in Nat /\ (i <= n <=> i <= p \/ i = n)
  BY <1>1, <1>3
<1> HIDE DEF p
<1>5. /\ Count(Ends(c), p) \in Nat
      /\ p + 1 \in Ends(c) => Count(Ends(c), p + 1) = Count(Ends(c), p) + 1
      /\ p + 1 \notin Ends(c) => Count(Ends(c), p + 1) = Count(Ends(c), p)
  BY <1>1, <1>3, CountStep
<1>6. ASSUME n \notin Ends(c)
      PROVE  Scanned(c, fs, n)
  <2>1. Len(fs) = Count(Ends(c), n)
    BY <1>1, <1>2, <1>5, <1>6 DEF Scanned
  <2>2. \A i \in Ends(c) : i <= n => i <= p
    BY <1>4, <1>6
  <2> QED
    BY <1>2, <2>1, <2>2 DEF Scanned
<1>7. ASSUME n \in Ends(c)
      PROVE  Scanned(c, more, n)
  <2>1. /\ Len(fs) \in Nat /\ Len(more) = Len(fs) + 1 /\ more[Len(fs) + 1] = w
        /\ \A j \in 1 .. Len(fs) : more[j] = fs[j]
    OBVIOUS
  <2> HIDE DEF more
  <2>2. Count(Ends(c), n) = Len(fs) + 1
    BY <1>1, <1>2, <1>5, <1>7 DEF Scanned
  <2>3. ASSUME NEW i \in Ends(c), i <= n
        PROVE  more[Count(Ends(c), i)] = Width(c[i - 1])
    <3>1. CASE i = n
      BY <2>1, <2>2, <3>1
    <3>2. CASE i <= p
      <4>1. fs[Count(Ends(c), i)] = Width(c[i - 1]) /\ Len(fs) = Count(Ends(c), p)
        BY <1>2, <3>2 DEF Scanned
      <4>2. Count(Ends(c), i) \in Nat \ {0}
        BY <1>3, CountsItself
      <4>3. Count(Ends(c), i) <= Count(Ends(c), p)
        BY <1>1, <1>3, <1>4, <3>2, CountGrows
      <4>4. Count(Ends(c), i) \in 1 .. Len(fs)
        BY <2>1, <4>1, <4>2, <4>3
      <4> QED
        BY <2>1, <4>1, <4>4
    <3> QED
      BY <1>4, <2>3, <3>1, <3>2
  <2> QED
    BY <2>1, <2>2, <2>3 DEF Scanned
<1> QED
  BY <1>6, <1>7

(* Where none of the generator's segments ends, nothing is flushed.        *)
LEMMA GeneratedSame ==
  ASSUME NEW c \in Chains, NEW ss, NEW n \in 1 .. Len(c) + 1,
         n \notin GenEnds(c), Generated(c, ss, n - 1)
  PROVE  Generated(c, ss, n)
<1> DEFINE p == n - 1
<1>1. p + 1 = n /\ p \in Nat /\ Len(c) + 1 \in Nat
  BY EndsInChain
<1>2. Generated(c, ss, p)
  OBVIOUS
<1>3. GenEnds(c) \in SUBSET (1 .. Len(c) + 1)
  BY EndsInChain
<1> HIDE DEF p
<1>4. p + 1 \notin GenEnds(c) => Count(GenEnds(c), p + 1) = Count(GenEnds(c), p)
  BY <1>1, <1>3, CountStep
<1> QED
  BY <1>1, <1>2, <1>4 DEF Generated

-----------------------------------------------------------------------------
(***************************************************************************)
(* The invariant                                                           *)
(***************************************************************************)

\* Where a pass is in the chain, and what it holds.
PassOK ==
  /\ node = 1 => active = 0 /\ pending = "none"
  /\ node > 1 => active = chain[node - 1]
  /\ stage = "scan" => segments = << >> /\ (node > 1 => pending = "read")
  /\ stage = "generate" => /\ node = 2 => pending = "read"
                           /\ node > 2 => pending = "assigned"

ScannedTo == IF stage = "scan" THEN node - 1 ELSE Len(chain) + 1
GeneratedTo ==
  CASE stage = "scan" -> 0
    [] stage = "generate" -> node - 1
    [] OTHER -> Len(chain) + 1

Inv ==
  /\ ProgramTypeOK /\ PassOK
  /\ Scanned(chain, fields, ScannedTo)
  /\ Generated(chain, segments, GeneratedTo)

(* Both passes start with an empty program.                                *)
LEMMA InitInv == Init => Inv
<1> SUFFICES ASSUME Init PROVE Inv
  OBVIOUS
<1>1. /\ chain \in Chains /\ stage = "scan" /\ node = 1 /\ active = 0
      /\ pending = "none" /\ fields = << >> /\ segments = << >>
  BY DEF Init
<1>2. ProgramTypeOK /\ PassOK
  BY <1>1, EndsInChain DEF ProgramTypeOK, PassOK
<1>3. Scanned(chain, fields, 0)
  BY <1>1, NothingYet, EndsInChain DEF Scanned
<1>4. Generated(chain, segments, 0)
  <2>1. {s \in DOMAIN segments : Width(segments[s].rate) > 0} = {}
    BY <1>1
  <2>2. Taken(segments) = 0
    BY <2>1, FS_EmptySet DEF Taken
  <2> QED
    BY <1>1, <2>2, NothingYet DEF Generated
<1> QED
  BY <1>1, <1>2, <1>3, <1>4 DEF Inv, ScannedTo, GeneratedTo

(* What runs after generation leaves the program alone.                    *)
LEMMA RunsKeepProgram ==
  Tick \/ DomainInit \/ RunDirect \/ RunLoop \/ RunCounter \/ RunDecimate
    \/ RunInterpolate => UNCHANGED program
  BY DEF Tick, DomainInit, RunDirect, RunLoop, RunCounter, RunDecimate,
         RunInterpolate, Ran
(* A pass at a signal sees a change of rate where a segment may end.       *)
LEMMA AtNode ==
  ASSUME Inv
  PROVE  /\ chain \in Chains /\ Len(chain) \in Nat /\ Len(chain) >= 2
         /\ node \in 1 .. Len(chain) + 1
         /\ node <= Len(chain) => Rate \in Nat \ {0}
         /\ node > 1 => active = chain[node - 1] /\ active \in Nat \ {0}
         /\ node <= Len(chain) /\ ~RateChanges => node \notin Ends(chain)
         /\ Width(active) = 0 => node \notin Ends(chain)
         /\ node > 1 /\ (node > Len(chain) \/ RateChanges) /\ Width(active) # 0
              => node \in Ends(chain)
<1>1. /\ chain \in Chains /\ node \in 1 .. Len(chain) + 1
      /\ node > 1 => active = chain[node - 1]
  BY DEF Inv, ProgramTypeOK, PassOK
<1>2. /\ Len(chain) \in Nat /\ Len(chain) >= 2
      /\ \A i \in 1 .. Len(chain) : chain[i] \in Nat \ {0}
      /\ 1 \notin Ends(chain)
  BY <1>1, EndsInChain
<1>3. node > 1 => active \in Nat \ {0}
  BY <1>1, <1>2
<1>4. ~(node > 1) => node \notin Ends(chain)
  BY <1>1, <1>2
<1> QED
  BY <1>1, <1>2, <1>3, <1>4, WidthType DEF Ends, EndsAt, Rate, RateChanges

(* The pre-scan keeps the invariant.                                       *)
LEMMA ScanStep ==
  ASSUME Inv, ScanSame \/ ScanChange \/ ScanEnd
  PROVE  Inv'
<1>1. /\ stage = "scan" /\ segments = << >> /\ fields \in Seq({1, 2})
      /\ active \in Nat /\ (node > 1 => pending = "read")
      /\ (node = 1 => active = 0)
      /\ Scanned(chain, fields, node - 1) /\ Generated(chain, segments, 0)
  BY DEF Inv, ProgramTypeOK, PassOK, ScannedTo, GeneratedTo, ScanSame, ScanChange,
         ScanEnd, Scanning
<1>2. /\ chain \in Chains /\ Len(chain) \in Nat /\ Len(chain) >= 2
      /\ node \in 1 .. Len(chain) + 1
  BY AtNode
<1>3. /\ node \notin Ends(chain) => Scanned(chain, fields, node)
      /\ node \in Ends(chain) =>
           Scanned(chain, Append(fields, Width(chain[node - 1])), node)
  BY <1>1, <1>2, ScannedNext
<1>4. ASSUME ~(ScanSame) PROVE Scanned(chain, WithField, node) /\ WithField \in Seq({1, 2})
  <2>1. node > 1 /\ (node > Len(chain) \/ RateChanges)
    BY <1>1, <1>2, <1>4 DEF ScanChange, ScanEnd, RateChanges
  <2>2. active = chain[node - 1]
    BY <2>1, AtNode
  <2>3. CASE Width(active) = 0
    BY <1>1, <1>3, <2>3, AtNode DEF WithField
  <2>4. CASE Width(active) # 0
    <3>1. node \in Ends(chain)
      BY <2>1, <2>4, AtNode
    <3>2. WithField = Append(fields, Width(chain[node - 1]))
      BY <1>1, <2>1, <2>2, <2>4 DEF WithField
    <3>3. Width(chain[node - 1]) \in {1, 2}
      BY <2>2, <2>4, WidthType
    <3> QED
      BY <1>1, <1>3, <3>1, <3>2, <3>3
  <2> QED
    BY <2>3, <2>4
<1>5. /\ chain' = chain /\ segments' = segments
      /\ Scanned(chain, fields', node) /\ fields' \in Seq({1, 2})
  <2>1. CASE ScanSame
    <3>1. node \notin Ends(chain)
      BY <2>1, AtNode DEF ScanSame, Scanning
    <3> QED
      BY <1>1, <1>3, <2>1, <3>1 DEF ScanSame, stream
  <2>2. CASE ~ScanSame
    BY <1>4, <2>2 DEF ScanChange, ScanEnd, LastFlush, stream
  <2> QED
    BY <2>1, <2>2
<1>6. segments' \in Seq([rate : Nat \ {0}, field : 0 .. Len(fields')])
  BY <1>1, <1>5
<1>7. CASE ScanSame \/ ScanChange
  <2>1. /\ node <= Len(chain) /\ node' = node + 1 /\ active' = chain[node]
        /\ pending' = "read" /\ stage' = "scan"
    BY <1>1, <1>7 DEF ScanSame, ScanChange, Scanning, Advance, Rate
  <2>2. active' \in Nat /\ node' \in 1 .. Len(chain) + 1 /\ node' > 1 /\ node' - 1 = node
    BY <1>2, <2>1, AtNode DEF Rate
  <2>3. ProgramTypeOK' /\ PassOK'
    BY <1>1, <1>2, <1>5, <1>6, <2>1, <2>2 DEF ProgramTypeOK, PassOK
  <2> QED
    BY <1>1, <1>5, <2>1, <2>2, <2>3 DEF Inv, ScannedTo, GeneratedTo
<1>8. CASE ScanEnd
  <2>1. /\ node > Len(chain) /\ node' = 1 /\ active' = 0
        /\ pending' = "none" /\ stage' = "generate"
    BY <1>8 DEF ScanEnd
  <2>2. node = Len(chain) + 1
    BY <1>2, <2>1
  <2>3. ProgramTypeOK' /\ PassOK'
    BY <1>1, <1>2, <1>5, <1>6, <2>1 DEF ProgramTypeOK, PassOK
  <2> QED
    BY <1>1, <1>5, <2>1, <2>2, <2>3 DEF Inv, ScannedTo, GeneratedTo
<1> QED
  BY <1>7, <1>8

(* The generator keeps the invariant.                                      *)
LEMMA GenerateStep ==
  ASSUME Inv, GenerateRead \/ GenerateAssign \/ GenerateFlush \/ GenerateEnd
  PROVE  Inv'
<1>1. /\ stage = "generate" /\ fields \in Seq({1, 2}) /\ active \in Nat
      /\ segments \in Seq([rate : Nat \ {0}, field : 0 .. Len(fields)])
      /\ pending \in {"none", "read", "assigned"}
      /\ node = 1 => pending = "none"
      /\ node = 2 => pending = "read"
      /\ node > 2 => pending = "assigned"
      /\ Scanned(chain, fields, Len(chain) + 1)
      /\ Generated(chain, segments, node - 1)
  BY DEF Inv, ProgramTypeOK, PassOK, ScannedTo, GeneratedTo, GenerateRead,
         GenerateAssign, GenerateFlush, GenerateEnd, Generating
<1>2. /\ chain \in Chains /\ Len(chain) \in Nat /\ Len(chain) >= 2
      /\ node \in 1 .. Len(chain) + 1
  BY AtNode
<1>3. chain' = chain /\ fields' = fields
  BY DEF GenerateRead, GenerateAssign, GenerateFlush, GenerateEnd, stream
<1>4. /\ Generated(chain, segments', node)
      /\ segments' \in Seq([rate : Nat \ {0}, field : 0 .. Len(fields)])
  <2>1. CASE GenerateRead \/ GenerateAssign
    <3>1. segments' = segments
      BY <2>1 DEF GenerateRead, GenerateAssign
    <3>2. node \notin GenEnds(chain)
      <4>1. CASE node <= 2
        <5>1. node = 1 \/ node = 2
          BY <1>2, <4>1
        <5> QED
          BY <1>2, <5>1, EndsInChain
      <4>2. CASE node > 2
        <5>1. node <= Len(chain) /\ ~RateChanges
          BY <1>1, <2>1, <4>2
          DEF GenerateRead, GenerateAssign, Generating, Completed
        <5> QED
          BY <5>1, AtNode DEF GenEnds
      <4> QED
        BY <1>2, <4>1, <4>2
    <3> QED
      BY <1>1, <1>2, <3>1, <3>2, GeneratedSame
  <2>2. CASE GenerateFlush \/ GenerateEnd
    <3>1. segments' = WithSegment
      BY <2>2 DEF GenerateFlush, GenerateEnd
    <3>2. node \in 3 .. Len(chain) + 1
      BY <1>1, <1>2, <2>2 DEF GenerateFlush, GenerateEnd, Completed
    <3>3. active = chain[node - 1] /\ active \in Nat \ {0}
      BY <3>2, AtNode
    <3>4. node = Len(chain) + 1 \/ chain[node] # chain[node - 1]
      BY <1>2, <2>2, <3>3 DEF GenerateFlush, GenerateEnd, RateChanges, Rate
    <3> DEFINE f == FieldFor(active)
    <3>5. f = IF Width(chain[node - 1]) > 0 /\ Taken(segments) + 1 <= Len(fields)
              THEN Taken(segments) + 1 ELSE 0
      BY <3>3 DEF FieldFor, NextField, FieldsTaken, Taken
    <3>6. segments' = Append(segments, [rate |-> chain[node - 1], field |-> f])
      BY <3>1, <3>3 DEF WithSegment
    <3>7. segments \in Segments
      BY <1>1, WiderFields
    <3> HIDE DEF f
    <3>8. /\ Generated(chain, Append(segments, [rate |-> chain[node - 1], field |-> f]),
                       node)
          /\ f \in 0 .. Len(fields)
      BY <1>1, <1>2, <3>2, <3>4, <3>5, <3>7, Flushed
    <3> QED
      BY <1>1, <3>3, <3>6, <3>8
  <2> QED
    BY <2>1, <2>2
<1>5. CASE GenerateEnd
  <2>1. /\ node = Len(chain) + 1 /\ stage' = "run"
        /\ node' = node /\ active' = active /\ pending' = pending
    BY <1>2, <1>5 DEF GenerateEnd
  <2>2. ProgramTypeOK' /\ PassOK'
    BY <1>1, <1>2, <1>3, <1>4, <2>1, AtNode DEF ProgramTypeOK, PassOK
  <2> QED
    BY <1>1, <1>3, <1>4, <2>1, <2>2 DEF Inv, ScannedTo, GeneratedTo
<1>6. CASE GenerateRead \/ GenerateAssign \/ GenerateFlush
  <2>1. /\ node <= Len(chain) /\ node' = node + 1 /\ active' = chain[node]
        /\ stage' = "generate"
        /\ pending' = IF node = 1 THEN "read" ELSE "assigned"
    BY <1>1, <1>2, <1>6
    DEF GenerateRead, GenerateAssign, GenerateFlush, Generating, Advance, Rate, Completed
  <2>2. active' \in Nat /\ node' \in 2 .. Len(chain) + 1 /\ node' - 1 = node
    BY <1>2, <2>1, AtNode DEF Rate
  <2>3. /\ node' = 2 => pending' = "read"
        /\ node' > 2 => pending' = "assigned"
        /\ pending' \in {"none", "read", "assigned"} /\ node' # 1
        /\ node' \in 1 .. Len(chain) + 1
    BY <1>2, <2>1, <2>2
  <2>4. ProgramTypeOK' /\ PassOK'
    BY <1>2, <1>1, <1>3, <1>4, <2>1, <2>2, <2>3 DEF ProgramTypeOK, PassOK
  <2> QED
    BY <1>1, <1>3, <1>4, <2>1, <2>2, <2>4 DEF Inv, ScannedTo, GeneratedTo
<1> QED
  BY <1>5, <1>6

(* Every step keeps the invariant.                                         *)
LEMMA NextInv == Inv /\ [Next]_vars => Inv'
<1> SUFFICES ASSUME Inv, [Next]_vars PROVE Inv'
  OBVIOUS
<1>1. CASE ScanSame \/ ScanChange \/ ScanEnd
  BY <1>1, ScanStep
<1>2. CASE GenerateRead \/ GenerateAssign \/ GenerateFlush \/ GenerateEnd
  BY <1>2, GenerateStep
<1>3. CASE UNCHANGED program
  BY <1>3 DEF Inv, ProgramTypeOK, PassOK, ScannedTo, GeneratedTo, program, stream, pass
<1>4. CASE UNCHANGED vars
  BY <1>3, <1>4 DEF vars
<1> QED
  BY <1>1, <1>2, <1>3, <1>4, RunsKeepProgram DEF Next

(* The chain, the passes and what they build stay in their types           *)
(* (stridegenerator.cpp:1288-1384, 2161-2437).                             *)
THEOREM ProgramTypeCorrect == Spec => []ProgramTypeOK
<1>1. Inv => ProgramTypeOK
  BY DEF Inv
<1> QED
  BY <1>1, InitInv, NextInv, PTL DEF Spec

(* The generator never runs out of the fields the pre-scan added, and no   *)
(* two segments share one (stridegenerator.cpp:2211-2227).                 *)
THEOREM FieldForEverySegment == Spec => []EverySegmentHasItsField
<1>1. Inv => EverySegmentHasItsField
  <2> SUFFICES ASSUME Inv, stage = "run",
                      NEW s \in DOMAIN segments, Width(segments[s].rate) > 0
               PROVE  /\ segments[s].field \in DOMAIN fields
                      /\ \A t \in DOMAIN segments \ {s} :
                           segments[t].field # segments[s].field
    BY DEF EverySegmentHasItsField, Running, NeedsField
  <2>1. /\ Scanned(chain, fields, Len(chain) + 1)
        /\ Generated(chain, segments, Len(chain) + 1)
        /\ chain \in Chains /\ fields \in Seq({1, 2})
    BY DEF Inv, ScannedTo, GeneratedTo, ProgramTypeOK
  <2>2. /\ segments[s].field \in 1 .. Taken(segments)
        /\ Taken(segments) = Count(GenEnds(chain), Len(chain) + 1)
    BY <2>1, WidthType DEF Generated
  <2> DEFINE m == Len(chain) + 1
  <2>3. /\ m \in Nat /\ m <= m /\ Ends(chain) \in SUBSET (1 .. m)
        /\ GenEnds(chain) \in SUBSET Ends(chain)
        /\ GenEnds(chain) \in SUBSET (1 .. m)
    BY <2>1, EndsInChain
  <2>4. Len(fields) = Count(Ends(chain), m)
    BY <2>1 DEF Scanned
  <2>5. /\ segments[s].field \in 1 .. Count(GenEnds(chain), m)
        /\ DOMAIN fields = 1 .. Len(fields) /\ Len(fields) \in Nat
    BY <2>1, <2>2
  <2> HIDE DEF m
  <2>6. /\ Count(GenEnds(chain), m) <= Count(Ends(chain), m)
        /\ Count(GenEnds(chain), m) \in Nat
    BY <2>3, CountGrows, CountStep
  <2>7. segments[s].field \in DOMAIN fields
    BY <2>4, <2>5, <2>6
  <2> QED
    BY <2>1, <2>7 DEF Generated
<1> QED
  BY <1>1, InitInv, NextInv, PTL DEF Spec

(* Where the passes cut alike, every field is taken by the segment it was  *)
(* declared for (stridegenerator.cpp:1330-1352, 2211-2221).                *)
THEOREM FieldsFitTheirSegments == Spec => []FieldsFit
<1>1. Inv => FieldsFit
  <2> SUFFICES ASSUME Inv, stage = "run", CutAlike
               PROVE  /\ \A s \in DOMAIN segments : Fits(s)
                      /\ FieldsTaken = Len(fields)
    BY DEF FieldsFit, Running
  <2>1. /\ Scanned(chain, fields, Len(chain) + 1)
        /\ Generated(chain, segments, Len(chain) + 1)
        /\ chain \in Chains /\ Len(chain) \in Nat /\ Len(chain) >= 2
    BY EndsInChain DEF Inv, ScannedTo, GeneratedTo, ProgramTypeOK
  <2>2. 2 \notin Ends(chain)
    BY <2>1 DEF CutAlike, Ends, EndsAt
  <2>3. GenEnds(chain) = Ends(chain)
    BY <2>2 DEF GenEnds
  <2>4. ASSUME NEW s \in DOMAIN segments, Width(segments[s].rate) > 0
        PROVE  /\ segments[s].field \in DOMAIN fields
               /\ fields[segments[s].field] = Width(segments[s].rate)
    <3>0. segments[s].field \in DOMAIN fields
      <4>1. segments[s].field \in 1 .. Taken(segments)
        BY <2>1, <2>4, WidthType DEF Generated
      <4>2. Taken(segments) = Len(fields) /\ fields \in Seq({1, 2})
        BY <2>1, <2>3 DEF Scanned, Generated, Inv, ProgramTypeOK
      <4> QED
        BY <4>1, <4>2
    <3>1. PICK i \in Ends(chain) : TakenAt(chain, segments[s], i)
      BY <2>1, <2>3, <2>4, WidthType DEF Generated
    <3>2. i <= Len(chain) + 1
      BY <2>1, <3>1 DEF Ends
    <3>3. fields[Count(Ends(chain), i)] = Width(chain[i - 1])
      BY <2>1, <3>2 DEF Scanned
    <3> QED
      BY <2>3, <3>0, <3>1, <3>3 DEF TakenAt
  <2>5. FieldsTaken = Len(fields)
    BY <2>1, <2>3 DEF Scanned, Generated, FieldsTaken, Taken
  <2> QED
    BY <2>4, <2>5 DEF Fits, NeedsField
<1> QED
  BY <1>1, InitInv, NextInv, PTL DEF Spec
-----------------------------------------------------------------------------
(***************************************************************************)
(* Segments in one state keep their pace                                   *)
(*                                                                         *)
(* The state's fields do not overlap, so what one segment stores changes   *)
(* no other's phase, and each phase says how far its segment is ahead.     *)
(***************************************************************************)

\* Steps that the words of a phase can hold: a counter's in one word, which
\* build does not check, and those of an accumulator in two, which are below
\* 10^12 (binaryexprast.cpp:932-939).
StepsFit ==
  \A c \in Chains : \A i \in DOMAIN c :
    LET schedule == Schedule(c[i])
        range == IF schedule.kind = "counter" THEN WordSize ELSE WordSize * WordSize
    IN  2 * schedule.stepD <= range /\ 2 * schedule.stepC <= range

KindOf(s) == Schedule(segments[s].rate).kind
StepD(s) == Schedule(segments[s].rate).stepD
StepC(s) == Schedule(segments[s].rate).stepC

\* The ticks that segment s has seen since the last init.
Done(s) == IF s < running THEN ticks + 1 ELSE ticks

\* What the phase says after so many ticks done and so many runs.
PacedBy(schedule, phase, done, times) ==
  LET d == schedule.stepD
      c == schedule.stepC
  IN  /\ schedule.kind = "direct" => times = done
      /\ schedule.kind = "loop" => times = done * c
      /\ schedule.kind = "counter" =>
           /\ phase \in 0 .. d - 1
           /\ done = IF phase = 0 THEN times * d ELSE (times - 1) * d + phase
      /\ schedule.kind = "decimate" =>
           /\ phase = times * d - done * c
           /\ -c < phase /\ phase <= d - c
      /\ schedule.kind = "interpolate" =>
           /\ phase = times * d - done * c
           /\ 0 <= phase /\ phase < d

Paced(s) == PacedBy(Schedule(segments[s].rate), Phase(s), Done(s), runs[s])

RunOK ==
  /\ base \in Bases
  /\ stage # "run" => running = 0 /\ ticks = 0
  /\ stage = "run" =>
       Len(segments) > 0 /\ running \in 0 .. Len(segments) /\ ticks \in Nat

AllFit == \A s \in DOMAIN segments : Fits(s)

PaceInv ==
  stage = "run" /\ AllFit =>
    /\ memory \in [Words -> 0 .. WordSize - 1]
    /\ runs \in [DOMAIN segments -> Nat]
    /\ \A s \in DOMAIN segments : Paced(s)

-----------------------------------------------------------------------------
(***************************************************************************)
(* The layout of the fields                                                *)
(***************************************************************************)

\* Where field f may start: behind the one before it.
Behind(g, f) == IF f = 1 THEN base ELSE g[f - 1] + fields[f - 1]

(* An aligned field starts no later than the next even word.               *)
LEMMA Alignment ==
  ASSUME NEW o \in Nat, NEW w \in {1, 2}
  PROVE  /\ Aligned(o, w) \in Nat /\ o <= Aligned(o, w)
         /\ \A e \in Nat : e % 2 = 0 /\ o <= e => Aligned(o, w) <= e
<1>1. o % 2 \in {0, 1}
  BY SMT
<1>2. ASSUME NEW e \in Nat, e % 2 = 0, o <= e, o % 2 = 1 PROVE o + 1 <= e
  BY <1>2, SMT
<1> QED
  BY <1>1, <1>2 DEF Aligned

(* The offsets are those the recursion calls for.                          *)
LEMMA OffsetUnfolds ==
  ASSUME fields \in Seq({1, 2}), base \in Nat
  PROVE  \A f \in DOMAIN fields : Offset[f] = Aligned(Behind(Offset, f), fields[f])
<1> DEFINE Laid(g, n) ==
             /\ g \in [1 .. n -> Nat]
             /\ \A f \in 1 .. n : g[f] = Aligned(Behind(g, f), fields[f])
           S == {n \in Nat : n <= Len(fields) => \E g : Laid(g, n)}
<1>1. DOMAIN fields = 1 .. Len(fields) /\ Len(fields) \in Nat
      /\ \A f \in 1 .. Len(fields) : fields[f] \in {1, 2}
  OBVIOUS
<1>2. \A o \in Nat, w \in {1, 2} : Aligned(o, w) \in Nat
  BY Alignment
<1>3. 0 \in S
  <2>1. Laid([f \in 1 .. 0 |-> 0], 0)
    OBVIOUS
  <2> QED
    BY <2>1
<1>4. ASSUME NEW n \in Nat, n \in S PROVE n + 1 \in S
  <2> SUFFICES ASSUME n + 1 <= Len(fields) PROVE \E g : Laid(g, n + 1)
    OBVIOUS
  <2>1. PICK g : Laid(g, n)
    BY <1>1, <1>4
  <2> DEFINE next == Aligned(IF n = 0 THEN base ELSE g[n] + fields[n], fields[n + 1])
             h == [f \in 1 .. n + 1 |-> IF f = n + 1 THEN next ELSE g[f]]
  <2>2. next \in Nat
    <3>1. (IF n = 0 THEN base ELSE g[n] + fields[n]) \in Nat
      <4>1. n # 0 => g[n] \in Nat /\ fields[n] \in {1, 2}
        BY <1>1, <2>1
      <4> QED
        BY <4>1
    <3>2. fields[n + 1] \in {1, 2}
      BY <1>1
    <3> QED
      BY <1>2, <3>1, <3>2
  <2> HIDE DEF next
  <2>3. h \in [1 .. n + 1 -> Nat]
    BY <2>1, <2>2
  <2>4. ASSUME NEW f \in 1 .. n + 1
        PROVE  h[f] = Aligned(Behind(h, f), fields[f])
    <3>1. CASE f = n + 1
      <4>1. Behind(h, f) = IF n = 0 THEN base ELSE g[n] + fields[n]
        BY <3>1 DEF Behind
      <4> QED
        BY <3>1, <4>1 DEF next
    <3>2. CASE f # n + 1
      <4>1. f \in 1 .. n /\ h[f] = g[f]
        BY <3>2
      <4>2. Behind(h, f) = Behind(g, f)
        BY <4>1 DEF Behind
      <4> QED
        BY <2>1, <4>1, <4>2
    <3> QED
      BY <3>1, <3>2
  <2> HIDE DEF h
  <2> QED
    BY <2>3, <2>4
<1>5. Len(fields) \in S
  <2> HIDE DEF S
  <2> QED
    BY <1>1, <1>3, <1>4, Induction
<1>6. PICK g : Laid(g, Len(fields))
  BY <1>1, <1>5
<1> DEFINE Layout(h) ==
      [f \in DOMAIN fields |->
         Aligned(IF f = 1 THEN base ELSE h[f - 1] + fields[f - 1], fields[f])]
<1>7. g = Layout(g)
  BY <1>1, <1>6 DEF Behind
<1>8. Offset = Layout(Offset)
  <2>1. Offset = CHOOSE h : h = Layout(h)
    BY DEF Offset
  <2> HIDE DEF Layout
  <2> QED
    BY <1>7, <2>1
<1> QED
  <2> TAKE f \in DOMAIN fields
  <2>1. Offset[f] = Layout(Offset)[f]
    BY <1>8
  <2> QED
    BY <2>1 DEF Behind

(* The fields lie in the state's words, one behind another.                *)
LEMMA FieldsApart ==
  ASSUME fields \in Seq({1, 2}), base \in Nat
  PROVE  /\ \A f \in DOMAIN fields :
              Offset[f] \in Nat /\ Offset[f] \in Words /\ Offset[f] + 1 \in Words
         /\ \A f, g \in DOMAIN fields : f < g => Offset[f] + fields[f] <= Offset[g]
<1> DEFINE E == base + (base % 2)
           Low == {n \in Nat : n \in DOMAIN fields =>
                     /\ Offset[n] \in Nat /\ base <= Offset[n]
                     /\ Offset[n] + fields[n] <= E + 2 * n}
<1>1. /\ DOMAIN fields = 1 .. Len(fields) /\ Len(fields) \in Nat
      /\ \A f \in 1 .. Len(fields) : fields[f] \in {1, 2}
  OBVIOUS
<1>2. E \in Nat /\ E % 2 = 0 /\ base <= E /\ E <= base + 1
  BY SMT
<1> HIDE DEF E
<1>3. 0 \in Low
  BY <1>1
<1>4. ASSUME NEW n \in Nat, n \in Low PROVE n + 1 \in Low
  <2> SUFFICES ASSUME n + 1 \in DOMAIN fields
               PROVE  /\ Offset[n + 1] \in Nat /\ base <= Offset[n + 1]
                      /\ Offset[n + 1] + fields[n + 1] <= E + 2 * (n + 1)
    OBVIOUS
  <2> DEFINE o == Behind(Offset, n + 1)
  <2>1. o \in Nat /\ base <= o /\ o <= E + 2 * n
    <3>1. CASE n = 0
      BY <1>2, <3>1 DEF Behind
    <3>2. CASE n # 0
      BY <1>1, <1>4, <3>2 DEF Behind
    <3> QED
      BY <3>1, <3>2
  <2>2. Offset[n + 1] = Aligned(o, fields[n + 1])
    BY OffsetUnfolds
  <2>3. E + 2 * n \in Nat /\ (E + 2 * n) % 2 = 0
    BY <1>2, SMT
  <2> HIDE DEF o
  <2>4. /\ Offset[n + 1] \in Nat /\ o <= Offset[n + 1]
        /\ Offset[n + 1] <= E + 2 * n
    BY <1>1, <2>1, <2>2, <2>3, Alignment
  <2> QED
    BY <1>1, <1>2, <2>1, <2>4
<1>5. \A n \in Nat : n \in Low
  <2> HIDE DEF Low
  <2> QED
    BY <1>3, <1>4, Induction
<1>6. ASSUME NEW f \in DOMAIN fields
      PROVE  /\ Offset[f] \in Nat /\ Offset[f] \in Words /\ Offset[f] + 1 \in Words
  BY <1>1, <1>2, <1>5 DEF Words
<1>7. ASSUME NEW f \in DOMAIN fields, NEW g \in DOMAIN fields, f < g
      PROVE  Offset[f] + fields[f] <= Offset[g]
  <2> DEFINE Up == {n \in Nat : n \in DOMAIN fields /\ f < n =>
                      Offset[f] + fields[f] <= Offset[n]}
  <2>1. 0 \in Up
    BY <1>1
  <2>2. ASSUME NEW n \in Nat, n \in Up PROVE n + 1 \in Up
    <3> SUFFICES ASSUME n + 1 \in DOMAIN fields, f < n + 1
                 PROVE  Offset[f] + fields[f] <= Offset[n + 1]
      OBVIOUS
    <3>1. n \in DOMAIN fields /\ f \in Nat
      BY <1>1
    <3>2. Offset[n + 1] = Aligned(Offset[n] + fields[n], fields[n + 1])
      <4>1. Offset[n + 1] = Aligned(Behind(Offset, n + 1), fields[n + 1])
        BY OffsetUnfolds
      <4>2. n + 1 # 1 /\ (n + 1) - 1 = n
        BY <1>1, <3>1
      <4>3. Behind(Offset, n + 1) = Offset[n] + fields[n]
        BY <4>2, Zenon DEF Behind
      <4> QED
        BY <4>1, <4>3
    <3>3. Offset[n] + fields[n] \in Nat /\ Offset[n] \in Nat
      BY <1>1, <1>6, <3>1
    <3>4. Offset[n] + fields[n] <= Offset[n + 1] /\ Offset[n + 1] \in Nat
      BY <1>1, <3>2, <3>3, Alignment
    <3>5. CASE f = n
      BY <3>4, <3>5
    <3>6. CASE f < n
      <4>1. Offset[f] + fields[f] <= Offset[n]
        BY <2>2, <3>1, <3>6
      <4>2. Offset[f] \in Nat /\ fields[f] \in {1, 2} /\ fields[n] \in {1, 2}
        BY <1>1, <1>6, <3>1
      <4> QED
        BY <3>3, <3>4, <4>1, <4>2
    <3> QED
      BY <3>1, <3>5, <3>6
  <2>3. \A n \in Nat : n \in Up
    <3> HIDE DEF Up
    <3> QED
      BY <2>1, <2>2, Induction
  <2> QED
    BY <1>1, <1>7, <2>3
<1> QED
  BY <1>6, <1>7

-----------------------------------------------------------------------------
(***************************************************************************)
(* The schedules build can produce                                         *)
(***************************************************************************)

ScheduleRules(s) ==
  /\ s.kind \in {"direct", "counter", "loop", "decimate", "interpolate"}
  /\ s.stepD \in Nat \ {0} /\ s.stepC \in Nat \ {0}
  /\ s.kind = "direct" => s.stepD = 1 /\ s.stepC = 1
  /\ s.kind = "counter" => s.stepD > 1 /\ s.stepC = 1
  /\ s.kind = "loop" => s.stepD = 1
  /\ s.kind = "decimate" => s.stepC < s.stepD
  /\ s.kind = "interpolate" => s.stepD < s.stepC

(* Two positive rates have a greatest common divisor.                      *)
LEMMA GcdDivides ==
  ASSUME NEW a \in Nat \ {0}, NEW b \in Nat \ {0}
  PROVE  Gcd(a, b) \in Nat \ {0} /\ a % Gcd(a, b) = 0 /\ b % Gcd(a, b) = 0
<1>1. \E g \in CommonDivisors(a, b) : \A h \in CommonDivisors(a, b) : h <= g
  BY CommonDivisor DEF CommonDivisors
<1>2. Gcd(a, b) \in CommonDivisors(a, b)
  BY <1>1 DEF Gcd
<1> QED
  BY <1>2 DEF CommonDivisors

(* A segment that decimates has fewer runs than ticks, one that            *)
(* interpolates has more, and a counter counts to more than one.           *)
LEMMA ScheduleIsSound == \A r \in Nat \ {0} : ScheduleRules(Schedule(r))
<1> TAKE r \in Nat \ {0}
<1> DEFINE d == DomainRate
<1>1. d \in Int
  BY PhaseFieldsAssumption
<1>2. CASE RunsEveryTick(d, r)
  <2>1. Schedule(r) = [kind |-> "direct", stepD |-> 1, stepC |-> 1]
    BY <1>2 DEF Schedule, Build
  <2> QED
    BY <2>1 DEF ScheduleRules
<1>3. CASE ~RunsEveryTick(d, r)
  <2>0. d \in Nat \ {0} /\ d # r
    BY <1>1, <1>3 DEF RunsEveryTick
  <2>1. CASE d % r = 0
    <3>1. Schedule(r) = [kind |-> "counter", stepD |-> d \div r, stepC |-> 1]
      BY <1>3, <2>1 DEF Schedule, Build
    <3>2. d \div r \in Nat \ {0} /\ d = r * (d \div r)
      BY <2>0, <2>1, Quotient
    <3>3. d \div r # 1
      BY <2>0, <3>2
    <3>4. d \div r > 1
      BY <3>2, <3>3
    <3> QED
      BY <3>1, <3>2, <3>4 DEF ScheduleRules
  <2>2. CASE d % r # 0 /\ r % d = 0
    <3>1. Schedule(r) = [kind |-> "loop", stepD |-> 1, stepC |-> r \div d]
      BY <1>3, <2>2 DEF Schedule, Build
    <3>2. r \div d \in Nat \ {0}
      BY <2>0, <2>2, Quotient
    <3> QED
      BY <3>1, <3>2 DEF ScheduleRules
  <2>3. CASE d % r # 0 /\ r % d # 0
    <3> DEFINE g == Gcd(d, r)
    <3>1. Schedule(r) =
            [kind  |-> IF r < d THEN "decimate" ELSE "interpolate",
             stepD |-> d \div g, stepC |-> r \div g]
      BY <1>3, <2>3 DEF Schedule, Build
    <3>2. g \in Nat \ {0} /\ d % g = 0 /\ r % g = 0
      BY <2>0, GcdDivides
    <3> HIDE DEF g
    <3>3. d \div g \in Nat \ {0} /\ r \div g \in Nat \ {0}
      BY <2>0, <3>2, Quotient
    <3>4. /\ r < d => r \div g < d \div g
          /\ d < r => d \div g < r \div g
      BY <2>0, <3>2, QuotientsInOrder
    <3>5. r < d \/ d < r
      BY <2>0
    <3> QED
      BY <3>1, <3>3, <3>4, <3>5 DEF ScheduleRules
  <2> QED
    BY <2>1, <2>2, <2>3
<1> QED
  BY <1>2, <1>3

-----------------------------------------------------------------------------
(***************************************************************************)
(* What a field holds                                                      *)
(***************************************************************************)

\* The value held at an offset of memory m.
Held(m, o, w) ==
  IF w = 1 THEN Signed(m[o]) ELSE m[o] + WordSize * Signed(m[o + 1])

FieldRange(w) == IF w = 1 THEN WordSize ELSE WordSize * WordSize

(* A word holds what fits into it.                                         *)
LEMMA WordHolds ==
  ASSUME NEW v \in Int, -WordSize <= 2 * v, 2 * v < WordSize
  PROVE  Signed(v % WordSize) = v /\ v % WordSize \in 0 .. WordSize - 1
<1>1. WordSize \in Nat \ {0} /\ WordSize % 2 = 0
  BY PhaseFieldsAssumption
<1>2. CASE v >= 0
  <2>1. v % WordSize = v
    BY <1>1, <1>2, SMT
  <2> QED
    BY <1>1, <1>2, <2>1 DEF Signed
<1>3. CASE v < 0
  <2>1. v % WordSize = v + WordSize
    BY <1>1, <1>3, SMT
  <2> QED
    BY <1>1, <1>3, <2>1 DEF Signed
<1> QED
  BY <1>2, <1>3

(* The high word of what fits into two words fits into one.                *)
LEMMA HighWord ==
  ASSUME NEW v \in Int, -(WordSize * WordSize) <= 2 * v, 2 * v < WordSize * WordSize
  PROVE  /\ v \div WordSize \in Int /\ v % WordSize \in 0 .. WordSize - 1
         /\ v = WordSize * (v \div WordSize) + (v % WordSize)
         /\ -WordSize <= 2 * (v \div WordSize) /\ 2 * (v \div WordSize) < WordSize
<1>1. WordSize \in Nat \ {0} /\ WordSize % 2 = 0
  BY PhaseFieldsAssumption
<1> DEFINE q == v \div WordSize
           r == v % WordSize
<1>2. q \in Int /\ r \in 0 .. WordSize - 1 /\ v = WordSize * q + r
  BY <1>1, SMT
<1> HIDE DEF q, r
<1>3. ASSUME WordSize <= 2 * q PROVE FALSE
  <2>1. WordSize * WordSize <= WordSize * (2 * q)
    BY <1>1, <1>2, <1>3
  <2>2. WordSize * (2 * q) = 2 * (WordSize * q)
    BY <1>1, <1>2, SMT
  <2> QED
    BY <1>1, <1>2, <2>1, <2>2
<1>4. ASSUME 2 * q <= -WordSize - 2 PROVE FALSE
  <2>1. WordSize * (2 * q) <= WordSize * (-WordSize - 2)
    BY <1>1, <1>2, <1>4
  <2>2. /\ WordSize * (2 * q) = 2 * (WordSize * q)
        /\ WordSize * (-WordSize - 2) = -(WordSize * WordSize) - 2 * WordSize
    BY <1>1, <1>2, SMT
  <2> QED
    BY <1>1, <1>2, <2>1, <2>2
<1>5. 2 * q # -WordSize - 1
  BY <1>1, <1>2, SMT
<1> QED
  BY <1>1, <1>2, <1>3, <1>4, <1>5 DEF q, r

(* A store is read back, and read by nothing that lies elsewhere.          *)
LEMMA StoreHolds ==
  ASSUME memory \in [Words -> 0 .. WordSize - 1], NEW o \in Words, o + 1 \in Words,
         NEW w \in {1, 2}, NEW v \in Int, -FieldRange(w) <= 2 * v, 2 * v < FieldRange(w)
  PROVE  /\ Store(o, w, v) \in [Words -> 0 .. WordSize - 1]
         /\ Held(Store(o, w, v), o, w) = v
         /\ \A p \in Words, x \in {1, 2} :
              p + 1 \in Words /\ (p + x <= o \/ o + w <= p)
                => Held(Store(o, w, v), p, x) = Held(memory, p, x)
<1>1. WordSize \in Nat \ {0} /\ \A p \in Words : p \in Int
  <2>1. \A p \in Words : p \in Int
    BY DEF Words
  <2> QED
    BY <2>1, PhaseFieldsAssumption
<1>2. /\ v % WordSize \in 0 .. WordSize - 1
      /\ (v \div WordSize) % WordSize \in 0 .. WordSize - 1
  BY <1>1, SMT
<1> DEFINE m == Store(o, w, v)
<1>3. /\ DOMAIN m = Words /\ m[o] = v % WordSize
      /\ w = 2 => m[o + 1] = (v \div WordSize) % WordSize
      /\ \A p \in Words : p # o /\ ~(p = o + 1 /\ w = 2) => m[p] = memory[p]
  BY <1>1 DEF Store
<1>4. m \in [Words -> 0 .. WordSize - 1]
  BY <1>2 DEF Store
<1> HIDE DEF m
<1>5. Held(m, o, w) = v
  <2>1. CASE w = 1
    BY <1>3, <2>1, WordHolds DEF Held, FieldRange
  <2>2. CASE w = 2
    <3>1. /\ v \div WordSize \in Int /\ v % WordSize \in 0 .. WordSize - 1
          /\ v = WordSize * (v \div WordSize) + (v % WordSize)
          /\ -WordSize <= 2 * (v \div WordSize) /\ 2 * (v \div WordSize) < WordSize
      BY <2>2, HighWord DEF FieldRange
    <3>2. Signed((v \div WordSize) % WordSize) = v \div WordSize
      BY <3>1, WordHolds
    <3>3. Held(m, o, w) = (v % WordSize) + WordSize * (v \div WordSize)
      BY <1>3, <2>2, <3>2 DEF Held
    <3> QED
      BY <1>1, <3>1, <3>3
  <2> QED
    BY <2>1, <2>2
<1>6. ASSUME NEW p \in Words, NEW x \in {1, 2}, p + 1 \in Words,
             p + x <= o \/ o + w <= p
      PROVE  Held(m, p, x) = Held(memory, p, x)
  <2>1. m[p] = memory[p]
    BY <1>1, <1>3, <1>6
  <2>2. x = 2 => m[p + 1] = memory[p + 1]
    BY <1>1, <1>3, <1>6
  <2> QED
    BY <2>1, <2>2 DEF Held
<1> QED
  BY <1>4, <1>5, <1>6 DEF m

-----------------------------------------------------------------------------
(***************************************************************************)
(* The segments of a running program                                       *)
(***************************************************************************)

\* The field of segment s lies in the state and holds its steps.
FieldOK(s) ==
  /\ segments[s].field \in DOMAIN fields
  /\ Width(segments[s].rate) \in {1, 2}
  /\ Offset[segments[s].field] \in Words /\ Offset[segments[s].field] + 1 \in Words
  /\ 2 * StepD(s) <= FieldRange(Width(segments[s].rate))
  /\ 2 * StepC(s) <= FieldRange(Width(segments[s].rate))

\* The fields of segments s and t do not overlap.
Apart(s, t) ==
  \/ Offset[segments[s].field] + Width(segments[s].rate) <= Offset[segments[t].field]
  \/ Offset[segments[t].field] + Width(segments[t].rate) <= Offset[segments[s].field]

(* Kinds with a phase are those with a field.                              *)
LEMMA KindsWithPhase ==
  ASSUME NEW s \in DOMAIN segments
  PROVE  /\ KindOf(s) = "counter" <=> Width(segments[s].rate) = 1
         /\ KindOf(s) \in {"decimate", "interpolate"} <=> Width(segments[s].rate) = 2
  BY DEF KindOf, Width

(* A running program's segments have their schedules and their fields.     *)
LEMMA SegmentsRun ==
  ASSUME StepsFit, Inv, stage = "run", AllFit, base \in Nat
  PROVE  /\ DOMAIN segments = 1 .. Len(segments) /\ Len(segments) \in Nat
         /\ \A s \in DOMAIN segments :
              /\ ScheduleRules(Schedule(segments[s].rate))
              /\ NeedsField(s) => FieldOK(s)
         /\ \A s, t \in DOMAIN segments :
              NeedsField(s) /\ NeedsField(t) /\ s # t => Apart(s, t)
<1>1. /\ chain \in Chains /\ fields \in Seq({1, 2})
      /\ segments \in Seq([rate : Nat \ {0}, field : 0 .. Len(fields)])
      /\ Generated(chain, segments, Len(chain) + 1)
  BY DEF Inv, ProgramTypeOK, GeneratedTo
<1>2. /\ DOMAIN segments = 1 .. Len(segments) /\ Len(segments) \in Nat
      /\ \A s \in DOMAIN segments : segments[s].rate \in Nat \ {0}
  <2> DEFINE A == [rate : Nat \ {0}, field : 0 .. Len(fields)]
  <2>1. segments \in Seq(A) /\ \A seg \in A : seg.rate \in Nat \ {0}
    BY <1>1
  <2> HIDE DEF A
  <2> QED
    BY <2>1
<1>3. \A s \in DOMAIN segments : ScheduleRules(Schedule(segments[s].rate))
  BY <1>2, ScheduleIsSound
<1>4. ASSUME NEW s \in DOMAIN segments, NeedsField(s) PROVE FieldOK(s)
  <2> DEFINE w == Width(segments[s].rate)
             f == segments[s].field
  <2>1. w \in {1, 2} /\ w # 0
    BY <1>4, WidthType DEF NeedsField
  <2>2. f \in DOMAIN fields
    BY <1>4 DEF AllFit, Fits
  <2>3. Offset[f] \in Words /\ Offset[f] + 1 \in Words
    BY <1>1, <2>2, FieldsApart
  <2>4. PICK i \in GenEnds(chain) : TakenAt(chain, segments[s], i)
    BY <1>1, <2>1 DEF Generated
  <2>5. i - 1 \in DOMAIN chain /\ segments[s].rate = chain[i - 1]
    <3>1. i \in 2 .. Len(chain) + 1 /\ chain \in Seq(Nat \ {0})
      BY <1>1, <2>4, PhaseFieldsAssumption DEF GenEnds, Ends
    <3> QED
      BY <2>4, <3>1 DEF TakenAt
  <2>6. FieldRange(w) = IF Schedule(segments[s].rate).kind = "counter"
                   THEN WordSize ELSE WordSize * WordSize
    BY <2>1, KindsWithPhase DEF FieldRange, KindOf
  <2>7. 2 * StepD(s) <= FieldRange(w) /\ 2 * StepC(s) <= FieldRange(w)
    BY <1>1, <2>5, <2>6 DEF StepsFit, StepD, StepC
  <2> QED
    BY <2>1, <2>2, <2>3, <2>7 DEF FieldOK
<1>5. ASSUME NEW s \in DOMAIN segments, NEW t \in DOMAIN segments,
             NeedsField(s), NeedsField(t), s # t
      PROVE  Apart(s, t)
  <2> DEFINE f == segments[s].field
             g == segments[t].field
  <2>1. f # g
    BY <1>1, <1>5 DEF Generated, NeedsField
  <2>2. /\ f \in DOMAIN fields /\ fields[f] = Width(segments[s].rate)
        /\ g \in DOMAIN fields /\ fields[g] = Width(segments[t].rate)
    BY <1>5 DEF AllFit, Fits
  <2>3. f < g \/ g < f
    BY <1>1, <2>1, <2>2
  <2>4. /\ f < g => Offset[f] + fields[f] <= Offset[g]
        /\ g < f => Offset[g] + fields[g] <= Offset[f]
    BY <1>1, <2>2, FieldsApart
  <2> QED
    BY <2>2, <2>3, <2>4 DEF Apart
<1> QED
  BY <1>2, <1>3, <1>4, <1>5

(* The phase of a segment is what its field holds.                         *)
LEMMA PhaseIsHeld ==
  \A s : Phase(s) = Held(memory, Offset[segments[s].field], Width(segments[s].rate))
  BY DEF Phase, Load, Held

(* A run counts one tick and its runs for its segment alone.               *)
LEMMA RanCounts ==
  ASSUME DOMAIN segments = 1 .. Len(segments), Len(segments) \in Nat,
         ticks \in Nat, runs \in [DOMAIN segments -> Nat],
         NEW r \in DOMAIN segments, r = running, NEW times \in Nat, Ran(times)
  PROVE  /\ runs' \in [DOMAIN segments -> Nat]
         /\ runs'[r] = runs[r] + times
         /\ Done(r) \in Nat /\ Done(r)' = Done(r) + 1
         /\ \A s \in DOMAIN segments \ {r} : runs'[s] = runs[s] /\ Done(s)' = Done(s)
         /\ ticks' \in Nat /\ running' \in 0 .. Len(segments)
<1>1. /\ runs' = [runs EXCEPT ![r] = runs[r] + times]
      /\ running' = IF r = Len(segments) THEN 0 ELSE r + 1
      /\ ticks' = IF r = Len(segments) THEN ticks + 1 ELSE ticks
  BY DEF Ran
<1>2. /\ runs' \in [DOMAIN segments -> Nat] /\ runs'[r] = runs[r] + times
      /\ \A s \in DOMAIN segments \ {r} : runs'[s] = runs[s]
  BY <1>1
<1>3. \A s : Done(s)' = IF s < running' THEN ticks' + 1 ELSE ticks'
  BY DEF Done
<1>4. Done(r) = ticks /\ Done(r)' = ticks + 1
  BY <1>1, <1>3 DEF Done
<1>5. ASSUME NEW s \in DOMAIN segments \ {r} PROVE Done(s)' = Done(s)
  BY <1>1, <1>3 DEF Done
<1> QED
  BY <1>1, <1>2, <1>4, <1>5

(* A phase that one segment stores changes no other's.                     *)
LEMMA PhaseStored ==
  ASSUME StepsFit, Inv, stage = "run", AllFit, base \in Nat,
         memory \in [Words -> 0 .. WordSize - 1], UNCHANGED program,
         NEW r \in DOMAIN segments, r = running, NeedsField(r),
         NEW v \in Int, SetPhase(v),
         -FieldRange(Width(segments[r].rate)) <= 2 * v,
         2 * v < FieldRange(Width(segments[r].rate))
  PROVE  /\ memory' \in [Words -> 0 .. WordSize - 1]
         /\ Phase(r)' = v
         /\ \A s \in DOMAIN segments \ {r} : NeedsField(s) => Phase(s)' = Phase(s)
<1> DEFINE o == Offset[segments[r].field]
           w == Width(segments[r].rate)
           m == Store(o, w, v)
<1>1. FieldOK(r)
  BY SegmentsRun
<1>2. o \in Words /\ o + 1 \in Words /\ w \in {1, 2}
  BY <1>1 DEF FieldOK
<1>3. memory' = m
  BY DEF SetPhase, Segment
<1> HIDE DEF o, w
<1>4. /\ m \in [Words -> 0 .. WordSize - 1] /\ Held(m, o, w) = v
      /\ \A p \in Words, x \in {1, 2} :
           p + 1 \in Words /\ (p + x <= o \/ o + w <= p)
             => Held(m, p, x) = Held(memory, p, x)
  BY <1>2, StoreHolds DEF o, w
<1> HIDE DEF m
<1>5. \A s : Phase(s)' = Held(m, Offset[segments[s].field], Width(segments[s].rate))
  <2>1. segments' = segments /\ Offset' = Offset
    BY DEF program, stream, Offset
  <2> QED
    BY <1>3, <2>1 DEF Phase, Load, Held, Width, Schedule, Signed
<1>6. Phase(r)' = v
  BY <1>4, <1>5 DEF o, w
<1>7. ASSUME NEW s \in DOMAIN segments \ {r}, NeedsField(s)
      PROVE  Phase(s)' = Phase(s)
  <2>1. FieldOK(s) /\ Apart(s, r)
    BY <1>7, SegmentsRun
  <2> DEFINE p == Offset[segments[s].field]
             x == Width(segments[s].rate)
  <2>2. p \in Words /\ p + 1 \in Words /\ x \in {1, 2} /\ (p + x <= o \/ o + w <= p)
    BY <2>1 DEF FieldOK, Apart, o, w
  <2> HIDE DEF p, x
  <2>3. Held(m, p, x) = Held(memory, p, x)
    BY <1>4, <2>2
  <2> QED
    BY <1>5, <2>3, PhaseIsHeld DEF p, x
<1> QED
  BY <1>3, <1>4, <1>6, <1>7

-----------------------------------------------------------------------------
(***************************************************************************)
(* The arithmetic of a run                                                 *)
(***************************************************************************)

(* A segment that has not run since the init is level with its domain.     *)
LEMMA StartsLevel ==
  ASSUME NEW schedule, ScheduleRules(schedule)
  PROVE  PacedBy(schedule, 0, 0, 0)
<1> DEFINE d == schedule.stepD
           c == schedule.stepC
<1>1. d \in Nat \ {0} /\ c \in Nat \ {0} /\ 0 * d = 0 /\ 0 * c = 0
  BY SMT DEF ScheduleRules
<1>2. schedule.kind = "decimate" => c < d
  BY DEF ScheduleRules
<1> HIDE DEF d, c
<1>3. /\ 0 \in 0 .. d - 1 /\ 0 = 0 * d /\ 0 = 0 * d - 0 * c /\ -c < 0 /\ 0 < d
      /\ schedule.kind = "decimate" => 0 <= d - c
  BY <1>1, <1>2
<1> QED
  BY <1>1, <1>3 DEF PacedBy, d, c

(* A counter runs its segment when it is zero.                             *)
LEMMA CounterPaces ==
  ASSUME NEW schedule, ScheduleRules(schedule), schedule.kind = "counter",
         NEW p, NEW n \in Nat, NEW m \in Nat, PacedBy(schedule, p, n, m),
         NEW next, next = IF p + 1 >= schedule.stepD THEN 0 ELSE p + 1
  PROVE  /\ PacedBy(schedule, next, n + 1, m + (IF p = 0 THEN 1 ELSE 0))
         /\ next \in 0 .. schedule.stepD - 1
<1> DEFINE d == schedule.stepD
           k == m + (IF p = 0 THEN 1 ELSE 0)
<1>1. /\ d \in Nat /\ d > 1 /\ p \in 0 .. d - 1
      /\ n = IF p = 0 THEN m * d ELSE (m - 1) * d + p
      /\ next = IF p + 1 >= d THEN 0 ELSE p + 1
  BY DEF ScheduleRules, PacedBy
<1> HIDE DEF d
<1>2. /\ (m + 1) * d = m * d + d /\ (m - 1) * d = m * d - d /\ m * d \in Int
      /\ ((m + 1) - 1) * d = m * d
  BY <1>1, OneMore
<1>3. next \in 0 .. d - 1
  BY <1>1
<1>4. n + 1 = IF next = 0 THEN k * d ELSE (k - 1) * d + next
  <2>1. CASE p = 0
    BY <1>1, <1>2, <2>1
  <2>2. CASE p # 0
    BY <1>1, <1>2, <2>2
  <2> QED
    BY <2>1, <2>2
<1> QED
  BY <1>3, <1>4 DEF PacedBy, d

(* A decimated segment runs when its phase is used up.                     *)
LEMMA DecimatePaces ==
  ASSUME NEW schedule, ScheduleRules(schedule), schedule.kind = "decimate",
         NEW p, NEW n \in Nat, NEW m \in Nat, PacedBy(schedule, p, n, m),
         NEW next, next = (IF p <= 0 THEN p + schedule.stepD ELSE p) - schedule.stepC
  PROVE  /\ PacedBy(schedule, next, n + 1, m + (IF p <= 0 THEN 1 ELSE 0))
         /\ next \in Int /\ -schedule.stepC < next
         /\ next <= schedule.stepD - schedule.stepC
<1> DEFINE d == schedule.stepD
           c == schedule.stepC
           k == m + (IF p <= 0 THEN 1 ELSE 0)
<1>1. /\ d \in Nat \ {0} /\ c \in Nat \ {0} /\ c < d
      /\ p = m * d - n * c /\ -c < p /\ p <= d - c
      /\ next = (IF p <= 0 THEN p + d ELSE p) - c
  BY DEF ScheduleRules, PacedBy
<1> HIDE DEF d, c
<1>2. /\ (m + 1) * d = m * d + d /\ m * d \in Int
      /\ (n + 1) * c = n * c + c /\ n * c \in Int
  BY <1>1, OneMore
<1>3. p \in Int
  BY <1>1, <1>2
<1>4. next \in Int /\ -c < next /\ next <= d - c
  BY <1>1, <1>3
<1>5. next = k * d - (n + 1) * c
  <2>1. CASE p <= 0
    BY <1>1, <1>2, <1>3, <2>1
  <2>2. CASE ~(p <= 0)
    BY <1>1, <1>2, <1>3, <2>2
  <2> QED
    BY <2>1, <2>2
<1> QED
  BY <1>4, <1>5 DEF PacedBy, d, c

(* An interpolated segment runs until its phase has passed the tick.       *)
LEMMA InterpolatePaces ==
  ASSUME NEW schedule, ScheduleRules(schedule), schedule.kind = "interpolate",
         NEW p, NEW n \in Nat, NEW m \in Nat, PacedBy(schedule, p, n, m),
         NEW times,
         times = IF p < schedule.stepC
                 THEN (schedule.stepC - p + schedule.stepD - 1) \div schedule.stepD ELSE 0,
         NEW next, next = p + times * schedule.stepD - schedule.stepC
  PROVE  /\ PacedBy(schedule, next, n + 1, m + times) /\ times \in Nat
         /\ next \in 0 .. schedule.stepD - 1
<1> DEFINE d == schedule.stepD
           c == schedule.stepC
<1>1. /\ d \in Nat \ {0} /\ c \in Nat \ {0} /\ d < c
      /\ p = m * d - n * c /\ 0 <= p /\ p < d
      /\ times = IF p < c THEN (c - p + d - 1) \div d ELSE 0
      /\ next = p + times * d - c
  BY DEF ScheduleRules, PacedBy
<1> HIDE DEF d, c
<1>2. /\ m * d \in Int /\ (n + 1) * c = n * c + c /\ n * c \in Int
  BY <1>1, OneMore
<1>3. p \in Nat /\ p < c
  BY <1>1, <1>2
<1> DEFINE a == c - p + d - 1
<1>4. a \in Nat /\ times = a \div d
  BY <1>1, <1>3
<1> HIDE DEF a
<1>5. times \in Nat /\ times * d <= a /\ a < times * d + d
  <2>1. a \div d \in Nat /\ a = d * (a \div d) + (a % d) /\ a % d \in 0 .. d - 1
    BY <1>1, <1>4, SMT
  <2>2. times \in Nat /\ a = d * times + (a % d) /\ d * times = times * d
    BY <1>1, <1>4, <2>1
  <2>3. d * times \in Int /\ a % d \in 0 .. d - 1
    BY <1>1, <2>1, <2>2
  <2> DEFINE r == a % d
             u == d * times
  <2> HIDE DEF r, u
  <2>4. a = u + r /\ u \in Int /\ r \in 0 .. d - 1 /\ times * d = u
    BY <2>2, <2>3 DEF r, u
  <2> QED
    BY <1>1, <2>2, <2>4
<1>6. next \in 0 .. d - 1
  <2>1. times * d \in Int
    BY <1>1, <1>5
  <2> QED
    BY <1>1, <1>3, <1>5, <2>1 DEF a
<1>7. next = (m + times) * d - (n + 1) * c
  <2>1. (m + times) * d = m * d + times * d /\ times * d \in Int
    BY <1>1, <1>5, SMT
  <2> QED
    BY <1>1, <1>2, <2>1
<1>8. 0 <= next /\ next < d
  BY <1>1, <1>6
<1>9. PacedBy(schedule, next, n + 1, m + times)
  BY <1>7, <1>8, Zenon DEF PacedBy, d, c
<1> QED
  BY <1>5, <1>6, <1>9 DEF d

(* What the phase says is what the rate calls for.                         *)
LEMMA PacedIsDue ==
  ASSUME NEW schedule, ScheduleRules(schedule),
         NEW p, NEW n \in Nat, NEW m \in Nat, PacedBy(schedule, p, n, m)
  PROVE  m = IF schedule.stepC <= schedule.stepD
             THEN ((n - 1) * schedule.stepC) \div schedule.stepD + 1
             ELSE (n * schedule.stepC + schedule.stepD - 1) \div schedule.stepD
<1> DEFINE d == schedule.stepD
           c == schedule.stepC
<1>1. d \in Nat \ {0} /\ c \in Nat \ {0}
  BY DEF ScheduleRules
<1>2. CASE schedule.kind \in {"direct", "loop"}
  <2>1. d = 1 /\ m = n * c
    BY <1>2 DEF ScheduleRules, PacedBy
  <2>2. c <= d => c = 1
    BY <1>1, <2>1
  <2> HIDE DEF d, c
  <2>3. CASE c <= d
    <3>1. ((n - 1) * 1) \div 1 + 1 = n /\ m = n
      BY <2>1, <2>2, <2>3, SMT
    <3> QED
      BY <2>1, <2>2, <2>3, <3>1 DEF d, c
  <2>4. CASE ~(c <= d)
    <3>1. (m + 1 - 1) \div 1 = m
      BY SMT
    <3> QED
      BY <2>1, <2>4, <3>1 DEF d, c
  <2> QED
    BY <2>3, <2>4
<1>3. CASE schedule.kind = "counter"
  <2>1. /\ c = 1 /\ d > 1 /\ p \in 0 .. d - 1
        /\ n = IF p = 0 THEN m * d ELSE (m - 1) * d + p
    BY <1>3 DEF ScheduleRules, PacedBy
  <2> HIDE DEF d, c
  <2>2. (m - 1) * d = m * d - d /\ m * d \in Int
    BY <1>1, OneMore
  <2>3. \E r \in 0 .. d - 1 : (n - 1) * c = (m - 1) * d + r
    <3>1. (n - 1) * c = n - 1
      BY <2>1
    <3>2. CASE p = 0
      <4>1. n - 1 = (m - 1) * d + (d - 1) /\ d - 1 \in 0 .. d - 1
        BY <1>1, <2>1, <2>2, <3>2
      <4> QED
        BY <3>1, <4>1
    <3>3. CASE p # 0
      <4>1. n - 1 = (m - 1) * d + (p - 1) /\ p - 1 \in 0 .. d - 1
        BY <1>1, <2>1, <2>2, <3>3
      <4> QED
        BY <3>1, <4>1
    <3> QED
      BY <3>2, <3>3
  <2>4. ((n - 1) * c) \div d = m - 1
    BY <1>1, <2>3, QuotientIs
  <2> QED
    BY <1>1, <2>1, <2>4 DEF d, c
<1>4. CASE schedule.kind = "decimate"
  <2>1. c < d /\ p = m * d - n * c /\ -c < p /\ p <= d - c
    BY <1>4 DEF ScheduleRules, PacedBy
  <2> HIDE DEF d, c
  <2>2. /\ (m - 1) * d = m * d - d /\ m * d \in Int
        /\ (n - 1) * c = n * c - c /\ n * c \in Int
    BY <1>1, OneMore
  <2> DEFINE r == d - p - c
  <2>3. r \in 0 .. d - 1 /\ (n - 1) * c = (m - 1) * d + r
    BY <1>1, <2>1, <2>2
  <2> HIDE DEF r
  <2>4. ((n - 1) * c) \div d = m - 1
    BY <1>1, <2>3, QuotientIs
  <2> QED
    BY <1>1, <2>1, <2>4 DEF d, c
<1>5. CASE schedule.kind = "interpolate"
  <2>1. d < c /\ p = m * d - n * c /\ 0 <= p /\ p < d
    BY <1>5 DEF ScheduleRules, PacedBy
  <2> HIDE DEF d, c
  <2>2. m * d \in Int /\ n * c \in Int
    BY <1>1, OneMore
  <2> DEFINE r == d - 1 - p
  <2>3. r \in 0 .. d - 1 /\ n * c + d - 1 = m * d + r
    BY <1>1, <2>1, <2>2
  <2> HIDE DEF r
  <2>4. (n * c + d - 1) \div d = m
    BY <1>1, <2>3, QuotientIs
  <2> QED
    BY <1>1, <2>1, <2>4 DEF d, c
<1> QED
  BY <1>2, <1>3, <1>4, <1>5 DEF ScheduleRules

-----------------------------------------------------------------------------
(***************************************************************************)
(* Every step keeps the segments' pace                                     *)
(***************************************************************************)

(* Segments without a field do not look at a phase.                        *)
LEMMA NoPhase ==
  ASSUME NEW r, ScheduleRules(Schedule(r)), Width(r) = 0, NEW p, NEW q, NEW n, NEW m,
         PacedBy(Schedule(r), p, n, m)
  PROVE  PacedBy(Schedule(r), q, n, m)
<1>1. Schedule(r).kind \in {"direct", "loop"}
  BY DEF Width, ScheduleRules
<1>2. /\ Schedule(r).kind # "counter" /\ Schedule(r).kind # "decimate"
      /\ Schedule(r).kind # "interpolate"
  BY <1>1
<1> QED
  BY <1>2, Zenon DEF PacedBy

(* A state whose fields are zero, as after an init, is paced.              *)
LEMMA FreshIsPaced ==
  StepsFit /\ Inv /\ base \in Nat /\ stage = "run" /\ running = 0 /\ ticks = 0
    /\ memory \in [Words -> 0 .. WordSize - 1] /\ (\A w \in WordsReset : memory[w] = 0)
    /\ runs = [s \in DOMAIN segments |-> 0]
  => PaceInv
<1> SUFFICES ASSUME StepsFit, Inv, base \in Nat, stage = "run", running = 0, ticks = 0,
                    memory \in [Words -> 0 .. WordSize - 1],
                    \A w \in WordsReset : memory[w] = 0,
                    runs = [s \in DOMAIN segments |-> 0], AllFit,
                    NEW s \in DOMAIN segments
             PROVE  Paced(s)
  <2>1. [s \in DOMAIN segments |-> 0] \in [DOMAIN segments -> Nat]
    OBVIOUS
  <2> QED
    BY <2>1, Zenon DEF PaceInv
<1> DEFINE r == segments[s].rate
           f == segments[s].field
<1>1. ScheduleRules(Schedule(r)) /\ Done(s) = 0 /\ runs[s] = 0
  <2>1. s \in Nat
    BY SegmentsRun
  <2> QED
    BY <2>1, SegmentsRun DEF Done
<1>2. PacedBy(Schedule(r), 0, 0, 0)
  BY <1>1, StartsLevel
<1>3. CASE NeedsField(s)
  <2>1. f \in DOMAIN fields /\ fields[f] = Width(r) /\ Width(r) \in {1, 2}
    BY <1>3, SegmentsRun DEF AllFit, Fits, FieldOK
  <2>2. Offset[f] \in Nat
    <3>1. fields \in Seq({1, 2})
      BY DEF Inv, ProgramTypeOK
    <3> QED
      BY <2>1, <3>1, FieldsApart
  <2>3. /\ Offset[f] \in Offset[f] .. Offset[f] + fields[f] - 1
        /\ Width(r) = 2 => Offset[f] + 1 \in Offset[f] .. Offset[f] + fields[f] - 1
    BY <2>1, <2>2
  <2>4. memory[Offset[f]] = 0 /\ (Width(r) = 2 => memory[Offset[f] + 1] = 0)
    BY <2>1, <2>3 DEF WordsReset
  <2>5. WordSize \in Nat \ {0} /\ Signed(0) = 0 /\ 0 + WordSize * 0 = 0
    BY PhaseFieldsAssumption, SMT DEF Signed
  <2>6. Phase(s) = 0
    BY <2>1, <2>4, <2>5, PhaseIsHeld DEF Held
  <2> QED
    BY <1>1, <1>2, <2>6 DEF Paced
<1>4. CASE ~NeedsField(s)
  <2>1. Width(r) = 0
    BY <1>4, WidthType DEF NeedsField
  <2> QED
    BY <1>1, <1>2, <2>1, NoPhase DEF Paced
<1> QED
  BY <1>3, <1>4

(* The same of the next state.                                             *)
LEMMA FreshIsPacedNext ==
  (StepsFit /\ Inv /\ base \in Nat /\ stage = "run" /\ running = 0 /\ ticks = 0
     /\ memory \in [Words -> 0 .. WordSize - 1] /\ (\A w \in WordsReset : memory[w] = 0)
     /\ runs = [s \in DOMAIN segments |-> 0]
   => PaceInv)'
  BY FreshIsPaced, PTL

(* A run that keeps its own pace and no other's phase keeps every pace.    *)
LEMMA RunPaces ==
  ASSUME StepsFit, Inv, RunOK, PaceInv, stage = "run", AllFit,
         NEW r \in DOMAIN segments, r = running, NEW times \in Nat, Ran(times),
         memory' \in [Words -> 0 .. WordSize - 1],
         \A s \in DOMAIN segments \ {r} : NeedsField(s) => Phase(s)' = Phase(s),
         NEW p, NeedsField(r) => Phase(r)' = p,
         PacedBy(Schedule(segments[r].rate), p, Done(r) + 1, runs[r] + times)
  PROVE  PaceInv'
<1>1. /\ base \in Nat /\ ticks \in Nat /\ runs \in [DOMAIN segments -> Nat]
      /\ \A s \in DOMAIN segments : Paced(s)
  BY PhaseFieldsAssumption DEF RunOK, PaceInv
<1>2. /\ DOMAIN segments = 1 .. Len(segments) /\ Len(segments) \in Nat
      /\ \A s \in DOMAIN segments : ScheduleRules(Schedule(segments[s].rate))
  BY <1>1, SegmentsRun
<1>3. /\ runs' \in [DOMAIN segments -> Nat] /\ runs'[r] = runs[r] + times
      /\ Done(r)' = Done(r) + 1
      /\ \A s \in DOMAIN segments \ {r} : runs'[s] = runs[s] /\ Done(s)' = Done(s)
  BY <1>1, <1>2, RanCounts
<1>4. segments' = segments /\ Words' = Words
  BY DEF Ran, program, stream, Words
<1>5. \A s : Paced(s)' =
               PacedBy(Schedule(segments[s].rate), Phase(s)', Done(s)', runs'[s])
  BY <1>4 DEF Paced, PacedBy, Schedule
<1>6. ASSUME NEW s \in DOMAIN segments PROVE Paced(s)'
  <2>1. CASE s = r
    <3>1. CASE NeedsField(r)
      BY <1>3, <1>5, <2>1, <3>1
    <3>2. CASE ~NeedsField(r)
      BY <1>2, <1>3, <1>5, <2>1, <3>2, NoPhase, WidthType DEF NeedsField
    <3> QED
      BY <3>1, <3>2
  <2>2. CASE s # r
    <3>1. PacedBy(Schedule(segments[s].rate), Phase(s), Done(s), runs[s])
      BY <1>1 DEF Paced
    <3>2. CASE NeedsField(s)
      BY <1>3, <1>5, <2>2, <3>1, <3>2
    <3>3. CASE ~NeedsField(s)
      BY <1>2, <1>3, <1>5, <2>2, <3>1, <3>3, NoPhase, WidthType DEF NeedsField
    <3> QED
      BY <3>2, <3>3
  <2> QED
    BY <2>1, <2>2
<1> QED
  BY <1>3, <1>4, <1>6 DEF PaceInv

(* Each kind of segment keeps its pace.                                    *)
LEMMA RunsPace ==
  ASSUME StepsFit, Inv, RunOK, PaceInv, stage = "run", AllFit,
         RunDirect \/ RunLoop \/ RunCounter \/ RunDecimate \/ RunInterpolate
  PROVE  PaceInv'
<1>1. /\ base \in Nat /\ ticks \in Nat /\ runs \in [DOMAIN segments -> Nat]
      /\ memory \in [Words -> 0 .. WordSize - 1]
      /\ \A s \in DOMAIN segments : Paced(s)
  BY PhaseFieldsAssumption DEF RunOK, PaceInv
<1>2. running \in DOMAIN segments
  <2>1. running > 0
    BY DEF RunDirect, RunLoop, RunCounter, RunDecimate, RunInterpolate, Runs
  <2> QED
    BY <1>1, <2>1, SegmentsRun DEF RunOK
<1>3. PICK r \in DOMAIN segments : r = running
  BY <1>2
<1> DEFINE S == Schedule(segments[r].rate)
           n == Done(r)
           m == runs[r]
           w == Width(segments[r].rate)
<1>4. /\ ScheduleRules(S) /\ PacedBy(S, Phase(r), n, m) /\ m \in Nat /\ n \in Nat
  BY <1>1, SegmentsRun DEF Paced, Done
<1>5. Kind = S.kind /\ D = S.stepD /\ C = S.stepC /\ Segment.rate = segments[r].rate
  <2>1. NeedsField(r) => segments[r].field # 0
    <3>1. fields \in Seq({1, 2})
      BY DEF Inv, ProgramTypeOK
    <3> QED
      BY <3>1 DEF AllFit, Fits
  <2> QED
    BY <1>3, <2>1 DEF Kind, D, C, Segment, NeedsField
<1>6. UNCHANGED program
  BY DEF RunDirect, RunLoop, RunCounter, RunDecimate, RunInterpolate, Ran
<1>7. NeedsField(r) =>
        /\ w \in {1, 2} /\ 2 * S.stepD <= FieldRange(w) /\ 2 * S.stepC <= FieldRange(w)
        /\ FieldRange(w) \in Nat
  <2>1. WordSize \in Nat /\ WordSize * WordSize \in Nat
    BY PhaseFieldsAssumption
  <2> QED
    BY <1>1, <2>1, SegmentsRun DEF FieldOK, StepD, StepC, FieldRange
<1>8. NeedsField(r) <=> S.kind \in {"counter", "decimate", "interpolate"}
  BY WidthType, KindsWithPhase DEF NeedsField, KindOf
<1>9. ASSUME UNCHANGED memory
      PROVE  \A s : Phase(s)' = Phase(s)
  BY <1>6, <1>9 DEF Phase, Load, program, stream, Offset, Width, Schedule, Signed
<1> HIDE DEF S, n, m, w
<1>10. CASE RunDirect
  <2>1. Ran(1) /\ UNCHANGED memory /\ S.kind = "direct"
    BY <1>5, <1>10 DEF RunDirect, Runs
  <2>2. PacedBy(S, Phase(r), n + 1, m + 1)
    BY <1>4, <2>1, Zenon DEF PacedBy
  <2> QED
    BY <1>1, <1>3, <1>9, <2>1, <2>2, RunPaces DEF S, n, m
<1>11. CASE RunLoop
  <2>1. Ran(S.stepC) /\ UNCHANGED memory /\ S.kind = "loop"
    BY <1>5, <1>11 DEF RunLoop, Runs
  <2>2. m = n * S.stepC /\ S.stepC \in Nat
    BY <1>4, <2>1 DEF PacedBy, ScheduleRules
  <2>3. m + S.stepC = (n + 1) * S.stepC
    <3> DEFINE c == S.stepC
    <3>1. c \in Int /\ n \in Int /\ m = n * c
      BY <1>4, <2>2
    <3> HIDE DEF c
    <3>2. m + c = (n + 1) * c
      BY <3>1, OneMore
    <3> QED
      BY <3>2 DEF c
  <2>4. PacedBy(S, Phase(r), n + 1, m + S.stepC)
    BY <2>1, <2>3, Zenon DEF PacedBy
  <2> QED
    BY <1>1, <1>3, <1>9, <2>1, <2>2, <2>4, RunPaces DEF S, n, m
<1>12. CASE RunCounter
  <2> DEFINE p == Phase(r)
             next == IF p + 1 >= S.stepD THEN 0 ELSE p + 1
             times == IF p = 0 THEN 1 ELSE 0
  <2>1. Ran(times) /\ SetPhase(next) /\ S.kind = "counter"
    BY <1>3, <1>5, <1>12 DEF RunCounter, Runs
  <2>2. PacedBy(S, next, n + 1, m + times) /\ next \in 0 .. S.stepD - 1
    BY <1>4, <2>1, CounterPaces
  <2> HIDE DEF p, next
  <2>3. /\ NeedsField(r) /\ next \in Int
        /\ -FieldRange(w) <= 2 * next /\ 2 * next < FieldRange(w)
    BY <1>4, <1>7, <1>8, <2>1, <2>2 DEF ScheduleRules
  <2>4. /\ memory' \in [Words -> 0 .. WordSize - 1] /\ Phase(r)' = next
        /\ \A s \in DOMAIN segments \ {r} : NeedsField(s) => Phase(s)' = Phase(s)
    BY <1>1, <1>3, <1>6, <2>1, <2>3, PhaseStored DEF w
  <2>5. times \in Nat
    OBVIOUS
  <2> HIDE DEF times
  <2> QED
    BY <1>3, <2>1, <2>2, <2>4, <2>5, RunPaces DEF S, n, m
<1>13. CASE RunDecimate
  <2> DEFINE p == Phase(r)
             next == (IF p <= 0 THEN p + S.stepD ELSE p) - S.stepC
             times == IF p <= 0 THEN 1 ELSE 0
  <2>1. Ran(times) /\ SetPhase(next) /\ S.kind = "decimate"
    BY <1>3, <1>5, <1>13 DEF RunDecimate, Runs
  <2>2. /\ PacedBy(S, next, n + 1, m + times)
        /\ next \in Int /\ -S.stepC < next /\ next <= S.stepD - S.stepC
    BY <1>4, <2>1, DecimatePaces
  <2> HIDE DEF p, next
  <2>3. /\ NeedsField(r)
        /\ -FieldRange(w) <= 2 * next /\ 2 * next < FieldRange(w)
    BY <1>4, <1>7, <1>8, <2>1, <2>2 DEF ScheduleRules
  <2>4. /\ memory' \in [Words -> 0 .. WordSize - 1] /\ Phase(r)' = next
        /\ \A s \in DOMAIN segments \ {r} : NeedsField(s) => Phase(s)' = Phase(s)
    BY <1>1, <1>3, <1>6, <2>1, <2>2, <2>3, PhaseStored DEF w
  <2>5. times \in Nat
    OBVIOUS
  <2> HIDE DEF times
  <2> QED
    BY <1>3, <2>1, <2>2, <2>4, <2>5, RunPaces DEF S, n, m
<1>14. CASE RunInterpolate
  <2> DEFINE p == Phase(r)
             times == IF p < S.stepC THEN (S.stepC - p + S.stepD - 1) \div S.stepD ELSE 0
             next == p + times * S.stepD - S.stepC
  <2>1. Ran(times) /\ SetPhase(next) /\ S.kind = "interpolate"
    BY <1>3, <1>5, <1>14 DEF RunInterpolate, Runs
  <2>2. /\ PacedBy(S, next, n + 1, m + times) /\ times \in Nat
        /\ next \in 0 .. S.stepD - 1
    BY <1>4, <2>1, InterpolatePaces
  <2> HIDE DEF p, next, times
  <2>3. /\ NeedsField(r) /\ next \in Int
        /\ -FieldRange(w) <= 2 * next /\ 2 * next < FieldRange(w)
    BY <1>4, <1>7, <1>8, <2>1, <2>2 DEF ScheduleRules
  <2>4. /\ memory' \in [Words -> 0 .. WordSize - 1] /\ Phase(r)' = next
        /\ \A s \in DOMAIN segments \ {r} : NeedsField(s) => Phase(s)' = Phase(s)
    BY <1>1, <1>3, <1>6, <2>1, <2>2, <2>3, PhaseStored DEF w
  <2> QED
    BY <1>3, <2>1, <2>2, <2>4, RunPaces DEF S, n, m
<1> QED
  BY <1>10, <1>11, <1>12, <1>13, <1>14

(* The segments run from the first to the last, once a tick.               *)
LEMMA RunOKNext == Inv /\ RunOK /\ [Next]_vars => RunOK'
<1> SUFFICES ASSUME Inv, RunOK, [Next]_vars PROVE RunOK'
  OBVIOUS
<1>1. stage \in {"scan", "generate", "run"} /\ Len(segments) \in Nat
  BY DEF Inv, ProgramTypeOK
<1>2. CASE ScanSame \/ ScanChange \/ ScanEnd
  BY <1>2 DEF RunOK, ScanSame, ScanChange, ScanEnd, Scanning, stream, history
<1>3. CASE GenerateRead \/ GenerateAssign \/ GenerateFlush
  BY <1>3 DEF RunOK, GenerateRead, GenerateAssign, GenerateFlush, Generating, stream,
              history
<1>4. CASE GenerateEnd
  <2>1. Len(segments') = Len(segments) + 1
    <3>1. segments \in Seq([rate : Nat \ {0}, field : 0 .. Len(fields)])
      BY DEF Inv, ProgramTypeOK
    <3> DEFINE A == [rate : Nat \ {0}, field : 0 .. Len(fields)]
    <3>2. segments \in Seq(A)
      BY <3>1
    <3> HIDE DEF A
    <3> QED
      BY <1>4, <3>2 DEF GenerateEnd, WithSegment
  <2> QED
    BY <1>1, <1>4, <2>1 DEF RunOK, GenerateEnd, stream
<1>5. CASE Tick \/ DomainInit
  BY <1>1, <1>5 DEF RunOK, Tick, DomainInit, program, stream, pass, history
<1>6. CASE RunDirect \/ RunLoop \/ RunCounter \/ RunDecimate \/ RunInterpolate
  <2>1. /\ running > 0 /\ UNCHANGED program
        /\ running' = IF running = Len(segments) THEN 0 ELSE running + 1
        /\ ticks' = IF running = Len(segments) THEN ticks + 1 ELSE ticks
    BY <1>6 DEF RunDirect, RunLoop, RunCounter, RunDecimate, RunInterpolate, Runs, Ran
  <2> QED
    BY <1>1, <2>1 DEF RunOK, program, stream, pass
<1>7. CASE UNCHANGED vars
  BY <1>7 DEF RunOK, vars, program, stream, pass, history
<1> QED
  BY <1>2, <1>3, <1>4, <1>5, <1>6, <1>7 DEF Next

(* What an init resets lies in the state.                                  *)
LEMMA ResetInState ==
  ASSUME fields \in Seq({1, 2}), base \in Nat
  PROVE  WordsReset \subseteq Words
<1>1. \A f \in DOMAIN fields :
        /\ fields[f] \in {1, 2} /\ Offset[f] \in Nat
        /\ Offset[f] \in Words /\ Offset[f] + 1 \in Words
  BY FieldsApart
<1>2. ASSUME NEW f \in DOMAIN fields
      PROVE  Offset[f] .. Offset[f] + fields[f] - 1 \subseteq Words
  <2>1. \A w \in Offset[f] .. Offset[f] + fields[f] - 1 :
          w = Offset[f] \/ w = Offset[f] + 1
    BY <1>1
  <2> QED
    BY <1>1, <2>1
<1> QED
  BY <1>2 DEF WordsReset

(* Every step keeps every segment's pace.                                  *)
LEMMA PaceNext ==
  ASSUME StepsFit, Inv, Inv', RunOK, PaceInv, [Next]_vars PROVE PaceInv'
<1>0. base \in Bases /\ base \in Nat
  BY PhaseFieldsAssumption DEF RunOK
<1>1. CASE \/ ScanSame \/ ScanChange \/ ScanEnd
           \/ GenerateRead \/ GenerateAssign \/ GenerateFlush
  <2>1. stage' # "run"
    BY <1>1 DEF ScanSame, ScanChange, ScanEnd, Scanning, GenerateRead, GenerateAssign,
                GenerateFlush, Generating
  <2> QED
    BY <2>1 DEF PaceInv
<1>2. CASE GenerateEnd \/ DomainInit
  <2>1. 0 \in 0 .. WordSize - 1
    BY PhaseFieldsAssumption
  <2>2. base' = base /\ fields' = fields
    BY <1>2 DEF GenerateEnd, DomainInit, program, stream
  <2>3. Words' = Words /\ WordsReset' = WordsReset
    BY <2>2 DEF Words, WordsReset, Offset
  <2>4. CASE GenerateEnd
    <3>1. /\ base' \in Nat /\ stage' = "run" /\ running' = 0 /\ ticks' = 0
          /\ memory' = [w \in Words |-> 0] /\ runs' = [s \in DOMAIN segments' |-> 0]
      BY <1>0, <2>2, <2>4 DEF RunOK, GenerateEnd
    <3>2. memory' \in [Words' -> 0 .. WordSize - 1]
      BY <2>1, <2>3, <3>1
    <3>3. WordsReset' \subseteq Words'
      <4>1. fields \in Seq({1, 2})
        BY <2>4 DEF Inv, ProgramTypeOK
      <4>4. WordsReset \subseteq Words
        BY <1>0, <4>1, ResetInState
      <4> QED
        BY <2>3, <4>4
    <3>4. \A w \in WordsReset' : memory'[w] = 0
      BY <2>3, <3>1, <3>3
    <3> QED
      BY <3>1, <3>2, <3>4, FreshIsPacedNext
  <2>5. CASE DomainInit
    <3>1. /\ base' \in Nat /\ stage' = "run" /\ running' = 0 /\ ticks' = 0
          /\ memory' = [w \in Words |-> IF w \in WordsReset THEN 0 ELSE memory[w]]
          /\ runs' = [s \in DOMAIN segments' |-> 0] /\ stage = "run"
          /\ segments' = segments /\ fields' = fields
      BY <1>0, <2>2, <2>5 DEF DomainInit, program, stream, pass
    <3>2. ASSUME AllFit PROVE PaceInv'
      <4>1. memory \in [Words -> 0 .. WordSize - 1]
        BY <3>1, <3>2 DEF PaceInv
      <4>2. memory' \in [Words' -> 0 .. WordSize - 1]
        BY <2>1, <2>3, <3>1, <4>1
      <4>3. WordsReset \subseteq Words
        <5>1. fields \in Seq({1, 2})
          BY DEF Inv, ProgramTypeOK
        <5> QED
          BY <1>0, <5>1, ResetInState
      <4>4. \A w \in WordsReset' : memory'[w] = 0
        BY <2>3, <3>1, <4>3
      <4> QED
        BY <3>1, <4>2, <4>4, FreshIsPacedNext
    <3>3. AllFit' <=> AllFit
      BY <3>1 DEF AllFit, Fits, NeedsField, Width, Schedule
    <3> QED
      BY <3>2, <3>3 DEF PaceInv
  <2> QED
    BY <1>2, <2>4, <2>5
<1>3. ASSUME UNCHANGED program
      PROVE  /\ Words' = Words /\ (AllFit' <=> AllFit) /\ segments' = segments
             /\ stage' = stage
  BY <1>3 DEF program, stream, pass, Words, AllFit, Fits, NeedsField, Width, Schedule
<1>4. CASE Tick \/ UNCHANGED vars
  <2>1. /\ UNCHANGED <<program, memory, ticks, runs>>
        /\ running' = running \/ (running = 0 /\ running' = 1)
    BY <1>4 DEF Tick, vars, history
  <2>2. \A s : Phase(s)' = Phase(s)
    BY <2>1 DEF Phase, Load, program, stream, Offset, Width, Schedule, Signed
  <2>3. ASSUME stage = "run", AllFit, NEW s \in DOMAIN segments PROVE Paced(s)'
    <3>1. s \in Nat \ {0} /\ Paced(s)
      BY <1>0, <2>3, SegmentsRun DEF PaceInv
    <3>2. Done(s)' = Done(s)
      BY <2>1, <3>1 DEF Done
    <3> QED
      BY <1>3, <2>1, <2>2, <3>1, <3>2 DEF Paced, PacedBy, Schedule
  <2> QED
    BY <1>3, <2>1, <2>3 DEF PaceInv
<1>5. CASE RunDirect \/ RunLoop \/ RunCounter \/ RunDecimate \/ RunInterpolate
  <2>1. UNCHANGED program
    BY <1>5, RunsKeepProgram
  <2>2. CASE stage = "run" /\ AllFit
    BY <1>5, <2>2, RunsPace
  <2>3. CASE ~(stage = "run" /\ AllFit)
    BY <1>3, <2>1, <2>3 DEF PaceInv
  <2> QED
    BY <2>2, <2>3
<1> QED
  BY <1>1, <1>2, <1>4, <1>5 DEF Next

(* Where every segment has the field that was declared for it, the         *)
(* segments of a stream keep the pace of their rates, whatever their       *)
(* number, their rates and the words of state before their fields: what    *)
(* one stores in its field disturbs none of the others                     *)
(* (binaryexprast.cpp:982-1022, stridegenerator.cpp:456).                  *)
THEOREM SegmentsStayInPace ==
  ASSUME StepsFit PROVE Spec => []SegmentsKeepPace
<1> DEFINE I == Inv /\ RunOK /\ PaceInv
<1>1. Init => I
  BY InitInv DEF Init, RunOK, PaceInv
<1>2. I /\ [Next]_vars => I'
  <2> SUFFICES ASSUME I, [Next]_vars PROVE I'
    OBVIOUS
  <2>1. Inv' /\ RunOK'
    BY NextInv, RunOKNext
  <2> QED
    BY <2>1, PaceNext
<1>3. I => SegmentsKeepPace
  <2> SUFFICES ASSUME I, stage = "run", AllFit, NEW s \in DOMAIN segments
               PROVE  runs[s] = Due(s)
    BY DEF SegmentsKeepPace, Running, AllFit
  <2>1. base \in Nat /\ ticks \in Nat
    BY PhaseFieldsAssumption DEF RunOK
  <2>2. ScheduleRules(Schedule(segments[s].rate))
    BY <2>1, SegmentsRun
  <2>3. /\ PacedBy(Schedule(segments[s].rate), Phase(s), Done(s), runs[s])
        /\ runs[s] \in Nat /\ Done(s) \in Nat
    BY <2>1 DEF PaceInv, Paced, Done
  <2> QED
    BY <2>2, <2>3, PacedIsDue DEF Due, Done
<1> QED
  BY <1>1, <1>2, <1>3, PTL DEF Spec
=============================================================================
