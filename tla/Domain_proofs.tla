--------------------------- MODULE Domain_proofs ----------------------------
(***************************************************************************)
(* Proofs about a domain: its load guard, for every set of threads and any *)
(* number of writes; what its init restores and the host's access to its   *)
(* fields, for all programs whose structs are laid out as buildNodeState   *)
(* does; and, for all programs whose calls fit their callees (CallRules),  *)
(* that instances stay apart and that a call does to the fields what a     *)
(* call by value does.  The guard's liveness stays with the model checker. *)
(***************************************************************************)
EXTENDS DomainLoad, DomainMeaning, FiniteSetTheorems, SequenceTheorems, IntegerSets, TLAPS

(***************************************************************************)
(* The load guard                                                          *)
(***************************************************************************)

\* The runner sees its own writes, and no one has written before it.
RunnerSees ==
  /\ \A t \in Threads : pc[t] = "run" => visible[t] = step[t]
  /\ guard = 0 => \A t \in Threads : step[t] = 0 /\ visible[t] = 0

\* While the guard says "loading", some thread is running the streams.
LoadingIsRunning == guard = 1 => \E t \in Threads : pc[t] = "run"

\* The inductive invariant of the guard.
LoadInv == TypeOK /\ RunsOnce /\ InitSeesLoad /\ RunnerSees /\ LoadingIsRunning

(* No thread has called yet.                                               *)
LEMMA InitLoadInv == Init => LoadInv
  BY WritesAssumption DEF Init, LoadInv, TypeOK, RunsOnce, InitSeesLoad, RunnerSees,
                          LoadingIsRunning

(* Every step of a thread keeps the invariant.                             *)
LEMMA NextLoadInv == LoadInv /\ [Next]_vars => LoadInv'
<1> SUFFICES ASSUME LoadInv, [Next]_vars PROVE LoadInv'
  OBVIOUS
<1> USE WritesAssumption DEF LoadInv
<1>1. ASSUME NEW t \in Threads, CallLoad(t) PROVE LoadInv'
  <2>1. TypeOK'
    BY <1>1 DEF CallLoad, TypeOK
  <2>2. RunsOnce' /\ InitSeesLoad' /\ RunnerSees' /\ LoadingIsRunning'
    BY <1>1 DEF CallLoad, TypeOK, RunsOnce, InitSeesLoad, RunnerSees, LoadingIsRunning
  <2> QED
    BY <2>1, <2>2
<1>2. ASSUME NEW t \in Threads, Exchange(t) PROVE LoadInv'
  <2>1. TypeOK'
    BY <1>2 DEF Exchange, Untouched, Acquired, TypeOK
  <2>2. RunsOnce'
    BY <1>2 DEF Exchange, Untouched, TypeOK, RunsOnce
  <2>3. InitSeesLoad' /\ LoadingIsRunning'
    BY <1>2 DEF Exchange, Untouched, TypeOK, RunsOnce, InitSeesLoad, LoadingIsRunning
  <2>4. RunnerSees'
    BY <1>2 DEF Exchange, Untouched, Acquired, TypeOK, RunsOnce, RunnerSees
  <2> QED
    BY <2>1, <2>2, <2>3, <2>4
<1>3. ASSUME NEW t \in Threads, RunStream(t) PROVE LoadInv'
  <2>1. TypeOK'
    BY <1>3 DEF RunStream, TypeOK
  <2>2. RunsOnce' /\ InitSeesLoad' /\ RunnerSees' /\ LoadingIsRunning'
    BY <1>3 DEF RunStream, TypeOK, RunsOnce, InitSeesLoad, RunnerSees, LoadingIsRunning
  <2> QED
    BY <2>1, <2>2
<1>4. ASSUME NEW t \in Threads, StoreLoaded(t) PROVE LoadInv'
  <2>1. TypeOK'
    BY <1>4 DEF StoreLoaded, Loaded, ReturnTo, TypeOK, RunsOnce
  <2>2. RunsOnce' /\ LoadingIsRunning'
    BY <1>4 DEF StoreLoaded, Loaded, ReturnTo, TypeOK, RunsOnce, LoadingIsRunning
  <2>3. InitSeesLoad' /\ RunnerSees'
    BY <1>4 DEF StoreLoaded, Loaded, ReturnTo, TypeOK, InitSeesLoad, RunnerSees
  <2> QED
    BY <2>1, <2>2, <2>3
<1>5. ASSUME NEW t \in Threads, Wait(t) PROVE LoadInv'
  <2>1. TypeOK'
    BY <1>5 DEF Wait, LoadIsDone, Acquired, ReturnTo, TypeOK
  <2>2. RunsOnce' /\ LoadingIsRunning'
    BY <1>5 DEF Wait, LoadIsDone, ReturnTo, TypeOK, RunsOnce, LoadingIsRunning
  <2>3. InitSeesLoad' /\ RunnerSees'
    BY <1>5 DEF Wait, LoadIsDone, Acquired, ReturnTo, TypeOK, InitSeesLoad, RunnerSees
  <2> QED
    BY <2>1, <2>2, <2>3
<1>6. ASSUME NEW t \in Threads, RunInit(t) PROVE LoadInv'
  <2>1. TypeOK'
    BY <1>6 DEF RunInit, TypeOK
  <2>2. RunsOnce' /\ InitSeesLoad' /\ RunnerSees' /\ LoadingIsRunning'
    BY <1>6 DEF RunInit, TypeOK, RunsOnce, InitSeesLoad, RunnerSees, LoadingIsRunning
  <2> QED
    BY <2>1, <2>2
<1>7. CASE UNCHANGED vars
  BY <1>7 DEF vars, TypeOK, RunsOnce, InitSeesLoad, RunnerSees, LoadingIsRunning
<1> QED
  BY <1>1, <1>2, <1>3, <1>4, <1>5, <1>6, <1>7 DEF Next, InCall

(* So it holds at all times.                                               *)
LEMMA LoadInvHolds == Spec => []LoadInv
  BY InitLoadInv, NextLoadInv, PTL DEF Spec

-----------------------------------------------------------------------------
(* The guard's memory keeps its type: the streams never run twice.         *)
THEOREM TypeCorrect == Spec => []TypeOK
  BY LoadInvHolds, PTL DEF LoadInv

(* The onLoad streams run once, in one thread at a time.                   *)
THEOREM LoadRunsOnce == Spec => []RunsOnce
  BY LoadInvHolds, PTL DEF LoadInv

(* Every init sees what the onLoad streams wrote.                          *)
THEOREM InitAfterLoad == Spec => []InitSeesLoad
  BY LoadInvHolds, PTL DEF LoadInv

(* The compare-exchange guard implements a call that runs once: every step *)
(* of a thread is a step of the promise, or leaves it alone.               *)
THEOREM GuardImplementsOnce == Spec => Promise!Safety
<1> DEFINE ran == CASE guard = 0 -> "no" [] guard = 1 -> "running" [] guard = 2 -> "yes"
           calling == {t \in Threads : pc[t] \in {"load", "run", "wait"}}
<1>1. Init => Promise!Init
  BY DEF Init, Promise!Init
<1>2. LoadInv /\ [Next]_vars => [Promise!Next]_Promise!vars
  <2> SUFFICES ASSUME LoadInv, [Next]_vars PROVE [Promise!Next]_Promise!vars
    OBVIOUS
  <2> USE DEF LoadInv
  <2>1. ASSUME NEW t \in Threads, CallLoad(t) PROVE [Promise!Next]_Promise!vars
    <3>1. t \notin calling /\ calling' = calling \cup {t} /\ ran' = ran
      BY <2>1 DEF CallLoad, TypeOK
    <3> QED
      BY <3>1 DEF Promise!Next, Promise!Call
  <2>2. ASSUME NEW t \in Threads, Exchange(t) PROVE [Promise!Next]_Promise!vars
    <3>1. calling' = calling /\ calling # {}
      BY <2>2 DEF Exchange, Untouched, TypeOK
    <3>2. CASE guard = 0
      <4>1. ran = "no" /\ ran' = "running"
        BY <2>2, <3>2 DEF Exchange, Untouched
      <4> QED
        BY <3>1, <4>1 DEF Promise!Next, Promise!Start
    <3>3. CASE guard # 0
      <4>1. ran' = ran
        BY <2>2, <3>3 DEF Exchange, Untouched
      <4> QED
        BY <3>1, <4>1 DEF Promise!vars
    <3> QED
      BY <3>2, <3>3
  <2>3. ASSUME NEW t \in Threads, RunStream(t) \/ RunInit(t) PROVE UNCHANGED Promise!vars
    BY <2>3 DEF RunStream, RunInit, TypeOK, Promise!vars
  <2>4. ASSUME NEW t \in Threads, StoreLoaded(t) PROVE [Promise!Next]_Promise!vars
    <3>1. guard = 1 /\ guard' = 2
      BY <2>4 DEF StoreLoaded, Loaded, TypeOK, RunsOnce
    <3>2. ran = "running" /\ ran' = "yes"
      BY <3>1
    <3>3. t \in calling /\ calling' = calling \ {t}
      BY <2>4 DEF StoreLoaded, ReturnTo, TypeOK
    <3> QED
      BY <3>2, <3>3 DEF Promise!Next, Promise!Finish
  <2>5. ASSUME NEW t \in Threads, Wait(t) PROVE [Promise!Next]_Promise!vars
    <3>1. ran = "yes" /\ ran' = ran
      BY <2>5 DEF Wait, LoadIsDone
    <3>2. t \in calling /\ calling' = calling \ {t}
      BY <2>5 DEF Wait, ReturnTo, TypeOK
    <3> QED
      BY <3>1, <3>2 DEF Promise!Next, Promise!Return
  <2>6. CASE UNCHANGED vars
    BY <2>6 DEF vars, Promise!vars
  <2> QED
    BY <2>1, <2>2, <2>3, <2>4, <2>5, <2>6 DEF Next, InCall
<1> QED
  BY <1>1, <1>2, LoadInvHolds, PTL DEF Spec, Promise!Safety

-----------------------------------------------------------------------------
(***************************************************************************)
(* The elements of a struct                                                *)
(***************************************************************************)

\* What the first i of some sequences make, g of fewer given.
FlatAt(seqs, g, i) == IF i = 1 THEN seqs[i] ELSE g[i - 1] \o seqs[i]

Flat(seqs, g, n) == g = [i \in 1 .. n |-> FlatAt(seqs, g, i)]

(* Flattening goes on from what it made of the sequences before.           *)
LEMMA FlattenUnfolds ==
  ASSUME NEW seqs, Len(seqs) \in Nat \ {0}
  PROVE  \E g : /\ FlattenSeq(seqs) = g[Len(seqs)]
                /\ \A i \in 1 .. Len(seqs) : g[i] = FlatAt(seqs, g, i)
<1> DEFINE n == Len(seqs)
           Now(g, i) == FlatAt(seqs, g, i)
           S == {k \in Nat : \E g : Flat(seqs, g, k)}
<1>1. ASSUME NEW k \in Nat, NEW g, \A i \in 1 .. k - 1 : g[i] = Now(g, i)
      PROVE  k \in S
  <2> DEFINE h == [i \in 1 .. k |-> Now(g, i)]
  <2>1. ASSUME NEW i \in 1 .. k PROVE Now(g, i) = Now(h, i)
    <3>1. i = 1 \/ (i - 1 \in 1 .. k - 1 /\ i - 1 \in 1 .. k)
      OBVIOUS
    <3>2. i = 1 \/ h[i - 1] = g[i - 1]
      <4> HIDE DEF Now
      <4> QED
        BY <1>1, <3>1
    <3> HIDE DEF h
    <3> QED
      BY <3>2, Zenon DEF FlatAt
  <2>2. h = [i \in 1 .. k |-> Now(h, i)]
    BY <2>1, Zenon
  <2> HIDE DEF h
  <2>3. Flat(seqs, h, k)
    BY <2>2 DEF Flat
  <2> QED
    BY <2>3
<1>2. 0 \in S
  <2> DEFINE none == [i \in {} |-> 0]
  <2>1. 0 \in Nat /\ \A i \in 1 .. 0 - 1 : none[i] = Now(none, i)
    OBVIOUS
  <2> HIDE DEF none, Now, S
  <2> QED
    BY <1>1, <2>1
<1>3. ASSUME NEW k \in Nat, k \in S PROVE k + 1 \in S
  <2>1. PICK g : Flat(seqs, g, k)
    BY <1>3
  <2>2. \A i \in 1 .. k : g[i] = Now(g, i)
    BY <2>1, Zenon DEF Flat
  <2>3. k + 1 \in Nat /\ (k + 1) - 1 = k
    OBVIOUS
  <2> HIDE DEF Now, S
  <2> QED
    BY <1>1, <2>2, <2>3
<1>4. n \in S
  <2> HIDE DEF S
  <2> QED
    BY <1>2, <1>3, Induction
<1> DEFINE W == CHOOSE g : Flat(seqs, g, n)
<1>5. Flat(seqs, W, n)
  BY <1>4, Zenon
<1>6. FlattenSeq(seqs) = W[n]
  BY DEF FlattenSeq, Flat, FlatAt
<1> HIDE DEF W
<1> QED
  BY <1>5, <1>6, Zenon DEF Flat

\* The sequence s is in flat, from the element after the first o.
LiesAt(s, o, flat) ==
  \A k \in DOMAIN s : o + k \in DOMAIN flat /\ flat[o + k] = s[k]

(* Two sequences joined hold both, where they were and behind, and nothing *)
(* else.                                                                   *)
LEMMA Joined ==
  ASSUME NEW E, NEW s \in Seq(E), NEW t \in Seq(E)
  PROVE  /\ s \o t \in Seq(E)
         /\ LiesAt(t, Len(s), s \o t)
         /\ \A u, o : LiesAt(u, o, s) => LiesAt(u, o, s \o t)
         /\ \A p \in DOMAIN (s \o t) :
              p \in DOMAIN s \/ \E k \in DOMAIN t : p = Len(s) + k
<1> DEFINE m == Len(s)
           l == Len(t)
           st == s \o t
<1>1. m \in Nat /\ l \in Nat /\ DOMAIN s = 1 .. m /\ DOMAIN t = 1 .. l
  OBVIOUS
<1>2. /\ st \in Seq(E) /\ Len(st) = m + l
      /\ \A i \in 1 .. m + l : st[i] = IF i <= m THEN s[i] ELSE t[i - m]
  BY ConcatProperties
<1> HIDE DEF st, m, l
<1>3. DOMAIN st = 1 .. m + l
  BY <1>2
<1>4. ASSUME NEW k \in 1 .. l PROVE m + k \in 1 .. m + l /\ st[m + k] = t[k]
  <2>1. m + k \in 1 .. m + l /\ ~(m + k <= m) /\ (m + k) - m = k
    BY <1>1
  <2> QED
    BY <1>2, <2>1
<1>5. ASSUME NEW k \in 1 .. m PROVE k \in 1 .. m + l /\ st[k] = s[k]
  <2>1. k \in 1 .. m + l /\ k <= m
    BY <1>1
  <2> QED
    BY <1>2, <2>1
<1>6. ASSUME NEW p \in 1 .. m + l, p \notin 1 .. m PROVE p - m \in 1 .. l /\ p = m + (p - m)
  BY <1>1, <1>6
<1>7. LiesAt(t, m, st)
  BY <1>1, <1>3, <1>4 DEF LiesAt
<1>8. \A u, o : LiesAt(u, o, s) => LiesAt(u, o, st)
  BY <1>1, <1>3, <1>5 DEF LiesAt
<1>9. \A p \in DOMAIN st : p \in DOMAIN s \/ \E k \in DOMAIN t : p = m + k
  BY <1>1, <1>3, <1>6
<1> QED
  BY <1>2, <1>7, <1>8, <1>9 DEF st, m

(* Each sequence lies somewhere in the flattened one, as it is, and there  *)
(* is nothing else in it.                                                  *)
LEMMA FlattenedPlaces ==
  ASSUME NEW E, NEW seqs \in Seq(Seq(E)), seqs # <<>>
  PROVE  \E start \in [DOMAIN seqs -> Nat] :
           /\ FlattenSeq(seqs) \in Seq(E)
           /\ \A i \in DOMAIN seqs : LiesAt(seqs[i], start[i], FlattenSeq(seqs))
           /\ \A p \in DOMAIN FlattenSeq(seqs) :
                \E i \in DOMAIN seqs : \E k \in DOMAIN seqs[i] : p = start[i] + k
<1> DEFINE n == Len(seqs)
<1>1. n \in Nat \ {0} /\ DOMAIN seqs = 1 .. n /\ \A i \in 1 .. n : seqs[i] \in Seq(E)
  OBVIOUS
<1>2. PICK g : /\ FlattenSeq(seqs) = g[n]
               /\ \A i \in 1 .. n : g[i] = FlatAt(seqs, g, i)
  BY <1>1, FlattenUnfolds
<1> DEFINE start == [i \in 1 .. n |-> IF i = 1 THEN 0 ELSE Len(g[i - 1])]
           Made(i) == \A p \in DOMAIN g[i] :
                        \E j \in 1 .. i : \E k \in DOMAIN seqs[j] : p = start[j] + k
           Placed(i) == /\ g[i] \in Seq(E)
                        /\ \A j \in 1 .. i : start[j] \in Nat /\ LiesAt(seqs[j], start[j], g[i])
                        /\ Made(i)
           S == {i \in Nat : i \in 1 .. n => Placed(i)}
<1>3. 0 \in S
  OBVIOUS
<1>4. /\ start[1] = 0
      /\ \A i \in 1 .. n : i + 1 \in 1 .. n => start[i + 1] = Len(g[i])
  BY <1>1
<1>5. DOMAIN start = 1 .. n
  OBVIOUS
<1>6. start = [i \in 1 .. n |-> start[i]]
  OBVIOUS
<1> HIDE DEF start
<1>7. Placed(1)
  <2>1. g[1] = seqs[1] /\ seqs[1] \in Seq(E)
    BY <1>1, <1>2 DEF FlatAt
  <2>2. \A k \in DOMAIN seqs[1] : k \in Int /\ 0 + k = k
    BY <2>1
  <2>3. LiesAt(seqs[1], 0, g[1])
    BY <2>1, <2>2 DEF LiesAt
  <2>4. \A j \in 1 .. 1 : j = 1
    OBVIOUS
  <2>5. 1 \in 1 .. 1 /\ \A p \in DOMAIN g[1] : p \in DOMAIN seqs[1] /\ p = start[1] + p
    BY <1>4, <2>1, <2>2
  <2> QED
    BY <1>4, <2>1, <2>3, <2>4, <2>5
<1>8. ASSUME NEW i \in Nat, i \in 1 .. n, i + 1 \in 1 .. n, Placed(i) PROVE Placed(i + 1)
  <2> DEFINE s == seqs[i + 1]
  <2>1. s \in Seq(E) /\ g[i] \in Seq(E) /\ Len(g[i]) \in Nat
    BY <1>1, <1>8
  <2>2. g[i + 1] = g[i] \o s
    <3>1. (i + 1) - 1 = i /\ i + 1 # 1
      BY <1>8
    <3> QED
      BY <1>2, <1>8, <3>1 DEF FlatAt
  <2>3. start[i + 1] = Len(g[i])
    BY <1>4, <1>8
  <2>4. \A j \in 1 .. i + 1 : j \in 1 .. i \/ j = i + 1
    OBVIOUS
  <2>5. /\ g[i + 1] \in Seq(E)
        /\ LiesAt(s, start[i + 1], g[i + 1])
        /\ \A u, o : LiesAt(u, o, g[i]) => LiesAt(u, o, g[i + 1])
        /\ \A p \in DOMAIN g[i + 1] :
             p \in DOMAIN g[i] \/ \E k \in DOMAIN s : p = start[i + 1] + k
    <3> HIDE DEF s
    <3>1. /\ g[i] \o s \in Seq(E)
          /\ LiesAt(s, Len(g[i]), g[i] \o s)
          /\ \A u, o : LiesAt(u, o, g[i]) => LiesAt(u, o, g[i] \o s)
          /\ \A p \in DOMAIN (g[i] \o s) :
               p \in DOMAIN g[i] \/ \E k \in DOMAIN s : p = Len(g[i]) + k
      BY <2>1, Joined
    <3> QED
      BY <2>2, <2>3, <3>1, Zenon
  <2>6. \A j \in 1 .. i + 1 : start[j] \in Nat /\ LiesAt(seqs[j], start[j], g[i + 1])
    BY <1>8, <2>1, <2>3, <2>4, <2>5
  <2>7. Made(i + 1)
    <3> TAKE p \in DOMAIN g[i + 1]
    <3>1. CASE p \in DOMAIN g[i]
      <4>1. PICK j \in 1 .. i : \E k \in DOMAIN seqs[j] : p = start[j] + k
        BY <1>8, <3>1
      <4>2. j \in 1 .. i + 1
        OBVIOUS
      <4> QED
        BY <4>1, <4>2
    <3>2. CASE \E k \in DOMAIN s : p = start[i + 1] + k
      <4>1. i + 1 \in 1 .. i + 1
        OBVIOUS
      <4> QED
        BY <3>2, <4>1
    <3> QED
      BY <2>5, <3>1, <3>2
  <2> QED
    BY <2>5, <2>6, <2>7
<1>9. ASSUME NEW i \in Nat, i \in S PROVE i + 1 \in S
  <2> HIDE DEF Placed
  <2>1. i + 1 \in Nat /\ (i + 1 \in 1 .. n => i = 0 \/ i \in 1 .. n)
    BY <1>1
  <2>2. CASE i = 0
    <3>1. i + 1 = 1
      BY <2>2
    <3> QED
      BY <1>7, <2>1, <3>1
  <2> QED
    BY <1>8, <1>9, <2>1, <2>2
<1>10. Placed(n)
  <2>1. n \in S
    <3> HIDE DEF S
    <3> QED
      BY <1>1, <1>3, <1>9, Induction
  <2> HIDE DEF Placed
  <2> QED
    BY <1>1, <2>1
<1>11. start \in [DOMAIN seqs -> Nat]
  BY <1>1, <1>5, <1>6, <1>10
<1>12. /\ g[n] \in Seq(E)
       /\ \A i \in DOMAIN seqs : LiesAt(seqs[i], start[i], g[n])
       /\ \A p \in DOMAIN g[n] :
            \E i \in DOMAIN seqs : \E k \in DOMAIN seqs[i] : p = start[i] + k
  BY <1>1, <1>10
<1> HIDE DEF Placed, S, Made, n
<1> WITNESS start \in [DOMAIN seqs -> Nat]
<1> QED
  BY <1>2, <1>12, Zenon

-----------------------------------------------------------------------------
(***************************************************************************)
(* The fields of a struct                                                  *)
(***************************************************************************)

(* What the layout of a struct says of one of its fields.                  *)
LEMMA LayoutIs ==
  ASSUME NEW d, SeparateFields(d), NEW j \in DOMAIN d.layout
  PROVE  LET x == d.layout[j]
         IN  /\ DOMAIN d.layout = 1 .. Len(d.layout) /\ Len(d.layout) \in Nat
             /\ x \in Range(d.layout)
             /\ x.elements \in Seq(DOMAIN d.fields)
             /\ DOMAIN x.elements = 1 .. Len(x.elements)
             /\ Len(x.elements) \in Nat \ {0}
             /\ \A i, k \in DOMAIN x.elements : x.elements[i] = x.elements[k] => i = k
<1> DEFINE x == d.layout[j]
<1>1. d.layout \in Seq(Range(d.layout)) /\ x \in Range(d.layout)
  BY DEF SeparateFields, Range
<1>2. /\ x.elements \in Seq(DOMAIN d.fields) /\ x.elements # <<>>
      /\ \A i, k \in DOMAIN x.elements : x.elements[i] = x.elements[k] => i = k
  BY <1>1, Zenon DEF SeparateFields
<1> HIDE DEF x
<1>3. Len(x.elements) \in Nat \ {0} /\ DOMAIN x.elements = 1 .. Len(x.elements)
  BY <1>2
<1> QED
  BY <1>1, <1>2, <1>3 DEF x

(* The elements of a field lie one after the other, and nowhere else.      *)
LEMMA FieldsPlaced ==
  ASSUME NEW d, SeparateFields(d), NEW j \in DOMAIN d.layout
  PROVE  \E o \in Nat : \A k \in DOMAIN d.layout[j].elements :
           LET e == d.layout[j].elements[k]
           IN  /\ o + k \in DOMAIN Elements(d.layout)
               /\ Elements(d.layout)[o + k] = e
               /\ Place(d.layout, e) = o + k
<1> DEFINE seqs == [i \in DOMAIN d.layout |-> d.layout[i].elements]
           flat == FlattenSeq(seqs)
<1>1. \A i \in DOMAIN d.layout : seqs[i] \in Seq(DOMAIN d.fields)
  BY LayoutIs
<1>2. DOMAIN d.layout = 1 .. Len(d.layout) /\ Len(d.layout) \in Nat
  BY LayoutIs
<1>3. seqs \in Seq(Seq(DOMAIN d.fields)) /\ seqs # <<>>
  <2> DEFINE E == DOMAIN d.fields
             n == Len(d.layout)
  <2>1. seqs = [i \in 1 .. n |-> seqs[i]] /\ \A i \in 1 .. n : seqs[i] \in Seq(E)
    BY <1>1, <1>2
  <2>2. j \in 1 .. n /\ n \in Nat
    BY <1>2
  <2> HIDE DEF seqs, n, E
  <2>3. seqs \in Seq(Seq(E))
    BY <2>1, <2>2
  <2>4. Len(seqs) = n
    BY <2>1, <2>2
  <2> QED
    BY <2>2, <2>3, <2>4 DEF E
<1>4. Elements(d.layout) = flat
  BY DEF Elements
<1>5. DOMAIN seqs = DOMAIN d.layout /\ \A i \in DOMAIN seqs : seqs[i] = d.layout[i].elements
  OBVIOUS
<1> HIDE DEF seqs
<1>6. PICK start \in [DOMAIN seqs -> Nat] :
        /\ flat \in Seq(DOMAIN d.fields)
        /\ \A i \in DOMAIN seqs : LiesAt(seqs[i], start[i], flat)
        /\ \A p \in DOMAIN flat :
             \E i \in DOMAIN seqs : \E k \in DOMAIN seqs[i] : p = start[i] + k
  <2> DEFINE E == DOMAIN d.fields
  <2>1. seqs \in Seq(Seq(E)) /\ seqs # <<>>
    BY <1>3
  <2> HIDE DEF E
  <2>2. \E start \in [DOMAIN seqs -> Nat] :
          /\ flat \in Seq(E)
          /\ \A i \in DOMAIN seqs : LiesAt(seqs[i], start[i], flat)
          /\ \A p \in DOMAIN flat :
               \E i \in DOMAIN seqs : \E k \in DOMAIN seqs[i] : p = start[i] + k
    BY <2>1, FlattenedPlaces
  <2> QED
    BY <2>2 DEF E
<1> HIDE DEF flat
<1>7. ASSUME NEW k \in DOMAIN seqs[j], NEW p \in DOMAIN flat, flat[p] = seqs[j][k]
      PROVE  p = start[j] + k
  <2>1. PICK i \in DOMAIN seqs : \E l \in DOMAIN seqs[i] : p = start[i] + l
    BY <1>6
  <2>2. PICK l \in DOMAIN seqs[i] : p = start[i] + l
    BY <2>1
  <2>3. flat[p] = seqs[i][l]
    BY <1>6, <2>2 DEF LiesAt
  <2>4. seqs[i][l] \in Range(seqs[i]) /\ seqs[j][k] \in Range(seqs[j])
    BY DEF Range
  <2>5. i = j
    BY <1>5, <1>7, <2>3, <2>4, Zenon DEF SeparateFields
  <2>6. \A m \in DOMAIN seqs[j] : seqs[j][m] = seqs[j][k] => m = k
    BY <1>5, LayoutIs
  <2> QED
    BY <1>7, <2>2, <2>3, <2>5, <2>6
<1>8. ASSUME NEW k \in DOMAIN seqs[j]
      PROVE  /\ start[j] + k \in DOMAIN flat /\ flat[start[j] + k] = seqs[j][k]
             /\ Place(d.layout, seqs[j][k]) = start[j] + k
  <2>1. start[j] + k \in DOMAIN flat /\ flat[start[j] + k] = seqs[j][k]
    BY <1>5, <1>6 DEF LiesAt
  <2>2. Place(d.layout, seqs[j][k]) = CHOOSE p \in DOMAIN flat : flat[p] = seqs[j][k]
    BY <1>4 DEF Place
  <2> QED
    BY <1>7, <2>1, <2>2
<1>9. start[j] \in Nat
  BY <1>5, <1>6
<1> QED
  BY <1>4, <1>5, <1>8, <1>9

(* A field is found by its own name.                                       *)
LEMMA FieldIs ==
  ASSUME NEW d, SeparateFields(d), NEW j \in DOMAIN d.layout
  PROVE  LET x == d.layout[j]
         IN  /\ Found(d.layout, x.name) = x.name
             /\ FieldOf(d.layout, x.name) = x
<1> DEFINE x == d.layout[j]
<1>1. x \in Range(d.layout)
  BY LayoutIs
<1>2. Found(d.layout, x.name) = x.name
  BY <1>1 DEF Found, FieldNames
<1>3. ASSUME NEW y \in Range(d.layout), y.name = x.name PROVE y = x
  <2>1. PICK i \in DOMAIN d.layout : y = d.layout[i]
    BY DEF Range
  <2> QED
    BY <1>3, <2>1 DEF SeparateFields
<1> QED
  BY <1>1, <1>2, <1>3 DEF FieldOf

(* The offset arithmetic arrives at the element it is given the index of.  *)
LEMMA ElementIs ==
  ASSUME NEW d, SeparateFields(d), NEW j \in DOMAIN d.layout,
         NEW index \in Nat, index < Len(d.layout[j].elements)
  PROVE  ElementAt(d.layout, d.layout[j].name, index) = d.layout[j].elements[index + 1]
<1> DEFINE x == d.layout[j]
<1>1. /\ DOMAIN x.elements = 1 .. Len(x.elements) /\ Len(x.elements) \in Nat \ {0}
      /\ FieldOf(d.layout, x.name) = x
  BY LayoutIs, FieldIs
<1>2. PICK o \in Nat : \A k \in DOMAIN x.elements :
        /\ Elements(d.layout)[o + k] = x.elements[k]
        /\ Place(d.layout, x.elements[k]) = o + k
  BY FieldsPlaced, Zenon
<1> HIDE DEF x
<1>3. 1 \in DOMAIN x.elements /\ index + 1 \in DOMAIN x.elements
  BY <1>1 DEF x
<1>4. (IF Len(x.elements) > 1 THEN index ELSE 0) = index
  BY <1>1 DEF x
<1>5. ElementAt(d.layout, x.name, index) = Elements(d.layout)[(o + 1) + index]
  BY <1>1, <1>2, <1>3, <1>4 DEF ElementAt, IsArray
<1>6. (o + 1) + index = o + (index + 1)
  OBVIOUS
<1> QED
  BY <1>2, <1>3, <1>5, <1>6 DEF x

(* Only 16-bit fields spill into what is next to them.                     *)
LEMMA NothingSpilled ==
  ASSUME NEW d, SeparateFields(d), NEW j \in DOMAIN d.layout, ~d.layout[j].narrow,
         NEW k \in DOMAIN d.layout[j].elements
  PROVE  Spilled(d.layout, d.layout[j].elements[k]) = {}
<1> DEFINE e == d.layout[j].elements[k]
<1>1. Elements(d.layout)[Place(d.layout, e)] = e
  BY FieldsPlaced
<1>2. ASSUME NEW y \in Range(d.layout), y.narrow, e \in Range(y.elements) PROVE FALSE
  <2>1. PICK i \in DOMAIN d.layout : y = d.layout[i]
    BY DEF Range
  <2>2. e \in Range(d.layout[j].elements)
    BY DEF Range
  <2>3. i = j
    BY <1>2, <2>1, <2>2, Zenon DEF SeparateFields
  <2> QED
    BY <1>2, <2>1, <2>3
<1> QED
  BY <1>1, <1>2 DEF Spilled

-----------------------------------------------------------------------------
(***************************************************************************)
(* What a host writes                                                      *)
(***************************************************************************)

(* setStateVar's index is never negative: none given means the name's or 0.*)
LEMMA IndexIs == \A w \in HostWrites : Index(w.name, w.index) \in Nat
  BY HostAssumption DEF Index, NoIndex

(* One setStateVar of an element: the offset leads to it, and getStateVar's*)
(* leads to the same.                                                      *)
LEMMA WritesTouchOneField ==
  ASSUME prog \in DOMAIN Programs, NEW w \in HostWrites, SetStateVar(w), NamesElement(w)
  PROVE  LET e == FieldOf(domain.layout, Base(w.name)).elements[Index(w.name, w.index) + 1]
         IN /\ \A a \in DOMAIN mem \ {Field(<<>>, e)} : mem'[a] = mem[a]
            /\ Got(domain.layout, [x \in DOMAIN domain.fields |-> mem'[Field(<<>>, x)]],
                   Base(w.name), Index(w.name, w.index)) = w.value
<1> DEFINE d == Programs[prog]
           b == Base(w.name)
           index == Index(w.name, w.index)
<1>1. domain = d /\ SeparateFields(d) /\ index \in Nat
  BY LayoutsAssumption, IndexIs DEF domain
<1>2. PICK x \in Range(d.layout) :
        x.name = b /\ index < Len(x.elements) /\ ~x.narrow
  BY <1>1 DEF NamesElement
<1>3. PICK j \in DOMAIN d.layout : x = d.layout[j]
  BY DEF Range
<1> DEFINE e == x.elements[index + 1]
           cell == Field(<<>>, e)
<1>4. index + 1 \in DOMAIN x.elements /\ e \in DOMAIN d.fields
  <2>1. /\ DOMAIN x.elements = 1 .. Len(x.elements) /\ Len(x.elements) \in Nat
        /\ x.elements \in Seq(DOMAIN d.fields)
    BY <1>1, <1>3, LayoutIs
  <2>2. index + 1 \in 1 .. Len(x.elements)
    BY <1>1, <1>2, <2>1
  <2> QED
    BY <2>1, <2>2
<1>5. FieldOf(d.layout, b) = x /\ Found(d.layout, b) = b
  BY <1>1, <1>2, <1>3, FieldIs
<1>6. ElementAt(d.layout, b, index) = e
  BY <1>1, <1>2, <1>3, ElementIs
<1>7. SetElement(d.layout, w.name, w.index) = e
  BY <1>5, <1>6 DEF SetElement
<1>8. Spilled(d.layout, e) = {}
  BY <1>1, <1>2, <1>3, <1>4, NothingSpilled
<1>9. b # NotFound
  <2>1. b \in FieldNames(d.layout)
    BY <1>2 DEF FieldNames
  <2> QED
    BY <1>1, <2>1, NamesAssumption DEF SeparateFields
<1> DEFINE none == [a \in {Field(<<>>, y) : y \in Spilled(d.layout, e)} |-> 0]
<1>10. mem' = Over([a \in {cell} |-> w.value], Over(none, mem))
  <2> HIDE DEF d, b, index, e
  <2> QED
    BY <1>1, <1>5, <1>7, <1>9 DEF SetStateVar, b
<1>11. DOMAIN none = {}
  <2> HIDE DEF e
  <2> QED
    BY <1>8
<1> HIDE DEF d, b, index, e, none
<1>12. mem'[cell] = w.value /\ \A a \in DOMAIN mem \ {cell} : mem'[a] = mem[a]
  <2> HIDE DEF cell
  <2> QED
    BY <1>10, <1>11 DEF Over
<1>13. index # NoIndex
  BY <1>1 DEF NoIndex
<1>14. Got(d.layout, [y \in DOMAIN d.fields |-> mem'[Field(<<>>, y)]], b, index)
         = mem'[cell]
  BY <1>4, <1>5, <1>6, <1>13 DEF Got
<1> QED
  BY <1>1, <1>5, <1>12, <1>14 DEF b, index, e

(* One setStateVar of a text that no name contains.                        *)
LEMMA UnknownNamesTouchNothing ==
  ASSUME prog \in DOMAIN Programs, NEW w \in HostWrites, SetStateVar(w),
         FieldNames(domain.layout) \cap Containing[Base(w.name)] = {}
  PROVE  mem' = mem
<1>1. FieldNames(domain.layout) \subseteq Range(Dictionary)
  BY LayoutsAssumption DEF domain, SeparateFields
<1>2. Base(w.name) \notin FieldNames(domain.layout)
  BY <1>1, NamesAssumption
<1>3. Found(domain.layout, Base(w.name)) = NotFound
  BY <1>2 DEF Found, FirstOf
<1> QED
  BY <1>3 DEF SetStateVar

-----------------------------------------------------------------------------
(***************************************************************************)
(* The cells of an instance                                                *)
(***************************************************************************)

\* The cells of the struct exist, as long as the domain does.
CellsInv == prog \in DOMAIN Programs /\ OwnCells(domain) \subseteq DOMAIN mem

\* The signals that the i-th name of the dictionary can be reset by, on its turn.
Seen(c, i) ==
  Range(Parameters(c)) \cup (DOMAIN c.fields \cap {Dictionary[j] : j \in 1..(i - 1)})

\* A field that its reset signal, seen by now, puts back.
IsReset(c, at, n, i, memory) ==
  /\ n \in DOMAIN c.fields \cap DOMAIN c.reset
  /\ c.reset[n] \in Seen(c, i) /\ memory[at[c.reset[n]]] # 0

\* What one name of the dictionary does to memory on its turn.
ResetTurn(c, at, memory, i) ==
  IF IsReset(c, at, Dictionary[i], i, memory)
  THEN [memory EXCEPT ![at[Dictionary[i]]] = c.fields[Dictionary[i]]]
  ELSE memory

\* W is the memory after each name.
ResetRun(c, at, m, W) ==
  W[0] = m /\ \A i \in 1 .. Len(Dictionary) : W[i] = ResetTurn(c, at, W[i - 1], i)

(* The resets, one name of the dictionary after another.                   *)
LEMMA FieldsResetUnfolds ==
  ASSUME NEW c, NEW at, NEW m, Len(Dictionary) \in Nat
  PROVE  \E W : ResetRun(c, at, m, W) /\ FieldsReset(c, at, m) = W[Len(Dictionary)]
<1> DEFINE n == Len(Dictionary)
           Once(memory, i) == ResetTurn(c, at, memory, i)
           Now(g, i) == IF i = 0 THEN m ELSE Once(g[i - 1], i)
           Unfolded(g, k) == g = [i \in 0 .. k |-> Now(g, i)]
           S == {k \in Nat : \E g : Unfolded(g, k)}
           W == CHOOSE g : Unfolded(g, n)
<1>1. FieldsReset(c, at, m) = W[n]
  BY DEF FieldsReset, ResetTurn, IsReset, Seen
<1> HIDE DEF Once
<1>3. ASSUME NEW k \in Nat, NEW g, \A i \in 0 .. k - 1 : g[i] = Now(g, i)
      PROVE  k \in S
  <2> DEFINE h == [i \in 0 .. k |-> Now(g, i)]
  <2>1. ASSUME NEW i \in 0 .. k PROVE Now(g, i) = Now(h, i)
    <3>1. i = 0 \/ (i - 1 \in 0 .. k - 1 /\ i - 1 \in 0 .. k)
      OBVIOUS
    <3>2. i = 0 \/ h[i - 1] = g[i - 1]
      <4> HIDE DEF Now
      <4> QED
        BY <1>3, <3>1
    <3> HIDE DEF h
    <3> QED
      BY <3>2, Zenon
  <2>2. h = [i \in 0 .. k |-> Now(h, i)]
    BY <2>1, Zenon
  <2> HIDE DEF h
  <2> QED
    BY <2>2
<1>4. 0 \in S
  <2> DEFINE none == [i \in {} |-> 0]
  <2>1. 0 \in Nat /\ \A i \in 0 .. 0 - 1 : none[i] = Now(none, i)
    OBVIOUS
  <2> HIDE DEF none, Now, S
  <2> QED
    BY <1>3, <2>1
<1>5. ASSUME NEW k \in Nat, k \in S PROVE k + 1 \in S
  <2>1. PICK g : Unfolded(g, k)
    BY <1>5
  <2>2. \A i \in 0 .. k : g[i] = Now(g, i)
    BY <2>1, Zenon
  <2>3. k + 1 \in Nat /\ (k + 1) - 1 = k
    OBVIOUS
  <2> HIDE DEF Now, S
  <2> QED
    BY <1>3, <2>2, <2>3
<1>6. n \in S
  <2> HIDE DEF S
  <2> QED
    BY <1>4, <1>5, Induction
<1>7. Unfolded(W, n)
  <2> HIDE DEF Now
  <2> QED
    BY <1>6, Zenon
<1> HIDE DEF W
<1>8. \A i \in 0 .. n : W[i] = Now(W, i)
  BY <1>7, Zenon
<1>9. n \in Nat
  OBVIOUS
<1>10. FieldsReset(c, at, m) = W[n]
  BY <1>1
<1> HIDE DEF n
<1>11. W[0] = m /\ \A i \in 1 .. n : W[i] = Once(W[i - 1], i)
  <2>1. 0 \in 0 .. n /\ \A i \in 1 .. n : i \in 0 .. n /\ i # 0
    BY <1>9
  <2> QED
    BY <1>8, <2>1
<1> QED
  BY <1>10, <1>11 DEF ResetRun, n, Once

\* Only fields with a reset signal change, and no cell appears or goes.
LEMMA ResetsTouch ==
  ASSUME NEW c, NEW at, NEW m, Len(Dictionary) \in Nat, NEW M, M = DOMAIN m
  PROVE  /\ DOMAIN FieldsReset(c, at, m) = M
         /\ \A a \in M : \/ FieldsReset(c, at, m)[a] = m[a]
                        \/ \E n \in DOMAIN c.fields \cap DOMAIN c.reset : a = at[n]
<1> DEFINE n == Len(Dictionary)
           Touched == {at[x] : x \in DOMAIN c.fields \cap DOMAIN c.reset}
           Kept(memory) == DOMAIN memory = M /\ \A a \in M \ Touched : memory[a] = m[a]
<1>1. PICK W : ResetRun(c, at, m, W) /\ FieldsReset(c, at, m) = W[n]
  BY FieldsResetUnfolds
<1>2. ASSUME NEW memory, NEW i, Kept(memory) PROVE Kept(ResetTurn(c, at, memory, i))
  <2>1. CASE ~IsReset(c, at, Dictionary[i], i, memory)
    BY <1>2, <2>1 DEF ResetTurn
  <2>2. CASE IsReset(c, at, Dictionary[i], i, memory)
    <3> DEFINE x == Dictionary[i]
    <3>1. at[x] \in Touched
      BY <2>2 DEF IsReset
    <3>2. ResetTurn(c, at, memory, i) = [memory EXCEPT ![at[x]] = c.fields[x]]
      BY <2>2 DEF ResetTurn
    <3> HIDE DEF x, Touched
    <3> QED
      BY <1>2, <3>1, <3>2
  <2> QED
    BY <2>1, <2>2
<1>3. Kept(m)
  OBVIOUS
<1> HIDE DEF Kept
<1> DEFINE T == {k \in Nat : k <= n => Kept(W[k])}
<1>4. 0 \in T
  BY <1>1, <1>3 DEF ResetRun
<1>5. ASSUME NEW k \in Nat, k \in T PROVE k + 1 \in T
  <2>1. k + 1 <= n => k + 1 \in 1 .. n /\ k <= n /\ (k + 1) - 1 = k
    OBVIOUS
  <2>2. k + 1 <= n => W[k + 1] = ResetTurn(c, at, W[k], k + 1)
    BY <1>1, <2>1 DEF ResetRun
  <2> QED
    BY <1>2, <1>5, <2>1, <2>2
<1>6. n \in T
  <2> HIDE DEF T
  <2> QED
    BY <1>4, <1>5, Induction
<1>7. Kept(FieldsReset(c, at, m))
  BY <1>1, <1>6
<1> QED
  BY <1>7 DEF Kept

(* Resets make no cell and drop none.                                      *)
LEMMA ResetsKeepCells ==
  ASSUME NEW c, NEW at, NEW m, Len(Dictionary) \in Nat, NEW M, M = DOMAIN m
  PROVE  DOMAIN FieldsReset(c, at, m) = M
BY ResetsTouch

(* An allocated struct has all fields of the domain.                       *)
LEMMA AllocatedCells == Allocate => CellsInv
<1> SUFFICES ASSUME Allocate PROVE CellsInv
  BY Zenon
<1>1. prog \in DOMAIN Programs /\ mem = Allocated[prog] /\ domain = Programs[prog]
  BY Zenon DEF Allocate, domain
<1>2. OwnCells(Programs[prog]) \subseteq DOMAIN Allocated[prog]
  BY <1>1 DEF Allocated, Over
<1> QED
  BY <1>1, <1>2 DEF CellsInv

\* The fields that are in a memory are in the other.
Keeps(m, rest) == \A a \in DOMAIN m : a.area = "state" => a \in DOMAIN rest

(* No statement of generated code takes a field away: only a call's stack  *)
(* is ever dropped.                                                        *)
LEMMA ExecuteKeeps == Execute => Keeps(mem, mem')
<1>1. \A f, m, n, v : DOMAIN Write(f, m, n, v) = DOMAIN m
  BY DEF Write
<1>2. \A m, cells : DOMAIN m \subseteq DOMAIN Over(cells, m)
  BY DEF Over
<1>3. \A m, path, rest : Keeps(m, rest) => Keeps(m, Without(path, rest))
  BY DEF Keeps, Without
<1>4. ASSUME Assign PROVE DOMAIN mem' = DOMAIN mem
  BY <1>1, <1>4 DEF Assign, GoOn
<1>5. ASSUME Reset PROVE DOMAIN mem \subseteq DOMAIN mem'
  BY <1>2, <1>5, Zenon DEF Reset, GoOn
<1>6. ASSUME Call PROVE DOMAIN mem \subseteq DOMAIN mem'
  <2>1. Len(Dictionary) \in Nat
    BY NamesAssumption
  <2>2. PICK c, at, cells : mem' = LocalsSet(c, at, FieldsReset(c, at, Over(cells, mem)))
    BY <1>6, Zenon DEF Call
  <2>3. DOMAIN FieldsReset(c, at, Over(cells, mem)) = DOMAIN Over(cells, mem)
    BY <2>1, ResetsKeepCells
  <2>4. DOMAIN FieldsReset(c, at, Over(cells, mem)) \subseteq DOMAIN mem'
    BY <1>2, <2>2, Zenon DEF LocalsSet
  <2> QED
    BY <1>2, <2>3, <2>4
<1>7. ASSUME PassBy PROVE Keeps(mem, mem')
  <2>1. PICK path, cells : mem' = Without(path, Over(cells, mem))
    BY <1>7, Zenon DEF PassBy, Returned
  <2>2. Keeps(mem, Over(cells, mem))
    BY <1>2 DEF Keeps
  <2> QED
    BY <1>3, <2>1, <2>2
<1>8. ASSUME Return PROVE Keeps(mem, mem')
  <2>1. PICK path : mem' = Without(path, mem)
    BY <1>8, Zenon DEF Return, Returned
  <2>2. Keeps(mem, mem)
    BY DEF Keeps
  <2> QED
    BY <1>3, <2>1, <2>2
<1>9. DOMAIN mem \subseteq DOMAIN mem' => Keeps(mem, mem')
  BY DEF Keeps
<1> QED
  BY <1>4, <1>5, <1>6, <1>7, <1>8, <1>9 DEF Execute

(* No step of an instance takes a field of the domain away.                *)
LEMMA StepKeepsCells == CellsInv /\ [Step]_instance => CellsInv'
<1> SUFFICES ASSUME CellsInv, [Step]_instance PROVE CellsInv'
  OBVIOUS
<1>1. ASSUME prog' = prog, Keeps(mem, mem') PROVE CellsInv'
  <2>1. domain' = domain
    BY <1>1 DEF domain
  <2>2. \A a \in OwnCells(domain) : a.area = "state"
    BY DEF OwnCells, Field
  <2> QED
    BY <1>1, <2>1, <2>2 DEF CellsInv, Keeps
<1>2. mem' = mem => Keeps(mem, mem')
  BY DEF Keeps
<1>3. ASSUME NEW function, CallFunction(function) PROVE CellsInv'
  BY <1>1, <1>2, <1>3 DEF CallFunction
<1>4. ASSUME RunStatement PROVE CellsInv'
  BY <1>1, <1>4, ExecuteKeeps DEF RunStatement
<1>5. ASSUME RunMachine PROVE CellsInv'
  <2>1. DOMAIN mem' = DOMAIN mem
    BY <1>5 DEF RunMachine, GoOn
  <2> QED
    BY <1>1, <1>5, <2>1, Zenon DEF RunMachine, Keeps
<1>6. ASSUME EndOfCall PROVE CellsInv'
  BY <1>1, <1>2, <1>6 DEF EndOfCall
<1>7. ASSUME NEW w \in HostWrites, SetStateVar(w) PROVE CellsInv'
  <2>1. DOMAIN mem \subseteq DOMAIN mem'
    BY <1>7 DEF SetStateVar, Over
  <2> QED
    BY <1>1, <1>7, <2>1 DEF SetStateVar, Keeps
<1>8. ASSUME NEW r \in HostRequests, RequestTransition(r) PROVE CellsInv'
  <2>1. DOMAIN mem' = DOMAIN mem
    BY <1>8 DEF RequestTransition
  <2> QED
    BY <1>1, <1>8, <2>1 DEF RequestTransition, Keeps
<1>9. CASE UNCHANGED instance
  BY <1>1, <1>2, <1>9 DEF instance
<1> QED
  BY <1>3, <1>4, <1>5, <1>6, <1>7, <1>8, <1>9 DEF Step, CallDomain, RunCall, Access

(* A domain has all its fields at all times.                               *)
LEMMA CellsStay == InstanceSpec => []CellsInv
  BY AllocatedCells, StepKeepsCells, PTL DEF InstanceSpec

-----------------------------------------------------------------------------
(***************************************************************************)
(* What an init restores                                                   *)
(***************************************************************************)

(* A statement that restores sets a name to a number, and nothing else.    *)
LEMMA RestoresAre ==
  ASSUME NEW d, RestoredFields(d)
  PROVE  /\ Restores(d) \in Seq(Range(Restores(d)))
         /\ \A k \in DOMAIN Restores(d) :
              \E n \in DOMAIN d.fields, l \in DOMAIN Literal : Restores(d)[k] = SetTo(n, l)
         /\ \A n \in Range(d.declared) :
              \E k \in DOMAIN Restores(d) : Restores(d)[k] = SetTo(n, d.default[n])
         /\ \A i \in DOMAIN d.machines :
              \E k \in DOMAIN Restores(d) :
                Restores(d)[k] = SetTo(d.machines[i].active, d.machines[i].initial)
<1> DEFINE s == MachineStarts(d)
           t == Settings(d.declared, d.default)
           E == Range(s) \cup Range(t)
           a == Len(d.machines)
           b == Len(d.declared)
<1>1. a \in Nat /\ DOMAIN d.machines = 1 .. a /\ b \in Nat /\ DOMAIN d.declared = 1 .. b
  BY DEF RestoredFields
<1>2. /\ s = [i \in 1 .. a |-> SetTo(d.machines[i].active, d.machines[i].initial)]
      /\ t = [i \in 1 .. b |-> SetTo(d.declared[i], d.default[d.declared[i]])]
  BY <1>1 DEF MachineStarts, Settings
<1> HIDE DEF s, t, a, b
<1>3. s \in Seq(E) /\ t \in Seq(E) /\ Len(s) = a /\ Len(t) = b
  BY <1>1, <1>2 DEF Range
<1>4. Restores(d) = s \o t
  BY DEF Restores, s, t
<1> HIDE DEF E
<1>5. /\ s \o t \in Seq(E) /\ Len(s \o t) = a + b
      /\ \A i \in 1 .. a + b : (s \o t)[i] = IF i <= a THEN s[i] ELSE t[i - a]
  BY <1>3, ConcatProperties
<1>6. DOMAIN Restores(d) = 1 .. a + b
  BY <1>4, <1>5
<1>7. \A i \in 1 .. a : i \in 1 .. a + b /\ i <= a
  BY <1>1
<1>8. \A i \in 1 .. b : a + i \in 1 .. a + b /\ ~(a + i <= a) /\ (a + i) - a = i
  BY <1>1
<1>9. \A i \in 1 .. a : Restores(d)[i] = SetTo(d.machines[i].active, d.machines[i].initial)
  BY <1>2, <1>4, <1>5, <1>7
<1>10. \A i \in 1 .. b : Restores(d)[a + i] = SetTo(d.declared[i], d.default[d.declared[i]])
  BY <1>2, <1>4, <1>5, <1>8
<1>11. \A k \in 1 .. a + b : k \in 1 .. a \/ \E i \in 1 .. b : k = a + i
  <2> TAKE k \in 1 .. a + b
  <2>1. k \in 1 .. a \/ (k - a \in 1 .. b /\ k = a + (k - a))
    BY <1>1
  <2> QED
    BY <2>1
<1>12. \A n \in Range(d.declared) : \E i \in 1 .. b : n = d.declared[i]
  BY <1>1 DEF Range
<1>13. \A i \in 1 .. b : d.declared[i] \in Range(d.declared)
  BY <1>1 DEF Range
<1>14. ASSUME NEW k \in DOMAIN Restores(d)
       PROVE  \E n \in DOMAIN d.fields, l \in DOMAIN Literal : Restores(d)[k] = SetTo(n, l)
  <2>1. Restores(d)[k].var \in DOMAIN d.fields
    BY DEF RestoredFields
  <2>2. \E n : \E l \in DOMAIN Literal : Restores(d)[k] = SetTo(n, l)
    <3>1. CASE k \in 1 .. a
      <4>1. d.machines[k].initial \in DOMAIN Literal
        BY <1>1, <3>1 DEF RestoredFields
      <4> QED
        BY <1>9, <3>1, <4>1
    <3>2. CASE \E i \in 1 .. b : k = a + i
      <4>1. PICK i \in 1 .. b : k = a + i
        BY <3>2
      <4>2. d.default[d.declared[i]] \in DOMAIN Literal
        BY <1>13 DEF RestoredFields
      <4>3. Restores(d)[k] = SetTo(d.declared[i], d.default[d.declared[i]])
        BY <1>10, <4>1
      <4> QED
        BY <4>2, <4>3
    <3> QED
      BY <1>6, <1>11, <3>1, <3>2
  <2>3. PICK n, l : l \in DOMAIN Literal /\ Restores(d)[k] = SetTo(n, l)
    BY <2>2
  <2>4. SetTo(n, l).var = n
    BY DEF SetTo
  <2>5. n \in DOMAIN d.fields
    BY <2>1, <2>3, <2>4
  <2> QED
    BY <2>3, <2>5
<1>15. Restores(d) \in Seq(Range(Restores(d)))
  BY <1>4, <1>5, SeqOfRange
<1>16. ASSUME NEW n \in Range(d.declared)
       PROVE  \E k \in DOMAIN Restores(d) : Restores(d)[k] = SetTo(n, d.default[n])
  <2>1. PICK i \in 1 .. b : n = d.declared[i]
    BY <1>12
  <2>2. a + i \in DOMAIN Restores(d) /\ Restores(d)[a + i] = SetTo(n, d.default[n])
    BY <1>6, <1>8, <1>10, <2>1
  <2> QED
    BY <2>2
<1>17. ASSUME NEW i \in DOMAIN d.machines
       PROVE  \E k \in DOMAIN Restores(d) :
                Restores(d)[k] = SetTo(d.machines[i].active, d.machines[i].initial)
  <2>1. i \in 1 .. a /\ i \in DOMAIN Restores(d)
    BY <1>1, <1>6, <1>7
  <2> QED
    BY <1>9, <2>1
<1> QED
  BY <1>14, <1>15, <1>16, <1>17

(* The code of an init ends with the statements that restore.              *)
LEMMA InitCode ==
  ASSUME NEW p \in DOMAIN Programs
  PROVE  LET d == Programs[p]
             o == Len(d.onInit)
             r == Len(Restores(d))
         IN  /\ Functions[p]["init"] = DomainFunction(d, InitBody(d))
             /\ o \in Nat /\ r \in Nat /\ DOMAIN Restores(d) = 1 .. r
             /\ Len(InitBody(d)) = o + r
             /\ \A k \in 1 .. r : InitBody(d)[o + k] = Restores(d)[k]
<1> DEFINE d == Programs[p]
           u == d.onInit
           v == Restores(d)
           E == Range(u) \cup Range(v)
           o == Len(u)
           r == Len(v)
<1>1. Functions[p]["init"] = DomainFunction(d, InitBody(d))
  BY DEF Functions, Over
<1>2. RestoredFields(d)
  BY LayoutsAssumption
<1> HIDE DEF d
<1>3. u \in Seq(Range(u)) /\ v \in Seq(Range(v))
  BY <1>2, RestoresAre DEF RestoredFields
<1>4. InitBody(d) = u \o v
  BY DEF InitBody
<1> HIDE DEF u, v
<1>5. u \in Seq(E) /\ v \in Seq(E) /\ o \in Nat /\ r \in Nat /\ DOMAIN v = 1 .. r
  BY <1>3
<1> HIDE DEF E, o, r
<1>6. /\ Len(u \o v) = o + r
      /\ \A i \in 1 .. o + r : (u \o v)[i] = IF i <= o THEN u[i] ELSE v[i - o]
  BY <1>5, ConcatProperties DEF o, r
<1>7. \A k \in 1 .. r : o + k \in 1 .. o + r /\ ~(o + k <= o) /\ (o + k) - o = k
  BY <1>5
<1>8. \A k \in 1 .. r : (u \o v)[o + k] = v[k]
  BY <1>6, <1>7
<1> QED
  BY <1>1, <1>4, <1>5, <1>6, <1>8 DEF d, u, v, o, r

\* The k-th of the statements that restore has done so.
Restored(d, m, k) == m[Field(<<>>, Restores(d)[k].var)] = Literal[Restores(d)[k].expr[2]]

\* A call of <Domain>_init, below the calls that its onInit streams make:
\* what it has come by so far is restored.
InitRuns(d, f, m, calls) ==
  LET o == Len(d.onInit)
  IN /\ {"callable", "pc", "at", "val"} \subseteq DOMAIN f
     /\ f.callable = "init" /\ f.at = [n \in DOMAIN d.fields |-> Field(<<>>, n)]
     /\ f.pc = Done \/ f.pc \in 1 .. o + Len(Restores(d))
     /\ calls > 1 => f.pc \in 1 .. o
     /\ \A k \in DOMAIN Restores(d) : f.pc = Done \/ o + k < f.pc => Restored(d, m, k)

\* The call that the host made.
Outermost == frames[Len(frames)]

(* While an init runs, the fields whose block has been restored hold their *)
(* defaults; after it, all do.                                             *)
InitInv ==
  /\ code = Functions[prog]
  /\ \E S : frames \in Seq(S)
  /\ last = "init" /\ Restores(domain) # <<>> =>
       IF frames = <<>> THEN \A k \in DOMAIN Restores(domain) : Restored(domain, mem, k)
       ELSE InitRuns(domain, Outermost, mem, Len(frames))

(* The statements of an init that restore are assignments.                 *)
LEMMA OnlyAssigns ==
  ASSUME CellsInv, InitInv, NEW f, NEW m, NEW calls, InitRuns(domain, f, m, calls),
         f.pc # Done, f.pc \notin 1 .. Len(domain.onInit)
  PROVE  LET k == f.pc - Len(domain.onInit)
         IN k \in DOMAIN Restores(domain) /\ Statement(f) = Restores(domain)[k]
<1> DEFINE d == domain
           o == Len(d.onInit)
           r == Len(Restores(d))
           k == f.pc - o
<1>1. /\ Functions[prog]["init"] = DomainFunction(d, InitBody(d))
      /\ o \in Nat /\ r \in Nat /\ DOMAIN Restores(d) = 1 .. r
      /\ \A i \in 1 .. r : InitBody(d)[o + i] = Restores(d)[i]
  BY InitCode DEF CellsInv, domain
<1>2. f.callable = "init" /\ f.pc \in 1 .. o + r
  BY DEF InitRuns
<1>3. Statement(f) = InitBody(d)[f.pc]
  BY <1>1, <1>2 DEF InitInv, Statement, Code, CodeOf, DomainFunction
<1> HIDE DEF d, o, r
<1>4. k \in 1 .. r /\ o + k = f.pc
  BY <1>1, <1>2 DEF o, d
<1> HIDE DEF k
<1>5. Statement(f) = Restores(d)[k]
  BY <1>1, <1>3, <1>4
<1> QED
  BY <1>1, <1>4, <1>5 DEF d, k, o

(* In calls of its onInit streams an init has restored nothing yet.        *)
LEMMA NothingRestored ==
  ASSUME NEW p \in DOMAIN Programs, NEW f, NEW m, NEW calls,
         InitRuns(Programs[p], f, m, calls), f.pc \in 1 .. Len(Programs[p].onInit),
         NEW other, NEW more
  PROVE  InitRuns(Programs[p], f, other, more)
<1>1. /\ Len(Programs[p].onInit) \in Nat
      /\ \A k \in DOMAIN Restores(Programs[p]) : k \in Nat \ {0}
  BY InitCode
<1> QED
  BY <1>1 DEF InitRuns, Done

(* An init goes on to its next statement, or ends after the last.          *)
LEMMA InitGoesOn ==
  ASSUME CellsInv, InitInv, Restores(domain) # <<>>,
         NEW f, NEW m, NEW calls, InitRuns(domain, f, m, calls), f.pc # Done,
         NEW g, DOMAIN g = DOMAIN f, g.callable = f.callable, g.pc = f.pc, g.at = f.at,
         NEW rest,
         \A k \in DOMAIN Restores(domain) :
           f.pc = Len(domain.onInit) + k =>
             Restored(domain, rest, k) /\ \A i \in 1 .. k - 1 :
               Restored(domain, m, i) => Restored(domain, rest, i)
  PROVE  InitRuns(domain, After(g, rest), rest, 1)
<1> DEFINE d == domain
           o == Len(d.onInit)
           r == Len(Restores(d))
           h == After(g, rest)
<1>1. /\ Functions[prog]["init"] = DomainFunction(d, InitBody(d))
      /\ o \in Nat /\ r \in Nat /\ DOMAIN Restores(d) = 1 .. r
      /\ Len(InitBody(d)) = o + r
  BY InitCode DEF CellsInv, domain
<1>2. /\ {"callable", "pc", "at", "val"} \subseteq DOMAIN f
      /\ f.callable = "init" /\ f.at = [n \in DOMAIN d.fields |-> Field(<<>>, n)]
      /\ f.pc \in 1 .. o + r
      /\ \A k \in 1 .. r : o + k < f.pc => Restored(d, m, k)
  BY <1>1 DEF InitRuns
<1>3. /\ Code(g).body = InitBody(d) /\ Code(g).kind = "Domain"
      /\ Code(g).terminate = NoName
  BY <1>1, <1>2 DEF Code, CodeOf, InitInv, DomainFunction
<1>4. Ends(g, rest) <=> f.pc = o + r
  BY <1>1, <1>3 DEF Ends
<1>5. h = [g EXCEPT !.pc = IF f.pc = o + r THEN Done ELSE f.pc + 1]
  BY <1>1, <1>3, <1>4 DEF After
<1> HIDE DEF h
<1>6. /\ {"callable", "pc", "at", "val"} \subseteq DOMAIN h
      /\ h.callable = "init" /\ h.at = [n \in DOMAIN d.fields |-> Field(<<>>, n)]
      /\ h.pc = IF f.pc = o + r THEN Done ELSE f.pc + 1
  BY <1>2, <1>5
<1> HIDE DEF d, o, r
<1>7. h.pc = Done \/ h.pc \in 1 .. o + r
  BY <1>1, <1>2, <1>6
<1>8. ASSUME NEW k \in 1 .. r, h.pc = Done \/ o + k < h.pc PROVE Restored(d, rest, k)
  <2>1. r \in 1 .. r
    BY <1>1, <1>8
  <2>2. o + k <= f.pc
    BY <1>1, <1>2, <1>6, <1>8 DEF Done
  <2>3. CASE f.pc = o + k
    BY <1>1, <2>3 DEF d, o
  <2>4. CASE o + k < f.pc
    <3>1. Restored(d, m, k)
      BY <1>2, <2>4
    <3> DEFINE j == f.pc - o
    <3>2. j \in 1 .. r /\ f.pc = o + j /\ k \in 1 .. j - 1
      BY <1>1, <1>2, <2>4
    <3> HIDE DEF j
    <3> QED
      BY <1>1, <3>1, <3>2 DEF d, o
  <2> QED
    BY <1>1, <1>2, <2>2, <2>3, <2>4
<1> QED
  BY <1>1, <1>6, <1>7, <1>8 DEF InitRuns, d, o, r, h

(* Another frame in place of the innermost.                                *)
LEMMA HeadReplaced ==
  ASSUME NEW S, NEW s \in Seq(S), s # <<>>, NEW g
  PROVE  LET t == <<g>> \o Tail(s)
         IN  /\ t \in Seq(S \cup {g}) /\ t # <<>> /\ Len(t) = Len(s)
             /\ t[Len(t)] = IF Len(s) = 1 THEN g ELSE s[Len(s)]
<1> DEFINE E == S \cup {g}
           t == <<g>> \o Tail(s)
<1>1. Len(s) \in Nat \ {0} /\ Tail(s) \in Seq(S) /\ Len(Tail(s)) = Len(s) - 1
  OBVIOUS
<1>2. \A i \in 1 .. Len(s) - 1 : Tail(s)[i] = s[i + 1]
  OBVIOUS
<1>3. <<g>> \in Seq(E) /\ Len(<<g>>) = 1 /\ <<g>>[1] = g
  OBVIOUS
<1>4. Tail(s) \in Seq(E)
  BY <1>1
<1> HIDE DEF E
<1>5. /\ t \in Seq(E) /\ Len(t) = 1 + Len(Tail(s))
      /\ \A i \in 1 .. 1 + Len(Tail(s)) : t[i] = IF i <= 1 THEN <<g>>[i] ELSE Tail(s)[i - 1]
  BY <1>3, <1>4, ConcatProperties
<1> HIDE DEF t
<1>6. Len(t) = Len(s) /\ t # <<>>
  BY <1>1, <1>5
<1>7. t[Len(t)] = IF Len(s) <= 1 THEN g ELSE Tail(s)[Len(s) - 1]
  BY <1>1, <1>3, <1>5, <1>6
<1>8. ASSUME Len(s) # 1 PROVE Tail(s)[Len(s) - 1] = s[Len(s)]
  <2>1. Len(s) - 1 \in 1 .. Len(s) - 1 /\ (Len(s) - 1) + 1 = Len(s)
    BY <1>1, <1>8
  <2> QED
    BY <1>2, <2>1
<1>9. t[Len(t)] = IF Len(s) = 1 THEN g ELSE s[Len(s)]
  BY <1>1, <1>7, <1>8
<1> QED
  BY <1>5, <1>6, <1>9 DEF E, t

(* And one before it.                                                      *)
LEMMA HeadAdded ==
  ASSUME NEW S, NEW s \in Seq(S), s # <<>>, NEW g
  PROVE  LET t == <<g>> \o s
         IN  /\ t \in Seq(S \cup {g}) /\ t # <<>>
             /\ Len(t) = Len(s) + 1 /\ t[Len(t)] = s[Len(s)]
<1> DEFINE E == S \cup {g}
           t == <<g>> \o s
<1>1. Len(s) \in Nat \ {0} /\ s \in Seq(E) /\ <<g>> \in Seq(E) /\ Len(<<g>>) = 1
  OBVIOUS
<1> HIDE DEF E
<1>2. /\ t \in Seq(E) /\ Len(t) = 1 + Len(s)
      /\ \A i \in 1 .. 1 + Len(s) : t[i] = IF i <= 1 THEN <<g>>[i] ELSE s[i - 1]
  BY <1>1, ConcatProperties
<1> HIDE DEF t
<1>3. t[1 + Len(s)] = s[(1 + Len(s)) - 1] /\ (1 + Len(s)) - 1 = Len(s)
  BY <1>1, <1>2
<1> QED
  BY <1>1, <1>2, <1>3 DEF E, t

(* The innermost frame is that of the init itself, or of a call in an      *)
(* onInit stream.                                                          *)
LEMMA InitGoesOnInFrames ==
  ASSUME CellsInv, InitInv, UNCHANGED <<prog, code, last>>,
         NEW S, NEW s \in Seq(S), s # <<>>, s[Len(s)] = Outermost, NEW calls,
         last = "init" /\ Restores(domain) # <<>> => InitRuns(domain, Outermost, mem, calls),
         Len(s) # 1 => calls > 1,
         NEW g, frames' = <<After(g, mem')>> \o Tail(s),
         LET f == s[1]
         IN Len(s) = 1 /\ last = "init" /\ Restores(domain) # <<>> =>
                 /\ f.pc # Done /\ DOMAIN g = DOMAIN f
                 /\ g.callable = f.callable /\ g.pc = f.pc /\ g.at = f.at
                 /\ \A k \in DOMAIN Restores(domain) :
                      f.pc = Len(domain.onInit) + k =>
                        Restored(domain, mem', k) /\ \A i \in 1 .. k - 1 :
                          Restored(domain, mem, i) => Restored(domain, mem', i)
  PROVE  InitInv'
<1>1. /\ frames' \in Seq(S \cup {After(g, mem')}) /\ frames' # <<>> /\ Len(frames') = Len(s)
      /\ frames'[Len(frames')] = IF Len(s) = 1 THEN After(g, mem') ELSE Outermost
  BY HeadReplaced
<1>2. domain' = domain /\ Functions' = Functions /\ Len(s) \in Nat
  BY DEF domain
<1>3. Outermost' = IF Len(s) = 1 THEN After(g, mem') ELSE Outermost
  BY <1>1, Zenon DEF Outermost
<1>4. ASSUME last = "init", Restores(domain) # <<>>
      PROVE  InitRuns(domain, Outermost', mem', Len(frames'))
  <2>1. InitRuns(domain, Outermost, mem, calls)
    BY <1>4
  <2>2. CASE Len(s) = 1
    <3>1. InitRuns(domain, After(g, mem'), mem', 1)
      BY <1>4, <2>1, <2>2, InitGoesOn
    <3> QED
      BY <1>1, <1>3, <2>2, <3>1
  <2>3. CASE Len(s) # 1
    <3>1. Outermost.pc \in 1 .. Len(domain.onInit)
      BY <2>1, <2>3 DEF InitRuns
    <3>2. prog \in DOMAIN Programs /\ domain = Programs[prog]
      BY DEF CellsInv, domain
    <3>3. InitRuns(domain, Outermost, mem', Len(frames'))
      BY <2>1, <3>1, <3>2, NothingRestored
    <3> QED
      BY <1>3, <2>3, <3>3
  <2> QED
    BY <2>2, <2>3
<1>5. InitRuns(domain, Outermost', mem', Len(frames')) = InitRuns(domain', Outermost', mem', Len(frames'))
  BY <1>2
<1> QED
  BY <1>1, <1>2, <1>4, <1>5, Zenon DEF InitInv

(* An assignment by an init that restores a block does that, and leaves    *)
(* what it has restored.                                                   *)
LEMMA AssignmentRestores ==
  ASSUME CellsInv, InitInv, Assign, last = "init", Restores(domain) # <<>>,
         NEW f, f = Head(frames), NEW calls, InitRuns(domain, f, mem, calls),
         NEW k \in DOMAIN Restores(domain), f.pc = Len(domain.onInit) + k
  PROVE  /\ Bound(f, Statement(f).var, Literal[Restores(domain)[k].expr[2]]) = f
         /\ \A v : Bound(f, Statement(f).var, v) = f
         /\ Restored(domain, mem', k)
         /\ \A i \in 1 .. k - 1 : Restored(domain, mem, i) => Restored(domain, mem', i)
<1> DEFINE d == domain
           o == Len(d.onInit)
<1>1. RestoredFields(d) /\ o \in Nat /\ DOMAIN Restores(d) = 1 .. Len(Restores(d))
      /\ Len(Restores(d)) \in Nat
  BY LayoutsAssumption, InitCode DEF CellsInv, domain
<1> HIDE DEF d
<1>2. f.pc # Done /\ f.pc \notin 1 .. o /\ f.pc - o = k
  BY <1>1 DEF Done, d
<1>3. Statement(f) = Restores(d)[k]
  BY <1>2, OnlyAssigns DEF d
<1>4. PICK n \in DOMAIN d.fields, l \in DOMAIN Literal : Restores(d)[k] = SetTo(n, l)
  BY <1>1, RestoresAre DEF d
<1>5. f.at = [x \in DOMAIN d.fields |-> Field(<<>>, x)]
  BY DEF InitRuns, d
<1>6. /\ Statement(f).var = n
      /\ Statement(f).expr[1] = "is" /\ Statement(f).expr[2] = l
      /\ Restores(d)[k].var = n /\ Restores(d)[k].expr[2] = l
  BY <1>3, <1>4 DEF SetTo
<1>7. n \in DOMAIN f.at /\ f.at[n] = Field(<<>>, n)
  BY <1>4, <1>5
<1>8. \A v : Bound(f, Statement(f).var, v) = f
  BY <1>6, <1>7 DEF Bound
<1>9. \A x : Apply("is", Literal[l], x) = Literal[l]
  BY DEF Apply
<1>10. mem' = [mem EXCEPT ![Field(<<>>, n)] = Literal[l]]
  <2>1. mem' = Write(f, mem, Statement(f).var,
                     Apply(Statement(f).expr[1], Value(f, mem, Statement(f).expr[2]),
                           Value(f, mem, Statement(f).expr[3])))
    BY Zenon DEF Assign, GoOn
  <2>2. Value(f, mem, l) = Literal[l]
    BY <1>4, Zenon DEF Value
  <2>3. mem' = Write(f, mem, n, Literal[l])
    BY <1>6, <1>9, <2>1, <2>2
  <2> QED
    BY <1>7, <2>3 DEF Write
<1>11. Field(<<>>, n) \in DOMAIN mem
  BY <1>4, Zenon DEF CellsInv, OwnCells, d
<1>12. mem'[Field(<<>>, n)] = Literal[l]
  <2> DEFINE cell == Field(<<>>, n)
  <2> HIDE DEF cell
  <2>1. mem' = [mem EXCEPT ![cell] = Literal[l]] /\ cell \in DOMAIN mem
    BY <1>10, <1>11 DEF cell
  <2>2. mem'[cell] = Literal[l]
    BY <2>1
  <2> QED
    BY <2>2 DEF cell
<1>13. ASSUME NEW i \in 1 .. k - 1, Restored(d, mem, i) PROVE Restored(d, mem', i)
  <2> DEFINE x == Restores(d)[i].var
             cell == Field(<<>>, n)
             other == Field(<<>>, x)
  <2>1. i \in DOMAIN Restores(d) /\ i # k
    BY <1>1 DEF d
  <2>2. x # n /\ x \in DOMAIN d.fields
    BY <1>1, <1>6, <2>1, Zenon DEF RestoredFields, d
  <2>3. other # cell
    BY <2>2 DEF Field
  <2>4. other \in DOMAIN mem
    BY <2>2, Zenon DEF CellsInv, OwnCells, d
  <2> HIDE DEF x, cell, other
  <2>5. mem' = [mem EXCEPT ![cell] = Literal[l]]
    BY <1>10 DEF cell
  <2>6. mem'[other] = mem[other]
    BY <2>3, <2>4, <2>5
  <2> QED
    BY <1>13, <2>6 DEF Restored, other, x
<1> QED
  BY <1>6, <1>8, <1>12, <1>13 DEF Restored, d

(* Running a statement keeps what an init has restored.                    *)
LEMMA ExecuteKeepsInit ==
  ASSUME CellsInv, InitInv, UNCHANGED <<prog, code, last>>, Execute \/ RunMachine
  PROVE  InitInv'
<1> DEFINE matters == last = "init" /\ Restores(domain) # <<>>
<1>1. PICK S : frames \in Seq(S)
  BY DEF InitInv
<1>2. ASSUME frames # <<>>
      PROVE  /\ Len(frames) \in Nat \ {0} /\ Head(frames) = frames[1]
             /\ matters => InitRuns(domain, Outermost, mem, Len(frames))
             /\ Len(frames) = 1 => Outermost = Head(frames)
  BY <1>1, <1>2 DEF InitInv, Outermost
<1> HIDE DEF matters
<1>3. ASSUME frames # <<>>, Head(frames).pc # Done, Statement(Head(frames)).op # "set",
             Len(frames) = 1, matters
      PROVE  Head(frames).pc \in 1 .. Len(domain.onInit)
  <2>1. InitRuns(domain, Head(frames), mem, 1)
    BY <1>2, <1>3
  <2>2. ASSUME Head(frames).pc \notin 1 .. Len(domain.onInit) PROVE FALSE
    <3>1. PICK k \in DOMAIN Restores(domain) : Statement(Head(frames)) = Restores(domain)[k]
      BY <1>3, <2>1, <2>2, OnlyAssigns
    <3>2. RestoredFields(domain)
      BY LayoutsAssumption DEF CellsInv, domain
    <3>3. Restores(domain)[k].op = "set"
      BY <3>2, RestoresAre DEF SetTo
    <3> QED
      BY <1>3, <3>1, <3>3
  <2> QED
    BY <2>2
<1>4. \A k \in DOMAIN Restores(domain), pc1 \in 1 .. Len(domain.onInit) :
        pc1 # Len(domain.onInit) + k
  BY InitCode DEF CellsInv, domain
<1>5. ASSUME NEW g, frames # <<>>, frames' = <<After(g, mem')>> \o Tail(frames),
             Len(frames) = 1 /\ matters =>
               LET f == Head(frames)
               IN /\ f.pc # Done /\ DOMAIN g = DOMAIN f
                  /\ g.callable = f.callable /\ g.pc = f.pc /\ g.at = f.at
                  /\ \A k \in DOMAIN Restores(domain) :
                       f.pc = Len(domain.onInit) + k =>
                         Restored(domain, mem', k) /\ \A i \in 1 .. k - 1 :
                           Restored(domain, mem, i) => Restored(domain, mem', i)
      PROVE  InitInv'
  <2>1. frames[Len(frames)] = Outermost
    BY DEF Outermost
  <2>2. Len(frames) # 1 => Len(frames) > 1
    BY <1>2, <1>5
  <2> QED
    BY <1>1, <1>2, <1>5, <2>1, <2>2, InitGoesOnInFrames DEF matters
<1>6. ASSUME NEW f, NEW s, NEW m, {"callable", "pc", "at", "val"} \subseteq DOMAIN f
      PROVE  LET g == WithOutputs(f, s, m)
             IN /\ DOMAIN g = DOMAIN f /\ g.callable = f.callable
                /\ g.pc = f.pc /\ g.at = f.at
  <2>1. PICK v : WithOutputs(f, s, m) = [f EXCEPT !.val = v]
    BY Zenon DEF WithOutputs
  <2> QED
    BY <1>6, <2>1
<1>7. ASSUME Assign PROVE InitInv'
  <2> DEFINE f == Head(frames)
             v == Apply(Statement(f).expr[1], Value(f, mem, Statement(f).expr[2]),
                        Value(f, mem, Statement(f).expr[3]))
             g == Bound(f, Statement(f).var, v)
  <2>1. /\ frames # <<>> /\ f.pc # Done
        /\ frames' = <<After(g, mem')>> \o Tail(frames)
    BY <1>7, Zenon DEF Assign, GoOn, Running
  <2> HIDE DEF v
  <2>2. {"callable", "pc", "at", "val"} \subseteq DOMAIN f =>
          /\ DOMAIN g = DOMAIN f /\ g.callable = f.callable
          /\ g.pc = f.pc /\ g.at = f.at
    <3>1. g = f \/ \E x : g = [f EXCEPT !.val = x]
      BY Zenon DEF Bound
    <3> HIDE DEF f, g
    <3> QED
      BY <3>1
  <2>3. ASSUME Len(frames) = 1, matters
        PROVE  /\ f.pc # Done /\ DOMAIN g = DOMAIN f
               /\ g.callable = f.callable /\ g.pc = f.pc /\ g.at = f.at
               /\ \A k \in DOMAIN Restores(domain) :
                    f.pc = Len(domain.onInit) + k =>
                      Restored(domain, mem', k) /\ \A i \in 1 .. k - 1 :
                        Restored(domain, mem, i) => Restored(domain, mem', i)
    <3>1. InitRuns(domain, f, mem, 1)
      BY <1>2, <2>1, <2>3
    <3>2. {"callable", "pc", "at", "val"} \subseteq DOMAIN f
      BY <3>1 DEF InitRuns
    <3> HIDE DEF f, g
    <3>3. f = Head(frames)
      BY DEF f
    <3> QED
      BY <1>7, <2>1, <2>2, <2>3, <3>1, <3>2, <3>3, AssignmentRestores DEF matters
  <2> HIDE DEF g
  <2> QED
    BY <1>5, <2>1, <2>3
<1>8. ASSUME NEW op, op # "set", Running(op)
      PROVE  /\ frames # <<>> /\ Head(frames).pc # Done
             /\ Len(frames) = 1 /\ matters =>
                  /\ InitRuns(domain, Head(frames), mem, 1)
                  /\ Head(frames).pc \in 1 .. Len(domain.onInit)
                  /\ {"callable", "pc", "at", "val"} \subseteq DOMAIN Head(frames)
  BY <1>2, <1>3, <1>8 DEF Running, InitRuns
<1>9. ASSUME Reset \/ RunMachine PROVE InitInv'
  <2>1. Running("reset") \/ Running("machine")
    BY <1>9, Zenon DEF Reset, RunMachine
  <2>2. frames' = <<After(Head(frames), mem')>> \o Tail(frames)
    BY <1>9, Zenon DEF Reset, RunMachine, GoOn
  <2> QED
    BY <1>4, <1>5, <1>8, <2>1, <2>2
<1>10. ASSUME PassBy PROVE InitInv'
  <2>1. Running("call")
    BY <1>10 DEF PassBy
  <2>2. PICK m : frames' = <<After(WithOutputs(Head(frames), Statement(Head(frames)), m), mem')>>
                             \o Tail(frames)
    BY <1>10, Zenon DEF PassBy, Returned
  <2> QED
    BY <1>4, <1>5, <1>6, <1>8, <2>1, <2>2, Zenon
<1>11. ASSUME Return PROVE InitInv'
  <2> DEFINE s == Tail(frames)
  <2>1. Len(frames) > 1 /\ frames # <<>>
    BY <1>1, <1>11 DEF Return
  <2>2. s \in Seq(S) /\ s # <<>> /\ Len(s) = Len(frames) - 1 /\ s[1] = frames[2]
        /\ s[Len(s)] = Outermost /\ Len(s) \in Nat \ {0}
    <3>1. /\ s \in Seq(S) /\ Len(s) = Len(frames) - 1 /\ Len(frames) \in Nat
          /\ \A i \in 1 .. Len(frames) - 1 : s[i] = frames[i + 1]
      BY <1>1, <2>1
    <3> HIDE DEF s
    <3>2. Len(s) \in Nat \ {0} /\ s # <<>> /\ Len(s) + 1 = Len(frames)
      BY <2>1, <3>1
    <3>3. s[1] = frames[2] /\ s[Len(s)] = frames[Len(frames)]
      BY <3>1, <3>2
    <3> QED
      BY <3>1, <3>2, <3>3 DEF Outermost
  <2>3. PICK m : frames' = <<After(WithOutputs(frames[2], Statement(frames[2]), m), mem')>> \o Tail(s)
    BY <1>11, Zenon DEF Return, Returned
  <2> HIDE DEF s
  <2>4. matters => /\ InitRuns(domain, Outermost, mem, Len(frames))
                   /\ Outermost.pc \in 1 .. Len(domain.onInit)
                   /\ {"callable", "pc", "at", "val"} \subseteq DOMAIN Outermost
    BY <1>2, <2>1 DEF InitRuns
  <2>5. \A pc1 \in 1 .. Len(domain.onInit) : pc1 # Done
    BY InitCode DEF CellsInv, domain, Done
  <2> DEFINE f == frames[2]
             g == WithOutputs(f, Statement(f), m)
  <2>6. ASSUME Len(s) = 1, matters
        PROVE  /\ f.pc # Done /\ DOMAIN g = DOMAIN f
               /\ g.callable = f.callable /\ g.pc = f.pc /\ g.at = f.at
               /\ \A k \in DOMAIN Restores(domain) : f.pc # Len(domain.onInit) + k
    <3>1. f = Outermost
      BY <2>2, <2>6
    <3>2. f.pc \in 1 .. Len(domain.onInit) /\ {"callable", "pc", "at", "val"} \subseteq DOMAIN f
      BY <2>4, <2>6, <3>1
    <3> QED
      BY <1>4, <1>6, <2>5, <3>2
  <2>7. frames' = <<After(g, mem')>> \o Tail(s)
    BY <2>3
  <2> HIDE DEF g
  <2>8. last = "init" /\ Restores(domain) # <<>> => InitRuns(domain, Outermost, mem, Len(frames))
    BY <2>4 DEF matters
  <2> QED
    BY <2>1, <2>2, <2>6, <2>7, <2>8, InitGoesOnInFrames DEF matters
<1>12. ASSUME Call PROVE InitInv'
  <2>1. Running("call")
    BY <1>12 DEF Call
  <2>2. PICK new : frames' = <<new>> \o frames
    BY <1>12, Zenon DEF Call
  <2>3. frames # <<>>
    BY <1>8, <2>1
  <2>4. /\ frames' \in Seq(S \cup {new}) /\ frames' # <<>>
        /\ Len(frames') = Len(frames) + 1 /\ frames'[Len(frames')] = Outermost
    BY <1>1, <2>2, <2>3, HeadAdded DEF Outermost
  <2>5. Outermost' = Outermost
    BY <2>4, Zenon DEF Outermost
  <2>6. domain' = domain /\ Functions' = Functions /\ domain = Programs[prog]
    BY DEF domain
  <2>7. ASSUME matters PROVE InitRuns(domain, Outermost, mem', Len(frames'))
    <3>1. InitRuns(domain, Outermost, mem, Len(frames))
      BY <1>2, <2>3, <2>7
    <3>2. Outermost.pc \in 1 .. Len(domain.onInit)
      <4>1. CASE Len(frames) = 1
        BY <1>2, <1>8, <2>1, <2>3, <2>7, <4>1
      <4>2. CASE Len(frames) # 1
        <5>1. Len(frames) > 1
          <6>1. Len(frames) \in Nat \ {0}
            BY <1>2, <2>3
          <6> QED
            BY <4>2, <6>1
        <5> QED
          BY <3>1, <5>1 DEF InitRuns
      <4> QED
        BY <4>1, <4>2
    <3> QED
      BY <2>6, <3>1, <3>2, NothingRestored DEF CellsInv
  <2> QED
    BY <2>4, <2>5, <2>6, <2>7, Zenon DEF InitInv, matters
<1> QED
  BY <1>7, <1>9, <1>10, <1>11, <1>12 DEF Execute

(* Only the call that runs, and no access between calls, counts as an init.*)
LEMMA StepKeepsInit == CellsInv /\ InitInv /\ [Step]_instance => InitInv'
<1> SUFFICES ASSUME CellsInv, InitInv, [Step]_instance PROVE InitInv'
  OBVIOUS
<1>1. PICK S : frames \in Seq(S)
  BY DEF InitInv
<1>2. prog' = prog => domain' = domain /\ Functions' = Functions
  BY DEF domain
<1>3. ASSUME NEW function \in {"init", "process"}, CallFunction(function) PROVE InitInv'
  <2> DEFINE new == [callable |-> function, path |-> <<>>, pc |-> Start(CodeOf(function)),
                     at |-> [n \in DOMAIN CodeOf(function).fields |-> Field(<<>>, n)],
                     val |-> <<>>]
  <2>1. /\ frames' = <<new>> /\ last' = function
        /\ prog' = prog /\ code' = code /\ mem' = mem
    BY <1>3 DEF CallFunction, Entry
  <2>2. {"callable", "pc", "at", "val"} \subseteq DOMAIN new
        /\ new.pc = Start(CodeOf(function)) /\ new.callable = function
        /\ new.at = [n \in DOMAIN CodeOf(function).fields |-> Field(<<>>, n)]
    OBVIOUS
  <2> HIDE DEF new
  <2>3. frames' \in Seq({new}) /\ frames' # <<>> /\ Len(frames') = 1 /\ Outermost' = new
    BY <2>1 DEF Outermost
  <2>4. ASSUME function = "init", Restores(domain) # <<>>
        PROVE  InitRuns(domain, new, mem', 1)
    <3> DEFINE d == domain
               o == Len(d.onInit)
               r == Len(Restores(d))
    <3>1. /\ Functions[prog]["init"] = DomainFunction(d, InitBody(d))
          /\ o \in Nat /\ r \in Nat /\ DOMAIN Restores(d) = 1 .. r
          /\ Len(InitBody(d)) = o + r
      BY InitCode DEF CellsInv, domain
    <3>2. CodeOf("init").fields = d.fields /\ CodeOf("init").body = InitBody(d)
      BY <3>1 DEF InitInv, CodeOf, DomainFunction
    <3>3. RestoredFields(d)
      BY LayoutsAssumption DEF CellsInv, domain
    <3>4. Restores(d) \in Seq(Range(Restores(d)))
      BY <3>3, RestoresAre
    <3> HIDE DEF d
    <3>5. r # 0
      BY <2>4, <3>4 DEF d
    <3>6. 1 \in 1 .. o + r /\ ~(1 > 1) /\ 1 # 0 /\ \A k \in 1 .. r : ~(o + k < 1)
      BY <3>1, <3>5
    <3>7. new.pc = 1
      <4>1. InitBody(d) # <<>>
        BY <3>1, <3>5 DEF d
      <4> QED
        BY <2>2, <2>4, <3>2, <4>1, Zenon DEF Start
    <3> QED
      BY <2>2, <2>4, <3>1, <3>2, <3>6, <3>7 DEF InitRuns, Done, d
  <2> QED
    BY <1>2, <2>1, <2>3, <2>4, Zenon DEF InitInv
<1>4. ASSUME RunStatement \/ RunMachine PROVE InitInv'
  BY <1>4, ExecuteKeepsInit DEF RunStatement, RunMachine
<1>5. ASSUME EndOfCall PROVE InitInv'
  <2>1. /\ Len(frames) = 1 /\ Head(frames).pc = Done /\ frames' = <<>>
        /\ prog' = prog /\ code' = code /\ mem' = mem /\ last' = last
    BY <1>5 DEF EndOfCall, Returns
  <2>2. frames # <<>> /\ Outermost = Head(frames)
    BY <1>1, <2>1 DEF Outermost
  <2>3. frames' \in Seq(S)
    BY <2>1
  <2>4. last = "init" /\ Restores(domain) # <<>> =>
          \A k \in DOMAIN Restores(domain) : Restored(domain, mem, k)
    BY <2>1, <2>2 DEF InitInv, InitRuns
  <2> QED
    BY <1>2, <2>1, <2>3, <2>4, Zenon DEF InitInv
<1>6. ASSUME NEW call, last' = call, call # "init", UNCHANGED <<prog, code, frames>>
      PROVE  InitInv'
  BY <1>1, <1>2, <1>6, Zenon DEF InitInv
<1>7. ASSUME NEW w \in HostWrites, SetStateVar(w) PROVE InitInv'
  BY <1>6, <1>7 DEF SetStateVar
<1>8. ASSUME NEW r \in HostRequests, RequestTransition(r) PROVE InitInv'
  BY <1>6, <1>8 DEF RequestTransition
<1>9. CASE UNCHANGED instance
  <2>1. UNCHANGED <<prog, code, mem, frames, last>> /\ domain' = domain /\ Functions' = Functions
    BY <1>2, <1>9 DEF instance
  <2>2. Outermost' = Outermost
    BY <2>1 DEF Outermost
  <2> QED
    BY <2>1, <2>2, Zenon DEF InitInv
<1> QED
  BY <1>3, <1>4, <1>5, <1>7, <1>8, <1>9 DEF Step, CallDomain, RunCall, Access

(* No call has run yet.                                                    *)
LEMMA AllocatedInit == Allocate => InitInv
<1> SUFFICES ASSUME Allocate PROVE InitInv
  OBVIOUS
<1>1. code = Functions[prog] /\ frames = <<>> /\ last # "init"
  BY DEF Allocate
<1>2. frames \in Seq({})
  BY <1>1
<1> QED
  BY <1>1, <1>2, Zenon DEF InitInv

(* Between calls, what is restored are the declared blocks and the         *)
(* machines' active states.                                                *)
LEMMA RestoredIsDeclared == CellsInv /\ InitInv => InitRestoresDeclared
<1> SUFFICES ASSUME CellsInv, InitInv, Idle, last = "init"
             PROVE  /\ \A n \in Range(domain.declared) :
                         mem[Field(<<>>, n)] = Literal[domain.default[n]]
                    /\ \A i \in DOMAIN domain.machines :
                         mem[Field(<<>>, domain.machines[i].active)]
                           = Literal[domain.machines[i].initial]
  BY Zenon DEF InitRestoresDeclared
<1>1. RestoredFields(domain)
  BY LayoutsAssumption DEF CellsInv, domain
<1>2. \A n, l : SetTo(n, l).var = n /\ SetTo(n, l).expr[2] = l
  BY DEF SetTo
<1>3. ASSUME NEW n, NEW l, NEW k \in DOMAIN Restores(domain), Restores(domain)[k] = SetTo(n, l)
      PROVE  mem[Field(<<>>, n)] = Literal[l]
  <2>1. Restores(domain) # <<>>
    BY <1>3
  <2>2. Restored(domain, mem, k)
    BY <2>1, Zenon DEF InitInv, Idle
  <2> QED
    BY <1>2, <1>3, <2>2 DEF Restored
<1>4. ASSUME NEW n \in Range(domain.declared)
      PROVE  mem[Field(<<>>, n)] = Literal[domain.default[n]]
  BY <1>1, <1>3, RestoresAre
<1>5. ASSUME NEW i \in DOMAIN domain.machines
      PROVE  mem[Field(<<>>, domain.machines[i].active)] = Literal[domain.machines[i].initial]
  BY <1>1, <1>3, RestoresAre
<1> QED
  BY <1>4, <1>5

-----------------------------------------------------------------------------
(***************************************************************************)
(* What a host asks of a machine                                           *)
(***************************************************************************)

(* The first of one name.                                                  *)
LEMMA FirstOfOne ==
  ASSUME NEW n \in Range(Dictionary)
  PROVE  FirstOf({n}) = n
<1> DEFINE S == {i \in DOMAIN Dictionary : Dictionary[i] \in {n}}
<1>1. DOMAIN Dictionary = 1 .. Len(Dictionary) /\ Len(Dictionary) \in Nat
  BY NamesAssumption
<1>2. S \in SUBSET Int /\ S # {} /\ (\A i \in S : 1 <= i) /\ \A i \in S : Dictionary[i] = n
  BY <1>1 DEF Range
<1>3. FirstOf({n}) = Dictionary[Min(S)]
  BY DEF FirstOf, FirstByName
<1> HIDE DEF S
<1>4. \E i \in S : \A k \in S : i <= k
  BY <1>2, Least
<1>5. Min(S) \in S
  BY <1>4 DEF Min
<1> QED
  BY <1>2, <1>3, <1>5

(* Of machines whose names can be told apart, the request that is found is *)
(* the machine's own.                                                      *)
LEMMA RequestIsFound ==
  ASSUME NEW d, SeparateFields(d), RequestFields(d), NEW machine,
         NEW i \in DOMAIN d.machines, d.machines[i].name = machine,
         \A j \in DOMAIN d.machines \ {i} : d.machines[j].request \notin Containing[machine]
  PROVE  /\ RequestField(d.layout, machine) = d.machines[i].request
         /\ d.machines[i].request # NotFound
         /\ \A j \in DOMAIN d.machines \ {i} :
              d.machines[j].name # machine /\ d.machines[j].request # d.machines[i].request
<1> DEFINE request == d.machines[i].request
<1>1. request \in Containing[machine]
  BY DEF RequestFields
<1>2. FieldNames(d.layout) \cap Requests = {d.machines[j].request : j \in DOMAIN d.machines}
  BY DEF RequestFields
<1>3. FieldNames(d.layout) \cap Requests \cap Containing[machine] = {request}
  BY <1>1, <1>2
<1>4. request \in Range(Dictionary)
  BY <1>3 DEF SeparateFields
<1>5. request # NotFound
  BY <1>4, NamesAssumption
<1>6. RequestField(d.layout, machine) = request
  BY <1>3, <1>4, FirstOfOne DEF RequestField
<1>7. \A j \in DOMAIN d.machines \ {i} :
        d.machines[j].name # machine /\ d.machines[j].request # request
  BY <1>1 DEF RequestFields
<1> QED
  BY <1>5, <1>6, <1>7

(* One requestTransition, seen from each machine.                          *)
LEMMA RequestsReach ==
  ASSUME CellsInv, NEW r \in HostRequests, RequestTransition(r), Unambiguous(r),
         NEW j \in DOMAIN domain.machines
  PROVE  LET field == Field(<<>>, domain.machines[j].request)
         IN mem'[field] = IF domain.machines[j].name = r.machine
                          THEN r.transition ELSE mem[field]
<1> DEFINE d == domain
           cell(k) == Field(<<>>, d.machines[k].request)
<1>1. SeparateFields(d) /\ RequestFields(d)
  BY LayoutsAssumption DEF domain, CellsInv
<1>2. PICK i \in DOMAIN d.machines :
        /\ d.machines[i].name = r.machine
        /\ \A k \in DOMAIN d.machines \ {i} :
             d.machines[k].request \notin Containing[r.machine]
  BY DEF Unambiguous
<1> HIDE DEF d
<1>3. /\ RequestField(d.layout, r.machine) = d.machines[i].request
      /\ d.machines[i].request # NotFound
      /\ \A k \in DOMAIN d.machines \ {i} :
           d.machines[k].name # r.machine /\ d.machines[k].request # d.machines[i].request
  BY <1>1, <1>2, RequestIsFound
<1>4. mem' = [mem EXCEPT ![cell(i)] = r.transition]
  BY <1>3, Zenon DEF RequestTransition, d
<1>5. \A k \in DOMAIN d.machines : cell(k) \in DOMAIN mem
  BY <1>1, Zenon DEF RequestFields, CellsInv, OwnCells, d
<1>6. \A k \in DOMAIN d.machines \ {i} : cell(k) # cell(i)
  BY <1>3 DEF Field
<1>7. CASE j = i
  <2>1. mem'[cell(j)] = r.transition
    BY <1>4, <1>5, <1>7 DEF d
  <2> QED
    BY <1>2, <1>7, <2>1 DEF d
<1>8. CASE j # i
  <2>1. j \in DOMAIN d.machines \ {i} /\ cell(j) # cell(i) /\ cell(j) \in DOMAIN mem
    BY <1>5, <1>6, <1>8 DEF d
  <2>2. mem'[cell(j)] = mem[cell(j)]
    <3> HIDE DEF cell
    <3> QED
      BY <1>4, <2>1
  <2> QED
    BY <1>3, <2>1, <2>2 DEF d
<1> QED
  BY <1>7, <1>8

-----------------------------------------------------------------------------
(* A host that names a field in its bounds changes that element only, and  *)
(* reads back what it wrote; a name that no field contains changes nothing *)
(* (setStateVar, getStateVar).                                             *)
THEOREM HostWritesTouchOneField == InstanceSpec => HostTouchesOneField
<1>1. ASSUME CellsInv
      PROVE  \A w \in HostWrites : SetStateVar(w) =>
               /\ NamesElement(w) =>
                    LET e == FieldOf(domain.layout, Base(w.name)).elements[Index(w.name, w.index) + 1]
                    IN /\ \A a \in DOMAIN mem \ {Field(<<>>, e)} : mem'[a] = mem[a]
                       /\ Got(domain.layout, [x \in DOMAIN domain.fields |-> mem'[Field(<<>>, x)]],
                              Base(w.name), Index(w.name, w.index)) = w.value
               /\ FieldNames(domain.layout) \cap Containing[Base(w.name)] = {} => mem' = mem
  BY <1>1, WritesTouchOneField, UnknownNamesTouchNothing, Zenon DEF CellsInv
<1> QED
  BY <1>1, CellsStay, PTL DEF InstanceSpec, HostTouchesOneField

(* A transition that a host requests arrives in the machine it names, and  *)
(* the requests of the others stay as they are, where no other machine's   *)
(* request contains the name (requestTransition).                          *)
THEOREM RequestsArrive == InstanceSpec => RequestsReachTheirMachine
<1>1. ASSUME CellsInv
      PROVE  \A r \in HostRequests : RequestTransition(r) /\ Unambiguous(r) =>
               \A i \in DOMAIN domain.machines :
                 LET field == Field(<<>>, domain.machines[i].request)
                 IN mem'[field] = IF domain.machines[i].name = r.machine
                                  THEN r.transition ELSE mem[field]
  BY <1>1, RequestsReach, Zenon
<1> QED
  BY <1>1, CellsStay, PTL DEF InstanceSpec, RequestsReachTheirMachine

(* Whatever ticks, calls and host accesses went before, an init leaves     *)
(* each declared block at its default and each machine in its initial      *)
(* state, even one that an onInit stream has written                       *)
(* (StrideGenerator::compile, stridegenerator.cpp:358).                    *)
THEOREM InitRestores == InstanceSpec => []InitRestoresDeclared
  BY AllocatedCells, AllocatedInit, StepKeepsCells, StepKeepsInit, RestoredIsDeclared, PTL
     DEF InstanceSpec

-----------------------------------------------------------------------------
(***************************************************************************)
(* Instances stay apart                                                    *)
(*                                                                         *)
(* A call reaches its arguments, its callers' cells and its instance       *)
(* through pointers. The invariant PointerInv says where they may point;   *)
(* every step of the code keeps it, and from it follows that a step        *)
(* changes a field only where the field is that of a call under way, or    *)
(* lent to it.                                                             *)
(***************************************************************************)

\* u is s and t joined.
Joins(u, s, t) == u = s \o t

(* What sequences joined hold, and where.                                  *)
LEMMA JoinedHold ==
  ASSUME NEW E, NEW s \in Seq(E), NEW t \in Seq(E), NEW u, Joins(u, s, t)
  PROVE  /\ u \in Seq(E) /\ Len(u) = Len(s) + Len(t)
         /\ DOMAIN u = 1 .. Len(s) + Len(t)
         /\ Len(s) \in Nat /\ DOMAIN s = 1 .. Len(s) /\ Len(t) \in Nat /\ DOMAIN t = 1 .. Len(t)
         /\ \A i \in DOMAIN s : i \in DOMAIN u /\ u[i] = s[i]
         /\ \A i \in DOMAIN t : Len(s) + i \in DOMAIN u /\ u[Len(s) + i] = t[i]
         /\ \A i \in DOMAIN u : i \in DOMAIN s \/ \E k \in DOMAIN t : i = Len(s) + k
         /\ Range(u) = Range(s) \cup Range(t)
<1> DEFINE m == Len(s)
           l == Len(t)
<1>1. m \in Nat /\ l \in Nat /\ DOMAIN s = 1 .. m /\ DOMAIN t = 1 .. l
  OBVIOUS
<1>2. /\ u \in Seq(E) /\ Len(u) = m + l
      /\ \A i \in 1 .. m + l : u[i] = IF i <= m THEN s[i] ELSE t[i - m]
  BY ConcatProperties DEF Joins
<1> HIDE DEF m, l
<1>3. DOMAIN u = 1 .. m + l
  BY <1>2
<1>4. ASSUME NEW k \in 1 .. l PROVE m + k \in 1 .. m + l /\ u[m + k] = t[k]
  <2>1. m + k \in 1 .. m + l /\ ~(m + k <= m) /\ (m + k) - m = k
    BY <1>1
  <2> QED
    BY <1>2, <2>1
<1>5. ASSUME NEW k \in 1 .. m PROVE k \in 1 .. m + l /\ u[k] = s[k]
  <2>1. k \in 1 .. m + l /\ k <= m
    BY <1>1
  <2> QED
    BY <1>2, <2>1
<1>6. ASSUME NEW i \in DOMAIN u PROVE i \in DOMAIN s \/ \E k \in DOMAIN t : i = m + k
  <2>1. i \in 1 .. m \/ (i - m \in 1 .. l /\ i = m + (i - m))
    BY <1>1, <1>3
  <2> QED
    BY <1>1, <2>1
<1>7. Range(u) = Range(s) \cup Range(t)
  <2>1. \A i \in DOMAIN u : (\E k \in DOMAIN s : u[i] = s[k]) \/ (\E k \in DOMAIN t : u[i] = t[k])
    BY <1>1, <1>3, <1>4, <1>5, <1>6
  <2>2. Range(u) \subseteq Range(s) \cup Range(t)
    BY <2>1 DEF Range
  <2>3. Range(s) \subseteq Range(u) /\ Range(t) \subseteq Range(u)
    BY <1>1, <1>3, <1>4, <1>5 DEF Range
  <2> QED
    BY <2>2, <2>3
<1> QED
  BY <1>1, <1>2, <1>3, <1>4, <1>5, <1>6, <1>7 DEF m, l

(* The same of the three lists of a function or call.                      *)
LEMMA ThreeJoined ==
  ASSUME NEW E, NEW a \in Seq(E), NEW b \in Seq(E), NEW c \in Seq(E), NEW t, Joins(t, a \o b, c)
  PROVE  /\ t \in Seq(E) /\ Len(t) = Len(a) + Len(b) + Len(c)
         /\ \A i \in DOMAIN a : i \in DOMAIN t /\ t[i] = a[i]
         /\ \A i \in DOMAIN b : Len(a) + i \in DOMAIN t /\ t[Len(a) + i] = b[i]
         /\ \A i \in DOMAIN c : Len(a) + Len(b) + i \in DOMAIN t /\ t[Len(a) + Len(b) + i] = c[i]
         /\ Range(t) = Range(a) \cup Range(b) \cup Range(c)
<1> DEFINE ab == a \o b
<1>1. Joins(ab, a, b) /\ Joins(t, ab, c)
  BY DEF Joins
<1> HIDE DEF ab
<1>2. /\ ab \in Seq(E) /\ Len(ab) = Len(a) + Len(b)
      /\ \A i \in DOMAIN a : i \in DOMAIN ab /\ ab[i] = a[i]
      /\ \A i \in DOMAIN b : Len(a) + i \in DOMAIN ab /\ ab[Len(a) + i] = b[i]
      /\ Range(ab) = Range(a) \cup Range(b)
  BY <1>1, JoinedHold
<1>3. /\ t \in Seq(E) /\ Len(t) = Len(ab) + Len(c)
      /\ \A i \in DOMAIN ab : i \in DOMAIN t /\ t[i] = ab[i]
      /\ \A i \in DOMAIN c : Len(ab) + i \in DOMAIN t /\ t[Len(ab) + i] = c[i]
      /\ Range(t) = Range(ab) \cup Range(c)
  <2>1. ab \in Seq(E)
    BY <1>2
  <2> QED
    BY <1>1, <2>1, JoinedHold
<1> QED
  BY <1>2, <1>3

(* The caller's name behind a parameter is in the list that the parameter  *)
(* is in, and no two outputs or externals have one name behind them.       *)
LEMMA ActualsAre ==
  ASSUME NEW s, NEW F, NEW k, Lists(Callee(s)), Callee(s) = F[s.callee],
         \A i, j \in DOMAIN Parameters(Callee(s)) :
           Parameters(Callee(s))[i] = Parameters(Callee(s))[j] => i = j,
         CallsFit(F, k, s)
  PROVE  /\ Range(Parameters(Callee(s)))
              = Range(Callee(s).outs) \cup Range(Callee(s).ins) \cup Range(Callee(s).ext)
         /\ \A n \in Range(Callee(s).outs) : Actual(s, n) \in Range(s.outs)
         /\ \A n \in Range(Callee(s).ins)  : Actual(s, n) \in Range(s.ins)
         /\ \A n \in Range(Callee(s).ext)  : Actual(s, n) \in Range(s.ext)
         /\ \A x \in Range(s.outs) : \E n \in Range(Callee(s).outs) : Actual(s, n) = x
         /\ \A x \in Range(s.ext)  : \E n \in Range(Callee(s).ext)  : Actual(s, n) = x
         /\ \A n, x \in Range(Callee(s).outs) \cup Range(Callee(s).ext) :
              Actual(s, n) = Actual(s, x) => n = x
<1> DEFINE a == Callee(s).outs
           b == Callee(s).ins
           c == Callee(s).ext
           p == s.outs
           q == s.ins
           r == s.ext
           E == Range(a) \cup Range(b) \cup Range(c)
           G == Range(p) \cup Range(q) \cup Range(r)
           P == a \o b \o c
           A == p \o q \o r
<1>1. /\ a \in Seq(Range(a)) /\ b \in Seq(Range(b)) /\ c \in Seq(Range(c))
      /\ p \in Seq(Range(p)) /\ q \in Seq(Range(q)) /\ r \in Seq(Range(r))
      /\ Len(a) = Len(p) /\ Len(b) = Len(q) /\ Len(c) = Len(r)
      /\ \A x, y \in DOMAIN (p \o r) : (p \o r)[x] = (p \o r)[y] => x = y
  BY DEF Lists, CallsFit
<1>2. \A x, y \in DOMAIN P : P[x] = P[y] => x = y
  BY Zenon DEF Parameters
<1>3. \A n : Actual(s, n) = A[CHOOSE x \in 1 .. Len(P) : P[x] = n]
  BY DEF Actual, Parameters
<1>4. Range(Parameters(Callee(s))) = Range(P)
  BY DEF Parameters
<1> HIDE DEF a, b, c, p, q, r
<1>5. /\ a \in Seq(E) /\ b \in Seq(E) /\ c \in Seq(E)
      /\ p \in Seq(G) /\ q \in Seq(G) /\ r \in Seq(G)
  BY <1>1
<1> HIDE DEF E, G
<1>6. /\ Range(P) = Range(a) \cup Range(b) \cup Range(c)
      /\ \A x \in DOMAIN a : (\E w \in 1 .. Len(P) : P[w] = a[x]) /\ (\A y \in 1 .. Len(P) : P[y] = a[x] => A[y] = p[x])
      /\ \A x \in DOMAIN b : (\E w \in 1 .. Len(P) : P[w] = b[x]) /\ (\A y \in 1 .. Len(P) : P[y] = b[x] => A[y] = q[x])
      /\ \A x \in DOMAIN c : (\E w \in 1 .. Len(P) : P[w] = c[x]) /\ (\A y \in 1 .. Len(P) : P[y] = c[x] => A[y] = r[x])
      /\ DOMAIN a = DOMAIN p /\ DOMAIN b = DOMAIN q /\ DOMAIN c = DOMAIN r
  <2>1. /\ P \in Seq(E) /\ Len(P) = Len(a) + Len(b) + Len(c)
        /\ \A x \in DOMAIN a : x \in DOMAIN P /\ P[x] = a[x]
        /\ \A x \in DOMAIN b : Len(a) + x \in DOMAIN P /\ P[Len(a) + x] = b[x]
        /\ \A x \in DOMAIN c : Len(a) + Len(b) + x \in DOMAIN P /\ P[Len(a) + Len(b) + x] = c[x]
        /\ Range(P) = Range(a) \cup Range(b) \cup Range(c)
    <3> HIDE DEF A
    <3>1. Joins(P, a \o b, c)
      BY DEF Joins
    <3> HIDE DEF P
    <3> QED
      BY <1>5, <3>1, ThreeJoined
  <2>2. /\ \A x \in DOMAIN p : A[x] = p[x]
        /\ \A x \in DOMAIN q : A[Len(p) + x] = q[x]
        /\ \A x \in DOMAIN r : A[Len(p) + Len(q) + x] = r[x]
    <3> HIDE DEF P
    <3>1. Joins(A, p \o q, r)
      BY DEF Joins
    <3> HIDE DEF A
    <3> QED
      BY <1>5, <3>1, ThreeJoined
  <2>3. DOMAIN a = DOMAIN p /\ DOMAIN b = DOMAIN q /\ DOMAIN c = DOMAIN r
    BY <1>1, <1>5
  <2> HIDE DEF P, A
  <2>4. DOMAIN P = 1 .. Len(P)
    BY <2>1
  <2>5. \A x, y \in 1 .. Len(P) : P[x] = P[y] => x = y
    BY <1>2, <2>4
  <2> DEFINE l == Len(P)
             m == Len(a)
             n == Len(b)
  <2>6. /\ \A x \in DOMAIN a : x \in 1 .. l /\ P[x] = a[x]
        /\ \A x \in DOMAIN b : m + x \in 1 .. l /\ P[m + x] = b[x]
        /\ \A x \in DOMAIN c : m + n + x \in 1 .. l /\ P[m + n + x] = c[x]
    BY <2>1, <2>4
  <2>7. /\ \A x \in DOMAIN a : A[x] = p[x]
        /\ \A x \in DOMAIN b : A[m + x] = q[x]
        /\ \A x \in DOMAIN c : A[m + n + x] = r[x]
    BY <1>1, <2>2, <2>3
  <2> HIDE DEF l, m, n
  <2>8. \A x \in DOMAIN a : (\E w \in 1 .. l : P[w] = a[x]) /\ (\A y \in 1 .. l : P[y] = a[x] => A[y] = p[x])
    BY <2>5, <2>6, <2>7 DEF l
  <2>9. \A x \in DOMAIN b : (\E w \in 1 .. l : P[w] = b[x]) /\ (\A y \in 1 .. l : P[y] = b[x] => A[y] = q[x])
    BY <2>5, <2>6, <2>7 DEF l
  <2>10. \A x \in DOMAIN c : (\E w \in 1 .. l : P[w] = c[x]) /\ (\A y \in 1 .. l : P[y] = c[x] => A[y] = r[x])
    BY <2>5, <2>6, <2>7 DEF l
  <2> QED
    BY <2>1, <2>3, <2>8, <2>9, <2>10 DEF l
<1> HIDE DEF P, A
<1>7. /\ \A x, y \in DOMAIN p : p[x] = p[y] => x = y
      /\ \A x, y \in DOMAIN r : r[x] = r[y] => x = y
      /\ \A x \in DOMAIN p, y \in DOMAIN r : p[x] # r[y]
  <2> DEFINE t == p \o r
             o == Len(p)
  <2>1. /\ \A x \in DOMAIN p : x \in DOMAIN t /\ t[x] = p[x]
        /\ \A x \in DOMAIN r : o + x \in DOMAIN t /\ t[o + x] = r[x]
    <3> HIDE DEF t
    <3>1. Joins(t, p, r)
      BY DEF t, Joins
    <3> QED
      BY <1>5, <3>1, JoinedHold
  <2>2. DOMAIN p = 1 .. o /\ o \in Nat /\ DOMAIN r \subseteq Nat \ {0}
    BY <1>5
  <2>3. \A x, y \in DOMAIN t : t[x] = t[y] => x = y
    BY <1>1
  <2> HIDE DEF t, o
  <2>4. \A x, y \in DOMAIN r : o + x = o + y => x = y
    BY <2>2
  <2>5. \A x \in DOMAIN p, y \in DOMAIN r : x # o + y
    BY <2>2
  <2> QED
    BY <2>1, <2>3, <2>4, <2>5
<1>8. /\ \A x \in DOMAIN a : Actual(s, a[x]) = p[x]
      /\ \A x \in DOMAIN b : Actual(s, b[x]) = q[x]
      /\ \A x \in DOMAIN c : Actual(s, c[x]) = r[x]
  <2>1. \A n, z : (\E w \in 1 .. Len(P) : P[w] = n) /\ (\A y \in 1 .. Len(P) : P[y] = n => A[y] = z)
                => A[CHOOSE w \in 1 .. Len(P) : P[w] = n] = z
    OBVIOUS
  <2>2. \A n, z : (\E w \in 1 .. Len(P) : P[w] = n) /\ (\A y \in 1 .. Len(P) : P[y] = n => A[y] = z)
                => Actual(s, n) = z
    BY <1>3, <2>1, Zenon
  <2>3. ASSUME NEW x \in DOMAIN a PROVE Actual(s, a[x]) = p[x]
    <3>1. (\E w \in 1 .. Len(P) : P[w] = a[x]) /\ (\A y \in 1 .. Len(P) : P[y] = a[x] => A[y] = p[x])
      BY <1>6, Zenon
    <3> QED
      BY <2>2, <3>1, Zenon
  <2>4. ASSUME NEW x \in DOMAIN b PROVE Actual(s, b[x]) = q[x]
    <3>1. (\E w \in 1 .. Len(P) : P[w] = b[x]) /\ (\A y \in 1 .. Len(P) : P[y] = b[x] => A[y] = q[x])
      BY <1>6, Zenon
    <3> QED
      BY <2>2, <3>1, Zenon
  <2>5. ASSUME NEW x \in DOMAIN c PROVE Actual(s, c[x]) = r[x]
    <3>1. (\E w \in 1 .. Len(P) : P[w] = c[x]) /\ (\A y \in 1 .. Len(P) : P[y] = c[x] => A[y] = r[x])
      BY <1>6, Zenon
    <3> QED
      BY <2>2, <3>1, Zenon
  <2> QED
    BY <2>3, <2>4, <2>5
<1> DEFINE At(n) == Actual(s, n)
<1>9. /\ \A n \in Range(a) : At(n) \in Range(p)
      /\ \A n \in Range(b) : At(n) \in Range(q)
      /\ \A n \in Range(c) : At(n) \in Range(r)
      /\ \A x \in Range(p) : \E n \in Range(a) : At(n) = x
      /\ \A x \in Range(r) : \E n \in Range(c) : At(n) = x
  <2> HIDE DEF At
  <2> QED
    BY <1>6, <1>8 DEF Range, At
<1>10. \A n, x \in Range(a) \cup Range(c) : At(n) = At(x) => n = x
  <2> SUFFICES ASSUME NEW n \in Range(a) \cup Range(c), NEW x \in Range(a) \cup Range(c),
                      At(n) = At(x)
               PROVE  n = x
    OBVIOUS
  <2>1. \A z \in Range(a) \cup Range(c) :
          (\E i \in DOMAIN a : z = a[i]) \/ (\E i \in DOMAIN c : z = c[i])
    BY DEF Range
  <2> QED
    BY <1>6, <1>7, <1>8, <2>1
<1> QED
  BY <1>4, <1>6, <1>9, <1>10, Zenon DEF a, b, c, p, q, r

(* The names that a call may write: not those of its inputs, which the     *)
(* caller lends to be read.                                                *)
Writable(f) == DOMAIN f.at \ Range(Code(f).ins)

-----------------------------------------------------------------------------
(* The calls under way and their cells                                     *)

(* A frame's cells are those of its function's names, its fields those of  *)
(* its instance; its values are of other names.                            *)
Shaped(f) ==
  /\ DOMAIN f = {"callable", "path", "pc", "at", "val"}
  /\ f.callable \in DOMAIN code /\ f.path \in Seq(Range(f.path))
  /\ f.pc \in 1 .. Len(Code(f).body) \cup {Done}
  /\ DOMAIN f.at = CellNames(Code(f))
  /\ \A n \in DOMAIN Code(f).fields : f.at[n] = Field(f.path, n)
  /\ DOMAIN f.val \cap (DOMAIN f.at \cup DOMAIN Literal) = {}

\* Each cell of a frame exists, and belongs to no call deeper than its own.
Reaches(f, M) ==
  \A n \in DOMAIN f.at : f.at[n] \in M /\ Len(f.at[n].path) <= Len(f.path)

\* A cell that a call writes has one name in it.
Distinct(f) ==
  \A n \in Writable(f), k \in DOMAIN f.at : f.at[n] = f.at[k] => n = k

(* What f, called later, writes is no cell of h, which waits, save one     *)
(* that h awaits from its call.                                            *)
Apart(f, h) ==
  \A n \in Writable(f), k \in DOMAIN h.at : f.at[n] = h.at[k] => k \in Targets(Statement(h))

\* A call that waits stands at its call statement.
Waits(h) == h.pc # Done /\ Statement(h).op = "call"

\* g is the call that h waits for: its arguments are the cells that h passes.
Called(g, h) ==
  LET s == Statement(h)
  IN /\ g.callable = s.callee /\ g.path = CallPath(h, s)
     /\ \A n \in Range(Parameters(Code(g))) : g.at[n] = ArgumentCell(h, s, n)

(* A call runs on the struct of its instance, and the outermost one on     *)
(* that of the domain.                                                     *)
HasStruct(d, f) ==
  \/ f.path = <<>> /\ f.callable \in {"init", "process"}
  \/ <<f.path, f.callable>> \in Instances(d)

\* The cell of name n is a field of the call.
Own(f, n) == n \in DOMAIN Code(f).fields /\ f.at[n] = Field(f.path, n)

\* A field of f that f passes to be written.
Lends(f, a) == \E k \in Targets(Statement(f)) \cap DOMAIN Code(f).fields : a = Field(f.path, k)

(* What a call writes is on the stack, or a field of its own, or one lent  *)
(* by a call that waits.                                                   *)
Owned(fs, i) ==
  \A n \in Writable(fs[i]) :
    \/ fs[i].at[n].area = "stack"
    \/ Own(fs[i], n)
    \/ \E j \in i + 1 .. Len(fs) : Lends(fs[j], fs[i].at[n])

\* The i-th call from within: how deep it is, and its cells.
FrameOK(d, fs, i, M) ==
  /\ Shaped(fs[i]) /\ Len(fs[i].path) = Len(fs) - i
  /\ Reaches(fs[i], M) /\ Distinct(fs[i]) /\ HasStruct(d, fs[i]) /\ Owned(fs, i)

\* The calls under way: each waits for the one before it.
StackOK(d, fs, M) ==
  /\ fs \in Seq(Range(fs))
  /\ \A i \in DOMAIN fs : FrameOK(d, fs, i, M)
  /\ \A i, j \in DOMAIN fs : i < j => Waits(fs[j]) /\ Apart(fs[i], fs[j])
  /\ \A i \in DOMAIN fs : i + 1 \in DOMAIN fs => Called(fs[i], fs[i + 1])

\* The fields of the domain and of every instance in it.
Struct(d) == OwnCells(d) \cup InstanceCells(d)

(* The cells that exist are fields, or temporaries and locals of the calls *)
(* that calls under way have made.                                         *)
MemOK(fs, M) ==
  \A a \in M :
    \/ a.area = "state"
    \/ a.area = "stack" /\ \E i \in 1 .. Len(fs) - 1 : a.path = fs[i].path

(* The inductive invariant: every cell a call can reach exists, what it    *)
(* writes is its own or lent to it, and nothing it writes has another name *)
(* in a call that waits.                                                   *)
PointerInv ==
  /\ prog \in DOMAIN Programs /\ code = Functions[prog]
  /\ Struct(domain) \subseteq DOMAIN mem
  /\ MemOK(frames, DOMAIN mem) /\ StackOK(domain, frames, DOMAIN mem)

-----------------------------------------------------------------------------
(* Stacks that have gone on, called or returned                            *)

\* A stack whose innermost call has gone on, as g.
Replaced(t, fs, g) ==
  /\ t \in Seq(Range(t)) /\ Len(t) = Len(fs) /\ t[1] = g
  /\ \A i \in 2 .. Len(fs) : t[i] = fs[i]

\* A stack on which g has been called.
Pushed(t, fs, g) ==
  /\ t \in Seq(Range(t)) /\ Len(t) = Len(fs) + 1 /\ t[1] = g
  /\ \A i \in 1 .. Len(fs) : t[i + 1] = fs[i]

\* A stack whose innermost call has returned.
Popped(t, fs) ==
  /\ t \in Seq(Range(t)) /\ Len(t) = Len(fs) - 1
  /\ \A i \in 1 .. Len(fs) - 1 : t[i] = fs[i + 1]

(* Going on, calling and returning, as the steps write them.               *)
LEMMA StackReplaced ==
  ASSUME NEW S, NEW fs \in Seq(S), fs # <<>>, NEW g, NEW t, Joins(t, <<g>>, Tail(fs))
  PROVE  Replaced(t, fs, g)
<1> DEFINE E == S \cup {g}
           n == Len(fs)
           u == Tail(fs)
<1>1. n \in Nat \ {0} /\ u \in Seq(S) /\ Len(u) = n - 1 /\ \A i \in 1 .. n - 1 : u[i] = fs[i + 1]
  OBVIOUS
<1> HIDE DEF u
<1>2. u \in Seq(E)
  BY <1>1
<1>3. <<g>> \in Seq(E) /\ Len(<<g>>) = 1 /\ <<g>>[1] = g
  OBVIOUS
<1> DEFINE h == <<g>>
<1>4. h \in Seq(E) /\ Len(h) = 1 /\ h[1] = g /\ Joins(t, h, u)
  BY <1>3 DEF u
<1> HIDE DEF h, E
<1>5. /\ t \in Seq(E) /\ Len(t) = 1 + (n - 1)
      /\ \A i \in DOMAIN h : t[i] = h[i]
      /\ \A i \in DOMAIN u : t[1 + i] = u[i]
  <2>1. h \in Seq(E) /\ u \in Seq(E) /\ Joins(t, h, u)
    BY <1>2, <1>4
  <2>2. /\ t \in Seq(E) /\ Len(t) = Len(h) + Len(u)
        /\ \A i \in DOMAIN h : t[i] = h[i]
        /\ \A i \in DOMAIN u : t[Len(h) + i] = u[i]
    BY <2>1, JoinedHold
  <2> QED
    BY <1>1, <1>4, <2>2
<1>6. 1 \in DOMAIN h /\ DOMAIN u = 1 .. n - 1
  BY <1>1, <1>2, <1>4
<1> HIDE DEF n
<1>7. Len(t) = n /\ t[1] = g
  BY <1>1, <1>4, <1>5, <1>6
<1>8. ASSUME NEW i \in 2 .. n PROVE t[i] = fs[i]
  <2>1. i - 1 \in 1 .. n - 1 /\ 1 + (i - 1) = i /\ (i - 1) + 1 = i
    BY <1>1
  <2> QED
    BY <1>1, <1>5, <1>6, <2>1, Zenon
<1>9. t \in Seq(Range(t))
  BY <1>5 DEF Range
<1> QED
  BY <1>7, <1>8, <1>9 DEF Replaced, n

(* The same of a call.                                                     *)
LEMMA StackPushed ==
  ASSUME NEW S, NEW fs \in Seq(S), NEW g, NEW t, Joins(t, <<g>>, fs)
  PROVE  Pushed(t, fs, g)
<1> DEFINE E == S \cup {g}
           n == Len(fs)
<1>1. n \in Nat /\ fs \in Seq(E) /\ DOMAIN fs = 1 .. n
  OBVIOUS
<1>2. <<g>> \in Seq(E) /\ Len(<<g>>) = 1 /\ <<g>>[1] = g
  OBVIOUS
<1> DEFINE h == <<g>>
<1>3. h \in Seq(E) /\ Len(h) = 1 /\ h[1] = g /\ Joins(t, h, fs)
  BY <1>2
<1> HIDE DEF h, E
<1>4. /\ t \in Seq(E) /\ Len(t) = 1 + n
      /\ \A i \in DOMAIN h : t[i] = h[i]
      /\ \A i \in DOMAIN fs : t[1 + i] = fs[i]
  <2>1. h \in Seq(E) /\ fs \in Seq(E) /\ Joins(t, h, fs)
    BY <1>1, <1>3
  <2>2. /\ t \in Seq(E) /\ Len(t) = Len(h) + Len(fs)
        /\ \A i \in DOMAIN h : t[i] = h[i]
        /\ \A i \in DOMAIN fs : t[Len(h) + i] = fs[i]
    BY <2>1, JoinedHold
  <2> QED
    BY <1>1, <1>3, <2>2
<1>5. 1 \in DOMAIN h
  BY <1>3
<1> HIDE DEF n
<1>6. Len(t) = n + 1 /\ t[1] = g
  BY <1>1, <1>3, <1>4, <1>5
<1>7. ASSUME NEW i \in 1 .. n PROVE t[i + 1] = fs[i]
  <2>1. i + 1 = 1 + i
    BY <1>1
  <2> QED
    BY <1>1, <1>4, <2>1
<1>8. t \in Seq(Range(t))
  BY <1>4 DEF Range
<1> QED
  BY <1>6, <1>7, <1>8 DEF Pushed, n

(* The same of a return.                                                   *)
LEMMA StackPopped ==
  ASSUME NEW S, NEW fs \in Seq(S), fs # <<>>
  PROVE  Popped(Tail(fs), fs) /\ Tail(fs) \in Seq(S)
<1> DEFINE u == Tail(fs)
<1>1. u \in Seq(S) /\ Len(u) = Len(fs) - 1 /\ \A i \in 1 .. Len(fs) - 1 : u[i] = fs[i + 1]
  OBVIOUS
<1> HIDE DEF u
<1>2. u \in Seq(Range(u))
  BY <1>1 DEF Range
<1> QED
  BY <1>1, <1>2 DEF Popped, u

\* A frame that has gone on keeps its function, its instance and its cells.
SameCells(g, f) == g.callable = f.callable /\ g.path = f.path /\ g.at = f.at

(* A call that goes on leaves the stack in order.                          *)
LEMMA ReplacedOK ==
  ASSUME NEW d, NEW fs, NEW M, StackOK(d, fs, M), fs # <<>>,
         NEW t, NEW g, Replaced(t, fs, g), SameCells(g, fs[1]), Shaped(g)
  PROVE  StackOK(d, t, M)
<1> DEFINE n == Len(fs)
<1>1. /\ n \in Nat \ {0} /\ DOMAIN fs = 1 .. n /\ DOMAIN t = 1 .. n /\ Len(t) = n
      /\ t \in Seq(Range(t)) /\ t[1] = g /\ \A i \in 2 .. n : t[i] = fs[i]
  BY DEF Replaced, StackOK
<1>2. /\ \A i \in 1 .. n : FrameOK(d, fs, i, M)
      /\ \A i, j \in 1 .. n : i < j => Waits(fs[j]) /\ Apart(fs[i], fs[j])
      /\ \A i \in 1 .. n : i + 1 \in 1 .. n => Called(fs[i], fs[i + 1])
  BY <1>1 DEF StackOK
<1>3. g.callable = fs[1].callable /\ g.path = fs[1].path /\ g.at = fs[1].at
  BY DEF SameCells
<1>4. \A i \in 1 .. n : /\ t[i].callable = fs[i].callable /\ t[i].path = fs[i].path
                        /\ t[i].at = fs[i].at /\ Shaped(t[i])
  <2> SUFFICES ASSUME NEW i \in 1 .. n
               PROVE  /\ t[i].callable = fs[i].callable /\ t[i].path = fs[i].path
                      /\ t[i].at = fs[i].at /\ Shaped(t[i])
    OBVIOUS
  <2>1. CASE i = 1
    BY <1>1, <1>3, <2>1
  <2>2. CASE i # 1
    <3>1. t[i] = fs[i]
      BY <1>1, <2>2
    <3> QED
      BY <1>2, <3>1 DEF FrameOK
  <2> QED
    BY <2>1, <2>2
<1> HIDE DEF n
<1>5. ASSUME NEW i \in 1 .. n PROVE FrameOK(d, t, i, M)
  <2>1. FrameOK(d, fs, i, M) /\ n \in Nat
    BY <1>1, <1>2
  <2>2. Code(t[i]) = Code(fs[i]) /\ Writable(t[i]) = Writable(fs[i])
    BY <1>4 DEF Code, Writable
  <2>3. Reaches(t[i], M) /\ Distinct(t[i]) /\ HasStruct(d, t[i])
    BY <1>4, <2>1, <2>2, Zenon DEF FrameOK, Reaches, Distinct, HasStruct
  <2>4. \A j \in i + 1 .. n : t[j] = fs[j]
    BY <1>1
  <2>5. Owned(t, i)
    <3>1. Owned(fs, i) /\ Len(fs) = n /\ Len(t) = n
      BY <1>1, <2>1, Zenon DEF FrameOK, n
    <3>2. \A x : Own(t[i], x) = Own(fs[i], x)
      BY <1>4, <2>2, Zenon DEF Own
    <3>3. t[i].at = fs[i].at
      BY <1>4, Zenon
    <3> QED
      BY <2>2, <2>4, <3>1, <3>2, <3>3 DEF Owned
  <2>6. Len(t[i].path) = Len(t) - i
    BY <1>1, <1>4, <2>1, Zenon DEF FrameOK, n
  <2> QED
    BY <1>4, <2>3, <2>5, <2>6 DEF FrameOK
<1>6. ASSUME NEW i \in 1 .. n, NEW j \in 1 .. n, i < j PROVE Waits(t[j]) /\ Apart(t[i], t[j])
  <2>1. t[j] = fs[j] /\ Waits(fs[j]) /\ Apart(fs[i], fs[j])
    BY <1>1, <1>2, <1>6
  <2>2. Writable(t[i]) = Writable(fs[i])
    BY <1>4 DEF Code, Writable
  <2> QED
    BY <1>4, <2>1, <2>2 DEF Apart
<1>7. ASSUME NEW i \in 1 .. n, i + 1 \in 1 .. n PROVE Called(t[i], t[i + 1])
  <2>1. t[i + 1] = fs[i + 1] /\ Called(fs[i], fs[i + 1])
    BY <1>1, <1>2, <1>7
  <2> QED
    BY <1>4, <2>1 DEF Called, Code
<1> QED
  BY <1>1, <1>5, <1>6, <1>7 DEF StackOK

(* So does a call.                                                         *)
LEMMA PushedOK ==
  ASSUME NEW d, NEW fs, NEW M, StackOK(d, fs, M), fs # <<>>,
         NEW t, NEW g, Pushed(t, fs, g),
         Shaped(g), Len(g.path) = Len(fs), Reaches(g, M), Distinct(g), HasStruct(d, g),
         Owned(t, 1), Waits(fs[1]), Called(g, fs[1]),
         \A j \in DOMAIN fs : Apart(g, fs[j])
  PROVE  StackOK(d, t, M)
<1> DEFINE n == Len(fs)
<1>1. /\ n \in Nat \ {0} /\ DOMAIN fs = 1 .. n /\ DOMAIN t = 1 .. n + 1 /\ Len(t) = n + 1
      /\ t \in Seq(Range(t)) /\ t[1] = g /\ \A i \in 1 .. n : t[i + 1] = fs[i]
  BY DEF Pushed, StackOK
<1>2. /\ \A i \in 1 .. n : FrameOK(d, fs, i, M)
      /\ \A i, j \in 1 .. n : i < j => Waits(fs[j]) /\ Apart(fs[i], fs[j])
      /\ \A i \in 1 .. n : i + 1 \in 1 .. n => Called(fs[i], fs[i + 1])
  BY <1>1 DEF StackOK
<1> HIDE DEF n
<1>3. \A i \in 1 .. n + 1 : i = 1 \/ (i - 1 \in 1 .. n /\ t[i] = fs[i - 1])
  <2> SUFFICES ASSUME NEW i \in 1 .. n + 1, i # 1 PROVE i - 1 \in 1 .. n /\ t[i] = fs[i - 1]
    OBVIOUS
  <2>1. i - 1 \in 1 .. n /\ (i - 1) + 1 = i
    BY <1>1
  <2> QED
    BY <1>1, <2>1
<1>4. ASSUME NEW i \in 1 .. n + 1 PROVE FrameOK(d, t, i, M)
  <2>1. CASE i = 1
    <3>1. Len(g.path) = (n + 1) - 1
      BY <1>1 DEF n
    <3> QED
      BY <1>1, <2>1, <3>1 DEF FrameOK
  <2>2. CASE i # 1
    <3> DEFINE k == i - 1
    <3>1. k \in 1 .. n /\ t[i] = fs[k] /\ FrameOK(d, fs, k, M) /\ i = k + 1
      BY <1>1, <1>2, <1>3, <2>2
    <3>2. Len(fs[k].path) = (n + 1) - i
      BY <1>1, <3>1 DEF FrameOK, n
    <3>3. \A j \in k + 1 .. n : t[j + 1] = fs[j] /\ j + 1 \in i + 1 .. n + 1
      BY <1>1, <3>1
    <3> HIDE DEF k
    <3>4. Owned(t, i)
      <4>1. Owned(fs, k) /\ Len(fs) = n /\ Len(t) = n + 1
        BY <1>1, <3>1, Zenon DEF FrameOK, n
      <4>2. \A x : (\E j \in k + 1 .. n : Lends(fs[j], x)) => \E j \in i + 1 .. n + 1 : Lends(t[j], x)
        <5> SUFFICES ASSUME NEW x, NEW j \in k + 1 .. n, Lends(fs[j], x)
                     PROVE  \E l \in i + 1 .. n + 1 : Lends(t[l], x)
          OBVIOUS
        <5> QED
          BY <3>3
      <4> QED
        BY <3>1, <4>1, <4>2, Zenon DEF Owned
    <3> QED
      BY <1>1, <3>1, <3>2, <3>4 DEF FrameOK
  <2> QED
    BY <2>1, <2>2
<1>5. ASSUME NEW i \in 1 .. n + 1, NEW j \in 1 .. n + 1, i < j PROVE Waits(t[j]) /\ Apart(t[i], t[j])
  <2>1. j - 1 \in 1 .. n /\ t[j] = fs[j - 1]
    BY <1>1, <1>3, <1>5
  <2>2. CASE i = 1
    <3>1. Apart(g, fs[j - 1])
      BY <1>1, <2>1
    <3>2. Waits(fs[j - 1])
      <4>1. j - 1 = 1 \/ 1 < j - 1
        BY <1>1, <2>1
      <4> QED
        BY <1>1, <1>2, <2>1, <4>1
    <3> QED
      BY <1>1, <2>1, <2>2, <3>1, <3>2
  <2>3. CASE i # 1
    <3>1. i - 1 \in 1 .. n /\ t[i] = fs[i - 1] /\ i - 1 < j - 1
      BY <1>1, <1>3, <1>5, <2>3
    <3> QED
      BY <1>2, <2>1, <3>1
  <2> QED
    BY <2>2, <2>3
<1>6. ASSUME NEW i \in 1 .. n + 1, i + 1 \in 1 .. n + 1 PROVE Called(t[i], t[i + 1])
  <2>1. i \in 1 .. n /\ t[i + 1] = fs[i]
    BY <1>1, <1>6
  <2>2. CASE i = 1
    BY <1>1, <2>1, <2>2
  <2>3. CASE i # 1
    <3>1. i - 1 \in 1 .. n /\ t[i] = fs[i - 1] /\ (i - 1) + 1 = i
      BY <1>1, <1>3, <2>3
    <3> QED
      BY <1>2, <2>1, <3>1
  <2> QED
    BY <2>2, <2>3
<1> QED
  BY <1>1, <1>4, <1>5, <1>6 DEF StackOK

(* A stack without its innermost call is in order.                         *)
LEMMA PoppedOK ==
  ASSUME NEW d, NEW fs, NEW M, StackOK(d, fs, M), Len(fs) > 1, NEW t, Popped(t, fs)
  PROVE  StackOK(d, t, M)
<1> DEFINE n == Len(fs)
<1>1. /\ n \in Nat \ {0} /\ DOMAIN fs = 1 .. n /\ DOMAIN t = 1 .. n - 1 /\ Len(t) = n - 1
      /\ t \in Seq(Range(t)) /\ \A i \in 1 .. n - 1 : t[i] = fs[i + 1]
  BY DEF Popped, StackOK
<1>2. /\ \A i \in 1 .. n : FrameOK(d, fs, i, M)
      /\ \A i, j \in 1 .. n : i < j => Waits(fs[j]) /\ Apart(fs[i], fs[j])
      /\ \A i \in 1 .. n : i + 1 \in 1 .. n => Called(fs[i], fs[i + 1])
  BY <1>1 DEF StackOK
<1> HIDE DEF n
<1>3. ASSUME NEW i \in 1 .. n - 1 PROVE FrameOK(d, t, i, M)
  <2> DEFINE k == i + 1
  <2>1. k \in 1 .. n /\ t[i] = fs[k] /\ FrameOK(d, fs, k, M) /\ k = i + 1
    BY <1>1, <1>2
  <2>2. Len(fs[k].path) = (n - 1) - i
    <3>1. Len(fs[k].path) = n - k
      BY <2>1 DEF FrameOK, n
    <3> QED
      BY <1>1, <2>1, <3>1
  <2>3. \A j \in k + 1 .. n : t[j - 1] = fs[j] /\ j - 1 \in i + 1 .. n - 1
    <3> SUFFICES ASSUME NEW j \in k + 1 .. n PROVE t[j - 1] = fs[j] /\ j - 1 \in i + 1 .. n - 1
      OBVIOUS
    <3>1. n \in Nat
      BY <1>1, Zenon
    <3>2. j - 1 \in 1 .. n - 1 /\ (j - 1) + 1 = j /\ j - 1 \in i + 1 .. n - 1
      <4> HIDE DEF n
      <4> QED
        BY <3>1
    <3> QED
      BY <1>1, <3>2
  <2> HIDE DEF k
  <2>4. Owned(t, i)
    <3>1. Owned(fs, k) /\ Len(fs) = n /\ Len(t) = n - 1
      BY <1>1, <2>1, Zenon DEF FrameOK, n
    <3>2. \A x : (\E j \in k + 1 .. n : Lends(fs[j], x)) => \E j \in i + 1 .. n - 1 : Lends(t[j], x)
      <4> SUFFICES ASSUME NEW x, NEW j \in k + 1 .. n, Lends(fs[j], x)
                   PROVE  \E l \in i + 1 .. n - 1 : Lends(t[l], x)
        OBVIOUS
      <4> QED
        BY <2>3
    <3> QED
      BY <2>1, <3>1, <3>2, Zenon DEF Owned
  <2> QED
    BY <1>1, <2>1, <2>2, <2>4 DEF FrameOK
<1>4. ASSUME NEW i \in 1 .. n - 1, NEW j \in 1 .. n - 1, i < j PROVE Waits(t[j]) /\ Apart(t[i], t[j])
  <2>1. i + 1 \in 1 .. n /\ j + 1 \in 1 .. n /\ i + 1 < j + 1
    BY <1>1, <1>4
  <2> QED
    BY <1>1, <1>2, <2>1
<1>5. ASSUME NEW i \in 1 .. n - 1, i + 1 \in 1 .. n - 1 PROVE Called(t[i], t[i + 1])
  <2>1. i + 1 \in 1 .. n /\ (i + 1) + 1 \in 1 .. n
    BY <1>1, <1>5
  <2>2. t[i] = fs[i + 1] /\ t[i + 1] = fs[(i + 1) + 1]
    BY <1>1, <1>5
  <2> QED
    BY <1>2, <2>1, <2>2
<1> QED
  BY <1>1, <1>3, <1>4, <1>5 DEF StackOK

(* Memory may change if no cell is lost that is as deep as a running call. *)
LEMMA CellsOK ==
  ASSUME NEW d, NEW fs, NEW M, StackOK(d, fs, M), NEW M2,
         \A a \in M : (\E i \in DOMAIN fs : \E n \in DOMAIN fs[i].at : fs[i].at[n] = a) => a \in M2
  PROVE  StackOK(d, fs, M2)
<1>1. ASSUME NEW i \in DOMAIN fs PROVE FrameOK(d, fs, i, M2)
  <2>1. FrameOK(d, fs, i, M)
    BY DEF StackOK
  <2>2. Reaches(fs[i], M2)
    BY <2>1 DEF FrameOK, Reaches
  <2> QED
    BY <2>1, <2>2 DEF FrameOK
<1> QED
  BY <1>1 DEF StackOK

\* The instances that a path of so many calls leads to, given those of one less.
InstancesAt(d, g, i) ==
  IF i = 0 THEN InstancesIn(d, <<>>, d.streams \o d.onInit)
  ELSE UNION {InstancesIn(d, x[1], d.callables[x[2]].body) : x \in g[i - 1]}

-----------------------------------------------------------------------------
(* The instances that a domain holds                                       *)

\* The instances down to depth n, by depth.
InstancesUpTo(d, g, n) == g = [i \in 0 .. n |-> InstancesAt(d, g, i)]

(* The instances of a domain, depth by depth.                              *)
LEMMA InstancesUnfold ==
  ASSUME NEW d, Cardinality(DOMAIN d.callables) \in Nat
  PROVE  \E g : /\ Instances(d) = UNION {g[i] : i \in 0 .. Cardinality(DOMAIN d.callables)}
                /\ \A i \in 0 .. Cardinality(DOMAIN d.callables) : g[i] = InstancesAt(d, g, i)
<1> DEFINE n == Cardinality(DOMAIN d.callables)
           Now(g, i) == InstancesAt(d, g, i)
           S == {k \in Nat : \E g : InstancesUpTo(d, g, k)}
<1>1. ASSUME NEW k \in Nat, NEW g, \A i \in 0 .. k - 1 : g[i] = Now(g, i)
      PROVE  k \in S
  <2> DEFINE h == [i \in 0 .. k |-> Now(g, i)]
  <2>1. ASSUME NEW i \in 0 .. k PROVE Now(g, i) = Now(h, i)
    <3>1. i = 0 \/ (i - 1 \in 0 .. k - 1 /\ i - 1 \in 0 .. k)
      OBVIOUS
    <3>2. i = 0 \/ h[i - 1] = g[i - 1]
      <4> HIDE DEF Now
      <4> QED
        BY <1>1, <3>1
    <3> HIDE DEF h
    <3> QED
      BY <3>2, Zenon DEF InstancesAt
  <2>2. h = [i \in 0 .. k |-> Now(h, i)]
    BY <2>1, Zenon
  <2> HIDE DEF h
  <2>3. InstancesUpTo(d, h, k)
    BY <2>2 DEF InstancesUpTo
  <2> QED
    BY <2>3
<1>2. 0 \in S
  <2> DEFINE none == [i \in {} |-> 0]
  <2>1. 0 \in Nat /\ \A i \in 0 .. 0 - 1 : none[i] = Now(none, i)
    OBVIOUS
  <2> HIDE DEF none, Now, S
  <2> QED
    BY <1>1, <2>1
<1>3. ASSUME NEW k \in Nat, k \in S PROVE k + 1 \in S
  <2>1. PICK g : InstancesUpTo(d, g, k)
    BY <1>3
  <2>2. \A i \in 0 .. k : g[i] = Now(g, i)
    BY <2>1, Zenon DEF InstancesUpTo
  <2>3. k + 1 \in Nat /\ (k + 1) - 1 = k
    OBVIOUS
  <2> HIDE DEF Now, S
  <2> QED
    BY <1>1, <2>2, <2>3
<1>4. n \in S
  <2> HIDE DEF S
  <2> QED
    BY <1>2, <1>3, Induction
<1> DEFINE W == CHOOSE g : InstancesUpTo(d, g, n)
<1>5. InstancesUpTo(d, W, n)
  BY <1>4, Zenon
<1>6. Instances(d) = UNION {W[i] : i \in 0 .. n}
  BY DEF Instances, InstancesUpTo, InstancesAt
<1> HIDE DEF W
<1> QED
  BY <1>5, <1>6, Zenon DEF InstancesUpTo

\* Functions do not call themselves.
Ranked(callables, rank) ==
  /\ rank \in [DOMAIN callables -> 0 .. Cardinality(DOMAIN callables) - 1]
  /\ \A k \in DOMAIN callables : \A s \in CallsIn(callables[k].body) : rank[s.callee] < rank[k]

(* An instance's calls have instances.                                     *)
LEMMA InstancesClosed ==
  ASSUME NEW d, IsFiniteSet(DOMAIN d.callables), NoRecursion(d.callables),
         \A s \in CallsIn(d.streams \o d.onInit) : s.callee \in DOMAIN d.callables,
         \A k \in DOMAIN d.callables : \A s \in CallsIn(d.callables[k].body) :
           s.callee \in DOMAIN d.callables
  PROVE  /\ \A s \in CallsIn(d.streams \o d.onInit) : <<Append(<<>>, s.site), s.callee>> \in Instances(d)
         /\ \A x \in Instances(d) :
              /\ x[2] \in DOMAIN d.callables
              /\ \A s \in CallsIn(d.callables[x[2]].body) :
                   <<Append(x[1], s.site), s.callee>> \in Instances(d)
<1> DEFINE n == Cardinality(DOMAIN d.callables)
           K == DOMAIN d.callables
<1>1. n \in Nat
  BY FS_CardinalityType
<1>2. PICK g : /\ Instances(d) = UNION {g[i] : i \in 0 .. n}
               /\ \A i \in 0 .. n : g[i] = InstancesAt(d, g, i)
  BY <1>1, InstancesUnfold
<1>3. PICK rank : Ranked(d.callables, rank)
  BY DEF NoRecursion, Ranked
<1>4. /\ rank \in [K -> 0 .. n - 1]
      /\ \A k \in K : \A s \in CallsIn(d.callables[k].body) : rank[s.callee] < rank[k]
  BY <1>3 DEF Ranked
<1>5. g[0] = {<<Append(<<>>, s.site), s.callee>> : s \in CallsIn(d.streams \o d.onInit)}
  <2>1. 0 \in 0 .. n
    BY <1>1
  <2>2. g[0] = InstancesAt(d, g, 0)
    BY <1>2, <2>1, Zenon
  <2> QED
    BY <2>2, Zenon DEF InstancesAt, InstancesIn
<1>6. ASSUME NEW i \in 1 .. n
      PROVE  g[i] = UNION {InstancesIn(d, x[1], d.callables[x[2]].body) : x \in g[i - 1]}
  <2>1. i \in 0 .. n /\ i # 0
    BY <1>1
  <2> QED
    BY <1>2, <2>1 DEF InstancesAt
<1> HIDE DEF n, K
<1> DEFINE T == {i \in Nat : i <= n => \A x \in g[i] : x[2] \in K /\ i + rank[x[2]] <= n - 1}
<1>7. 0 \in T
  <2>1. ASSUME NEW x \in g[0] PROVE x[2] \in K /\ 0 + rank[x[2]] <= n - 1
    <3>1. PICK s \in CallsIn(d.streams \o d.onInit) : x = <<Append(<<>>, s.site), s.callee>>
      BY <1>5
    <3>2. x[2] \in K
      BY <3>1 DEF K
    <3> QED
      BY <1>1, <1>4, <3>2
  <2> QED
    BY <2>1
<1>8. ASSUME NEW i \in Nat, i \in T PROVE i + 1 \in T
  <2>1. ASSUME i + 1 <= n, NEW x \in g[i + 1] PROVE x[2] \in K /\ (i + 1) + rank[x[2]] <= n - 1
    <3>1. i + 1 \in 1 .. n /\ (i + 1) - 1 = i /\ i <= n
      BY <1>1, <2>1
    <3>2. PICK y \in g[i] : x \in InstancesIn(d, y[1], d.callables[y[2]].body)
      BY <1>6, <2>1, <3>1
    <3>3. PICK s \in CallsIn(d.callables[y[2]].body) : x = <<Append(y[1], s.site), s.callee>>
      BY <3>2 DEF InstancesIn
    <3>4. y[2] \in K /\ i + rank[y[2]] <= n - 1
      BY <1>8, <3>1
    <3>5. x[2] = s.callee /\ s.callee \in K /\ rank[s.callee] < rank[y[2]]
      BY <1>4, <3>3, <3>4 DEF K
    <3>6. rank[s.callee] \in Int /\ rank[y[2]] \in Int
      BY <1>1, <1>4, <3>4, <3>5
    <3> QED
      BY <1>1, <3>4, <3>5, <3>6
  <2> QED
    BY <2>1
<1>9. \A i \in Nat : i \in T
  <2> HIDE DEF T
  <2> QED
    BY <1>7, <1>8, Induction
<1>10. ASSUME NEW s \in CallsIn(d.streams \o d.onInit)
       PROVE  <<Append(<<>>, s.site), s.callee>> \in Instances(d)
  <2>1. 0 \in 0 .. n
    BY <1>1
  <2> QED
    BY <1>2, <1>5, <2>1
<1>11. ASSUME NEW x \in Instances(d)
       PROVE  /\ x[2] \in DOMAIN d.callables
              /\ \A s \in CallsIn(d.callables[x[2]].body) :
                   <<Append(x[1], s.site), s.callee>> \in Instances(d)
  <2>1. PICK i \in 0 .. n : x \in g[i]
    BY <1>2
  <2>2. x[2] \in K /\ i + rank[x[2]] <= n - 1 /\ i \in Nat
    BY <1>1, <1>9, <2>1
  <2>3. rank[x[2]] \in Nat
    BY <1>1, <1>4, <2>2
  <2>4. i + 1 \in 1 .. n /\ (i + 1) - 1 = i /\ i + 1 \in 0 .. n
    BY <1>1, <2>2, <2>3
  <2>5. InstancesIn(d, x[1], d.callables[x[2]].body) \subseteq g[i + 1]
    BY <1>6, <2>1, <2>4
  <2>6. \A s \in CallsIn(d.callables[x[2]].body) :
          <<Append(x[1], s.site), s.callee>> \in g[i + 1]
    BY <2>5 DEF InstancesIn
  <2> QED
    BY <1>2, <2>2, <2>4, <2>6 DEF K
<1> QED
  BY <1>10, <1>11

-----------------------------------------------------------------------------
(* What the assumptions say of the functions under way                     *)

\* A function in order, as the assumption on the programs has it.
GoodCode(c) ==
  /\ Lists(c) /\ OneMeaningPerName(c) /\ StatementsFit(code, c)
  /\ Ending(c) /\ ResetsFit(c)

\* The functions are those of the program.
CodeInv == prog \in DOMAIN Programs /\ code = Functions[prog]

(* What the assumptions say of the functions under way.                    *)
LEMMA CodeIs ==
  ASSUME CodeInv
  PROVE  /\ \A k \in DOMAIN code :
              GoodCode(code[k]) /\ (code[k].kind = "Domain" <=> k \in {"init", "process"})
         /\ DOMAIN code = {"init", "process"} \cup DOMAIN domain.callables
         /\ \A k \in DOMAIN domain.callables : code[k] = domain.callables[k]
         /\ {"init", "process"} \cap DOMAIN domain.callables = {}
         /\ code["init"] = DomainFunction(domain, InitBody(domain))
         /\ code["process"] = DomainFunction(domain, ProcessBody(domain))
         /\ IsFiniteSet(DOMAIN domain.callables) /\ NoRecursion(domain.callables)
<1>1. prog \in DOMAIN Programs /\ code = Functions[prog]
  BY DEF CodeInv
<1>2. /\ IsFiniteSet(DOMAIN Programs[prog].callables) /\ NoRecursion(Programs[prog].callables)
      /\ {"init", "process"} \cap DOMAIN Programs[prog].callables = {}
      /\ \A k \in DOMAIN Functions[prog] :
           /\ Functions[prog][k].kind = "Domain" <=> k \in {"init", "process"}
           /\ Lists(Functions[prog][k]) /\ OneMeaningPerName(Functions[prog][k])
           /\ StatementsFit(Functions[prog], Functions[prog][k])
           /\ Ending(Functions[prog][k]) /\ ResetsFit(Functions[prog][k])
  BY <1>1, CallsAssumption
<1>3. \A k \in DOMAIN code :
        GoodCode(code[k]) /\ (code[k].kind = "Domain" <=> k \in {"init", "process"})
  BY <1>1, <1>2 DEF GoodCode
<1> DEFINE r == [process |-> DomainFunction(domain, ProcessBody(domain)),
                 init    |-> DomainFunction(domain, InitBody(domain))]
<1>4. code = Over(r, domain.callables)
  BY <1>1 DEF Functions, domain
<1>5. /\ DOMAIN r = {"init", "process"}
      /\ r["init"] = DomainFunction(domain, InitBody(domain))
      /\ r["process"] = DomainFunction(domain, ProcessBody(domain))
  OBVIOUS
<1> HIDE DEF r
<1> DEFINE C == domain.callables
           D == {"init", "process"}
<1>6. {"init", "process"} \cap DOMAIN C = {}
  BY <1>2 DEF domain
<1>7. /\ DOMAIN code = D \cup DOMAIN C
      /\ code = [a \in D \cup DOMAIN C |-> IF a \in D THEN r[a] ELSE C[a]]
  BY <1>4, <1>5 DEF Over
<1> HIDE DEF C
<1>8. /\ \A k \in DOMAIN C : code[k] = C[k]
      /\ code["init"] = r["init"] /\ code["process"] = r["process"]
  BY <1>6, <1>7
<1> QED
  BY <1>2, <1>3, <1>5, <1>6, <1>7, <1>8 DEF C, domain

(* The calls of a domain's functions are in its streams.                   *)
LEMMA DomainCallsAre ==
  ASSUME NEW p \in DOMAIN Programs
  PROVE  LET d == Programs[p]
         IN CallsIn(d.streams \o d.onInit) = CallsIn(InitBody(d)) \cup CallsIn(ProcessBody(d))
<1> DEFINE d == Programs[p]
           a == d.streams
           b == d.onInit
           m == d.machines
           r == Restores(d)
           t == [i \in DOMAIN d.triggers |-> SetTo(d.triggers[i], "0")]
           ab == a \o b
           am == a \o m
           init == b \o r
           process == am \o t
<1>1. /\ a \in Seq(Range(a)) /\ m \in Seq(Range(m)) /\ d.triggers \in Seq(Range(d.triggers))
      /\ \A i \in DOMAIN m : m[i].op = "machine"
  BY CallsAssumption
<1>2. RestoredFields(d) /\ b \in Seq(Range(b))
  BY LayoutsAssumption DEF RestoredFields
<1>3. /\ r \in Seq(Range(r))
      /\ \A k \in DOMAIN r : \E n \in DOMAIN d.fields, l \in DOMAIN Literal : r[k] = SetTo(n, l)
  BY <1>2, RestoresAre
<1>4. \A x \in Range(r) : x.op = "set"
  BY <1>3 DEF Range, SetTo
<1>5. t \in Seq(Range(t)) /\ \A x \in Range(t) : x.op = "set"
  <2> DEFINE g == d.triggers
             v(i) == SetTo(g[i], "0")
             T == {v(i) : i \in DOMAIN g}
  <2>1. \A i : v(i).op = "set"
    BY DEF SetTo
  <2>2. g \in Seq(Range(g)) /\ t = [i \in DOMAIN g |-> v(i)]
    BY <1>1
  <2> HIDE DEF g, v, t
  <2>3. t \in Seq(T) /\ T = Range(t)
    BY <2>2 DEF Range
  <2>4. \A x \in T : x.op = "set"
    BY <2>1
  <2> QED
    BY <2>3, <2>4
<1>6. \A x \in Range(m) : x.op = "machine"
  BY <1>1 DEF Range
<1>7. Joins(ab, a, b) /\ Joins(am, a, m) /\ Joins(init, b, r) /\ Joins(process, am, t)
  BY DEF Joins
<1>8. init = InitBody(d) /\ process = ProcessBody(d)
  BY Zenon DEF InitBody, ProcessBody
<1> SUFFICES CallsIn(ab) = CallsIn(init) \cup CallsIn(process)
  BY <1>8
<1> DEFINE E == Range(a) \cup Range(b) \cup Range(m) \cup Range(r) \cup Range(t)
<1> HIDE DEF d, a, b, m, r, t, ab, am, init, process
<1>9. a \in Seq(E) /\ b \in Seq(E) /\ m \in Seq(E) /\ r \in Seq(E) /\ t \in Seq(E)
  BY <1>1, <1>2, <1>3, <1>5
<1> HIDE DEF E
<1>10. Range(ab) = Range(a) \cup Range(b)
  BY <1>7, <1>9, JoinedHold
<1>11. Range(am) = Range(a) \cup Range(m) /\ am \in Seq(E)
  BY <1>7, <1>9, JoinedHold
<1>12. Range(init) = Range(b) \cup Range(r)
  BY <1>7, <1>9, JoinedHold
<1>13. Range(process) = Range(am) \cup Range(t)
  BY <1>7, <1>9, <1>11, JoinedHold
<1> QED
  BY <1>4, <1>5, <1>6, <1>10, <1>11, <1>12, <1>13 DEF CallsIn

(* A call has an instance below its caller's.                              *)
LEMMA CallHasStruct ==
  ASSUME CodeInv, NEW f, f.callable \in DOMAIN code, HasStruct(domain, f),
         NEW s \in Range(Code(f).body), s.op = "call"
  PROVE  /\ <<Append(f.path, s.site), s.callee>> \in Instances(domain)
         /\ s.callee \in DOMAIN domain.callables /\ s.callee \in DOMAIN code
         /\ Callee(s) = domain.callables[s.callee]
<1> DEFINE d == domain
<1>1. /\ \A k \in DOMAIN code :
           GoodCode(code[k]) /\ (code[k].kind = "Domain" <=> k \in {"init", "process"})
      /\ DOMAIN code = {"init", "process"} \cup DOMAIN d.callables
      /\ \A k \in DOMAIN d.callables : code[k] = d.callables[k]
      /\ {"init", "process"} \cap DOMAIN d.callables = {}
      /\ code["init"] = DomainFunction(d, InitBody(d))
      /\ code["process"] = DomainFunction(d, ProcessBody(d))
      /\ IsFiniteSet(DOMAIN d.callables) /\ NoRecursion(d.callables)
  BY CodeIs
<1>2. ASSUME NEW k \in DOMAIN code, NEW x \in CallsIn(code[k].body)
      PROVE  x.callee \in DOMAIN d.callables
  <2>1. PICK i \in DOMAIN code[k].body : x = code[k].body[i]
    BY DEF CallsIn, Range
  <2>2. x.op = "call"
    BY DEF CallsIn
  <2>3. CallsFit(code, code[k], x)
    BY <1>1, <2>1, <2>2 DEF GoodCode, StatementsFit
  <2>4. x.callee \in DOMAIN code /\ code[x.callee].kind # "Domain"
    BY <2>3 DEF CallsFit
  <2> QED
    BY <1>1, <2>4
<1>3. /\ CallsIn(d.streams \o d.onInit) = CallsIn(InitBody(d)) \cup CallsIn(ProcessBody(d))
      /\ code["init"].body = InitBody(d) /\ code["process"].body = ProcessBody(d)
  <2>1. prog \in DOMAIN Programs /\ d = Programs[prog]
    BY DEF CodeInv, domain
  <2> HIDE DEF d
  <2>2. CallsIn(d.streams \o d.onInit) = CallsIn(InitBody(d)) \cup CallsIn(ProcessBody(d))
    BY <2>1, DomainCallsAre, Zenon
  <2>3. \A b : DomainFunction(d, b).body = b
    BY DEF DomainFunction
  <2> QED
    BY <1>1, <2>2, <2>3
<1>4. /\ \A x \in CallsIn(d.streams \o d.onInit) : <<Append(<<>>, x.site), x.callee>> \in Instances(d)
      /\ \A i \in Instances(d) :
           /\ i[2] \in DOMAIN d.callables
           /\ \A x \in CallsIn(d.callables[i[2]].body) :
                <<Append(i[1], x.site), x.callee>> \in Instances(d)
  <2>1. \A k \in DOMAIN d.callables : \A x \in CallsIn(d.callables[k].body) :
          x.callee \in DOMAIN d.callables
    BY <1>1, <1>2
  <2>2. \A x \in CallsIn(d.streams \o d.onInit) : x.callee \in DOMAIN d.callables
    BY <1>1, <1>2, <1>3
  <2> HIDE DEF d
  <2> QED
    BY <1>1, <2>1, <2>2, InstancesClosed
<1>5. s \in CallsIn(code[f.callable].body)
  BY DEF CallsIn, Code, CodeOf
<1>6. ASSUME f.path = <<>>, f.callable \in {"init", "process"}
      PROVE  <<Append(f.path, s.site), s.callee>> \in Instances(d)
  <2>1. s \in CallsIn(d.streams \o d.onInit)
    BY <1>3, <1>5, <1>6
  <2> HIDE DEF d
  <2> QED
    BY <1>4, <1>6, <2>1
<1>7. ASSUME <<f.path, f.callable>> \in Instances(d)
      PROVE  <<Append(f.path, s.site), s.callee>> \in Instances(d)
  <2> DEFINE i == <<f.path, f.callable>>
  <2>1. i[1] = f.path /\ i[2] = f.callable
    OBVIOUS
  <2> HIDE DEF i, d
  <2>2. i \in Instances(d)
    BY <1>7 DEF i
  <2>3. i[2] \in DOMAIN d.callables /\ code[i[2]] = d.callables[i[2]]
    BY <1>1, <1>4, <2>2
  <2> QED
    BY <1>4, <1>5, <2>1, <2>2, <2>3
<1>8. <<Append(f.path, s.site), s.callee>> \in Instances(d)
  BY <1>6, <1>7 DEF HasStruct
<1> QED
  BY <1>1, <1>2, <1>5, <1>8 DEF Callee, CodeOf

\* A call that is about to be made.
Calling(f, s) ==
  /\ Shaped(f) /\ f.pc # Done /\ s = Statement(f) /\ s.op = "call"

(* A call that has not ended stands at a statement of its function.        *)
LEMMA StatementIs ==
  ASSUME CodeInv, NEW f, Shaped(f), f.pc # Done
  PROVE  /\ f.pc \in DOMAIN Code(f).body /\ Statement(f) = Code(f).body[f.pc]
         /\ f.pc \in Nat /\ Len(Code(f).body) \in Nat
         /\ Statement(f) \in Range(Code(f).body) /\ GoodCode(Code(f))
         /\ DOMAIN Code(f).body = 1 .. Len(Code(f).body)
<1>1. f.callable \in DOMAIN code /\ f.pc \in 1 .. Len(Code(f).body)
  BY DEF Shaped
<1>2. GoodCode(Code(f))
  BY <1>1, CodeIs DEF Code, CodeOf
<1>3. Code(f).body \in Seq(Range(Code(f).body))
  BY <1>2 DEF GoodCode, Lists
<1> DEFINE b == Code(f).body
<1>4. Len(b) \in Nat /\ DOMAIN b = 1 .. Len(b)
  BY <1>3
<1>5. Statement(f) = b[f.pc]
  BY Zenon DEF Statement
<1> HIDE DEF b
<1>6. f.pc \in DOMAIN b /\ f.pc \in Nat /\ b[f.pc] \in Range(b)
  BY <1>1, <1>4 DEF Range, b
<1> QED
  BY <1>2, <1>4, <1>5, <1>6 DEF b

(* What the assumptions say of a call statement.                           *)
LEMMA CallIs ==
  ASSUME CodeInv, NEW f, NEW s, Calling(f, s)
  PROVE  /\ s \in Range(Code(f).body) /\ CallsFit(code, Code(f), s)
         /\ s.callee \in DOMAIN code /\ Callee(s) = code[s.callee]
         /\ GoodCode(Callee(s)) /\ Callee(s).kind # "Domain"
         /\ Targets(s) = Range(s.outs) \cup Range(s.ext)
         /\ Range(s.ins) \cap Targets(s) = {}
         /\ Targets(s) \cap (DOMAIN Literal \cup Range(Code(f).ins)) = {}
         /\ Sources(s) \subseteq Known(Code(f), f.pc)
         /\ Range(s.ext) \subseteq CellNames(Code(f))
<1>1. /\ f.pc \in DOMAIN Code(f).body /\ s = Code(f).body[f.pc]
      /\ s \in Range(Code(f).body) /\ GoodCode(Code(f)) /\ s.op = "call"
  BY StatementIs DEF Calling
<1>2. CallsFit(code, Code(f), s) /\ Sources(s) \subseteq Known(Code(f), f.pc)
  BY <1>1 DEF GoodCode, StatementsFit
<1>3. /\ s.callee \in DOMAIN code /\ code[s.callee].kind # "Domain"
      /\ Range(s.ins) \cap Targets(s) = {} /\ Range(s.ext) \subseteq CellNames(Code(f))
  BY <1>2 DEF CallsFit
<1>4. Callee(s) = code[s.callee] /\ GoodCode(Callee(s))
  BY <1>3, CodeIs DEF Callee, CodeOf
<1>5. Targets(s) = Range(s.outs) \cup Range(s.ext)
  BY <1>1 DEF Targets
<1>6. Targets(s) \cap (DOMAIN Literal \cup Range(Code(f).ins)) = {}
  BY <1>1 DEF GoodCode, OneMeaningPerName
<1> QED
  BY <1>1, <1>2, <1>3, <1>4, <1>5, <1>6

(* The names behind the parameters of a call.                              *)
LEMMA ParametersAre ==
  ASSUME CodeInv, NEW f, NEW s, Calling(f, s)
  PROVE  LET c == Callee(s)
         IN  /\ Range(Parameters(c)) = Range(c.outs) \cup Range(c.ins) \cup Range(c.ext)
             /\ \A n \in Range(c.outs) : Actual(s, n) \in Range(s.outs)
             /\ \A n \in Range(c.ins)  : Actual(s, n) \in Range(s.ins)
             /\ \A n \in Range(c.ext)  : Actual(s, n) \in Range(s.ext)
             /\ \A x \in Range(s.outs) : \E n \in Range(c.outs) : Actual(s, n) = x
             /\ \A x \in Range(s.ext)  : \E n \in Range(c.ext)  : Actual(s, n) = x
             /\ \A n, x \in Range(c.outs) \cup Range(c.ext) : Actual(s, n) = Actual(s, x) => n = x
             /\ Range(c.ins) \cap (Range(c.outs) \cup Range(c.ext)) = {}
             /\ Range(Parameters(c)) \cap (DOMAIN c.fields \cup Locals(c)) = {}
             /\ DOMAIN c.fields \cap Locals(c) = {}
             /\ DOMAIN Literal \cap (CellNames(c) \cup Locals(c)) = {}
<1> DEFINE c == Callee(s)
<1>1. CallsFit(code, Code(f), s) /\ c = code[s.callee] /\ GoodCode(c)
  BY CallIs
<1>2. Lists(c) /\ OneMeaningPerName(c)
  BY <1>1 DEF GoodCode
<1>3. /\ \A i, j \in DOMAIN Parameters(c) : Parameters(c)[i] = Parameters(c)[j] => i = j
      /\ Range(Parameters(c)) \cap (DOMAIN c.fields \cup Locals(c)) = {}
      /\ DOMAIN c.fields \cap Locals(c) = {}
      /\ DOMAIN Literal \cap (CellNames(c) \cup Locals(c)) = {}
  BY <1>2 DEF OneMeaningPerName
<1>4. /\ Range(Parameters(c)) = Range(c.outs) \cup Range(c.ins) \cup Range(c.ext)
      /\ \A n \in Range(c.outs) : Actual(s, n) \in Range(s.outs)
      /\ \A n \in Range(c.ins)  : Actual(s, n) \in Range(s.ins)
      /\ \A n \in Range(c.ext)  : Actual(s, n) \in Range(s.ext)
      /\ \A x \in Range(s.outs) : \E n \in Range(c.outs) : Actual(s, n) = x
      /\ \A x \in Range(s.ext)  : \E n \in Range(c.ext)  : Actual(s, n) = x
      /\ \A n, x \in Range(c.outs) \cup Range(c.ext) : Actual(s, n) = Actual(s, x) => n = x
  BY <1>1, <1>2, <1>3, ActualsAre
<1>5. Range(s.ins) \cap (Range(s.outs) \cup Range(s.ext)) = {}
  BY CallIs
<1> HIDE DEF c
<1>6. Range(c.ins) \cap (Range(c.outs) \cup Range(c.ext)) = {}
  BY <1>4, <1>5
<1> QED
  BY <1>3, <1>4, <1>6 DEF c

(* The frame of a call.                                                    *)
LEMMA FrameIs ==
  ASSUME CodeInv, NEW f, NEW s, Calling(f, s)
  PROVE  LET c == Callee(s)
             g == Frame(f, s)
         IN  /\ Code(g) = c /\ g.callable = s.callee /\ g.path = CallPath(f, s) /\ g.pc = Start(c)
             /\ DOMAIN g.at = CellNames(c) /\ DOMAIN g.val = Locals(c) \ Stored(c)
             /\ DOMAIN g = {"callable", "path", "pc", "at", "val"}
             /\ \A n \in DOMAIN g.val : g.val[n] = c.starts[n]
             /\ \A n \in DOMAIN c.fields : g.at[n] = Field(CallPath(f, s), n)
             /\ \A n \in Stored(c) : g.at[n] = Local(CallPath(f, s), n)
             /\ \A n \in Range(Parameters(c)) : g.at[n] = ArgumentCell(f, s, n)
<1> DEFINE c == Callee(s)
           g == Frame(f, s)
<1>1. /\ Range(Parameters(c)) \cap (DOMAIN c.fields \cup Locals(c)) = {}
      /\ DOMAIN c.fields \cap Locals(c) = {} /\ Stored(c) \subseteq Locals(c)
  BY ParametersAre DEF Stored
<1>2. /\ g.callable = s.callee /\ g.path = CallPath(f, s) /\ g.pc = Start(c)
      /\ DOMAIN g = {"callable", "path", "pc", "at", "val"}
      /\ g.val = [n \in Locals(c) \ Stored(c) |-> c.starts[n]]
      /\ g.at = [n \in CellNames(c) |->
                   IF n \in DOMAIN c.fields THEN Field(CallPath(f, s), n)
                   ELSE IF n \in Stored(c) THEN Local(CallPath(f, s), n)
                   ELSE ArgumentCell(f, s, n)]
  BY DEF Frame, Instance
<1>3. Code(g) = c
  BY <1>2 DEF Code, Callee
<1> HIDE DEF g, c
<1>4. DOMAIN c.fields \cup Stored(c) \cup Range(Parameters(c)) = CellNames(c)
  BY DEF CellNames
<1>5. \A n \in DOMAIN c.fields : g.at[n] = Field(CallPath(f, s), n)
  BY <1>2, <1>4
<1>6. \A n \in Stored(c) : g.at[n] = Local(CallPath(f, s), n)
  BY <1>1, <1>2, <1>4
<1>7. \A n \in Range(Parameters(c)) : g.at[n] = ArgumentCell(f, s, n)
  BY <1>1, <1>2, <1>4
<1>8. /\ DOMAIN g.at = CellNames(c) /\ DOMAIN g.val = Locals(c) \ Stored(c)
      /\ \A n \in DOMAIN g.val : g.val[n] = c.starts[n]
  BY <1>2
<1> QED
  BY <1>2, <1>3, <1>5, <1>6, <1>7, <1>8 DEF g, c

\* The cells that a call makes.
Made(f, s) ==
  {Local(CallPath(f, s), n) : n \in ByTemporary(f, s) \cup Stored(Callee(s))}

(* An argument is a cell of the caller's, or a new one.                    *)
LEMMA ArgumentsAre ==
  ASSUME CodeInv, NEW f, NEW s, Calling(f, s), NEW n \in Range(Parameters(Callee(s)))
  PROVE  \/ /\ n \in ByTemporary(f, s) /\ Actual(s, n) \notin DOMAIN f.at
            /\ ArgumentCell(f, s, n) = Local(CallPath(f, s), n)
            /\ ArgumentCell(f, s, n) \in Made(f, s)
         \/ /\ n \notin ByTemporary(f, s) /\ Actual(s, n) \in DOMAIN f.at
            /\ ArgumentCell(f, s, n) = f.at[Actual(s, n)]
  BY DEF ArgumentCell, ByTemporary, Made

(* The path of a call is its caller's and one site more.                   *)
LEMMA CallPathIs ==
  ASSUME NEW f, NEW s, Shaped(f)
  PROVE  /\ CallPath(f, s) \in Seq(Range(CallPath(f, s)))
         /\ Len(CallPath(f, s)) = Len(f.path) + 1 /\ Len(f.path) \in Nat
         /\ CallPath(f, s) # f.path
<1>1. f.path \in Seq(Range(f.path))
  BY DEF Shaped
<1> DEFINE E == Range(f.path) \cup {s.site}
           p == CallPath(f, s)
           q == f.path
<1>2. q \in Seq(E) /\ s.site \in E /\ p = Append(q, s.site)
  BY <1>1 DEF CallPath
<1> HIDE DEF E, q
<1>3. p \in Seq(E) /\ Len(p) = Len(q) + 1 /\ Len(q) \in Nat
  BY <1>2
<1> HIDE DEF p
<1>4. p \in Seq(Range(p))
  BY <1>3 DEF Range
<1> QED
  BY <1>3, <1>4 DEF p, q

(* A call starts at its first statement, if it has any.                    *)
LEMMA StartIs ==
  ASSUME NEW c, GoodCode(c)
  PROVE  Start(c) \in 1 .. Len(c.body) \cup {Done}
<1>1. c.body \in Seq(Range(c.body))
  BY DEF GoodCode, Lists
<1>2. c.body # <<>> => 1 \in 1 .. Len(c.body)
  <2> DEFINE b == c.body
             E == Range(b)
  <2>1. b \in Seq(E)
    BY <1>1
  <2> HIDE DEF b, E
  <2>2. b # <<>> => 1 \in 1 .. Len(b)
    BY <2>1
  <2> QED
    BY <2>2 DEF b
<1> QED
  BY <1>2 DEF Start

-----------------------------------------------------------------------------
(* A call that is made                                                     *)

(* A new call has the cells of its names, and its caller waits for it.     *)
LEMMA NewShaped ==
  ASSUME CodeInv, NEW f, NEW s, Calling(f, s)
  PROVE  Shaped(Frame(f, s)) /\ Called(Frame(f, s), f) /\ Waits(f)
<1> DEFINE c == Callee(s)
           g == Frame(f, s)
<1>1. /\ Code(g) = c /\ g.callable = s.callee /\ g.path = CallPath(f, s) /\ g.pc = Start(c)
      /\ DOMAIN g.at = CellNames(c) /\ DOMAIN g.val = Locals(c) \ Stored(c)
      /\ DOMAIN g = {"callable", "path", "pc", "at", "val"}
      /\ \A n \in DOMAIN c.fields : g.at[n] = Field(CallPath(f, s), n)
      /\ \A n \in Range(Parameters(c)) : g.at[n] = ArgumentCell(f, s, n)
  BY FrameIs
<1>2. s.callee \in DOMAIN code /\ GoodCode(c)
  BY CallIs
<1>3. g.path \in Seq(Range(g.path))
  BY <1>1, CallPathIs DEF Calling
<1>4. g.pc \in 1 .. Len(c.body) \cup {Done}
  BY <1>1, <1>2, StartIs
<1>5. DOMAIN g.val \cap (DOMAIN g.at \cup DOMAIN Literal) = {}
  <2>1. /\ Range(Parameters(c)) \cap (DOMAIN c.fields \cup Locals(c)) = {}
        /\ DOMAIN c.fields \cap Locals(c) = {}
        /\ DOMAIN Literal \cap (CellNames(c) \cup Locals(c)) = {}
    BY ParametersAre
  <2> HIDE DEF c, g
  <2> QED
    BY <1>1, <2>1 DEF CellNames
<1>6. s = Statement(f) /\ f.pc # Done /\ s.op = "call"
  BY DEF Calling
<1> HIDE DEF c, g
<1>7. Shaped(g)
  BY <1>1, <1>2, <1>3, <1>4, <1>5 DEF Shaped
<1>8. Called(g, f)
  BY <1>1, <1>6, Zenon DEF Called
<1>9. Waits(f)
  BY <1>6 DEF Waits
<1> QED
  BY <1>7, <1>8, <1>9 DEF g

(* Its cells exist, and its struct is that of an instance.                 *)
LEMMA NewReaches ==
  ASSUME CodeInv, NEW f, NEW s, Calling(f, s), NEW M, Reaches(f, M), HasStruct(domain, f),
         Struct(domain) \subseteq M, NEW M2, M \subseteq M2, Made(f, s) \subseteq M2
  PROVE  Reaches(Frame(f, s), M2) /\ HasStruct(domain, Frame(f, s))
<1> DEFINE c == Callee(s)
           g == Frame(f, s)
           p == CallPath(f, s)
<1>1. /\ g.callable = s.callee /\ g.path = p
      /\ DOMAIN g.at = CellNames(c)
      /\ \A n \in DOMAIN c.fields : g.at[n] = Field(p, n)
      /\ \A n \in Stored(c) : g.at[n] = Local(p, n)
      /\ \A n \in Range(Parameters(c)) : g.at[n] = ArgumentCell(f, s, n)
  BY FrameIs
<1>2. /\ <<p, s.callee>> \in Instances(domain) /\ c = domain.callables[s.callee]
  <2>1. f.callable \in DOMAIN code /\ s \in Range(Code(f).body) /\ s.op = "call"
    BY CallIs DEF Calling, Shaped
  <2> QED
    BY <2>1, CallHasStruct DEF CallPath
<1>3. Len(p) = Len(f.path) + 1 /\ Len(f.path) \in Nat
  BY CallPathIs DEF Calling
<1> HIDE DEF c, g, p
<1>4. ASSUME NEW n \in DOMAIN c.fields PROVE Field(p, n) \in M2 /\ Field(p, n).path = p
  <2>1. Field(p, n) \in InstanceCells(domain)
    <3> DEFINE i == <<p, s.callee>>
    <3>1. i \in Instances(domain) /\ i[1] = p /\ i[2] = s.callee
      BY <1>2
    <3> HIDE DEF i
    <3>2. Field(p, n) \in {Field(i[1], x) : x \in DOMAIN domain.callables[i[2]].fields}
      BY <1>2, <3>1
    <3> QED
      BY <3>1, <3>2 DEF InstanceCells
  <2> QED
    BY <2>1 DEF Struct, Field
<1>5. ASSUME NEW n \in Stored(c) PROVE Local(p, n) \in M2 /\ Local(p, n).path = p
  BY DEF Made, c, p, Local
<1>6. ASSUME NEW n \in Range(Parameters(c))
      PROVE  ArgumentCell(f, s, n) \in M2 /\ Len(ArgumentCell(f, s, n).path) <= Len(p)
  <2>1. CASE n \in ByTemporary(f, s)
    <3>1. ArgumentCell(f, s, n) = Local(p, n) /\ ArgumentCell(f, s, n) \in Made(f, s)
      BY <2>1, ArgumentsAre DEF c, p
    <3>2. ArgumentCell(f, s, n).path = p
      BY <3>1 DEF Local
    <3> QED
      BY <1>3, <3>1, <3>2
  <2>2. CASE n \notin ByTemporary(f, s)
    <3>1. Actual(s, n) \in DOMAIN f.at /\ ArgumentCell(f, s, n) = f.at[Actual(s, n)]
      BY <2>2, ArgumentsAre DEF c
    <3>2. f.at[Actual(s, n)] \in M /\ Len(f.at[Actual(s, n)].path) <= Len(f.path)
      BY <3>1 DEF Reaches
    <3> QED
      BY <1>3, <3>1, <3>2
  <2> QED
    BY <2>1, <2>2
<1>7. Reaches(g, M2)
  <2>1. ASSUME NEW n \in DOMAIN g.at PROVE g.at[n] \in M2 /\ Len(g.at[n].path) <= Len(p)
    <3>1. n \in DOMAIN c.fields \/ n \in Stored(c) \/ n \in Range(Parameters(c))
      BY <1>1 DEF CellNames
    <3>2. CASE n \in DOMAIN c.fields
      BY <1>1, <1>3, <1>4, <3>2
    <3>3. CASE n \in Stored(c)
      BY <1>1, <1>3, <1>5, <3>3
    <3>4. CASE n \in Range(Parameters(c))
      BY <1>1, <1>6, <3>4
    <3> QED
      BY <3>1, <3>2, <3>3, <3>4
  <2> QED
    BY <1>1, <2>1 DEF Reaches
<1>8. HasStruct(domain, g)
  BY <1>1, <1>2 DEF HasStruct
<1> QED
  BY <1>7, <1>8 DEF g

(* A call's cells are its own, or those that its caller passes; what it    *)
(* writes of the latter are targets of the call.                           *)
LEMMA NewCells ==
  ASSUME CodeInv, NEW f, NEW s, Calling(f, s), NEW n \in DOMAIN Frame(f, s).at
  PROVE  LET g == Frame(f, s)
         IN  \/ g.at[n].path = g.path /\ g.at[n].name = n
                /\ (g.at[n].area = "stack" \/ Own(g, n))
             \/ /\ g.at[n] = f.at[Actual(s, n)] /\ Actual(s, n) \in DOMAIN f.at
                /\ n \in Range(Parameters(Callee(s)))
                /\ n \in Writable(g) => /\ Actual(s, n) \in Writable(f) \cap Targets(s)
                                        /\ n \in Range(Callee(s).outs) \cup Range(Callee(s).ext)
                /\ n \notin Writable(g) => Actual(s, n) \in Range(s.ins)
<1> DEFINE c == Callee(s)
           g == Frame(f, s)
           p == CallPath(f, s)
<1>1. /\ Code(g) = c /\ g.callable = s.callee /\ g.path = p
      /\ DOMAIN g.at = CellNames(c)
      /\ \A x \in DOMAIN c.fields : g.at[x] = Field(p, x)
      /\ \A x \in Stored(c) : g.at[x] = Local(p, x)
      /\ \A x \in Range(Parameters(c)) : g.at[x] = ArgumentCell(f, s, x)
  BY FrameIs
<1>2. /\ Range(Parameters(c)) = Range(c.outs) \cup Range(c.ins) \cup Range(c.ext)
      /\ \A x \in Range(c.outs) : Actual(s, x) \in Range(s.outs)
      /\ \A x \in Range(c.ins)  : Actual(s, x) \in Range(s.ins)
      /\ \A x \in Range(c.ext)  : Actual(s, x) \in Range(s.ext)
      /\ Range(c.ins) \cap (Range(c.outs) \cup Range(c.ext)) = {}
  BY ParametersAre
<1>3. /\ Targets(s) = Range(s.outs) \cup Range(s.ext)
      /\ Targets(s) \cap Range(Code(f).ins) = {}
  BY CallIs
<1> HIDE DEF c, g, p
<1>4. Writable(g) = CellNames(c) \ Range(c.ins)
  BY <1>1 DEF Writable
<1>5. CASE n \in DOMAIN c.fields
  <2>1. g.at[n] = Field(p, n)
    BY <1>1, <1>5
  <2>2. Own(g, n)
    BY <1>1, <1>5, <2>1 DEF Own
  <2> QED
    BY <1>1, <2>1, <2>2 DEF Field, g
<1>6. CASE n \in Stored(c)
  <2>1. g.at[n] = Local(p, n)
    BY <1>1, <1>6
  <2> QED
    BY <1>1, <2>1 DEF Local, g
<1>7. CASE n \in Range(Parameters(c)) /\ n \in ByTemporary(f, s)
  <2>1. g.at[n] = Local(p, n)
    BY <1>1, <1>7, ArgumentsAre DEF c, p
  <2> QED
    BY <1>1, <2>1 DEF Local, g
<1>8. CASE n \in Range(Parameters(c)) /\ n \notin ByTemporary(f, s)
  <2>1. g.at[n] = f.at[Actual(s, n)] /\ Actual(s, n) \in DOMAIN f.at
    BY <1>1, <1>8, ArgumentsAre DEF c
  <2>2. n \in Writable(g) =>
          /\ n \in Range(c.outs) \cup Range(c.ext)
          /\ Actual(s, n) \in Targets(s) /\ Actual(s, n) \notin Range(Code(f).ins)
    BY <1>2, <1>3, <1>4, <1>8
  <2>3. n \notin Writable(g) => Actual(s, n) \in Range(s.ins)
    BY <1>2, <1>4, <1>8 DEF CellNames
  <2> QED
    BY <1>8, <2>1, <2>2, <2>3 DEF Writable, g, c
<1> QED
  BY <1>1, <1>5, <1>6, <1>7, <1>8 DEF CellNames, g, c

(* What it writes has one name in it, and is apart from its caller.        *)
LEMMA NewDistinct ==
  ASSUME CodeInv, NEW f, NEW s, Calling(f, s), NEW M, Reaches(f, M), Distinct(f)
  PROVE  Distinct(Frame(f, s)) /\ Apart(Frame(f, s), f)
<1> DEFINE g == Frame(f, s)
           c == Callee(s)
           Fresh(n) == g.at[n].path = g.path /\ g.at[n].name = n
           Lent(n) ==
             /\ g.at[n] = f.at[Actual(s, n)] /\ Actual(s, n) \in DOMAIN f.at
             /\ n \in Range(Parameters(c))
             /\ n \in Writable(g) => /\ Actual(s, n) \in Writable(f) \cap Targets(s)
                                     /\ n \in Range(c.outs) \cup Range(c.ext)
             /\ n \notin Writable(g) => Actual(s, n) \in Range(s.ins)
<1>1. \A n \in DOMAIN g.at : Fresh(n) \/ Lent(n)
  BY NewCells
<1>2. g.path = CallPath(f, s) /\ Len(g.path) = Len(f.path) + 1 /\ Len(f.path) \in Nat
  BY CallPathIs, FrameIs DEF Calling
<1>3. /\ \A n, x \in Range(c.outs) \cup Range(c.ext) : Actual(s, n) = Actual(s, x) => n = x
  BY ParametersAre
<1>4. Range(s.ins) \cap Targets(s) = {} /\ s = Statement(f)
  BY CallIs DEF Calling
<1> HIDE DEF g, c
<1>5. \A k \in DOMAIN f.at : f.at[k].path # g.path
  <2> SUFFICES ASSUME NEW k \in DOMAIN f.at, f.at[k].path = g.path PROVE FALSE
    OBVIOUS
  <2>1. Len(f.at[k].path) <= Len(f.path)
    BY DEF Reaches
  <2> QED
    BY <1>2, <2>1
<1>6. ASSUME NEW n \in Writable(g), NEW k \in DOMAIN g.at, g.at[n] = g.at[k] PROVE n = k
  <2>1. n \in DOMAIN g.at
    BY DEF Writable
  <2>2. CASE Fresh(n) /\ Fresh(k)
    BY <1>6, <2>2
  <2>3. CASE Fresh(n) /\ Lent(k)
    BY <1>5, <1>6, <2>3
  <2>4. CASE Lent(n) /\ Fresh(k)
    BY <1>5, <1>6, <2>4
  <2>5. CASE Lent(n) /\ Lent(k)
    <3>1. Actual(s, n) = Actual(s, k)
      BY <1>6, <2>5 DEF Distinct
    <3>2. Actual(s, n) \in Targets(s)
      BY <2>5
    <3>3. k \in Writable(g)
      BY <1>4, <2>5, <3>1, <3>2
    <3> QED
      BY <1>3, <2>5, <3>1, <3>3
  <2> QED
    BY <1>1, <2>1, <2>2, <2>3, <2>4, <2>5
<1>7. ASSUME NEW n \in Writable(g), NEW k \in DOMAIN f.at, g.at[n] = f.at[k]
      PROVE  k \in Targets(s)
  <2>1. n \in DOMAIN g.at
    BY DEF Writable
  <2>2. Lent(n)
    BY <1>1, <1>5, <1>7, <2>1
  <2>3. Actual(s, n) = k
    BY <1>7, <2>2 DEF Distinct
  <2> QED
    BY <2>2, <2>3
<1> QED
  BY <1>4, <1>6, <1>7 DEF Distinct, Apart, g

(* It is apart from the calls that waited before.                          *)
LEMMA NewApart ==
  ASSUME CodeInv, NEW f, NEW s, Calling(f, s), NEW M, NEW h, Reaches(h, M), Apart(f, h),
         Len(h.path) < Len(f.path)
  PROVE  Apart(Frame(f, s), h)
<1> DEFINE g == Frame(f, s)
<1>1. g.path = CallPath(f, s) /\ Len(g.path) = Len(f.path) + 1 /\ Len(f.path) \in Nat
  BY CallPathIs, FrameIs DEF Calling
<1>2. ASSUME NEW n \in Writable(g)
      PROVE  g.at[n].path = g.path \/ (\E x \in Writable(f) : g.at[n] = f.at[x])
  <2>1. n \in DOMAIN g.at
    BY DEF Writable
  <2> QED
    BY <2>1, NewCells
<1> HIDE DEF g
<1>3. ASSUME NEW n \in Writable(g), NEW k \in DOMAIN h.at, g.at[n] = h.at[k]
      PROVE  k \in Targets(Statement(h))
  <2>1. CASE g.at[n].path = g.path
    <3>1. Len(h.at[k].path) <= Len(h.path)
      BY DEF Reaches
    <3> QED
      BY <1>1, <1>3, <2>1, <3>1
  <2>2. CASE \E x \in Writable(f) : g.at[n] = f.at[x]
    BY <1>3, <2>2 DEF Apart
  <2> QED
    BY <1>2, <2>1, <2>2
<1> QED
  BY <1>3 DEF Apart, g

(* What it writes is its own or lent to it.                                *)
LEMMA NewOwned ==
  ASSUME CodeInv, NEW fs, NEW f, NEW s, Calling(f, s), f = fs[1], Len(fs) \in Nat \ {0},
         Owned(fs, 1), NEW t, Pushed(t, fs, Frame(f, s))
  PROVE  Owned(t, 1)
<1> DEFINE g == Frame(f, s)
           n == Len(fs)
<1>1. t[1] = g /\ Len(t) = n + 1 /\ n \in Nat \ {0} /\ \A i \in 1 .. n : t[i + 1] = fs[i]
  BY DEF Pushed
<1>2. t[2] = f
  <2>1. 1 \in 1 .. n /\ 1 + 1 = 2
    BY <1>1
  <2> QED
    BY <1>1, <2>1
<1>3. ASSUME NEW x \in Writable(g)
      PROVE  \/ g.at[x].area = "stack" \/ Own(g, x)
             \/ \E y \in Writable(f) \cap Targets(s) : g.at[x] = f.at[y]
  <2>1. x \in DOMAIN g.at
    BY DEF Writable
  <2> QED
    BY <2>1, NewCells
<1>4. s = Statement(f)
  BY DEF Calling
<1> HIDE DEF g, n
<1>5. ASSUME NEW x \in Writable(g)
      PROVE  \/ g.at[x].area = "stack" \/ Own(g, x)
             \/ \E j \in 2 .. n + 1 : Lends(t[j], g.at[x])
  <2>1. ASSUME NEW y \in Writable(f) \cap Targets(s), g.at[x] = f.at[y]
        PROVE  \/ g.at[x].area = "stack"
               \/ \E j \in 2 .. n + 1 : Lends(t[j], g.at[x])
    <3>1. \/ f.at[y].area = "stack"
          \/ Own(f, y)
          \/ \E j \in 2 .. n : Lends(fs[j], f.at[y])
      BY DEF Owned, n
    <3>2. CASE Own(f, y)
      <4>1. Lends(f, f.at[y])
        BY <1>4, <2>1, <3>2 DEF Own, Lends
      <4>2. 2 \in 2 .. n + 1
        BY <1>1
      <4> QED
        BY <1>2, <2>1, <4>1, <4>2
    <3>3. ASSUME NEW j \in 2 .. n, Lends(fs[j], f.at[y])
          PROVE  \E l \in 2 .. n + 1 : Lends(t[l], g.at[x])
      <4>1. j + 1 \in 2 .. n + 1 /\ j \in 1 .. n
        BY <1>1
      <4>2. t[j + 1] = fs[j]
        BY <1>1, <4>1
      <4> QED
        BY <2>1, <3>3, <4>1, <4>2
    <3> QED
      BY <2>1, <3>1, <3>2, <3>3
  <2> QED
    BY <1>3, <2>1
<1> QED
  BY <1>1, <1>5 DEF Owned

(* A call leaves the stack in order.                                       *)
LEMMA CallOK ==
  ASSUME CodeInv, NEW fs, NEW M, StackOK(domain, fs, M), fs # <<>>,
         Struct(domain) \subseteq M, NEW f, f = fs[1], NEW s, Calling(f, s),
         NEW M2, M \subseteq M2, Made(f, s) \subseteq M2,
         NEW t, Pushed(t, fs, Frame(f, s))
  PROVE  StackOK(domain, t, M2)
<1> DEFINE g == Frame(f, s)
           n == Len(fs)
<1>1. n \in Nat \ {0} /\ DOMAIN fs = 1 .. n
  BY DEF StackOK
<1>2. /\ \A i \in 1 .. n : FrameOK(domain, fs, i, M)
      /\ \A j \in 1 .. n : 1 < j => Waits(fs[j]) /\ Apart(f, fs[j])
  BY <1>1 DEF StackOK
<1>3. /\ Shaped(f) /\ Len(f.path) = n - 1 /\ Reaches(f, M) /\ Distinct(f)
      /\ HasStruct(domain, f) /\ Owned(fs, 1)
  <2>1. FrameOK(domain, fs, 1, M)
    BY <1>1, <1>2
  <2> QED
    BY <2>1 DEF FrameOK
<1>4. Shaped(g) /\ Called(g, f) /\ Waits(f)
  BY NewShaped
<1>5. Reaches(g, M2) /\ HasStruct(domain, g)
  BY <1>3, NewReaches
<1>6. Distinct(g) /\ Apart(g, f)
  BY <1>3, NewDistinct
<1>7. ASSUME NEW j \in 1 .. n PROVE Apart(g, fs[j])
  <2>1. CASE j = 1
    BY <1>6, <2>1
  <2>2. CASE j # 1
    <3>1. Apart(f, fs[j]) /\ Reaches(fs[j], M) /\ Len(fs[j].path) = n - j
      <4>1. FrameOK(domain, fs, j, M)
        BY <1>2
      <4>2. j \in Int /\ 1 <= j /\ 1 < j
        BY <2>2
      <4>3. Apart(f, fs[j])
        BY <1>2, <4>2, Zenon
      <4> QED
        BY <4>1, <4>3 DEF FrameOK
    <3>2. Len(fs[j].path) < Len(f.path)
      <4>1. Len(f.path) = n - 1 /\ Len(fs[j].path) = n - j
        BY <1>3, <3>1, Zenon
      <4>2. n \in Nat
        BY <1>1, Zenon
      <4>3. n - j < n - 1
        <5> HIDE DEF n
        <5> QED
          BY <2>2, <4>2
      <4> HIDE DEF n
      <4> QED
        BY <4>1, <4>3
    <3> QED
      BY <3>1, <3>2, NewApart
  <2> QED
    BY <2>1, <2>2
<1>8. Owned(t, 1)
  BY <1>1, <1>3, NewOwned, Zenon
<1>9. Len(g.path) = n
  <2>1. g.path = CallPath(f, s) /\ Len(g.path) = Len(f.path) + 1
    BY CallPathIs, FrameIs DEF Calling
  <2> HIDE DEF g, n
  <2> QED
    BY <1>1, <1>3, <2>1
<1>10. StackOK(domain, fs, M2)
  BY CellsOK
<1> HIDE DEF g
<1> QED
  BY <1>1, <1>4, <1>5, <1>6, <1>7, <1>8, <1>9, <1>10, PushedOK DEF g

(* Where a call is after a statement.                                      *)
LEMMA AfterOK ==
  ASSUME CodeInv, NEW f, Shaped(f), f.pc # Done, NEW g, SameCells(g, f), g.pc = f.pc,
         DOMAIN g = DOMAIN f, DOMAIN g.val \cap (DOMAIN f.at \cup DOMAIN Literal) = {}, NEW m
  PROVE  LET h == After(g, m)
         IN  /\ Shaped(h) /\ SameCells(h, f) /\ h.val = g.val
             /\ h.pc = IF Ends(g, m) THEN Done
                       ELSE IF f.pc = Len(Code(f).body) THEN 1 ELSE f.pc + 1
<1> DEFINE h == After(g, m)
           e == Ends(g, m)
           l == Len(Code(f).body)
<1>1. /\ DOMAIN g = {"callable", "path", "pc", "at", "val"}
      /\ g.callable = f.callable /\ g.path = f.path /\ g.at = f.at
      /\ f.pc \in 1 .. l /\ l \in Nat
      /\ f.callable \in DOMAIN code /\ f.path \in Seq(Range(f.path))
      /\ DOMAIN f.at = CellNames(Code(f))
      /\ \A n \in DOMAIN Code(f).fields : f.at[n] = Field(f.path, n)
  BY StatementIs DEF Shaped, SameCells
<1>2. Code(g) = Code(f)
  BY <1>1 DEF Code
<1>3. h = [g EXCEPT !.pc = IF e THEN Done ELSE IF f.pc = l THEN 1 ELSE f.pc + 1]
  BY <1>2 DEF After
<1> HIDE DEF h, e, l
<1>4. /\ DOMAIN h = {"callable", "path", "pc", "at", "val"}
      /\ h.callable = f.callable /\ h.path = f.path /\ h.at = f.at /\ h.val = g.val
      /\ h.pc = IF e THEN Done ELSE IF f.pc = l THEN 1 ELSE f.pc + 1
  BY <1>1, <1>3
<1>5. h.pc \in 1 .. l \cup {Done}
  BY <1>1, <1>4
<1>6. Code(h) = Code(f)
  BY <1>4 DEF Code
<1>7. Shaped(h)
  BY <1>1, <1>4, <1>5, <1>6 DEF Shaped, l
<1> QED
  BY <1>4, <1>7 DEF SameCells, h, e, l

\* What a call that goes on may become.
GoesOn(f, g) ==
  /\ SameCells(g, f) /\ g.pc = f.pc /\ DOMAIN g = DOMAIN f
  /\ DOMAIN g.val \cap (DOMAIN f.at \cup DOMAIN Literal) = {}

(* A call that goes on leaves the stack in order.                          *)
LEMMA GoOnOK ==
  ASSUME CodeInv, NEW fs, NEW M, StackOK(domain, fs, M), fs # <<>>, NEW f, f = fs[1],
         f.pc # Done, NEW g, GoesOn(f, g), NEW m, NEW t, Joins(t, <<After(g, m)>>, Tail(fs))
  PROVE  /\ StackOK(domain, t, M) /\ Replaced(t, fs, After(g, m))
         /\ MemOK(fs, M) => MemOK(t, M)
<1> DEFINE h == After(g, m)
           n == Len(fs)
<1>1. n \in Nat \ {0} /\ fs \in Seq(Range(fs)) /\ DOMAIN fs = 1 .. n
  BY DEF StackOK
<1>2. Shaped(f)
  <2>1. 1 \in DOMAIN fs
    BY <1>1
  <2>2. FrameOK(domain, fs, 1, M)
    BY <2>1 DEF StackOK
  <2> QED
    BY <2>2 DEF FrameOK
<1>3. Shaped(h) /\ SameCells(h, f)
  BY <1>2, AfterOK DEF GoesOn
<1> HIDE DEF h
<1>4. Replaced(t, fs, h)
  <2>1. Joins(t, <<h>>, Tail(fs))
    BY DEF h
  <2> HIDE DEF n
  <2> QED
    BY <1>1, <2>1, StackReplaced
<1>5. StackOK(domain, t, M)
  BY <1>3, <1>4, ReplacedOK
<1>6. ASSUME MemOK(fs, M) PROVE MemOK(t, M)
  <2>1. \A i \in 1 .. n : t[i].path = fs[i].path
    <3> SUFFICES ASSUME NEW i \in 1 .. n PROVE t[i].path = fs[i].path
      OBVIOUS
    <3>1. CASE i = 1
      BY <1>3, <1>4, <3>1 DEF Replaced, SameCells
    <3>2. CASE i # 1
      <4>1. t[i] = fs[i]
        BY <1>1, <1>4, <3>2 DEF Replaced
      <4> QED
        BY <4>1
    <3> QED
      BY <3>1, <3>2
  <2>2. Len(t) = n
    BY <1>4 DEF Replaced
  <2>3. ASSUME NEW a \in M, a.area # "state"
        PROVE  a.area = "stack" /\ \E i \in 1 .. n - 1 : a.path = t[i].path
    <3>1. a.area = "stack" /\ \E i \in 1 .. n - 1 : a.path = fs[i].path
      BY <1>6, <2>3 DEF MemOK
    <3>2. 1 .. n - 1 \subseteq 1 .. n
      BY <1>1
    <3> HIDE DEF n
    <3> QED
      BY <2>1, <3>1, <3>2
  <2> QED
    BY <2>2, <2>3 DEF MemOK
<1> QED
  BY <1>4, <1>5, <1>6 DEF h

(* The call that runs.                                                     *)
LEMMA RunningIs ==
  ASSUME PointerInv, frames # <<>>
  PROVE  /\ CodeInv /\ Head(frames) = frames[1] /\ Shaped(Head(frames))
         /\ FrameOK(domain, frames, 1, DOMAIN mem)
         /\ Len(frames) \in Nat \ {0} /\ DOMAIN frames = 1 .. Len(frames)
         /\ frames \in Seq(Range(frames))
<1>1. frames \in Seq(Range(frames)) /\ \A i \in DOMAIN frames : FrameOK(domain, frames, i, DOMAIN mem)
  BY DEF PointerInv, StackOK
<1>2. Head(frames) = frames[1] /\ 1 \in DOMAIN frames /\ Len(frames) \in Nat \ {0}
      /\ DOMAIN frames = 1 .. Len(frames)
  BY <1>1
<1>3. FrameOK(domain, frames, 1, DOMAIN mem)
  BY <1>1, <1>2
<1>4. Shaped(frames[1])
  BY <1>3 DEF FrameOK
<1>5. CodeInv
  BY DEF PointerInv, CodeInv
<1> QED
  BY <1>1, <1>2, <1>3, <1>4, <1>5

-----------------------------------------------------------------------------
(* Every step keeps the pointers                                           *)

(* The order of a stack rests on the functions only.                       *)
LEMMA CodeStays ==
  ASSUME code' = code
  PROVE  \A d, fs, M : (StackOK(d, fs, M))' <=> StackOK(d, fs, M)
<1>1. \A f : Code(f)' = Code(f) /\ Statement(f)' = Statement(f)
  BY DEF Code, CodeOf, Statement
<1>2. \A s : Callee(s)' = Callee(s)
  BY DEF Callee, CodeOf
<1>3. \A f : Shaped(f)' <=> Shaped(f)
  BY <1>1 DEF Shaped
<1>4. \A f : Writable(f)' = Writable(f)
  BY <1>1 DEF Writable
<1>5. \A s, n : Actual(s, n)' = Actual(s, n)
  BY <1>2 DEF Actual
<1>6. \A f, s, n : ArgumentCell(f, s, n)' = ArgumentCell(f, s, n)
  BY <1>2, <1>5 DEF ArgumentCell, ByTemporary
<1>7. \A g, h : Called(g, h)' <=> Called(g, h)
  BY <1>1, <1>6 DEF Called
<1>8. \A f : Distinct(f)' <=> Distinct(f)
  BY <1>4 DEF Distinct
<1>9. \A f, h : Apart(f, h)' <=> Apart(f, h)
  BY <1>1, <1>4 DEF Apart
<1>10. \A h : Waits(h)' <=> Waits(h)
  BY <1>1 DEF Waits
<1>11. \A f, a : Lends(f, a)' <=> Lends(f, a)
  BY <1>1 DEF Lends
<1>12. \A f, n : Own(f, n)' <=> Own(f, n)
  BY <1>1 DEF Own
<1>13. \A fs, i : Owned(fs, i)' <=> Owned(fs, i)
  BY <1>4, <1>11, <1>12 DEF Owned
<1>14. \A d, fs, i, M : FrameOK(d, fs, i, M)' <=> FrameOK(d, fs, i, M)
  BY <1>3, <1>8, <1>13 DEF FrameOK
<1> QED
  BY <1>7, <1>9, <1>10, <1>14 DEF StackOK

(* What is left to show of a step.                                         *)
LEMMA PointerKept ==
  ASSUME PointerInv, prog' = prog, code' = code, NEW M, DOMAIN mem' = M,
         Struct(domain) \subseteq M, MemOK(frames', M), StackOK(domain, frames', M)
  PROVE  PointerInv'
<1>1. domain' = domain
  BY DEF domain
<1>2. prog' \in DOMAIN Programs /\ code' = Functions[prog']
  BY DEF PointerInv
<1>3. Struct(domain') \subseteq DOMAIN mem' /\ MemOK(frames', DOMAIN mem')
  BY <1>1
<1>4. (StackOK(domain, frames, DOMAIN mem))'
  BY <1>1, CodeStays
<1> QED
  BY <1>2, <1>3, <1>4 DEF PointerInv

(* A step of the innermost call that keeps its cells keeps the invariant.  *)
LEMMA GoOnKeeps ==
  ASSUME PointerInv, frames # <<>>, NEW f, f = Head(frames), f.pc # Done, NEW g, GoesOn(f, g),
         NEW m, DOMAIN m = DOMAIN mem, GoOn(g, m), prog' = prog, code' = code
  PROVE  PointerInv'
<1>1. CodeInv /\ f = frames[1]
  BY RunningIs
<1>2. mem' = m /\ Joins(frames', <<After(g, m)>>, Tail(frames))
  BY DEF GoOn, Joins
<1>3. /\ StackOK(domain, frames', DOMAIN mem)
      /\ MemOK(frames, DOMAIN mem) => MemOK(frames', DOMAIN mem)
  BY <1>1, <1>2, GoOnOK DEF PointerInv
<1>4. MemOK(frames', DOMAIN mem) /\ Struct(domain) \subseteq DOMAIN mem
  BY <1>3 DEF PointerInv
<1> QED
  BY <1>2, <1>3, <1>4, PointerKept

(* One function written over another.                                      *)
LEMMA OverDomain ==
  ASSUME NEW x, NEW y
  PROVE  /\ DOMAIN Over(x, y) = DOMAIN x \cup DOMAIN y
         /\ \A a \in DOMAIN Over(x, y) : Over(x, y)[a] = IF a \in DOMAIN x THEN x[a] ELSE y[a]
BY DEF Over

\* What a frame's statement may name.
LEMMA TargetsAre ==
  ASSUME CodeInv, NEW f, Shaped(f), f.pc # Done
  PROVE  /\ Targets(Statement(f)) \cap DOMAIN Literal = {}
         /\ Statement(f).op \in {"set", "reset", "call", "machine"}
         /\ Statement(f).op = "reset" => Range(Statement(f).vars) \subseteq DOMAIN f.at
         /\ Statement(f).op = "machine" =>
              {Statement(f).active, Statement(f).request} \subseteq DOMAIN Code(f).fields
         /\ DOMAIN Code(f).fields \subseteq DOMAIN f.at
<1>1. /\ f.pc \in DOMAIN Code(f).body /\ Statement(f) = Code(f).body[f.pc]
      /\ Statement(f) \in Range(Code(f).body) /\ GoodCode(Code(f))
  BY StatementIs
<1>2. OneMeaningPerName(Code(f)) /\ StatementsFit(code, Code(f))
  BY <1>1 DEF GoodCode
<1>3. Targets(Statement(f)) \cap DOMAIN Literal = {}
  BY <1>1, <1>2 DEF OneMeaningPerName
<1>4. DOMAIN f.at = CellNames(Code(f))
  BY DEF Shaped
<1>5. DOMAIN Code(f).fields \subseteq DOMAIN f.at
  BY <1>4 DEF CellNames
<1> DEFINE s == Statement(f)
<1>6. /\ s.op \in {"set", "reset", "call", "machine"}
      /\ s.op = "reset" => Range(s.vars) \subseteq CellNames(Code(f))
      /\ s.op = "machine" => {s.active, s.request} \subseteq DOMAIN Code(f).fields
  BY <1>1, <1>2 DEF StatementsFit
<1> QED
  BY <1>3, <1>4, <1>5, <1>6

(* Binding a value to a name leaves the cells where they are.              *)
LEMMA BoundGoesOn ==
  ASSUME CodeInv, NEW f, Shaped(f), NEW n, n \notin DOMAIN Literal, NEW v
  PROVE  GoesOn(f, Bound(f, n, v))
<1>1. CASE n \in DOMAIN f.at
  BY <1>1 DEF Bound, GoesOn, SameCells, Shaped
<1>2. CASE n \notin DOMAIN f.at
  <2> DEFINE o == [x \in {n} |-> v]
             w == Over(o, f.val)
  <2>1. Bound(f, n, v) = [f EXCEPT !.val = w]
    BY <1>2 DEF Bound
  <2>3. DOMAIN w = {n} \cup DOMAIN f.val
    BY DEF Over
  <2> HIDE DEF w
  <2> QED
    BY <1>2, <2>1, <2>3 DEF GoesOn, SameCells, Shaped
<1> QED
  BY <1>1, <1>2

(* An assignment keeps the invariant.                                      *)
LEMMA AssignKeeps ==
  ASSUME PointerInv, Assign, prog' = prog, code' = code
  PROVE  PointerInv'
<1> DEFINE f == Head(frames)
           s == Statement(f)
           v == Apply(s.expr[1], Value(f, mem, s.expr[2]), Value(f, mem, s.expr[3]))
           g == Bound(f, s.var, v)
           m == Write(f, mem, s.var, v)
<1>1. frames # <<>> /\ f.pc # Done /\ s.op = "set" /\ GoOn(g, m)
  BY DEF Assign, Running
<1>2. CodeInv /\ Shaped(f)
  BY <1>1, RunningIs
<1>3. s.var \notin DOMAIN Literal
  BY <1>1, <1>2, TargetsAre DEF Targets
<1>4. DOMAIN m = DOMAIN mem
  BY DEF Write
<1> HIDE DEF v
<1>5. GoesOn(f, g)
  BY <1>2, <1>3, BoundGoesOn
<1> HIDE DEF f, g, m
<1>6. f = Head(frames)
  BY DEF f
<1> QED
  BY <1>1, <1>4, <1>5, <1>6, GoOnKeeps

(* A frame goes on as itself.                                              *)
LEMMA SameGoesOn ==
  ASSUME NEW f, Shaped(f)
  PROVE  GoesOn(f, f)
BY DEF GoesOn, SameCells, Shaped

(* A reset keeps the invariant.                                            *)
LEMMA ResetKeeps ==
  ASSUME PointerInv, Reset, prog' = prog, code' = code
  PROVE  PointerInv'
<1> DEFINE f == Head(frames)
           s == Statement(f)
           o == [c \in {f.at[n] : n \in Range(s.vars)} |-> s.to]
           m == IF IsOn(f, mem, s.cond) THEN Over(o, mem) ELSE mem
<1>1. frames # <<>> /\ f.pc # Done /\ s.op = "reset" /\ GoOn(f, m)
  BY DEF Reset, Running
<1>2. CodeInv /\ Shaped(f) /\ FrameOK(domain, frames, 1, DOMAIN mem) /\ f = frames[1]
  BY <1>1, RunningIs
<1>3. Range(s.vars) \subseteq DOMAIN f.at
  BY <1>1, <1>2, TargetsAre
<1>4. Reaches(f, DOMAIN mem)
  BY <1>2 DEF FrameOK
<1>5. DOMAIN Over(o, mem) = DOMAIN o \cup DOMAIN mem
  BY OverDomain
<1>6. DOMAIN m = DOMAIN mem
  BY <1>3, <1>4, <1>5, Zenon DEF Reaches
<1>7. GoesOn(f, f)
  BY <1>2, SameGoesOn
<1>8. f = Head(frames)
  OBVIOUS
<1> HIDE DEF f, m, s
<1> QED
  BY <1>1, <1>6, <1>7, <1>8, GoOnKeeps

(* A state machine that runs keeps the invariant.                          *)
LEMMA MachineKeeps ==
  ASSUME PointerInv, RunMachine
  PROVE  PointerInv'
<1> DEFINE f == Head(frames)
           s == Statement(f)
           asked == Value(f, mem, s.request)
           leaves == asked \in DOMAIN s.goes /\ s.goes[asked][1] = Value(f, mem, s.active)
           m == IF leaves
                THEN [mem EXCEPT ![f.at[s.active]] = s.goes[asked][2], ![f.at[s.request]] = 0]
                ELSE mem
<1>1. frames # <<>> /\ f.pc # Done /\ s.op = "machine" /\ GoOn(f, m)
      /\ prog' = prog /\ code' = code
  BY DEF RunMachine, Running
<1>2. CodeInv /\ Shaped(f)
  BY <1>1, RunningIs
<1>3. DOMAIN m = DOMAIN mem
  OBVIOUS
<1>4. GoesOn(f, f)
  BY <1>2, SameGoesOn
<1>5. f = Head(frames)
  OBVIOUS
<1> HIDE DEF f, m, s
<1> QED
  BY <1>1, <1>3, <1>4, <1>5, GoOnKeeps, Zenon

\* The memory at the entry of a call.
Entered(f, s, left, m) ==
  LocalsSet(Callee(s), Frame(f, s).at,
            FieldsReset(Callee(s), Frame(f, s).at, Over(Arguments(f, s, left), m)))

(* What a call fills in are cells that it has made or that its caller has. *)
LEMMA PrefilledAre ==
  ASSUME CodeInv, NEW f, NEW s, Calling(f, s), NEW n \in Prefilled(Callee(s))
  PROVE  \/ /\ n \in Stored(Callee(s)) /\ Frame(f, s).at[n] = Local(CallPath(f, s), n)
         \/ /\ n \in Range(Callee(s).outs) /\ Callee(s).kind = "Loop"
            /\ Frame(f, s).at[n] = ArgumentCell(f, s, n)
<1> DEFINE c == Callee(s)
           g == Frame(f, s)
<1>1. /\ \A x \in Stored(c) : g.at[x] = Local(CallPath(f, s), x)
      /\ \A x \in Range(Parameters(c)) : g.at[x] = ArgumentCell(f, s, x)
  BY FrameIs
<1>2. Range(c.outs) \subseteq Range(Parameters(c))
  BY ParametersAre
<1> HIDE DEF g, c
<1>3. n \in Prefilled(c)
  BY DEF c
<1>4. CASE c.kind = "Loop"
  <2>1. n \in Range(c.outs)
    BY <1>3, <1>4 DEF Prefilled
  <2> QED
    BY <1>1, <1>2, <1>4, <2>1 DEF g, c
<1>5. CASE c.kind # "Loop"
  <2>1. n \in Stored(c)
    BY <1>3, <1>5 DEF Prefilled, Stored
  <2> QED
    BY <1>1, <2>1 DEF g, c
<1> QED
  BY <1>4, <1>5

(* Entering a call makes the cells of its temporaries and locals, and no   *)
(* other.                                                                  *)
LEMMA EntryCells ==
  ASSUME CodeInv, NEW f, NEW s, Calling(f, s), NEW M, Reaches(f, M),
         NEW left, NEW m, DOMAIN m = M
  PROVE  DOMAIN Entered(f, s, left, m) = M \cup Made(f, s)
<1> DEFINE c == Callee(s)
           at == Frame(f, s).at
           args == Arguments(f, s, left)
           m1 == Over(args, m)
           m2 == FieldsReset(c, at, m1)
           P == {at[n] : n \in Prefilled(c)}
<1>1. Len(Dictionary) \in Nat
  BY NamesAssumption
<1>2. DOMAIN m1 = DOMAIN args \cup M
  BY DEF Over
<1>3. DOMAIN m2 = DOMAIN m1
  BY <1>1, ResetsKeepCells
<1>4. Entered(f, s, left, m) = LocalsSet(c, at, m2)
  BY DEF Entered
<1>5. DOMAIN LocalsSet(c, at, m2) = P \cup DOMAIN m2
  <2> HIDE DEF m2, at, c
  <2> QED
    BY DEF LocalsSet, Over
<1>6. DOMAIN args = {Local(CallPath(f, s), n) : n \in ByTemporary(f, s)}
  BY DEF Arguments
<1>7. Made(f, s) = DOMAIN args \cup {Local(CallPath(f, s), n) : n \in Stored(c)}
  BY <1>6 DEF Made
<1>8. ASSUME NEW n \in Prefilled(c) PROVE at[n] \in M \cup Made(f, s)
  <2>1. CASE n \in Stored(c) /\ at[n] = Local(CallPath(f, s), n)
    BY <1>7, <2>1
  <2>2. CASE n \in Range(c.outs) /\ at[n] = ArgumentCell(f, s, n)
    <3>1. n \in Range(Parameters(c))
      BY <2>2, ParametersAre
    <3>2. CASE ArgumentCell(f, s, n) \in Made(f, s)
      BY <2>2, <3>2
    <3>3. CASE Actual(s, n) \in DOMAIN f.at /\ ArgumentCell(f, s, n) = f.at[Actual(s, n)]
      BY <2>2, <3>3 DEF Reaches
    <3> QED
      BY <3>1, <3>2, <3>3, ArgumentsAre
  <2> QED
    BY <2>1, <2>2, PrefilledAre
<1>9. ASSUME NEW n \in Stored(c) PROVE Local(CallPath(f, s), n) \in P \cup M \cup DOMAIN args
  <2>1. at[n] = Local(CallPath(f, s), n)
    BY FrameIs
  <2>2. CASE c.kind = "Loop"
    BY <2>2 DEF Stored
  <2>3. CASE c.kind # "Loop"
    <3>1. n \in Prefilled(c)
      BY <2>3 DEF Prefilled, Stored
    <3> QED
      BY <2>1, <3>1
  <2> QED
    BY <2>2, <2>3
<1>10. DOMAIN Entered(f, s, left, m) = P \cup DOMAIN args \cup M
  BY <1>2, <1>3, <1>4, <1>5
<1> HIDE DEF c, at, args, m1, m2
<1> QED
  BY <1>7, <1>8, <1>9, <1>10

(* The same of the memory there is.                                        *)
LEMMA EntryMakes ==
  CodeInv => \A F, S, L, N : Calling(F, S) /\ Reaches(F, N) /\ DOMAIN mem = N
                             => DOMAIN Entered(F, S, L, mem) = N \cup Made(F, S)
<1> SUFFICES ASSUME CodeInv, NEW F, NEW S, NEW L, NEW N, Calling(F, S), Reaches(F, N),
                    DOMAIN mem = N
             PROVE  DOMAIN Entered(F, S, L, mem) = N \cup Made(F, S)
  OBVIOUS
<1>1. PICK m : m = mem /\ DOMAIN m = N
  OBVIOUS
<1>2. DOMAIN Entered(F, S, L, m) = N \cup Made(F, S)
  BY <1>1, EntryCells
<1> QED
  BY <1>1, <1>2

(* A call keeps the invariant.                                             *)
LEMMA CallKeeps ==
  ASSUME PointerInv, Call, prog' = prog, code' = code
  PROVE  PointerInv'
<1> DEFINE f == Head(frames)
           s == Statement(f)
           g == Frame(f, s)
           M == DOMAIN mem
           M2 == M \cup Made(f, s)
           n == Len(frames)
<1>1. frames # <<>> /\ f.pc # Done /\ s.op = "call"
  BY DEF Call, Running
<1>2. PICK left : mem' = Entered(f, s, left, mem)
  BY DEF Call, Entered
<1>3. Joins(frames', <<g>>, frames)
  BY DEF Call, Joins
<1>4. CodeInv /\ f = frames[1] /\ Shaped(f) /\ FrameOK(domain, frames, 1, M)
      /\ n \in Nat \ {0} /\ DOMAIN frames = 1 .. n /\ frames \in Seq(Range(frames))
  BY <1>1, RunningIs
<1>5. Calling(f, s)
  BY <1>1, <1>4 DEF Calling
<1>6. StackOK(domain, frames, M) /\ Struct(domain) \subseteq M /\ MemOK(frames, M)
  BY DEF PointerInv
<1>7. Reaches(f, M)
  BY <1>4, Zenon DEF FrameOK
<1> HIDE DEF g, f, s, M
<1>8. M = DOMAIN mem /\ DOMAIN mem' = M2
  <2>1. M = DOMAIN mem
    BY DEF M
  <2>2. DOMAIN Entered(f, s, left, mem) = M \cup Made(f, s)
    BY <1>4, <1>5, <1>7, <2>1, EntryMakes
  <2> QED
    BY <1>2, <2>1, <2>2
<1>9. Pushed(frames', frames, g)
  <2> HIDE DEF n
  <2> QED
    BY <1>3, <1>4, StackPushed
<1>10. M \subseteq M2 /\ Made(f, s) \subseteq M2
  OBVIOUS
<1>11. StackOK(domain, frames', M2)
  <2>1. Pushed(frames', frames, Frame(f, s))
    BY <1>9 DEF g
  <2> HIDE DEF M2
  <2> QED
    BY <1>1, <1>4, <1>5, <1>6, <1>10, <2>1, CallOK
<1>12. ASSUME NEW a \in M2, a.area # "state"
       PROVE  a.area = "stack" /\ \E i \in 1 .. Len(frames') - 1 : a.path = frames'[i].path
  <2>1. /\ Len(frames') = n + 1 /\ frames'[1] = g
        /\ \A i \in 1 .. n : frames'[i + 1] = frames[i]
    BY <1>9 DEF Pushed
  <2>2. CASE a \in Made(f, s)
    <3>1. a.area = "stack" /\ a.path = CallPath(f, s)
      BY <2>2 DEF Made, Local
    <3>2. g.path = CallPath(f, s)
      BY <1>4, <1>5, FrameIs DEF g
    <3>3. 1 \in 1 .. (n + 1) - 1
      BY <1>4
    <3> QED
      BY <2>1, <3>1, <3>2, <3>3
  <2>3. CASE a \in M
    <3>1. a.area = "stack" /\ \E i \in 1 .. n - 1 : a.path = frames[i].path
      BY <1>6, <1>12, <2>3 DEF MemOK
    <3>2. PICK i \in 1 .. n - 1 : a.path = frames[i].path
      BY <3>1
    <3>3. i \in 1 .. n /\ i + 1 \in 1 .. (n + 1) - 1
      BY <1>4
    <3>4. frames'[i + 1] = frames[i]
      BY <2>1, <3>3
    <3> HIDE DEF n
    <3> QED
      BY <2>1, <3>1, <3>2, <3>3, <3>4
  <2> QED
    BY <2>2, <2>3
<1>13. MemOK(frames', M2)
  BY <1>12 DEF MemOK
<1>14. Struct(domain) \subseteq M2
  BY <1>6
<1> HIDE DEF M2
<1> QED
  BY <1>8, <1>11, <1>13, <1>14, PointerKept

(* What is left when the stack cells of a call are dropped.                *)
LEMMA WithoutIs ==
  ASSUME NEW p, NEW m
  PROVE  /\ DOMAIN Without(p, m) = {a \in DOMAIN m : ~(a.area = "stack" /\ a.path = p)}
         /\ \A a \in DOMAIN Without(p, m) : Without(p, m)[a] = m[a]
BY DEF Without

(* The cells of structs are no stack cells.                                *)
LEMMA StructIsState ==
  ASSUME NEW d
  PROVE  \A a \in Struct(d) : a.area = "state"
BY DEF Struct, OwnCells, InstanceCells, Field

(* What a call gives back are new values of names that are no cells.       *)
LEMMA OutputsGoOn ==
  ASSUME CodeInv, NEW f, NEW s, Calling(f, s), NEW m
  PROVE  GoesOn(f, WithOutputs(f, s, m))
<1> DEFINE X == {Actual(s, n) : n \in ReadBack(f, s)}
           o == [x \in X |-> m[Local(CallPath(f, s), CHOOSE n \in ReadBack(f, s) : Actual(s, n) = x)]]
           w == Over(o, f.val)
           g == WithOutputs(f, s, m)
<1>1. DOMAIN w = X \cup DOMAIN f.val
  <2>1. DOMAIN o = X
    OBVIOUS
  <2> HIDE DEF o, X
  <2> QED
    BY <2>1 DEF Over
<1>2. X \cap DOMAIN f.at = {}
  BY DEF ReadBack, ByTemporary
<1>3. X \cap DOMAIN Literal = {}
  <2>1. \A n \in ReadBack(f, s) : Actual(s, n) \in Range(s.outs)
    BY ParametersAre DEF ReadBack
  <2>2. Range(s.outs) \subseteq Targets(s)
    BY CallIs
  <2>3. Targets(s) \cap DOMAIN Literal = {}
    BY TargetsAre DEF Calling
  <2> QED
    BY <2>1, <2>2, <2>3
<1>4. g = [f EXCEPT !.val = w]
  BY DEF WithOutputs
<1>5. Shaped(f)
  BY DEF Calling
<1> HIDE DEF X, w, g
<1> QED
  BY <1>1, <1>2, <1>3, <1>4, <1>5 DEF GoesOn, SameCells, Shaped, g

(* Paths of calls that run, and of the call of the innermost.              *)
LEMMA PathsAre ==
  ASSUME NEW d, NEW fs, NEW M, StackOK(d, fs, M), NEW i \in DOMAIN fs
  PROVE  /\ Len(fs[i].path) = Len(fs) - i /\ Reaches(fs[i], M) /\ Shaped(fs[i])
         /\ Len(fs) \in Nat /\ DOMAIN fs = 1 .. Len(fs) /\ i \in Nat
<1>1. FrameOK(d, fs, i, M) /\ Len(fs) \in Nat /\ DOMAIN fs = 1 .. Len(fs)
  BY DEF StackOK
<1>2. Len(fs[i].path) = Len(fs) - i /\ Reaches(fs[i], M) /\ Shaped(fs[i])
  BY <1>1 DEF FrameOK
<1> QED
  BY <1>1, <1>2

(* A call about to be made has no cell on the stack.                       *)
LEMMA NoCellsYet ==
  ASSUME NEW d, NEW fs, NEW M, StackOK(d, fs, M), MemOK(fs, M), fs # <<>>, NEW s, NEW a \in M,
         a.area = "stack"
  PROVE  a.path # CallPath(fs[1], s)
<1> DEFINE n == Len(fs)
<1>1. n \in Nat \ {0} /\ DOMAIN fs = 1 .. n
  BY DEF StackOK
<1>2. PICK i \in 1 .. n - 1 : a.path = fs[i].path
  BY DEF MemOK
<1>3. i \in DOMAIN fs /\ 1 \in DOMAIN fs /\ i \in Nat \ {0}
  BY <1>1
<1>4. Len(fs[i].path) = n - i /\ Len(fs[1].path) = n - 1 /\ Shaped(fs[1])
  BY <1>3, PathsAre
<1>5. Len(CallPath(fs[1], s)) = Len(fs[1].path) + 1
  BY <1>4, CallPathIs
<1> HIDE DEF n
<1>6. Len(fs[i].path) # Len(CallPath(fs[1], s))
  BY <1>1, <1>3, <1>4, <1>5
<1> QED
  BY <1>2, <1>6

(* A conditional call passed by keeps the invariant.                       *)
LEMMA PassByKeeps ==
  ASSUME PointerInv, PassBy, prog' = prog, code' = code
  PROVE  PointerInv'
<1>1. PICK f, s : f = Head(frames) /\ s = Statement(f)
  OBVIOUS
<1> DEFINE M == DOMAIN mem
<1>2. frames # <<>> /\ f.pc # Done /\ s.op = "call"
  BY <1>1 DEF PassBy, Running
<1>3. PICK left : Returned(f, s, Over(Arguments(f, s, left), mem), Tail(frames))
  BY <1>1 DEF PassBy
<1> DEFINE m == Over(Arguments(f, s, left), mem)
           rest == Without(CallPath(f, s), m)
           g == WithOutputs(f, s, m)
<1>4. mem' = rest /\ Joins(frames', <<After(g, rest)>>, Tail(frames))
  BY <1>3 DEF Returned, Joins
<1>5. CodeInv /\ f = frames[1] /\ Shaped(f)
  BY <1>1, <1>2, RunningIs
<1>6. Calling(f, s)
  BY <1>1, <1>2, <1>5 DEF Calling
<1>7. GoesOn(f, g)
  BY <1>5, <1>6, OutputsGoOn
<1>8. DOMAIN rest = M
  <2>1. DOMAIN m = DOMAIN Arguments(f, s, left) \cup M
    BY DEF Over
  <2>2. \A a \in DOMAIN Arguments(f, s, left) : a.area = "stack" /\ a.path = CallPath(f, s)
    BY DEF Arguments, Local
  <2>3. \A a \in M : ~(a.area = "stack" /\ a.path = CallPath(f, s))
    BY <1>2, <1>5, NoCellsYet DEF PointerInv
  <2>4. DOMAIN rest = {a \in DOMAIN m : ~(a.area = "stack" /\ a.path = CallPath(f, s))}
    <3> HIDE DEF m
    <3> QED
      BY WithoutIs
  <2> HIDE DEF rest, m, M
  <2> QED
    BY <2>1, <2>2, <2>3, <2>4
<1> HIDE DEF rest, g, m
<1>9. /\ StackOK(domain, frames', M)
      /\ MemOK(frames, M) => MemOK(frames', M)
  BY <1>2, <1>4, <1>5, <1>7, GoOnOK DEF PointerInv
<1>10. MemOK(frames', M) /\ Struct(domain) \subseteq M
  BY <1>9 DEF PointerInv
<1> QED
  BY <1>4, <1>8, <1>9, <1>10, PointerKept

\* The stack of the call that has ended is no cell of the others.
Left(M, p) == {a \in M : ~(a.area = "stack" /\ a.path = p)}

(* A call that has ended, and its stack, are gone.                         *)
LEMMA EndedOK ==
  ASSUME NEW d, NEW fs, NEW M, StackOK(d, fs, M), MemOK(fs, M), Len(fs) > 1,
         NEW t, Popped(t, fs)
  PROVE  /\ StackOK(d, t, Left(M, fs[1].path)) /\ MemOK(t, Left(M, fs[1].path))
         /\ t[1] = fs[2] /\ Len(t) = Len(fs) - 1 /\ t # <<>>
<1> DEFINE n == Len(fs)
           M2 == Left(M, fs[1].path)
<1>1. n \in Nat /\ n > 1 /\ DOMAIN fs = 1 .. n
  BY DEF StackOK
<1>2. t \in Seq(Range(t)) /\ Len(t) = n - 1 /\ \A i \in 1 .. n - 1 : t[i] = fs[i + 1]
  BY DEF Popped
<1> HIDE DEF n
<1>3. t[1] = fs[2] /\ t # <<>> /\ DOMAIN t = 1 .. n - 1
  <2>1. 1 \in 1 .. n - 1 /\ 1 + 1 = 2
    BY <1>1
  <2>2. DOMAIN t = 1 .. n - 1
    BY <1>2
  <2> QED
    BY <1>2, <2>1, <2>2
<1>4. StackOK(d, t, M)
  BY <1>1, PoppedOK DEF n
<1>5. ASSUME NEW i \in 1 .. n - 1, NEW k \in DOMAIN t[i].at
      PROVE  t[i].at[k] \in M2
  <2>1. t[i].at[k] \in M /\ Len(t[i].at[k].path) <= Len(t[i].path)
        /\ Len(t[i].path) = (n - 1) - i /\ Len(t[i].path) \in Nat
    <3>1. Reaches(t[i], M) /\ Len(t[i].path) = Len(t) - i /\ Shaped(t[i])
      BY <1>3, <1>4, PathsAre
    <3>2. Len(t[i].path) \in Nat
      BY <3>1, CallPathIs
    <3> QED
      BY <1>2, <3>1, <3>2 DEF Reaches
  <2>2. Len(fs[1].path) = n - 1 /\ 1 \in DOMAIN fs
    <3>1. 1 \in DOMAIN fs
      BY <1>1
    <3> QED
      BY <3>1, PathsAre DEF n
  <2>3. t[i].at[k].path # fs[1].path
    <3>1. ~(n - 1 <= (n - 1) - i)
      BY <1>1
    <3> QED
      BY <2>1, <2>2, <3>1
  <2> QED
    BY <2>1, <2>3 DEF Left
<1>6. StackOK(d, t, M2)
  <2>1. \A a \in M : (\E i \in DOMAIN t : \E k \in DOMAIN t[i].at : t[i].at[k] = a) => a \in M2
    BY <1>3, <1>5
  <2> HIDE DEF M2
  <2> QED
    BY <1>4, <2>1, CellsOK
<1>7. ASSUME NEW a \in M2, a.area # "state"
      PROVE  a.area = "stack" /\ \E i \in 1 .. Len(t) - 1 : a.path = t[i].path
  <2>1. a \in M /\ ~(a.area = "stack" /\ a.path = fs[1].path)
    BY DEF Left
  <2>2. a.area = "stack" /\ \E i \in 1 .. n - 1 : a.path = fs[i].path
    BY <1>7, <2>1 DEF MemOK, n
  <2>3. PICK i \in 1 .. n - 1 : a.path = fs[i].path
    BY <2>2
  <2>4. i # 1
    BY <2>1, <2>2, <2>3
  <2>5. i - 1 \in 1 .. (n - 1) - 1 /\ i - 1 \in 1 .. n - 1 /\ (i - 1) + 1 = i
    BY <1>1, <2>4
  <2>6. t[i - 1] = fs[i]
    BY <1>2, <2>5
  <2> QED
    BY <1>2, <2>2, <2>3, <2>5, <2>6
<1>8. MemOK(t, M2)
  BY <1>7 DEF MemOK
<1> QED
  BY <1>2, <1>3, <1>6, <1>8 DEF n

(* A return keeps the invariant.                                           *)
LEMMA ReturnKeeps ==
  ASSUME PointerInv, Return, prog' = prog, code' = code
  PROVE  PointerInv'
<1>1. PICK f, s, t : f = frames[2] /\ s = Statement(f) /\ t = Tail(frames)
  OBVIOUS
<1> DEFINE M == DOMAIN mem
           rest == Without(CallPath(f, s), mem)
           g == WithOutputs(f, s, mem)
           M2 == Left(M, frames[1].path)
<1>2. Len(frames) > 1 /\ mem' = rest /\ Joins(frames', <<After(g, rest)>>, Tail(t))
  BY <1>1 DEF Return, Returned, Joins
<1>3. frames \in Seq(Range(frames)) /\ frames # <<>> /\ 2 \in DOMAIN frames /\ 1 \in DOMAIN frames
      /\ 1 + 1 \in DOMAIN frames /\ 1 + 1 = 2 /\ 1 < 2
  BY <1>2 DEF PointerInv, StackOK
<1>4. Popped(t, frames)
  BY <1>1, <1>3, StackPopped
<1>5. StackOK(domain, t, M2) /\ MemOK(t, M2) /\ t[1] = f /\ t # <<>>
  BY <1>1, <1>2, <1>4, EndedOK DEF PointerInv
<1>6. Waits(f) /\ Called(frames[1], f)
  BY <1>1, <1>3 DEF PointerInv, StackOK
<1>7. CodeInv /\ Shaped(f)
  <2>1. Shaped(frames[2])
    BY <1>3, PathsAre DEF PointerInv
  <2> QED
    BY <1>1, <2>1 DEF PointerInv, CodeInv
<1>8. Calling(f, s)
  BY <1>1, <1>6, <1>7 DEF Waits, Calling
<1>9. GoesOn(f, g) /\ f.pc # Done
  BY <1>6, <1>7, <1>8, OutputsGoOn DEF Waits
<1>10. DOMAIN rest = M2
  <2>1. frames[1].path = CallPath(f, s)
    BY <1>1, <1>6 DEF Called
  <2> QED
    BY <2>1 DEF Left, Without
<1> HIDE DEF rest, g, M2
<1>11. /\ StackOK(domain, frames', M2)
       /\ MemOK(t, M2) => MemOK(frames', M2)
  BY <1>2, <1>5, <1>7, <1>9, GoOnOK
<1>12. MemOK(frames', M2)
  BY <1>5, <1>11
<1>13. Struct(domain) \subseteq M2
  BY StructIsState DEF PointerInv, M2, Left
<1> HIDE DEF M
<1> QED
  BY <1>2, <1>10, <1>11, <1>12, <1>13, PointerKept

(* No call runs in an allocated struct.                                    *)
LEMMA NoCallsOK ==
  ASSUME NEW d, NEW M
  PROVE  StackOK(d, <<>>, M) /\ ((\A a \in M : a.area = "state") => MemOK(<<>>, M))
<1>1. <<>> \in Seq(Range(<<>>)) /\ DOMAIN <<>> = {}
  OBVIOUS
<1>2. StackOK(d, <<>>, M)
  BY <1>1 DEF StackOK
<1> QED
  BY <1>2 DEF MemOK

(* It holds of a domain just allocated.                                    *)
LEMMA AllocatePoints == Allocate => PointerInv
<1> SUFFICES ASSUME Allocate PROVE PointerInv
  OBVIOUS
<1>1. prog \in DOMAIN Programs /\ code = Functions[prog] /\ mem = Allocated[prog] /\ frames = <<>>
      /\ domain = Programs[prog]
  BY DEF Allocate, domain
<1>2. DOMAIN Allocated[prog] = Struct(domain)
  <2> DEFINE d == Programs[prog]
             x == [a \in OwnCells(d) |-> d.fields[a.name]]
             y == [a \in InstanceCells(d) |->
                     d.callables[(CHOOSE i \in Instances(d) : i[1] = a.path)[2]].fields[a.name]]
  <2>1. Allocated[prog] = Over(x, y)
    BY <1>1, Zenon DEF Allocated
  <2>2. DOMAIN x = OwnCells(d) /\ DOMAIN y = InstanceCells(d)
    OBVIOUS
  <2>3. DOMAIN Over(x, y) = DOMAIN x \cup DOMAIN y
    BY OverDomain, Zenon
  <2> HIDE DEF x, y
  <2> QED
    BY <1>1, <2>1, <2>2, <2>3, Zenon DEF Struct
<1>3. \A a \in DOMAIN mem : a.area = "state"
  BY <1>1, <1>2, StructIsState
<1>4. MemOK(frames, DOMAIN mem) /\ StackOK(domain, frames, DOMAIN mem)
  BY <1>1, <1>3, NoCallsOK
<1> QED
  BY <1>1, <1>2, <1>4 DEF PointerInv

(* The frame of a domain function that the host calls.                     *)
LEMMA EntryOK ==
  ASSUME CodeInv, NEW function \in {"init", "process"}, NEW M, Struct(domain) \subseteq M
  PROVE  StackOK(domain, Entry(function), M) /\ Len(Entry(function)) = 1
<1> DEFINE c == CodeOf(function)
           e == [callable |-> function, path |-> <<>>, pc |-> Start(c),
                 at |-> [n \in DOMAIN c.fields |-> Field(<<>>, n)], val |-> <<>>]
           t == Entry(function)
<1>1. t = <<e>>
  BY DEF Entry
<1> HIDE DEF t
<1>2. /\ DOMAIN e = {"callable", "path", "pc", "at", "val"}
      /\ e.callable = function /\ e.path = <<>> /\ e.pc = Start(c) /\ e.val = <<>>
      /\ DOMAIN e.at = DOMAIN c.fields /\ \A n \in DOMAIN c.fields : e.at[n] = Field(<<>>, n)
  OBVIOUS
<1> HIDE DEF e
<1>3. t \in Seq(Range(t)) /\ Len(t) = 1 /\ t[1] = e /\ DOMAIN t = {1}
  <2>1. t \in Seq({e}) /\ Len(t) = 1 /\ t[1] = e
    BY <1>1
  <2> QED
    BY <2>1 DEF Range
<1>4. Code(e) = c /\ function \in DOMAIN code /\ c = code[function] /\ GoodCode(c)
  BY <1>2, CodeIs DEF Code, CodeOf
<1>5. /\ c.outs = <<>> /\ c.ins = <<>> /\ c.ext = <<>> /\ c.fields = domain.fields /\ c.starts = <<>>
  BY <1>4, CodeIs DEF DomainFunction
<1>6. CellNames(c) = DOMAIN c.fields
  <2>1. Locals(c) = {}
    BY <1>5 DEF Locals
  <2>2. Stored(c) = {}
    BY <2>1 DEF Stored
  <2>3. Parameters(c) = <<>>
    BY <1>5 DEF Parameters
  <2>4. Range(<<>>) = {}
    BY DEF Range
  <2> QED
    BY <2>2, <2>3, <2>4 DEF CellNames
<1> HIDE DEF c
<1>7. Start(c) \in 1 .. Len(c.body) \cup {Done}
  BY <1>4, StartIs
<1>8. <<>> \in Seq(Range(<<>>)) /\ DOMAIN <<>> = {} /\ Len(<<>>) = 0
  OBVIOUS
<1>9. Shaped(e)
  <2>1. e.path \in Seq(Range(e.path))
    BY <1>2, <1>8
  <2>2. DOMAIN e.val = {}
    BY <1>2, <1>8
  <2> QED
    BY <1>2, <1>4, <1>6, <1>7, <2>1, <2>2 DEF Shaped
<1>10. Reaches(e, M)
  <2>1. \A n \in DOMAIN c.fields : Field(<<>>, n) \in M
    BY <1>5 DEF Struct, OwnCells
  <2>2. \A n : Len(Field(<<>>, n).path) <= Len(<<>>)
    BY <1>8 DEF Field
  <2> QED
    BY <1>2, <2>1, <2>2 DEF Reaches
<1>11. Distinct(e)
  <2>1. \A n, k : Field(<<>>, n) = Field(<<>>, k) => n = k
    BY DEF Field
  <2> QED
    BY <1>2, <2>1 DEF Distinct, Writable
<1>12. HasStruct(domain, e)
  BY <1>2 DEF HasStruct
<1>13. Owned(t, 1)
  <2>1. \A n \in Writable(e) : Own(e, n)
    BY <1>2, <1>4 DEF Own, Writable
  <2> QED
    BY <1>3, <2>1 DEF Owned
<1>14. Len(e.path) = Len(t) - 1
  BY <1>2, <1>3, <1>8
<1>15. FrameOK(domain, t, 1, M)
  BY <1>3, <1>9, <1>10, <1>11, <1>12, <1>13, <1>14 DEF FrameOK
<1>16. \A i, j \in DOMAIN t : ~(i < j) /\ i + 1 \notin DOMAIN t
  BY <1>3
<1>17. \A i \in DOMAIN t : FrameOK(domain, t, i, M)
  BY <1>3, <1>15
<1>18. StackOK(domain, t, M)
  BY <1>3, <1>16, <1>17 DEF StackOK
<1> QED
  BY <1>3, <1>18 DEF t

(* The host calls a function of the domain.                                *)
LEMMA CallFunctionKeeps ==
  ASSUME PointerInv, NEW function \in {"init", "process"}, CallFunction(function)
  PROVE  PointerInv'
<1> DEFINE M == DOMAIN mem
<1>1. frames = <<>> /\ frames' = Entry(function) /\ prog' = prog /\ code' = code /\ mem' = mem
  BY DEF CallFunction, Idle
<1>2. CodeInv /\ Struct(domain) \subseteq M /\ MemOK(frames, M)
  BY DEF PointerInv, CodeInv
<1> HIDE DEF M
<1>3. StackOK(domain, frames', M)
  BY <1>1, <1>2, EntryOK
<1>4. MemOK(frames', M)
  BY <1>1, <1>2 DEF MemOK
<1> QED
  BY <1>1, <1>2, <1>3, <1>4, PointerKept DEF M

\* Between calls all cells are fields.
LEMMA IdleCells ==
  ASSUME PointerInv, Idle
  PROVE  \A a \in DOMAIN mem : a.area = "state"
BY DEF PointerInv, Idle, MemOK

(* Between two calls of the host there is no frame to keep in order.       *)
LEMMA IdleKeeps ==
  ASSUME PointerInv, frames' = <<>>, prog' = prog, code' = code,
         DOMAIN mem \subseteq DOMAIN mem', \A a \in DOMAIN mem' : a.area = "state"
  PROVE  PointerInv'
<1> DEFINE M == DOMAIN mem'
<1>1. StackOK(domain, frames', M) /\ MemOK(frames', M)
  BY NoCallsOK
<1>2. Struct(domain) \subseteq M
  BY DEF PointerInv
<1> HIDE DEF M
<1> QED
  BY <1>1, <1>2, PointerKept DEF M

(* The end of a call of the host keeps the invariant.                      *)
LEMMA EndOfCallKeeps ==
  ASSUME PointerInv, EndOfCall
  PROVE  PointerInv'
<1>1. /\ Len(frames) = 1 /\ frames' = <<>> /\ mem' = mem /\ prog' = prog /\ code' = code
  BY DEF EndOfCall, Returns
<1>2. \A a \in DOMAIN mem' : a.area = "state"
  <2>1. MemOK(frames, DOMAIN mem)
    BY DEF PointerInv
  <2> QED
    BY <1>1, <2>1 DEF MemOK
<1> QED
  BY <1>1, <1>2, IdleKeeps

(* A host that writes a field keeps it.                                    *)
LEMMA SetStateVarKeeps ==
  ASSUME PointerInv, NEW w \in HostWrites, SetStateVar(w)
  PROVE  PointerInv'
<1>1. frames' = <<>> /\ prog' = prog /\ code' = code /\ \A a \in DOMAIN mem : a.area = "state"
  BY IdleCells DEF SetStateVar, Idle
<1>2. CASE mem' = mem
  BY <1>1, <1>2, IdleKeeps
<1>3. CASE mem' # mem
  <2>1. PICK e, X :
          mem' = Over([a \in {Field(<<>>, e)} |-> w.value],
                      Over([a \in {Field(<<>>, x) : x \in X} |-> 0], mem))
    BY <1>3 DEF SetStateVar
  <2>2. DOMAIN mem' = {Field(<<>>, e)} \cup {Field(<<>>, x) : x \in X} \cup DOMAIN mem
    BY <2>1 DEF Over
  <2>3. DOMAIN mem \subseteq DOMAIN mem' /\ \A a \in DOMAIN mem' : a.area = "state"
    BY <1>1, <2>2 DEF Field
  <2> QED
    BY <1>1, <2>3, IdleKeeps
<1> QED
  BY <1>2, <1>3

(* A host that requests a transition keeps it.                             *)
LEMMA RequestKeeps ==
  ASSUME PointerInv, NEW r \in HostRequests, RequestTransition(r)
  PROVE  PointerInv'
<1>1. frames' = <<>> /\ prog' = prog /\ code' = code /\ \A a \in DOMAIN mem : a.area = "state"
  BY IdleCells DEF RequestTransition, Idle
<1>2. DOMAIN mem' = DOMAIN mem
  BY DEF RequestTransition
<1> QED
  BY <1>1, <1>2, IdleKeeps

(* Every step keeps it.                                                    *)
LEMMA StepPoints == PointerInv /\ [Step]_instance => PointerInv'
<1> SUFFICES ASSUME PointerInv, [Step]_instance PROVE PointerInv'
  OBVIOUS
<1>1. CASE CallDomain
  BY <1>1, CallFunctionKeeps DEF CallDomain
<1>2. CASE RunStatement
  <2>1. prog' = prog /\ code' = code /\ Execute
    BY <1>2 DEF RunStatement
  <2> QED
    BY <2>1, AssignKeeps, ResetKeeps, CallKeeps, PassByKeeps, ReturnKeeps DEF Execute
<1>3. CASE RunMachine
  BY <1>3, MachineKeeps
<1>4. CASE EndOfCall
  BY <1>4, EndOfCallKeeps
<1>5. CASE Access
  BY <1>5, SetStateVarKeeps, RequestKeeps DEF Access
<1>6. CASE UNCHANGED instance
  <2>1. prog' = prog /\ code' = code /\ mem' = mem /\ frames' = frames
    BY <1>6 DEF instance
  <2>2. StackOK(domain, frames', DOMAIN mem) /\ MemOK(frames', DOMAIN mem)
        /\ Struct(domain) \subseteq DOMAIN mem
    BY <2>1 DEF PointerInv
  <2> QED
    BY <2>1, <2>2, PointerKept
<1> QED
  BY <1>1, <1>2, <1>3, <1>4, <1>5, <1>6 DEF Step, RunCall

(* However calls nest, whatever the order of ticks, inits and host         *)
(* accesses, a call reaches cells that exist, and writes none that a       *)
(* waiting call has under a name it does not await (addArgs, the instance  *)
(* structs of functionast.cpp and buildNodeState).                         *)
THEOREM PointersHold == InstanceSpec => []PointerInv
BY AllocatePoints, StepPoints, PTL DEF InstanceSpec

-----------------------------------------------------------------------------
(* What a step writes                                                      *)

\* A statement of the call writes the field a of the call's instance.
WritesOf(f, a) ==
  a.path = f.path /\ f.pc # Done /\ a.name \in Targets(Statement(f))

\* A call under way may write the field: it is its own, or lent to it.
Written(a) == \E f \in Range(frames) : WritesOf(f, a)

\* The call about to be made resets the field of its instance.
ResetsOf(a) ==
  /\ Running("call")
  /\ LET f == Head(frames)
         s == Statement(f)
     IN a.path = CallPath(f, s) /\ a.name \in DOMAIN Callee(s).reset

(* The calls that lend a cell write it.                                    *)
LEMMA LenderWrites ==
  ASSUME PointerInv, NEW i \in DOMAIN frames, NEW a, Lends(frames[i], a),
         frames[i].pc # Done
  PROVE  Written(a)
<1>1. PICK k \in Targets(Statement(frames[i])) : a = Field(frames[i].path, k)
  BY DEF Lends
<1>2. a.path = frames[i].path /\ a.name = k
  BY <1>1 DEF Field
<1>3. frames[i] \in Range(frames)
  BY DEF Range
<1> QED
  BY <1>1, <1>2, <1>3 DEF Written, WritesOf

(* A field that a statement names as a target is one the calls under way   *)
(* may write.                                                              *)
LEMMA OwnerWrites ==
  ASSUME PointerInv, frames # <<>>, NEW f, f = Head(frames), f.pc # Done,
         NEW n \in Targets(Statement(f)) \cap DOMAIN f.at, f.at[n].area = "state"
  PROVE  Written(f.at[n])
<1>1. /\ f = frames[1] /\ FrameOK(domain, frames, 1, DOMAIN mem) /\ CodeInv /\ Shaped(f)
      /\ Len(frames) \in Nat \ {0} /\ DOMAIN frames = 1 .. Len(frames)
  BY RunningIs
<1>2. n \in Writable(f)
  <2>1. Targets(Statement(f)) \cap Range(Code(f).ins) = {}
    BY <1>1, StatementIs, Zenon DEF GoodCode, OneMeaningPerName
  <2> QED
    BY <2>1 DEF Writable
<1>3. Owned(frames, 1)
  BY <1>1, Zenon DEF FrameOK
<1>4. 1 \in DOMAIN frames
  BY <1>1
<1>5. CASE Own(f, n)
  <2>1. Lends(frames[1], f.at[n])
    BY <1>1, <1>5 DEF Own, Lends
  <2> QED
    BY <1>1, <1>4, <2>1, LenderWrites
<1>6. CASE \E j \in 1 + 1 .. Len(frames) : Lends(frames[j], f.at[n])
  <2>1. PICK j \in 1 + 1 .. Len(frames) : Lends(frames[j], f.at[n])
    BY <1>6
  <2>2. j \in DOMAIN frames /\ 1 < j
    BY <1>1
  <2>3. Waits(frames[j])
    BY <1>4, <2>2 DEF PointerInv, StackOK
  <2> QED
    BY <2>1, <2>2, <2>3, LenderWrites DEF Waits
<1> QED
  BY <1>1, <1>2, <1>3, <1>5, <1>6 DEF Owned

(* A statement that writes its targets only writes such fields.            *)
LEMMA StatementWrites ==
  ASSUME PointerInv, frames # <<>>, NEW f, f = Head(frames), f.pc # Done, NEW m,
         DOMAIN m = DOMAIN mem,
         \A a \in DOMAIN mem :
           m[a] # mem[a] => \E n \in Targets(Statement(f)) \cap DOMAIN f.at : a = f.at[n]
  PROVE  \A a \in DOMAIN mem : a.area = "state" =>
           a \in DOMAIN m /\ (m[a] # mem[a] => Written(a))
BY OwnerWrites

(* An assignment does.                                                     *)
LEMMA AssignWrites ==
  ASSUME PointerInv, Assign
  PROVE  \A a \in DOMAIN mem : a.area = "state" =>
           a \in DOMAIN mem' /\ (mem'[a] # mem[a] => Written(a))
<1>1. PICK f, s, v : f = Head(frames) /\ s = Statement(f)
                     /\ v = Apply(s.expr[1], Value(f, mem, s.expr[2]), Value(f, mem, s.expr[3]))
  OBVIOUS
<1> DEFINE m == Write(f, mem, s.var, v)
<1>2. frames # <<>> /\ f.pc # Done /\ s.op = "set" /\ mem' = m
  BY <1>1 DEF Assign, Running, GoOn
<1>3. s.var \in Targets(s)
  BY <1>2 DEF Targets
<1>4. DOMAIN m = DOMAIN mem
  BY DEF Write
<1>5. \A a \in DOMAIN mem :
        m[a] # mem[a] => \E n \in Targets(Statement(f)) \cap DOMAIN f.at : a = f.at[n]
  BY <1>1, <1>3 DEF Write
<1> HIDE DEF m
<1> QED
  BY <1>1, <1>2, <1>4, <1>5, StatementWrites

(* A reset does.                                                           *)
LEMMA ResetWrites ==
  ASSUME PointerInv, Reset
  PROVE  \A a \in DOMAIN mem : a.area = "state" =>
           a \in DOMAIN mem' /\ (mem'[a] # mem[a] => Written(a))
<1>1. PICK f, s : f = Head(frames) /\ s = Statement(f)
  OBVIOUS
<1> DEFINE o == [c \in {f.at[n] : n \in Range(s.vars)} |-> s.to]
           m == IF IsOn(f, mem, s.cond) THEN Over(o, mem) ELSE mem
<1>2. frames # <<>> /\ f.pc # Done /\ s.op = "reset" /\ mem' = m
  BY <1>1 DEF Reset, Running, GoOn
<1>3. CodeInv /\ Shaped(f) /\ FrameOK(domain, frames, 1, DOMAIN mem) /\ f = frames[1]
  BY <1>1, <1>2, RunningIs
<1>4. Range(s.vars) \subseteq DOMAIN f.at /\ Targets(s) = Range(s.vars)
  BY <1>1, <1>2, <1>3, TargetsAre DEF Targets
<1>5. Reaches(f, DOMAIN mem)
  BY <1>3 DEF FrameOK
<1>6. DOMAIN o = {f.at[n] : n \in Range(s.vars)}
  OBVIOUS
<1> HIDE DEF o
<1>7. /\ DOMAIN Over(o, mem) = DOMAIN o \cup DOMAIN mem
      /\ \A a \in DOMAIN mem : a \notin DOMAIN o => Over(o, mem)[a] = mem[a]
  BY DEF Over
<1>8. DOMAIN m = DOMAIN mem
  BY <1>4, <1>5, <1>6, <1>7, Zenon DEF Reaches
<1>9. \A a \in DOMAIN mem :
        m[a] # mem[a] => \E n \in Targets(Statement(f)) \cap DOMAIN f.at : a = f.at[n]
  BY <1>1, <1>4, <1>6, <1>7
<1> HIDE DEF m
<1> QED
  BY <1>1, <1>2, <1>8, <1>9, StatementWrites

(* A state machine does.                                                   *)
LEMMA MachineWrites ==
  ASSUME PointerInv, RunMachine
  PROVE  \A a \in DOMAIN mem : a.area = "state" =>
           a \in DOMAIN mem' /\ (mem'[a] # mem[a] => Written(a))
<1>1. PICK f, s : f = Head(frames) /\ s = Statement(f)
  OBVIOUS
<1> DEFINE asked == Value(f, mem, s.request)
           leaves == asked \in DOMAIN s.goes /\ s.goes[asked][1] = Value(f, mem, s.active)
           m == IF leaves
                THEN [mem EXCEPT ![f.at[s.active]] = s.goes[asked][2], ![f.at[s.request]] = 0]
                ELSE mem
<1>2. frames # <<>> /\ f.pc # Done /\ s.op = "machine" /\ mem' = m
  BY <1>1 DEF RunMachine, Running, GoOn
<1>3. CodeInv /\ Shaped(f)
  BY <1>1, <1>2, RunningIs
<1>4. {s.active, s.request} \subseteq DOMAIN f.at
  BY <1>1, <1>2, <1>3, TargetsAre
<1>5. Targets(s) = {s.active, s.request}
  BY <1>2 DEF Targets
<1> HIDE DEF asked, leaves
<1>6. DOMAIN m = DOMAIN mem
  OBVIOUS
<1>7. \A a \in DOMAIN mem :
        m[a] # mem[a] => \E n \in Targets(Statement(f)) \cap DOMAIN f.at : a = f.at[n]
  BY <1>1, <1>4, <1>5
<1> HIDE DEF m
<1> QED
  BY <1>1, <1>2, <1>6, <1>7, StatementWrites

(* A call that is passed by, or returns, changes no field.                 *)
LEMMA StackIsDropped ==
  ASSUME NEW p, NEW args, \A a \in DOMAIN args : a.area = "stack"
  PROVE  \A a \in DOMAIN mem : a.area = "state" =>
           /\ a \in DOMAIN Without(p, mem) /\ Without(p, mem)[a] = mem[a]
           /\ a \in DOMAIN Without(p, Over(args, mem)) /\ Without(p, Over(args, mem))[a] = mem[a]
BY DEF Without, Over

(* A return, or a call passed by, writes no field.                         *)
LEMMA ReturnsKeepFields ==
  ASSUME PassBy \/ Return
  PROVE  \A a \in DOMAIN mem : a.area = "state" => a \in DOMAIN mem' /\ mem'[a] = mem[a]
<1>1. CASE PassBy
  <2>1. PICK f, s, left : mem' = Without(CallPath(f, s), Over(Arguments(f, s, left), mem))
    BY <1>1 DEF PassBy, Returned
  <2>2. \A a \in DOMAIN Arguments(f, s, left) : a.area = "stack"
    BY DEF Arguments, Local
  <2> QED
    BY <2>1, <2>2, StackIsDropped
<1>2. CASE Return
  <2>1. PICK p : mem' = Without(p, mem)
    BY <1>2 DEF Return, Returned
  <2> DEFINE args == [a \in {} |-> 0]
  <2>2. \A a \in DOMAIN args : a.area = "stack"
    OBVIOUS
  <2> QED
    BY <2>1, <2>2, StackIsDropped
<1> QED
  BY <1>1, <1>2

(* What the entry of a call changes.                                       *)
LEMMA EntryWrites ==
  ASSUME CodeInv, NEW f, NEW s, Calling(f, s), NEW left, NEW m, NEW a \in DOMAIN m,
         a.area = "state", Entered(f, s, left, m)[a] # m[a]
  PROVE  \/ a.path = CallPath(f, s) /\ a.name \in DOMAIN Callee(s).reset
         \/ \E n \in Range(Callee(s).outs) : a = Frame(f, s).at[n]
<1> DEFINE c == Callee(s)
           g == Frame(f, s)
           at == g.at
           args == Arguments(f, s, left)
           m1 == Over(args, m)
           m2 == FieldsReset(c, at, m1)
           m3 == LocalsSet(c, at, m2)
           P == {at[n] : n \in Prefilled(c)}
<1>1. m3 = Entered(f, s, left, m)
  BY DEF Entered
<1>2. a \in DOMAIN m1 /\ m1[a] = m[a]
  <2>1. \A x \in DOMAIN args : x.area = "stack"
    BY DEF Arguments, Local
  <2> HIDE DEF args
  <2> QED
    BY <2>1 DEF Over
<1>3. Len(Dictionary) \in Nat
  BY NamesAssumption
<1>4. /\ a \in DOMAIN m2
      /\ m2[a] = m1[a] \/ \E n \in DOMAIN c.fields \cap DOMAIN c.reset : a = at[n]
  <2> HIDE DEF at, c, m1
  <2> QED
    BY <1>2, <1>3, ResetsTouch
<1>5. a \notin P => m3[a] = m2[a]
  <2> HIDE DEF at, c, m2
  <2> QED
    BY <1>4 DEF LocalsSet, Over
<1>6. CASE \E n \in DOMAIN c.fields \cap DOMAIN c.reset : a = at[n]
  <2>1. PICK n \in DOMAIN c.fields \cap DOMAIN c.reset : a = at[n]
    BY <1>6
  <2>2. a = Field(CallPath(f, s), n)
    BY <2>1, FrameIs
  <2> QED
    BY <2>1, <2>2 DEF Field
<1>7. CASE a \in P
  <2>1. PICK n \in Prefilled(c) : a = at[n]
    BY <1>7
  <2>2. (n \in Stored(c) /\ at[n] = Local(CallPath(f, s), n)) \/ n \in Range(c.outs)
    BY PrefilledAre
  <2>3. at[n] # Local(CallPath(f, s), n)
    BY <2>1 DEF Local
  <2> QED
    BY <2>1, <2>2, <2>3
<1> HIDE DEF m1, m2, m3, P
<1> QED
  BY <1>1, <1>2, <1>4, <1>5, <1>6, <1>7

(* A call writes the fields that its own entry resets.                     *)
LEMMA CallWrites ==
  ASSUME PointerInv, Call
  PROVE  \A a \in DOMAIN mem : a.area = "state" =>
           a \in DOMAIN mem' /\ (mem'[a] # mem[a] => ResetsOf(a) \/ Written(a))
<1>1. PICK f, s : f = Head(frames) /\ s = Statement(f)
  OBVIOUS
<1>2. frames # <<>> /\ f.pc # Done /\ s.op = "call" /\ Running("call")
  BY <1>1 DEF Call, Running
<1>3. PICK left : mem' = Entered(f, s, left, mem)
  BY <1>1 DEF Call, Entered
<1>4. /\ f = frames[1] /\ FrameOK(domain, frames, 1, DOMAIN mem) /\ CodeInv /\ Shaped(f)
      /\ Len(frames) \in Nat \ {0} /\ DOMAIN frames = 1 .. Len(frames)
      /\ frames \in Seq(Range(frames))
  BY <1>1, <1>2, RunningIs, Zenon
<1>5. Calling(f, s)
  BY <1>1, <1>2, <1>4 DEF Calling
<1>6. Reaches(f, DOMAIN mem) /\ Owned(frames, 1)
  BY <1>4, Zenon DEF FrameOK
<1>7. DOMAIN mem' = DOMAIN mem \cup Made(f, s)
  <2>1. DOMAIN Entered(f, s, left, mem) = DOMAIN mem \cup Made(f, s)
    BY <1>4, <1>5, <1>6, EntryMakes
  <2> QED
    BY <1>3, <2>1
<1> DEFINE g == Frame(f, s)
           c == Callee(s)
           t == <<g>> \o frames
<1>8. Pushed(t, frames, g)
  <2>1. Joins(t, <<g>>, frames)
    BY DEF Joins
  <2> HIDE DEF t, g
  <2> QED
    BY <1>4, <2>1, StackPushed
<1>9. Owned(t, 1)
  BY <1>4, <1>5, <1>6, <1>8, NewOwned
<1> HIDE DEF t
<1>10. ASSUME NEW n \in Range(c.outs), g.at[n].area = "state"
       PROVE  Written(g.at[n])
  <2>1. Code(g) = c /\ DOMAIN g.at = CellNames(c)
    BY <1>4, <1>5, FrameIs
  <2>2. /\ n \in Range(Parameters(c)) /\ n \notin Range(c.ins) /\ n \notin DOMAIN c.fields
    BY <1>4, <1>5, ParametersAre
  <2>3. n \in Writable(g) /\ ~Own(g, n)
    BY <2>1, <2>2 DEF Writable, CellNames, Own
  <2>4. t[1] = g /\ Len(t) = Len(frames) + 1 /\ \A i \in 1 .. Len(frames) : t[i + 1] = frames[i]
    BY <1>8 DEF Pushed
  <2>5. \E j \in 1 + 1 .. Len(t) : Lends(t[j], g.at[n])
    <3> HIDE DEF g
    <3> QED
      BY <1>9, <1>10, <2>3, <2>4 DEF Owned
  <2>6. PICK j \in 1 + 1 .. Len(t) : Lends(t[j], g.at[n])
    BY <2>5
  <2>7. j - 1 \in DOMAIN frames /\ (j - 1) + 1 = j /\ j - 1 \in 1 .. Len(frames)
    BY <1>4, <2>4
  <2>8. t[j] = frames[j - 1]
    BY <2>4, <2>7
  <2>9. frames[j - 1].pc # Done
    <3>1. CASE j - 1 = 1
      BY <1>2, <1>4, <3>1
    <3>2. CASE j - 1 # 1
      <4>1. 1 \in DOMAIN frames /\ 1 < j - 1
        BY <1>4, <2>7, <3>2
      <4> QED
        BY <2>7, <4>1 DEF PointerInv, StackOK, Waits
    <3> QED
      BY <3>1, <3>2
  <2> HIDE DEF g
  <2> QED
    BY <2>6, <2>7, <2>8, <2>9, LenderWrites
<1> HIDE DEF g, c
<1>11. ASSUME NEW a \in DOMAIN mem, a.area = "state", mem'[a] # mem[a]
       PROVE  ResetsOf(a) \/ Written(a)
  <2>1. \/ a.path = CallPath(f, s) /\ a.name \in DOMAIN c.reset
        \/ \E n \in Range(c.outs) : a = g.at[n]
    <3>1. \A F, S, L : CodeInv /\ Calling(F, S) /\ Entered(F, S, L, mem)[a] # mem[a] =>
            \/ a.path = CallPath(F, S) /\ a.name \in DOMAIN Callee(S).reset
            \/ \E n \in Range(Callee(S).outs) : a = Frame(F, S).at[n]
      BY <1>11, EntryWrites
    <3> QED
      BY <1>3, <1>4, <1>5, <1>11, <3>1 DEF g, c
  <2>2. CASE a.path = CallPath(f, s) /\ a.name \in DOMAIN c.reset
    BY <1>1, <1>2, <2>2 DEF ResetsOf, c
  <2> QED
    BY <1>10, <1>11, <2>1, <2>2
<1> QED
  BY <1>7, <1>11

(* Every step of a call of the host does.                                  *)
LEMMA InstancesAreApart ==
  PointerInv => (RunCall => \A a \in DOMAIN mem : a.area = "state" =>
                   /\ a \in DOMAIN mem'
                   /\ mem'[a] # mem[a] => ResetsOf(a) \/ Written(a))
<1> SUFFICES ASSUME PointerInv, RunCall
             PROVE  \A a \in DOMAIN mem : a.area = "state" =>
                      /\ a \in DOMAIN mem'
                      /\ mem'[a] # mem[a] => ResetsOf(a) \/ Written(a)
  OBVIOUS
<1>1. CASE EndOfCall
  BY <1>1 DEF EndOfCall
<1>2. CASE RunMachine
  BY <1>2, MachineWrites
<1>3. CASE RunStatement
  <2>1. Execute
    BY <1>3 DEF RunStatement
  <2> QED
    BY <2>1, AssignWrites, ResetWrites, CallWrites, ReturnsKeepFields DEF Execute
<1> QED
  BY <1>1, <1>2, <1>3 DEF RunCall

(* The path of a call under way are the sites of the calls that wait for   *)
(* it.                                                                     *)
LEMMA PathsAreSites ==
  ASSUME PointerInv, NEW i \in DOMAIN frames
  PROVE  frames[i].path = SitesTo(i)
<1> DEFINE n == Len(frames)
           S == {k \in Nat : k < n => frames[n - k].path = SitesTo(n - k)}
<1>1. StackOK(domain, frames, DOMAIN mem) /\ n \in Nat /\ DOMAIN frames = 1 .. n
  BY DEF PointerInv, StackOK
<1>2. \A m \in DOMAIN frames :
        Len(frames[m].path) = n - m /\ frames[m].path \in Seq(Range(frames[m].path))
  <2> SUFFICES ASSUME NEW m \in DOMAIN frames
               PROVE  Len(frames[m].path) = n - m /\ frames[m].path \in Seq(Range(frames[m].path))
    OBVIOUS
  <2>1. Len(frames[m].path) = n - m /\ Shaped(frames[m])
    BY <1>1, PathsAre
  <2> QED
    BY <2>1 DEF Shaped
<1>3. 0 \in S
  <2>1. CASE 0 < n
    <3>1. n \in DOMAIN frames /\ n - 0 = n /\ n - n = 0
      BY <1>1, <2>1
    <3>2. frames[n].path = <<>>
      BY <1>2, <3>1
    <3>3. SitesTo(n) = <<>>
      BY <3>1 DEF SitesTo
    <3> QED
      BY <3>1, <3>2, <3>3
  <2> QED
    BY <2>1
<1>4. ASSUME NEW k \in Nat, k \in S PROVE k + 1 \in S
  <2> SUFFICES ASSUME k + 1 < n PROVE frames[n - (k + 1)].path = SitesTo(n - (k + 1))
    OBVIOUS
  <2>1. PICK m : m = n - (k + 1)
    OBVIOUS
  <2>2. /\ m \in Nat /\ m \in DOMAIN frames /\ m + 1 \in DOMAIN frames /\ n - k = m + 1
        /\ n - m = k + 1 /\ n - (m + 1) = k /\ n - (k + 1) + 1 = m + 1
    BY <1>1, <2>1
  <2>3. frames[m + 1].path = SitesTo(m + 1)
    BY <1>4, <2>2
  <2>4. Called(frames[m], frames[m + 1])
    BY <1>1, <2>2 DEF StackOK
  <2>5. PICK e : e = Statement(frames[m + 1]).site
    OBVIOUS
  <2>6. frames[m].path = Append(SitesTo(m + 1), e)
    BY <2>3, <2>4, <2>5 DEF Called, CallPath
  <2>7. SitesTo(m) = Append(SitesTo(m + 1), e)
    <3>1. SitesTo(m + 1) = [x \in 1 .. k |-> Statement(frames[n - x + 1]).site]
      BY <2>2 DEF SitesTo
    <3>2. SitesTo(m) = [x \in 1 .. k + 1 |-> Statement(frames[n - x + 1]).site]
      BY <2>2 DEF SitesTo
    <3>3. Statement(frames[n - (k + 1) + 1]).site = e
      BY <2>2, <2>5
    <3> DEFINE G(x) == Statement(frames[n - x + 1]).site
    <3>4. G(k + 1) = e
      BY <3>3
    <3>5. SitesTo(m + 1) = [x \in 1 .. k |-> G(x)] /\ SitesTo(m) = [x \in 1 .. k + 1 |-> G(x)]
      BY <3>1, <3>2
    <3> HIDE DEF G, n
    <3>6. [x \in 1 .. k + 1 |-> G(x)] = Append([x \in 1 .. k |-> G(x)], G(k + 1))
      BY <1>4
    <3> QED
      BY <3>4, <3>5, <3>6
  <2> QED
    BY <2>1, <2>6, <2>7
<1>5. n - i \in S
  <2>1. n - i \in Nat
    BY <1>1
  <2> HIDE DEF S, n
  <2> QED
    BY <1>3, <1>4, <2>1, Induction
<1>6. n - i \in Nat /\ n - i < n /\ n - (n - i) = i
  BY <1>1
<1> QED
  BY <1>1, <1>5, <1>6

(* A step of a call changes a field only where it belongs to a call under  *)
(* way, or was passed to be written, or is reset at the entry of the       *)
(* instance it belongs to: two instances of one function never touch each  *)
(* other's fields (functionast.cpp:1773, stridegenerator.cpp:1470).        *)
THEOREM InstancesStayApart == InstanceSpec => InstancesApart
<1>1. ASSUME PointerInv, NEW a, ResetsOf(a)
      PROVE  EntryResets(a)
  <2>1. frames # <<>>
    BY <1>1 DEF ResetsOf, Running
  <2>2. Head(frames) = frames[1] /\ 1 \in DOMAIN frames
    BY <1>1, <2>1, RunningIs
  <2>3. frames[1].path = SitesTo(1)
    BY <1>1, <2>2, PathsAreSites
  <2> QED
    BY <1>1, <2>2, <2>3 DEF ResetsOf, EntryResets, CallPath
<1>2. ASSUME PointerInv, NEW a, Written(a)
      PROVE  \E i \in DOMAIN frames : WritesField(i, a)
  <2>1. PICK i \in DOMAIN frames : WritesOf(frames[i], a)
    BY <1>2 DEF Written, Range
  <2>2. frames[i].path = SitesTo(i)
    BY <1>2, PathsAreSites
  <2> QED
    BY <2>1, <2>2 DEF WritesOf, WritesField
<1>3. PointerInv /\ [Step]_instance =>
        [RunCall => \A a \in DOMAIN mem : a.area = "state" =>
           /\ a \in DOMAIN mem'
           /\ mem'[a] # mem[a] =>
                EntryResets(a) \/ \E i \in DOMAIN frames : WritesField(i, a)]_instance
  BY <1>1, <1>2, InstancesAreApart
<1> QED
  BY <1>3, PointersHold, PTL DEF InstanceSpec, InstancesApart

-----------------------------------------------------------------------------
(***************************************************************************)
(* Calls mean what they do                                                 *)
(*                                                                         *)
(* Beside the calls under way, on their cells, run the calls they mean, by *)
(* value. The invariant MeantInv says in what the two agree at every step. *)
(***************************************************************************)

\* The names a call has a value for, in the frame or in what is meant.
Names(f, v) == DOMAIN v.names \cup DOMAIN f.val

\* The value meant by a name.
NameOf(v, n) == IF n \in DOMAIN v.names THEN v.names[n] ELSE 0

(* Names are told apart from literals and fields, and the externals have a *)
(* value.                                                                  *)
NamesOK(f, v) ==
  /\ Names(f, v) \cap (DOMAIN Literal \cup DOMAIN Code(f).fields) = {}
  /\ DOMAIN v.names \subseteq DOMAIN f.val \cup DOMAIN f.at
  /\ Range(Code(f).ext) \subseteq DOMAIN v.names

\* Each name of N has a value.
Knows(f, v, N) == N \subseteq DOMAIN Literal \cup DOMAIN Code(f).fields \cup Names(f, v)

(* What has a value at the place a call has got to: what its next          *)
(* statement reads, and at its end its outputs.                            *)
PlaceOK(f, v) ==
  LET c == Code(f)
  IN /\ f.pc = Done => Range(c.outs) \subseteq DOMAIN v.names
     /\ f.pc # Done =>
          /\ Knows(f, v, Known(c, f.pc))
          /\ c.terminate # NoName => c.terminate \in DOMAIN v.names /\ v.names[c.terminate] = 0
          /\ c.kind # "Loop" =>
               DOMAIN f.val \subseteq UNION {Targets(c.body[j]) : j \in 1 .. f.pc - 1}

\* The call and the call it means stand at the same place.
Twins(f, v) ==
  /\ DOMAIN v = {"callable", "path", "pc", "names"}
  /\ v.callable = f.callable /\ v.path = f.path /\ v.pc = f.pc
  /\ NamesOK(f, v) /\ PlaceOK(f, v)

\* Away from S, the names of a call hold in memory what they mean.
NamesAgree(f, v, m, S) == \A n \in Names(f, v) \ S : Value(f, m, n) = NameOf(v, n)

\* What a waiting call has yet to get back.
Pending(fs, i) == IF i = 1 THEN {} ELSE Targets(Statement(fs[i]))

\* A field holds what it means, unless a waiting call has lent it.
FieldsAgree(fs, m, fields) ==
  \A a \in DOMAIN fields : m[a] = fields[a] \/ \E j \in 2 .. Len(fs) : Lends(fs[j], a)

\* Both stacks and the fields agree.
Same(fs, vs, m, fields) ==
  /\ vs \in Seq(Range(vs)) /\ Len(vs) = Len(fs)
  /\ \A i \in DOMAIN fs : Twins(fs[i], vs[i]) /\ NamesAgree(fs[i], vs[i], m, Pending(fs, i))
  /\ FieldsAgree(fs, m, fields)

\* The fields meant are those that exist.
Covers(fields, M) == DOMAIN fields = {a \in M : a.area = "state"}

\* A function is told by its values.
Map(f) == f = [x \in DOMAIN f |-> f[x]]

\* Memory holds what is meant.
MeantFor(fs, m, w) ==
  /\ w = [fields |-> w.fields, calls |-> w.calls]
  /\ Map(m) /\ Map(w.fields) /\ Covers(w.fields, DOMAIN m)
  /\ Same(fs, w.calls, m, w.fields)

(* The inductive invariant of the lockstep: the stack of frames and cells  *)
(* that the code keeps, and the calls by value that it means, agree on     *)
(* each name that no call under way has yet to give back.                  *)
MeantInv == MeantFor(frames, mem, meant)

-----------------------------------------------------------------------------
(* Reading                                                                 *)

(* What the two see of a name.                                             *)
LEMMA TwinCode ==
  ASSUME NEW f, NEW v, Twins(f, v)
  PROVE  /\ Code(v) = Code(f) /\ Statement(v) = Statement(f)
         /\ v.path = f.path /\ v.pc = f.pc /\ v.callable = f.callable
         /\ NamesOK(f, v) /\ PlaceOK(f, v)
BY DEF Twins, Code, Statement

(* A name is read from the call that has it.                               *)
LEMMA NamedReads ==
  ASSUME NEW f, NEW v, Code(v) = Code(f), NamesOK(f, v), NEW fields, NEW n \in Names(f, v)
  PROVE  Read(fields, v, n) = NameOf(v, n)
<1>1. n \notin DOMAIN Literal /\ n \notin DOMAIN Code(v).fields
  BY DEF NamesOK
<1> QED
  BY <1>1 DEF Read, NameOf

(* Calls under way are of different instances.                             *)
LEMMA OtherPaths ==
  ASSUME NEW d, NEW fs, NEW M, StackOK(d, fs, M), NEW i \in DOMAIN fs, NEW j \in DOMAIN fs, i # j
  PROVE  fs[i].path # fs[j].path
<1>1. /\ Len(fs[i].path) = Len(fs) - i /\ Len(fs) \in Nat /\ i \in Nat
      /\ Len(fs[j].path) = Len(fs) - j /\ j \in Nat
  BY PathsAre
<1>2. Len(fs) - i # Len(fs) - j
  BY <1>1
<1> QED
  BY <1>1, <1>2

\* A name that a call can read.
Sees(f, v, n) == n \in DOMAIN Literal \cup DOMAIN Code(f).fields \cup Names(f, v)

(* The innermost call reads in memory what its names mean.                 *)
LEMMA HeadReads ==
  ASSUME CodeInv, NEW fs, NEW M, StackOK(domain, fs, M), fs # <<>>, NEW m,
         NEW fields, Covers(fields, M), FieldsAgree(fs, m, fields),
         NEW v, Twins(fs[1], v), NamesAgree(fs[1], v, m, {}),
         NEW n, Sees(fs[1], v, n)
  PROVE  Read(fields, v, n) = Value(fs[1], m, n)
<1>1. PICK f : f = fs[1]
  OBVIOUS
<1>2. 1 \in DOMAIN fs /\ Shaped(f) /\ Reaches(f, M) /\ Len(fs) \in Nat /\ DOMAIN fs = 1 .. Len(fs)
  <2>1. 1 \in DOMAIN fs
    BY DEF StackOK
  <2> QED
    BY <1>1, <2>1, PathsAre
<1>3. /\ Code(v) = Code(f) /\ v.path = f.path /\ NamesOK(f, v)
  BY <1>1, TwinCode
<1>4. GoodCode(Code(f))
  BY <1>2, CodeIs DEF Shaped, Code, CodeOf
<1>5. CASE n \in DOMAIN Literal
  BY <1>1, <1>5 DEF Read, Value
<1>6. CASE n \in DOMAIN Code(f).fields
  <2> DEFINE a == Field(f.path, n)
  <2>1. n \in DOMAIN f.at /\ f.at[n] = a
    BY <1>2, <1>6 DEF Shaped, CellNames
  <2>2. n \notin DOMAIN Literal /\ n \notin DOMAIN f.val
    BY <1>2, <1>4, <2>1 DEF Shaped, GoodCode, OneMeaningPerName
  <2>3. Value(f, m, n) = m[a]
    BY <2>1, <2>2 DEF Value
  <2>4. Read(fields, v, n) = fields[a]
    BY <1>3, <1>6, <2>2 DEF Read
  <2>5. a \in M /\ a.area = "state" /\ a.path = f.path
    BY <1>2, <2>1 DEF Reaches, Field
  <2>6. \A j \in 2 .. Len(fs) : ~Lends(fs[j], a)
    <3> SUFFICES ASSUME NEW j \in 2 .. Len(fs) PROVE fs[j].path # f.path
      BY <2>5 DEF Lends, Field
    <3>1. j \in DOMAIN fs /\ j # 1
      BY <1>2
    <3> QED
      BY <1>1, <1>2, <3>1, OtherPaths
  <2>7. m[a] = fields[a]
    BY <2>5, <2>6 DEF FieldsAgree, Covers
  <2> QED
    BY <1>1, <2>3, <2>4, <2>7
<1>7. CASE n \in Names(f, v)
  <2>1. Read(fields, v, n) = NameOf(v, n)
    BY <1>3, <1>7, NamedReads
  <2>2. Value(f, m, n) = NameOf(v, n)
    BY <1>1, <1>7 DEF NamesAgree
  <2> QED
    BY <1>1, <2>1, <2>2
<1> QED
  BY <1>1, <1>5, <1>6, <1>7 DEF Sees

\* h has run its statement, is g, and may go on; its twin u is about to set
\* values.
Effects(h, g, u, m, values) ==
  /\ GoesOn(h, g)
  /\ DOMAIN values \subseteq Targets(Statement(h))
  /\ DOMAIN h.val \subseteq DOMAIN g.val
  /\ DOMAIN g.val \subseteq DOMAIN h.val \cup Targets(Statement(h))
  /\ DOMAIN values \subseteq DOMAIN h.at \cup DOMAIN g.val
  /\ Knows(g, u, SurelySet(Code(h), Statement(h)) \ DOMAIN values)
  /\ \A n \in DOMAIN values : Value(g, m, n) = values[n]
  /\ \A n \in Names(g, u) \ DOMAIN values : Value(g, m, n) = NameOf(u, n)

-----------------------------------------------------------------------------
(* A statement done in both                                                *)

(* Names after new values were put.                                        *)
LEMMA PutNamesIs ==
  ASSUME NEW u, DOMAIN u = {"callable", "path", "pc", "names"}, NEW values
  PROVE  LET w == PutNames(u, values)
             W == DOMAIN values \ DOMAIN Code(u).fields
         IN  /\ DOMAIN w = DOMAIN u /\ w.callable = u.callable /\ w.path = u.path /\ w.pc = u.pc
             /\ Code(w) = Code(u)
             /\ DOMAIN w.names = W \cup DOMAIN u.names
             /\ \A n \in W : w.names[n] = values[n]
             /\ \A n \in DOMAIN u.names \ W : w.names[n] = u.names[n]
<1> DEFINE w == PutNames(u, values)
           W == DOMAIN values \ DOMAIN Code(u).fields
           o == [n \in W |-> values[n]]
           x == Over(o, u.names)
<1>1. w = [u EXCEPT !.names = x]
  BY DEF PutNames
<1>2. DOMAIN o = W /\ \A n \in W : o[n] = values[n]
  OBVIOUS
<1> HIDE DEF o, W
<1>3. DOMAIN x = W \cup DOMAIN u.names /\ \A n \in DOMAIN x : x[n] = IF n \in W THEN o[n] ELSE u.names[n]
  BY <1>2 DEF Over
<1> HIDE DEF x, w
<1>4. /\ DOMAIN w = DOMAIN u /\ w.callable = u.callable /\ w.path = u.path /\ w.pc = u.pc
      /\ w.names = x
  BY <1>1
<1>5. Code(w) = Code(u)
  BY <1>4 DEF Code
<1> QED
  BY <1>2, <1>3, <1>4, <1>5 DEF w, W

(* A statement that has the effects meant leaves the names agreeing.       *)
LEMMA HeadPut ==
  ASSUME CodeInv, NEW h, Shaped(h), h.pc # Done, NEW u, Twins(h, u), NEW g, NEW m, NEW values,
         Effects(h, g, u, m, values), NEW w, w = PutNames(u, values)
  PROVE  /\ DOMAIN w = {"callable", "path", "pc", "names"}
         /\ w.callable = h.callable /\ w.path = h.path /\ w.pc = h.pc /\ Code(w) = Code(h)
         /\ NamesOK(g, w) /\ NamesAgree(g, w, m, {})
         /\ Knows(g, w, Known(Code(h), h.pc + 1))
         /\ \A n \in DOMAIN w.names \ DOMAIN values : n \in DOMAIN u.names /\ w.names[n] = u.names[n]
         /\ DOMAIN u.names \subseteq DOMAIN w.names
<1> DEFINE c == Code(h)
           s == Statement(h)
           F == DOMAIN c.fields
           L == DOMAIN Literal
           W == DOMAIN values
<1>1. /\ Code(u) = c /\ NamesOK(h, u) /\ PlaceOK(h, u)
      /\ DOMAIN u = {"callable", "path", "pc", "names"}
      /\ u.callable = h.callable /\ u.path = h.path /\ u.pc = h.pc
  BY TwinCode DEF Twins
<1>2. /\ g.callable = h.callable /\ g.at = h.at /\ DOMAIN g.val \cap (DOMAIN h.at \cup L) = {}
      /\ Code(g) = c
  BY DEF Effects, GoesOn, SameCells, Code
<1>3. /\ DOMAIN w = DOMAIN u /\ w.callable = u.callable /\ w.path = u.path /\ w.pc = u.pc
      /\ Code(w) = c
      /\ DOMAIN w.names = (W \ F) \cup DOMAIN u.names
      /\ \A n \in W \ F : w.names[n] = values[n]
      /\ \A n \in DOMAIN u.names \ (W \ F) : w.names[n] = u.names[n]
  BY <1>1, PutNamesIs
<1>4. W \subseteq Targets(s) /\ Targets(s) \cap L = {} /\ F \subseteq DOMAIN h.at
  BY TargetsAre DEF Effects
<1>5. /\ (DOMAIN u.names \cup DOMAIN h.val) \cap (L \cup F) = {}
      /\ DOMAIN u.names \subseteq DOMAIN h.val \cup DOMAIN h.at
      /\ Range(c.ext) \subseteq DOMAIN u.names
  BY <1>1 DEF NamesOK, Names
<1>6. /\ DOMAIN h.val \subseteq DOMAIN g.val /\ W \subseteq DOMAIN h.at \cup DOMAIN g.val
      /\ Knows(g, u, SurelySet(c, s) \ W)
      /\ \A n \in W : Value(g, m, n) = values[n]
      /\ \A n \in Names(g, u) \ W : Value(g, m, n) = NameOf(u, n)
  BY DEF Effects
<1>7. Known(c, h.pc + 1) = Known(c, h.pc) \cup SurelySet(c, s)
  <2>1. h.pc \in Nat \ {0} /\ s = c.body[h.pc]
    BY StatementIs DEF Shaped, Done
  <2>2. 1 .. (h.pc + 1) - 1 = (1 .. h.pc - 1) \cup {h.pc}
    BY <2>1
  <2> HIDE DEF c, s
  <2> QED
    BY <2>1, <2>2 DEF Known
<1>8. Knows(h, u, Known(c, h.pc))
  BY <1>1 DEF PlaceOK
<1> HIDE DEF c, s, F, L, W
<1>9. F = DOMAIN c.fields /\ L = DOMAIN Literal /\ W = DOMAIN values /\ c = Code(h)
  BY DEF F, L, W, c
<1>10. NamesOK(g, w)
  BY <1>2, <1>3, <1>4, <1>5, <1>6, <1>9 DEF NamesOK, Names
<1>11. ASSUME NEW n \in Names(g, w) PROVE Value(g, m, n) = NameOf(w, n)
  <2>1. n \notin F
    BY <1>2, <1>9, <1>10, <1>11 DEF NamesOK
  <2>2. CASE n \in W
    BY <1>3, <1>6, <2>1, <2>2 DEF NameOf
  <2>3. CASE n \notin W
    <3>1. n \in Names(g, u)
      BY <1>3, <1>11, <2>3 DEF Names
    <3> QED
      BY <1>3, <1>6, <2>3, <3>1 DEF NameOf
  <2> QED
    BY <2>2, <2>3
<1>12. Names(g, w) = Names(g, u) \cup (W \ F) /\ Names(h, u) \subseteq Names(g, u)
  BY <1>3, <1>6 DEF Names
<1>13. Knows(g, w, Known(c, h.pc + 1))
  <2>1. Known(c, h.pc) \subseteq L \cup F \cup Names(h, u)
    BY <1>8, <1>9 DEF Knows
  <2>2. SurelySet(c, s) \ W \subseteq L \cup F \cup Names(g, u)
    BY <1>2, <1>6, <1>9 DEF Knows
  <2>3. Known(c, h.pc + 1) \subseteq L \cup F \cup Names(g, w)
    BY <1>7, <1>12, <2>1, <2>2
  <2> QED
    BY <1>2, <1>9, <2>3 DEF Knows
<1> QED
  BY <1>1, <1>3, <1>9, <1>10, <1>11, <1>13 DEF NamesAgree, c, s, F, L, W

\* What GoneOn asks of the switch.
Stops(now, w) ==
  Code(w).terminate # NoName /\ Read(now, w, Code(w).terminate) # 0

(* Both stop at the same statement.                                        *)
LEMMA EndsAgree ==
  ASSUME CodeInv, NEW h, Shaped(h), h.pc # Done, NEW u, Twins(h, u), NEW g, NEW m, NEW values,
         Effects(h, g, u, m, values), NEW w, w = PutNames(u, values), NEW now
  PROVE  /\ Ends(g, m) <=> Stops(now, w) \/ (h.pc = Len(Code(h).body) /\ Code(h).kind # "Loop")
         /\ Stops(now, w) => Code(h).terminate \in Targets(Statement(h))
         /\ ~Stops(now, w) /\ Code(h).terminate # NoName =>
              Code(h).terminate \in DOMAIN w.names /\ w.names[Code(h).terminate] = 0
<1> DEFINE c == Code(h)
           s == Statement(h)
           t == c.terminate
           on == t # NoName /\ IsOn(g, m, t)
<1>1. /\ Code(w) = c /\ NamesOK(g, w) /\ NamesAgree(g, w, m, {})
      /\ \A n \in DOMAIN w.names \ DOMAIN values : n \in DOMAIN u.names /\ w.names[n] = u.names[n]
      /\ DOMAIN u.names \subseteq DOMAIN w.names
  BY HeadPut
<1>2. NamesOK(h, u) /\ PlaceOK(h, u)
  BY TwinCode
<1>3. t # NoName => t \in DOMAIN u.names /\ u.names[t] = 0
  BY <1>2 DEF PlaceOK
<1>4. Code(g) = c /\ Statement(g) = s /\ g.pc = h.pc
  BY DEF Effects, GoesOn, SameCells, Code, Statement
<1>5. t # NoName => Read(now, w, t) = NameOf(w, t) /\ Value(g, m, t) = NameOf(w, t)
                    /\ NameOf(w, t) = w.names[t] /\ t \in DOMAIN w.names
  <2> SUFFICES ASSUME t # NoName
               PROVE  Read(now, w, t) = NameOf(w, t) /\ Value(g, m, t) = NameOf(w, t)
                      /\ NameOf(w, t) = w.names[t] /\ t \in DOMAIN w.names
    OBVIOUS
  <2>1. t \in DOMAIN w.names /\ t \in Names(g, w)
    BY <1>1, <1>3 DEF Names
  <2>2. Read(now, w, t) = NameOf(w, t)
    BY <1>1, <1>4, <2>1, NamedReads
  <2> QED
    BY <1>1, <2>1, <2>2 DEF NamesAgree, NameOf
<1>6. on <=> Stops(now, w)
  BY <1>1, <1>5 DEF Stops, IsOn
<1>7. on => t \in Targets(s)
  <2> SUFFICES ASSUME t # NoName, t \notin Targets(s) PROVE w.names[t] = 0
    BY <1>5 DEF IsOn
  <2>1. t \notin DOMAIN values
    BY DEF Effects
  <2> QED
    BY <1>1, <1>3, <1>5, <2>1
<1>8. on => WritesTo(s, t)
  <2> SUFFICES ASSUME on PROVE WritesTo(s, t)
    OBVIOUS
  <2>1. t \in Targets(s) /\ t \notin DOMAIN c.fields
    BY <1>2, <1>3, <1>7 DEF NamesOK, Names
  <2>2. /\ s.op \in {"set", "reset", "call", "machine"}
        /\ s.op = "machine" => {s.active, s.request} \subseteq DOMAIN c.fields
    BY TargetsAre
  <2>3. s.op # "machine"
    BY <2>1, <2>2 DEF Targets
  <2> QED
    BY <2>1, <2>2, <2>3 DEF Targets, WritesTo
<1>9. Ends(g, m) <=> (on /\ WritesTo(s, t)) \/ (h.pc = Len(c.body) /\ (c.kind = "Loop" => on))
  BY <1>4 DEF Ends
<1> HIDE DEF on, s
<1>10. Ends(g, m) <=> Stops(now, w) \/ (h.pc = Len(c.body) /\ c.kind # "Loop")
  BY <1>6, <1>8, <1>9
<1>11. ~Stops(now, w) /\ t # NoName => t \in DOMAIN w.names /\ w.names[t] = 0
  BY <1>1, <1>5 DEF Stops
<1> QED
  BY <1>6, <1>7, <1>10, <1>11 DEF s

(* The parameters of a function are its outputs, inputs and externals.     *)
LEMMA OutsAreParameters ==
  ASSUME NEW k, GoodCode(k)
  PROVE  Range(Parameters(k)) = Range(k.outs) \cup Range(k.ins) \cup Range(k.ext)
<1> DEFINE a == k.outs
           b == k.ins
           c == k.ext
           E == Range(a) \cup Range(b) \cup Range(c)
           P == a \o b \o c
<1>1. a \in Seq(Range(a)) /\ b \in Seq(Range(b)) /\ c \in Seq(Range(c))
  BY DEF GoodCode, Lists
<1>2. Parameters(k) = P
  BY DEF Parameters
<1> HIDE DEF a, b, c
<1>3. a \in Seq(E) /\ b \in Seq(E) /\ c \in Seq(E)
  BY <1>1
<1> HIDE DEF E
<1>4. Range(P) = Range(a) \cup Range(b) \cup Range(c)
  <2>1. Joins(P, a \o b, c)
    BY DEF Joins
  <2> HIDE DEF P
  <2> QED
    BY <1>3, <2>1, ThreeJoined
<1> QED
  BY <1>2, <1>4 DEF a, b, c

(* Both go on to the same place.                                           *)
LEMMA HeadGoesOn ==
  ASSUME CodeInv, NEW h, Shaped(h), h.pc # Done, NEW u, Twins(h, u), NEW g, NEW m, NEW values,
         Effects(h, g, u, m, values), NEW w, w = PutNames(u, values), NEW now
  PROVE  /\ Twins(After(g, m), GoneOn(now, w))
         /\ NamesAgree(After(g, m), GoneOn(now, w), m, {})
<1> DEFINE c == Code(h)
           s == Statement(h)
           e == Ends(g, m)
           l == Len(c.body)
           h2 == After(g, m)
           v2 == GoneOn(now, w)
           p2 == IF e THEN Done ELSE IF h.pc = l THEN 1 ELSE h.pc + 1
<1>1. /\ DOMAIN w = {"callable", "path", "pc", "names"}
      /\ w.callable = h.callable /\ w.path = h.path /\ w.pc = h.pc /\ Code(w) = c
      /\ NamesOK(g, w) /\ NamesAgree(g, w, m, {}) /\ Knows(g, w, Known(c, h.pc + 1))
  BY HeadPut
<1>2. /\ e <=> Stops(now, w) \/ (h.pc = l /\ c.kind # "Loop")
      /\ Stops(now, w) => c.terminate \in Targets(s)
      /\ ~Stops(now, w) /\ c.terminate # NoName =>
           c.terminate \in DOMAIN w.names /\ w.names[c.terminate] = 0
  BY EndsAgree
<1>3. /\ GoesOn(h, g) /\ Code(g) = c /\ g.callable = h.callable /\ g.path = h.path /\ g.at = h.at
      /\ DOMAIN g.val \subseteq DOMAIN h.val \cup Targets(s)
      /\ DOMAIN g.val \cap DOMAIN g.at = {} /\ DOMAIN h.at = CellNames(c)
  BY DEF Effects, GoesOn, SameCells, Code, Shaped
<1>4. /\ h2.pc = p2 /\ h2.val = g.val /\ SameCells(h2, h)
  BY <1>3, AfterOK DEF GoesOn
<1>5. v2 = [w EXCEPT !.pc = p2]
  <2> DEFINE on == Code(w).terminate # NoName /\ Read(now, w, Code(w).terminate) # 0
             p3 == IF on \/ (w.pc = Len(Code(w).body) /\ Code(w).kind # "Loop") THEN Done
                   ELSE IF w.pc = Len(Code(w).body) THEN 1 ELSE w.pc + 1
  <2>1. v2 = [w EXCEPT !.pc = p3]
    BY DEF GoneOn
  <2>2. p3 = p2
    BY <1>1, <1>2 DEF Stops
  <2> HIDE DEF p3, v2, p2
  <2> QED
    BY <2>1, <2>2
<1>6. /\ h.pc \in 1 .. l /\ l \in Nat /\ h.pc \in Nat /\ s = c.body[h.pc] /\ GoodCode(c)
  BY StatementIs
<1> HIDE DEF h2, v2, p2, e
<1>7. /\ DOMAIN v2 = {"callable", "path", "pc", "names"}
      /\ v2.callable = h.callable /\ v2.path = h.path /\ v2.pc = p2 /\ v2.names = w.names
  BY <1>1, <1>5
<1>8. /\ h2.callable = h.callable /\ h2.path = h.path /\ h2.at = h.at /\ h2.val = g.val
      /\ h2.pc = p2 /\ Code(h2) = c
  BY <1>4 DEF SameCells, Code
<1>9. Names(h2, v2) = Names(g, w)
  BY <1>7, <1>8 DEF Names
<1>10. NamesOK(h2, v2)
  BY <1>1, <1>3, <1>7, <1>8, <1>9 DEF NamesOK
<1>11. \A n : Value(h2, m, n) = Value(g, m, n) /\ NameOf(v2, n) = NameOf(w, n)
  BY <1>3, <1>7, <1>8 DEF Value, NameOf
<1>12. NamesAgree(h2, v2, m, {})
  BY <1>1, <1>9, <1>11 DEF NamesAgree
<1> HIDE DEF c, s, l
<1>13. ASSUME e PROVE Range(c.outs) \subseteq DOMAIN w.names
  <2>1. \/ h.pc = l
        \/ h.pc > 0 /\ c.terminate # NoName /\ c.terminate \in Targets(c.body[h.pc])
    BY <1>1, <1>2, <1>6, <1>13 DEF Stops, Done
  <2>2. h.pc \in 0 .. Len(c.body) /\ l = Len(c.body)
    BY <1>6 DEF l
  <2>3. Range(c.outs) \subseteq Known(c, h.pc + 1)
    BY <1>6, <2>1, <2>2 DEF GoodCode, Ending
  <2>4. Range(c.outs) \subseteq DOMAIN Literal \cup DOMAIN c.fields \cup DOMAIN w.names \cup DOMAIN g.val
    BY <1>1, <1>3, <2>3 DEF Knows, Names
  <2>5. Range(c.outs) \subseteq Range(Parameters(c))
    BY <1>6, OutsAreParameters
  <2>6. Range(c.outs) \cap (DOMAIN Literal \cup DOMAIN c.fields) = {} /\ Range(c.outs) \subseteq CellNames(c)
    BY <1>6, <2>5 DEF GoodCode, OneMeaningPerName, CellNames
  <2> QED
    BY <1>3, <2>4, <2>6
<1>14. ASSUME ~e
       PROVE  /\ Knows(g, w, Known(c, p2))
              /\ c.terminate # NoName => c.terminate \in DOMAIN w.names /\ w.names[c.terminate] = 0
              /\ c.kind # "Loop" => DOMAIN g.val \subseteq UNION {Targets(c.body[j]) : j \in 1 .. p2 - 1}
  <2>1. ~Stops(now, w) /\ p2 = IF h.pc = l THEN 1 ELSE h.pc + 1
    BY <1>2, <1>14 DEF p2
  <2>2. Knows(g, w, Known(c, p2))
    <3>1. CASE h.pc # l
      BY <1>1, <2>1, <3>1
    <3>2. CASE h.pc = l
      <4>1. Known(c, 1) \subseteq Known(c, h.pc + 1)
        BY DEF Known
      <4> QED
        BY <1>1, <2>1, <3>2, <4>1 DEF Knows
    <3> QED
      BY <3>1, <3>2
  <2>3. ASSUME c.kind # "Loop"
        PROVE  DOMAIN g.val \subseteq UNION {Targets(c.body[j]) : j \in 1 .. p2 - 1}
    <3>1. p2 = h.pc + 1 /\ 1 .. p2 - 1 = (1 .. h.pc - 1) \cup {h.pc}
      BY <1>2, <1>6, <1>14, <2>1, <2>3
    <3>2. DOMAIN h.val \subseteq UNION {Targets(c.body[j]) : j \in 1 .. h.pc - 1}
      BY <2>3, TwinCode DEF PlaceOK, c
    <3> QED
      BY <1>3, <1>6, <3>1, <3>2
  <2> QED
    BY <1>2, <2>1, <2>2, <2>3
<1>15. p2 = Done <=> e
  BY <1>6 DEF p2, Done
<1>16. PlaceOK(h2, v2)
  <2>1. \A N : Knows(g, w, N) => Knows(h2, v2, N)
    BY <1>3, <1>8, <1>9 DEF Knows
  <2> QED
    BY <1>7, <1>8, <1>13, <1>14, <1>15, <2>1 DEF PlaceOK
<1>17. Twins(h2, v2)
  BY <1>7, <1>8, <1>10, <1>16 DEF Twins
<1> QED
  BY <1>12, <1>17 DEF h2, v2

(* Fields after new values were put.                                       *)
LEMMA PutFieldsIs ==
  ASSUME NEW fields, NEW u, NEW values,
         \A n \in DOMAIN values \cap DOMAIN Code(u).fields : Field(u.path, n) \in DOMAIN fields
  PROVE  LET now == PutFields(fields, u, values)
             W == DOMAIN values \cap DOMAIN Code(u).fields
         IN  /\ DOMAIN now = DOMAIN fields /\ Map(now)
             /\ \A n \in W : now[Field(u.path, n)] = values[n]
             /\ \A a \in DOMAIN fields : (\A n \in W : a # Field(u.path, n)) => now[a] = fields[a]
<1> DEFINE W == DOMAIN values \cap DOMAIN Code(u).fields
           X == {Field(u.path, n) : n \in W}
           o == [a \in X |-> values[a.name]]
           now == PutFields(fields, u, values)
<1>1. now = Over(o, fields)
  BY DEF PutFields
<1>2. DOMAIN o = X /\ \A a \in X : o[a] = values[a.name]
  OBVIOUS
<1>3. \A n \in W : o[Field(u.path, n)] = values[n]
  BY <1>2 DEF Field
<1> HIDE DEF o
<1>4. X \subseteq DOMAIN fields
  OBVIOUS
<1>5. now = [a \in X \cup DOMAIN fields |-> IF a \in X THEN o[a] ELSE fields[a]]
  BY <1>1, <1>2 DEF Over
<1>6. \A n \in W : Field(u.path, n) \in X
  OBVIOUS
<1>7. \A a : (\A n \in W : a # Field(u.path, n)) => a \notin X
  OBVIOUS
<1> HIDE DEF X, now, W
<1>8. DOMAIN now = DOMAIN fields
  BY <1>4, <1>5
<1>9. Map(now)
  BY <1>5 DEF Map
<1>10. \A n \in W : now[Field(u.path, n)] = values[n]
  BY <1>3, <1>5, <1>6
<1>11. \A a \in DOMAIN fields : (\A n \in W : a # Field(u.path, n)) => now[a] = fields[a]
  BY <1>5, <1>7
<1> QED
  BY <1>8, <1>9, <1>10, <1>11 DEF now, W

\* What is in the struct and the machine's memory before a call h goes on:
\* its values are in the memory alone.
PutsIn(h, a, values) == \E k \in DOMAIN values \cap DOMAIN Code(h).fields : a = Field(h.path, k)

(* A stack whose innermost call is about to go on, and what that has yet   *)
(* to change in what is meant.                                             *)
Ready(t, us, M, m, fields, g, values) ==
  /\ StackOK(domain, t, M) /\ t # <<>> /\ t[1].pc # Done
  /\ us \in Seq(Range(us)) /\ Len(us) = Len(t) /\ Twins(t[1], us[1])
  /\ DOMAIN m = M /\ Covers(fields, M)
  /\ Effects(t[1], g, us[1], m, values)
  /\ \A j \in 2 .. Len(t) :
       Twins(t[j], us[j]) /\ NamesAgree(t[j], us[j], m, Targets(Statement(t[j])))
  /\ \A a \in DOMAIN fields :
       \/ m[a] = fields[a]
       \/ \E j \in 2 .. Len(t) : Lends(t[j], a)
       \/ PutsIn(t[1], a, values)

\* A world after the innermost call has set values.
WorldPut(vs2, now, vs, fields, values) ==
  /\ now = PutFields(fields, vs[1], values)
  /\ Replaced(vs2, vs, GoneOn(now, PutNames(vs[1], values)))

(* Putting the values meant makes both agree again.                        *)
LEMMA PutSame ==
  ASSUME CodeInv, NEW t, NEW us, NEW M, NEW m, NEW fields, NEW g, NEW values,
         Ready(t, us, M, m, fields, g, values),
         NEW t2, Replaced(t2, t, After(g, m)),
         NEW now, NEW us2, WorldPut(us2, now, us, fields, values)
  PROVE  Same(t2, us2, m, now) /\ DOMAIN now = DOMAIN fields /\ Map(now)
<1>a. PICK h, u : h = t[1] /\ u = us[1]
  OBVIOUS
<1>c. /\ now = PutFields(fields, us[1], values)
      /\ Replaced(us2, us, GoneOn(now, PutNames(us[1], values)))
  BY DEF WorldPut
<1>b. /\ StackOK(domain, t, M) /\ t # <<>> /\ h.pc # Done
      /\ us \in Seq(Range(us)) /\ Len(us) = Len(t) /\ Twins(h, u)
      /\ DOMAIN m = M /\ DOMAIN fields = {a \in M : a.area = "state"}
      /\ Effects(h, g, u, m, values)
      /\ \A j \in 2 .. Len(t) :
           Twins(t[j], us[j]) /\ NamesAgree(t[j], us[j], m, Targets(Statement(t[j])))
      /\ \A a \in DOMAIN fields :
           \/ m[a] = fields[a]
           \/ \E j \in 2 .. Len(t) : Lends(t[j], a)
           \/ PutsIn(h, a, values)
  BY <1>a DEF Ready, Covers
<1> DEFINE h2 == After(g, m)
           w == PutNames(u, values)
           v2 == GoneOn(now, w)
           n == Len(t)
           c == Code(h)
<1>1. n \in Nat \ {0} /\ DOMAIN t = 1 .. n /\ 1 \in DOMAIN t /\ Shaped(h) /\ Reaches(h, M)
  <2>1. n \in Nat \ {0} /\ 1 \in DOMAIN t /\ DOMAIN t = 1 .. n
    BY <1>b DEF StackOK
  <2> QED
    BY <1>a, <1>b, <2>1, PathsAre
<1>2. Twins(h2, v2) /\ NamesAgree(h2, v2, m, {})
  BY <1>1, <1>b, HeadGoesOn
<1> HIDE DEF h2, v2
<1>3. /\ Len(t2) = n /\ t2[1] = h2 /\ \A i \in 2 .. n : t2[i] = t[i]
      /\ us2 \in Seq(Range(us2)) /\ Len(us2) = n /\ us2[1] = v2 /\ \A i \in 2 .. n : us2[i] = us[i]
      /\ DOMAIN t2 = 1 .. n
  BY <1>a, <1>b, <1>c DEF Replaced, h2, v2
<1>4. Code(u) = c /\ u.path = h.path
  BY <1>b, TwinCode
<1>5. \A k \in DOMAIN c.fields : k \in DOMAIN h.at /\ h.at[k] = Field(h.path, k) /\ Field(h.path, k) \in DOMAIN fields
  BY <1>1, <1>b DEF Shaped, CellNames, Reaches, Field
<1>6. /\ DOMAIN now = DOMAIN fields /\ Map(now)
      /\ \A k \in DOMAIN values \cap DOMAIN c.fields : now[Field(h.path, k)] = values[k]
      /\ \A a \in DOMAIN fields : ~PutsIn(h, a, values) => now[a] = fields[a]
  BY <1>4, <1>5, <1>a, <1>c, PutFieldsIs DEF PutsIn
<1>7. \A k \in DOMAIN values \cap DOMAIN c.fields : m[Field(h.path, k)] = values[k]
  <2> SUFFICES ASSUME NEW k \in DOMAIN values \cap DOMAIN c.fields
               PROVE  m[Field(h.path, k)] = values[k]
    OBVIOUS
  <2>1. Value(g, m, k) = values[k]
    BY <1>b DEF Effects
  <2>2. g.at = h.at /\ DOMAIN g.val \cap DOMAIN h.at = {}
    BY <1>b DEF Effects, GoesOn, SameCells
  <2>3. k \notin DOMAIN Literal
    BY <1>1, <1>b, TargetsAre DEF Effects
  <2> QED
    BY <1>5, <2>1, <2>2, <2>3 DEF Value
<1>8. FieldsAgree(t2, m, now)
  <2> SUFFICES ASSUME NEW a \in DOMAIN fields
               PROVE  m[a] = now[a] \/ \E j \in 2 .. Len(t2) : Lends(t2[j], a)
    BY <1>6 DEF FieldsAgree
  <2>1. CASE PutsIn(h, a, values)
    BY <1>6, <1>7, <2>1 DEF PutsIn
  <2>2. CASE ~PutsIn(h, a, values)
    <3>1. CASE m[a] = fields[a]
      BY <1>6, <2>2, <3>1
    <3>2. CASE \E j \in 2 .. n : Lends(t[j], a)
      BY <1>3, <3>2
    <3> QED
      BY <1>b, <2>2, <3>1, <3>2
  <2> QED
    BY <2>1, <2>2
<1>9. ASSUME NEW i \in DOMAIN t2
      PROVE  Twins(t2[i], us2[i]) /\ NamesAgree(t2[i], us2[i], m, Pending(t2, i))
  <2>1. CASE i = 1
    BY <1>2, <1>3, <2>1 DEF Pending
  <2>2. CASE i # 1
    <3>1. i \in 2 .. n
      BY <1>1, <1>3, <2>2
    <3>2. t2[i] = t[i] /\ us2[i] = us[i]
      BY <1>3, <3>1
    <3>3. Pending(t2, i) = Targets(Statement(t[i]))
      BY <2>2, <3>2 DEF Pending
    <3> QED
      BY <1>b, <3>1, <3>2, <3>3
  <2> QED
    BY <2>1, <2>2
<1> QED
  BY <1>3, <1>6, <1>8, <1>9 DEF Same

(* A value rests on the cell of its name only.                             *)
LEMMA ValueKept ==
  ASSUME NEW f, NEW v, NamesOK(f, v), NEW n \in Names(f, v), NEW m, NEW m0,
         n \in DOMAIN f.at => m[f.at[n]] = m0[f.at[n]]
  PROVE  Value(f, m, n) = Value(f, m0, n)
<1>1. n \in DOMAIN f.val \/ n \in DOMAIN f.at
  BY DEF NamesOK, Names
<1> QED
  BY <1>1 DEF Value

(* A statement writes only what its call may write.                        *)
LEMMA TargetsWritable ==
  ASSUME CodeInv, NEW f, Shaped(f), f.pc # Done
  PROVE  Targets(Statement(f)) \cap DOMAIN f.at \subseteq Writable(f)
<1>1. Targets(Statement(f)) \cap Range(Code(f).ins) = {}
  BY StatementIs DEF GoodCode, OneMeaningPerName
<1> QED
  BY <1>1 DEF Writable

\* f's statement has written values to its cells and names.
Stores(f, g, m0, m, values) ==
  /\ GoesOn(f, g) /\ DOMAIN values \subseteq Targets(Statement(f))
  /\ SurelySet(Code(f), Statement(f)) \subseteq DOMAIN values \cup DOMAIN Code(f).fields
  /\ DOMAIN g.val = DOMAIN f.val \cup (DOMAIN values \ DOMAIN f.at)
  /\ \A n \in DOMAIN f.val \ DOMAIN values : g.val[n] = f.val[n]
  /\ \A n \in DOMAIN values \ DOMAIN f.at : g.val[n] = values[n]
  /\ DOMAIN m = DOMAIN m0
  /\ \A n \in DOMAIN values \cap DOMAIN f.at : m[f.at[n]] = values[n]
  /\ \A a \in DOMAIN m0 : m[a] # m0[a] => \E n \in DOMAIN values \cap DOMAIN f.at : a = f.at[n]

(* Storing values in the cells of names has the effects meant.             *)
LEMMA StoresHasEffects ==
  ASSUME CodeInv, NEW f, Shaped(f), f.pc # Done, NEW m0, Reaches(f, DOMAIN m0), Distinct(f),
         NEW u, Twins(f, u), NamesAgree(f, u, m0, {}), NEW g, NEW m, NEW values,
         Stores(f, g, m0, m, values)
  PROVE  Effects(f, g, u, m, values)
<1> DEFINE W == DOMAIN values
           T == Targets(Statement(f))
           A == DOMAIN f.at
<1>1. /\ g.callable = f.callable /\ g.at = f.at /\ DOMAIN g.val \cap (A \cup DOMAIN Literal) = {}
      /\ Code(g) = Code(f) /\ GoesOn(f, g)
  BY DEF Stores, GoesOn, SameCells, Code
<1>2. /\ W \subseteq T /\ SurelySet(Code(f), Statement(f)) \subseteq W \cup DOMAIN Code(f).fields
      /\ DOMAIN g.val = DOMAIN f.val \cup (W \ A)
      /\ \A n \in DOMAIN f.val \ W : g.val[n] = f.val[n]
      /\ \A n \in W \ A : g.val[n] = values[n]
      /\ \A n \in W \cap A : m[f.at[n]] = values[n]
      /\ \A a \in DOMAIN m0 : m[a] # m0[a] => \E n \in W \cap A : a = f.at[n]
  BY DEF Stores
<1>3. T \cap DOMAIN Literal = {} /\ T \cap A \subseteq Writable(f)
  BY TargetsAre, TargetsWritable
<1>4. NamesOK(f, u)
  BY TwinCode
<1>5. Knows(g, u, SurelySet(Code(f), Statement(f)) \ W)
  BY <1>1, <1>2 DEF Knows
<1> HIDE DEF W, T, A
<1>6. \A n \in W : Value(g, m, n) = values[n]
  <2> SUFFICES ASSUME NEW n \in W PROVE Value(g, m, n) = values[n]
    OBVIOUS
  <2>1. n \notin DOMAIN Literal
    BY <1>2, <1>3
  <2>2. CASE n \in A
    BY <1>1, <1>2, <2>1, <2>2 DEF Value
  <2>3. CASE n \notin A
    BY <1>2, <2>1, <2>3 DEF Value
  <2> QED
    BY <2>2, <2>3
<1>7. ASSUME NEW n \in Names(g, u) \ W PROVE Value(g, m, n) = NameOf(u, n)
  <2>1. n \in Names(f, u)
    BY <1>2 DEF Names
  <2>2. n \notin DOMAIN Literal
    BY <1>4, <2>1 DEF NamesOK
  <2>3. Value(f, m0, n) = NameOf(u, n)
    BY <2>1 DEF NamesAgree
  <2>4. CASE n \in DOMAIN f.val
    BY <1>2, <2>2, <2>3, <2>4 DEF Value
  <2>5. CASE n \notin DOMAIN f.val
    <3>1. n \in A /\ n \notin DOMAIN g.val
      BY <1>2, <1>4, <2>1, <2>5 DEF NamesOK, Names, A
    <3>2. f.at[n] \in DOMAIN m0
      BY <3>1 DEF Reaches, A
    <3>3. \A k \in W \cap A : f.at[n] # f.at[k]
      BY <1>2, <1>3, <3>1 DEF Distinct, A
    <3>4. m[f.at[n]] = m0[f.at[n]]
      BY <1>2, <3>2, <3>3
    <3> QED
      BY <1>1, <2>2, <2>3, <2>5, <3>1, <3>4 DEF Value
  <2> QED
    BY <2>4, <2>5
<1>8. /\ DOMAIN f.val \subseteq DOMAIN g.val /\ DOMAIN g.val \subseteq DOMAIN f.val \cup T
      /\ W \subseteq A \cup DOMAIN g.val
  BY <1>2
<1> QED
  BY <1>1, <1>2, <1>5, <1>6, <1>7, <1>8 DEF Effects, W, T, A

\* The others see what they saw.
LEMMA OthersKeep ==
  ASSUME NEW f, NEW h, NEW u, Twins(h, u), NEW m0, NEW m, Reaches(h, DOMAIN m0), Apart(f, h),
         NamesAgree(h, u, m0, Targets(Statement(h))),
         \A a \in DOMAIN m0 : m[a] # m0[a] => \E n \in Writable(f) : a = f.at[n]
  PROVE  NamesAgree(h, u, m, Targets(Statement(h)))
<1> SUFFICES ASSUME NEW n \in Names(h, u) \ Targets(Statement(h))
             PROVE  Value(h, m, n) = NameOf(u, n)
  BY DEF NamesAgree
<1>1. Value(h, m0, n) = NameOf(u, n)
  BY DEF NamesAgree
<1>2. n \in DOMAIN h.at => m[h.at[n]] = m0[h.at[n]]
  BY DEF Reaches, Apart
<1>3. NamesOK(h, u)
  BY TwinCode
<1> QED
  BY <1>1, <1>2, <1>3, ValueKept

(* A statement that stores the values meant leaves both agreeing.          *)
LEMMA StoresSame ==
  ASSUME CodeInv, NEW fs, NEW m0, StackOK(domain, fs, DOMAIN m0), fs # <<>>,
         NEW f, f = fs[1], f.pc # Done, NEW vs, NEW fields,
         Covers(fields, DOMAIN m0), Same(fs, vs, m0, fields),
         NEW g, NEW m, NEW values, Stores(f, g, m0, m, values),
         NEW t2, Replaced(t2, fs, After(g, m)),
         NEW now, NEW vs2, WorldPut(vs2, now, vs, fields, values)
  PROVE  Same(t2, vs2, m, now) /\ DOMAIN now = DOMAIN fields /\ Map(now)
<1> DEFINE n == Len(fs)
           M == DOMAIN m0
           u == vs[1]
<1>1. /\ n \in Nat \ {0} /\ DOMAIN fs = 1 .. n /\ 1 \in DOMAIN fs
      /\ \A i \in DOMAIN fs : FrameOK(domain, fs, i, M)
      /\ \A j \in 2 .. n : j \in DOMAIN fs /\ 1 < j /\ j # 1
  BY DEF StackOK
<1>2. /\ vs \in Seq(Range(vs)) /\ Len(vs) = n /\ FieldsAgree(fs, m0, fields)
      /\ \A i \in DOMAIN fs : Twins(fs[i], vs[i]) /\ NamesAgree(fs[i], vs[i], m0, Pending(fs, i))
  BY DEF Same
<1>3. /\ Shaped(f) /\ Reaches(f, M) /\ Distinct(f) /\ Owned(fs, 1)
  BY <1>1 DEF FrameOK
<1>4. Twins(f, u) /\ NamesAgree(f, u, m0, {})
  BY <1>1, <1>2 DEF Pending
<1>5. Effects(f, g, u, m, values)
  BY <1>3, <1>4, StoresHasEffects
<1>6. /\ DOMAIN values \subseteq Targets(Statement(f)) /\ DOMAIN m = M
      /\ \A a \in M : m[a] # m0[a] => \E k \in DOMAIN values \cap DOMAIN f.at : a = f.at[k]
  BY DEF Stores
<1>7. DOMAIN values \cap DOMAIN f.at \subseteq Writable(f)
  BY <1>3, <1>6, TargetsWritable
<1>8. \A a \in M : m[a] # m0[a] => \E k \in Writable(f) : a = f.at[k]
  BY <1>6, <1>7
<1> HIDE DEF n
<1>9. ASSUME NEW j \in 2 .. n
      PROVE  Twins(fs[j], vs[j]) /\ NamesAgree(fs[j], vs[j], m, Targets(Statement(fs[j])))
  <2>1. j \in DOMAIN fs /\ j # 1 /\ 1 < j
    BY <1>1
  <2>2. Reaches(fs[j], M)
    BY <1>1, <2>1 DEF FrameOK
  <2>3. Apart(f, fs[j])
    BY <1>1, <2>1 DEF StackOK
  <2>4. Twins(fs[j], vs[j]) /\ NamesAgree(fs[j], vs[j], m0, Targets(Statement(fs[j])))
    BY <1>2, <2>1 DEF Pending
  <2> QED
    BY <1>8, <2>2, <2>3, <2>4, OthersKeep
<1>10. ASSUME NEW a \in DOMAIN fields
       PROVE  \/ m[a] = fields[a]
              \/ \E j \in 2 .. n : Lends(fs[j], a)
              \/ PutsIn(f, a, values)
  <2>1. m0[a] = fields[a] \/ \E j \in 2 .. n : Lends(fs[j], a)
    BY <1>2 DEF FieldsAgree, n
  <2>2. CASE m[a] = m0[a]
    BY <2>1, <2>2
  <2>3. CASE m[a] # m0[a]
    <3>1. a \in M /\ a.area = "state"
      BY DEF Covers
    <3>2. PICK k \in DOMAIN values \cap DOMAIN f.at : a = f.at[k]
      BY <1>6, <2>3, <3>1
    <3>3. k \in Writable(f)
      BY <1>7
    <3>4. Own(f, k) \/ \E j \in 1 + 1 .. n : Lends(fs[j], a)
      BY <1>3, <3>1, <3>2, <3>3 DEF Owned, n
    <3>5. CASE Own(f, k)
      BY <3>2, <3>5 DEF Own, PutsIn
    <3> QED
      BY <3>4, <3>5
  <2> QED
    BY <2>2, <2>3
<1>11. \A j \in 2 .. Len(fs) :
         Twins(fs[j], vs[j]) /\ NamesAgree(fs[j], vs[j], m, Targets(Statement(fs[j])))
  BY <1>9 DEF n
<1>12. \A a \in DOMAIN fields :
         \/ m[a] = fields[a]
         \/ \E j \in 2 .. Len(fs) : Lends(fs[j], a)
         \/ PutsIn(f, a, values)
  BY <1>10 DEF n
<1>13. vs \in Seq(Range(vs)) /\ Len(vs) = Len(fs) /\ DOMAIN m = M
  BY <1>2, <1>6 DEF n
<1>14. Ready(fs, vs, M, m, fields, g, values)
  BY <1>4, <1>5, <1>11, <1>12, <1>13 DEF Ready
<1> HIDE DEF M
<1> QED
  BY <1>14, PutSame DEF u

\* The calls that run beside what they mean.
Beside(fs, m, vs, fields) ==
  /\ CodeInv /\ StackOK(domain, fs, DOMAIN m) /\ MemOK(fs, DOMAIN m)
  /\ Covers(fields, DOMAIN m) /\ Same(fs, vs, m, fields)

-----------------------------------------------------------------------------
(* Assignments, resets and state machines                                  *)

(* What agrees while a call is under way.                                  *)
LEMMA RunningMeans ==
  ASSUME PointerInv, MeantInv, frames # <<>>
  PROVE  /\ Beside(frames, mem, meant.calls, meant.fields)
         /\ meant.calls \in Seq(Range(meant.calls)) /\ Len(meant.calls) = Len(frames)
         /\ meant.calls # <<>> /\ Head(meant.calls) = meant.calls[1]
         /\ Twins(Head(frames), Head(meant.calls))
<1>1. Beside(frames, mem, meant.calls, meant.fields)
  BY DEF Beside, PointerInv, MeantInv, MeantFor, CodeInv
<1>2. /\ Head(frames) = frames[1] /\ Len(frames) \in Nat \ {0} /\ DOMAIN frames = 1 .. Len(frames)
  BY RunningIs
<1>3. /\ meant.calls \in Seq(Range(meant.calls)) /\ Len(meant.calls) = Len(frames)
      /\ Twins(frames[1], meant.calls[1])
  BY <1>2 DEF MeantInv, MeantFor, Same
<1>4. meant.calls # <<>> /\ Head(meant.calls) = meant.calls[1]
  BY <1>2, <1>3
<1> QED
  BY <1>1, <1>2, <1>3, <1>4

(* The innermost call and its twin see the same where they look.           *)
LEMMA HeadSources ==
  ASSUME NEW fs, NEW m, NEW vs, NEW fields, Beside(fs, m, vs, fields), fs # <<>>,
         NEW f, f = fs[1], NEW u, u = vs[1]
  PROVE  /\ Twins(f, u) /\ NamesAgree(f, u, m, {})
         /\ \A n : Sees(f, u, n) => Read(fields, u, n) = Value(f, m, n)
         /\ f.pc # Done => \A n \in Sources(Statement(f)) : Read(fields, u, n) = Value(f, m, n)
<1>1. CodeInv /\ StackOK(domain, fs, DOMAIN m) /\ Same(fs, vs, m, fields)
      /\ Covers(fields, DOMAIN m)
  BY DEF Beside
<1>2. 1 \in DOMAIN fs /\ Shaped(f)
  <2>1. 1 \in DOMAIN fs
    BY <1>1 DEF StackOK
  <2> QED
    BY <1>1, <2>1, PathsAre
<1>3. Twins(f, u) /\ NamesAgree(f, u, m, {}) /\ FieldsAgree(fs, m, fields)
  BY <1>1, <1>2 DEF Same, Pending
<1>4. \A n : Sees(f, u, n) => Read(fields, u, n) = Value(f, m, n)
  <2> SUFFICES ASSUME NEW n, Sees(f, u, n) PROVE Read(fields, u, n) = Value(f, m, n)
    OBVIOUS
  <2> QED
    BY <1>1, <1>3, HeadReads
<1>5. ASSUME f.pc # Done, NEW n \in Sources(Statement(f)) PROVE Sees(f, u, n)
  <2>1. Knows(f, u, Known(Code(f), f.pc))
    BY <1>3, <1>5, TwinCode DEF PlaceOK
  <2>2. Sources(Statement(f)) \subseteq Known(Code(f), f.pc)
    BY <1>1, <1>2, <1>5, StatementIs DEF GoodCode, StatementsFit
  <2> QED
    BY <1>5, <2>1, <2>2 DEF Knows, Sees
<1> QED
  BY <1>3, <1>4, <1>5

(* The same, of the call by its place.                                     *)
LEMMA HeadAgrees ==
  ASSUME NEW fs, NEW m, NEW vs, NEW fields, Beside(fs, m, vs, fields), fs # <<>>
  PROVE  /\ Twins(fs[1], vs[1])
         /\ \A n : Sees(fs[1], vs[1], n) => Read(fields, vs[1], n) = Value(fs[1], m, n)
BY HeadSources

\* The values a statement leaves, put where the innermost call has them.
PutNow(fields, vs, values) == Put(fields, vs[1], Tail(vs), values)

(* What is meant after them.                                               *)
LEMMA PutIs ==
  ASSUME NEW fields, NEW vs, vs \in Seq(Range(vs)), vs # <<>>, NEW values, NEW w,
         w = PutNow(fields, vs, values)
  PROVE  /\ WorldPut(w.calls, w.fields, vs, fields, values)
         /\ w = [fields |-> w.fields, calls |-> w.calls]
<1> DEFINE now == PutFields(fields, vs[1], values)
           v == GoneOn(now, PutNames(vs[1], values))
           t == <<v>> \o Tail(vs)
<1>1. w = [fields |-> now, calls |-> t]
  BY DEF Put, PutNow
<1>2. Joins(t, <<v>>, Tail(vs))
  BY DEF Joins
<1> HIDE DEF t, now
<1>3. w.fields = now /\ w.calls = t /\ w = [fields |-> w.fields, calls |-> w.calls]
  BY <1>1
<1> HIDE DEF v
<1>4. Replaced(t, vs, v)
  BY <1>2, StackReplaced
<1> QED
  BY <1>3, <1>4 DEF now, v, WorldPut

(* Nothing else in the invariant mentions the state.                       *)
LEMMA TwinsStay ==
  ASSUME code' = code
  PROVE  \A fs, vs, m, fields : (Same(fs, vs, m, fields))' <=> Same(fs, vs, m, fields)
BY DEF Same, Twins, NamesOK, Names, PlaceOK, Knows, NamesAgree, NameOf, Pending, FieldsAgree,
       Lends, Code, CodeOf, Statement, Value, Known, Given, SurelySet, Conditional, Targets, Locals, Prefilled

(* What is left to show of a step.                                         *)
LEMMA MeantKept ==
  ASSUME code' = code, MeantFor(frames', mem', meant')
  PROVE  MeantInv'
BY TwinsStay DEF MeantInv, MeantFor, Map, Covers

(* A statement that stores what its meaning puts in the world.             *)
LEMMA StoresMeans ==
  ASSUME PointerInv, MeantInv, frames # <<>>, NEW f, f = Head(frames), f.pc # Done,
         NEW g, NEW m, NEW values, Stores(f, g, mem, m, values), Map(m), GoOn(g, m),
         code' = code,
         meant' = Put(meant.fields, Head(meant.calls), Tail(meant.calls), values)
  PROVE  MeantInv'
<1>1. /\ Beside(frames, mem, meant.calls, meant.fields)
      /\ meant.calls \in Seq(Range(meant.calls)) /\ meant.calls # <<>>
      /\ Head(meant.calls) = meant.calls[1]
  BY RunningMeans
<1>2. PICK fs, vs, fields, w, now, t2, vs2 :
        /\ fs = frames /\ vs = meant.calls /\ fields = meant.fields /\ w = meant'
        /\ now = w.fields /\ t2 = frames' /\ vs2 = w.calls
  OBVIOUS
<1>3. mem' = m /\ Joins(t2, <<After(g, m)>>, Tail(fs))
  BY <1>2 DEF GoOn, Joins
<1>4. CodeInv /\ f = fs[1] /\ fs \in Seq(Range(fs)) /\ fs # <<>>
  BY <1>2, RunningIs
<1>5. Replaced(t2, fs, After(g, m))
  BY <1>3, <1>4, StackReplaced
<1>6. /\ WorldPut(vs2, now, vs, fields, values)
      /\ w = [fields |-> now, calls |-> vs2]
  <2>1. w = PutNow(fields, vs, values) /\ vs \in Seq(Range(vs)) /\ vs # <<>>
    BY <1>1, <1>2 DEF PutNow
  <2>2. WorldPut(w.calls, w.fields, vs, fields, values) /\ w = [fields |-> w.fields, calls |-> w.calls]
    BY <2>1, PutIs
  <2> QED
    BY <1>2, <2>2
<1>7. PICK m0 : m0 = mem
  OBVIOUS
<1>8. StackOK(domain, fs, DOMAIN m0) /\ Covers(fields, DOMAIN m0) /\ Same(fs, vs, m0, fields)
      /\ Stores(f, g, m0, m, values)
  BY <1>1, <1>2, <1>7 DEF Beside
<1>9. Same(t2, vs2, m, now) /\ DOMAIN now = DOMAIN fields /\ Map(now)
  BY <1>4, <1>5, <1>6, <1>8, StoresSame
<1>10. Covers(now, DOMAIN m)
  BY <1>8, <1>9 DEF Covers, Stores
<1>11. MeantFor(t2, m, w)
  BY <1>2, <1>6, <1>9, <1>10 DEF MeantFor
<1> QED
  BY <1>2, <1>3, <1>11, MeantKept

\* One turn of a world whose innermost call does not call.
LEMMA TurnIs ==
  ASSUME NEW w, NEW v, v = Head(w.calls), v.pc # Done, Statement(v).op # "call"
  PROVE  Turn(w) = Put(w.fields, v, Tail(w.calls), Effect(w.fields, v, Statement(v)))
BY DEF Turn, Calls

(* An assignment does what it means.                                       *)
LEMMA AssignMeans ==
  ASSUME PointerInv, MeantInv, Assign, code' = code, meant' = Turn(meant)
  PROVE  MeantInv'
<1>1. PICK f, s, u, fields : f = Head(frames) /\ s = Statement(f) /\ u = Head(meant.calls) /\ fields = meant.fields
  OBVIOUS
<1>2. frames # <<>> /\ f.pc # Done /\ s.op = "set"
  BY <1>1 DEF Assign, Running
<1>3. PICK X : X = Apply(s.expr[1], Value(f, mem, s.expr[2]), Value(f, mem, s.expr[3]))
  OBVIOUS
<1>4. GoOn(Bound(f, s.var, X), Write(f, mem, s.var, X))
  BY <1>1, <1>3 DEF Assign
<1>5. /\ CodeInv /\ f = frames[1] /\ Shaped(f) /\ FrameOK(domain, frames, 1, DOMAIN mem)
  BY <1>1, <1>2, RunningIs
<1>6. Beside(frames, mem, meant.calls, meant.fields) /\ u = meant.calls[1]
  BY <1>1, <1>2, RunningMeans
<1>7. Twins(f, u) /\ \A n \in Sources(s) : Read(fields, u, n) = Value(f, mem, n)
  BY <1>1, <1>2, <1>5, <1>6, HeadSources
<1>8. Statement(u) = s /\ u.pc = f.pc
  BY <1>1, <1>7, TwinCode
<1>9. PICK values : values = Effect(fields, u, s)
  OBVIOUS
<1>10. DOMAIN values = {s.var} /\ values[s.var] = X
  <2>1. Sources(s) = {s.expr[2], s.expr[3]}
    BY <1>2 DEF Sources
  <2>2. Read(fields, u, s.expr[2]) = Value(f, mem, s.expr[2]) /\ Read(fields, u, s.expr[3]) = Value(f, mem, s.expr[3])
    BY <1>7, <2>1
  <2>3. values = [n \in {s.var} |-> Apply(s.expr[1], Read(fields, u, s.expr[2]), Read(fields, u, s.expr[3]))]
    BY <1>2, <1>9 DEF Effect
  <2> QED
    BY <1>3, <2>2, <2>3
<1>11. Targets(s) = {s.var} /\ SurelySet(Code(f), s) = {s.var} /\ s.var \notin DOMAIN Literal
  <2>1. Targets(s) = {s.var} /\ SurelySet(Code(f), s) = {s.var}
    BY <1>2 DEF Targets, SurelySet, Conditional
  <2> QED
    BY <1>1, <1>2, <1>5, <2>1, TargetsAre
<1>12. PICK g, m, z : g = Bound(f, s.var, X) /\ m = Write(f, mem, s.var, X) /\ z = s.var
  OBVIOUS
<1>13. GoesOn(f, g)
  BY <1>5, <1>11, <1>12, BoundGoesOn
<1>14. /\ DOMAIN g.val = DOMAIN f.val \cup ({z} \ DOMAIN f.at)
       /\ \A n \in DOMAIN f.val \ {z} : g.val[n] = f.val[n]
       /\ z \notin DOMAIN f.at => g.val[z] = X
  <2>1. CASE z \in DOMAIN f.at
    BY <1>12, <2>1 DEF Bound
  <2>2. CASE z \notin DOMAIN f.at
    <3> DEFINE o == [x \in {z} |-> X]
               k == Over(o, f.val)
    <3>1. g = [f EXCEPT !.val = k]
      BY <1>12, <2>2 DEF Bound
    <3>2. /\ DOMAIN k = {z} \cup DOMAIN f.val
          /\ \A n \in DOMAIN f.val \ {z} : k[n] = f.val[n]
          /\ k[z] = X
      BY DEF Over
    <3> HIDE DEF k
    <3>3. g.val = k
      BY <1>5, <3>1 DEF Shaped
    <3> QED
      BY <2>2, <3>2, <3>3
  <2> QED
    BY <2>1, <2>2
<1>15. PICK m0 : m0 = mem /\ Map(m0)
  BY DEF MeantInv, MeantFor
<1>16. /\ DOMAIN m = DOMAIN m0 /\ Map(m)
       /\ z \in DOMAIN f.at => m[f.at[z]] = X
       /\ \A a \in DOMAIN m0 : m[a] # m0[a] => z \in DOMAIN f.at /\ a = f.at[z]
  <2>1. z \in DOMAIN f.at => f.at[z] \in DOMAIN m0
    BY <1>5, <1>15, Zenon DEF FrameOK, Reaches
  <2>2. m = IF z \in DOMAIN f.at THEN [m0 EXCEPT ![f.at[z]] = X] ELSE m0
    BY <1>12, <1>15 DEF Write
  <2> QED
    BY <1>15, <2>1, <2>2 DEF Map
<1>17. Stores(f, g, m0, m, values)
  BY <1>1, <1>10, <1>11, <1>12, <1>13, <1>14, <1>16 DEF Stores
<1>18. meant' = Put(fields, u, Tail(meant.calls), values)
  BY <1>1, <1>2, <1>8, <1>9, TurnIs
<1> QED
  BY <1>1, <1>2, <1>4, <1>12, <1>15, <1>16, <1>17, <1>18, StoresMeans

\* The innermost call runs a statement; its twin stands before it too.
AtStatement(f, s, u, fields) ==
  /\ f = Head(frames) /\ s = Statement(f) /\ u = Head(meant.calls) /\ fields = meant.fields
  /\ frames # <<>> /\ f.pc # Done

(* What agrees at a statement.                                             *)
LEMMA StatementMeans ==
  ASSUME PointerInv, MeantInv, NEW f, NEW s, NEW u, NEW fields, AtStatement(f, s, u, fields)
  PROVE  /\ CodeInv /\ f = frames[1] /\ Shaped(f) /\ Reaches(f, DOMAIN mem) /\ Distinct(f)
         /\ Twins(f, u) /\ Statement(u) = s /\ u.pc = f.pc
         /\ \A n \in Sources(s) : Read(fields, u, n) = Value(f, mem, n)
         /\ Targets(s) \cap DOMAIN Literal = {}
         /\ s.op \in {"set", "reset", "call", "machine"}
         /\ s.op = "reset" => Range(s.vars) \subseteq DOMAIN f.at
         /\ s.op = "machine" => {s.active, s.request} \subseteq DOMAIN Code(f).fields
         /\ DOMAIN Code(f).fields \subseteq DOMAIN f.at
         /\ \A n \in DOMAIN Code(f).fields : f.at[n] = Field(f.path, n)
<1>1. /\ f = Head(frames) /\ s = Statement(f) /\ u = Head(meant.calls) /\ fields = meant.fields
      /\ frames # <<>> /\ f.pc # Done
  BY DEF AtStatement
<1>2. /\ CodeInv /\ f = frames[1] /\ Shaped(f) /\ Reaches(f, DOMAIN mem) /\ Distinct(f)
  <2>1. CodeInv /\ f = frames[1] /\ Shaped(f) /\ FrameOK(domain, frames, 1, DOMAIN mem)
    BY <1>1, RunningIs
  <2> QED
    BY <2>1 DEF FrameOK
<1>3. Beside(frames, mem, meant.calls, meant.fields) /\ u = meant.calls[1]
  BY <1>1, RunningMeans
<1>4. Twins(f, u) /\ \A n \in Sources(s) : Read(fields, u, n) = Value(f, mem, n)
  BY <1>1, <1>2, <1>3, HeadSources
<1>5. Statement(u) = s /\ u.pc = f.pc
  BY <1>1, <1>4, TwinCode
<1>6. /\ Targets(s) \cap DOMAIN Literal = {}
      /\ s.op \in {"set", "reset", "call", "machine"}
      /\ s.op = "reset" => Range(s.vars) \subseteq DOMAIN f.at
      /\ s.op = "machine" => {s.active, s.request} \subseteq DOMAIN Code(f).fields
      /\ DOMAIN Code(f).fields \subseteq DOMAIN f.at
  BY <1>1, <1>2, TargetsAre
<1>7. \A n \in DOMAIN Code(f).fields : f.at[n] = Field(f.path, n)
  BY <1>2 DEF Shaped
<1> QED
  BY <1>2, <1>4, <1>5, <1>6, <1>7

(* A statement that changes cells only.                                    *)
LEMMA CellsStored ==
  ASSUME PointerInv, MeantInv, NEW f, NEW s, NEW u, NEW fields, AtStatement(f, s, u, fields),
         NEW m, NEW values, DOMAIN values \subseteq Targets(s) \cap DOMAIN f.at,
         SurelySet(Code(f), s) \subseteq DOMAIN values \cup DOMAIN Code(f).fields,
         DOMAIN m = DOMAIN mem, Map(m),
         \A n \in DOMAIN values : m[f.at[n]] = values[n],
         \A a \in DOMAIN mem : m[a] # mem[a] => \E n \in DOMAIN values : a = f.at[n],
         GoOn(f, m), code' = code, s.op # "call", values = Effect(fields, u, s),
         meant' = Turn(meant)
  PROVE  MeantInv'
<1>1. /\ f = Head(frames) /\ s = Statement(f) /\ u = Head(meant.calls) /\ fields = meant.fields
      /\ frames # <<>> /\ f.pc # Done
  BY DEF AtStatement
<1>2. Shaped(f) /\ Statement(u) = s /\ u.pc = f.pc
  BY StatementMeans
<1>3. GoesOn(f, f)
  BY <1>2, SameGoesOn
<1>4. PICK m0 : m0 = mem
  OBVIOUS
<1>5. Stores(f, f, m0, m, values)
  BY <1>1, <1>3, <1>4 DEF Stores
<1>6. meant' = Put(fields, u, Tail(meant.calls), values)
  BY <1>1, <1>2, TurnIs
<1> QED
  BY <1>1, <1>4, <1>5, <1>6, StoresMeans

(* A reset does what it means.                                             *)
LEMMA ResetMeans ==
  ASSUME PointerInv, MeantInv, Reset, code' = code, meant' = Turn(meant)
  PROVE  MeantInv'
<1>1. PICK f, s, u, fields : f = Head(frames) /\ s = Statement(f) /\ u = Head(meant.calls) /\ fields = meant.fields
  OBVIOUS
<1>2. frames # <<>> /\ f.pc # Done /\ s.op = "reset"
  BY <1>1 DEF Reset, Running
<1>3. AtStatement(f, s, u, fields)
  BY <1>1, <1>2 DEF AtStatement
<1>4. /\ Reaches(f, DOMAIN mem)
      /\ \A n \in Sources(s) : Read(fields, u, n) = Value(f, mem, n)
      /\ Range(s.vars) \subseteq DOMAIN f.at
  BY <1>2, <1>3, StatementMeans
<1>5. PICK on, X : on = IsOn(f, mem, s.cond) /\ X = IF on THEN Range(s.vars) ELSE {}
  OBVIOUS
<1>6. PICK values : values = Effect(fields, u, s)
  OBVIOUS
<1>7. DOMAIN values = X /\ \A n \in X : values[n] = s.to
  <2>1. Read(fields, u, s.cond) = Value(f, mem, s.cond)
    BY <1>2, <1>4 DEF Sources
  <2>2. values = [n \in IF Read(fields, u, s.cond) # 0 THEN Range(s.vars) ELSE {} |-> s.to]
    BY <1>2, <1>6 DEF Effect
  <2> QED
    BY <1>5, <2>1, <2>2 DEF IsOn
<1>8. Targets(s) = Range(s.vars) /\ SurelySet(Code(f), s) = {}
  BY <1>2 DEF Targets, SurelySet
<1>9. PICK m : m = IF on THEN Over([c \in {f.at[n] : n \in Range(s.vars)} |-> s.to], mem) ELSE mem
  OBVIOUS
<1>10. GoOn(f, m)
  BY <1>1, <1>5, <1>9 DEF Reset
<1>11. /\ DOMAIN m = DOMAIN mem /\ Map(m) /\ \A n \in X : m[f.at[n]] = s.to
       /\ \A a \in DOMAIN mem : m[a] # mem[a] => \E n \in X : a = f.at[n]
  <2>1. CASE ~on
    BY <1>5, <1>9, <2>1 DEF MeantInv, MeantFor
  <2>2. CASE on
    <3> DEFINE C == {f.at[n] : n \in Range(s.vars)}
    <3>1. m = [a \in C \cup DOMAIN mem |-> IF a \in C THEN s.to ELSE mem[a]]
      BY <1>9, <2>2 DEF Over
    <3>2. C \subseteq DOMAIN mem
      BY <1>4 DEF Reaches
    <3> QED
      BY <1>5, <2>2, <3>1, <3>2 DEF Map
  <2> QED
    BY <2>1, <2>2
<1>12. X \subseteq Targets(s) \cap DOMAIN f.at
  BY <1>4, <1>5, <1>8
<1> QED
  BY <1>2, <1>3, <1>6, <1>7, <1>8, <1>10, <1>11, <1>12, CellsStored

(* A state machine does what it means.                                     *)
LEMMA MachineMeans ==
  ASSUME PointerInv, MeantInv, RunMachine, meant' = Turn(meant)
  PROVE  MeantInv'
<1>1. PICK f, s, u, fields : f = Head(frames) /\ s = Statement(f) /\ u = Head(meant.calls) /\ fields = meant.fields
  OBVIOUS
<1>2. frames # <<>> /\ f.pc # Done /\ s.op = "machine" /\ code' = code
  BY <1>1 DEF RunMachine, Running
<1>3. AtStatement(f, s, u, fields)
  BY <1>1, <1>2 DEF AtStatement
<1>4. /\ Reaches(f, DOMAIN mem)
      /\ \A n \in Sources(s) : Read(fields, u, n) = Value(f, mem, n)
      /\ {s.active, s.request} \subseteq DOMAIN Code(f).fields
      /\ DOMAIN Code(f).fields \subseteq DOMAIN f.at
      /\ \A n \in DOMAIN Code(f).fields : f.at[n] = Field(f.path, n)
  BY <1>2, <1>3, StatementMeans
<1>5. PICK asked, leaves, to, X :
        /\ asked = Value(f, mem, s.request)
        /\ leaves = (asked \in DOMAIN s.goes /\ s.goes[asked][1] = Value(f, mem, s.active))
        /\ to = s.goes[asked][2]
        /\ X = IF leaves THEN {s.active, s.request} ELSE {}
  OBVIOUS
<1>6. PICK values : values = Effect(fields, u, s)
  OBVIOUS
<1>7. DOMAIN values = X /\ \A n \in X : values[n] = IF n = s.request THEN 0 ELSE to
  <2>1. Sources(s) = {s.active, s.request}
    BY <1>2 DEF Sources
  <2>2. Read(fields, u, s.request) = asked /\ Read(fields, u, s.active) = Value(f, mem, s.active)
    BY <1>4, <1>5, <2>1
  <2>3. values = [n \in IF asked \in DOMAIN s.goes /\ s.goes[asked][1] = Read(fields, u, s.active)
                        THEN {s.active, s.request} ELSE {} |->
                    IF n = s.request THEN 0 ELSE to]
    BY <1>2, <1>5, <1>6, <2>2 DEF Effect
  <2> QED
    BY <1>5, <2>2, <2>3
<1>8. Targets(s) = {s.active, s.request} /\ SurelySet(Code(f), s) = {s.active, s.request}
  BY <1>2 DEF Targets, SurelySet, Conditional
<1>9. PICK m : m = IF leaves THEN [mem EXCEPT ![f.at[s.active]] = to, ![f.at[s.request]] = 0] ELSE mem
  BY Zenon
<1>10. GoOn(f, m)
  BY <1>1, <1>5, <1>9, Zenon DEF RunMachine
<1>11. /\ DOMAIN m = DOMAIN mem /\ Map(m) /\ \A n \in X : m[f.at[n]] = IF n = s.request THEN 0 ELSE to
       /\ \A a \in DOMAIN mem : m[a] # mem[a] => \E n \in X : a = f.at[n]
  <2>1. CASE ~leaves
    BY <1>5, <1>9, <2>1, Zenon DEF MeantInv, MeantFor
  <2>2. CASE leaves
    <3>1. PICK a, b : a = f.at[s.active] /\ b = f.at[s.request]
      OBVIOUS
    <3>2. a \in DOMAIN mem /\ b \in DOMAIN mem /\ (a = b => s.active = s.request)
      <4>1. s.active \in DOMAIN f.at /\ s.request \in DOMAIN f.at
        BY <1>4
      <4>2. a \in DOMAIN mem /\ b \in DOMAIN mem
        BY <1>4, <3>1, <4>1 DEF Reaches
      <4>3. a = Field(f.path, s.active) /\ b = Field(f.path, s.request)
        BY <1>4, <3>1
      <4> QED
        BY <4>2, <4>3 DEF Field
    <3>3. m = [mem EXCEPT ![a] = to, ![b] = 0]
      BY <1>9, <2>2, <3>1
    <3> QED
      BY <1>5, <2>2, <3>1, <3>2, <3>3 DEF Map
  <2> QED
    BY <2>1, <2>2
<1>12. X \subseteq Targets(s) \cap DOMAIN f.at /\ {s.active, s.request} \subseteq X \cup DOMAIN Code(f).fields
  BY <1>4, <1>5, <1>8
<1> QED
  BY <1>2, <1>3, <1>6, <1>7, <1>8, <1>10, <1>11, <1>12, CellsStored

(* A call that is ready to go on does so in both.                          *)
LEMMA ReadyMeans ==
  ASSUME CodeInv, NEW t, NEW us, NEW M, NEW m, NEW fields, NEW g, NEW values,
         Ready(t, us, M, m, fields, g, values), Map(m),
         NEW t2, Joins(t2, <<After(g, m)>>, Tail(t)),
         NEW w, w = PutNow(fields, us, values)
  PROVE  MeantFor(t2, m, w)
<1>1. /\ t \in Seq(Range(t)) /\ t # <<>> /\ us \in Seq(Range(us)) /\ us # <<>>
      /\ DOMAIN m = M /\ Covers(fields, M)
  <2>1. StackOK(domain, t, M) /\ t # <<>> /\ us \in Seq(Range(us)) /\ Len(us) = Len(t)
        /\ DOMAIN m = M /\ Covers(fields, M)
    BY DEF Ready
  <2>2. t \in Seq(Range(t)) /\ Len(t) # 0
    BY <2>1 DEF StackOK
  <2> QED
    BY <2>1, <2>2
<1>2. Replaced(t2, t, After(g, m))
  BY <1>1, StackReplaced
<1>3. PICK now, us2 : now = w.fields /\ us2 = w.calls
  OBVIOUS
<1>4. WorldPut(us2, now, us, fields, values) /\ w = [fields |-> w.fields, calls |-> w.calls]
  BY <1>1, <1>3, PutIs
<1>5. Same(t2, us2, m, now) /\ DOMAIN now = DOMAIN fields /\ Map(now)
  BY <1>2, <1>4, PutSame
<1> QED
  BY <1>1, <1>3, <1>4, <1>5 DEF MeantFor, Covers

\* The caller's names that take the values of temporaries.
ReadNames(f, s) == {Actual(s, n) : n \in ReadBack(f, s)}

-----------------------------------------------------------------------------
(* Calls passed by, and returns                                            *)

(* The names that a caller reads back after a call.                        *)
LEMMA OutputsAre ==
  ASSUME CodeInv, NEW f, NEW s, Calling(f, s), NEW m
  PROVE  LET g == WithOutputs(f, s, m)
         IN  /\ DOMAIN g.val = ReadNames(f, s) \cup DOMAIN f.val
             /\ \A n \in ReadBack(f, s) : g.val[Actual(s, n)] = m[Local(CallPath(f, s), n)]
             /\ \A x \in DOMAIN f.val \ ReadNames(f, s) : g.val[x] = f.val[x]
             /\ ReadNames(f, s) \cap DOMAIN f.at = {}
             /\ ReadNames(f, s) \subseteq Range(s.outs) /\ ReadBack(f, s) \subseteq Range(Callee(s).outs)
<1> DEFINE R == ReadBack(f, s)
           X == {Actual(s, n) : n \in R}
           cell(x) == Local(CallPath(f, s), CHOOSE n \in R : Actual(s, n) = x)
           o == [x \in X |-> m[cell(x)]]
           w == Over(o, f.val)
           g == WithOutputs(f, s, m)
<1>1. R \subseteq Range(Callee(s).outs) /\ \A n \in R : Actual(s, n) \notin DOMAIN f.at
  BY DEF ReadBack, ByTemporary
<1>2. \A n, x \in R : Actual(s, n) = Actual(s, x) => n = x
  BY <1>1, ParametersAre
<1>3. \A n \in R : Actual(s, n) \in Range(s.outs)
  BY <1>1, ParametersAre
<1>4. g = [f EXCEPT !.val = w]
  BY DEF WithOutputs
<1>5. g.val = w
  <2> HIDE DEF w, g
  <2> QED
    BY <1>4 DEF Calling, Shaped
<1>6. \A n \in R : cell(Actual(s, n)) = Local(CallPath(f, s), n)
  <2> SUFFICES ASSUME NEW n \in R PROVE cell(Actual(s, n)) = Local(CallPath(f, s), n)
    OBVIOUS
  <2> DEFINE k == CHOOSE h \in R : Actual(s, h) = Actual(s, n)
  <2>1. k \in R /\ Actual(s, k) = Actual(s, n)
    <3>1. \E h \in R : Actual(s, h) = Actual(s, n)
      OBVIOUS
    <3> QED
      BY <3>1
  <2>2. k = n
    BY <1>2, <2>1
  <2> QED
    BY <2>2
<1>7. DOMAIN o = X /\ \A x \in X : o[x] = m[cell(x)]
  OBVIOUS
<1>8. \A n \in R : o[Actual(s, n)] = m[Local(CallPath(f, s), n)]
  BY <1>6, <1>7
<1> HIDE DEF o, g
<1>9. /\ DOMAIN w = X \cup DOMAIN f.val
      /\ \A x \in DOMAIN w : w[x] = IF x \in X THEN o[x] ELSE f.val[x]
  <2> HIDE DEF X
  <2> QED
    BY <1>7 DEF Over
<1> HIDE DEF w
<1>10. ReadNames(f, s) = X
  BY DEF ReadNames
<1>11. \A n \in R : g.val[Actual(s, n)] = m[Local(CallPath(f, s), n)]
  BY <1>5, <1>8, <1>9
<1>12. \A x \in DOMAIN f.val \ X : g.val[x] = f.val[x]
  <2> HIDE DEF X
  <2> QED
    BY <1>5, <1>9
<1> QED
  BY <1>1, <1>3, <1>5, <1>9, <1>10, <1>11, <1>12 DEF g

(* A name that nothing has set before a conditional call has no value.     *)
LEMMA NotYetSet ==
  ASSUME CodeInv, NEW f, Shaped(f), f.pc # Done, NEW u, Twins(f, u), Conditional(Statement(f)),
         NEW n, n \in Range(Statement(f).outs), n \notin DOMAIN f.at
  PROVE  n \notin DOMAIN f.val /\ n \notin DOMAIN u.names
<1>1. PICK c, s, i : c = Code(f) /\ s = Statement(f) /\ i = f.pc
  OBVIOUS
<1>2. i \in DOMAIN c.body /\ s = c.body[i] /\ GoodCode(c) /\ DOMAIN f.at = CellNames(c) /\ i \in Nat
      /\ DOMAIN c.body = 1 .. Len(c.body) /\ Len(c.body) \in Nat
  BY <1>1, StatementIs DEF Shaped
<1>3. c.kind # "Loop" /\ n \notin Known(c, i)
  <2>1. StatementsFit(code, c)
    BY <1>2 DEF GoodCode
  <2> QED
    BY <1>1, <1>2, <2>1 DEF StatementsFit
<1>4. NamesOK(f, u) /\ DOMAIN f.val \subseteq UNION {Targets(c.body[j]) : j \in 1 .. i - 1}
  BY <1>1, <1>3, TwinCode DEF PlaceOK
<1>5. ASSUME NEW j \in 1 .. i - 1, n \in Targets(c.body[j]) PROVE FALSE
  <2>1. PICK r : r = c.body[j]
    OBVIOUS
  <2>2. j \in DOMAIN c.body
    BY <1>2
  <2>3. r.op = "reset" => Range(r.vars) \subseteq CellNames(c)
    BY <1>2, <2>1, <2>2 DEF GoodCode, StatementsFit
  <2>4. r.op # "reset"
    BY <1>2, <1>5, <2>1, <2>3 DEF Targets
  <2>5. Range(c.outs) \subseteq CellNames(c)
    BY <1>2, OutsAreParameters DEF CellNames
  <2>6. n \in SurelySet(c, r)
    BY <1>2, <1>5, <2>1, <2>4, <2>5 DEF SurelySet
  <2>7. n \in Known(c, i)
    BY <2>1, <2>6 DEF Known
  <2> QED
    BY <1>3, <2>7
<1>6. n \notin DOMAIN f.val
  BY <1>4, <1>5
<1> QED
  BY <1>4, <1>6 DEF NamesOK

(* What a conditional call may leave unset is known all the same.          *)
LEMMA StillKnown ==
  ASSUME CodeInv, NEW f, NEW s, Calling(f, s), NEW u, Twins(f, u),
         Conditional(s), NEW m, NEW g, g = WithOutputs(f, s, m)
  PROVE  Knows(g, u, SurelySet(Code(f), s))
<1>1. PICK c : c = Code(f)
  OBVIOUS
<1>2. Shaped(f) /\ f.pc # Done /\ s = Statement(f) /\ s.op = "call"
  BY DEF Calling
<1>3. Knows(f, u, Known(c, f.pc))
  BY <1>1, <1>2, TwinCode DEF PlaceOK
<1>4. /\ Targets(s) = Range(s.outs) \cup Range(s.ext)
      /\ Targets(s) \cap Range(c.ins) = {} /\ Range(s.ext) \subseteq CellNames(c)
  BY <1>1, CallIs
<1>5. SurelySet(c, s) = Targets(s) \ Range(c.outs)
  BY <1>2 DEF SurelySet
<1>6. GoodCode(c) /\ DOMAIN f.at = CellNames(c)
  BY <1>1, <1>2, StatementIs DEF Shaped
<1>7. Code(g) = c /\ DOMAIN g.val = ReadNames(f, s) \cup DOMAIN f.val
  <2>1. GoesOn(f, g)
    BY OutputsGoOn
  <2> QED
    BY <1>1, <2>1, OutputsAre DEF GoesOn, SameCells, Code
<1>8. Range(Parameters(c)) = Range(c.outs) \cup Range(c.ins) \cup Range(c.ext)
  BY <1>6, OutsAreParameters
<1> SUFFICES ASSUME NEW n \in SurelySet(c, s)
             PROVE  n \in DOMAIN Literal \cup DOMAIN c.fields \cup Names(g, u)
  BY <1>1, <1>7 DEF Knows
<1>9. CASE n \in CellNames(c)
  <2>1. n \in DOMAIN c.fields \cup Stored(c) \cup Range(c.ext)
    BY <1>4, <1>5, <1>8, <1>9 DEF CellNames
  <2>2. n \in Given(c)
    BY <2>1 DEF Given, Stored
  <2>3. n \in Known(c, f.pc)
    BY <2>2 DEF Known
  <2> QED
    BY <1>1, <1>3, <1>7, <2>3 DEF Knows, Names
<1>10. CASE n \notin CellNames(c)
  <2>1. n \in Range(s.outs) /\ n \notin DOMAIN f.at
    BY <1>4, <1>5, <1>6, <1>10
  <2>2. PICK k \in Range(Callee(s).outs) : Actual(s, k) = n
    BY <2>1, ParametersAre
  <2>3. k \in ReadBack(f, s)
    BY <2>1, <2>2, ParametersAre DEF ReadBack, ByTemporary
  <2> QED
    BY <1>7, <2>2, <2>3 DEF ReadNames, Names
<1> QED
  BY <1>9, <1>10

\* A memory has no stack for a call.
NoStack(m, p) == \A a \in DOMAIN m : ~(a.area = "stack" /\ a.path = p)

(* A reaction that is passed by leaves the memory as it was.               *)
LEMMA PassedMemory ==
  ASSUME NEW m, NEW f, NEW s, NEW left, NoStack(m, CallPath(f, s)), Map(m)
  PROVE  /\ Without(CallPath(f, s), Over(Arguments(f, s, left), m)) = m
         /\ \A n \in ByTemporary(f, s) :
              Over(Arguments(f, s, left), m)[Local(CallPath(f, s), n)] = Passed(f, s, n, left)
<1> DEFINE p == CallPath(f, s)
           args == Arguments(f, s, left)
           m1 == Over(args, m)
<1>1. /\ DOMAIN args = {Local(p, n) : n \in ByTemporary(f, s)}
      /\ \A n \in ByTemporary(f, s) : args[Local(p, n)] = Passed(f, s, n, left)
  BY DEF Arguments, Local
<1> HIDE DEF args
<1>2. m1 = [a \in DOMAIN args \cup DOMAIN m |-> IF a \in DOMAIN args THEN args[a] ELSE m[a]]
  BY DEF Over
<1>3. \A a \in DOMAIN m : ~(a.area = "stack" /\ a.path = p)
  BY DEF NoStack
<1>4. \A a \in DOMAIN args : a.area = "stack" /\ a.path = p
  BY <1>1 DEF Local
<1> HIDE DEF m1, p
<1>5. Without(p, m1) = [a \in {a \in DOMAIN m1 : ~(a.area = "stack" /\ a.path = p)} |-> m1[a]]
  BY DEF Without
<1>6. {a \in DOMAIN m1 : ~(a.area = "stack" /\ a.path = p)} = DOMAIN m
  BY <1>2, <1>3, <1>4
<1>7. Without(p, m1) = [a \in DOMAIN m |-> m1[a]]
  BY <1>5, <1>6
<1>8. \A a \in DOMAIN m : m1[a] = m[a]
  BY <1>2, <1>3, <1>4
<1>9. Without(p, m1) = m
  BY <1>7, <1>8 DEF Map
<1>10. \A n \in ByTemporary(f, s) : m1[Local(p, n)] = Passed(f, s, n, left)
  BY <1>1, <1>2
<1> QED
  BY <1>9, <1>10 DEF m1, p, args

(* A conditional call that is passed by reads back what it has passed,     *)
(* which changes nothing.                                                  *)
LEMMA PassByEffects ==
  ASSUME CodeInv, NEW f, NEW s, Calling(f, s), NEW u, Twins(f, u), Conditional(s),
         NEW m, NamesAgree(f, u, m, {}), NEW m1, NEW left,
         \A n \in ByTemporary(f, s) : m1[Local(CallPath(f, s), n)] = Passed(f, s, n, left),
         NEW g, g = WithOutputs(f, s, m1), NEW none, none = <<>>
  PROVE  Effects(f, g, u, m, none)
<1>1. Shaped(f) /\ f.pc # Done /\ s = Statement(f) /\ s.op = "call"
  BY DEF Calling
<1>2. GoesOn(f, g) /\ DOMAIN none = {}
  BY OutputsGoOn
<1>3. PICK X : X = ReadNames(f, s)
  OBVIOUS
<1>4. /\ DOMAIN g.val = X \cup DOMAIN f.val
      /\ \A n \in ReadBack(f, s) : g.val[Actual(s, n)] = m1[Local(CallPath(f, s), n)]
      /\ \A x \in DOMAIN f.val \ X : g.val[x] = f.val[x]
      /\ X \cap DOMAIN f.at = {} /\ X \subseteq Range(s.outs) /\ ReadBack(f, s) \subseteq Range(Callee(s).outs)
  BY <1>3, OutputsAre
<1>5. Knows(g, u, SurelySet(Code(f), s))
  BY StillKnown
<1>6. Range(s.outs) \subseteq Targets(s) /\ Targets(s) \cap DOMAIN Literal = {}
  BY CallIs
<1>7. g.at = f.at
  BY <1>2 DEF GoesOn, SameCells
<1>8. ASSUME NEW x \in X PROVE Value(g, m, x) = NameOf(u, x)
  <2>1. PICK n \in ReadBack(f, s) : x = Actual(s, n)
    BY <1>3 DEF ReadNames
  <2>2. x \in Range(s.outs) /\ x \notin DOMAIN f.at /\ x \notin DOMAIN Literal
    BY <1>4, <1>6
  <2>3. x \notin DOMAIN f.val /\ x \notin DOMAIN u.names
    BY <1>1, <2>2, NotYetSet
  <2>4. Passed(f, s, n, left) = 0
    BY <1>4, <2>1, <2>3 DEF Passed
  <2>5. n \in ByTemporary(f, s)
    BY DEF ReadBack
  <2>6. g.val[x] = 0
    BY <1>4, <2>1, <2>4, <2>5
  <2> QED
    BY <1>4, <2>2, <2>3, <2>6 DEF Value, NameOf
<1>9. ASSUME NEW n \in Names(g, u) PROVE Value(g, m, n) = NameOf(u, n)
  <2>1. CASE n \in X
    BY <1>8, <2>1
  <2>2. CASE n \notin X
    <3>1. n \in Names(f, u)
      BY <1>4, <2>2 DEF Names
    <3>2. Value(f, m, n) = NameOf(u, n)
      BY <3>1 DEF NamesAgree
    <3>3. Value(g, m, n) = Value(f, m, n)
      BY <1>4, <1>7, <2>2 DEF Value
    <3> QED
      BY <3>2, <3>3
  <2> QED
    BY <2>1, <2>2
<1>10. SurelySet(Code(f), s) \ DOMAIN none = SurelySet(Code(f), s)
  BY <1>2
<1>11. DOMAIN f.val \subseteq DOMAIN g.val /\ DOMAIN g.val \subseteq DOMAIN f.val \cup Targets(s)
  BY <1>4, <1>6
<1> HIDE DEF Effects
<1> QED
  BY <1>1, <1>2, <1>5, <1>9, <1>10, <1>11 DEF Effects

(* A conditional call passed by does what it means.                        *)
LEMMA PassByMeans ==
  ASSUME PointerInv, MeantInv, PassBy, code' = code, meant' = Turn(meant)
  PROVE  MeantInv'
<1>1. PICK f, s, u, fields : f = Head(frames) /\ s = Statement(f) /\ u = Head(meant.calls) /\ fields = meant.fields
  OBVIOUS
<1>2. frames # <<>> /\ f.pc # Done /\ s.op = "call"
  BY <1>1 DEF PassBy, Running
<1>3. AtStatement(f, s, u, fields)
  BY <1>1, <1>2 DEF AtStatement
<1>4. /\ CodeInv /\ f = frames[1] /\ Shaped(f) /\ Twins(f, u) /\ Statement(u) = s /\ u.pc = f.pc
      /\ \A n \in Sources(s) : Read(fields, u, n) = Value(f, mem, n)
  BY <1>3, StatementMeans
<1>5. PICK left : Returned(f, s, Over(Arguments(f, s, left), mem), Tail(frames))
  BY <1>1 DEF PassBy
<1>6. PICK fs, vs, m, m1, g, w, none :
        /\ fs = frames /\ vs = meant.calls /\ m = mem /\ m1 = Over(Arguments(f, s, left), m)
        /\ g = WithOutputs(f, s, m1) /\ w = meant' /\ none = <<>>
  OBVIOUS
<1>7. s.trigger # NoName /\ Value(f, mem, s.trigger) = 0
  BY <1>1 DEF PassBy, Triggered, IsOn
<1>8. Conditional(s) /\ Read(fields, u, s.trigger) = 0
  BY <1>2, <1>4, <1>7 DEF Conditional, Sources
<1>9. w = PutNow(fields, vs, none)
  <2>1. ~Calls(fields, u, s)
    BY <1>7, <1>8 DEF Calls
  <2>2. Turn(meant) = Put(fields, u, Tail(meant.calls), none)
    BY <1>1, <1>2, <1>4, <1>6, <2>1 DEF Turn
  <2>3. u = vs[1]
    BY <1>1, <1>2, <1>6, RunningMeans
  <2> QED
    BY <1>6, <2>2, <2>3 DEF PutNow
<1>10. Beside(fs, m, vs, fields) /\ fs # <<>> /\ f = fs[1] /\ u = vs[1]
  BY <1>1, <1>2, <1>4, <1>6, RunningMeans
<1>11. /\ StackOK(domain, fs, DOMAIN m) /\ MemOK(fs, DOMAIN m) /\ Covers(fields, DOMAIN m)
       /\ Same(fs, vs, m, fields)
  BY <1>10 DEF Beside
<1>12. Map(m)
  BY <1>6 DEF MeantInv, MeantFor
<1>13. /\ Without(CallPath(f, s), m1) = m
       /\ \A n \in ByTemporary(f, s) : m1[Local(CallPath(f, s), n)] = Passed(f, s, n, left)
  <2>1. NoStack(m, CallPath(f, s))
    BY <1>10, <1>11, NoCellsYet DEF NoStack
  <2>2. /\ Without(CallPath(f, s), Over(Arguments(f, s, left), m)) = m
        /\ \A n \in ByTemporary(f, s) :
             Over(Arguments(f, s, left), m)[Local(CallPath(f, s), n)] = Passed(f, s, n, left)
    BY <1>12, <2>1, PassedMemory
  <2> QED
    BY <1>6, <2>2
<1>14. mem' = m /\ Joins(frames', <<After(g, m)>>, Tail(fs))
  BY <1>5, <1>6, <1>13 DEF Returned, Joins
<1>15. Calling(f, s)
  BY <1>1, <1>2, <1>4 DEF Calling
<1>16. NamesAgree(f, u, m, {})
  BY <1>10, HeadSources
<1>17. Effects(f, g, u, m, none)
  BY <1>4, <1>6, <1>8, <1>13, <1>15, <1>16, PassByEffects
<1>18. Ready(fs, vs, DOMAIN m, m, fields, g, none)
  <2>1. /\ vs \in Seq(Range(vs)) /\ Len(vs) = Len(fs) /\ FieldsAgree(fs, m, fields)
        /\ \A i \in DOMAIN fs : Twins(fs[i], vs[i]) /\ NamesAgree(fs[i], vs[i], m, Pending(fs, i))
    BY <1>11 DEF Same
  <2>2. \A j \in 2 .. Len(fs) : j \in DOMAIN fs /\ Pending(fs, j) = Targets(Statement(fs[j]))
    BY <1>11 DEF StackOK, Pending
  <2>3. \A j \in 2 .. Len(fs) :
          Twins(fs[j], vs[j]) /\ NamesAgree(fs[j], vs[j], m, Targets(Statement(fs[j])))
    BY <2>1, <2>2
  <2>4. \A a \in DOMAIN fields :
          \/ m[a] = fields[a]
          \/ \E j \in 2 .. Len(fs) : Lends(fs[j], a)
          \/ PutsIn(fs[1], a, none)
    BY <2>1 DEF FieldsAgree
  <2>5. fs[1].pc # Done /\ Effects(fs[1], g, vs[1], m, none) /\ Twins(fs[1], vs[1])
    BY <1>2, <1>4, <1>10, <1>17
  <2> QED
    BY <1>10, <1>11, <2>1, <2>3, <2>4, <2>5 DEF Ready
<1>19. MeantFor(frames', m, w)
  <2>1. PICK t2 : t2 = frames'
    OBVIOUS
  <2>2. MeantFor(t2, m, w)
    BY <1>4, <1>9, <1>12, <1>14, <1>18, <2>1, ReadyMeans
  <2> QED
    BY <2>1, <2>2
<1> QED
  BY <1>6, <1>14, <1>19, MeantKept

(* Dropping stack cells keeps the others.                                  *)
LEMMA WithoutKeeps ==
  ASSUME NEW p, NEW m, NEW rest, rest = Without(p, m)
  PROVE  DOMAIN rest = Left(DOMAIN m, p) /\ \A a \in DOMAIN rest : rest[a] = m[a]
BY DEF Without, Left

\* What a call that has ended has written for its caller.
GivesBack(f, s, m, values) ==
  /\ DOMAIN values = Targets(s)
  /\ \A n \in Range(Callee(s).outs) \cup Range(Callee(s).ext) :
       values[Actual(s, n)] = m[ArgumentCell(f, s, n)]

(* What a callee gives back, by value, is in the cells that its caller     *)
(* passed.                                                                 *)
LEMMA BackIs ==
  ASSUME NEW fs, NEW m, NEW vs, NEW fields, Beside(fs, m, vs, fields), Len(fs) > 1,
         fs[1].pc = Done, NEW f, f = fs[2], NEW s, s = Statement(f),
         NEW v, v = vs[1], NEW values, values = Back(fields, v, s)
  PROVE  CodeInv /\ Calling(f, s) /\ fs[1].path = CallPath(f, s) /\ GivesBack(f, s, m, values)
<1>1. PICK c, e : c = fs[1] /\ e = Callee(s)
  OBVIOUS
<1>2. /\ CodeInv /\ StackOK(domain, fs, DOMAIN m) /\ fs # <<>>
      /\ 1 \in DOMAIN fs /\ 2 \in DOMAIN fs /\ 1 + 1 = 2 /\ 1 < 2
  BY DEF Beside, StackOK
<1>3. Shaped(c) /\ Shaped(f)
  BY <1>1, <1>2, PathsAre
<1>4. Waits(f) /\ Called(c, f)
  BY <1>1, <1>2 DEF StackOK
<1>5. Calling(f, s) /\ c.path = CallPath(f, s) /\ Code(c) = e
      /\ \A n \in Range(Parameters(e)) : c.at[n] = ArgumentCell(f, s, n)
  BY <1>1, <1>3, <1>4 DEF Waits, Called, Calling, Code, Callee
<1>6. Twins(c, v) /\ \A n : Sees(c, v, n) => Read(fields, v, n) = Value(c, m, n)
  <2>1. Twins(fs[1], vs[1])
        /\ \A n : Sees(fs[1], vs[1], n) => Read(fields, vs[1], n) = Value(fs[1], m, n)
    BY <1>2, HeadAgrees
  <2> QED
    BY <1>1, <2>1
<1>7. NamesOK(c, v) /\ Range(e.outs) \subseteq DOMAIN v.names /\ Range(e.ext) \subseteq DOMAIN v.names
      /\ Code(v) = e
  BY <1>1, <1>5, <1>6, TwinCode DEF NamesOK, PlaceOK
<1>8. /\ Range(Parameters(e)) = Range(e.outs) \cup Range(e.ins) \cup Range(e.ext)
      /\ \A n \in Range(e.outs) : Actual(s, n) \in Range(s.outs)
      /\ \A n \in Range(e.ext)  : Actual(s, n) \in Range(s.ext)
      /\ \A n, x \in Range(e.outs) \cup Range(e.ext) : Actual(s, n) = Actual(s, x) => n = x
      /\ DOMAIN Literal \cap CellNames(e) = {}
  BY <1>1, <1>2, <1>5, ParametersAre
<1>9. PICK N : N = Range(e.outs) \cup Range(e.ext)
  OBVIOUS
<1>10. \A n \in N : Read(fields, v, n) = m[ArgumentCell(f, s, n)]
  <2> SUFFICES ASSUME NEW n \in N PROVE Read(fields, v, n) = m[ArgumentCell(f, s, n)]
    OBVIOUS
  <2>1. n \in Range(Parameters(e)) /\ n \in CellNames(e) /\ n \in DOMAIN v.names
    BY <1>7, <1>8, <1>9 DEF CellNames
  <2>2. Sees(c, v, n)
    BY <2>1 DEF Sees, Names
  <2>3. n \in DOMAIN c.at /\ n \notin DOMAIN c.val /\ n \notin DOMAIN Literal
    BY <1>3, <1>5, <1>8, <2>1 DEF Shaped
  <2>4. Value(c, m, n) = m[c.at[n]]
    BY <2>3 DEF Value
  <2> QED
    BY <1>5, <1>6, <2>1, <2>2, <2>4
<1> DEFINE X == Range(s.outs) \cup Range(s.ext)
           name(x) == CHOOSE n \in N : Actual(s, n) = x
<1>11. values = [x \in X |-> Read(fields, v, name(x))]
  BY <1>7, <1>9 DEF Back
<1>12. \A n \in N : Actual(s, n) \in X /\ name(Actual(s, n)) = n
  <2> SUFFICES ASSUME NEW n \in N PROVE Actual(s, n) \in X /\ name(Actual(s, n)) = n
    OBVIOUS
  <2>1. \E k \in N : Actual(s, k) = Actual(s, n)
    OBVIOUS
  <2>2. name(Actual(s, n)) \in N /\ Actual(s, name(Actual(s, n))) = Actual(s, n)
    BY <2>1
  <2> HIDE DEF name
  <2> QED
    BY <1>8, <1>9, <2>2
<1> HIDE DEF name, X
<1>13. \A n \in N : values[Actual(s, n)] = m[ArgumentCell(f, s, n)]
  BY <1>10, <1>11, <1>12
<1>14. DOMAIN values = Targets(s)
  <2>1. Targets(s) = X
    BY <1>2, <1>5, CallIs DEF X
  <2> QED
    BY <1>11, <2>1
<1>15. GivesBack(f, s, m, values)
  BY <1>1, <1>9, <1>13, <1>14 DEF GivesBack
<1> QED
  BY <1>1, <1>2, <1>5, <1>15

(* Reading it back has the effects meant.                                  *)
LEMMA ReturnEffects ==
  ASSUME CodeInv, NEW f, NEW s, Calling(f, s), NEW u, Twins(f, u), NEW m,
         NamesAgree(f, u, m, Targets(s)), NEW values, GivesBack(f, s, m, values),
         NEW rest, rest = Without(CallPath(f, s), m), Reaches(f, DOMAIN rest),
         NEW g, g = WithOutputs(f, s, m)
  PROVE  Effects(f, g, u, rest, values)
<1>1. Shaped(f) /\ f.pc # Done /\ s = Statement(f) /\ s.op = "call"
  BY DEF Calling
<1>2. GoesOn(f, g)
  BY OutputsGoOn
<1>3. PICK X, T, e : X = ReadNames(f, s) /\ T = Targets(s) /\ e = Callee(s)
  OBVIOUS
<1>4. /\ DOMAIN g.val = X \cup DOMAIN f.val
      /\ \A n \in ReadBack(f, s) : g.val[Actual(s, n)] = m[Local(CallPath(f, s), n)]
      /\ \A x \in DOMAIN f.val \ X : g.val[x] = f.val[x]
      /\ X \cap DOMAIN f.at = {} /\ X \subseteq Range(s.outs) /\ ReadBack(f, s) \subseteq Range(e.outs)
  BY <1>3, OutputsAre
<1>5. /\ T = Range(s.outs) \cup Range(s.ext) /\ T \cap DOMAIN Literal = {}
      /\ Range(s.ext) \subseteq DOMAIN f.at
  BY <1>1, <1>3, CallIs DEF Shaped
<1>6. g.at = f.at
  BY <1>2 DEF GoesOn, SameCells
<1>7. \A n \in DOMAIN f.at : rest[f.at[n]] = m[f.at[n]]
  <2>1. \A a \in DOMAIN rest : rest[a] = m[a]
    BY WithoutKeeps
  <2>2. \A n \in DOMAIN f.at : f.at[n] \in DOMAIN rest
    BY DEF Reaches
  <2> QED
    BY <2>1, <2>2
<1>8. /\ DOMAIN values = T
      /\ \A n \in Range(e.outs) \cup Range(e.ext) : values[Actual(s, n)] = m[ArgumentCell(f, s, n)]
  BY <1>3 DEF GivesBack
<1>9. \A x \in T : \E n \in Range(e.outs) \cup Range(e.ext) : Actual(s, n) = x /\ n \in Range(Parameters(e))
                     /\ (x \notin DOMAIN f.at => n \in Range(e.outs))
  <2> SUFFICES ASSUME NEW x \in T
               PROVE  \E n \in Range(e.outs) \cup Range(e.ext) : Actual(s, n) = x /\ n \in Range(Parameters(e))
                        /\ (x \notin DOMAIN f.at => n \in Range(e.outs))
    OBVIOUS
  <2>1. /\ Range(Parameters(e)) = Range(e.outs) \cup Range(e.ins) \cup Range(e.ext)
        /\ \A y \in Range(s.outs) : \E n \in Range(e.outs) : Actual(s, n) = y
        /\ \A y \in Range(s.ext) : \E n \in Range(e.ext) : Actual(s, n) = y
    BY <1>3, ParametersAre
  <2> QED
    BY <1>5, <2>1
<1>10. ASSUME NEW x \in T
       PROVE  x \in DOMAIN f.at \cup DOMAIN g.val /\ Value(g, rest, x) = values[x]
  <2>1. PICK n \in Range(e.outs) \cup Range(e.ext) :
          Actual(s, n) = x /\ n \in Range(Parameters(e)) /\ (x \notin DOMAIN f.at => n \in Range(e.outs))
    BY <1>9
  <2>2. values[x] = m[ArgumentCell(f, s, n)]
    BY <1>8, <2>1
  <2>3. CASE x \in DOMAIN f.at
    <3>1. n \notin ByTemporary(f, s)
      BY <2>1, <2>3 DEF ByTemporary
    <3>2. ArgumentCell(f, s, n) = f.at[x]
      BY <2>1, <3>1 DEF ArgumentCell
    <3>3. x \notin DOMAIN g.val /\ x \notin DOMAIN Literal
      BY <1>2, <1>5, <2>3 DEF GoesOn
    <3>4. Value(g, rest, x) = rest[f.at[x]]
      BY <1>6, <3>3 DEF Value
    <3> QED
      BY <1>7, <2>2, <2>3, <3>2, <3>4
  <2>4. CASE x \notin DOMAIN f.at
    <3>1. n \in ByTemporary(f, s) /\ n \in ReadBack(f, s)
      BY <1>3, <2>1, <2>4 DEF ByTemporary, ReadBack
    <3>2. ArgumentCell(f, s, n) = Local(CallPath(f, s), n)
      BY <3>1 DEF ArgumentCell
    <3>3. x \in X
      BY <1>3, <2>1, <3>1 DEF ReadNames
    <3>4. x \in DOMAIN g.val /\ g.val[x] = values[x] /\ x \notin DOMAIN Literal
      BY <1>4, <1>5, <2>1, <2>2, <3>1, <3>2, <3>3
    <3> QED
      BY <3>4 DEF Value
  <2> QED
    BY <2>3, <2>4
<1>11. ASSUME NEW n \in Names(g, u) \ T PROVE Value(g, rest, n) = NameOf(u, n)
  <2>1. n \notin X /\ n \in Names(f, u)
    BY <1>4, <1>5 DEF Names
  <2>2. Value(f, m, n) = NameOf(u, n)
    BY <1>3, <2>1 DEF NamesAgree
  <2>3. Value(f, rest, n) = Value(f, m, n)
    <3>1. NamesOK(f, u)
      BY TwinCode
    <3> QED
      BY <1>7, <2>1, <3>1, ValueKept
  <2>4. Value(g, rest, n) = Value(f, rest, n)
    BY <1>4, <1>6, <2>1 DEF Value
  <2> QED
    BY <2>2, <2>3, <2>4
<1>12. SurelySet(Code(f), s) \ DOMAIN values = {}
  BY <1>1, <1>3, <1>8 DEF SurelySet
<1>13. Knows(g, u, SurelySet(Code(f), s) \ DOMAIN values)
  BY <1>12 DEF Knows
<1>14. DOMAIN f.val \subseteq DOMAIN g.val /\ DOMAIN g.val \subseteq DOMAIN f.val \cup T
       /\ T \subseteq DOMAIN f.at \cup DOMAIN g.val
  BY <1>4, <1>5, <1>10
<1> QED
  BY <1>1, <1>2, <1>3, <1>8, <1>10, <1>11, <1>13, <1>14 DEF Effects

(* A return leaves the caller ready to go on.                              *)
LEMMA ReturnReady ==
  ASSUME NEW fs, NEW m, NEW vs, NEW fields, Beside(fs, m, vs, fields), Len(fs) > 1,
         fs[1].pc = Done, NEW f, f = fs[2], NEW s, s = Statement(f),
         NEW values, values = Back(fields, vs[1], s),
         NEW t, Popped(t, fs), NEW us, Popped(us, vs),
         NEW rest, rest = Without(CallPath(f, s), m), NEW g, g = WithOutputs(f, s, m)
  PROVE  CodeInv /\ Ready(t, us, DOMAIN rest, rest, fields, g, values)
<1>1. CodeInv /\ Calling(f, s) /\ fs[1].path = CallPath(f, s) /\ GivesBack(f, s, m, values)
  BY BackIs
<1>2. PICK n : n = Len(fs)
  OBVIOUS
<1>3. /\ StackOK(domain, fs, DOMAIN m) /\ MemOK(fs, DOMAIN m) /\ Covers(fields, DOMAIN m)
      /\ vs \in Seq(Range(vs)) /\ Len(vs) = n /\ FieldsAgree(fs, m, fields)
      /\ \A i \in DOMAIN fs : Twins(fs[i], vs[i]) /\ NamesAgree(fs[i], vs[i], m, Pending(fs, i))
  BY <1>2 DEF Beside, Same
<1>4. n \in Nat /\ n > 1 /\ DOMAIN fs = 1 .. n
  BY <1>2, <1>3 DEF StackOK
<1>5. DOMAIN rest = Left(DOMAIN m, fs[1].path) /\ \A a \in DOMAIN rest : rest[a] = m[a]
  BY <1>1, WithoutKeeps
<1>6. /\ StackOK(domain, t, DOMAIN rest) /\ t[1] = f /\ Len(t) = n - 1 /\ t # <<>>
  BY <1>2, <1>3, <1>5, EndedOK
<1>7. /\ us \in Seq(Range(us)) /\ Len(us) = n - 1 /\ \A i \in 1 .. n - 1 : us[i] = vs[i + 1] /\ t[i] = fs[i + 1]
  BY <1>2, <1>3 DEF Popped
<1>8. us[1] = vs[2] /\ 2 \in DOMAIN fs /\ 1 \in DOMAIN t
  <2>1. 1 \in 1 .. n - 1 /\ 1 + 1 = 2 /\ 2 \in 1 .. n
    BY <1>4
  <2>2. DOMAIN t = 1 .. n - 1
    BY <1>6 DEF StackOK
  <2> QED
    BY <1>4, <1>7, <2>1, <2>2
<1>9. Twins(f, us[1]) /\ NamesAgree(f, us[1], m, Targets(s)) /\ Reaches(f, DOMAIN rest)
  <2>1. Twins(fs[2], vs[2]) /\ NamesAgree(fs[2], vs[2], m, Pending(fs, 2))
    BY <1>3, <1>8
  <2>2. Pending(fs, 2) = Targets(s)
    BY DEF Pending
  <2>3. Reaches(t[1], DOMAIN rest)
    BY <1>6, <1>8, PathsAre
  <2> QED
    BY <1>6, <1>8, <2>1, <2>2, <2>3
<1>10. Effects(f, g, us[1], rest, values)
  BY <1>1, <1>9, ReturnEffects
<1>11. ASSUME NEW j \in 2 .. n - 1
       PROVE  Twins(t[j], us[j]) /\ NamesAgree(t[j], us[j], rest, Targets(Statement(t[j])))
  <2>1. j + 1 \in DOMAIN fs /\ j + 1 # 1 /\ j \in 1 .. n - 1
    BY <1>4
  <2>2. PICK h, u : h = t[j] /\ u = us[j] /\ h = fs[j + 1] /\ u = vs[j + 1]
    BY <1>7, <2>1
  <2>3. Twins(h, u) /\ NamesAgree(h, u, m, Targets(Statement(h)))
    <3>1. Pending(fs, j + 1) = Targets(Statement(h))
      BY <2>1, <2>2 DEF Pending
    <3> QED
      BY <1>3, <2>1, <2>2, <3>1
  <2>4. Reaches(h, DOMAIN rest)
    <3>1. j \in DOMAIN t
      BY <1>6, <2>1 DEF StackOK
    <3>2. Reaches(t[j], DOMAIN rest)
      BY <1>6, <3>1, PathsAre
    <3> QED
      BY <2>2, <3>2
  <2>5. ASSUME NEW k \in Names(h, u) \ Targets(Statement(h)) PROVE Value(h, rest, k) = NameOf(u, k)
    <3>1. NamesOK(h, u)
      BY <2>3, TwinCode
    <3>2. Value(h, m, k) = NameOf(u, k)
      BY <2>3 DEF NamesAgree
    <3>3. k \in DOMAIN h.at => rest[h.at[k]] = m[h.at[k]]
      BY <1>5, <2>4 DEF Reaches
    <3> QED
      BY <3>1, <3>2, <3>3, ValueKept
  <2> QED
    BY <2>2, <2>3, <2>5 DEF NamesAgree
<1>12. ASSUME NEW a \in DOMAIN fields
       PROVE  \/ rest[a] = fields[a]
              \/ \E j \in 2 .. n - 1 : Lends(t[j], a)
              \/ PutsIn(f, a, values)
  <2>1. a \in DOMAIN rest
    BY <1>3, <1>5 DEF Covers, Left
  <2>2. CASE m[a] = fields[a]
    BY <1>5, <2>1, <2>2
  <2>3. CASE \E j \in 2 .. n : Lends(fs[j], a)
    <3>1. PICK j \in 2 .. n : Lends(fs[j], a)
      BY <2>3
    <3>2. CASE j = 2
      <4>1. Lends(f, a)
        BY <3>1, <3>2
      <4> QED
        BY <1>1, <4>1 DEF Lends, PutsIn, GivesBack
    <3>3. CASE j # 2
      <4>1. j - 1 \in 2 .. n - 1 /\ j - 1 \in 1 .. n - 1 /\ (j - 1) + 1 = j
        BY <1>4, <3>3
      <4>2. t[j - 1] = fs[j]
        BY <1>7, <4>1
      <4> QED
        BY <3>1, <4>1, <4>2
    <3> QED
      BY <3>2, <3>3
  <2> QED
    BY <1>2, <1>3, <2>2, <2>3 DEF FieldsAgree
<1>13. Covers(fields, DOMAIN rest)
  BY <1>3, <1>5 DEF Covers, Left
<1>14. f.pc # Done
  BY <1>1 DEF Calling
<1>15. /\ \A j \in 2 .. Len(t) :
            Twins(t[j], us[j]) /\ NamesAgree(t[j], us[j], rest, Targets(Statement(t[j])))
       /\ \A a \in DOMAIN fields :
            \/ rest[a] = fields[a]
            \/ \E j \in 2 .. Len(t) : Lends(t[j], a)
            \/ PutsIn(t[1], a, values)
  BY <1>6, <1>11, <1>12
<1> QED
  BY <1>1, <1>6, <1>7, <1>9, <1>10, <1>13, <1>14, <1>15 DEF Ready

(* A return does what it means.                                            *)
LEMMA ReturnMeans ==
  ASSUME PointerInv, MeantInv, Return, code' = code, meant' = Turn(meant)
  PROVE  MeantInv'
<1>1. PICK f, s, t, fs, vs, us, m, fields, values, rest, g, w :
        /\ fs = frames /\ vs = meant.calls /\ fields = meant.fields /\ m = mem /\ w = meant'
        /\ f = fs[2] /\ s = Statement(f) /\ t = Tail(fs) /\ us = Tail(vs)
        /\ values = Back(fields, vs[1], s)
        /\ rest = Without(CallPath(f, s), m) /\ g = WithOutputs(f, s, m)
  OBVIOUS
<1>2. Len(fs) > 1 /\ fs[1].pc = Done /\ mem' = rest /\ Joins(frames', <<After(g, rest)>>, Tail(t))
  <2>1. Len(frames) > 1 /\ Head(frames).pc = Done
        /\ Returned(frames[2], Statement(frames[2]), mem, Tail(Tail(frames)))
    BY DEF Return
  <2>2. frames # <<>>
    BY <2>1
  <2>3. Head(frames) = frames[1]
    BY <2>2, RunningIs
  <2> QED
    BY <1>1, <2>1, <2>3 DEF Returned, Joins
<1>3. fs # <<>> /\ frames # <<>>
  BY <1>1, <1>2
<1>4. /\ Beside(fs, m, vs, fields) /\ vs \in Seq(Range(vs)) /\ Len(vs) = Len(fs) /\ vs # <<>>
      /\ Head(vs) = vs[1] /\ Twins(fs[1], vs[1])
  <2>1. Head(frames) = frames[1]
    BY <1>3, RunningIs
  <2> QED
    BY <1>1, <1>3, <2>1, RunningMeans
<1>5. Popped(t, fs) /\ Popped(us, vs)
  <2>1. fs \in Seq(Range(fs))
    BY <1>1, <1>3, RunningIs
  <2> QED
    BY <1>1, <1>3, <1>4, <2>1, StackPopped
<1>6. CodeInv /\ Ready(t, us, DOMAIN rest, rest, fields, g, values)
  BY <1>1, <1>2, <1>4, <1>5, ReturnReady
<1>7. w = PutNow(fields, us, values)
  <2>1. vs[1].pc = Done
    BY <1>2, <1>4, TwinCode
  <2>2. us[1] = vs[2]
    <3>1. 1 \in 1 .. Len(vs) - 1 /\ 1 + 1 = 2
      BY <1>2, <1>4
    <3> QED
      BY <1>5, <3>1 DEF Popped
  <2>3. Len(vs) # 1
    BY <1>2, <1>4
  <2>4. Statement(vs[2]) = s
    <3>1. 2 \in DOMAIN fs
      BY <1>2, <1>4 DEF Beside, StackOK
    <3>2. Twins(fs[2], vs[2])
      BY <1>4, <3>1 DEF Beside, Same
    <3> QED
      BY <1>1, <3>2, TwinCode
  <2>5. Turn(meant) = Put(fields, vs[2], Tail(Tail(vs)), values)
    BY <1>1, <1>4, <2>1, <2>3, <2>4 DEF Turn
  <2> QED
    BY <1>1, <2>2, <2>5 DEF PutNow
<1>8. Map(rest)
  BY <1>1 DEF Without, Map
<1>9. MeantFor(frames', rest, w)
  <2>1. PICK t2 : t2 = frames'
    OBVIOUS
  <2>2. MeantFor(t2, rest, w)
    BY <1>2, <1>6, <1>7, <1>8, <2>1, ReadyMeans
  <2> QED
    BY <2>1, <2>2
<1> QED
  BY <1>1, <1>2, <1>9, MeantKept

\* The fields with reset signals have cells of their own, and each is seen
\* after its signal.
ResetsSeen(c, at, m) ==
  /\ DOMAIN c.reset \subseteq DOMAIN c.fields
  /\ \A n \in DOMAIN c.reset :
       n \in Range(Dictionary) /\ at[n] \in DOMAIN m /\ at[c.reset[n]] \in DOMAIN m
  /\ \A n, k \in DOMAIN c.reset : at[n] # at[c.reset[k]] /\ (at[n] = at[k] => n = k)
  /\ \A n \in DOMAIN c.reset, i \in DOMAIN Dictionary :
       Dictionary[i] = n => c.reset[n] \in Seen(c, i)

\* The memory when some of the names have been seen.
ResetSoFar(c, at, m, names, memory) ==
  /\ DOMAIN memory = DOMAIN m
  /\ \A a \in DOMAIN m : (\A n \in DOMAIN c.reset : a # at[n]) => memory[a] = m[a]
  /\ \A n \in DOMAIN c.reset :
       memory[at[n]] = IF n \in names /\ m[at[c.reset[n]]] # 0 THEN c.fields[n] ELSE m[at[n]]

-----------------------------------------------------------------------------
(* The entry of a call                                                     *)

(* One name of the dictionary more has been reset.                         *)
LEMMA ResetOne ==
  ASSUME NEW c, NEW at, NEW m, ResetsSeen(c, at, m), NEW names, NEW memory,
         ResetSoFar(c, at, m, names, memory), NEW i \in DOMAIN Dictionary,
         NEW more, more = names \cup {Dictionary[i]}
  PROVE  ResetSoFar(c, at, m, more, ResetTurn(c, at, memory, i))
<1>1. PICK x, after : x = Dictionary[i] /\ after = ResetTurn(c, at, memory, i)
  OBVIOUS
<1>2. /\ DOMAIN c.reset \subseteq DOMAIN c.fields
      /\ \A n \in DOMAIN c.reset :
           n \in Range(Dictionary) /\ at[n] \in DOMAIN m /\ at[c.reset[n]] \in DOMAIN m
      /\ \A n, k \in DOMAIN c.reset : at[n] # at[c.reset[k]] /\ (at[n] = at[k] => n = k)
      /\ x \in DOMAIN c.reset => c.reset[x] \in Seen(c, i)
  BY <1>1 DEF ResetsSeen
<1>3. /\ DOMAIN memory = DOMAIN m
      /\ \A a \in DOMAIN m : (\A n \in DOMAIN c.reset : a # at[n]) => memory[a] = m[a]
      /\ \A n \in DOMAIN c.reset :
           memory[at[n]] = IF n \in names /\ m[at[c.reset[n]]] # 0 THEN c.fields[n] ELSE m[at[n]]
  BY DEF ResetSoFar
<1>4. x \in DOMAIN c.reset => memory[at[c.reset[x]]] = m[at[c.reset[x]]]
  BY <1>2, <1>3
<1>5. IsReset(c, at, x, i, memory) <=> x \in DOMAIN c.reset /\ m[at[c.reset[x]]] # 0
  BY <1>2, <1>4 DEF IsReset
<1>6. after = IF IsReset(c, at, x, i, memory) THEN [memory EXCEPT ![at[x]] = c.fields[x]] ELSE memory
  BY <1>1 DEF ResetTurn
<1>7. CASE IsReset(c, at, x, i, memory)
  <2>1. /\ x \in DOMAIN c.reset /\ m[at[c.reset[x]]] # 0
        /\ DOMAIN after = DOMAIN m /\ after[at[x]] = c.fields[x]
        /\ \A a \in DOMAIN m : a # at[x] => after[a] = memory[a]
    BY <1>2, <1>3, <1>5, <1>6, <1>7
  <2>2. \A a \in DOMAIN m : (\A n \in DOMAIN c.reset : a # at[n]) => after[a] = m[a]
    BY <1>3, <2>1
  <2>3. ASSUME NEW n \in DOMAIN c.reset
        PROVE  after[at[n]] = IF n \in more /\ m[at[c.reset[n]]] # 0 THEN c.fields[n] ELSE m[at[n]]
    <3>1. CASE n = x
      BY <1>1, <2>1, <3>1
    <3>2. CASE n # x
      <4>1. after[at[n]] = memory[at[n]]
        BY <1>2, <2>1, <3>2
      <4>2. n \in more <=> n \in names
        BY <1>1, <3>2
      <4> QED
        BY <1>3, <4>1, <4>2
    <3> QED
      BY <3>1, <3>2
  <2> QED
    BY <1>1, <2>1, <2>2, <2>3 DEF ResetSoFar
<1>8. CASE ~IsReset(c, at, x, i, memory)
  <2>1. after = memory /\ (x \in DOMAIN c.reset => ~(m[at[c.reset[x]]] # 0))
    BY <1>5, <1>6, <1>8
  <2>2. ASSUME NEW n \in DOMAIN c.reset
        PROVE  after[at[n]] = IF n \in more /\ m[at[c.reset[n]]] # 0 THEN c.fields[n] ELSE m[at[n]]
    BY <1>1, <1>3, <2>1
  <2> QED
    BY <1>1, <1>3, <2>1, <2>2 DEF ResetSoFar
<1> QED
  BY <1>7, <1>8

(* The resets at the entry of a call put back the fields whose signal is   *)
(* on, and only those.                                                     *)
LEMMA ResetsAre ==
  ASSUME NEW c, NEW at, NEW m, ResetsSeen(c, at, m)
  PROVE  ResetSoFar(c, at, m, Range(Dictionary), FieldsReset(c, at, m))
<1>1. PICK n : n = Len(Dictionary) /\ n \in Nat /\ DOMAIN Dictionary = 1 .. n
  BY NamesAssumption
<1>2. PICK W : ResetRun(c, at, m, W) /\ FieldsReset(c, at, m) = W[n]
  BY <1>1, FieldsResetUnfolds
<1> DEFINE NamesUpTo(k) == {Dictionary[j] : j \in 1 .. k}
           T == {k \in Nat : k <= n => ResetSoFar(c, at, m, NamesUpTo(k), W[k])}
<1>3. 0 \in T
  <2>1. W[0] = m /\ NamesUpTo(0) = {}
    BY <1>2 DEF ResetRun
  <2>2. ResetSoFar(c, at, m, {}, m)
    BY DEF ResetSoFar
  <2> QED
    BY <2>1, <2>2
<1>4. ASSUME NEW k \in Nat, k \in T PROVE k + 1 \in T
  <2> SUFFICES ASSUME k + 1 <= n PROVE ResetSoFar(c, at, m, NamesUpTo(k + 1), W[k + 1])
    OBVIOUS
  <2>1. k + 1 \in 1 .. n /\ k <= n /\ (k + 1) - 1 = k /\ k + 1 \in DOMAIN Dictionary
    BY <1>1
  <2>2. W[k + 1] = ResetTurn(c, at, W[k], k + 1)
    BY <1>1, <1>2, <2>1 DEF ResetRun
  <2>3. ResetSoFar(c, at, m, NamesUpTo(k), W[k])
    BY <1>4, <2>1
  <2>4. NamesUpTo(k + 1) = NamesUpTo(k) \cup {Dictionary[k + 1]}
    <3>1. 1 .. k + 1 = (1 .. k) \cup {k + 1}
      BY <2>1
    <3> QED
      BY <3>1
  <2> HIDE DEF NamesUpTo
  <2>5. PICK i : i = k + 1
    OBVIOUS
  <2> QED
    BY <2>1, <2>2, <2>3, <2>4, <2>5, ResetOne
<1>5. n \in T
  <2> HIDE DEF T
  <2> QED
    BY <1>1, <1>3, <1>4, Induction
<1>6. ResetSoFar(c, at, m, NamesUpTo(n), FieldsReset(c, at, m))
  BY <1>1, <1>2, <1>5
<1>7. NamesUpTo(n) = Range(Dictionary)
  BY <1>1 DEF Range
<1> QED
  BY <1>6, <1>7

\* A call can be entered: its caller is in order, and has no stack for it.
CanEnter(f, s, M) ==
  /\ CodeInv /\ Calling(f, s) /\ Reaches(f, M) /\ Distinct(f) /\ HasStruct(domain, f)
  /\ Struct(domain) \subseteq M
  /\ \A a \in M : ~(a.area = "stack" /\ a.path = CallPath(f, s))

\* The memory with the arguments that need a cell.
ArgumentsIn(f, s, m1) ==
  LET e == Callee(s)
      g == Frame(f, s)
  IN /\ DOMAIN mem \subseteq DOMAIN m1 /\ \A a \in DOMAIN mem : m1[a] = mem[a]
     /\ \A n \in Range(e.ins) \cup Range(e.ext) :
          g.at[n] \in DOMAIN m1 /\ m1[g.at[n]] = Value(f, mem, Actual(s, n))
     /\ \A n \in DOMAIN e.fields : g.at[n] \in DOMAIN mem
     /\ \A a \in DOMAIN m1 \ DOMAIN mem : a.area = "stack"

(* The fields of the instance that is entered exist.                       *)
LEMMA FieldsExist ==
  ASSUME NEW f, NEW s, NEW M, CanEnter(f, s, M), NEW n \in DOMAIN Callee(s).fields
  PROVE  Frame(f, s).at[n] \in M /\ Frame(f, s).at[n] = Field(CallPath(f, s), n)
<1>1. CodeInv /\ Calling(f, s) /\ Reaches(f, M) /\ HasStruct(domain, f) /\ Struct(domain) \subseteq M
  BY DEF CanEnter
<1>2. PICK M2 : M2 = M \cup Made(f, s)
  OBVIOUS
<1>3. Reaches(Frame(f, s), M2)
  BY <1>1, <1>2, NewReaches
<1>4. Frame(f, s).at[n] = Field(CallPath(f, s), n) /\ n \in DOMAIN Frame(f, s).at
  BY <1>1, FrameIs DEF CellNames
<1>5. Frame(f, s).at[n] \in M2
  BY <1>3, <1>4 DEF Reaches
<1>6. Frame(f, s).at[n] \notin Made(f, s)
  <2>1. \A a \in Made(f, s) : a.area = "stack"
    BY DEF Made, Local
  <2>2. Frame(f, s).at[n].area = "state"
    BY <1>4 DEF Field
  <2> QED
    BY <2>1, <2>2
<1> QED
  BY <1>2, <1>4, <1>5, <1>6

(* Externals are no outputs.                                               *)
LEMMA ExternalsAreNoOutputs ==
  ASSUME CodeInv, NEW f, NEW s, Calling(f, s)
  PROVE  Range(Callee(s).ext) \cap Range(Callee(s).outs) = {}
<1>1. PICK e, o, x, t : e = Callee(s) /\ o = s.outs /\ x = s.ext /\ t = o \o x
  OBVIOUS
<1>2. /\ o \in Seq(Range(o)) /\ x \in Seq(Range(x))
      /\ \A i, j \in DOMAIN t : t[i] = t[j] => i = j
  <2>1. CallsFit(code, Code(f), s)
    BY CallIs
  <2> QED
    BY <1>1, <2>1 DEF CallsFit
<1>3. PICK E : E = Range(o) \cup Range(x)
  OBVIOUS
<1>4. o \in Seq(E) /\ x \in Seq(E) /\ Joins(t, o, x)
  BY <1>1, <1>2, <1>3 DEF Joins
<1>5. /\ Len(o) \in Nat /\ DOMAIN o = 1 .. Len(o) /\ Len(x) \in Nat /\ DOMAIN x = 1 .. Len(x)
      /\ \A i \in DOMAIN o : i \in DOMAIN t /\ t[i] = o[i]
      /\ \A i \in DOMAIN x : Len(o) + i \in DOMAIN t /\ t[Len(o) + i] = x[i]
  BY <1>4, JoinedHold
<1>6. Range(o) \cap Range(x) = {}
  <2> SUFFICES ASSUME NEW i \in DOMAIN o, NEW j \in DOMAIN x, o[i] = x[j] PROVE FALSE
    BY DEF Range
  <2>1. i = Len(o) + j
    BY <1>2, <1>5
  <2> QED
    BY <1>5, <2>1
<1>7. /\ \A n \in Range(e.outs) : Actual(s, n) \in Range(o)
      /\ \A n \in Range(e.ext)  : Actual(s, n) \in Range(x)
  BY <1>1, ParametersAre
<1> QED
  BY <1>1, <1>6, <1>7

(* The temporaries of a call hold its arguments.                           *)
LEMMA ArgumentsArrive ==
  ASSUME NEW f, NEW s, NEW M, M = DOMAIN mem, CanEnter(f, s, M), NEW left,
         NEW m1, m1 = Over(Arguments(f, s, left), mem)
  PROVE  ArgumentsIn(f, s, m1)
<1>1. PICK e, g, p, args : e = Callee(s) /\ g = Frame(f, s) /\ p = CallPath(f, s)
                           /\ args = Arguments(f, s, left)
  OBVIOUS
<1>2. /\ CodeInv /\ Calling(f, s) /\ Reaches(f, M)
      /\ \A a \in M : ~(a.area = "stack" /\ a.path = p)
  BY <1>1 DEF CanEnter
<1>3. /\ DOMAIN args = {Local(p, n) : n \in ByTemporary(f, s)}
      /\ \A n \in ByTemporary(f, s) : args[Local(p, n)] = Passed(f, s, n, left)
  BY <1>1 DEF Arguments, Local
<1>4. m1 = [a \in DOMAIN args \cup M |-> IF a \in DOMAIN args THEN args[a] ELSE mem[a]]
  BY <1>1 DEF Over
<1>5. \A a \in DOMAIN args : a.area = "stack" /\ a.path = p
  BY <1>3 DEF Local
<1>6. /\ M \subseteq DOMAIN m1 /\ \A a \in M : m1[a] = mem[a]
      /\ \A a \in DOMAIN m1 \ M : a.area = "stack"
      /\ \A a \in DOMAIN args : a \in DOMAIN m1 /\ m1[a] = args[a]
  BY <1>2, <1>4, <1>5
<1>7. ASSUME NEW n \in Range(e.ins) \cup Range(e.ext)
      PROVE  g.at[n] \in DOMAIN m1 /\ m1[g.at[n]] = Value(f, mem, Actual(s, n))
  <2>1. /\ n \in Range(Parameters(e)) /\ n \notin Range(e.outs)
    <3>1. /\ Range(Parameters(e)) = Range(e.outs) \cup Range(e.ins) \cup Range(e.ext)
          /\ Range(e.ins) \cap (Range(e.outs) \cup Range(e.ext)) = {}
      BY <1>1, <1>2, ParametersAre
    <3>2. Range(e.ext) \cap Range(e.outs) = {}
      BY <1>1, <1>2, ExternalsAreNoOutputs
    <3> QED
      BY <3>1, <3>2
  <2>2. g.at[n] = ArgumentCell(f, s, n)
    BY <1>1, <1>2, <2>1, FrameIs
  <2>3. CASE n \in ByTemporary(f, s) /\ ArgumentCell(f, s, n) = Local(p, n)
    <3>1. Local(p, n) \in DOMAIN args /\ args[Local(p, n)] = Passed(f, s, n, left)
      BY <1>3, <2>3
    <3>2. Passed(f, s, n, left) = Value(f, mem, Actual(s, n))
      BY <1>1, <2>1 DEF Passed
    <3> QED
      BY <1>6, <2>2, <2>3, <3>1, <3>2
  <2>4. CASE Actual(s, n) \in DOMAIN f.at /\ ArgumentCell(f, s, n) = f.at[Actual(s, n)]
    <3>1. Shaped(f) /\ DOMAIN f.at \cap DOMAIN Literal = {}
      <4>1. Shaped(f) /\ f.pc # Done
        BY <1>2 DEF Calling
      <4>2. GoodCode(Code(f))
        BY <1>2, <4>1, StatementIs
      <4> QED
        BY <4>1, <4>2 DEF Shaped, GoodCode, OneMeaningPerName
    <3>2. Value(f, mem, Actual(s, n)) = mem[f.at[Actual(s, n)]]
      BY <2>4, <3>1 DEF Value, Shaped
    <3>3. f.at[Actual(s, n)] \in M
      BY <1>2, <2>4 DEF Reaches
    <3> QED
      BY <1>6, <2>2, <2>4, <3>2, <3>3
  <2> QED
    BY <1>1, <1>2, <2>1, <2>3, <2>4, ArgumentsAre
<1>8. \A n \in DOMAIN e.fields : g.at[n] \in M
  BY <1>1, FieldsExist
<1> QED
  BY <1>1, <1>6, <1>7, <1>8 DEF ArgumentsIn

(* What a call's entry writes are names that the callee may write.         *)
LEMMA EntryNames ==
  ASSUME NEW f, NEW s, NEW M, CanEnter(f, s, M), NEW e, e = Callee(s), NEW g, g = Frame(f, s)
  PROVE  /\ GoodCode(e) /\ Code(g) = e /\ Distinct(g) /\ DOMAIN g.at = CellNames(e)
         /\ DOMAIN e.reset \subseteq DOMAIN e.fields /\ DOMAIN e.fields \subseteq Writable(g)
         /\ Prefilled(e) \subseteq Writable(g) /\ Writable(g) \subseteq DOMAIN g.at
         /\ Prefilled(e) \cap (DOMAIN e.fields \cup Range(e.ins) \cup Range(e.ext)) = {}
         /\ DOMAIN e.fields \cap (Range(e.ins) \cup Range(e.ext)) = {}
         /\ Range(e.ins) \cup Range(e.ext) \subseteq DOMAIN g.at
         /\ Range(e.ins) \cup Range(e.ext) \subseteq Range(Parameters(e))
<1>1. CodeInv /\ Calling(f, s) /\ Reaches(f, M) /\ Distinct(f)
  BY DEF CanEnter
<1>2. GoodCode(e)
  BY <1>1, CallIs
<1>3. Code(g) = e /\ DOMAIN g.at = CellNames(e)
  BY <1>1, FrameIs
<1>4. Distinct(g)
  BY <1>1, NewDistinct
<1>5. DOMAIN e.reset \subseteq DOMAIN e.fields
  BY <1>2 DEF GoodCode, ResetsFit
<1>6. /\ Range(Parameters(e)) = Range(e.outs) \cup Range(e.ins) \cup Range(e.ext)
      /\ Range(e.ins) \cap Range(e.outs) = {}
      /\ Range(Parameters(e)) \cap (DOMAIN e.fields \cup Locals(e)) = {}
      /\ DOMAIN e.fields \cap Locals(e) = {}
  <2>1. /\ Range(Parameters(e)) = Range(e.outs) \cup Range(e.ins) \cup Range(e.ext)
        /\ Range(e.ins) \cap (Range(e.outs) \cup Range(e.ext)) = {}
        /\ Range(Parameters(e)) \cap (DOMAIN e.fields \cup Locals(e)) = {}
        /\ DOMAIN e.fields \cap Locals(e) = {}
    BY <1>1, ParametersAre
  <2> QED
    BY <2>1
<1>7. Range(e.ext) \cap Range(e.outs) = {}
  BY <1>1, ExternalsAreNoOutputs
<1>8. Writable(g) = CellNames(e) \ Range(e.ins)
  BY <1>3 DEF Writable
<1>9. DOMAIN e.fields \subseteq Writable(g)
  BY <1>6, <1>8 DEF CellNames
<1>10. CASE e.kind = "Loop"
  <2>1. Prefilled(e) \subseteq Range(e.outs)
    BY <1>10 DEF Prefilled
  <2> QED
    BY <1>2, <1>3, <1>4, <1>5, <1>6, <1>7, <1>8, <1>9, <2>1 DEF CellNames
<1>11. CASE e.kind # "Loop"
  <2>1. Prefilled(e) = Locals(e) /\ Stored(e) = Locals(e)
    BY <1>11 DEF Prefilled, Stored
  <2> QED
    BY <1>2, <1>3, <1>4, <1>5, <1>6, <1>8, <1>9, <2>1 DEF CellNames
<1> QED
  BY <1>10, <1>11

\* What the reset signal of a field is at the call.
Signal(f, s, n) ==
  LET x == Callee(s).reset[n]
  IN IF x \in DOMAIN Callee(s).fields THEN mem[Frame(f, s).at[x]] ELSE Value(f, mem, Actual(s, x))

(* The reset signals are seen as they were passed.                         *)
LEMMA SignalsAre ==
  ASSUME NEW f, NEW s, NEW M, M = DOMAIN mem, CanEnter(f, s, M), NEW m1, ArgumentsIn(f, s, m1),
         NEW e, e = Callee(s), NEW g, g = Frame(f, s)
  PROVE  /\ ResetsSeen(e, g.at, m1)
         /\ \A n \in DOMAIN e.reset : m1[g.at[e.reset[n]]] = Signal(f, s, n) /\ m1[g.at[n]] = mem[g.at[n]]
<1>1. /\ GoodCode(e) /\ Distinct(g)
      /\ DOMAIN e.reset \subseteq DOMAIN e.fields /\ DOMAIN e.fields \subseteq Writable(g)
      /\ DOMAIN e.fields \cap (Range(e.ins) \cup Range(e.ext)) = {}
      /\ Range(e.ins) \cup Range(e.ext) \subseteq DOMAIN g.at
      /\ Range(e.ins) \cup Range(e.ext) \subseteq Range(Parameters(e))
      /\ Writable(g) \subseteq DOMAIN g.at
  BY EntryNames
<1>2. /\ M \subseteq DOMAIN m1 /\ \A a \in M : m1[a] = mem[a]
      /\ \A n \in Range(e.ins) \cup Range(e.ext) :
          g.at[n] \in DOMAIN m1 /\ m1[g.at[n]] = Value(f, mem, Actual(s, n))
      /\ \A n \in DOMAIN e.fields : g.at[n] \in M
  BY DEF ArgumentsIn
<1>3. ResetsFit(e)
  BY <1>1 DEF GoodCode
<1>4. \A n \in DOMAIN e.reset :
        /\ n \in Range(Dictionary) /\ e.reset[n] \notin DOMAIN e.reset
        /\ e.reset[n] \in DOMAIN e.fields \cup Range(e.ins) \cup Range(e.ext)
  BY <1>3 DEF ResetsFit
<1>5. ASSUME NEW n \in DOMAIN e.reset
      PROVE  /\ g.at[n] \in DOMAIN m1 /\ m1[g.at[n]] = mem[g.at[n]]
             /\ g.at[e.reset[n]] \in DOMAIN m1 /\ e.reset[n] \in DOMAIN g.at
             /\ m1[g.at[e.reset[n]]] = Signal(f, s, n)
  <2>1. PICK x : x = e.reset[n] /\ x \in DOMAIN e.fields \cup Range(e.ins) \cup Range(e.ext)
    BY <1>4
  <2>2. g.at[n] \in DOMAIN m1 /\ m1[g.at[n]] = mem[g.at[n]]
    BY <1>1, <1>2
  <2>3. Signal(f, s, n) = IF x \in DOMAIN e.fields THEN mem[g.at[x]] ELSE Value(f, mem, Actual(s, x))
    BY <2>1 DEF Signal
  <2>4. CASE x \in DOMAIN e.fields
    BY <1>1, <1>2, <2>1, <2>2, <2>3, <2>4
  <2>5. CASE x \notin DOMAIN e.fields
    BY <1>1, <1>2, <2>1, <2>2, <2>3, <2>5
  <2> QED
    BY <2>4, <2>5
<1>6. \A n, k \in DOMAIN e.reset : g.at[n] # g.at[e.reset[k]] /\ (g.at[n] = g.at[k] => n = k)
  BY <1>1, <1>4, <1>5 DEF Distinct
<1>7. ASSUME NEW n \in DOMAIN e.reset, NEW i \in DOMAIN Dictionary, Dictionary[i] = n
      PROVE  e.reset[n] \in Seen(e, i)
  <2>1. \/ e.reset[n] \in Range(e.ins) \cup Range(e.ext)
        \/ e.reset[n] \in DOMAIN e.fields /\ \E j \in 1 .. i - 1 : Dictionary[j] = e.reset[n]
    BY <1>3, <1>7 DEF ResetsFit
  <2> QED
    BY <1>1, <2>1 DEF Seen
<1>8. ResetsSeen(e, g.at, m1)
  BY <1>1, <1>4, <1>5, <1>6, <1>7 DEF ResetsSeen
<1> QED
  BY <1>5, <1>8

\* The memory at the entry of a call.
EntryMemory(f, s, m2) ==
  LET e == Callee(s)
      g == Frame(f, s)
  IN /\ Map(m2)
     /\ \A n \in Prefilled(e) : m2[g.at[n]] = e.starts[n]
     /\ \A n \in Range(e.ins) \cup Range(e.ext) : m2[g.at[n]] = Value(f, mem, Actual(s, n))
     /\ \A n \in DOMAIN e.reset :
          m2[g.at[n]] = IF Signal(f, s, n) # 0 THEN e.fields[n] ELSE mem[g.at[n]]
     /\ \A a \in DOMAIN mem : m2[a] # mem[a] =>
          \E n \in DOMAIN e.reset \cup Prefilled(e) : a = g.at[n]

(* Locals with a default start there.                                      *)
LEMMA LocalsSetIs ==
  ASSUME NEW c, NEW at, NEW m, \A n, k \in Prefilled(c) : at[n] = at[k] => n = k
  PROVE  /\ \A n \in Prefilled(c) : LocalsSet(c, at, m)[at[n]] = c.starts[n]
         /\ \A a \in DOMAIN m : (\A n \in Prefilled(c) : a # at[n]) => LocalsSet(c, at, m)[a] = m[a]
         /\ Map(LocalsSet(c, at, m))
<1> DEFINE P == {at[n] : n \in Prefilled(c)}
           name(a) == CHOOSE n \in Prefilled(c) : at[n] = a
           o == [a \in P |-> c.starts[name(a)]]
<1>1. LocalsSet(c, at, m) = Over(o, m)
  BY DEF LocalsSet
<1>2. \A n \in Prefilled(c) : name(at[n]) = n
  <2> SUFFICES ASSUME NEW n \in Prefilled(c) PROVE name(at[n]) = n
    OBVIOUS
  <2>1. \E k \in Prefilled(c) : at[k] = at[n]
    OBVIOUS
  <2>2. name(at[n]) \in Prefilled(c) /\ at[name(at[n])] = at[n]
    BY <2>1
  <2> HIDE DEF name
  <2> QED
    BY <2>2
<1> HIDE DEF name
<1>3. DOMAIN o = P /\ \A n \in Prefilled(c) : o[at[n]] = c.starts[n]
  BY <1>2
<1> HIDE DEF o
<1>4. Over(o, m) = [a \in P \cup DOMAIN m |-> IF a \in P THEN o[a] ELSE m[a]]
  <2> HIDE DEF P
  <2> QED
    BY <1>3 DEF Over
<1>5. PICK r : r = LocalsSet(c, at, m)
  OBVIOUS
<1>6. \A n \in Prefilled(c) : r[at[n]] = c.starts[n]
  BY <1>1, <1>3, <1>4, <1>5
<1>7. \A a \in DOMAIN m : (\A n \in Prefilled(c) : a # at[n]) => r[a] = m[a]
  BY <1>1, <1>4, <1>5
<1>8. Map(r)
  <2> HIDE DEF P
  <2> QED
    BY <1>1, <1>4, <1>5 DEF Map
<1> QED
  BY <1>5, <1>6, <1>7, <1>8

(* Memory as the first statement of a call finds it.                       *)
LEMMA EntryIs ==
  ASSUME NEW f, NEW s, NEW M, M = DOMAIN mem, CanEnter(f, s, M), NEW left,
         NEW m2, m2 = Entered(f, s, left, mem)
  PROVE  EntryMemory(f, s, m2)
<1>1. PICK e, g, m1, mr : e = Callee(s) /\ g = Frame(f, s) /\ m1 = Over(Arguments(f, s, left), mem)
                          /\ mr = FieldsReset(e, g.at, m1)
  OBVIOUS
<1>2. ArgumentsIn(f, s, m1)
  BY <1>1, ArgumentsArrive
<1>3. /\ DOMAIN e.reset \subseteq DOMAIN e.fields /\ DOMAIN e.fields \subseteq Writable(g)
      /\ Prefilled(e) \subseteq Writable(g) /\ Writable(g) \subseteq DOMAIN g.at
      /\ Prefilled(e) \cap (DOMAIN e.fields \cup Range(e.ins) \cup Range(e.ext)) = {}
      /\ DOMAIN e.fields \cap (Range(e.ins) \cup Range(e.ext)) = {}
      /\ Range(e.ins) \cup Range(e.ext) \subseteq DOMAIN g.at
      /\ Distinct(g)
  BY <1>1, EntryNames
<1>4. /\ ResetsSeen(e, g.at, m1)
      /\ \A n \in DOMAIN e.reset : m1[g.at[e.reset[n]]] = Signal(f, s, n) /\ m1[g.at[n]] = mem[g.at[n]]
  BY <1>1, <1>2, SignalsAre
<1>5. ResetSoFar(e, g.at, m1, Range(Dictionary), mr)
  BY <1>1, <1>4, ResetsAre
<1>6. /\ M \subseteq DOMAIN m1 /\ \A a \in M : m1[a] = mem[a]
      /\ \A n \in Range(e.ins) \cup Range(e.ext) :
          g.at[n] \in DOMAIN m1 /\ m1[g.at[n]] = Value(f, mem, Actual(s, n))
      /\ \A n \in DOMAIN e.fields : g.at[n] \in M
  BY <1>1, <1>2 DEF ArgumentsIn
<1>7. /\ DOMAIN mr = DOMAIN m1
      /\ \A a \in DOMAIN m1 : (\A n \in DOMAIN e.reset : a # g.at[n]) => mr[a] = m1[a]
      /\ \A n \in DOMAIN e.reset :
           mr[g.at[n]] = IF m1[g.at[e.reset[n]]] # 0 THEN e.fields[n] ELSE m1[g.at[n]]
  BY <1>4, <1>5 DEF ResetSoFar, ResetsSeen
<1>8. m2 = LocalsSet(e, g.at, mr)
  BY <1>1 DEF Entered
<1>9. \A n \in Writable(g), k \in DOMAIN g.at : g.at[n] = g.at[k] => n = k
  BY <1>3 DEF Distinct
<1>10. \A n, k \in Prefilled(e) : g.at[n] = g.at[k] => n = k
  BY <1>3, <1>9
<1>11. /\ \A n \in Prefilled(e) : m2[g.at[n]] = e.starts[n]
       /\ \A a \in DOMAIN mr : (\A n \in Prefilled(e) : a # g.at[n]) => m2[a] = mr[a]
       /\ Map(m2)
  BY <1>8, <1>10, LocalsSetIs
<1>12. ASSUME NEW n \in Range(e.ins) \cup Range(e.ext)
       PROVE  m2[g.at[n]] = Value(f, mem, Actual(s, n))
  <2>1. /\ \A k \in Prefilled(e) : g.at[n] # g.at[k]
        /\ \A k \in DOMAIN e.reset : g.at[n] # g.at[k]
    BY <1>3, <1>9
  <2> QED
    BY <1>6, <1>7, <1>11, <2>1
<1>13. ASSUME NEW n \in DOMAIN e.reset
       PROVE  m2[g.at[n]] = IF Signal(f, s, n) # 0 THEN e.fields[n] ELSE mem[g.at[n]]
  <2>1. \A k \in Prefilled(e) : g.at[n] # g.at[k]
    BY <1>3, <1>9
  <2>2. g.at[n] \in DOMAIN mr
    BY <1>3, <1>6, <1>7
  <2>3. m2[g.at[n]] = mr[g.at[n]]
    BY <1>11, <2>1, <2>2
  <2> QED
    BY <1>4, <1>7, <2>3
<1>14. ASSUME NEW a \in M, m2[a] # mem[a]
       PROVE  \E n \in DOMAIN e.reset \cup Prefilled(e) : a = g.at[n]
  BY <1>6, <1>7, <1>11, <1>14
<1> QED
  BY <1>1, <1>11, <1>12, <1>13, <1>14 DEF EntryMemory

\* The names that a call gives a value of its own at entry.
Begins(c) == IF c.kind = "Loop" THEN DOMAIN c.starts ELSE Locals(c)

\* What the caller's twin has of the call's sources.
SourcesAgree(f, s, u, fields) ==
  Twins(f, u) /\ \A n \in Sources(s) : Read(fields, u, n) = Value(f, mem, n)

\* The call v of the meaning, beside the call of s in f.
Meant(f, s, v) ==
  LET e == Callee(s)
  IN /\ DOMAIN v = {"callable", "path", "pc", "names"}
     /\ v.callable = s.callee /\ v.path = CallPath(f, s) /\ v.pc = Start(e) /\ Code(v) = e
     /\ DOMAIN v.names = Begins(e) \cup Range(e.ins) \cup Range(e.ext)
     /\ \A n \in Begins(e) : v.names[n] = e.starts[n]
     /\ \A n \in Range(e.ins) \cup Range(e.ext) : v.names[n] = Value(f, mem, Actual(s, n))

(* What the names of a call are at its start.                              *)
LEMMA BeginsAre ==
  ASSUME CodeInv, NEW f, NEW s, Calling(f, s), NEW e, e = Callee(s)
  PROVE  /\ Begins(e) = Prefilled(e) \cup (Locals(e) \ Stored(e))
         /\ Begins(e) \subseteq Locals(e) \cup Range(e.outs)
         /\ Begins(e) \cap (DOMAIN Literal \cup DOMAIN e.fields \cup Range(e.ins) \cup Range(e.ext)) = {}
         /\ Locals(e) \subseteq Begins(e) /\ Locals(e) \cap Range(Parameters(e)) = {}
         /\ Range(Parameters(e)) = Range(e.outs) \cup Range(e.ins) \cup Range(e.ext)
         /\ Range(Parameters(e)) \cap (DOMAIN Literal \cup DOMAIN e.fields) = {}
         /\ Range(Parameters(e)) \subseteq CellNames(e) /\ Stored(e) \subseteq CellNames(e)
<1>1. /\ Range(Parameters(e)) = Range(e.outs) \cup Range(e.ins) \cup Range(e.ext)
      /\ Range(e.ins) \cap (Range(e.outs) \cup Range(e.ext)) = {}
      /\ Range(Parameters(e)) \cap (DOMAIN e.fields \cup Locals(e)) = {}
      /\ DOMAIN e.fields \cap Locals(e) = {}
      /\ DOMAIN Literal \cap (CellNames(e) \cup Locals(e)) = {}
  BY ParametersAre
<1>2. Range(e.ext) \cap Range(e.outs) = {}
  BY ExternalsAreNoOutputs
<1>3. Locals(e) = DOMAIN e.starts \ Range(e.outs)
  BY DEF Locals
<1>4. /\ Begins(e) = IF e.kind = "Loop" THEN DOMAIN e.starts ELSE Locals(e)
      /\ Prefilled(e) = IF e.kind = "Loop" THEN DOMAIN e.starts \cap Range(e.outs) ELSE Locals(e)
      /\ Stored(e) = IF e.kind = "Loop" THEN {} ELSE Locals(e)
  BY DEF Begins, Prefilled, Stored
<1>5. CellNames(e) = DOMAIN e.fields \cup Stored(e) \cup Range(Parameters(e))
  BY DEF CellNames
<1> QED
  BY <1>1, <1>2, <1>3, <1>4, <1>5

(* The call by value starts with the arguments that were passed.           *)
LEMMA CallableIs ==
  ASSUME CodeInv, NEW f, NEW s, Calling(f, s), NEW u, NEW fields, SourcesAgree(f, s, u, fields),
         NEW v, v = Callable(fields, u, s)
  PROVE  Meant(f, s, v)
<1>1. PICK e : e = Callee(s)
  OBVIOUS
<1> DEFINE ie == Range(e.ins) \cup Range(e.ext)
           x == [n \in Begins(e) |-> e.starts[n]]
           y == [n \in ie |-> Read(fields, u, Actual(s, n))]
           z == Over(x, y)
<1>2. v = [callable |-> s.callee, path |-> Append(u.path, s.site), pc |-> Start(e), names |-> z]
  BY <1>1 DEF Callable, Begins
<1>3. u.path = f.path
  BY TwinCode DEF SourcesAgree
<1>4. ASSUME NEW n \in ie PROVE Read(fields, u, Actual(s, n)) = Value(f, mem, Actual(s, n))
  <2>1. Actual(s, n) \in Range(s.ins) \cup Range(s.ext)
    BY <1>1, ParametersAre
  <2>2. Actual(s, n) \in Sources(s)
    BY <2>1 DEF Sources, Calling
  <2> QED
    BY <2>2 DEF SourcesAgree
<1>5. Begins(e) \cap ie = {}
  BY <1>1, BeginsAre
<1>6. DOMAIN x = Begins(e) /\ DOMAIN y = ie
  OBVIOUS
<1> HIDE DEF ie
<1>7. /\ DOMAIN z = Begins(e) \cup ie
      /\ \A n \in Begins(e) : z[n] = e.starts[n]
      /\ \A n \in ie : z[n] = Read(fields, u, Actual(s, n))
  BY <1>5, <1>6, OverDomain
<1> HIDE DEF z
<1>8. /\ DOMAIN v = {"callable", "path", "pc", "names"} /\ v.callable = s.callee
      /\ v.path = Append(u.path, s.site) /\ v.pc = Start(e) /\ v.names = z
  BY <1>2
<1>9. v.path = CallPath(f, s)
  BY <1>3, <1>8 DEF CallPath
<1>10. Code(v) = e
  BY <1>1, <1>8 DEF Code, Callee
<1>11. \A n \in ie : v.names[n] = Value(f, mem, Actual(s, n))
  BY <1>4, <1>7, <1>8
<1> QED
  BY <1>1, <1>7, <1>8, <1>9, <1>10, <1>11 DEF Meant, ie

(* A call and what it means begin as twins, and see the same.              *)
LEMMA EntryTwins ==
  ASSUME CodeInv, NEW f, NEW s, Calling(f, s), NEW v, Meant(f, s, v), NEW g, g = Frame(f, s),
         NEW m2, EntryMemory(f, s, m2)
  PROVE  Twins(g, v) /\ NamesAgree(g, v, m2, {})
<1>1. PICK e, B, ie : e = Callee(s) /\ B = Begins(e) /\ ie = Range(e.ins) \cup Range(e.ext)
  OBVIOUS
<1>2. /\ DOMAIN v = {"callable", "path", "pc", "names"}
      /\ v.callable = s.callee /\ v.path = CallPath(f, s) /\ v.pc = Start(e)
      /\ DOMAIN v.names = B \cup ie
      /\ \A n \in B : v.names[n] = e.starts[n]
      /\ \A n \in ie : v.names[n] = Value(f, mem, Actual(s, n))
  BY <1>1 DEF Meant
<1>3. /\ Code(g) = e /\ g.callable = s.callee /\ g.path = CallPath(f, s) /\ g.pc = Start(e)
      /\ DOMAIN g.at = CellNames(e) /\ DOMAIN g.val = Locals(e) \ Stored(e)
      /\ \A n \in DOMAIN g.val : g.val[n] = e.starts[n]
  BY <1>1, FrameIs
<1>4. /\ B = Prefilled(e) \cup (Locals(e) \ Stored(e))
      /\ B \subseteq Locals(e) \cup Range(e.outs)
      /\ B \cap (DOMAIN Literal \cup DOMAIN e.fields \cup ie) = {}
      /\ Locals(e) \subseteq B /\ Locals(e) \cap Range(Parameters(e)) = {}
      /\ Range(Parameters(e)) = Range(e.outs) \cup ie
      /\ Range(Parameters(e)) \cap (DOMAIN Literal \cup DOMAIN e.fields) = {}
      /\ Range(Parameters(e)) \subseteq CellNames(e) /\ Stored(e) \subseteq CellNames(e)
  BY <1>1, BeginsAre
<1>5. Names(g, v) = B \cup ie
  BY <1>2, <1>3, <1>4 DEF Names
<1>6. NamesOK(g, v)
  <2>1. Names(g, v) \cap (DOMAIN Literal \cup DOMAIN e.fields) = {}
    BY <1>4, <1>5
  <2>2. DOMAIN v.names \subseteq DOMAIN g.val \cup DOMAIN g.at
    BY <1>2, <1>3, <1>4
  <2>3. Range(e.ext) \subseteq DOMAIN v.names
    BY <1>1, <1>2
  <2> QED
    BY <1>3, <2>1, <2>2, <2>3 DEF NamesOK
<1>7. Known(e, 1) = Given(e)
  <2>1. 1 .. 1 - 1 = {}
    OBVIOUS
  <2> QED
    BY <2>1 DEF Known
<1>8. Given(e) \subseteq DOMAIN Literal \cup DOMAIN e.fields \cup Names(g, v)
  BY <1>1, <1>4, <1>5 DEF Given
<1>9. GoodCode(e)
  BY <1>1, CallIs
<1>10. ASSUME g.pc = Done PROVE Range(e.outs) \subseteq DOMAIN v.names
  <2>1. Len(e.body) = 0
    BY <1>3, <1>10 DEF Start, Done
  <2>2. Range(e.outs) \subseteq Known(e, 1)
    <3>1. 0 \in 0 .. Len(e.body) /\ 0 = Len(e.body)
      BY <2>1
    <3>2. \A i \in 0 .. Len(e.body) : i = Len(e.body) => Range(e.outs) \subseteq Known(e, i + 1)
      BY <1>9 DEF GoodCode, Ending
    <3> QED
      BY <3>1, <3>2
  <2> QED
    BY <1>2, <1>4, <1>5, <1>7, <1>8, <2>2
<1>11. ASSUME g.pc # Done
       PROVE  /\ Knows(g, v, Known(e, g.pc))
              /\ e.terminate # NoName => e.terminate \in DOMAIN v.names /\ v.names[e.terminate] = 0
              /\ e.kind # "Loop" =>
                   DOMAIN g.val \subseteq UNION {Targets(e.body[j]) : j \in 1 .. g.pc - 1}
  <2>1. g.pc = 1
    BY <1>3, <1>11 DEF Start
  <2>2. Knows(g, v, Known(e, g.pc))
    BY <1>3, <1>7, <1>8, <2>1 DEF Knows
  <2>3. e.terminate # NoName => e.terminate \in B /\ e.starts[e.terminate] = 0
    BY <1>4, <1>9 DEF GoodCode, Ending
  <2>4. e.kind # "Loop" => DOMAIN g.val = {}
    BY <1>3 DEF Stored
  <2> QED
    BY <1>2, <2>2, <2>3, <2>4
<1>12. PlaceOK(g, v)
  BY <1>3, <1>10, <1>11 DEF PlaceOK
<1>13. Twins(g, v)
  BY <1>2, <1>3, <1>6, <1>12 DEF Twins
<1>14. ASSUME NEW n \in Names(g, v) PROVE Value(g, m2, n) = NameOf(v, n)
  <2>1. n \notin DOMAIN Literal /\ n \in DOMAIN v.names
    BY <1>2, <1>5, <1>6 DEF NamesOK
  <2>2. NameOf(v, n) = v.names[n]
    BY <2>1 DEF NameOf
  <2>3. CASE n \in DOMAIN g.val
    <3>1. n \in B
      BY <1>3, <1>4, <2>3
    <3> QED
      BY <1>2, <1>3, <2>1, <2>2, <2>3, <3>1 DEF Value
  <2>4. CASE n \notin DOMAIN g.val
    <3>1. Value(g, m2, n) = m2[g.at[n]]
      BY <2>1, <2>4 DEF Value
    <3>2. CASE n \in B
      <4>1. n \in Prefilled(e)
        BY <1>3, <1>4, <2>4, <3>2
      <4>2. m2[g.at[n]] = e.starts[n]
        BY <1>1, <4>1 DEF EntryMemory
      <4> QED
        BY <1>2, <2>2, <3>1, <3>2, <4>2
    <3>3. CASE n \in ie
      <4>1. m2[g.at[n]] = Value(f, mem, Actual(s, n))
        BY <1>1, <3>3 DEF EntryMemory
      <4> QED
        BY <1>2, <2>2, <3>1, <3>3, <4>1
    <3> QED
      BY <1>5, <3>2, <3>3
  <2> QED
    BY <2>3, <2>4
<1> QED
  BY <1>13, <1>14 DEF NamesAgree

\* The fields that can be reset exist.
Fresh(fields, p, c) == \A n \in DOMAIN c.reset : Field(p, n) \in DOMAIN fields

\* The fields when those whose signal is on have been reset.
WorldReset(fields, v, p, c, now) ==
  /\ DOMAIN now = DOMAIN fields /\ Map(now)
  /\ \A n \in DOMAIN c.reset :
       now[Field(p, n)] = IF Read(fields, v, c.reset[n]) # 0 THEN c.fields[n] ELSE fields[Field(p, n)]
  /\ \A a \in DOMAIN fields : (\A n \in DOMAIN c.reset : a # Field(p, n)) => now[a] = fields[a]

(* The fields meant after the resets at the entry.                         *)
LEMMA AfterResetsIs ==
  ASSUME NEW v, NEW c, c = Code(v), NEW p, p = v.path, NEW fields, Fresh(fields, p, c),
         NEW now, now = AfterResets(fields, v)
  PROVE  WorldReset(fields, v, p, c, now)
<1> DEFINE on(n) == Read(fields, v, c.reset[n]) # 0
           X == {Field(p, n) : n \in {n \in DOMAIN c.reset : on(n)}}
           o == [a \in X |-> c.fields[a.name]]
<1>1. now = Over(o, fields)
  BY DEF AfterResets
<1>2. DOMAIN o = X /\ \A a \in X : o[a] = c.fields[a.name]
  OBVIOUS
<1> HIDE DEF o
<1>3. X \subseteq DOMAIN fields
  BY DEF Fresh
<1>4. \A n \in DOMAIN c.reset : Field(p, n) \in X <=> on(n)
  BY DEF Field
<1>5. \A n : Field(p, n).name = n
  BY DEF Field
<1>6. \A a \in X : \E n \in DOMAIN c.reset : a = Field(p, n)
  OBVIOUS
<1> HIDE DEF X
<1>7. now = [a \in X \cup DOMAIN fields |-> IF a \in X THEN o[a] ELSE fields[a]]
  BY <1>1, <1>2 DEF Over
<1>8. DOMAIN now = DOMAIN fields
  BY <1>3, <1>7
<1>9. Map(now)
  BY <1>7 DEF Map
<1>10. ASSUME NEW n \in DOMAIN c.reset
       PROVE  now[Field(p, n)] = IF on(n) THEN c.fields[n] ELSE fields[Field(p, n)]
  <2>1. PICK a : a = Field(p, n) /\ a.name = n /\ a \in DOMAIN fields /\ (a \in X <=> on(n))
    BY <1>4, <1>5 DEF Fresh
  <2> HIDE DEF on
  <2> QED
    BY <1>2, <1>7, <2>1
<1>11. ASSUME NEW a \in DOMAIN fields, \A n \in DOMAIN c.reset : a # Field(p, n)
       PROVE  now[a] = fields[a]
  BY <1>6, <1>7, <1>11
<1> QED
  BY <1>8, <1>9, <1>10, <1>11 DEF WorldReset

\* A call is entered, beside its meaning.
Enters(fs, vs, fields, f, s, v) ==
  /\ Beside(fs, mem, vs, fields) /\ fs # <<>> /\ f = fs[1]
  /\ CanEnter(f, s, DOMAIN mem) /\ Meant(f, s, v)

(* The signals mean what they are.                                         *)
LEMMA SignalsMean ==
  ASSUME NEW fs, NEW vs, NEW fields, NEW f, NEW s, NEW v, Enters(fs, vs, fields, f, s, v),
         NEW e, e = Callee(s), NEW p, p = CallPath(f, s)
  PROVE  /\ \A n \in DOMAIN e.reset :
              /\ Read(fields, v, e.reset[n]) = Signal(f, s, n)
              /\ Field(p, n) \in DOMAIN fields /\ fields[Field(p, n)] = mem[Field(p, n)]
         /\ \A n \in DOMAIN e.fields : Frame(f, s).at[n] = Field(p, n)
<1>1. PICK g, M : g = Frame(f, s) /\ M = DOMAIN mem
  OBVIOUS
<1>2. /\ CodeInv /\ StackOK(domain, fs, M) /\ Covers(fields, M) /\ FieldsAgree(fs, mem, fields)
      /\ fs # <<>> /\ f = fs[1] /\ CanEnter(f, s, M) /\ Meant(f, s, v)
  BY <1>1 DEF Enters, Beside, Same
<1>3. Calling(f, s)
  BY <1>2 DEF CanEnter
<1>4. \A n \in DOMAIN e.fields : g.at[n] = Field(p, n) /\ Field(p, n) \in M
  BY <1>1, <1>2, FieldsExist
<1>5. ASSUME NEW n \in DOMAIN e.fields
      PROVE  Field(p, n) \in DOMAIN fields /\ fields[Field(p, n)] = mem[Field(p, n)]
  <2>0. Field(p, n) \in M /\ Field(p, n).area = "state" /\ Field(p, n).path = p
    <3>1. Field(p, n) \in M
      BY <1>4
    <3> QED
      BY <3>1 DEF Field
  <2>1. PICK a : a = Field(p, n) /\ a \in M /\ a.area = "state" /\ a.path = p
    BY <2>0
  <2>2. a \in DOMAIN fields
    BY <1>2, <2>1 DEF Covers
  <2>3. ASSUME NEW j \in 2 .. Len(fs) PROVE ~Lends(fs[j], a)
    <3>1. 1 \in DOMAIN fs /\ j \in DOMAIN fs
      BY <1>2 DEF StackOK
    <3>2. /\ Len(fs[1].path) = Len(fs) - 1 /\ Len(fs[j].path) = Len(fs) - j /\ Len(fs) \in Nat /\ j \in Nat
      BY <1>2, <3>1, PathsAre
    <3>3. Len(p) = Len(f.path) + 1
      BY <1>3, CallPathIs DEF Calling
    <3>4. Len(p) # Len(fs[j].path)
      BY <1>2, <3>2, <3>3
    <3>5. p # fs[j].path
      BY <3>4
    <3> QED
      BY <2>1, <3>5 DEF Lends, Field
  <2>4. mem[a] = fields[a]
    BY <1>2, <2>2, <2>3 DEF FieldsAgree
  <2> QED
    BY <2>1, <2>2, <2>4
<1>6. /\ GoodCode(e) /\ DOMAIN e.reset \subseteq DOMAIN e.fields
      /\ DOMAIN e.fields \cap (Range(e.ins) \cup Range(e.ext)) = {}
  BY <1>1, <1>2, EntryNames
<1>7. \A n \in DOMAIN e.reset : e.reset[n] \in DOMAIN e.fields \cup Range(e.ins) \cup Range(e.ext)
  BY <1>6 DEF GoodCode, ResetsFit
<1>8. DOMAIN Literal \cap (DOMAIN e.fields \cup Range(e.ins) \cup Range(e.ext)) = {}
  <2>1. /\ DOMAIN Literal \cap (CellNames(e) \cup Locals(e)) = {}
        /\ Range(Parameters(e)) = Range(e.outs) \cup Range(e.ins) \cup Range(e.ext)
    BY <1>2, <1>3, ParametersAre
  <2> QED
    BY <2>1 DEF CellNames
<1>9. ASSUME NEW n \in DOMAIN e.reset PROVE Read(fields, v, e.reset[n]) = Signal(f, s, n)
  <2>1. PICK x : x = e.reset[n] /\ x \in DOMAIN e.fields \cup Range(e.ins) \cup Range(e.ext)
    BY <1>7
  <2>2. Signal(f, s, n) = IF x \in DOMAIN e.fields THEN mem[g.at[x]] ELSE Value(f, mem, Actual(s, x))
    BY <1>1, <2>1 DEF Signal
  <2>3. /\ Code(v) = e /\ v.path = p /\ x \notin DOMAIN Literal
        /\ DOMAIN v.names = Begins(e) \cup Range(e.ins) \cup Range(e.ext)
        /\ \A k \in Range(e.ins) \cup Range(e.ext) : v.names[k] = Value(f, mem, Actual(s, k))
    BY <1>2, <1>8, <2>1 DEF Meant
  <2>4. CASE x \in DOMAIN e.fields
    <3>1. Read(fields, v, x) = fields[Field(p, x)]
      BY <2>3, <2>4 DEF Read
    <3> QED
      BY <1>4, <1>5, <2>1, <2>2, <2>4, <3>1
  <2>5. CASE x \notin DOMAIN e.fields
    <3>1. Read(fields, v, x) = v.names[x]
      BY <2>1, <2>3, <2>5 DEF Read
    <3> QED
      BY <2>1, <2>2, <2>3, <2>5, <3>1
  <2> QED
    BY <2>4, <2>5
<1> QED
  BY <1>1, <1>4, <1>5, <1>6, <1>9

(* Entering a call leaves the fields agreeing.                             *)
LEMMA EntryFields ==
  ASSUME NEW fs, NEW vs, NEW fields, NEW f, NEW s, NEW v, Enters(fs, vs, fields, f, s, v),
         NEW m2, EntryMemory(f, s, m2), NEW t, Pushed(t, fs, Frame(f, s)), Owned(t, 1),
         NEW now, now = AfterResets(fields, v)
  PROVE  FieldsAgree(t, m2, now) /\ DOMAIN now = DOMAIN fields /\ Map(now)
<1>1. PICK g, M, e, p : g = Frame(f, s) /\ M = DOMAIN mem /\ e = Callee(s) /\ p = CallPath(f, s)
  OBVIOUS
<1>2. /\ StackOK(domain, fs, M) /\ Covers(fields, M) /\ FieldsAgree(fs, mem, fields)
      /\ CanEnter(f, s, M) /\ Code(v) = e /\ v.path = p
  BY <1>1 DEF Enters, Beside, Same, Meant
<1>3. /\ \A n \in DOMAIN e.reset :
              /\ Read(fields, v, e.reset[n]) = Signal(f, s, n)
              /\ Field(p, n) \in DOMAIN fields /\ fields[Field(p, n)] = mem[Field(p, n)]
      /\ \A n \in DOMAIN e.fields : g.at[n] = Field(p, n)
  BY <1>1, SignalsMean
<1>4. WorldReset(fields, v, p, e, now)
  BY <1>2, <1>3, AfterResetsIs DEF Fresh
<1>5. /\ DOMAIN now = DOMAIN fields /\ Map(now)
      /\ \A n \in DOMAIN e.reset :
           now[Field(p, n)] = IF Signal(f, s, n) # 0 THEN e.fields[n] ELSE mem[Field(p, n)]
      /\ \A a \in DOMAIN fields : (\A n \in DOMAIN e.reset : a # Field(p, n)) => now[a] = fields[a]
  BY <1>3, <1>4 DEF WorldReset
<1>6. /\ Code(g) = e /\ DOMAIN e.reset \subseteq DOMAIN e.fields /\ Prefilled(e) \subseteq Writable(g)
      /\ Prefilled(e) \cap DOMAIN e.fields = {}
  <2>1. /\ Code(g) = e /\ DOMAIN e.reset \subseteq DOMAIN e.fields /\ Prefilled(e) \subseteq Writable(g)
        /\ Prefilled(e) \cap (DOMAIN e.fields \cup Range(e.ins) \cup Range(e.ext)) = {}
    BY <1>1, <1>2, EntryNames
  <2> QED
    BY <2>1
<1>7. /\ \A n \in DOMAIN e.reset :
           m2[g.at[n]] = IF Signal(f, s, n) # 0 THEN e.fields[n] ELSE mem[g.at[n]]
      /\ \A a \in M : m2[a] # mem[a] => \E n \in DOMAIN e.reset \cup Prefilled(e) : a = g.at[n]
  BY <1>1 DEF EntryMemory
<1>8. /\ Len(fs) \in Nat /\ t[1] = g /\ Len(t) = Len(fs) + 1 /\ \A i \in 1 .. Len(fs) : t[i + 1] = fs[i]
  BY <1>1, <1>2 DEF Pushed, StackOK
<1>9. ASSUME NEW a \in DOMAIN fields
      PROVE  m2[a] = now[a] \/ \E j \in 2 .. Len(t) : Lends(t[j], a)
  <2>1. a \in M /\ a.area = "state"
    BY <1>2 DEF Covers
  <2>2. CASE \E n \in DOMAIN e.reset : a = Field(p, n)
    BY <1>3, <1>5, <1>6, <1>7, <2>2
  <2>3. CASE ~ \E n \in DOMAIN e.reset : a = Field(p, n)
    <3>1. now[a] = fields[a]
      BY <1>5, <2>3
    <3>2. CASE m2[a] = mem[a]
      <4>1. CASE mem[a] = fields[a]
        BY <3>1, <3>2, <4>1
      <4>2. CASE \E j \in 2 .. Len(fs) : Lends(fs[j], a)
        <5>1. PICK j \in 2 .. Len(fs) : Lends(fs[j], a)
          BY <4>2
        <5>2. j + 1 \in 2 .. Len(t) /\ t[j + 1] = fs[j]
          BY <1>8
        <5> QED
          BY <5>1, <5>2
      <4> QED
        BY <1>2, <4>1, <4>2 DEF FieldsAgree
    <3>3. CASE m2[a] # mem[a]
      <4>1. PICK n \in DOMAIN e.reset \cup Prefilled(e) : a = g.at[n]
        BY <1>7, <2>1, <3>3
      <4>2. n \in Prefilled(e) /\ n \in Writable(g) /\ n \notin DOMAIN e.fields
        BY <1>3, <1>6, <2>3, <4>1
      <4>3. g.at[n].area = "stack" \/ Own(g, n) \/ \E j \in 1 + 1 .. Len(t) : Lends(t[j], g.at[n])
        BY <1>8, <4>2 DEF Owned
      <4>4. ~Own(g, n)
        BY <1>6, <4>2 DEF Own
      <4> QED
        BY <2>1, <4>1, <4>3, <4>4
    <3> QED
      BY <3>2, <3>3
  <2> QED
    BY <2>2, <2>3
<1> QED
  BY <1>5, <1>9 DEF FieldsAgree

(* The calls that were there see what they saw.                            *)
LEMMA CallersKeep ==
  ASSUME NEW fs, NEW vs, NEW fields, NEW f, NEW s, NEW v, Enters(fs, vs, fields, f, s, v),
         NEW g, g = Frame(f, s), NEW m2, EntryMemory(f, s, m2), \A j \in DOMAIN fs : Apart(g, fs[j]),
         NEW j \in DOMAIN fs
  PROVE  Twins(fs[j], vs[j]) /\ NamesAgree(fs[j], vs[j], m2, Targets(Statement(fs[j])))
<1>1. PICK h, u, e, S, m : /\ h = fs[j] /\ u = vs[j] /\ e = Callee(s) /\ S = Targets(Statement(h))
                           /\ m = mem
  OBVIOUS
<1>2. /\ StackOK(domain, fs, DOMAIN m) /\ Same(fs, vs, m, fields) /\ CanEnter(f, s, DOMAIN m)
  BY <1>1 DEF Enters, Beside
<1>3. Twins(h, u) /\ NamesAgree(h, u, m, Pending(fs, j))
  BY <1>1, <1>2 DEF Same
<1>4. NamesAgree(h, u, m, S)
  <2>1. Pending(fs, j) \subseteq S
    BY <1>1 DEF Pending
  <2> QED
    BY <1>3, <2>1 DEF NamesAgree
<1>5. Reaches(h, DOMAIN m)
  BY <1>1, <1>2, PathsAre
<1>6. DOMAIN e.reset \cup Prefilled(e) \subseteq Writable(g)
  BY <1>1, <1>2, EntryNames
<1>7. \A a \in DOMAIN m : m2[a] # m[a] => \E n \in Writable(g) : a = g.at[n]
  BY <1>1, <1>6 DEF EntryMemory
<1>8. Apart(g, h)
  BY <1>1
<1>9. NamesAgree(h, u, m2, S)
  BY <1>1, <1>3, <1>4, <1>5, <1>7, <1>8, OthersKeep
<1> QED
  BY <1>1, <1>3, <1>9

(* A call that is entered, beside its meaning.                             *)
LEMMA EnteredSame ==
  ASSUME NEW fs, NEW vs, NEW fields, NEW f, NEW s, NEW v, Enters(fs, vs, fields, f, s, v),
         NEW left, NEW m2, m2 = Entered(f, s, left, mem),
         NEW t, Pushed(t, fs, Frame(f, s)), NEW us, Pushed(us, vs, v),
         NEW now, now = AfterResets(fields, v)
  PROVE  Same(t, us, m2, now) /\ Map(now) /\ Covers(now, DOMAIN m2) /\ Map(m2)
<1>1. PICK g, M, M2 : g = Frame(f, s) /\ M = DOMAIN mem /\ M2 = DOMAIN m2
  OBVIOUS
<1>2. /\ CodeInv /\ StackOK(domain, fs, M) /\ Covers(fields, M) /\ Same(fs, vs, mem, fields)
      /\ fs # <<>> /\ f = fs[1] /\ CanEnter(f, s, M) /\ Meant(f, s, v)
  BY <1>1 DEF Enters, Beside
<1>3. Calling(f, s) /\ Reaches(f, M) /\ Struct(domain) \subseteq M
  BY <1>2 DEF CanEnter
<1>4. EntryMemory(f, s, m2)
  BY <1>1, <1>2, EntryIs
<1>5. M2 = M \cup Made(f, s)
  <2>1. PICK m : m = mem /\ DOMAIN m = M /\ m2 = Entered(f, s, left, m)
    BY <1>1
  <2>2. DOMAIN Entered(f, s, left, m) = M \cup Made(f, s)
    BY <1>2, <1>3, <2>1, EntryMakes
  <2> QED
    BY <1>1, <2>1, <2>2
<1>6. Pushed(t, fs, g)
  BY <1>1
<1>7. StackOK(domain, t, M2)
  <2>1. M \subseteq M2 /\ Made(f, s) \subseteq M2
    BY <1>5
  <2> QED
    BY <1>1, <1>2, <1>3, <2>1, CallOK
<1>8. /\ Len(fs) \in Nat /\ DOMAIN fs = 1 .. Len(fs)
      /\ t[1] = g /\ Len(t) = Len(fs) + 1 /\ \A i \in 1 .. Len(fs) : t[i + 1] = fs[i]
      /\ DOMAIN t = 1 .. Len(t) /\ Len(t) \in Nat
  BY <1>2, <1>6 DEF Pushed, StackOK
<1>9. /\ Len(vs) = Len(fs) /\ us[1] = v /\ us \in Seq(Range(us)) /\ Len(us) = Len(t)
      /\ \A i \in 1 .. Len(fs) : us[i + 1] = vs[i]
  <2>1. Len(vs) = Len(fs)
    BY <1>2 DEF Same
  <2> QED
    BY <1>8, <2>1 DEF Pushed
<1>10. Owned(t, 1)
  <2>1. 1 \in DOMAIN t
    BY <1>8
  <2> QED
    BY <1>7, <2>1 DEF StackOK, FrameOK
<1>11. ASSUME NEW j \in DOMAIN fs PROVE Apart(g, fs[j])
  <2>1. 1 \in DOMAIN t /\ j + 1 \in DOMAIN t /\ 1 < j + 1 /\ t[j + 1] = fs[j]
    BY <1>8
  <2>2. Apart(t[1], t[j + 1])
    BY <1>7, <2>1 DEF StackOK
  <2> QED
    BY <1>8, <2>1, <2>2
<1>12. Twins(g, v) /\ NamesAgree(g, v, m2, {})
  BY <1>1, <1>2, <1>3, <1>4, EntryTwins
<1>13. FieldsAgree(t, m2, now) /\ DOMAIN now = DOMAIN fields /\ Map(now)
  BY <1>4, <1>10, EntryFields
<1>14. ASSUME NEW i \in DOMAIN t
       PROVE  Twins(t[i], us[i]) /\ NamesAgree(t[i], us[i], m2, Pending(t, i))
  <2>1. CASE i = 1
    BY <1>8, <1>9, <1>12, <2>1 DEF Pending
  <2>2. CASE i # 1
    <3>1. PICK j : j = i - 1 /\ j \in DOMAIN fs /\ i = j + 1
      BY <1>8, <2>2
    <3>2. t[i] = fs[j] /\ us[i] = vs[j]
      BY <1>8, <1>9, <3>1
    <3>3. Twins(fs[j], vs[j]) /\ NamesAgree(fs[j], vs[j], m2, Targets(Statement(fs[j])))
      BY <1>1, <1>4, <1>11, <3>1, CallersKeep
    <3>4. Pending(t, i) = Targets(Statement(fs[j]))
      BY <2>2, <3>2 DEF Pending
    <3> QED
      BY <3>2, <3>3, <3>4
  <2> QED
    BY <2>1, <2>2
<1>15. Same(t, us, m2, now)
  BY <1>9, <1>13, <1>14 DEF Same
<1>16. Covers(now, M2)
  <2>1. \A a \in Made(f, s) : a.area # "state"
    BY DEF Made, Local
  <2>2. DOMAIN now = {a \in M : a.area = "state"}
    BY <1>2, <1>13 DEF Covers
  <2>3. {a \in M2 : a.area = "state"} = {a \in M : a.area = "state"}
    BY <1>5, <2>1
  <2> QED
    BY <2>2, <2>3 DEF Covers
<1>17. Map(m2)
  BY <1>4 DEF EntryMemory
<1> QED
  BY <1>1, <1>13, <1>15, <1>16, <1>17

(* A call does what it means.                                              *)
LEMMA CallMeans ==
  ASSUME PointerInv, MeantInv, Call, code' = code, meant' = Turn(meant)
  PROVE  MeantInv'
<1>1. PICK f, s, u, fields : f = Head(frames) /\ s = Statement(f) /\ u = Head(meant.calls) /\ fields = meant.fields
  OBVIOUS
<1>2. frames # <<>> /\ f.pc # Done /\ s.op = "call"
  BY <1>1 DEF Call, Running
<1>3. AtStatement(f, s, u, fields)
  BY <1>1, <1>2 DEF AtStatement
<1>4. /\ CodeInv /\ f = frames[1] /\ Shaped(f) /\ Reaches(f, DOMAIN mem) /\ Distinct(f)
      /\ Twins(f, u) /\ Statement(u) = s /\ u.pc = f.pc
      /\ \A n \in Sources(s) : Read(fields, u, n) = Value(f, mem, n)
  BY <1>3, StatementMeans
<1>5. PICK left : mem' = Entered(f, s, left, mem)
  BY <1>1 DEF Call, Entered
<1>6. Triggered(f, s) /\ frames' = <<Frame(f, s)>> \o frames
  BY <1>1 DEF Call
<1>7. PICK fs, vs, m2, v, now, t, us, M :
        /\ fs = frames /\ vs = meant.calls /\ m2 = mem' /\ v = Callable(fields, u, s)
        /\ now = AfterResets(fields, v) /\ t = frames' /\ us = <<v>> \o vs /\ M = DOMAIN mem
  OBVIOUS
<1>8. Beside(fs, mem, vs, fields) /\ vs \in Seq(Range(vs)) /\ fs # <<>> /\ f = fs[1]
  BY <1>1, <1>2, <1>4, <1>7, RunningMeans
<1>9. Calling(f, s)
  BY <1>1, <1>2, <1>4 DEF Calling
<1>10. CanEnter(f, s, M)
  <2>1. StackOK(domain, fs, M) /\ MemOK(fs, M)
    BY <1>7, <1>8 DEF Beside
  <2>2. \A a \in M : ~(a.area = "stack" /\ a.path = CallPath(f, s))
    BY <1>8, <2>1, NoCellsYet
  <2>3. HasStruct(domain, f)
    <3>1. FrameOK(domain, frames, 1, M)
      BY <1>2, <1>7, RunningIs
    <3> QED
      BY <1>4, <3>1 DEF FrameOK
  <2>4. Struct(domain) \subseteq M
    BY <1>7 DEF PointerInv
  <2> QED
    BY <1>4, <1>7, <1>9, <2>2, <2>3, <2>4 DEF CanEnter
<1>11. SourcesAgree(f, s, u, fields)
  BY <1>4 DEF SourcesAgree
<1>12. Meant(f, s, v)
  BY <1>4, <1>7, <1>9, <1>11, CallableIs
<1>13. Enters(fs, vs, fields, f, s, v)
  BY <1>7, <1>8, <1>10, <1>12 DEF Enters
<1>14. Pushed(t, fs, Frame(f, s)) /\ Pushed(us, vs, v)
  <2>1. Joins(t, <<Frame(f, s)>>, fs) /\ Joins(us, <<v>>, vs)
    BY <1>6, <1>7 DEF Joins
  <2>2. fs \in Seq(Range(fs))
    BY <1>8 DEF Beside, StackOK
  <2> QED
    BY <1>8, <2>1, <2>2, StackPushed
<1>15. Same(t, us, m2, now) /\ Map(now) /\ Covers(now, DOMAIN m2) /\ Map(m2)
  BY <1>5, <1>7, <1>13, <1>14, EnteredSame
<1>16. Turn(meant) = [fields |-> now, calls |-> us]
  <2>1. Calls(fields, u, s)
    <3>1. s.trigger # NoName => Read(fields, u, s.trigger) = Value(f, mem, s.trigger)
      BY <1>2, <1>4 DEF Sources
    <3> QED
      BY <1>2, <1>6, <3>1 DEF Calls, Triggered, IsOn
  <2>2. u.pc # Done
    BY <1>2, <1>4
  <2> QED
    BY <1>1, <1>4, <1>7, <2>1, <2>2 DEF Turn
<1>17. MeantFor(t, m2, meant')
  <2>1. PICK w : w = meant' /\ w = [fields |-> now, calls |-> us]
    BY <1>16
  <2>2. w.fields = now /\ w.calls = us /\ w = [fields |-> w.fields, calls |-> w.calls]
    BY <2>1
  <2> QED
    BY <1>15, <2>1, <2>2 DEF MeantFor
<1> QED
  BY <1>7, <1>17, MeantKept

(* Between calls the world is the memory.                                  *)
LEMMA IdleMeans ==
  ASSUME NEW m, Map(m), \A a \in DOMAIN m : a.area = "state",
         NEW w, w = [fields |-> m, calls |-> <<>>]
  PROVE  MeantFor(<<>>, m, w)
<1>1. w.fields = m /\ w.calls = <<>> /\ w = [fields |-> w.fields, calls |-> w.calls]
  OBVIOUS
<1>2. Covers(m, DOMAIN m)
  BY DEF Covers
<1>3. <<>> \in Seq(Range(<<>>)) /\ Len(<<>>) = 0 /\ DOMAIN <<>> = {}
  OBVIOUS
<1>4. Same(<<>>, <<>>, m, m)
  BY <1>3 DEF Same, FieldsAgree
<1> QED
  BY <1>1, <1>2, <1>4 DEF MeantFor

-----------------------------------------------------------------------------
(* Every step keeps the agreement                                          *)

(* Between two calls of the host the fields hold what is meant.            *)
LEMMA IdleMeant ==
  ASSUME PointerInv, MeantInv, Idle
  PROVE  meant = [fields |-> mem, calls |-> <<>>] /\ Map(mem) /\ \A a \in DOMAIN mem : a.area = "state"
<1>1. PICK fs, m, fields, vs : /\ fs = frames /\ m = mem /\ fields = meant.fields /\ vs = meant.calls
                               /\ fs = <<>>
  BY DEF Idle
<1>2. /\ meant = [fields |-> fields, calls |-> vs] /\ Map(m) /\ Map(fields)
      /\ DOMAIN fields = {a \in DOMAIN m : a.area = "state"} /\ Same(fs, vs, m, fields)
  BY <1>1 DEF MeantInv, MeantFor, Covers
<1>3. \A a \in DOMAIN m : a.area = "state"
  BY <1>1, IdleCells
<1>4. vs = <<>> /\ \A a \in DOMAIN fields : m[a] = fields[a]
  <2>1. vs \in Seq(Range(vs)) /\ Len(vs) = 0
    BY <1>1, <1>2 DEF Same
  <2>2. \A a \in DOMAIN fields : m[a] = fields[a] \/ \E j \in 2 .. 0 : Lends(fs[j], a)
    BY <1>1, <1>2 DEF Same, FieldsAgree
  <2> QED
    BY <2>1, <2>2
<1>5. m = fields
  BY <1>2, <1>3, <1>4 DEF Map
<1> QED
  BY <1>1, <1>2, <1>3, <1>4, <1>5

(* And the other way round.                                                *)
LEMMA IdleAgain ==
  ASSUME code' = code, frames' = <<>>, Map(mem'), \A a \in DOMAIN mem' : a.area = "state",
         meant' = [fields |-> mem', calls |-> <<>>]
  PROVE  MeantInv'
<1>1. PICK m, w : m = mem' /\ w = meant'
  OBVIOUS
<1>2. MeantFor(<<>>, m, w)
  BY <1>1, IdleMeans
<1> QED
  BY <1>1, <1>2, MeantKept

(* The end of a call of the host does what it means.                       *)
LEMMA EndOfCallMeans ==
  ASSUME PointerInv, MeantInv, EndOfCall, meant' = Turn(meant)
  PROVE  MeantInv'
<1>1. PICK fs, m, fields, vs, f, u :
        /\ fs = frames /\ m = mem /\ fields = meant.fields /\ vs = meant.calls
        /\ f = Head(frames) /\ u = Head(vs)
  OBVIOUS
<1>2. Len(fs) = 1 /\ f.pc = Done /\ frames' = <<>> /\ mem' = m /\ code' = code /\ fs # <<>>
  <2>1. Len(frames) = 1 /\ Head(frames).pc = Done /\ frames' = <<>> /\ mem' = mem /\ code' = code
    BY DEF EndOfCall, Returns
  <2>2. fs # <<>>
    BY <1>1, <2>1
  <2> QED
    BY <1>1, <2>1, <2>2
<1>3. Len(vs) = 1 /\ u.pc = Done
  <2>1. Len(vs) = Len(fs) /\ Twins(f, u)
    BY <1>1, <1>2, RunningMeans
  <2> QED
    BY <1>2, <2>1, TwinCode
<1>4. /\ meant = [fields |-> fields, calls |-> vs] /\ Map(m) /\ Map(fields)
      /\ Covers(fields, DOMAIN m) /\ Same(fs, vs, m, fields)
  BY <1>1 DEF MeantInv, MeantFor
<1>5. meant' = [fields |-> fields, calls |-> <<>>]
  <2>1. Turn(meant) = [meant EXCEPT !.calls = <<>>]
    BY <1>1, <1>3 DEF Turn
  <2> QED
    BY <1>4, <2>1
<1>6. \A a \in DOMAIN m : a.area = "state"
  <2>1. MemOK(fs, DOMAIN m)
    BY <1>1 DEF PointerInv
  <2> QED
    BY <1>2, <2>1 DEF MemOK
<1>7. fields = m
  <2>1. DOMAIN fields = DOMAIN m
    BY <1>4, <1>6 DEF Covers
  <2>2. \A a \in DOMAIN fields : m[a] = fields[a]
    BY <1>2, <1>4 DEF Same, FieldsAgree
  <2> QED
    BY <1>4, <2>1, <2>2 DEF Map
<1> QED
  BY <1>2, <1>4, <1>5, <1>6, <1>7, IdleAgain

(* What the host writes is what it means.                                  *)
LEMMA AccessMeans ==
  ASSUME PointerInv, MeantInv, PointerInv', Access, meant' = [meant EXCEPT !.fields = mem']
  PROVE  MeantInv'
<1>1. frames' = <<>> /\ frames = <<>> /\ code' = code
  BY DEF Access, SetStateVar, RequestTransition, Idle
<1>2. meant = [fields |-> mem, calls |-> <<>>] /\ Map(mem)
  BY <1>1, IdleMeant DEF Idle
<1>3. meant' = [fields |-> mem', calls |-> <<>>]
  BY <1>2
<1>4. \A a \in DOMAIN mem' : a.area = "state"
  <2>1. MemOK(frames', DOMAIN mem')
    BY DEF PointerInv, MemOK
  <2> QED
    BY <1>1, <2>1 DEF MemOK
<1>5. Map(mem')
  <2>1. CASE \E w \in HostWrites : SetStateVar(w)
    <3>1. PICK w \in HostWrites : SetStateVar(w)
      BY <2>1
    <3>2. CASE mem' = mem
      BY <1>2, <3>2
    <3>3. CASE mem' # mem
      <4>1. PICK x, y : mem' = Over(x, y)
        BY <3>1, <3>3 DEF SetStateVar
      <4> QED
        BY <4>1 DEF Over, Map
    <3> QED
      BY <3>2, <3>3
  <2>2. CASE \E r \in HostRequests : RequestTransition(r)
    <3>1. PICK r \in HostRequests : RequestTransition(r)
      BY <2>2
    <3>2. PICK a, x : mem' = mem \/ mem' = [mem EXCEPT ![a] = x]
      BY <3>1 DEF RequestTransition
    <3> QED
      BY <1>2, <3>2 DEF Map
  <2> QED
    BY <2>1, <2>2 DEF Access
<1> QED
  BY <1>1, <1>3, <1>4, <1>5, IdleAgain

(* A domain function that the host calls has its instance, and no          *)
(* arguments.                                                              *)
LEMMA CallFunctionMeans ==
  ASSUME PointerInv, MeantInv, NEW function \in {"init", "process"}, CallFunction(function),
         meant' = Begun(function, mem)
  PROVE  MeantInv'
<1>1. frames = <<>> /\ frames' = Entry(function) /\ code' = code /\ mem' = mem
  BY DEF CallFunction, Idle
<1>2. PICK m, c, w : m = mem /\ c = CodeOf(function) /\ w = meant'
  OBVIOUS
<1>3. Map(m) /\ \A a \in DOMAIN m : a.area = "state"
  BY <1>1, <1>2, IdleMeant DEF Idle
<1>4. PICK f : f = [callable |-> function, path |-> <<>>, pc |-> Start(c),
                    at |-> [n \in DOMAIN c.fields |-> Field(<<>>, n)], val |-> <<>>]
  OBVIOUS
<1>5. PICK v : v = [callable |-> function, path |-> <<>>, pc |-> Start(c), names |-> <<>>]
  OBVIOUS
<1>6. PICK t, vs : t = <<f>> /\ vs = <<v>>
  OBVIOUS
<1>7. frames' = t /\ w = [fields |-> m, calls |-> vs]
  BY <1>1, <1>2, <1>4, <1>5, <1>6 DEF Entry, Begun
<1>8. /\ f.callable = function /\ f.path = <<>> /\ f.pc = Start(c) /\ f.val = <<>>
  BY <1>4
<1>9. /\ DOMAIN v = {"callable", "path", "pc", "names"} /\ v.callable = function /\ v.path = <<>>
      /\ v.pc = Start(c) /\ v.names = <<>>
  BY <1>5
<1>10. CodeInv /\ function \in DOMAIN code
  <2>1. CodeInv
    BY DEF PointerInv, CodeInv
  <2> QED
    BY <2>1, CodeIs
<1>11. GoodCode(c) /\ Code(f) = c
  BY <1>2, <1>8, <1>10, CodeIs DEF Code, CodeOf
<1>12. /\ c.outs = <<>> /\ c.ins = <<>> /\ c.ext = <<>> /\ c.starts = <<>> /\ c.terminate = NoName
       /\ c.kind = "Domain"
  BY <1>2, <1>10, CodeIs DEF DomainFunction, CodeOf
<1>13. /\ Range(c.outs) = {} /\ Range(c.ins) = {} /\ Range(c.ext) = {} /\ Locals(c) = {}
       /\ Prefilled(c) = {} /\ Names(f, v) = {} /\ DOMAIN f.val = {}
  <2>1. Range(<<>>) = {} /\ DOMAIN <<>> = {}
    BY DEF Range
  <2>2. Locals(c) = {}
    BY <1>12, <2>1 DEF Locals
  <2> QED
    BY <1>8, <1>9, <1>12, <2>1, <2>2 DEF Prefilled, Names
<1>14. NamesOK(f, v)
  <2>1. DOMAIN v.names = {}
    BY <1>13 DEF Names
  <2> QED
    BY <1>11, <1>13, <2>1 DEF NamesOK
<1>15. PlaceOK(f, v)
  <2>1. ASSUME f.pc # Done PROVE Knows(f, v, Known(c, f.pc))
    <3>1. f.pc = 1 /\ 1 .. 1 - 1 = {}
      BY <1>8, <2>1 DEF Start
    <3>2. Known(c, f.pc) = Given(c)
      BY <3>1 DEF Known
    <3>3. Given(c) \subseteq DOMAIN Literal \cup DOMAIN c.fields
      BY <1>13 DEF Given
    <3> QED
      BY <1>11, <3>2, <3>3 DEF Knows
  <2> QED
    BY <1>11, <1>12, <1>13, <2>1 DEF PlaceOK
<1>16. Twins(f, v) /\ NamesAgree(f, v, m, {})
  BY <1>8, <1>9, <1>13, <1>14, <1>15 DEF Twins, NamesAgree
<1>17. /\ Len(t) = 1 /\ t[1] = f /\ DOMAIN t = {1} /\ Len(vs) = 1 /\ vs[1] = v
       /\ vs \in Seq(Range(vs))
  <2>1. vs \in Seq({v}) /\ Len(vs) = 1 /\ vs[1] = v
    BY <1>6
  <2>2. vs \in Seq(Range(vs))
    BY <2>1 DEF Range
  <2> QED
    BY <1>6, <2>1, <2>2
<1>18. Same(t, vs, m, m)
  BY <1>16, <1>17 DEF Same, Pending, FieldsAgree
<1>19. Covers(m, DOMAIN m)
  BY <1>3 DEF Covers
<1>20. MeantFor(t, m, w)
  <2>1. w.fields = m /\ w.calls = vs /\ w = [fields |-> w.fields, calls |-> w.calls]
    BY <1>7
  <2> QED
    BY <1>3, <1>18, <1>19, <2>1 DEF MeantFor
<1> QED
  BY <1>1, <1>2, <1>7, <1>20, MeantKept

(* Memory holds what is meant when the domain is allocated.                *)
LEMMA AllocateMeans == BothAllocate => MeantInv
<1> SUFFICES ASSUME BothAllocate PROVE MeantInv
  OBVIOUS
<1>1. PICK m, w : m = mem /\ w = meant /\ w = [fields |-> m, calls |-> <<>>]
  BY DEF BothAllocate
<1>2. frames = <<>> /\ mem = Allocated[prog] /\ prog \in DOMAIN Programs /\ PointerInv
  BY AllocatePoints DEF BothAllocate, Allocate
<1>3. \A a \in DOMAIN m : a.area = "state"
  BY <1>1, <1>2, IdleCells DEF Idle
<1>4. Map(m)
  <2>1. PICK x, y : Allocated[prog] = Over(x, y)
    BY <1>2, Zenon DEF Allocated
  <2> QED
    BY <1>1, <1>2, <2>1 DEF Over, Map
<1>5. MeantFor(<<>>, m, w)
  BY <1>1, <1>3, <1>4, IdleMeans
<1> QED
  BY <1>1, <1>2, <1>5 DEF MeantInv

(* Every step of a call does what it means.                                *)
LEMMA StatementsMean ==
  ASSUME PointerInv, MeantInv, RunCall, meant' = Turn(meant)
  PROVE  MeantInv'
<1>1. CASE RunStatement
  <2>1. code' = code /\ Execute
    BY <1>1 DEF RunStatement
  <2> QED
    BY <2>1, AssignMeans, ResetMeans, CallMeans, PassByMeans, ReturnMeans DEF Execute
<1>2. CASE RunMachine
  BY <1>2, MachineMeans
<1>3. CASE EndOfCall
  BY <1>3, EndOfCallMeans
<1> QED
  BY <1>1, <1>2, <1>3 DEF RunCall

(* Every step does.                                                        *)
LEMMA BothStepMeans == PointerInv /\ MeantInv /\ PointerInv' /\ [BothStep]_both => MeantInv'
<1> SUFFICES ASSUME PointerInv, MeantInv, PointerInv', [BothStep]_both PROVE MeantInv'
  OBVIOUS
<1>1. CASE CallBoth
  BY <1>1, CallFunctionMeans DEF CallBoth
<1>2. CASE RunCall /\ meant' = Turn(meant)
  BY <1>2, StatementsMean
<1>3. CASE Access /\ meant' = [meant EXCEPT !.fields = mem']
  BY <1>3, AccessMeans
<1>4. CASE UNCHANGED both
  <2>1. code' = code /\ mem' = mem /\ frames' = frames /\ meant' = meant
    BY <1>4 DEF both, instance
  <2>2. MeantFor(frames', mem', meant')
    BY <2>1 DEF MeantInv
  <2> QED
    BY <2>1, <2>2, MeantKept
<1> QED
  BY <1>1, <1>2, <1>3, <1>4 DEF BothStep

(* What runs in lockstep is the domain.                                    *)
LEMMA BothIsAnInstance == MeaningSpec => InstanceSpec
<1>1. BothAllocate => Allocate
  BY DEF BothAllocate
<1>2. [BothStep]_both => [Step]_instance
  <2>1. CallBoth => CallDomain
    BY DEF CallBoth, CallDomain
  <2>2. UNCHANGED both => UNCHANGED instance
    BY DEF both
  <2> QED
    BY <2>1, <2>2 DEF BothStep, Step
<1> QED
  BY <1>1, <1>2, PTL DEF MeaningSpec, InstanceSpec

(* A call of a function, reaction or loop, whose arguments are pointers to *)
(* cells of its callers and whose instance is a struct of pointers, does   *)
(* to the fields what a call by value does: between two calls of the host, *)
(* each field of each instance holds what the calls mean                   *)
(* (functionast.cpp:1186, :1500, :1773).                                   *)
THEOREM CallsMeanWhatTheyDo == MeaningSpec => []CallsMatchTheirMeaning
<1>1. PointerInv /\ MeantInv => CallsMatchTheirMeaning
  BY IdleMeant DEF CallsMatchTheirMeaning
<1> QED
  BY <1>1, AllocateMeans, BothStepMeans, PointersHold, BothIsAnInstance, PTL DEF MeaningSpec
=============================================================================
