------------------------------ MODULE CallRules ------------------------------
(***************************************************************************)
(* The programs considered: those whose calls fit the functions they call. *)
(* Most of it the compiler reports (a name it does not know, a function it *)
(* does not know, numberexprast.cpp:91, functionast.cpp:1401), or presumes *)
(* (arguments are taken by position, functionast.cpp:1044; state structs   *)
(* nest as calls do, stridecompiler.cpp:1024).  What it neither reports    *)
(* nor presumes is that no call passes a variable to be written and once   *)
(* more: the function then works on one cell under two names, and what it  *)
(* does is not what a call by value means.                                 *)
(***************************************************************************)
EXTENDS Callables

\* What a statement writes, and what it reads.
Targets(s) ==
  IF s.op = "set" THEN {s.var}
  ELSE IF s.op = "reset" THEN Range(s.vars)
  ELSE IF s.op = "call" THEN Range(s.outs) \cup Range(s.ext)
  ELSE {s.active, s.request}

Sources(s) ==
  IF s.op = "set" THEN {s.expr[2], s.expr[3]}
  ELSE IF s.op = "reset" THEN {s.cond}
  ELSE IF s.op = "call"
  THEN Range(s.ins) \cup Range(s.ext) \cup ({s.trigger} \ {NoName})
  ELSE {s.active, s.request}

\* What has a value before the first statement, in every call.
Given(c) ==
  DOMAIN Literal \cup DOMAIN c.fields \cup Range(c.ins) \cup Range(c.ext)
  \cup Locals(c) \cup Prefilled(c)

Conditional(s) == s.op = "call" /\ s.trigger # NoName

\* What has a value after a statement whether or not its condition held.
SurelySet(c, s) ==
  IF s.op = "reset" THEN {}
  ELSE IF Conditional(s) THEN Targets(s) \ Range(c.outs)
  ELSE Targets(s)

\* What has a value before statement i.
Known(c, i) == Given(c) \cup UNION {SurelySet(c, c.body[j]) : j \in 1 .. i - 1}

Lists(c) ==
  /\ c.body \in Seq(Range(c.body))
  /\ c.outs \in Seq(Range(c.outs)) /\ c.ins \in Seq(Range(c.ins)) /\ c.ext \in Seq(Range(c.ext))

\* A name is an argument, a field, a local or a number, and inputs are not
\* written.
OneMeaningPerName(c) ==
  /\ \A i, j \in DOMAIN Parameters(c) : Parameters(c)[i] = Parameters(c)[j] => i = j
  /\ Range(Parameters(c)) \cap (DOMAIN c.fields \cup Locals(c)) = {}
  /\ DOMAIN c.fields \cap Locals(c) = {}
  /\ DOMAIN Literal \cap (CellNames(c) \cup Locals(c)) = {}
  /\ \A s \in Range(c.body) : Targets(s) \cap (DOMAIN Literal \cup Range(c.ins)) = {}

\* Calls pass as many arguments as the function has, none of them twice if
\* it is written, and blocks for its externals.
CallsFit(F, c, s) ==
  /\ s.callee \in DOMAIN F /\ F[s.callee].kind # "Domain"
  /\ LET d == F[s.callee]
     IN Len(s.outs) = Len(d.outs) /\ Len(s.ins) = Len(d.ins) /\ Len(s.ext) = Len(d.ext)
  /\ s.outs \in Seq(Range(s.outs)) /\ s.ins \in Seq(Range(s.ins)) /\ s.ext \in Seq(Range(s.ext))
  /\ \A i, j \in DOMAIN (s.outs \o s.ext) : (s.outs \o s.ext)[i] = (s.outs \o s.ext)[j] => i = j
  /\ Range(s.ins) \cap Targets(s) = {}
  /\ Range(s.ext) \subseteq CellNames(c)

\* Nothing is read before it is set.  A call that a trigger may forbid is
\* the first to set the intermediates it gives.
StatementsFit(F, c) ==
  \A i \in DOMAIN c.body :
    LET s == c.body[i]
    IN /\ s.op \in {"set", "reset", "call", "machine"}
       /\ Sources(s) \subseteq Known(c, i)
       /\ s.op = "reset" => Range(s.vars) \subseteq CellNames(c)
       /\ s.op = "machine" => {s.active, s.request} \subseteq DOMAIN c.fields
       /\ s.op = "call" => CallsFit(F, c, s)
       /\ Conditional(s) =>
            \A n \in Range(s.outs) \ CellNames(c) : c.kind # "Loop" /\ n \notin Known(c, i)

\* Wherever a function ends, its outputs are set; the switch that ends it
\* is one of its own and begins off.
Ending(c) ==
  /\ \A i \in 0 .. Len(c.body) :
       \/ i = Len(c.body)
       \/ i > 0 /\ c.terminate # NoName /\ c.terminate \in Targets(c.body[i])
       => Range(c.outs) \subseteq Known(c, i + 1)
  /\ \/ c.terminate = NoName
     \/ c.terminate \in Locals(c) \cup Prefilled(c) /\ c.starts[c.terminate] = 0

\* A reset signal is an argument, or a field that is reset before the
\* fields that depend on it and by nothing itself.
ResetsFit(c) ==
  /\ DOMAIN c.reset \subseteq DOMAIN c.fields
  /\ \A n \in DOMAIN c.reset :
       /\ n \in Range(Dictionary) /\ c.reset[n] \notin DOMAIN c.reset
       /\ \/ c.reset[n] \in Range(c.ins) \cup Range(c.ext)
          \/ /\ c.reset[n] \in DOMAIN c.fields
             /\ \A i \in DOMAIN Dictionary :
                  Dictionary[i] = n => \E j \in 1 .. i - 1 : Dictionary[j] = c.reset[n]

\* No function calls itself, through whatever others.
NoRecursion(callables) ==
  \E rank \in [DOMAIN callables -> 0 .. Cardinality(DOMAIN callables) - 1] :
    \A k \in DOMAIN callables : \A s \in CallsIn(callables[k].body) :
      rank[s.callee] < rank[k]

\* Each function of a domain, init and process among them, is one whose
\* calls fit.
ASSUME CallsAssumption ==
  \A p \in DOMAIN Programs :
    LET F == Functions[p]
    IN /\ IsFiniteSet(DOMAIN Programs[p].callables)
       /\ {"init", "process"} \cap DOMAIN Programs[p].callables = {}
       /\ NoRecursion(Programs[p].callables)
       /\ Programs[p].streams \in Seq(Range(Programs[p].streams))
       /\ Programs[p].triggers \in Seq(Range(Programs[p].triggers))
       /\ Programs[p].machines \in Seq(Range(Programs[p].machines))
       /\ \A i \in DOMAIN Programs[p].machines : Programs[p].machines[i].op = "machine"
       /\ \A k \in DOMAIN F :
            /\ F[k].kind = "Domain" <=> k \in {"init", "process"}
            /\ Lists(F[k]) /\ OneMeaningPerName(F[k]) /\ StatementsFit(F, F[k])
            /\ Ending(F[k]) /\ ResetsFit(F[k])
=============================================================================
