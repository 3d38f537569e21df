----------------------------- MODULE CallMeaning -----------------------------
(***************************************************************************)
(* What calls mean, without pointers, cells of the stack or temporaries: a *)
(* function gets the values of its inputs and externals, works on names of *)
(* its own, and gives back the values of its outputs and of the externals. *)
(* Every call in the program has an instance, which alone changes its      *)
(* persistent fields, and remembers them from tick to tick                 *)
(* (doc/code_geneartion.md).                                               *)
(*                                                                         *)
(* A world is the fields of all instances, and the calls that run, the     *)
(* innermost first: each has names with values, and is somewhere in its    *)
(* body.  A name that nothing has given a value is 0.                      *)
(***************************************************************************)
EXTENDS Callables

Read(fields, v, n) ==
  IF n \in DOMAIN Literal THEN Literal[n]
  ELSE IF n \in DOMAIN Code(v).fields THEN fields[Field(v.path, n)]
  ELSE IF n \in DOMAIN v.names THEN v.names[n]
  ELSE 0

\* The world after the innermost call has set some names, and goes on: it
\* ends as soon as its terminateWhen switch is on, or at the end of its
\* body, which a loop begins again.
PutFields(fields, v, values) ==
  Over([a \in {Field(v.path, n) : n \in DOMAIN values \cap DOMAIN Code(v).fields} |->
          values[a.name]], fields)

PutNames(v, values) ==
  [v EXCEPT !.names = Over([n \in DOMAIN values \ DOMAIN Code(v).fields |-> values[n]], @)]

GoneOn(fields, v) ==
  LET c == Code(v)
      atEnd == v.pc = Len(c.body)
      on == c.terminate # NoName /\ Read(fields, v, c.terminate) # 0
  IN [v EXCEPT !.pc = IF on \/ (atEnd /\ c.kind # "Loop") THEN Done
                      ELSE IF atEnd THEN 1 ELSE v.pc + 1]

Put(fields, v, rest, values) ==
  LET now == PutFields(fields, v, values)
  IN [fields |-> now, calls |-> <<GoneOn(now, PutNames(v, values))>> \o rest]

\* What a statement that is no call sets.  A machine takes the transition
\* asked for if it leaves the active state.
Effect(fields, v, s) ==
  IF s.op = "set"
  THEN [n \in {s.var} |-> Apply(s.expr[1], Read(fields, v, s.expr[2]),
                                           Read(fields, v, s.expr[3]))]
  ELSE IF s.op = "reset"
  THEN [n \in IF Read(fields, v, s.cond) # 0 THEN Range(s.vars) ELSE {} |-> s.to]
  ELSE LET asked == Read(fields, v, s.request)
           leaves == asked \in DOMAIN s.goes /\ s.goes[asked][1] = Read(fields, v, s.active)
       IN [n \in IF leaves THEN {s.active, s.request} ELSE {} |->
             IF n = s.request THEN 0 ELSE s.goes[asked][2]]

\* A call, if no trigger forbids it: the fields whose reset signal is on
\* return to their defaults before the body runs.
Calls(fields, v, s) ==
  s.op = "call" /\ (s.trigger # NoName => Read(fields, v, s.trigger) # 0)

Callable(fields, v, s) ==
  LET c == Callee(s)
  IN [callable |-> s.callee, path |-> Append(v.path, s.site), pc |-> Start(c),
      names |-> Over([n \in IF c.kind = "Loop" THEN DOMAIN c.starts ELSE Locals(c) |-> c.starts[n]],
                     [n \in Range(c.ins) \cup Range(c.ext) |-> Read(fields, v, Actual(s, n))])]

AfterResets(fields, v) ==
  LET c == Code(v)
  IN Over([a \in {Field(v.path, n) : n \in {n \in DOMAIN c.reset :
                                              Read(fields, v, c.reset[n]) # 0}} |->
             c.fields[a.name]], fields)

\* What a call v has for its caller's statement s.
Back(fields, v, s) ==
  [x \in Range(s.outs) \cup Range(s.ext) |->
     Read(fields, v, CHOOSE n \in Range(Code(v).outs) \cup Range(Code(v).ext) :
                       Actual(s, n) = x)]

\* One step of the innermost call.
Turn(w) ==
  LET v == Head(w.calls)
      s == Statement(v)
  IN IF v.pc = Done
     THEN IF Len(w.calls) = 1 THEN [w EXCEPT !.calls = <<>>]
          ELSE Put(w.fields, w.calls[2], Tail(Tail(w.calls)),
                   Back(w.fields, v, Statement(w.calls[2])))
     ELSE IF Calls(w.fields, v, s)
     THEN LET new == Callable(w.fields, v, s)
          IN [fields |-> AfterResets(w.fields, new), calls |-> <<new>> \o w.calls]
     ELSE Put(w.fields, v, Tail(w.calls),
              IF s.op = "call" THEN <<>> ELSE Effect(w.fields, v, s))

\* The world of a domain function that the host calls.
Begun(function, fields) ==
  [fields |-> fields,
   calls  |-> <<[callable |-> function, path |-> <<>>, pc |-> Start(CodeOf(function)),
                 names |-> <<>>]>>]
=============================================================================
