------------------------------ MODULE Callables ------------------------------
(***************************************************************************)
(* The code that FunctionAST and CallExprAST generate for the modules,     *)
(* loops and reactions of a program, run one statement at a time.          *)
(*                                                                         *)
(* Every argument is a pointer.  A name of a function stands for a cell    *)
(* (`at': an argument, a persistent field, a local with storage) or for a  *)
(* value (`val': a loop's own variables, which are phi nodes, and the      *)
(* intermediates of a chain of calls, which are loaded after the call that *)
(* writes them).  A call passes a cell of its own for what has none, and   *)
(* reads it back afterwards if it was an output.                           *)
(*                                                                         *)
(* The persistent fields of an instance lie in the struct of its caller,   *)
(* one child struct per call, so the calls that lead to it are its         *)
(* address; recursion does not exist.                                      *)
(*                                                                         *)
(* Not here: arrays and bundles, strings and platform functions (their     *)
(* values do not matter to who writes what), integer iterators.            *)
(***************************************************************************)
EXTENDS NameOrder, DomainCode

CONSTANTS
  Literal,      \* the numbers written in programs, by how they are written
  Word,         \* unsigned sums wrap here, as 2^32 does
  Leftovers     \* what a stack cell may hold before it is written

VARIABLES
  code,         \* the functions of the program that runs: they do not change
  mem,          \* cells to values
  frames        \* the calls that run, the innermost first

Done == 0

CodeOf(function) == code[function]
Code(f) == CodeOf(f.callable)
Statement(f) == Code(f).body[f.pc]
Start(c) == IF c.body = <<>> THEN Done ELSE 1

\* The value a name has in a frame over a memory.
Value(f, m, n) ==
  IF n \in DOMAIN Literal THEN Literal[n]
  ELSE IF n \in DOMAIN f.val THEN f.val[n]
  ELSE m[f.at[n]]

IsOn(f, m, n) == Value(f, m, n) # 0

Apply(op, a, b) ==
  CASE op = "add" -> (a + b) % Word
    [] op = "gt"  -> IF a > b THEN 1 ELSE 0
    [] op = "is"  -> a

-----------------------------------------------------------------------------
(***************************************************************************)
(* After a statement                                                       *)
(***************************************************************************)

\* ExprAST::writesTo: an assignment's target, or a call's outputs and
\* externals; nothing else counts.
WritesTo(s, n) ==
  \/ s.op = "set" /\ s.var = n
  \/ s.op = "reset" /\ n \in Range(s.vars)
  \/ s.op = "call" /\ n \in Range(s.outs) \cup Range(s.ext)

\* A terminateWhen switch is tested after the statements that write it; a
\* loop's also at the end of each turn, and nowhere else ends a loop.
Ends(f, m) ==
  LET c == Code(f)
      atEnd == f.pc = Len(c.body)
      on == c.terminate # NoName /\ IsOn(f, m, c.terminate)
  IN \/ on /\ WritesTo(Statement(f), c.terminate)
     \/ atEnd /\ (c.kind = "Loop" => on)

\* The frame goes on to its next statement, its next turn, or its end.
After(f, m) ==
  [f EXCEPT !.pc = IF Ends(f, m) THEN Done
                   ELSE IF f.pc = Len(Code(f).body) THEN 1 ELSE f.pc + 1]

\* The innermost frame has run a statement and is now f.
GoOn(f, m) ==
  /\ mem' = m
  /\ frames' = <<After(f, m)>> \o Tail(frames)

Running(op) ==
  /\ frames # <<>> /\ Head(frames).pc # Done
  /\ Statement(Head(frames)).op = op

-----------------------------------------------------------------------------
(***************************************************************************)
(* Statements                                                              *)
(***************************************************************************)

\* f's name n takes the value v: a store, or a new value of the name.
Write(f, m, n, v) ==
  IF n \in DOMAIN f.at THEN [m EXCEPT ![f.at[n]] = v] ELSE m
Bound(f, n, v) ==
  IF n \in DOMAIN f.at THEN f ELSE [f EXCEPT !.val = Over([x \in {n} |-> v], @)]

Assign ==
  /\ Running("set")
  /\ LET f == Head(frames)
         s == Statement(f)
         v == Apply(s.expr[1], Value(f, mem, s.expr[2]), Value(f, mem, s.expr[3]))
     IN GoOn(Bound(f, s.var, v), Write(f, mem, s.var, v))

\* ResetExprAST: a trigger written before a block sets it to its default.
Reset ==
  /\ Running("reset")
  /\ LET f == Head(frames)
         s == Statement(f)
     IN GoOn(f, IF IsOn(f, mem, s.cond)
                THEN Over([c \in {f.at[n] : n \in Range(s.vars)} |-> s.to], mem)
                ELSE mem)

-----------------------------------------------------------------------------
(***************************************************************************)
(* Calls                                                                   *)
(***************************************************************************)

Callee(s) == CodeOf(s.callee)
Parameters(c) == c.outs \o c.ins \o c.ext

\* The caller's name behind a parameter.
Actual(s, n) ==
  LET formals == Parameters(Callee(s))
  IN (s.outs \o s.ins \o s.ext)[CHOOSE i \in 1..Len(formals) : formals[i] = n]

\* A reaction runs if what comes before it in the stream is on.
Triggered(f, s) == s.trigger # NoName => IsOn(f, mem, s.trigger)

\* Parameters that get a cell of their own, and those of them that the
\* caller reads after the call.
ByTemporary(f, s) == {n \in Range(Parameters(Callee(s))) : Actual(s, n) \notin DOMAIN f.at}
ReadBack(f, s) == ByTemporary(f, s) \cap Range(Callee(s).outs)

CallPath(f, s) == Append(f.path, s.site)

\* The struct of the callee's instance, a child of the caller's.
ChildByName(f, s) ==
  Append(f.path, (CHOOSE t \in CallsIn(Code(f).body) : t.callee = s.callee).site)
Instance(f, s) == CallPath(f, s)

ArgumentCell(f, s, n) ==
  IF n \in ByTemporary(f, s) THEN Local(CallPath(f, s), n) ELSE f.at[Actual(s, n)]

\* What a temporary holds at the call.  An output that is no name yet is
\* zeroed; one that stands for a value gets a cell that nothing has written.
Passed(f, s, n, left) ==
  IF n \notin Range(Callee(s).outs) THEN Value(f, mem, Actual(s, n))
  ELSE IF Actual(s, n) \in DOMAIN f.val THEN left
  ELSE 0

Arguments(f, s, left) ==
  [c \in {Local(CallPath(f, s), n) : n \in ByTemporary(f, s)} |->
     Passed(f, s, c.name, left)]

\* A loop's own variables are values; other locals have storage, as what is
\* persistent or passed has.
Locals(c) == DOMAIN c.starts \ Range(c.outs)
Stored(c) == IF c.kind = "Loop" THEN {} ELSE Locals(c)
CellNames(c) == DOMAIN c.fields \cup Stored(c) \cup Range(Parameters(c))

Frame(f, s) ==
  LET c == Callee(s)
  IN [callable |-> s.callee, path |-> Instance(f, s), pc |-> Start(c),
      at  |-> [n \in CellNames(c) |->
                 IF n \in DOMAIN c.fields THEN Field(Instance(f, s), n)
                 ELSE IF n \in Stored(c) THEN Local(CallPath(f, s), n)
                 ELSE ArgumentCell(f, s, n)],
      val |-> [n \in Locals(c) \ Stored(c) |-> c.starts[n]]]

NeverReset(c, at, m) == m

\* At entry a field with a reset signal returns to its default if the signal
\* is on.  The fields come in the order of their names, and a signal is seen
\* if it is an argument or a field that came before.
FieldsReset(c, at, m) ==
  LET Seen(i) ==
        Range(Parameters(c)) \cup (DOMAIN c.fields \cap {Dictionary[j] : j \in 1..(i - 1)})
      IsReset(n, i, memory) ==
        /\ n \in DOMAIN c.fields \cap DOMAIN c.reset
        /\ c.reset[n] \in Seen(i) /\ memory[at[c.reset[n]]] # 0
      UpTo[i \in 0 .. Len(Dictionary)] ==
        IF i = 0 THEN m
        ELSE IF IsReset(Dictionary[i], i, UpTo[i - 1])
        THEN [UpTo[i - 1] EXCEPT ![at[Dictionary[i]]] = c.fields[Dictionary[i]]]
        ELSE UpTo[i - 1]
  IN UpTo[Len(Dictionary)]

\* Then the locals, or a loop's outputs, take their defaults.
Prefilled(c) == IF c.kind = "Loop" THEN DOMAIN c.starts \cap Range(c.outs) ELSE Locals(c)

LocalsSet(c, at, m) ==
  Over([a \in {at[n] : n \in Prefilled(c)} |->
          c.starts[CHOOSE n \in Prefilled(c) : at[n] = a]], m)

Call ==
  /\ Running("call")
  /\ LET f == Head(frames)
         s == Statement(f)
         new == Frame(f, s)
     IN /\ Triggered(f, s)
        /\ \E left \in Leftovers :
             mem' = LocalsSet(Callee(s), new.at,
                      FieldsReset(Callee(s), new.at, Over(Arguments(f, s, left), mem)))
        /\ frames' = <<new>> \o frames

\* The outputs without a cell take the values of their temporaries, and the
\* stack of the call is gone.
WithOutputs(f, s, m) ==
  [f EXCEPT !.val =
     Over([x \in {Actual(s, n) : n \in ReadBack(f, s)} |->
             m[Local(CallPath(f, s), CHOOSE n \in ReadBack(f, s) : Actual(s, n) = x)]], @)]

Without(path, m) ==
  [a \in {a \in DOMAIN m : ~(a.area = "stack" /\ a.path = path)} |-> m[a]]

\* f goes on after its call s, above the calls that led to it.
Returned(f, s, m, above) ==
  LET rest == Without(CallPath(f, s), m)
  IN /\ mem' = rest
     /\ frames' = <<After(WithOutputs(f, s, m), rest)>> \o above

PassBy ==
  /\ Running("call")
  /\ LET f == Head(frames)
         s == Statement(f)
     IN /\ ~Triggered(f, s)
        /\ \E left \in Leftovers :
             Returned(f, s, Over(Arguments(f, s, left), mem), Tail(frames))

Return ==
  /\ Len(frames) > 1 /\ Head(frames).pc = Done
  /\ Returned(frames[2], Statement(frames[2]), mem, Tail(Tail(frames)))

Execute == Assign \/ Reset \/ Call \/ PassBy \/ Return

\* The stack of a domain function that the host calls.
Entry(function) ==
  <<[callable |-> function, path |-> <<>>, pc |-> Start(CodeOf(function)),
     at |-> [n \in DOMAIN CodeOf(function).fields |-> Field(<<>>, n)], val |-> <<>>]>>

Returns == Len(frames) = 1 /\ Head(frames).pc = Done /\ frames' = <<>>
=============================================================================
