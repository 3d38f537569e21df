------------------------------ MODULE DomainCode ------------------------------
(***************************************************************************)
(* What is fixed when a program has been generated: the functions of its   *)
(* domain, <Domain>_init and <Domain>_process, beside those of its         *)
(* modules, loops and reactions, and the state struct of the domain with   *)
(* a child struct for each instance below it.                              *)
(*                                                                         *)
(* A function is a record: its kind, the names of its outputs, inputs and  *)
(* externals, its persistent fields with their defaults and reset signals  *)
(* (only modules have any; loops and reactions hold their callees'),       *)
(* `starts' (what its locals, and a loop's outputs, hold at each call), the*)
(* switch that ends it, and its body.  A statement assigns, resets names   *)
(* when a condition is on, calls a function (at a site, whose name no      *)
(* other call of the function has), or runs a machine.                     *)
(***************************************************************************)
EXTENDS Integers, FiniteSets, SequencesExt, TLC

CONSTANT Programs   \* the declarations of a set of programs, by name

NoName == ""

\* A cell of an instance's struct, or of a call's stack, in the instance
\* that a path of call sites leads to.
Field(path, n) == [area |-> "state", path |-> path, name |-> n]
Local(path, n) == [area |-> "stack", path |-> path, name |-> n]

\* A memory with some cells written, and any function over another.
Over(cells, memory) ==
  [a \in DOMAIN cells \cup DOMAIN memory |->
     IF a \in DOMAIN cells THEN cells[a] ELSE memory[a]]

-----------------------------------------------------------------------------
(***************************************************************************)
(* The functions of a domain                                               *)
(***************************************************************************)

SetTo(n, literal) == [op |-> "set", var |-> n, expr |-> <<"is", literal, literal>>]

Settings(ns, to) == [i \in DOMAIN ns |-> SetTo(ns[i], to[ns[i]])]

DomainFunction(d, body) ==
  [kind |-> "Domain", outs |-> <<>>, ins |-> <<>>, ext |-> <<>>,
   fields |-> d.fields, reset |-> <<>>, starts |-> <<>>, terminate |-> NoName,
   body |-> body]

\* The streams, then the machines, then the triggers turn off.
ProcessBody(d) ==
  d.streams \o d.machines \o [i \in DOMAIN d.triggers |-> SetTo(d.triggers[i], "0")]

\* The onInit streams, the machines' initial states, and the defaults of
\* the blocks that are declared in the domain with one.
MachineStarts(d) == [i \in DOMAIN d.machines |-> SetTo(d.machines[i].active, d.machines[i].initial)]
Restores(d) == MachineStarts(d) \o Settings(d.declared, d.default)
RestoresFirst(d) == Restores(d) \o d.onInit
InitBody(d) == d.onInit \o Restores(d)

Functions ==
  [p \in DOMAIN Programs |->
     LET d == Programs[p]
     IN Over([process |-> DomainFunction(d, ProcessBody(d)),
              init    |-> DomainFunction(d, InitBody(d))], d.callables)]

\* buildNodeState: an instance for every call of a function's body, in the
\* struct of the caller's instance.  Functions do not call themselves, so no
\* instance is deeper than there are functions.
CallsIn(body) == {s \in Range(body) : s.op = "call"}

InstancesIn(d, path, body) == {<<Append(path, s.site), s.callee>> : s \in CallsIn(body)}

Instances(d) ==
  LET Depth[n \in 0 .. Cardinality(DOMAIN d.callables)] ==
        IF n = 0 THEN InstancesIn(d, <<>>, d.streams \o d.onInit)
        ELSE UNION {InstancesIn(d, i[1], d.callables[i[2]].body) : i \in Depth[n - 1]}
  IN UNION {Depth[n] : n \in 0 .. Cardinality(DOMAIN d.callables)}

OwnCells(d) == {Field(<<>>, n) : n \in DOMAIN d.fields}
InstanceCells(d) ==
  UNION {{Field(i[1], n) : n \in DOMAIN d.callables[i[2]].fields} : i \in Instances(d)}

\* getDefaultConstant: what allocateState copies.
Allocated ==
  [p \in DOMAIN Programs |->
     LET d == Programs[p]
     IN Over([a \in OwnCells(d) |-> d.fields[a.name]],
             [a \in InstanceCells(d) |->
                d.callables[(CHOOSE i \in Instances(d) : i[1] = a.path)[2]].fields[a.name]])]
=============================================================================
