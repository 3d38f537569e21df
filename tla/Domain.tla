-------------------------------- MODULE Domain --------------------------------
(***************************************************************************)
(* One instance of a domain: the state struct that allocateState fills     *)
(* with the defaults of the domain's fields and, in child structs, of all  *)
(* instances below it; <Domain>_init and <Domain>_process, which           *)
(* StrideGenerator::compile puts together from the program's streams,      *)
(* machines and declarations; and the host that calls them and, in         *)
(* between, reads and writes the fields.                                   *)
(*                                                                         *)
(* A machine is reduced to its requests (StateMachine has the rest), and   *)
(* buffers and segments to nothing (Buffer, RateSchedule, PhaseFields).    *)
(***************************************************************************)
EXTENDS CallRules, StateFields

CONSTANTS
  HostWrites,   \* what hosts pass to setStateVar: name, index, value
  HostRequests  \* and to requestTransition: a machine's name, a transition

\* A name contains itself, and names of fields are texts that can be told
\* from none.
ASSUME NamesAssumption ==
  /\ Dictionary \in Seq(Range(Dictionary)) /\ NotFound \notin Range(Dictionary)
  /\ \A n \in Range(Dictionary) : n \in Containing[n]

ASSUME HostAssumption ==
  /\ \A w \in HostWrites : w.index \in Nat \cup {NoIndex}
  /\ \A t \in DOMAIN Indexed : Indexed[t].index \in Nat

\* The struct of a domain has a field for each name, and no two fields have
\* an element in common (buildNodeState).
SeparateFields(d) ==
  /\ d.layout \in Seq(Range(d.layout))
  /\ FieldNames(d.layout) \subseteq Range(Dictionary)
  /\ \A x \in Range(d.layout) :
       /\ x.elements \in Seq(DOMAIN d.fields) \ {<<>>}
       /\ \A i, j \in DOMAIN x.elements : x.elements[i] = x.elements[j] => i = j
  /\ \A i, j \in DOMAIN d.layout :
       \/ i = j
       \/ /\ d.layout[i].name # d.layout[j].name
          /\ Range(d.layout[i].elements) \cap Range(d.layout[j].elements) = {}

\* A machine's request field is named for it, and nothing else is named so.
RequestFields(d) ==
  /\ \A i \in DOMAIN d.machines :
       /\ d.machines[i].request \in Containing[d.machines[i].name]
       /\ d.machines[i].request \in DOMAIN d.fields
  /\ FieldNames(d.layout) \cap Requests =
       {d.machines[i].request : i \in DOMAIN d.machines}

\* What init restores are fields, each once, and to a number.
RestoredFields(d) ==
  /\ d.onInit \in Seq(Range(d.onInit))
  /\ d.machines \in Seq(Range(d.machines)) /\ d.declared \in Seq(Range(d.declared))
  /\ \A i \in DOMAIN Restores(d) : Restores(d)[i].var \in DOMAIN d.fields
  /\ \A i, j \in DOMAIN Restores(d) : Restores(d)[i].var = Restores(d)[j].var => i = j
  /\ \A n \in Range(d.declared) : d.default[n] \in DOMAIN Literal
  /\ \A i \in DOMAIN d.machines : d.machines[i].initial \in DOMAIN Literal

ASSUME LayoutsAssumption ==
  \A p \in DOMAIN Programs :
    LET d == Programs[p]
    IN SeparateFields(d) /\ RequestFields(d) /\ RestoredFields(d)

VARIABLES
  prog,         \* the program's name
  last          \* what the host called last

instance == <<prog, code, mem, frames, last>>

-----------------------------------------------------------------------------
Allocate ==
  /\ prog \in DOMAIN Programs /\ code = Functions[prog]
  /\ mem = Allocated[prog]
  /\ frames = <<>> /\ last = "allocate"

domain == Programs[prog]

Idle == frames = <<>>

\* The host calls a domain function, in any order: an allocated struct
\* holds the defaults.
CallFunction(function) ==
  /\ Idle
  /\ frames' = Entry(function)
  /\ last' = function
  /\ UNCHANGED <<prog, code, mem>>

\* A machine looks at the request when the streams are done.
RunMachine ==
  /\ Running("machine")
  /\ LET f == Head(frames)
         s == Statement(f)
         asked == Value(f, mem, s.request)
         leaves == asked \in DOMAIN s.goes /\ s.goes[asked][1] = Value(f, mem, s.active)
     IN GoOn(f, IF leaves
                THEN [mem EXCEPT ![f.at[s.active]] = s.goes[asked][2], ![f.at[s.request]] = 0]
                ELSE mem)
  /\ UNCHANGED <<prog, code, last>>

RunStatement ==
  /\ Execute
  /\ UNCHANGED <<prog, code, last>>

EndOfCall ==
  /\ Returns
  /\ UNCHANGED <<prog, code, mem, last>>

\* setStateVar: nothing happens if no name contains the text.
SetStateVar(w) ==
  /\ Idle
  /\ IF Found(domain.layout, Base(w.name)) = NotFound
     THEN mem' = mem
     ELSE LET e == SetElement(domain.layout, w.name, w.index)
             spilled == [a \in {Field(<<>>, x) : x \in Spilled(domain.layout, e)} |-> 0]
          IN mem' = Over([a \in {Field(<<>>, e)} |-> w.value], Over(spilled, mem))
  /\ last' = "write"
  /\ UNCHANGED <<prog, code, frames>>

RequestTransition(r) ==
  /\ Idle
  /\ LET n == RequestField(domain.layout, r.machine)
     IN mem' = IF n = NotFound THEN mem ELSE [mem EXCEPT ![Field(<<>>, n)] = r.transition]
  /\ last' = "request"
  /\ UNCHANGED <<prog, code, frames>>

CallDomain == \E function \in {"init", "process"} : CallFunction(function)
RunCall == RunStatement \/ RunMachine \/ EndOfCall
Access ==
  \/ \E w \in HostWrites : SetStateVar(w)
  \/ \E r \in HostRequests : RequestTransition(r)

Step == CallDomain \/ RunCall \/ Access

InstanceSpec == Allocate /\ [][Step]_instance

-----------------------------------------------------------------------------
(***************************************************************************)
(* Properties                                                              *)
(***************************************************************************)

\* Whatever ticks, calls and host accesses went before, <Domain>_init leaves
\* each declared block at its default and each machine in its initial state,
\* even one that an onInit stream has written (StrideGenerator::compile,
\* stridegenerator.cpp:358-359).
InitRestoresDeclared ==
  Idle /\ last = "init" =>
    /\ \A n \in Range(domain.declared) : mem[Field(<<>>, n)] = Literal[domain.default[n]]
    /\ \A i \in DOMAIN domain.machines :
         mem[Field(<<>>, domain.machines[i].active)] = Literal[domain.machines[i].initial]

\* A host that names a field exactly and stays in its bounds changes that
\* element only, and reads back what it wrote, if the field is not a 16-bit
\* one; a name that no field contains changes nothing (setStateVar,
\* getStateVar).
NamesElement(w) ==
  \E d \in Range(domain.layout) :
    d.name = Base(w.name) /\ Index(w.name, w.index) < Len(d.elements) /\ ~d.narrow

HostTouchesOneField ==
  [][\A w \in HostWrites : SetStateVar(w) =>
       /\ NamesElement(w) =>
            LET e == FieldOf(domain.layout, Base(w.name)).elements[Index(w.name, w.index) + 1]
            IN /\ \A a \in DOMAIN mem \ {Field(<<>>, e)} : mem'[a] = mem[a]
               /\ Got(domain.layout, [x \in DOMAIN domain.fields |-> mem'[Field(<<>>, x)]],
                      Base(w.name), Index(w.name, w.index)) = w.value
       /\ FieldNames(domain.layout) \cap Containing[Base(w.name)] = {} => mem' = mem]_instance

\* A transition that a host requests of a machine is requested of that
\* machine, if no other machine's name contains its name
\* (requestTransition, findFieldByFunctionality).
Unambiguous(r) ==
  \E i \in DOMAIN domain.machines :
    /\ domain.machines[i].name = r.machine
    /\ \A j \in DOMAIN domain.machines \ {i} :
         domain.machines[j].request \notin Containing[r.machine]

RequestsReachTheirMachine ==
  [][\A r \in HostRequests : RequestTransition(r) /\ Unambiguous(r) =>
       \A i \in DOMAIN domain.machines :
         LET field == Field(<<>>, domain.machines[i].request)
         IN mem'[field] = IF domain.machines[i].name = r.machine
                          THEN r.transition ELSE mem[field]]_instance

\* An instance's fields are its own, an instance being what the calls that
\* led to it make: a step of generated code changes a field only if a
\* statement of that instance writes it, which runs or waits for a call that
\* got the field as an argument, or if it resets it at the entry of a call
\* of the instance; and no step takes a field away (FunctionAST's codegen,
\* CallExprAST's codegen, buildNodeState).
SitesTo(i) == [k \in 1 .. Len(frames) - i |-> Statement(frames[Len(frames) - k + 1]).site]

WritesField(i, a) ==
  /\ a.path = SitesTo(i)
  /\ frames[i].pc # Done /\ a.name \in Targets(Statement(frames[i]))

EntryResets(a) ==
  /\ Running("call")
  /\ LET s == Statement(Head(frames))
     IN a.path = Append(SitesTo(1), s.site) /\ a.name \in DOMAIN Callee(s).reset

InstancesApart ==
  [][RunCall => \A a \in DOMAIN mem :
       a.area = "state" =>
         /\ a \in DOMAIN mem'
         /\ mem'[a] # mem[a] => EntryResets(a) \/ \E i \in DOMAIN frames : WritesField(i, a)]_instance
=============================================================================
