---------------------------- MODULE DomainMeaning ----------------------------
(***************************************************************************)
(* A domain beside what its calls mean: `meant' is the world that they     *)
(* make, call by call and statement by statement.                          *)
(***************************************************************************)
EXTENDS Domain, CallMeaning

VARIABLE meant

both == <<instance, meant>>

BothAllocate == Allocate /\ meant = [fields |-> mem, calls |-> <<>>]

CallBoth ==
  \E function \in {"init", "process"} :
    CallFunction(function) /\ meant' = Begun(function, mem)

BothStep ==
  \/ CallBoth
  \/ RunCall /\ meant' = Turn(meant)
  \/ Access /\ meant' = [meant EXCEPT !.fields = mem']

MeaningSpec == BothAllocate /\ [][BothStep]_both

\* A call of a function, reaction or loop, which gets pointers to cells of its
\* callers and a struct of its own, does to every instance's fields what a
\* call by value means, however calls nest and whatever the host does between
\* them: when no call runs, each field holds what the calls so far mean
\* (processArgGroup, FunctionAST's codegen, CallExprAST's codegen).
CallsMatchTheirMeaning == Idle => meant = [fields |-> mem, calls |-> <<>>]
=============================================================================
