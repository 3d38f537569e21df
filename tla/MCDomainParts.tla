---------------------------- MODULE MCDomainParts ----------------------------
(* What a domain's functions do to its instances, or its load: one of them *)
(* runs, and the other stays in an initial state.                          *)
EXTENDS MCDomain, DomainLoad

VARIABLE part  \* "calls" or "load"

AnyProgram == CHOOSE p \in DOMAIN Programs : TRUE

PartsInit ==
  \/ part = "calls" /\ BothAllocate /\ Init
  \/ part = "load" /\ prog = AnyProgram /\ BothAllocate /\ Init

PartsNext ==
  \/ part = "calls" /\ BothStep /\ UNCHANGED <<vars, part>>
  \/ part = "load" /\ Next /\ UNCHANGED <<both, part>>

PartsSpec ==
  /\ PartsInit /\ [][PartsNext]_<<both, vars, part>>
  /\ \A t \in Threads : WF_vars(InCall(t))
=============================================================================
