-------------------------------- MODULE Once --------------------------------
(***************************************************************************)
(* What <Domain>_load promises its callers: the domain's onLoad streams    *)
(* run once per program, and no call returns before they are done.         *)
(***************************************************************************)
CONSTANT Callers

VARIABLES
  ran,      \* "no", "running" or "yes"
  calling   \* the callers inside the call

vars == <<ran, calling>>

Init == ran = "no" /\ calling = {}

Call(c) ==
  /\ c \notin calling
  /\ calling' = calling \cup {c}
  /\ UNCHANGED ran

Start ==
  /\ ran = "no" /\ calling # {}
  /\ ran' = "running"
  /\ UNCHANGED calling

\* The call that ran the streams returns with them.
Finish(c) ==
  /\ ran = "running" /\ c \in calling
  /\ ran' = "yes"
  /\ calling' = calling \ {c}

Return(c) ==
  /\ ran = "yes" /\ c \in calling
  /\ calling' = calling \ {c}
  /\ UNCHANGED ran

Next == Start \/ \E c \in Callers : Call(c) \/ Finish(c) \/ Return(c)

Safety == Init /\ [][Next]_vars

Fairness ==
  /\ WF_vars(Start) /\ WF_vars(\E c \in Callers : Finish(c))
  /\ \A c \in Callers : WF_vars(Return(c))

Spec == Safety /\ Fairness
=============================================================================
