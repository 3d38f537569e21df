------------------------------ MODULE MCBuffer ------------------------------
(* Tick programs for the runs of Buffer.                                   *)
EXTENDS Buffer

Steps ==
  \* One push a tick; the reaction after it or before it; a peek; and the
  \* trigger switch written before or after the push.
  {<<"push", "react">>, <<"react", "push">>, <<"push", "peek", "react">>,
   <<"write", "push", "react">>, <<"push", "react", "write">>,
   \* Several streams push in one tick, or one runs faster than the domain.
   <<"push", "push", "react">>, <<"write", "push", "peek", "push", "react">>}

AllPrograms ==
  {p \in [block : {"none", "switch", "trigger"}, steps : Steps] :
     p.block = "none" => \A i \in DOMAIN p.steps : p.steps[i] # "write"}

PeekingProgram == {[block |-> "none", steps |-> <<"push", "peek", "react">>]}
=============================================================================
