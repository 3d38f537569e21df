--------------------------- MODULE MCStateMachine ---------------------------
(* A machine of three levels: 1 holds 2 and 7, 2 holds 3 and 6, 3 holds 4  *)
(* and 5.  2 and 3 resume their last state.                                *)
EXTENDS StateMachine

MCParent == <<0, 1, 2, 3, 3, 2, 1>>
MCInitialState == <<2, 3, 4, 0, 0, 0, 0>>
MCResume == {2, 3}

\* 1 >> 6, 2 >> 7, 4 >> 5, 5 >> 2 (around it), 6 >> 4, 7 >> 2 and 7 >> 3.
MCOwner == <<1, 2, 4, 5, 6, 7, 7>>
MCTarget == <<6, 7, 5, 2, 4, 2, 3>>
MCOn == <<"stop", "request", "go", "go", "guard", "request", "go">>
MCGuarded == {1, 5, 7}
MCGenerator == [t \in 1 .. 7 |-> IF t = 6 THEN {1, 3} ELSE {}]
=============================================================================
