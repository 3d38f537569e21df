---------------------------- MODULE MCBufferSpec ----------------------------
(* Every combination of properties with sizes up to MaxSize, and, for the  *)
(* divisions that the layout takes, capacities that are not multiples of   *)
(* the hop.                                                                *)
EXTENDS BufferSpec

CONSTANT MaxSize

Sizes == {Unset, NotConstant} \cup 0 .. MaxSize

MCDeclarations ==
  [capacity    : Sizes \cup {-1},
   frameSize   : Sizes,
   hop         : Sizes,
   mode        : {Unset, "Sliding", "Fifo"},
   triggerMode : {Unset, "Full", "Half", "Quarter", "Periodic", "Unknown"},
   trigger     : {Unset, "switch", "signal"},
   readOnly    : BOOLEAN]

\* All but the declarations whose frame and hop both come out as 0.
DefinedLayouts == {d \in MCDeclarations : ~DividesByZero(d)}
=============================================================================
