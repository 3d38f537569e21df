--------------------------- MODULE MCBufferParts ---------------------------
(* The resolution of a declaration, or the code of a buffer: one of them   *)
(* runs, and the other stays in an initial state.                          *)
EXTENDS MCBuffer, MCBufferSpec

VARIABLE part  \* "layout" or "ring"

AnyDeclaration == CHOOSE d \in Declarations : TRUE
AnyProgram == CHOOSE p \in Programs : TRUE

PartsInit ==
  \/ /\ part = "ring" /\ decl = AnyDeclaration
     /\ Init /\ Declared
  \/ /\ part = "layout" /\ program = AnyProgram /\ trigger = FALSE
     /\ Init /\ Declared

PartsNext ==
  \/ part = "ring" /\ Next /\ UNCHANGED <<layoutVars, part>>
  \/ part = "layout" /\ Resolve /\ UNCHANGED <<vars, part>>

PartsSpec == PartsInit /\ [][PartsNext]_<<vars, layoutVars, part>>
=============================================================================
