--------------------------- MODULE MCPhaseFields ---------------------------
(* Chains of up to MaxLength signals, with one rate or several.            *)
EXTENDS PhaseFields

CONSTANTS MCRates, MaxLength

MCChains == UNION {[1 .. n -> MCRates] : n \in 2 .. MaxLength}
=============================================================================
