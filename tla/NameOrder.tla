------------------------------ MODULE NameOrder ------------------------------
(***************************************************************************)
(* The fields of a state struct are kept in a std::map by their names, and *)
(* both the generated code and the host's calls go through them in its     *)
(* order, whatever their order in the struct.                              *)
(***************************************************************************)
EXTENDS SequencesExt

CONSTANT Dictionary   \* all names of fields, in the order of std::map

FirstByName(ns) ==
  Dictionary[Min({i \in DOMAIN Dictionary : Dictionary[i] \in ns})]
=============================================================================
