----------------------------- MODULE StateFields -----------------------------
(***************************************************************************)
(* How a host reaches a domain's fields: StrideEnvironment's getStateVar,  *)
(* setStateVar and requestTransition.  They look for the field's name, then*)
(* for any name that contains it, the first in the order of the names, and *)
(* machines' fields are found by the end of their name and by containing   *)
(* the machine's.                                                          *)
(*                                                                         *)
(* A layout is the sequence of the struct's fields, each with its elements *)
(* (one, but for arrays).  Elements are taken to be of one width, except   *)
(* that 16-bit ones are written with 32.                                   *)
(***************************************************************************)
EXTENDS Integers, NameOrder

CONSTANTS
  Containing,   \* the names that contain a text, for each text asked for
  Indexed,      \* what a name with an index in brackets refers to
  Requests      \* the names that end as a machine's request field does

NotFound == "not found"

FieldNames(layout) == {d.name : d \in Range(layout)}

FirstOf(ns) ==
  IF ns = {} THEN NotFound ELSE FirstByName(ns)

\* The field a text names.
Found(layout, text) ==
  IF text \in FieldNames(layout) THEN text
  ELSE FirstOf(FieldNames(layout) \cap Containing[text])

\* setStateVar reads an index in the name if it is given none; getStateVar
\* does not.
NoIndex == -1
Base(text) == IF text \in DOMAIN Indexed THEN Indexed[text].base ELSE text
Index(text, index) ==
  IF index # NoIndex THEN index
  ELSE IF text \in DOMAIN Indexed THEN Indexed[text].index
  ELSE 0

Elements(layout) == FlattenSeq([i \in DOMAIN layout |-> layout[i].elements])

Place(layout, e) == CHOOSE i \in DOMAIN Elements(layout) : Elements(layout)[i] = e

FieldOf(layout, n) == CHOOSE d \in Range(layout) : d.name = n

\* The element that many elements from the start of an array (which has
\* several): no bound is checked, and past the last one lies the next field.
\* Other fields have no index.
IsArray(layout, n) == Len(FieldOf(layout, n).elements) > 1
ElementAt(layout, n, index) ==
  Elements(layout)[Place(layout, FieldOf(layout, n).elements[1])
                   + IF IsArray(layout, n) THEN index ELSE 0]

\* What getStateVar returns, by its name and index arguments.
Got(layout, values, text, index) ==
  values[ElementAt(layout, Found(layout, text), IF index = NoIndex THEN 0 ELSE index)]

\* The elements that setStateVar writes: a 32-bit store in a 16-bit field
\* also writes the next one, if it is as narrow.
Spilled(layout, e) ==
  LET i == Place(layout, e)
      Narrow(j) == \E d \in Range(layout) : d.narrow /\ Elements(layout)[j] \in Range(d.elements)
  IN IF Narrow(i) /\ i < Len(Elements(layout)) /\ Narrow(i + 1)
     THEN {Elements(layout)[i + 1]} ELSE {}

FirstElement(layout, text, index) ==
  ElementAt(layout, Found(layout, Base(text)), 0)
SetElement(layout, text, index) ==
  ElementAt(layout, Found(layout, Base(text)), Index(text, index))

\* requestTransition's field of a machine.
AnyFieldOf(layout, machine) ==
  FirstOf(FieldNames(layout) \cap Containing[machine])
RequestField(layout, machine) ==
  FirstOf(FieldNames(layout) \cap Requests \cap Containing[machine])
=============================================================================
