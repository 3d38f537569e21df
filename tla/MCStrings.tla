----------------------------- MODULE MCStrings -----------------------------
(* Strings of up to MaxLength of a few bytes, cut at short delimiters.     *)
EXTENDS StringRuntime

CONSTANTS MaxLength, MaxDelim

MCBytes == {Space, Open, Close, 65}
MCSources == {Null} \cup UNION {[1 .. n -> MCBytes] : n \in 0 .. MaxLength}
MCDelims == {Null} \cup UNION {[1 .. n -> {Space, 65}] : n \in 0 .. MaxDelim}
MCTexts == [src : MCSources, delim : MCDelims]

\* Results are followed for one text of each length.
MCFollowed ==
  {[src |-> [i \in 1 .. n |-> 65], delim |-> [i \in 1 .. k |-> 65]] :
     n \in {1, 3}, k \in 0 .. 1}
=============================================================================
