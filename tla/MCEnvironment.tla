--------------------------- MODULE MCEnvironment ---------------------------
(* Programs of up to three streams: one fills C, one fills D, and one      *)
(* shows D or writes C again.  They are as different as their reads, the   *)
(* places they run at and what they call make them.                        *)
EXTENDS Environment

MCConstants == {"C", "D"}
MCSignals == {"In", "Out"}
MCDomains == <<"A", "B">>

Stream(id, at, reads, to, host) ==
  [id |-> id, at |-> at, reads |-> reads, inner |-> {}, to |-> to,
   host |-> host, keeps |-> FALSE, edge |-> {}]

ShowsD == Stream(3, Process, {"D"}, "Out", FALSE)
FillsC == {Stream(1, at, reads, "C", FALSE) :
             at \in {Process, "A", "B"}, reads \in {{}, {"In"}, {"D"}}}
HostsC == {Stream(1, at, {}, "C", TRUE) : at \in {Process, "A", "B"}}
FillsD == {Stream(2, at, reads, "D", FALSE) :
             at \in {Process, "A"}, reads \in {{}, {"C"}}}
\* Bodies that read D, which the host may fill; a module that keeps state.
AnyD == {Stream(2, at, {}, "D", host) : at \in {Process, "A"}, host \in BOOLEAN}
CallsC == {[Stream(1, at, {}, "C", FALSE) EXCEPT !.inner = {"D"}] :
             at \in {Process, "A"}}
CountsC == {[Stream(1, at, {}, "C", FALSE) EXCEPT !.keeps = TRUE] :
              at \in {Process, "A"}}
\* An element of C, negative, is an index.
Steps == [ShowsD EXCEPT !.edge = {"C"}]

Of(A, B, C) == {<<p[1], p[2], p[3]>> : p \in A \X B \X C}
\* A fill that is shown; one of a program that imports.
Shown == <<Stream(1, "A", {}, "C", FALSE), Stream(2, Process, {"C"}, "Out", FALSE)>>
Importer == <<Stream(1, "A", {}, "C", FALSE)>>
Imported == <<Stream(2, "A", {}, "C", FALSE)>>
Edited == <<Stream(3, "A", {}, "C", FALSE)>>

MCPrograms ==
  Of(FillsC \cup HostsC, FillsD, {ShowsD})
  \cup Of({s \in FillsC : s.reads = {}}, FillsD, {Stream(3, Process, {}, "C", FALSE)})
  \cup Of(AnyD, CallsC, {ShowsD})
  \cup Of(CountsC, FillsD, {ShowsD}) \cup Of({Shown[1]}, FillsD, {Steps})
  \cup {Shown, Importer}
MCEdits == {Edited, Imported}
MCImporting == {Importer, Imported}
MCFollowed == {Shown, Importer}
MCLater == {o \in Options : o.evaluate /\ o.caching = "objects"}
MCPrimary == [p \in Texts |-> IF p = Imported THEN Importer ELSE p]
Replacements == Permutations(Libraries)
=============================================================================
