------------------------------- MODULE MCDomain -------------------------------
(***************************************************************************)
(* Four small programs for TLC.                                            *)
(***************************************************************************)
EXTENDS DomainMeaning

MCLiteral == "0" :> 0 @@ "1" :> 1 @@ "2" :> 2 @@ "3" :> 3

MCDictionary ==
  <<"Again", "Clear", "Count", "Go", "In", "Level", "Other", "Out",
    "Starts", "Table[0]", "Table[1]", "Table", "Total", "Wide", "Zero",
    "__Door2_active", "__Door2_request", "__Door_active", "__Door_request">>

Set(x, op, a, b) == [op |-> "set", var |-> x, expr |-> <<op, a, b>>]
Invoke(callee, site, outs, ins, ext, trigger) ==
  [op |-> "call", callee |-> callee, site |-> site, outs |-> outs, ins |-> ins,
   ext |-> ext, trigger |-> trigger]

Module(outs, ins, ext, fields, reset, starts, body) ==
  [kind |-> "Module", outs |-> outs, ins |-> ins, ext |-> ext, fields |-> fields,
   reset |-> reset, starts |-> starts, terminate |-> NoName, body |-> body]

\* Adds its input to a total that a port clears, and counts the sums; the
\* count starts again when it has been told to itself.
Accumulate ==
  Module(<<"Sum">>, <<"By", "Clear">>, <<>>,
         "Total" :> 0 @@ "Count" :> 1 @@ "Again" :> 0,
         "Total" :> "Clear" @@ "Count" :> "Again", <<>>,
         <<Set("Total", "add", "Total", "By"),
           Set("Again", "gt", "Count", "1"),
           Set("Count", "add", "Count", "1"),
           Set("Sum", "add", "Total", "Count")>>)

\* Two instances in each of two, and what passes between them is no block
\* of the module.
Twice ==
  Module(<<"Result">>, <<"By", "Clear">>, <<>>, <<>>, <<>>, "Half" :> 1,
         <<Invoke("Accumulate", "first", <<"Between">>, <<"By", "Clear">>, <<>>, NoName),
           Set("Half", "add", "Half", "Between"),
           Invoke("Accumulate", "second", <<"Result">>, <<"Half", "0">>, <<>>, NoName)>>)

Layout(ns) == [i \in DOMAIN ns |-> [name |-> ns[i], elements |-> <<ns[i]>>, narrow |-> FALSE]]

Chains ==
  [fields |-> "In" :> 1 @@ "Clear" :> 0 @@ "Out" :> 0 @@ "Other" :> 0,
   default |-> "In" :> "1" @@ "Clear" :> "0" @@ "Out" :> "0",
   declared |-> <<"In", "Clear", "Out">>, triggers |-> <<"Clear">>,
   layout |-> Layout(<<"In", "Clear", "Out", "Other">>),
   machines |-> <<>>, onInit |-> <<>>,
   streams |-> <<Invoke("Twice", "left", <<"Out">>, <<"In", "Clear">>, <<>>, NoName),
                 Invoke("Twice", "right", <<"Other">>, <<"Out", "0">>, <<>>, NoName)>>,
   callables |-> "Accumulate" :> Accumulate @@ "Twice" :> Twice]

\* A loop that calls a module with state on each turn.
Repeat ==
  [kind |-> "Loop", outs |-> <<"Sum", "Turns">>, ins |-> <<"Limit">>, ext |-> <<>>,
   fields |-> <<>>, reset |-> <<>>,
   starts |-> "Step" :> 0 @@ "Stop" :> 0 @@ "Sum" :> 1 @@ "Part" :> 0,
   terminate |-> "Stop",
   body |-> <<Set("Step", "add", "Step", "1"),
              Invoke("Remember", "each", <<"Part">>, <<"Step">>, <<>>, NoName),
              Set("Sum", "add", "Sum", "Part"),
              Set("Turns", "is", "Step", "Step"),
              Set("Stop", "gt", "Step", "Limit")>>]

Remember ==
  Module(<<"Kept">>, <<"New">>, <<>>, "Total" :> 0, <<>>, <<>>,
         <<Set("Kept", "is", "Total", "Total"), Set("Total", "add", "Total", "New")>>)

\* A loop that leaves in the middle of a turn, when the module it calls
\* writes its switch.
Until ==
  [kind |-> "Loop", outs |-> <<"Sum">>, ins |-> <<>>, ext |-> <<>>,
   fields |-> <<>>, reset |-> <<>>, starts |-> "Stop" :> 0 @@ "Sum" :> 0,
   terminate |-> "Stop",
   body |-> <<Invoke("Reached", "test", <<"Stop">>, <<"Sum">>, <<>>, NoName),
              Set("Sum", "add", "Sum", "2")>>]

Reached == Module(<<"Enough">>, <<"Value">>, <<>>, <<>>, <<>>, <<>>,
                  <<Set("Enough", "gt", "Value", "1")>>)

Loops ==
  [fields |-> "In" :> 1 @@ "Level" :> 0 @@ "Out" :> 0 @@ "Count" :> 0 @@ "Total" :> 0,
   default |-> "In" :> "1" @@ "Out" :> "3",
   declared |-> <<"In", "Out">>, triggers |-> <<>>,
   layout |-> Layout(<<"In", "Level", "Out", "Count", "Total">>),
   machines |-> <<>>, onInit |-> <<Set("Out", "is", "2", "2")>>,
   streams |-> <<Set("Level", "is", "In", "In"),
                 Invoke("Repeat", "loop", <<"Out", "Count">>, <<"Level">>, <<>>, NoName),
                 Invoke("Until", "until", <<"Total">>, <<>>, <<>>, NoName)>>,
   callables |-> "Repeat" :> Repeat @@ "Remember" :> Remember
                 @@ "Until" :> Until @@ "Reached" :> Reached]

\* Runs if its trigger is on, changes a block of the domain, and stops early.
React ==
  [kind |-> "Reaction", outs |-> <<"Note">>, ins |-> <<>>, ext |-> <<"Level">>,
   fields |-> <<>>, reset |-> <<>>, starts |-> "Stop" :> 0 @@ "Old" :> 2,
   terminate |-> "Stop",
   body |-> <<Set("Old", "add", "Old", "Level"),
              Invoke("Remember", "own", <<"Level">>, <<"Old">>, <<>>, NoName),
              Set("Note", "is", "1", "1"),
              Set("Stop", "gt", "Level", "1"),
              Set("Note", "add", "Note", "1")>>]

Reactions ==
  [fields |-> "Go" :> 0 @@ "Again" :> 0 @@ "Level" :> 0 @@ "Out" :> 0 @@ "Starts" :> 0,
   default |-> "Go" :> "0" @@ "Level" :> "0" @@ "Out" :> "0",
   declared |-> <<"Go", "Level", "Out">>, triggers |-> <<"Go">>,
   layout |-> Layout(<<"Go", "Again", "Level", "Out", "Starts">>),
   machines |-> <<>>,
   onInit |-> <<Set("Starts", "add", "Starts", "1"), Set("Level", "is", "Starts", "Starts")>>,
   streams |-> <<[op |-> "reset", cond |-> "Go", vars |-> <<"Out">>, to |-> 0],
                 Invoke("React", "now", <<"Noted">>, <<>>, <<"Level">>, "Go"),
                 Set("Out", "add", "Out", "Noted"),
                 Invoke("React", "later", <<"Out">>, <<>>, <<"Level">>, "Again"),
                 Set("Again", "is", "Go", "Go")>>,
   callables |-> "React" :> React @@ "Remember" :> Remember]

\* Two machines, one with a name that contains the other's, an array, and
\* two 16-bit fields side by side.
MachineOf(n, active, request) ==
  [op |-> "machine", name |-> n, active |-> active, request |-> request,
   initial |-> "1", goes |-> <<<<1, 2>>, <<2, 1>>>>]

Machines ==
  [fields |-> "Wide" :> 0 @@ "Zero" :> 0 @@ "Table[0]" :> 0 @@ "Table[1]" :> 0 @@ "Level" :> 0
              @@ "__Door_active" :> 1 @@ "__Door_request" :> 0
              @@ "__Door2_active" :> 1 @@ "__Door2_request" :> 0,
   default |-> "Level" :> "0", declared |-> <<"Level">>, triggers |-> <<>>,
   layout |-> <<[name |-> "Wide", elements |-> <<"Wide">>, narrow |-> TRUE],
                [name |-> "Zero", elements |-> <<"Zero">>, narrow |-> TRUE],
                [name |-> "Table", elements |-> <<"Table[0]", "Table[1]">>, narrow |-> FALSE]>>
              \o Layout(<<"Level", "__Door_active", "__Door_request",
                          "__Door2_active", "__Door2_request">>),
   machines |-> <<MachineOf("Door", "__Door_active", "__Door_request"),
                  MachineOf("Door2", "__Door2_active", "__Door2_request")>>,
   onInit |-> <<>>,
   streams |-> <<Set("Level", "add", "Table[0]", "Table[1]")>>,
   callables |-> <<>>]

MCPrograms ==
  [chains |-> Chains, loops |-> Loops, reactions |-> Reactions, machines |-> Machines]

MCContaining ==
  [t \in Range(MCDictionary) |-> {t}] @@
  "Door" :> {"__Door_active", "__Door_request", "__Door2_active", "__Door2_request"} @@
  "Door2" :> {"__Door2_active", "__Door2_request"} @@
  "Tab" :> {"Table"} @@ "Nothing" :> {}

MCIndexed == "Table[1]" :> [base |-> "Table", index |-> 1]
MCRequests == {"__Door_request", "__Door2_request"}

MCHostWrites ==
  [name : {"In", "Clear", "Go", "Wide", "Tab", "Table[1]", "Nothing"},
   index : {NoIndex}, value : {0, 1}] \cup
  [name : {"Table"}, index : {1, 2}, value : {1}]

MCHostRequests == [machine : {"Door", "Door2"}, transition : {1, 2}]
=============================================================================
