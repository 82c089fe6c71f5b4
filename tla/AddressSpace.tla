---------------------------- MODULE AddressSpace ----------------------------
(***************************************************************************)
(* The data manager of the interface partition keeps a variable of the     *)
(* OPC UA server for every entry of the samples it reads from one source:  *)
(* it creates the variables of the first sample (population), and then     *)
(* goes through every sample entry by entry (update).  The coroutines of   *)
(* the two sources are the same code over different objects; this is one.  *)
(*                                                                         *)
(* A sample is a sequence of entries, the order of the JSON object.  The   *)
(* value of an entry is the entry's name and the number of the sample.     *)
(***************************************************************************)
EXTENDS Naturals, Sequences

CONSTANTS Names,        \* names of the entries: keys of the JSON object
          Grouped,      \* the names with a ":", which have a place in the space
          Types,        \* varTypes
          Convertible,  \* the varTypes that _convert_value knows
          Samples,      \* samples the source may deliver
          Unbound,      \* of a local variable that has no value yet
          NoNode,       \* None in the list of variables
          MaxSample     \* bound: later samples share the last number

Entry == [name : Names, type : Types]

ASSUME SpaceAssumption ==
    /\ Grouped \subseteq Names /\ Convertible \subseteq Types
    /\ Samples \subseteq Seq(Entry)
    /\ \A s \in Samples : \A j, k \in 1 .. Len(s) :
           s[j].name = s[k].name => j = k
    /\ MaxSample \in Nat

\* A value carries whose it is, the number of its sample and its type.
Value == [of : Names, no : Nat, type : Types]

ASSUME NullAssumption == Unbound \notin Value /\ NoNode \notin Value

VARIABLES
    phase,      \* "populate", "wait" (for a text) or "pass" (over the entries)
    sample,     \* opcua_values
    no,         \* number of the sample
    i,          \* index of the entry the pass is at
    listed,     \* names in opcua_variables
    node,       \* node[n]: value of the variable, NoNode when n has none
    local,      \* value and varType of the update coroutine
    born        \* names the current pass added to opcua_variables

vars == <<phase, sample, no, i, listed, node, local, born>>

Init ==
    /\ phase = "populate" /\ sample = <<>> /\ no = 0 /\ i = 1
    /\ listed = {} /\ node = [n \in Names |-> NoNode]
    /\ local = Unbound /\ born = {}

ValueOf(e, v) == [of |-> e.name, no |-> v, type |-> e.type]

\* Mutant: a name without object is put in the list, too.
PlacedAll(s) == 1 .. Len(s)

\* The entries _create_opcua_objects makes a list item of.
Placed(s) == {k \in 1 .. Len(s) : s[k].name \in Grouped}

NextNumber == IF no < MaxSample THEN no + 1 ELSE no

-----------------------------------------------------------------------------
(* create_opcua_population: a text that does not decode, or a sample of    *)
(* which nothing was created, is tried again.                              *)

Populate(s) ==
    /\ phase = "populate"
    /\ no' = NextNumber
    /\ listed' = {s[k].name : k \in Placed(s)}
    /\ node' = [n \in Names |->
                   IF \E k \in Placed(s) : s[k].name = n /\ s[k].type \in Convertible
                   THEN ValueOf(s[CHOOSE k \in Placed(s) : s[k].name = n], no')
                   ELSE NoNode]
    /\ phase' = IF Placed(s) = {} THEN "populate" ELSE "wait"
    /\ UNCHANGED <<sample, i, local, born>>

-----------------------------------------------------------------------------
(* update_population_from_opcua_shm, from the decoded text on.             *)

BeginPass == i' = 1 /\ born' = {} /\ phase' = "pass"

\* A new sample; an empty one leaves nothing to do.
Decode(s) ==
    /\ phase = "wait"
    /\ sample' = s /\ no' = NextNumber
    /\ IF s = <<>> THEN UNCHANGED <<i, born, phase>> ELSE BeginPass
    /\ UNCHANGED <<listed, node, local>>

\* The segment is empty or does not decode: the values of the last sample that
\* did are still in opcua_values and are gone through again.
Reapply ==
    /\ phase = "wait" /\ sample # <<>>
    /\ BeginPass
    /\ UNCHANGED <<sample, no, listed, node, local>>

Here(e) == phase = "pass" /\ e = sample[i]

Advance ==
    /\ i' = i + 1
    /\ phase' = IF i = Len(sample) THEN "wait" ELSE "pass"

\* The exception is caught outside the loop over the entries.
Abort == i' = i /\ phase' = "wait"

\* set_value of an entry in the list.  Without a node, or with a varType that
\* _convert_value does not know, it raises; with a type other than the
\* variable's the server of asyncua may refuse the value.
Accepts(e) == node[e.name] # NoNode /\ e.type \in Convertible
Refusable(e) == Accepts(e) => node[e.name].type # e.type

\* Mutant of Set: the value is converted before it is looked up.
SetPrevious(e) ==
    /\ Here(e) /\ e.name \in listed
    /\ local' = ValueOf(e, no)
    /\ Accepts(e) /\ node' = [node EXCEPT ![e.name] =
                                IF local = Unbound THEN @ ELSE local]
    /\ Advance
    /\ UNCHANGED <<sample, no, listed, born>>

Set(e) ==
    /\ Here(e) /\ e.name \in listed
    /\ local' = ValueOf(e, no)
    /\ Accepts(e) /\ node' = [node EXCEPT ![e.name] = local']
    /\ Advance
    /\ UNCHANGED <<sample, no, listed, born>>

SetRaises(e) ==
    /\ Here(e) /\ e.name \in listed
    /\ Refusable(e)
    /\ local' = ValueOf(e, no)
    /\ Abort
    /\ UNCHANGED <<sample, no, listed, node, born>>

\* Mutants of Create: the difference is not computed; the new variable is not
\* added to the list.
CreateAlways(e) ==
    /\ Here(e) /\ e.name \in Grouped
    /\ local # Unbound
    /\ node' = [node EXCEPT ![e.name] =
                    IF local.type \in Convertible THEN local ELSE NoNode]
    /\ listed' = listed \cup {e.name} /\ born' = born \cup {e.name}
    /\ Advance
    /\ UNCHANGED <<sample, no, local>>

CreateUnlisted(e) ==
    /\ Here(e) /\ e.name \in Grouped \ listed
    /\ local # Unbound
    /\ node' = [node EXCEPT ![e.name] =
                    IF local.type \in Convertible THEN local ELSE NoNode]
    /\ born' = born \cup {e.name}
    /\ Advance
    /\ UNCHANGED <<sample, no, listed, local>>

\* An entry not in the list is created with value and varType as they are, that
\* is of the entry handled before it, in this pass or an earlier one.
Create(e) ==
    /\ Here(e) /\ e.name \in Grouped \ listed
    /\ local # Unbound
    /\ node' = [node EXCEPT ![e.name] =
                    IF local.type \in Convertible THEN local ELSE NoNode]
    /\ listed' = listed \cup {e.name} /\ born' = born \cup {e.name}
    /\ Advance
    /\ UNCHANGED <<sample, no, local>>

\* No entry was handled before: UnboundLocalError.
CreateRaises(e) ==
    /\ Here(e) /\ e.name \in Grouped \ listed
    /\ local = Unbound
    /\ Abort
    /\ UNCHANGED <<sample, no, listed, node, local, born>>

\* A name without object name has no place.
Skip(e) ==
    /\ Here(e) /\ e.name \notin Grouped \cup listed
    /\ Advance
    /\ UNCHANGED <<sample, no, listed, node, local, born>>

Handle(e) == Set(e) \/ SetRaises(e) \/ Create(e) \/ CreateRaises(e) \/ Skip(e)

Update == \E e \in Entry : Handle(e)

Next ==
    \/ \E s \in Samples : Populate(s) \/ Decode(s)
    \/ Reapply
    \/ Update

Spec == Init /\ [][Next]_vars

\* The event loop schedules the coroutine, and there are texts to read.
FairSpec == Spec /\ WF_vars(Next)

-----------------------------------------------------------------------------
(* Properties.                                                             *)

\* The variable of n shows a value of its own, and the one of this sample.
Own(n) == node[n] # NoNode /\ node[n].of = n
Current(n) == Own(n) /\ node[n].no = no

\* Types; the list holds only names with a place in the space, and every
\* variable of the space; there is none to update before the population.
TypeOK ==
    /\ phase \in {"populate", "wait", "pass"}
    /\ sample \in Samples \cup {<<>>}
    /\ no \in 0 .. MaxSample
    /\ i \in Nat \ {0}
    /\ phase = "pass" => i <= Len(sample)
    /\ listed \subseteq Grouped /\ born \subseteq listed
    /\ node \in [Names -> Value \cup {NoNode}]
    /\ \A n \in Names : node[n] # NoNode => n \in listed
    /\ local \in Value \cup {Unbound}
    /\ phase = "populate" => sample = <<>> /\ listed = {}

\* What a pass has gone through shows this sample, except the variables it
\* created itself: no entry before the one it is at, or ended at by an exception,
\* is left behind, whatever was new, had no node or was read with an error.
Applied ==
    \A j \in 1 .. Len(sample) :
        (j < i /\ sample[j].name \in Grouped) =>
            /\ sample[j].name \in listed
            /\ Current(sample[j].name) \/ sample[j].name \in born

\* A name that shows a value of its own goes on to, and to no older one.
KeepsOwn ==
    \A n \in Names : Own(n) => Own(n)' /\ node'[n].no >= node[n].no

\* A variable that shows its own values is never given another's and never an
\* older one, although the values of a sample are applied again whenever a
\* text does not decode and the locals outlive the pass.
NeverBackwards == [][KeepsOwn]_vars

\* What keeps a pass from getting past an entry, or may: nothing was handled
\* before an entry to create, there is no node, the varType is not known, or the
\* variable was created with another type.
Obstacle(e) ==
    \/ e.name \in Grouped \ listed /\ local = Unbound
    \/ e.name \in listed /\ Refusable(e)

\* Once the source delivers the same entries, every one of them comes to show
\* its current value, however the list grew before, unless an obstacle in the
\* sample is before it: it then ends every pass, and what follows stays old.
Converges ==
    \A s \in Samples : <>[](sample = s) =>
        \A j \in 1 .. Len(s) : s[j].name \in Grouped =>
            <>[](\/ Current(s[j].name)
                 \/ \E k \in 1 .. j : Obstacle(s[k]))
=============================================================================
