----------------------------- MODULE ObjectList -----------------------------
(***************************************************************************)
(* What the object chain promises: the objects that were entered into it   *)
(* and still exist, in the order they were entered.  Some objects exist    *)
(* without being listed (those the driver object compiles at startup).     *)
(***************************************************************************)
EXTENDS Naturals, Sequences, Functions

CONSTANTS Objs, AutoObj

VARIABLES list, live

listVars == <<list, live>>

ListInit == list = <<>> /\ live = {AutoObj}

\* An object appears outside the list.
Appear(m) ==
  /\ m \in Objs \ live
  /\ live' = live \cup {m}
  /\ UNCHANGED list

\* New objects are entered at the end; the auto object, there from the
\* beginning, is entered first.
Enter ==
  \E new \in {SubSeq(list', Len(list) + 1, Len(list'))} :
    /\ list' = list \o new
    /\ IsInjective(new)
    /\ \A i \in DOMAIN new : new[i] \notin live \/ (list = <<>> /\ i = 1 /\ new[i] = AutoObj)
    /\ live' = live \cup {new[i] : i \in DOMAIN new}

\* An object ceases to exist, and all others keep their order.
Leave(o) ==
  /\ o \in live \ {AutoObj}
  /\ live' = live \ {o}
  /\ \/ UNCHANGED list /\ \A i \in DOMAIN list : list[i] # o
     \/ \E i \in DOMAIN list :
          list[i] = o /\ list' = SubSeq(list, 1, i - 1) \o SubSeq(list, i + 1, Len(list))

ListNext == \/ \E m \in Objs : Appear(m) \/ Leave(m)
            \/ Enter

ListSpec == ListInit /\ [][ListNext]_listVars
=============================================================================
