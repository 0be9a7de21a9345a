------------------------------- MODULE Events -------------------------------
(***************************************************************************)
(* Events of one object and one type: kernel/lib/event.c.  call_event()    *)
(* walks a snapshot of the listeners but looks up their functions in the   *)
(* mapping as it is then, while the functions it calls add and remove      *)
(* listeners, destruct objects, send the event again, return or fail.      *)
(***************************************************************************)
EXTENDS Naturals, Sequences, FiniteSets, SequencesExt

CONSTANTS Listeners,   \* Objects that may listen.
          Funcs,       \* Names of their functions.
          Nobody,      \* No listener.
          MaxDepth,    \* Bound: sendings of the event inside each other.
          MaxChanges   \* Bound: changes by called functions, from the first sending on.

ASSUME NobodyAssumption == Nobody \notin Listeners
ASSUME MaxDepthAssumption == MaxDepth \in Nat
ASSUME MaxChangesAssumption == MaxChanges \in Nat

VARIABLES funcs,     \* events[event]: the functions of each listener, <<>> for none.
          alive,     \* Listeners that exist.
          sender,    \* Does the sending object exist?
          sendings,  \* The calls of call_event() that run, innermost last.
          changes    \* Changes since the first of them.

eventVars == <<funcs, alive, sender, sendings, changes>>

FuncLists == {fs \in UNION {[1 .. n -> Funcs] : n \in 0 .. Cardinality(Funcs)} : IsInjective(fs)}

\* One run of call_event().  invited, steady and heard are history: those who listened
\* at the beginning, those of them who did ever since, and those whose turn came.
Sending == [ todo    : SUBSET Listeners,              \* ind, what is left of it.
            ob      : Listeners \cup {Nobody},       \* o.
            rest    : FuncLists,                     \* Functions of o still to call.
            r       : BOOLEAN,                       \* r.
            running : BOOLEAN,                       \* Is a called function running?
            same    : BOOLEAN,                       \* Is e still events[event]?
            invited : SUBSET Listeners,
            steady  : SUBSET Listeners,
            heard   : SUBSET Listeners]

Inner == Last(sendings)
SetInner(s) == sendings' = Append(Front(sendings), s)

\* Changes come from any task, or from the function that is running.
Acting == \A i \in DOMAIN sendings : sendings[i].running
Changing ==
  /\ Acting
  /\ IF sendings = <<>> THEN UNCHANGED changes
     ELSE changes < MaxChanges /\ changes' = changes + 1
Returning == changes' = IF sendings' = <<>> THEN 0 ELSE changes

Listening(fs) == {l \in Listeners : fs[l] # <<>>}

\* What the loss of a listener means to the sendings that run: events[event] is dropped
\* with its last function, so that they keep a mapping that is not used any more.
Leave(leaving, dropped) ==
  sendings' = [i \in DOMAIN sendings |->
                 [sendings[i] EXCEPT !.steady = @ \ leaving, !.same = @ /\ ~dropped]]

-----------------------------------------------------------------------------
EventInit ==
  /\ funcs = [l \in Listeners |-> <<>>]
  /\ alive = Listeners /\ sender = TRUE /\ sendings = <<>> /\ changes = 0

\* _F_add_event(): functions are added once (|=).
AddEvent(l, f) ==
  /\ Changing /\ sender /\ l \in alive
  /\ f \notin ToSet(funcs[l])
  /\ funcs' = [funcs EXCEPT ![l] = Append(@, f)]
  /\ UNCHANGED <<alive, sender, sendings>>

\* Mutant: the mapping is dropped when the listener has no function left.
RemoveEventAll(l, f) ==
  /\ Changing /\ sender /\ f \in ToSet(funcs[l])
  /\ LET left == SelectSeq(funcs[l], LAMBDA g : g # f)
     IN  /\ funcs' = IF left = <<>> THEN [k \in Listeners |-> <<>>] ELSE [funcs EXCEPT ![l] = left]
         /\ Leave(IF left = <<>> THEN {l} ELSE {}, left = <<>>)
  /\ UNCHANGED <<alive, sender>>

\* _F_remove_event(): the mapping is dropped when it is empty.  Destructed listeners
\* are in no mapping.
RemoveEvent(l, f) ==
  /\ Changing /\ sender
  /\ \E k \in DOMAIN funcs[l] :
       funcs[l][k] = f /\ funcs' = [funcs EXCEPT ![l] = RemoveAt(@, k)]
  /\ Leave(IF funcs'[l] = <<>> THEN {l} ELSE {}, Listening(funcs') = {})
  /\ UNCHANGED <<alive, sender>>

\* A listener is destructed: it is in no mapping any more, but an empty mapping stays.
Destructs(l) ==
  /\ Changing /\ l \in alive
  /\ alive' = alive \ {l}
  /\ funcs' = [funcs EXCEPT ![l] = <<>>]
  /\ Leave({l}, FALSE)
  /\ UNCHANGED sender

\* The sending object is destructed.
SenderGoes ==
  /\ Changing /\ sender /\ sender' = FALSE
  /\ UNCHANGED <<funcs, alive, sendings>>

\* call_event() begins.
CallEvent ==
  /\ Acting /\ sender /\ Len(sendings) < MaxDepth
  /\ Listening(funcs) # {}
  /\ sendings' = Append(sendings,
       [todo |-> Listening(funcs), ob |-> Nobody, rest |-> <<>>, r |-> FALSE, running |-> FALSE,
        same |-> TRUE, invited |-> Listening(funcs), steady |-> Listening(funcs), heard |-> {}])
  /\ UNCHANGED <<funcs, alive, sender, changes>>

\* The functions e[o] of a listener when its turn comes.
Found(s, l) == IF s.same THEN funcs[l] ELSE <<>>

\* Ready for the next listener.
Between(s) == ~s.running /\ s.rest = <<>> /\ ~s.r

\* Mutant: the listeners as they are now.
NextOfThoseNow ==
  /\ sendings # <<>> /\ Between(Inner)
  /\ \E l \in Listening(funcs) \ Inner.heard :
       SetInner([Inner EXCEPT !.todo = @ \ {l}, !.ob = l, !.rest = Found(Inner, l),
                              !.heard = IF Found(Inner, l) = <<>> THEN @ ELSE @ \cup {l}])
  /\ UNCHANGED <<funcs, alive, sender, changes>>

\* The turn of a listener; one that is gone or listens no more has no functions.
NextListener ==
  /\ sendings # <<>> /\ Between(Inner)
  /\ \E l \in Inner.todo :
       SetInner([Inner EXCEPT !.todo = @ \ {l}, !.ob = l, !.rest = Found(Inner, l),
                              !.heard = IF Found(Inner, l) = <<>> THEN @ ELSE @ \cup {l}])
  /\ UNCHANGED <<funcs, alive, sender, changes>>

\* The functions of a listener are called from the last to the first.  Out of an object
\* that was destructed nothing is called.
CallFunction ==
  /\ sendings # <<>> /\ ~Inner.running /\ Inner.rest # <<>> /\ Inner.ob \in alive
  /\ SetInner([Inner EXCEPT !.rest = Front(@), !.running = sender, !.r = FALSE])
  /\ UNCHANGED <<funcs, alive, sender, changes>>

\* A called function ends; the result of the one called last counts.
Returns(result) ==
  /\ sendings # <<>> /\ Inner.running
  /\ SetInner([Inner EXCEPT !.running = FALSE, !.r = result])
  /\ UNCHANGED <<funcs, alive, sender, changes>>

\* An error ends the sendings inside of where it is caught, if it is.
Unwind ==
  /\ \E k \in 0 .. Len(sendings) - 1 : sendings' = SubSeq(sendings, 1, k)
  /\ Returning
  /\ UNCHANGED <<funcs, alive, sender>>

\* A called function fails, or the listener was destructed before its next function.
Fails ==
  /\ sendings # <<>>
  /\ Inner.running \/ (Inner.rest # <<>> /\ Inner.ob \notin alive)
  /\ Unwind

\* call_event() returns: a listener stopped the event, or nobody is left.
Finish ==
  /\ sendings # <<>> /\ ~Inner.running /\ Inner.rest = <<>>
  /\ Inner.r \/ Inner.todo = {}
  /\ sendings' = Front(sendings)
  /\ Returning
  /\ UNCHANGED <<funcs, alive, sender>>

EventNext ==
  \/ \E l \in Listeners, f \in Funcs : AddEvent(l, f) \/ RemoveEvent(l, f)
  \/ \E l \in Listeners : Destructs(l)
  \/ SenderGoes \/ CallEvent \/ NextListener \/ CallFunction
  \/ \E result \in BOOLEAN : Returns(result)
  \/ Fails \/ Finish

EventSpec == EventInit /\ [][EventNext]_eventVars

-----------------------------------------------------------------------------
(* Properties *)

\* Nobody listens who is gone, a function is listed once, and each outer sending waits
\* for a function it called.
EventTypeOK ==
  /\ funcs \in [Listeners -> FuncLists] /\ alive \subseteq Listeners /\ sender \in BOOLEAN
  /\ Listening(funcs) \subseteq alive
  /\ \A i \in DOMAIN sendings :
       sendings[i] \in Sending /\ (i < Len(sendings) => sendings[i].running)

\* When a sending comes to its end without being stopped, everybody who listened from
\* its beginning on was called, whatever the functions it called added, removed or
\* destructed on the way, and however often they sent the event themselves
\* (event.c:73-80 looks up functions in a mapping that _F_remove_event() may have
\* dropped and _F_add_event() replaced).
EveryoneHears ==
  \A i \in DOMAIN sendings :
    LET s == sendings[i]
    IN  sender /\ Between(s) /\ s.todo = {} => s.steady \subseteq s.heard

\* A listener whose turn comes listens at that moment and did so when the event was
\* sent: nobody is called who removed itself, was removed or came later.
OnlyListenersHear ==
  [][\A i \in DOMAIN sendings \cap DOMAIN sendings' :
       \A l \in sendings'[i].heard \ sendings[i].heard :
         funcs[l] # <<>> /\ l \in sendings[i].invited]_eventVars
=============================================================================
