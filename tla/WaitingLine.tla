---------------------------- MODULE WaitingLine ----------------------------
(***************************************************************************)
(* What the command queue of a living promises (base/living/cmd.c): those  *)
(* who were let in are served one after the other in the order they came,  *)
(* and the line moves until it is empty or sent away.                      *)
(***************************************************************************)
EXTENDS Naturals, Sequences

CONSTANT Room   \* How many may wait.

VARIABLES line,     \* The numbers of those who wait.
          served,   \* The number that was served last.
          issued    \* The number that was issued last.

lineVars == <<line, served, issued>>

LineInit == line = <<>> /\ served = 0 /\ issued = 0

\* A number is issued; it is turned away or waits behind all others.
Join ==
  /\ issued' = issued + 1
  /\ line' \in {line} \cup (IF Len(line) < Room THEN {Append(line, issued')} ELSE {})
  /\ UNCHANGED served

\* What service leaves of a line: whoever is served may bring another one, who waits
\* at its end or is turned away, or send all away.
Rest(l) ==
  \/ line' = l /\ issued' \in {issued, issued + 1}
  \/ line' = Append(l, issued + 1) /\ issued' = issued + 1 /\ Len(l) < Room
  \/ line' = <<>> /\ issued' \in {issued, issued + 1}

\* The first in the line is served.
Serve == line # <<>> /\ served' = Head(line) /\ Rest(Tail(line))

\* Nobody waits and a newcomer is served at once.
Direct ==
  /\ line = <<>>
  /\ served' = issued + 1
  /\ line' \in {<<>>, <<issued + 2>>}
  /\ issued' \in {issued + 1, issued + 2}

\* All are sent away by a newcomer, who is served at once and may bring another one.
Clear ==
  /\ served' = issued + 1
  /\ line' \in {<<>>, <<issued + 2>>}
  /\ issued' \in {issued + 1, issued + 2}

LineNext == Join \/ Serve \/ Direct \/ Clear

LineSpec == LineInit /\ [][LineNext]_lineVars /\ WF_lineVars(Serve)
=============================================================================
