------------------------------ MODULE Garbage ------------------------------
(***************************************************************************)
(* The garbage collector (system/garbage.c) on top of the object chain.    *)
(* Every GARBAGE_INTERVAL its call_out walks GARBAGE_OBJECTS further along *)
(* the chain and removes cloned rooms nobody is in and cloned monsters     *)
(* that are nowhere; between two runs the chain changes under its cursor,  *)
(* and a run itself changes it: removing a room removes what is in it.     *)
(***************************************************************************)
EXTENDS ObjectChain

CONSTANTS
  Rooms,          \* clones with the property IS_ROOM
  Saved,          \* rooms that have a file to be restored from
  Npcs,           \* clones whose query_npc() is set
  Players,        \* clones that have a user with an open connection
  Start,          \* the room of DEFAULT_START, loaded and never removed
  GarbageObjects  \* GARBAGE_OBJECTS

ASSUME GarbageAssumption ==
  /\ Saved \subseteq Rooms
  /\ Rooms \cup Npcs \cup Players \subseteq Clones
  /\ Rooms \cap (Npcs \cup Players) = {}
  /\ Npcs \cap Players = {}
  /\ Start \notin Objs \cup {Nil}
  /\ GarbageObjects \in Nat \ {0}

VARIABLES
  env,     \* environment(): where each object is, Nil if nowhere
  cursor,  \* the collector's next
  left,    \* rounds the running call_out has left, 0 between two runs
  phase,   \* where in a round it is
  n,       \* its local n
  doomed   \* what the running task still has to destruct

gVars == <<chainVars, env, cursor, left, phase, n, doomed>>

Livings == Npcs \cup Players

\* A task is never interrupted: everything else waits until it is over.
Idle == left = 0 /\ doomed = {}

(***************************************************************************)
(* remove_object() and recursive_rm().                                     *)
(***************************************************************************)

\* Mutant: players go with what they are in.
WithinAll(e, r) ==
  LET within[k \in 0 .. Cardinality(Objs)] ==
        IF k = 0 THEN {r}
        ELSE UNION {D \cup {o \in Objs : e[o] \in D} : D \in {within[k - 1]}}
  IN  within[Cardinality(Objs)]

\* What goes with r: everything in it, and everything in that, except players
\* with an open connection and what they carry.
Within(e, r) ==
  LET within[k \in 0 .. Cardinality(Objs)] ==
        IF k = 0 THEN {r}
        ELSE UNION {D \cup {o \in Objs \ Players : e[o] \in D} : D \in {within[k - 1]}}
  IN  within[Cardinality(Objs)]

\* remove_object(): r goes with its contents; connected players in it are
\* moved to the start room instead.
RemoveObject(r) ==
  /\ doomed' = Within(env, r)
  /\ env' = [o \in Objs |-> IF o \in Players \ {r} /\ env[o] \in Within(env, r)
                            THEN Start ELSE env[o]]

\* do_destruct_object(), contents before containers.
DestructNext ==
  \E o \in doomed :
    /\ \A x \in doomed : env[x] # o
    /\ Destruct(o)
    /\ doomed' = doomed \ {o}
    /\ env' = [x \in Objs |-> IF x = o \/ env[x] = o THEN Nil ELSE env[x]]
    /\ cursor' = IF cursor = o THEN Nil ELSE cursor
    /\ n' = IF n = o THEN Nil ELSE n
    /\ UNCHANGED <<left, phase>>

(***************************************************************************)
(* run_garbage().                                                          *)
(***************************************************************************)

\* The call_out: it is renewed before anything else, so it is always pending.
StartRun ==
  /\ Idle
  /\ cursor' = IF cursor # Nil THEN cursor ELSE chain.dnext
  /\ cursor' # Nil
  /\ left' = GarbageObjects
  /\ phase' = "look"
  /\ UNCHANGED <<chainVars, env, n, doomed>>

\* Mutant: a room with a file is removed like any other.
CheckRoomUnsaved(o) == o \in Rooms

\* check_room(): a room without a file goes, one with a file only if no living
\* is in it.
CheckRoom(o) ==
  /\ o \in Rooms
  /\ o \in Saved => ~\E l \in Livings : env[l] = o

\* check_living(): a monster that is nowhere goes.
CheckLiving(o) == o \in Npcs /\ env[o] = Nil

\* A round reads the successor first, then looks at the object.
Look ==
  /\ left > 0 /\ phase = "look"
  /\ n' = chain.next[cursor]
  /\ IF CheckRoom(cursor) \/ CheckLiving(cursor) THEN RemoveObject(cursor)
     ELSE UNCHANGED <<env, doomed>>
  /\ phase' = "advance"
  /\ UNCHANGED <<chainVars, cursor, left>>

\* Mutant: next is read once more at the end of a round.
AdvanceSkips ==
  /\ left > 0 /\ phase = "advance" /\ doomed = {}
  /\ cursor' = IF n = Nil THEN Nil ELSE chain.next[n]
  /\ left' = IF cursor' = Nil THEN 0 ELSE left - 1
  /\ phase' = "look"
  /\ n' = Nil
  /\ UNCHANGED <<chainVars, env, doomed>>

\* The successor may have gone with the object: then the loop breaks, and the
\* next run begins at the first object again.
Advance ==
  /\ left > 0 /\ phase = "advance" /\ doomed = {}
  /\ cursor' = n
  /\ left' = IF n = Nil THEN 0 ELSE left - 1
  /\ phase' = "look"
  /\ n' = Nil
  /\ UNCHANGED <<chainVars, env, doomed>>

(***************************************************************************)
(* What everyone else does between the runs.                               *)
(***************************************************************************)

\* Code removes an object: a player that quits, a used up item, a room.
Remove(r) ==
  /\ Idle
  /\ r \in live \cap Clones
  /\ RemoveObject(r)
  /\ UNCHANGED <<chainVars, cursor, left, phase, n>>

\* move(): into a container, a room or the start room; nothing moves into what
\* it contains, and rooms do not move.
Move(o, to) ==
  /\ Idle
  /\ o \in live \cap (Clones \ Rooms)
  /\ to \in (live \cap Rooms) \cup {Start} \/ (to \in live /\ o \notin Livings)
  /\ to \notin Within(env, o) \cup {env[o]}
  /\ env' = [env EXCEPT ![o] = to]
  /\ UNCHANGED <<chainVars, cursor, left, phase, n, doomed>>

\* An object is created; it is nowhere at first.
Create ==
  /\ Idle
  /\ \/ \E m \in Masters : Preload(m) \/ CallObject(m)
     \/ \E o \in Clones : CloneByName(o) \/ CloneByObject(o)
  /\ UNCHANGED <<env, cursor, left, phase, n, doomed>>

SwapOut ==
  /\ Idle
  /\ Swapper
  /\ UNCHANGED <<env, cursor, left, phase, n, doomed>>

GInit ==
  /\ ChainInit
  /\ env = [o \in Objs |-> Nil]
  /\ cursor = Nil /\ left = 0 /\ phase = "look" /\ n = Nil /\ doomed = {}

\* The steps of the tasks that have begun, and the call_out itself.
Collect == StartRun \/ Look \/ Advance \/ DestructNext

GNext ==
  \/ Collect
  \/ Create
  \/ \E r \in Clones : Remove(r)
  \/ \E o \in Clones : \E to \in Clones \cup {Start} : Move(o, to)
  \/ SwapOut

GSpec == GInit /\ [][GNext]_gVars /\ WF_gVars(Collect)

(***************************************************************************)
(* Properties.                                                             *)
(***************************************************************************)

\* Cursor, local variable and environments name existing objects, and the
\* chain is as ObjectChain has it.
GTypeOK ==
  /\ ChainTypeOK /\ ChainInv
  /\ env \in [Objs -> live \cup {Start, Nil}]
  /\ cursor \in live \cup {Nil} /\ n \in live \cup {Nil}
  /\ left \in 0 .. GarbageObjects /\ phase \in {"look", "advance"}
  /\ doomed \subseteq live

\* A run of the collector takes nobody's connection: a player survives it, and
\* if the room went, stands in the start room and nowhere else
\* (recursive_rm()).
PlayersSurvive ==
  [][left > 0 => \A p \in Players \cap live :
        p \in live' /\ env'[p] \in {env[p], Start}]_gVars

\* Nobody in a room with a file is touched by a run: neither the room goes nor
\* who is in it, directly or with anything else (check_room()).
OccupiedRoomsStay ==
  [][left > 0 => \A l \in Livings \cap live :
        env[l] \in Saved => l \in live' /\ env[l] \in live' /\ env'[l] = env[l]]_gVars

\* The collector takes nothing that somebody is using.
UsedIsKept == PlayersSurvive /\ OccupiedRoomsStay

\* A monster that is nowhere is removed in the end, unless somebody moves it:
\* losing the cursor together with a removed room or item starves no object.
OrphansGo ==
  \A o \in Npcs : (o \in live /\ env[o] = Nil) ~> (o \notin live \/ env[o] # Nil)
=============================================================================
