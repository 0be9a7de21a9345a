------------------------------- MODULE Doors --------------------------------
(***************************************************************************)
(* Doors: base/door.c on base/misc/openclose.c, and the commands open,     *)
(* close, lock, unlock, pick and enter.  A door is two objects, one in     *)
(* each room, each with its own flags; a command on one of them finds the  *)
(* other, loading its room if need be, and sets the flags of both.  A room *)
(* that is removed takes its half along, which is made anew later.         *)
(***************************************************************************)
EXTENDS Naturals

CONSTANTS Halves,
          OtherHalf,   \* The half with the same id in the connected room.
          Keyed,       \* The halves whose file calls set_key().
          FreshStatus  \* What create_door() passes to set_status().

DOOR_CLOSED   == 0
DOOR_UNLOCKED == 0
DOOR_OPEN     == 1
DOOR_LOCKED   == 2

ASSUME OtherHalfAssumption ==
  /\ OtherHalf \in [Halves -> Halves]
  /\ \A h \in Halves : OtherHalf[h] # h /\ OtherHalf[OtherHalf[h]] = h
ASSUME KeyedAssumption == Keyed \subseteq Halves
ASSUME FreshStatusAssumption == FreshStatus \in [Halves -> {DOOR_CLOSED, DOOR_OPEN, DOOR_LOCKED}]

VARIABLES
  loaded,  \* The halves whose room is loaded.
  CLOSED,  \* Those with the property CONT_CLOSED,
  LOCKED,  \* and with CONT_LOCKED.
  anew     \* History: the halves made since a command last worked on their door.

doorVars == <<loaded, CLOSED, LOCKED, anew>>

-----------------------------------------------------------------------------
\* Mutant: opening leaves the lock as it is.
SetStatusLocked(f, h, st) ==
  [closed |-> IF st = DOOR_OPEN THEN f.closed \ {h} ELSE f.closed \cup {h},
   locked |-> IF st = DOOR_LOCKED THEN f.locked \cup {h} ELSE f.locked]

\* set_status() of half h.
SetStatus(f, h, st) ==
  [closed |-> IF st = DOOR_OPEN THEN f.closed \ {h} ELSE f.closed \cup {h},
   locked |-> IF st = DOOR_LOCKED THEN f.locked \cup {h}
              ELSE IF st = DOOR_OPEN THEN f.locked \ {h} ELSE f.locked]

\* Both halves get the status, as at the end of every command of door.c that works.
SetBoth(f, h, st) == SetStatus(SetStatus(f, OtherHalf[h], st), h, st)

\* The flags when half h is made.
Made(f, h) ==
  SetStatus([closed |-> f.closed \ {h}, locked |-> f.locked \ {h}], h, FreshStatus[h])

\* The flags when a command at h has found the other half.
OtherFound(h) ==
  LET f == [closed |-> CLOSED, locked |-> LOCKED]
  IN  IF OtherHalf[h] \in loaded THEN f ELSE Made(f, OtherHalf[h])

-----------------------------------------------------------------------------
\* What lock_cmd() and unlock_cmd() of openclose.c ask of the door, and of the key.
Lockable(f, h, fits)   == h \in Keyed /\ h \in f.closed /\ h \notin f.locked /\ fits
Unlockable(f, h, fits) == h \in Keyed /\ h \in f.locked /\ fits

\* unlock_cmd() frees its own half only; the status that follows does not unlock.
Unlocked(f, h) ==
  SetBoth([closed |-> f.closed \cup {h}, locked |-> f.locked \ {h}], h, DOOR_UNLOCKED)

Flags(f) == CLOSED' = f.closed /\ LOCKED' = f.locked
Find(h) == h \in loaded /\ loaded' = loaded \cup {OtherHalf[h]}

\* A command that fails has loaded the other half at least.
DoorFails(h) == Flags(OtherFound(h)) /\ anew' = anew \cup ({OtherHalf[h]} \ loaded)
DoorWorks(h, f) == Flags(f) /\ anew' = anew \ {h, OtherHalf[h]}

-----------------------------------------------------------------------------
DoorInit ==
  LET opened == {h \in Halves : FreshStatus[h] = DOOR_OPEN}
  IN  /\ loaded = Halves /\ anew = Halves
      /\ CLOSED = Halves \ opened
      /\ LOCKED = {h \in Halves : FreshStatus[h] = DOOR_LOCKED}

\* open_cmd(), with a key named or not: the key has to unlock first.
OpenCmd(h, keyNamed, fits) ==
  /\ Find(h)
  /\ LET f == IF keyNamed THEN Unlocked(OtherFound(h), h) ELSE OtherFound(h)
     IN  IF (keyNamed => Unlockable(OtherFound(h), h, fits)) /\ h \in f.closed /\ h \notin f.locked
         THEN DoorWorks(h, SetBoth(f, h, DOOR_OPEN))
         ELSE DoorFails(h)

\* close_cmd(): with a key, it locks a door that is closed already, and fails.
CloseCmd(h, keyNamed, fits) ==
  /\ Find(h)
  /\ LET f == OtherFound(h)
     IN  \/ keyNamed /\ Lockable(f, h, fits) /\ DoorWorks(h, SetBoth(f, h, DOOR_LOCKED))
         \/ ~keyNamed /\ h \notin f.closed /\ DoorWorks(h, SetBoth(f, h, DOOR_CLOSED))
         \/ /\ IF keyNamed THEN ~Lockable(f, h, fits) ELSE h \in f.closed
            /\ DoorFails(h)

LockCmd(h, fits) ==
  /\ Find(h)
  /\ IF Lockable(OtherFound(h), h, fits)
     THEN DoorWorks(h, SetBoth(OtherFound(h), h, DOOR_LOCKED))
     ELSE DoorFails(h)

\* unlock_cmd(), and pick_cmd() of door.c, which asks for the key as well.
UnlockCmd(h, fits) ==
  /\ Find(h)
  /\ IF Unlockable(OtherFound(h), h, fits)
     THEN DoorWorks(h, Unlocked(OtherFound(h), h))
     ELSE DoorFails(h)

\* enter_cmd(): who goes through a half that is open loads the other one.
EnterDoor(h) == Find(h) /\ h \notin CLOSED /\ h \notin LOCKED /\ DoorFails(h)

\* The room of a half is removed, or loaded by somebody who comes another way.
Unload(h) ==
  /\ h \in loaded /\ loaded' = loaded \ {h} /\ UNCHANGED <<CLOSED, LOCKED, anew>>
Load(h) ==
  /\ h \notin loaded /\ loaded' = loaded \cup {h}
  /\ Flags(Made([closed |-> CLOSED, locked |-> LOCKED], h)) /\ anew' = anew \cup {h}

DoorNext ==
  \E h \in Halves :
    \/ \E keyNamed, fits \in BOOLEAN : OpenCmd(h, keyNamed, fits) \/ CloseCmd(h, keyNamed, fits)
    \/ \E fits \in BOOLEAN : LockCmd(h, fits) \/ UnlockCmd(h, fits)
    \/ EnterDoor(h) \/ Unload(h) \/ Load(h)

DoorSpec == DoorInit /\ [][DoorNext]_doorVars

-----------------------------------------------------------------------------
(* Properties *)

DoorTypeOK ==
  loaded \subseteq Halves /\ CLOSED \subseteq Halves /\ LOCKED \subseteq Halves /\ anew \subseteq Halves

\* From both rooms a door is open or closed alike, and nothing is open and locked, whatever
\* is done to it from either side; but a half that was made anew starts as its file says
\* until a command works on the door.
HalvesAgree ==
  /\ LOCKED \subseteq CLOSED
  /\ \A h \in loaded :
       OtherHalf[h] \in loaded \ anew /\ h \notin anew => (h \in CLOSED <=> OtherHalf[h] \in CLOSED)
=============================================================================
