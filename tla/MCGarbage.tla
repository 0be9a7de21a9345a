----------------------------- MODULE MCGarbage -----------------------------
(***************************************************************************)
(* An instance of Garbage for TLC: a room without and a room with a file,  *)
(* a monster and a player, all cloned from one master.                     *)
(***************************************************************************)
EXTENDS Garbage

CONSTANTS auto, master, room, den, orc, hero

\* Rooms of both kinds and those who may be in them.
RoomObjs == {auto, master, room, den, orc, hero}
MCMasters == {auto, master}
RoomMasterOf == [o \in RoomObjs \ MCMasters |-> master]
BothRooms == {room, den}
MCSaved == {den}
MCNpcs == {orc}
MCPlayers == {hero}
=============================================================================
