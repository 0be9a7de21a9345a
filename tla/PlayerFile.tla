----------------------------- MODULE PlayerFile -----------------------------
(***************************************************************************)
(* One character, its files and its objects: the dialogue of login.c, the  *)
(* saving, restoring, dying and quitting of base/player.c, the soul and    *)
(* the resurrection of systemd.c, and shutdown() of simfun.c, with crashes *)
(* and writing errors in between.  Rooms, wording, passwords and what the  *)
(* character carries are left out; its progress is a number.               *)
(***************************************************************************)
EXTENDS Naturals, FiniteSets

CONSTANTS Conns,         \* Connections; one may be used again.
          Ranks,         \* May the character be a coder, a mortal?
          Objs,          \* Objects the character can have at a time.
          Nil,           \* No object.
          MaxProgress    \* Bound: progress of the character.

ASSUME NilAssumption == Nil \notin Objs
ASSUME RanksAssumption == Ranks \subseteq BOOLEAN
ASSUME MaxProgressAssumption == MaxProgress \in Nat

VARIABLES
  coder,     \* Is the character a coder?
  files,     \* main, bak: progress in <name>.o and <name>.bak, 0 for no file;
             \* dead, deadbak: whether <name>.dead.o and its .bak exist;
             \* application: whether somebody applied for the name.
  obj,       \* The character's objects.
  reg,       \* What find_player() finds for <name> and for <name>.dead.
  conn,      \* The step each connection is at, what it read, and whom it plays.
  creator,   \* Has an administrator opened an application for the name?
  kept       \* History: the progress that was written last.

fileVars == <<coder, files, obj, reg, conn, creator, kept>>
memory == <<obj, reg, conn>>

Files == [main : Nat, bak : Nat, dead : BOOLEAN, deadbak : BOOLEAN, application : BOOLEAN]

\* An object lives, or is dead or a statue; a statue comes back to life with its player.
\* A player who enters is in a login room before he is in the world.
Object == [kind : {"none", "body", "soul"}, living : BOOLEAN, stone : BOOLEAN,
           saving : BOOLEAN,   \* Is the call_out of autosave() pending?
           place : {"login", "world"}, v : Nat]
NoObject == [kind |-> "none", living |-> FALSE, stone |-> FALSE, saving |-> FALSE, place |-> "login", v |-> 0]
Entering(kind, v) ==
  [kind |-> kind, living |-> TRUE, stone |-> FALSE, saving |-> FALSE, place |-> "login", v |-> v]

Conn == [step : {"off", "name", "certify", "generation", "password", "in"},
         ghost : BOOLEAN,         \* race_name is that of the dead.
         as : Objs \cup {Nil}]
Off == [step |-> "off", ghost |-> FALSE, as |-> Nil]
Playing(o) == [step |-> "in", ghost |-> FALSE, as |-> o]

Linked(o) == \E u \in Conns : conn[u].as = o
Free == {o \in Objs : obj[o].kind = "none"}

-----------------------------------------------------------------------------
\* Files.

\* Mutant: the old file is removed before the new one is written.
RenamedAway(f) == {[f EXCEPT !.main = 0, !.bak = 0]}

\* rename_file(): nothing if there is no file to rename; a file that is in the way is
\* replaced or the call refused.
Renamed(f) ==
  IF f.main = 0 THEN {f}
  ELSE {[f EXCEPT !.bak = f.main, !.main = 0]} \cup (IF f.bak = 0 THEN {} ELSE {f})
DeadRenamed(f) ==
  IF ~f.dead THEN {f}
  ELSE {[f EXCEPT !.deadbak = TRUE, !.dead = FALSE]} \cup (IF f.deadbak THEN {f} ELSE {})

\* The file of a body or a soul is written after the old one was renamed, and then the
\* old one removed.
Prepared(f, o) == IF o.kind = "body" THEN Renamed(f) ELSE DeadRenamed(f)
Written(f, o) == IF o.kind = "body" THEN [f EXCEPT !.main = o.v] ELSE [f EXCEPT !.dead = TRUE]
Cleaned(f, o) == IF o.kind = "body" THEN [f EXCEPT !.bak = 0] ELSE [f EXCEPT !.deadbak = FALSE]

\* The same whatever the rename did.
Saved(f, o) == Cleaned(Written(f, o), o)

\* What a crash may leave.
Torn(f, o) == Prepared(f, o) \cup {Written(g, o) : g \in Prepared(f, o)}

\* save() does nothing in rooms with query_no_save(), and fails without a name, which an
\* object has that was not restored.
CanSave(o) == o.kind # "none" /\ o.place = "world" /\ o.v > 0

\* A completed call of save(), or one that did nothing.
SaveObject(o) ==
  IF ~CanSave(o) THEN UNCHANGED <<files, kept>>
  ELSE files' = Saved(files, o) /\ kept' = IF o.kind = "body" THEN o.v ELSE kept

-----------------------------------------------------------------------------
FileInit ==
  /\ coder \in Ranks
  /\ files = [main |-> 1, bak |-> 0, dead |-> FALSE, deadbak |-> FALSE, application |-> FALSE]
  /\ obj = [o \in Objs |-> NoObject]
  /\ reg = [body |-> Nil, soul |-> Nil]
  /\ conn = [u \in Conns |-> Off]
  /\ creator = FALSE /\ kept = 1

\* logon(): a connection is asked for a name.
Connect(u) ==
  /\ conn[u] = Off
  /\ conn' = [conn EXCEPT ![u].step = "name"]
  /\ UNCHANGED <<coder, files, obj, reg, creator, kept>>

\* Mutant: the file of the dead is not looked for.
ReadsGhostNever(u) == FALSE

\* The race that the login object has after get_name(): that of the file it read, or of
\* one it read before.
ReadsGhost(u) == IF files.main = 0 THEN conn[u].ghost ELSE files.dead

\* get_name(): names somebody applied for are reserved; for a name without a file a new
\* character is offered; otherwise the file of the dead is read if there is one.
GetName(u) ==
  /\ conn[u].step = "name" /\ ~files.application
  /\ conn' = [conn EXCEPT ![u].step = IF files.main = 0 THEN "certify" ELSE "password",
                          ![u].ghost = ReadsGhost(u)]
  /\ UNCHANGED <<coder, files, obj, reg, creator, kept>>

\* Mutant: the connection of whoever plays the object is not cut.
EnterOldBoth(u, o) ==
  /\ conn' = [conn EXCEPT ![u] = Playing(o)]
  /\ UNCHANGED <<obj, reg>>

\* enter_game() for an object that is in the game: exec() disconnects whoever plays it,
\* set_linkdead(0) ends its being a statue, unless its old room cannot be loaded.
EnterOld(u, o) ==
  /\ conn' = [w \in Conns |-> IF w = u THEN Playing(o) ELSE IF conn[w].as = o THEN Off ELSE conn[w]]
  /\ \/ ~obj[o].stone /\ UNCHANGED obj
     \/ obj[o].stone /\ UNCHANGED obj
     \/ /\ obj[o].stone
        /\ obj' = [obj EXCEPT ![o].stone = FALSE, ![o].living = TRUE, ![o].saving = TRUE]
  /\ UNCHANGED reg

\* enter_game() for a new object: start_player() of player.c restores the file that is
\* there by now, whatever was read before, and has it found by its name.
EnterNew(u, kind) ==
  \E o \in Free :
    /\ obj' = [obj EXCEPT ![o] = Entering(kind, files.main)]
    /\ conn' = [conn EXCEPT ![u] = Playing(o)]
    /\ reg' = IF files.main = 0 THEN reg
              ELSE IF kind = "soul" THEN [reg EXCEPT !.soul = o] ELSE [reg EXCEPT !.body = o]

\* Mutants: those who are in the game are not looked for.
FindsNoSoul == FALSE
FindsNoBody(ghost) == FALSE

\* start_player() of login.c: those who are in the game are entered again, except that a
\* body is passed over by those who read a file of the dead.
FindsSoul == reg.soul # Nil
FindsBody(ghost) == reg.body # Nil /\ ~ghost

StartPlayer(u, ghost) ==
  \/ FindsSoul /\ EnterOld(u, reg.soul)
  \/ ~FindsSoul /\ FindsBody(ghost) /\ EnterOld(u, reg.body)
  \/ ~FindsSoul /\ ~FindsBody(ghost) /\ EnterNew(u, IF ghost /\ ~coder THEN "soul" ELSE "body")

\* The name is asked for again.
AskName(u) == conn' = [conn EXCEPT ![u].step = "name"] /\ UNCHANGED <<obj, reg>>

\* check_password(): right, or wrong.
CheckPassword(u) ==
  /\ conn[u].step = "password"
  /\ StartPlayer(u, conn[u].ghost) \/ AskName(u)
  /\ UNCHANGED <<coder, files, creator, kept>>

\* certify_new_player(): a new character is generated, unless the name is in the game
\* after all or the player does not want to.
Certify(u) ==
  /\ conn[u].step = "certify"
  /\ \/ FindsSoul /\ EnterOld(u, reg.soul)
     \/ ~FindsSoul /\ FindsBody(conn[u].ghost) /\ EnterOld(u, reg.body)
     \/ /\ ~FindsSoul /\ ~FindsBody(conn[u].ghost)
        /\ conn' = [conn EXCEPT ![u].step = "generation"] /\ UNCHANGED <<obj, reg>>
     \/ AskName(u)
  /\ UNCHANGED <<coder, files, creator, kept>>

\* career(), the last question of the generation, and new_player() of the creator: the
\* application replaces another one of that name.
Apply(u) ==
  /\ conn[u].step = "generation"
  /\ files' = [files EXCEPT !.application = TRUE]
  /\ conn' = [conn EXCEPT ![u] = Off]
  /\ UNCHANGED <<coder, obj, reg, creator, kept>>

-----------------------------------------------------------------------------
\* The character creator of the administrators.

\* cr_create(): an application is opened if there is no character of that name.
OpenCreator ==
  /\ ~creator /\ files.application /\ files.main = 0
  /\ creator' = TRUE
  /\ UNCHANGED <<coder, files, memory, kept>>

\* save() of the creator, any number of times.
NewCharacter == [Entering("body", 1) EXCEPT !.place = "world"]
CreatorSave ==
  /\ creator
  /\ files' = [Saved(files, NewCharacter) EXCEPT !.application = FALSE]
  /\ kept' = 1
  /\ UNCHANGED <<coder, memory, creator>>

\* The creator is left, or an application turned down.
CloseCreator ==
  /\ creator /\ creator' = FALSE /\ UNCHANGED <<coder, files, memory, kept>>
Refuse ==
  /\ files.application /\ files' = [files EXCEPT !.application = FALSE]
  /\ UNCHANGED <<coder, memory, creator, kept>>

-----------------------------------------------------------------------------
\* In the game.

\* leave_to_arda() of the login room.
EnterArda(o) ==
  /\ obj[o].living /\ obj[o].place = "login"
  /\ obj' = [obj EXCEPT ![o].place = "world", ![o].saving = TRUE]
  /\ UNCHANGED <<coder, files, reg, conn, creator, kept>>

\* The player learns, finds and loses things.
Progress(o) ==
  /\ obj[o].kind = "body" /\ obj[o].living /\ obj[o].place = "world" /\ Linked(o)
  /\ obj[o].v \in 1 .. MaxProgress - 1
  /\ obj' = [obj EXCEPT ![o].v = @ + 1]
  /\ UNCHANGED <<coder, files, reg, conn, creator, kept>>

\* autosave(), a call_out; or the command of a player.
Autosave(o) ==
  /\ obj[o].saving \/ (obj[o].living /\ Linked(o))
  /\ SaveObject(obj[o])
  /\ UNCHANGED <<coder, memory, creator>>

\* save() ends in an error when the file cannot be written.
SaveFails(o) ==
  /\ obj[o].saving /\ CanSave(obj[o])
  /\ files' \in Prepared(files, obj[o])
  /\ UNCHANGED <<coder, memory, creator, kept>>

\* close() and set_linkdead(1): the player is saved, unless a loss before is still being
\* waited for; his object stays.  A dialogue that is cut leaves nothing.
LoseLink(u) ==
  /\ conn[u].step # "off"
  /\ conn' = [conn EXCEPT ![u] = Off]
  /\ \/ conn[u].as # Nil /\ ~obj[conn[u].as].stone /\ SaveObject(obj[conn[u].as])
     \/ UNCHANGED <<files, kept>>
  /\ UNCHANGED <<coder, obj, reg, creator>>

\* delay_linkdead(), also for one that died meanwhile.
TurnStone(o) ==
  /\ obj[o].kind # "none" /\ ~obj[o].stone /\ ~Linked(o)
  /\ obj' = [obj EXCEPT ![o].stone = TRUE, ![o].living = FALSE, ![o].saving = FALSE]
  /\ UNCHANGED <<coder, files, reg, conn, creator, kept>>

\* An object is removed: nobody finds it, its connection has ended.
Removed(o) ==
  /\ obj' = [obj EXCEPT ![o] = NoObject]
  /\ reg' = [reg EXCEPT !.body = IF @ = o THEN Nil ELSE @, !.soul = IF @ = o THEN Nil ELSE @]
  /\ conn' = [u \in Conns |-> IF conn[u].as = o THEN Off ELSE conn[u]]

\* quit(): coders are saved and removed, mortals lose their link.  In the login room
\* catch_all_cmd() removes everybody without saving.
Quit(u) ==
  /\ conn[u].as # Nil
  /\ LET o == conn[u].as
     IN  /\ obj[o].living
         /\ coder \/ obj[o].place = "login"
         /\ SaveObject(obj[o])
         /\ Removed(o)
  /\ UNCHANGED <<coder, creator>>

\* do_die() and config_dead_soul(): the player goes on in a soul, which is saved; an error
\* in save() ends the task there.  So does exec() for a body without a connection.
Die(o) ==
  /\ obj[o].kind = "body" /\ obj[o].living /\ obj[o].place = "world"
  /\ IF ~Linked(o)
     THEN obj' = [obj EXCEPT ![o].living = FALSE] /\ UNCHANGED <<files, reg, conn>>
     ELSE \E s \in Free :
            LET soul == [Entering("soul", obj[o].v) EXCEPT !.place = "world"]
            IN  /\ obj' = [obj EXCEPT ![o].living = FALSE, ![o].saving = FALSE, ![s] = soul]
                /\ conn' = [u \in Conns |-> IF conn[u].as = o THEN Playing(s) ELSE conn[u]]
                /\ IF soul.v = 0 THEN UNCHANGED <<files, reg>>   \* config_soul() fails.
                   ELSE /\ reg' = [reg EXCEPT !.soul = s]
                        /\ files' \in {Saved(files, soul)} \cup Prepared(files, soul)
  /\ UNCHANGED <<coder, creator, kept>>

\* decay(), or whatever removes a body that does not live.
Decay(o) ==
  /\ obj[o].kind = "body" /\ ~obj[o].living
  /\ Removed(o)
  /\ UNCHANGED <<coder, files, creator, kept>>

\* The command of a coder, for the body that is found by the coder's name; resurrect_player()
\* takes the soul's connection over, which fails if it has none, and removes the soul.
Resurrect(u) ==
  /\ coder /\ conn[u].as # Nil /\ obj[conn[u].as].living
  /\ reg.body # Nil /\ ~obj[reg.body].living
  /\ LET risen == [obj EXCEPT ![reg.body].living = TRUE, ![reg.body].saving = TRUE]
     IN  IF reg.soul = Nil
         THEN obj' = risen /\ UNCHANGED <<conn, reg>>
         ELSE /\ Linked(reg.soul)
              /\ obj' = [risen EXCEPT ![reg.soul] = NoObject]
              /\ conn' = [w \in Conns |-> IF conn[w].as = reg.soul THEN Playing(reg.body)
                                          ELSE IF conn[w].as = reg.body THEN Off ELSE conn[w]]
              /\ reg' = [reg EXCEPT !.soul = Nil]
  /\ files' = [files EXCEPT !.dead = FALSE]
  /\ UNCHANGED <<coder, creator, kept>>

-----------------------------------------------------------------------------
\* The end of the driver.

MemoryLost ==
  /\ obj' = [o \in Objs |-> NoObject]
  /\ reg' = [body |-> Nil, soul |-> Nil]
  /\ conn' = [u \in Conns |-> Off]
  /\ creator' = FALSE

\* shutdown(): all players with a connection are saved, in any order, then the driver ends.
Shutdown ==
  /\ LET users == {o \in Objs : Linked(o) /\ CanSave(obj[o])}
         bodies == {o \in users : obj[o].kind = "body"}
         f == IF users = bodies THEN files ELSE [files EXCEPT !.dead = TRUE, !.deadbak = FALSE]
     IN  IF bodies = {} THEN files' = f /\ UNCHANGED kept
         ELSE \E last \in bodies : files' = Saved(f, obj[last]) /\ kept' = obj[last].v
  /\ MemoryLost
  /\ UNCHANGED coder

\* A crash, possibly in the middle of a save.
Crash ==
  /\ LET saving == {obj[o] : o \in {p \in Objs : CanSave(obj[p])}}
                   \cup (IF creator THEN {NewCharacter} ELSE {})
     IN  files' \in {files} \cup UNION {Torn(files, o) : o \in saving}
  /\ kept' = IF files'.main > 0 THEN files'.main ELSE kept
  /\ MemoryLost
  /\ UNCHANGED coder

FileNext ==
  \/ \E u \in Conns : Connect(u) \/ GetName(u) \/ CheckPassword(u) \/ Certify(u) \/ Apply(u)
                      \/ LoseLink(u) \/ Quit(u) \/ Resurrect(u)
  \/ \E o \in Objs : EnterArda(o) \/ Progress(o) \/ Autosave(o) \/ SaveFails(o)
                     \/ TurnStone(o) \/ Die(o) \/ Decay(o)
  \/ OpenCreator \/ CreatorSave \/ CloseCreator \/ Refuse \/ Shutdown \/ Crash

FileSpec == FileInit /\ [][FileNext]_fileVars

-----------------------------------------------------------------------------
(* Properties *)

\* Names and connections stand for objects that are there, and no object is played by two.
FileTypeOK ==
  /\ coder \in BOOLEAN /\ creator \in BOOLEAN /\ kept \in Nat
  /\ files \in Files
  /\ obj \in [Objs -> Object]
  /\ reg \in [body : Objs \cup {Nil}, soul : Objs \cup {Nil}]
  /\ conn \in [Conns -> Conn]
  /\ {reg.body, reg.soul} \cap Free = {}
  /\ \A u \in Conns : IF conn[u].step = "in" THEN conn[u].as \in Objs \ Free ELSE conn[u].as = Nil
  /\ \A u, w \in Conns : u # w /\ conn[u].as = conn[w].as => conn[u].as = Nil

\* The progress that was written last is never lost: it is in the character's file, or the
\* file is missing and it is in the .bak, after a crash or an error at any point of save(),
\* whether or not the host lets a rename replace a file that is in the way.
SaveKept == files.main = kept \/ (files.main = 0 /\ files.bak = kept)

\* The objects that are the character and do not lie dead; what was entered when there was
\* no file to restore has no name and is nobody.
Present == {o \in Objs : obj[o].v > 0 /\ (obj[o].kind = "soul" \/ obj[o].living)}

\* "See if we are already playing" (login.c): a character is in the game once, whatever two
\* connections do that are at the password of one name while the player dies, loses the
\* link or comes back.
AlreadyPlaying == Cardinality(Present) <= 1

\* As long as the file of the dead is there nobody plays a living body.
DeadStayDead ==
  files.dead => \A o \in Present : obj[o].kind = "body" => ~Linked(o)

\* A mortal is in the game once, and dead or alive: death outlasts lost links, crashes and
\* second connections that came to the password before it.
OneOfAMortal == ~coder => AlreadyPlaying /\ DeadStayDead

\* No object of a mortal ever writes older progress over what was written before; only the
\* character creator starts again from nothing.
NeverOlder == [][~coder /\ kept' < kept => creator]_fileVars
=============================================================================
