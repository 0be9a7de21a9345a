-------------------------- MODULE PlayerFileProofs --------------------------
(***************************************************************************)
(* Proofs about PlayerFile, for any number of connections and objects and  *)
(* any bound on progress: names and connections stand for objects that are *)
(* there, the progress that was written last is kept, and a mortal is in   *)
(* the game once, dead or alive, and never gets younger.                   *)
(***************************************************************************)
EXTENDS PlayerFile, TLAPS, FiniteSetTheorems

-----------------------------------------------------------------------------
(* The inductive invariant. *)

\* Objects that are not there are alike; a name is found only for an object that was
\* restored, and for one of its kind.
Named ==
  /\ \A o \in Free : obj[o] = NoObject
  /\ reg.body # Nil => obj[reg.body].kind = "body" /\ obj[reg.body].v > 0
  /\ reg.soul # Nil => obj[reg.soul].kind = "soul" /\ obj[reg.soul].v > 0

\* The soul is in the world: from now on it is what everybody finds who enters.
Settled == reg.soul # Nil /\ obj[reg.soul].place = "world"

\* Before that a soul, and a connection that read the file of the dead, go with that file;
\* with it, no body is found, and who is at the password knows of it.
Unsettled ==
  /\ reg.soul # Nil => files.dead
  /\ files.dead => reg.body = Nil
  /\ \A u \in Conns : conn[u].ghost => files.dead
  /\ \A u \in Conns : conn[u].step = "password" /\ files.dead => conn[u].ghost

\* What was restored is found by its name, and a body has at least the progress written.
FoundByName ==
  \A o \in Objs : obj[o].v > 0 => IF obj[o].kind = "body" THEN o = reg.body /\ obj[o].v >= kept
                                  ELSE o = reg.soul

\* The body of a soul in the world lies dead.
Mortal ==
  ~coder => /\ FoundByName
            /\ IF Settled THEN reg.body # Nil => ~obj[reg.body].living ELSE Unsettled

FInv == FileTypeOK /\ Named /\ SaveKept /\ Mortal

-----------------------------------------------------------------------------
(* What a step of the files leaves. *)

\* save() of an object that may be saved: the file has its progress or, for a soul, what
\* it had; nothing else of the files is touched.
LEMMA SavedFiles ==
  ASSUME FileTypeOK, SaveKept, NEW o \in Object, CanSave(o)
  PROVE  /\ Saved(files, o) \in Files
         /\ o.kind = "body" => /\ Saved(files, o).main = o.v
                               /\ Saved(files, o).dead = files.dead
         /\ o.kind = "soul" => /\ Saved(files, o).main = files.main
                               /\ Saved(files, o).bak = files.bak
                               /\ Saved(files, o).dead
         /\ Saved(files, o).application = files.application
BY DEF FileTypeOK, Files, Object, CanSave, Saved, Written, Cleaned

\* The file of a body renamed: the progress that was written last is in the file or, without
\* it, in the .bak; nothing of the dead changes.
LEMMA RenamedFiles ==
  ASSUME FileTypeOK, SaveKept, NEW g \in Renamed(files)
  PROVE  /\ g \in Files /\ g.dead = files.dead
         /\ g.main = kept \/ (g.main = 0 /\ g.bak = kept)
<1> files \in Files
  BY DEF FileTypeOK
<1>1. CASE g = files
  BY <1>1 DEF SaveKept
<1>2. CASE files.main # 0 /\ g = [files EXCEPT !.bak = files.main, !.main = 0]
  <2>1. g \in Files /\ g.main = 0 /\ g.bak = files.main /\ g.dead = files.dead
    BY <1>2 DEF Files
  <2> QED BY <1>2, <2>1 DEF SaveKept
<1> QED BY <1>1, <1>2 DEF Renamed

\* The file of the dead renamed: nothing of the living changes.
LEMMA DeadRenamedFiles ==
  ASSUME FileTypeOK, NEW g \in DeadRenamed(files)
  PROVE  g \in Files /\ g.main = files.main /\ g.bak = files.bak
BY DEF FileTypeOK, Files, DeadRenamed

\* An error in save() leaves the progress that was written last, and an error in that of a
\* body the file of the dead.
LEMMA PreparedFiles ==
  ASSUME FileTypeOK, SaveKept, NEW o \in Object, CanSave(o), NEW g \in Prepared(files, o)
  PROVE  /\ g \in Files
         /\ g.main = kept \/ (g.main = 0 /\ g.bak = kept)
         /\ o.kind = "body" => g.dead = files.dead
<1>1. CASE o.kind = "body"
  BY <1>1, RenamedFiles DEF Prepared
<1>2. CASE o.kind # "body"
  BY <1>2, DeadRenamedFiles DEF Prepared, SaveKept
<1> QED BY <1>1, <1>2

\* What a crash in save() may leave besides: the new progress in the file.
LEMMA TornFiles ==
  ASSUME FileTypeOK, SaveKept, NEW o \in Object, CanSave(o), NEW g \in Torn(files, o)
  PROVE  /\ g \in Files
         /\ \/ g.main = kept \/ (g.main = 0 /\ g.bak = kept)
            \/ o.kind = "body" /\ g.main = o.v
<1>1. CASE g \in Prepared(files, o)
  BY <1>1, PreparedFiles
<1>2. ASSUME NEW h \in Prepared(files, o), g = Written(h, o)
      PROVE  /\ g \in Files
             /\ \/ g.main = kept \/ (g.main = 0 /\ g.bak = kept)
                \/ o.kind = "body" /\ g.main = o.v
  <2>1. /\ h \in Files
        /\ h.main = kept \/ (h.main = 0 /\ h.bak = kept)
    BY PreparedFiles
  <2>2. CASE o.kind = "body"
    BY <1>2, <2>1, <2>2 DEF Written, Files, Object
  <2>3. CASE o.kind # "body"
    BY <1>2, <2>1, <2>3 DEF Written, Files, Object
  <2> QED BY <2>2, <2>3
<1> QED BY <1>1, <1>2 DEF Torn

\* The character creator's new character can be saved.
LEMMA NewCharacterSaved == NewCharacter \in Object /\ CanSave(NewCharacter)
                           /\ NewCharacter.kind = "body" /\ NewCharacter.v = 1
<1>1. Entering("body", 1) \in Object /\ Entering("body", 1).kind = "body" /\ Entering("body", 1).v = 1
  BY DEF Entering, Object
<1> QED BY <1>1 DEF NewCharacter, Object, CanSave

\* A call of save() keeps the type, and the progress written last.
LEMMA SaveObjectKeeps ==
  ASSUME FileTypeOK, SaveKept, NEW o \in Object, SaveObject(o)
  PROVE  files' \in Files /\ kept' \in Nat /\ SaveKept'
<1>1. CASE ~CanSave(o)
  BY <1>1 DEF SaveObject, FileTypeOK, SaveKept
<1>2. CASE CanSave(o) /\ o.kind = "body"
  <2>1. files' = Saved(files, o) /\ kept' = o.v
    BY <1>2 DEF SaveObject
  <2> QED BY <1>2, <2>1, SavedFiles DEF Object, SaveKept
<1>3. CASE CanSave(o) /\ o.kind = "soul"
  <2>1. files' = Saved(files, o) /\ kept' = kept
    BY <1>3 DEF SaveObject
  <2> QED BY <1>3, <2>1, SavedFiles DEF FileTypeOK, SaveKept
<1> QED BY <1>1, <1>2, <1>3 DEF CanSave, Object

-----------------------------------------------------------------------------
(* Types. *)

LEMMA FInvInit == FileInit => FInv
<1> SUFFICES ASSUME FileInit PROVE FInv
  OBVIOUS
<1>1. FileTypeOK
  <2>1. coder \in BOOLEAN
    BY RanksAssumption DEF FileInit
  <2>2. creator \in BOOLEAN
    BY DEF FileInit
  <2>3. files \in Files /\ kept \in Nat
    BY DEF FileInit, Files
  <2>4. obj \in [Objs -> Object]
    BY DEF FileInit, NoObject, Object
  <2>5. reg \in [body : Objs \cup {Nil}, soul : Objs \cup {Nil}] /\ reg.body = Nil /\ reg.soul = Nil
    BY DEF FileInit
  <2>6. conn \in [Conns -> Conn] /\ \A u \in Conns : conn[u].step = "off" /\ conn[u].as = Nil
    BY DEF FileInit, Off, Conn
  <2>7. {reg.body, reg.soul} \cap Free = {}
    BY <2>5, NilAssumption DEF Free
  <2> QED BY <2>1, <2>2, <2>3, <2>4, <2>5, <2>6, <2>7 DEF FileTypeOK
<1>2. Named
  <2>1. \A o \in Objs : obj[o] = NoObject
    BY DEF FileInit
  <2>2. reg.body = Nil /\ reg.soul = Nil
    BY DEF FileInit
  <2> QED BY <2>1, <2>2 DEF Named, Free
<1>3. SaveKept
  BY DEF FileInit, SaveKept
<1>4. Mortal
  BY DEF FileInit, Mortal, FoundByName, Settled, Unsettled, NoObject, Off
<1> QED BY <1>1, <1>2, <1>3, <1>4 DEF FInv

\* Names and connections stand for objects that are there.
MemoryOK ==
  /\ obj \in [Objs -> Object]
  /\ reg \in [body : Objs \cup {Nil}, soul : Objs \cup {Nil}]
  /\ conn \in [Conns -> Conn]
  /\ {reg.body, reg.soul} \cap Free = {}
  /\ \A u \in Conns : IF conn[u].step = "in" THEN conn[u].as \in Objs \ Free ELSE conn[u].as = Nil
  /\ \A u, w \in Conns : u # w /\ conn[u].as = conn[w].as => conn[u].as = Nil

LEMMA FromType == FileTypeOK => MemoryOK
BY DEF FileTypeOK, MemoryOK

\* A dialogue goes on: the connection plays nothing, before or after.
LEMMA DialogueKeeps ==
  ASSUME MemoryOK, Named, NEW u \in Conns, conn[u].step # "in", UNCHANGED <<obj, reg>>,
         NEW c \in Conn, c.step # "in", c.as = conn[u].as, conn' = [conn EXCEPT ![u] = c]
  PROVE  MemoryOK' /\ Named'
<1>1. \A w \in Conns : conn'[w] = IF w = u THEN c ELSE conn[w]
  BY DEF MemoryOK
<1>2. conn' \in [Conns -> Conn]
  BY DEF MemoryOK
<1>3. Free' = Free
  BY DEF Free
<1> QED BY <1>1, <1>2, <1>3 DEF MemoryOK, Named

\* A connection ends, or several do.
LEMMA CutKeeps ==
  ASSUME MemoryOK, Named, UNCHANGED <<obj, reg>>, conn' \in [Conns -> Conn],
         \A w \in Conns : conn'[w] = conn[w] \/ conn'[w] = Off
  PROVE  MemoryOK' /\ Named'
<1>1. Free' = Free
  BY DEF Free
<1>2. Off.step # "in" /\ Off.as = Nil
  BY DEF Off
<1> QED BY <1>1, <1>2 DEF MemoryOK, Named

\* Objects live, die, move or gain progress, but none comes or goes.
LEMMA ChangeKeeps ==
  ASSUME MemoryOK, Named, UNCHANGED <<reg, conn>>, NEW o \in Objs, obj[o].kind # "none",
         NEW x \in Object, x.kind = obj[o].kind, x.v > 0 <=> obj[o].v > 0,
         obj' = [obj EXCEPT ![o] = x]
  PROVE  MemoryOK' /\ Named'
<1>1. \A p \in Objs : obj'[p] = IF p = o THEN x ELSE obj[p]
  BY DEF MemoryOK
<1>2. obj' \in [Objs -> Object]
  BY DEF MemoryOK
<1>3. Free' = Free
  BY <1>1 DEF Free
<1>4. MemoryOK'
  BY <1>2, <1>3 DEF MemoryOK
<1>5. Named'
  BY <1>1, <1>3 DEF Named, MemoryOK, Free
<1> QED BY <1>4, <1>5

\* Whoever enters an object that is there is the only one who plays it.
LEMMA EnterOldKeeps ==
  ASSUME MemoryOK, Named, NEW u \in Conns, conn[u].step # "in",
         NEW o \in Objs, obj[o].kind # "none", EnterOld(u, o)
  PROVE  MemoryOK' /\ Named'
<1>1. \A w \in Conns : conn'[w] = IF w = u THEN Playing(o) ELSE IF conn[w].as = o THEN Off ELSE conn[w]
  BY DEF EnterOld
<1>2. /\ Playing(o) \in Conn /\ Playing(o).step = "in" /\ Playing(o).as = o
      /\ Off \in Conn /\ Off.step = "off" /\ Off.as = Nil
  BY DEF Playing, Off, Conn
<1>3. conn' \in [Conns -> Conn]
  BY <1>1, <1>2 DEF EnterOld, MemoryOK
<1>4. obj[o] \in Object /\ o # Nil /\ o \notin Free
  BY NilAssumption DEF MemoryOK, Free
<1>5. /\ obj' \in [Objs -> Object]
      /\ \A p \in Objs : obj'[p].kind = obj[p].kind /\ obj'[p].v = obj[p].v
      /\ \A p \in Objs : p # o => obj'[p] = obj[p]
  <2>1. CASE UNCHANGED obj
    BY <2>1 DEF MemoryOK
  <2>2. CASE obj' = [obj EXCEPT ![o].stone = FALSE, ![o].living = TRUE, ![o].saving = TRUE]
    <3> DEFINE x == [obj[o] EXCEPT !.stone = FALSE, !.living = TRUE, !.saving = TRUE]
    <3>1. x \in Object /\ x.kind = obj[o].kind /\ x.v = obj[o].v
      BY <1>4 DEF Object
    <3>2. obj' = [obj EXCEPT ![o] = x]
      BY <2>2
    <3> HIDE DEF x
    <3> QED BY <3>1, <3>2 DEF MemoryOK
  <2> QED BY <2>1, <2>2 DEF EnterOld
<1>6. Free' = Free
  BY <1>5 DEF Free
<1>7. MemoryOK'
  <2>1. \A w \in Conns : IF conn'[w].step = "in" THEN conn'[w].as \in Objs \ Free ELSE conn'[w].as = Nil
    BY <1>1, <1>2, <1>4 DEF MemoryOK
  <2>2. \A w, x \in Conns : w # x /\ conn'[w].as = conn'[x].as => conn'[w].as = Nil
    BY <1>1, <1>2, <1>4 DEF MemoryOK
  <2>3. {reg'.body, reg'.soul} \cap Free' = {}
    BY <1>6 DEF EnterOld, MemoryOK
  <2> QED BY <1>3, <1>5, <1>6, <2>1, <2>2, <2>3 DEF MemoryOK, EnterOld
<1>8. Named'
  <2>1. \A p \in Free' : obj'[p] = NoObject
    BY <1>4, <1>5, <1>6 DEF Named, Free
  <2>2. UNCHANGED reg
    BY DEF EnterOld
  <2> QED BY <1>5, <2>1, <2>2 DEF Named, MemoryOK
<1> QED BY <1>7, <1>8

\* Whoever enters a new object is the only one who plays it, and it is found if it was
\* restored.
LEMMA EnterNewKeeps ==
  ASSUME MemoryOK, Named, files \in Files, NEW u \in Conns, conn[u].step # "in",
         NEW kind \in {"body", "soul"}, EnterNew(u, kind)
  PROVE  MemoryOK' /\ Named'
<1> PICK o \in Free :
      /\ obj' = [obj EXCEPT ![o] = Entering(kind, files.main)]
      /\ conn' = [conn EXCEPT ![u] = Playing(o)]
      /\ reg' = IF files.main = 0 THEN reg
                ELSE IF kind = "soul" THEN [reg EXCEPT !.soul = o] ELSE [reg EXCEPT !.body = o]
  BY DEF EnterNew
<1> DEFINE x == Entering(kind, files.main)
<1>1. o \in Objs /\ o # Nil
  BY NilAssumption DEF Free
<1>2. x \in Object /\ x.kind = kind /\ x.v = files.main
  BY DEF Entering, Object, Files
<1>3. Playing(o) \in Conn /\ Playing(o).step = "in" /\ Playing(o).as = o
  BY <1>1 DEF Playing, Conn
<1> HIDE DEF x
<1>4. obj' \in [Objs -> Object] /\ \A p \in Objs : obj'[p] = IF p = o THEN x ELSE obj[p]
  BY <1>1, <1>2 DEF MemoryOK, x
<1>5. conn' \in [Conns -> Conn] /\ \A w \in Conns : conn'[w] = IF w = u THEN Playing(o) ELSE conn[w]
  BY <1>3 DEF MemoryOK
<1>6. Free' = Free \ {o}
  BY <1>2, <1>4 DEF Free
<1>7. /\ reg' \in [body : Objs \cup {Nil}, soul : Objs \cup {Nil}]
      /\ reg'.body \in {reg.body, o} /\ reg'.soul \in {reg.soul, o}
      /\ reg'.body # reg.body => reg'.body = o /\ kind = "body" /\ files.main # 0
      /\ reg'.soul # reg.soul => reg'.soul = o /\ kind = "soul" /\ files.main # 0
  BY <1>1 DEF MemoryOK
<1>8. MemoryOK'
  <2>1. \A w \in Conns : IF conn'[w].step = "in" THEN conn'[w].as \in Objs \ Free' ELSE conn'[w].as = Nil
    BY <1>1, <1>3, <1>5, <1>6 DEF MemoryOK
  <2>2. \A w \in Conns : conn[w].as # o
    BY <1>1 DEF MemoryOK
  <2>3. \A w, y \in Conns : w # y /\ conn'[w].as = conn'[y].as => conn'[w].as = Nil
    BY <1>3, <1>5, <2>2 DEF MemoryOK
  <2>4. {reg'.body, reg'.soul} \cap Free' = {}
    BY <1>6, <1>7 DEF MemoryOK
  <2> QED BY <1>4, <1>5, <1>7, <2>1, <2>3, <2>4 DEF MemoryOK
<1>9. Named'
  <2>1. \A p \in Free' : obj'[p] = NoObject
    BY <1>4, <1>6 DEF Named, Free
  <2>2. reg.body # o /\ reg.soul # o
    BY DEF MemoryOK
  <2>3. files.main # 0 => files.main > 0
    BY DEF Files
  <2>4. reg'.body # Nil => obj'[reg'.body].kind = "body" /\ obj'[reg'.body].v > 0
    BY <1>1, <1>2, <1>4, <1>7, <2>2, <2>3 DEF Named, MemoryOK
  <2>5. reg'.soul # Nil => obj'[reg'.soul].kind = "soul" /\ obj'[reg'.soul].v > 0
    BY <1>1, <1>2, <1>4, <1>7, <2>2, <2>3 DEF Named, MemoryOK
  <2> QED BY <2>1, <2>4, <2>5 DEF Named
<1> QED BY <1>8, <1>9

\* What is removed is not found and not played.
LEMMA RemovedKeeps ==
  ASSUME MemoryOK, Named, NEW o \in Objs, Removed(o)
  PROVE  MemoryOK' /\ Named'
<1>1. NoObject \in Object /\ NoObject.kind = "none"
  BY DEF NoObject, Object
<1>2. Off \in Conn /\ Off.step = "off" /\ Off.as = Nil
  BY DEF Off, Conn
<1>3. obj' \in [Objs -> Object] /\ \A p \in Objs : obj'[p] = IF p = o THEN NoObject ELSE obj[p]
  BY <1>1 DEF Removed, MemoryOK
<1>4. conn' \in [Conns -> Conn] /\ \A w \in Conns : conn'[w] = IF conn[w].as = o THEN Off ELSE conn[w]
  BY <1>2 DEF Removed, MemoryOK
<1>5. /\ reg' \in [body : Objs \cup {Nil}, soul : Objs \cup {Nil}]
      /\ reg'.body = IF reg.body = o THEN Nil ELSE reg.body
      /\ reg'.soul = IF reg.soul = o THEN Nil ELSE reg.soul
  BY DEF Removed, MemoryOK
<1>6. Free' = Free \cup {o}
  BY <1>1, <1>3 DEF Free
<1>7. Nil \notin Objs
  BY NilAssumption
<1>8. MemoryOK'
  <2>1. \A w \in Conns : IF conn'[w].step = "in" THEN conn'[w].as \in Objs \ Free' ELSE conn'[w].as = Nil
    BY <1>2, <1>4, <1>6 DEF MemoryOK
  <2>2. \A w, y \in Conns : w # y /\ conn'[w].as = conn'[y].as => conn'[w].as = Nil
    BY <1>2, <1>4 DEF MemoryOK
  <2>3. {reg'.body, reg'.soul} \cap Free' = {}
    BY <1>5, <1>6, <1>7 DEF MemoryOK, Free
  <2> QED BY <1>3, <1>4, <1>5, <2>1, <2>2, <2>3 DEF MemoryOK
<1>9. Named'
  BY <1>1, <1>3, <1>5, <1>6, <1>7 DEF Named, MemoryOK, Free
<1> QED BY <1>8, <1>9

\* Nothing is left of what the driver knew.
LEMMA LostKeeps ==
  ASSUME MemoryLost
  PROVE  MemoryOK' /\ Named'
<1>1. NoObject \in Object
  BY DEF NoObject, Object
<1>2. Off \in Conn /\ Off.step = "off" /\ Off.as = Nil
  BY DEF Off, Conn
<1>3. obj' \in [Objs -> Object] /\ \A p \in Objs : obj'[p] = NoObject
  BY <1>1 DEF MemoryLost
<1>4. conn' \in [Conns -> Conn] /\ \A w \in Conns : conn'[w] = Off
  BY <1>2 DEF MemoryLost
<1>5. reg' = [body |-> Nil, soul |-> Nil]
  BY DEF MemoryLost
<1>6. {reg'.body, reg'.soul} \cap Free' = {}
  BY <1>5, NilAssumption DEF Free
<1>7. MemoryOK'
  BY <1>2, <1>3, <1>4, <1>5, <1>6 DEF MemoryOK
<1>8. Named'
  BY <1>3, <1>5 DEF Named, Free
<1> QED BY <1>7, <1>8

\* A player who dies goes on in a new soul.
LEMMA DieKeeps ==
  ASSUME MemoryOK, Named, NEW o \in Objs, Die(o)
  PROVE  MemoryOK' /\ Named'
<1> obj[o] \in Object /\ obj[o].kind = "body"
  BY DEF MemoryOK, Die
<1>1. CASE ~Linked(o)
  <2> DEFINE x == [obj[o] EXCEPT !.living = FALSE]
  <2>1. x \in Object /\ x.kind = obj[o].kind /\ x.v = obj[o].v
    BY DEF Object
  <2>2. obj' = [obj EXCEPT ![o] = x] /\ UNCHANGED <<reg, conn>>
    BY <1>1 DEF Die
  <2> HIDE DEF x
  <2> QED BY <2>1, <2>2, ChangeKeeps
<1>2. CASE Linked(o)
  <2> PICK s \in Free :
        LET soul == [Entering("soul", obj[o].v) EXCEPT !.place = "world"]
        IN  /\ obj' = [obj EXCEPT ![o].living = FALSE, ![o].saving = FALSE, ![s] = soul]
            /\ conn' = [u \in Conns |-> IF conn[u].as = o THEN Playing(s) ELSE conn[u]]
            /\ reg' = IF soul.v = 0 THEN reg ELSE [reg EXCEPT !.soul = s]
    BY <1>2 DEF Die
  <2> DEFINE x == [obj[o] EXCEPT !.living = FALSE, !.saving = FALSE]
             soul == [Entering("soul", obj[o].v) EXCEPT !.place = "world"]
  <2>1. s \in Objs /\ s # o /\ s # Nil /\ o # Nil
    BY NilAssumption DEF Free
  <2>2. x \in Object /\ x.kind = "body" /\ x.v = obj[o].v
    BY DEF Object
  <2>3. soul \in Object /\ soul.kind = "soul" /\ soul.v = obj[o].v
    <3>1. Entering("soul", obj[o].v) \in Object /\ Entering("soul", obj[o].v).kind = "soul"
          /\ Entering("soul", obj[o].v).v = obj[o].v
      BY DEF Entering, Object
    <3> QED BY <3>1 DEF Object
  <2>4. obj' = [obj EXCEPT ![o] = x, ![s] = soul]
    BY <2>1 DEF MemoryOK
  <2>5. reg' = IF soul.v = 0 THEN reg ELSE [reg EXCEPT !.soul = s]
    OBVIOUS
  <2> HIDE DEF x, soul
  <2>6. /\ obj' \in [Objs -> Object]
        /\ \A p \in Objs : obj'[p] = IF p = s THEN soul ELSE IF p = o THEN x ELSE obj[p]
    BY <2>1, <2>2, <2>3, <2>4 DEF MemoryOK
  <2>7. Playing(s) \in Conn /\ Playing(s).step = "in" /\ Playing(s).as = s
    BY <2>1 DEF Playing, Conn
  <2>8. /\ conn' \in [Conns -> Conn]
        /\ \A w \in Conns : conn'[w] = IF conn[w].as = o THEN Playing(s) ELSE conn[w]
    BY <2>7 DEF MemoryOK
  <2>9. Free' = Free \ {s}
    BY <2>2, <2>3, <2>6 DEF Free
  <2>10. /\ reg' \in [body : Objs \cup {Nil}, soul : Objs \cup {Nil}]
         /\ reg'.body = reg.body
         /\ reg'.soul = reg.soul \/ (reg'.soul = s /\ soul.v # 0)
    BY <2>1, <2>5 DEF MemoryOK
  <2>11. reg.body # s /\ reg.soul # s /\ \A w \in Conns : conn[w].as # s
    BY <2>1 DEF MemoryOK
  <2>12. MemoryOK'
    <3>1. \A w \in Conns : IF conn'[w].step = "in" THEN conn'[w].as \in Objs \ Free' ELSE conn'[w].as = Nil
      BY <2>1, <2>7, <2>8, <2>9 DEF MemoryOK
    <3>2. \A w, y \in Conns : w # y /\ conn'[w].as = conn'[y].as => conn'[w].as = Nil
      BY <2>1, <2>7, <2>8, <2>11 DEF MemoryOK
    <3>3. {reg'.body, reg'.soul} \cap Free' = {}
      BY <2>9, <2>10 DEF MemoryOK
    <3> QED BY <2>6, <2>8, <2>10, <3>1, <3>2, <3>3 DEF MemoryOK
  <2>13. Named'
    <3>1. \A p \in Free' : obj'[p] = NoObject
      BY <2>6, <2>9 DEF Named, Free
    <3>2. reg'.body # Nil => obj'[reg'.body].kind = "body" /\ obj'[reg'.body].v > 0
      BY <2>2, <2>6, <2>10, <2>11 DEF Named, MemoryOK
    <3>3. reg'.soul # Nil => obj'[reg'.soul].kind = "soul" /\ obj'[reg'.soul].v > 0
      <4>1. reg.soul # o
        BY <2>1 DEF Named
      <4>2. soul.v \in Nat
        BY <2>3 DEF Object
      <4>3. CASE reg'.soul = s /\ soul.v # 0
        <5>1. obj'[s] = soul
          BY <2>1, <2>6
        <5>2. soul.v > 0
          BY <4>2, <4>3
        <5> QED BY <4>3, <5>1, <5>2, <2>3
      <4>4. CASE reg'.soul = reg.soul
        <5>1. reg.soul # Nil => reg.soul \in Objs
          BY DEF MemoryOK
        <5> QED BY <4>1, <4>4, <5>1, <2>6, <2>11 DEF Named
      <4> QED BY <4>3, <4>4, <2>10
    <3> QED BY <3>1, <3>2, <3>3 DEF Named
  <2> QED BY <2>12, <2>13
<1> QED BY <1>1, <1>2

\* The soul is gone, and its connection plays the body.
LEMMA ResurrectKeeps ==
  ASSUME MemoryOK, Named, NEW u \in Conns, Resurrect(u)
  PROVE  MemoryOK' /\ Named'
<1> DEFINE b == reg.body
           s == reg.soul
           x == [obj[b] EXCEPT !.living = TRUE, !.saving = TRUE]
<1>1. b \in Objs /\ b # Nil /\ obj[b].kind = "body" /\ obj[b] \in Object /\ b \notin Free
  BY DEF Resurrect, MemoryOK, Named, Free
<1>2. x \in Object /\ x.kind = obj[b].kind /\ x.v = obj[b].v
  BY <1>1 DEF Object
<1>3. CASE s = Nil
  <2>1. obj' = [obj EXCEPT ![b] = x] /\ UNCHANGED <<reg, conn>>
    BY <1>3 DEF Resurrect
  <2> HIDE DEF x, b
  <2> QED BY <1>1, <1>2, <2>1, ChangeKeeps
<1>4. CASE s # Nil
  <2>1. s \in Objs /\ obj[s].kind = "soul" /\ s # b
    BY <1>1, <1>4 DEF MemoryOK, Named
  <2>2. /\ obj' = [[obj EXCEPT ![b] = x] EXCEPT ![s] = NoObject]
        /\ conn' = [w \in Conns |-> IF conn[w].as = s THEN Playing(b)
                                    ELSE IF conn[w].as = b THEN Off ELSE conn[w]]
        /\ reg' = [reg EXCEPT !.soul = Nil]
    BY <1>4 DEF Resurrect
  <2>3. reg' \in [body : Objs \cup {Nil}, soul : Objs \cup {Nil}] /\ reg'.body = b /\ reg'.soul = Nil
    BY <2>2 DEF MemoryOK
  <2> HIDE DEF x, b, s
  <2>4. NoObject \in Object /\ NoObject.kind = "none"
    BY DEF NoObject, Object
  <2>5. /\ obj' \in [Objs -> Object]
        /\ \A p \in Objs : obj'[p] = IF p = s THEN NoObject ELSE IF p = b THEN x ELSE obj[p]
    BY <1>2, <2>2, <2>4 DEF MemoryOK
  <2>6. /\ Playing(b) \in Conn /\ Playing(b).step = "in" /\ Playing(b).as = b
        /\ Off \in Conn /\ Off.step = "off" /\ Off.as = Nil
    BY <1>1 DEF Playing, Off, Conn
  <2>7. /\ conn' \in [Conns -> Conn]
        /\ \A w \in Conns : conn'[w] = IF conn[w].as = s THEN Playing(b)
                                        ELSE IF conn[w].as = b THEN Off ELSE conn[w]
    BY <2>2, <2>6 DEF MemoryOK
  <2>8. Free' = Free \cup {s}
    BY <1>1, <1>2, <2>1, <2>4, <2>5 DEF Free
  <2>9. MemoryOK'
    <3>1. \A w \in Conns : IF conn'[w].step = "in" THEN conn'[w].as \in Objs \ Free' ELSE conn'[w].as = Nil
      BY <1>1, <2>1, <2>6, <2>7, <2>8 DEF MemoryOK
    <3>2. \A w, y \in Conns : w # y /\ conn'[w].as = conn'[y].as => conn'[w].as = Nil
      BY <1>4, <2>6, <2>7 DEF MemoryOK
    <3>3. {reg'.body, reg'.soul} \cap Free' = {}
      BY <1>1, <2>1, <2>3, <2>8, NilAssumption DEF Free
    <3> QED BY <2>3, <2>5, <2>7, <3>1, <3>2, <3>3 DEF MemoryOK
  <2>10. Named'
    <3>1. \A p \in Free' : obj'[p] = NoObject
      BY <1>1, <2>5, <2>8 DEF Named, Free
    <3>2. obj[b].v > 0
      BY <1>1 DEF Named, b
    <3>3. obj'[b].kind = "body" /\ obj'[b].v > 0
      BY <1>1, <1>2, <2>1, <2>5, <3>2
    <3> QED BY <2>3, <3>1, <3>3 DEF Named
  <2> QED BY <2>9, <2>10
<1> QED BY <1>3, <1>4

\* login.c lets a player into what is there, or into something new.
LEMMA StartPlayerKeeps ==
  ASSUME MemoryOK, Named, files \in Files, NEW u \in Conns, conn[u].step # "in",
         NEW ghost \in BOOLEAN, StartPlayer(u, ghost)
  PROVE  MemoryOK' /\ Named'
<1>1. \A o \in {reg.soul, reg.body} : o # Nil => o \in Objs /\ obj[o].kind # "none"
  BY DEF MemoryOK, Named
<1>2. CASE FindsSoul /\ EnterOld(u, reg.soul)
  BY <1>1, <1>2, EnterOldKeeps DEF FindsSoul
<1>3. CASE FindsBody(ghost) /\ EnterOld(u, reg.body)
  BY <1>1, <1>3, EnterOldKeeps DEF FindsBody
<1>4. ASSUME NEW kind \in {"body", "soul"}, EnterNew(u, kind)
      PROVE  MemoryOK' /\ Named'
  BY <1>4, EnterNewKeeps
<1> QED BY <1>2, <1>3, <1>4 DEF StartPlayer

LEMMA AskNameKeeps ==
  ASSUME MemoryOK, Named, NEW u \in Conns, conn[u].step # "in", AskName(u)
  PROVE  MemoryOK' /\ Named'
<1> DEFINE c == [conn[u] EXCEPT !.step = "name"]
<1>1. c \in Conn /\ c.step # "in" /\ c.as = conn[u].as
  BY DEF MemoryOK, Conn
<1>2. conn' = [conn EXCEPT ![u] = c] /\ UNCHANGED <<obj, reg>>
  BY DEF AskName
<1> HIDE DEF c
<1> QED BY <1>1, <1>2, DialogueKeeps

\* No step leaves a name or a connection of an object that is gone.
LEMMA MemoryStep ==
  ASSUME FInv, [FileNext]_fileVars
  PROVE  MemoryOK' /\ Named'
<1> MemoryOK /\ Named /\ files \in Files
  BY FromType DEF FInv, FileTypeOK
<1>1. CASE UNCHANGED memory
  BY <1>1 DEF memory, MemoryOK, Named, Free
<1>2. ASSUME NEW u \in Conns, Connect(u)
      PROVE  MemoryOK' /\ Named'
  <2> DEFINE c == [conn[u] EXCEPT !.step = "name"]
  <2>1. c \in Conn /\ c.step # "in" /\ c.as = conn[u].as /\ conn[u].step # "in"
    <3>1. conn[u] \in Conn /\ conn[u].step = "off"
      <4>1. conn[u] \in Conn /\ conn[u] = Off
        BY <1>2 DEF MemoryOK, Connect
      <4>2. Off.step = "off"
        BY DEF Off
      <4> QED BY <4>1, <4>2
    <3> QED BY <3>1 DEF Conn
  <2>2. conn' = [conn EXCEPT ![u] = c] /\ UNCHANGED <<obj, reg>>
    BY <1>2 DEF Connect
  <2> HIDE DEF c
  <2> QED BY <2>1, <2>2, DialogueKeeps
<1>3. ASSUME NEW u \in Conns, GetName(u)
      PROVE  MemoryOK' /\ Named'
  <2> DEFINE c == [conn[u] EXCEPT !.step = IF files.main = 0 THEN "certify" ELSE "password",
                                  !.ghost = ReadsGhost(u)]
  <2>1. ReadsGhost(u) \in BOOLEAN
    <3>1. conn[u].ghost \in BOOLEAN /\ files.dead \in BOOLEAN
      BY DEF MemoryOK, Conn, Files
    <3> QED BY <3>1 DEF ReadsGhost
  <2>2. c \in Conn /\ c.step # "in" /\ c.as = conn[u].as /\ conn[u].step # "in"
    BY <1>3, <2>1 DEF MemoryOK, Conn, GetName
  <2>3. conn' = [conn EXCEPT ![u] = c] /\ UNCHANGED <<obj, reg>>
    BY <1>3 DEF GetName
  <2> HIDE DEF c
  <2> QED BY <2>2, <2>3, DialogueKeeps
<1>4. ASSUME NEW u \in Conns, CheckPassword(u)
      PROVE  MemoryOK' /\ Named'
  <2>1. conn[u].ghost \in BOOLEAN /\ conn[u].step # "in"
    BY <1>4 DEF MemoryOK, Conn, CheckPassword
  <2> QED BY <1>4, <2>1, StartPlayerKeeps, AskNameKeeps DEF CheckPassword
<1>5. ASSUME NEW u \in Conns, Certify(u)
      PROVE  MemoryOK' /\ Named'
  <2>1. conn[u].step # "in"
    BY <1>5 DEF Certify
  <2>2. \A o \in {reg.soul, reg.body} : o # Nil => o \in Objs /\ obj[o].kind # "none"
    BY DEF MemoryOK, Named
  <2>3. CASE FindsSoul /\ EnterOld(u, reg.soul)
    BY <2>1, <2>2, <2>3, EnterOldKeeps DEF FindsSoul
  <2>4. CASE FindsBody(conn[u].ghost) /\ EnterOld(u, reg.body)
    BY <2>1, <2>2, <2>4, EnterOldKeeps DEF FindsBody
  <2>5. CASE conn' = [conn EXCEPT ![u].step = "generation"] /\ UNCHANGED <<obj, reg>>
    <3> DEFINE c == [conn[u] EXCEPT !.step = "generation"]
    <3>1. c \in Conn /\ c.step # "in" /\ c.as = conn[u].as
      BY DEF MemoryOK, Conn
    <3>2. conn' = [conn EXCEPT ![u] = c]
      BY <2>5
    <3> HIDE DEF c
    <3> QED BY <2>1, <2>5, <3>1, <3>2, DialogueKeeps
  <2>6. CASE AskName(u)
    BY <2>1, <2>6, AskNameKeeps
  <2> QED BY <1>5, <2>3, <2>4, <2>5, <2>6 DEF Certify
<1>6. ASSUME NEW u \in Conns, conn' = [conn EXCEPT ![u] = Off], UNCHANGED <<obj, reg>>
      PROVE  MemoryOK' /\ Named'
  <2>1. Off \in Conn
    BY DEF Off, Conn
  <2> QED BY <1>6, <2>1, CutKeeps DEF MemoryOK
<1>7. ASSUME NEW u \in Conns, Quit(u)
      PROVE  MemoryOK' /\ Named'
  BY <1>7, RemovedKeeps DEF Quit, MemoryOK, Conn
<1>8. ASSUME NEW u \in Conns, Resurrect(u)
      PROVE  MemoryOK' /\ Named'
  BY <1>8, ResurrectKeeps
<1>9. ASSUME NEW o \in Objs, EnterArda(o) \/ Progress(o) \/ TurnStone(o)
      PROVE  MemoryOK' /\ Named'
  <2>1. obj[o] \in Object /\ (o \in Free => obj[o] = NoObject)
    BY DEF MemoryOK, Named
  <2>2. CASE EnterArda(o)
    <3> DEFINE x == [obj[o] EXCEPT !.place = "world", !.saving = TRUE]
    <3>1. x \in Object /\ x.kind = obj[o].kind /\ x.v = obj[o].v
      BY <2>1 DEF Object
    <3>2. obj[o].kind # "none"
      BY <2>1, <2>2 DEF EnterArda, Free, NoObject
    <3>3. obj' = [obj EXCEPT ![o] = x] /\ UNCHANGED <<reg, conn>>
      BY <2>2 DEF EnterArda
    <3> HIDE DEF x
    <3> QED BY <3>1, <3>2, <3>3, ChangeKeeps
  <2>3. CASE Progress(o)
    <3> DEFINE x == [obj[o] EXCEPT !.v = @ + 1]
    <3>1. x \in Object /\ x.kind = obj[o].kind /\ x.v = obj[o].v + 1
      BY <2>1 DEF Object
    <3>2. obj[o].kind # "none" /\ obj[o].v > 0 /\ obj[o].v \in Nat
      BY <2>1, <2>3, MaxProgressAssumption DEF Progress, Object
    <3>3. obj' = [obj EXCEPT ![o] = x] /\ UNCHANGED <<reg, conn>>
      BY <2>3 DEF Progress
    <3> HIDE DEF x
    <3>4. x.v > 0
      BY <3>1, <3>2
    <3> QED BY <3>1, <3>2, <3>3, <3>4, ChangeKeeps
  <2>4. CASE TurnStone(o)
    <3> DEFINE x == [obj[o] EXCEPT !.stone = TRUE, !.living = FALSE, !.saving = FALSE]
    <3>1. x \in Object /\ x.kind = obj[o].kind /\ x.v = obj[o].v
      BY <2>1 DEF Object
    <3>2. obj' = [obj EXCEPT ![o] = x] /\ UNCHANGED <<reg, conn>> /\ obj[o].kind # "none"
      BY <2>4 DEF TurnStone
    <3> HIDE DEF x
    <3> QED BY <3>1, <3>2, ChangeKeeps
  <2> QED BY <1>9, <2>2, <2>3, <2>4
<1>10. ASSUME NEW o \in Objs, Die(o)
       PROVE  MemoryOK' /\ Named'
  BY <1>10, DieKeeps
<1>11. ASSUME NEW o \in Objs, Decay(o)
       PROVE  MemoryOK' /\ Named'
  BY <1>11, RemovedKeeps DEF Decay
<1>12. CASE Shutdown \/ Crash
  BY <1>12, LostKeeps DEF Shutdown, Crash
<1>13. CASE UNCHANGED fileVars
  BY <1>1, <1>13 DEF fileVars, memory
<1>14. ASSUME NEW u \in Conns, Apply(u) \/ LoseLink(u)
       PROVE  MemoryOK' /\ Named'
  BY <1>6, <1>14 DEF Apply, LoseLink
<1>15. ASSUME NEW o \in Objs, Autosave(o) \/ SaveFails(o)
       PROVE  MemoryOK' /\ Named'
  BY <1>1, <1>15 DEF Autosave, SaveFails
<1>16. CASE OpenCreator \/ CreatorSave \/ CloseCreator \/ Refuse
  BY <1>1, <1>16 DEF OpenCreator, CreatorSave, CloseCreator, Refuse
<1> QED BY <1>2, <1>3, <1>4, <1>5, <1>7, <1>8, <1>9, <1>10, <1>11, <1>12, <1>13, <1>14, <1>15, <1>16
        DEF FileNext

-----------------------------------------------------------------------------
(* What was saved. *)

\* No step loses the progress that was written last, or writes something else than files.
LEMMA FilesStep ==
  ASSUME FInv, [FileNext]_fileVars
  PROVE  files' \in Files /\ kept' \in Nat /\ creator' \in BOOLEAN /\ coder' = coder /\ SaveKept'
<1> FileTypeOK /\ SaveKept /\ \A o \in Objs : obj[o] \in Object
  BY DEF FInv, FileTypeOK
<1> USE DEF SaveKept
<1>1. CASE UNCHANGED <<files, kept, creator, coder>>
  BY <1>1 DEF FileTypeOK
<1>2. ASSUME NEW u \in Conns,
             Connect(u) \/ GetName(u) \/ CheckPassword(u) \/ Certify(u)
      PROVE  UNCHANGED <<files, kept, creator, coder>>
  BY <1>2 DEF Connect, GetName, CheckPassword, Certify
<1>3. ASSUME NEW o \in Objs, EnterArda(o) \/ Progress(o) \/ TurnStone(o) \/ Decay(o)
      PROVE  UNCHANGED <<files, kept, creator, coder>>
  BY <1>3 DEF EnterArda, Progress, TurnStone, Decay
<1>4. ASSUME NEW u \in Conns, Apply(u)
      PROVE  files' \in Files /\ files'.main = files.main /\ files'.bak = files.bak
             /\ UNCHANGED <<kept, creator, coder>>
  BY <1>4 DEF Apply, FileTypeOK, Files
<1>5. ASSUME NEW u \in Conns, Resurrect(u)
      PROVE  files' \in Files /\ files'.main = files.main /\ files'.bak = files.bak
             /\ UNCHANGED <<kept, creator, coder>>
  BY <1>5 DEF Resurrect, FileTypeOK, Files
<1>6. ASSUME NEW u \in Conns, LoseLink(u) \/ Quit(u)
      PROVE  files' \in Files /\ kept' \in Nat /\ SaveKept' /\ UNCHANGED <<creator, coder>>
  <2>1. conn[u].as # Nil => obj[conn[u].as] \in Object
    BY DEF FileTypeOK, Conn
  <2>2. CASE conn[u].as # Nil /\ SaveObject(obj[conn[u].as])
    BY <1>6, <2>1, <2>2, SaveObjectKeeps DEF LoseLink, Quit
  <2>3. CASE UNCHANGED <<files, kept>>
    BY <1>6, <2>3 DEF LoseLink, Quit, FileTypeOK
  <2> QED BY <1>6, <2>2, <2>3 DEF LoseLink, Quit
<1>7. ASSUME NEW o \in Objs, Autosave(o)
      PROVE  files' \in Files /\ kept' \in Nat /\ SaveKept' /\ UNCHANGED <<creator, coder>>
  BY <1>7, SaveObjectKeeps DEF Autosave
<1>8. ASSUME NEW o \in Objs, SaveFails(o)
      PROVE  files' \in Files /\ SaveKept' /\ UNCHANGED <<kept, creator, coder>>
  BY <1>8, PreparedFiles DEF SaveFails
<1>9. ASSUME NEW o \in Objs, Die(o)
      PROVE  files' \in Files /\ SaveKept' /\ UNCHANGED <<kept, creator, coder>>
  <2> DEFINE soul == [Entering("soul", obj[o].v) EXCEPT !.place = "world"]
  <2>1. soul \in Object /\ soul.kind = "soul" /\ soul.v = obj[o].v /\ soul.place = "world"
    <3>1. Entering("soul", obj[o].v) \in Object /\ Entering("soul", obj[o].v).kind = "soul"
          /\ Entering("soul", obj[o].v).v = obj[o].v
      BY DEF Entering, Object
    <3> QED BY <3>1 DEF Object
  <2>2. UNCHANGED files \/ (soul.v # 0 /\ files' \in {Saved(files, soul)} \cup Prepared(files, soul))
    BY <1>9 DEF Die
  <2> HIDE DEF soul
  <2>3. CASE UNCHANGED files
    BY <1>9, <2>3 DEF Die, FileTypeOK
  <2>4. CASE soul.v # 0 /\ files' \in {Saved(files, soul)} \cup Prepared(files, soul)
    <3>1. CanSave(soul)
      BY <2>1, <2>4 DEF CanSave, Object
    <3>2. UNCHANGED <<kept, creator, coder>>
      BY <1>9 DEF Die
    <3>3. CASE files' = Saved(files, soul)
      BY <2>1, <3>1, <3>2, <3>3, SavedFiles
    <3>4. CASE files' \in Prepared(files, soul)
      BY <2>1, <3>1, <3>2, <3>4, PreparedFiles
    <3> QED BY <2>4, <3>2, <3>3, <3>4
  <2> QED BY <2>2, <2>3, <2>4
<1>10. CASE CreatorSave
  <2>1. /\ Saved(files, NewCharacter) \in Files
        /\ Saved(files, NewCharacter).main = 1
    BY NewCharacterSaved, SavedFiles
  <2>2. files' \in Files /\ files'.main = 1 /\ kept' = 1
    BY <1>10, <2>1 DEF CreatorSave, Files
  <2> QED BY <1>10, <2>2 DEF CreatorSave, FileTypeOK
<1>11. CASE OpenCreator \/ CloseCreator
  BY <1>11 DEF OpenCreator, CloseCreator, FileTypeOK
<1>12. CASE Refuse
  <2>1. files' \in Files /\ files'.main = files.main /\ files'.bak = files.bak
    BY <1>12 DEF Refuse, FileTypeOK, Files
  <2> QED BY <1>12, <2>1 DEF Refuse, FileTypeOK
<1>13. CASE Shutdown
  <2> DEFINE users == {o \in Objs : Linked(o) /\ CanSave(obj[o])}
             bodies == {o \in users : obj[o].kind = "body"}
             f == IF users = bodies THEN files ELSE [files EXCEPT !.dead = TRUE, !.deadbak = FALSE]
  <2>1. f \in Files /\ f.main = files.main /\ f.bak = files.bak
    BY DEF FileTypeOK, Files
  <2>2. IF bodies = {} THEN files' = f /\ UNCHANGED kept
        ELSE \E last \in bodies : files' = Saved(f, obj[last]) /\ kept' = obj[last].v
    BY <1>13 DEF Shutdown
  <2> HIDE DEF f
  <2>3. files' \in Files /\ kept' \in Nat /\ SaveKept'
    <3>1. CASE bodies = {}
      BY <2>1, <2>2, <3>1 DEF FileTypeOK
    <3>2. CASE bodies # {}
      <4> PICK last \in bodies : files' = Saved(f, obj[last]) /\ kept' = obj[last].v
        BY <2>2, <3>2
      <4>1. obj[last] \in Object /\ obj[last].kind = "body"
        OBVIOUS
      <4>2. Saved(f, obj[last]) \in Files /\ Saved(f, obj[last]).main = obj[last].v
        BY <2>1, <4>1 DEF Saved, Cleaned, Written, Files, Object
      <4> QED BY <4>1, <4>2 DEF Object
    <3> QED BY <3>1, <3>2
  <2> QED BY <1>13, <2>3 DEF Shutdown, MemoryLost
<1>14. CASE Crash
  <2>1. /\ files' \in Files
        /\ files'.main > 0 \/ files'.main = kept \/ (files'.main = 0 /\ files'.bak = kept)
    <3>1. CASE files' = files
      BY <3>1 DEF FileTypeOK
    <3>2. ASSUME NEW o \in Object, CanSave(o), files' \in Torn(files, o)
          PROVE  /\ files' \in Files
                 /\ files'.main > 0 \/ files'.main = kept \/ (files'.main = 0 /\ files'.bak = kept)
      BY <3>2, TornFiles DEF CanSave
    <3> DEFINE saving == {obj[o] : o \in {p \in Objs : CanSave(obj[p])}}
                         \cup (IF creator THEN {NewCharacter} ELSE {})
    <3>3. files' \in {files} \cup UNION {Torn(files, o) : o \in saving}
      BY <1>14 DEF Crash
    <3>4. \A o \in saving : o \in Object /\ CanSave(o)
      BY NewCharacterSaved
    <3> HIDE DEF saving
    <3> QED BY <3>1, <3>2, <3>3, <3>4
  <2>2. kept' = IF files'.main > 0 THEN files'.main ELSE kept
    BY <1>14 DEF Crash
  <2>3. kept' \in Nat /\ SaveKept'
    BY <2>1, <2>2 DEF Files, FileTypeOK
  <2> QED BY <1>14, <2>1, <2>3 DEF Crash, MemoryLost
<1>15. CASE UNCHANGED fileVars
  BY <1>1, <1>15 DEF fileVars
<1>16. ASSUME files' \in Files, files'.main = files.main, files'.bak = files.bak,
              UNCHANGED <<kept, creator, coder>>
       PROVE  files' \in Files /\ kept' \in Nat /\ creator' \in BOOLEAN /\ coder' = coder /\ SaveKept'
  BY <1>16 DEF FileTypeOK
<1>17. creator \in BOOLEAN /\ kept \in Nat
  BY DEF FileTypeOK
<1>18. ASSUME NEW u \in Conns,
              Connect(u) \/ GetName(u) \/ CheckPassword(u) \/ Certify(u) \/ Apply(u)
              \/ LoseLink(u) \/ Quit(u) \/ Resurrect(u)
       PROVE  files' \in Files /\ kept' \in Nat /\ creator' \in BOOLEAN /\ coder' = coder /\ SaveKept'
  BY <1>1, <1>2, <1>4, <1>5, <1>6, <1>16, <1>17, <1>18
<1>19. ASSUME NEW o \in Objs,
              EnterArda(o) \/ Progress(o) \/ Autosave(o) \/ SaveFails(o)
              \/ TurnStone(o) \/ Die(o) \/ Decay(o)
       PROVE  files' \in Files /\ kept' \in Nat /\ creator' \in BOOLEAN /\ coder' = coder /\ SaveKept'
  BY <1>1, <1>3, <1>7, <1>8, <1>9, <1>17, <1>19
<1> QED BY <1>10, <1>11, <1>12, <1>13, <1>14, <1>15, <1>18, <1>19 DEF FileNext

-----------------------------------------------------------------------------
(* A mortal is in the game once. *)

\* What a step may do to the files while a mortal's objects stay.
Writes ==
  /\ Settled \/ files'.dead = files.dead
  /\ \A o \in Objs : obj[o].kind = "body" /\ obj[o].v > 0 => obj[o].v >= kept'
  /\ coder' = coder

\* Where the soul is, is left alone, and whether the body lives.
LEMMA WritesKeep ==
  ASSUME FInv, ~coder, Writes, UNCHANGED <<obj, reg>>,
         Settled \/ \A u \in Conns :
                      /\ conn'[u].ghost => files.dead
                      /\ conn'[u].step = "password" /\ files.dead => conn'[u].ghost
  PROVE  Mortal'
<1>1. FoundByName'
  BY DEF FInv, Mortal, FoundByName, Writes
<1>2. Settled' <=> Settled
  BY DEF Settled
<1>3. CASE Settled
  BY <1>1, <1>2, <1>3 DEF FInv, Mortal
<1>4. CASE ~Settled
  BY <1>1, <1>2, <1>4 DEF FInv, Mortal, Unsettled, Writes
<1> QED BY <1>3, <1>4

\* A body is saved with its progress, and a soul that is saved is in the world.
LEMMA SaveObjectWrites ==
  ASSUME FInv, ~coder, coder' = coder, NEW o \in Objs, SaveObject(obj[o])
  PROVE  Writes
<1>1. obj[o] \in Object /\ FileTypeOK /\ SaveKept /\ FoundByName
  BY DEF FInv, FileTypeOK, Mortal
<1>2. CASE ~CanSave(obj[o])
  BY <1>1, <1>2 DEF SaveObject, Writes, FoundByName
<1>3. CASE CanSave(obj[o]) /\ obj[o].kind = "body"
  <2>1. files' = Saved(files, obj[o]) /\ kept' = obj[o].v /\ files'.dead = files.dead
    BY <1>1, <1>3, SavedFiles DEF SaveObject
  <2>2. obj[o].v > 0 /\ obj[o].v \in Nat
    BY <1>1, <1>3 DEF CanSave, Object
  <2>3. \A p \in Objs : obj[p].kind = "body" /\ obj[p].v > 0 => p = o
    BY <1>1, <1>3, <2>2 DEF FoundByName
  <2> QED BY <2>1, <2>2, <2>3 DEF Writes
<1>4. CASE CanSave(obj[o]) /\ obj[o].kind # "body"
  <2>1. o = reg.soul /\ obj[o].place = "world"
    BY <1>1, <1>4 DEF FoundByName, CanSave
  <2>2. Settled
    BY <2>1, NilAssumption DEF Settled
  <2> QED BY <1>1, <1>4, <2>2 DEF SaveObject, Writes, FoundByName
<1> QED BY <1>2, <1>3, <1>4

\* The soul is entered again if there is one, and the body only if there is none.
LEMMA EnterOldMortal ==
  ASSUME FInv, ~coder, NEW u \in Conns, NEW o \in {reg.soul, reg.body} \ {Nil},
         o = reg.body => ~FindsSoul, EnterOld(u, o), UNCHANGED <<coder, files, kept>>
  PROVE  Mortal'
<1>1. MemoryOK /\ Named /\ FoundByName
  BY FromType DEF FInv, Mortal
<1>2. o \in Objs /\ obj[o] \in Object
  BY <1>1 DEF MemoryOK
<1>3. UNCHANGED reg
  BY DEF EnterOld
<1>4. /\ \A p \in Objs : obj'[p].kind = obj[p].kind /\ obj'[p].v = obj[p].v /\ obj'[p].place = obj[p].place
      /\ \A p \in Objs : p # o => obj'[p] = obj[p]
  <2>1. CASE UNCHANGED obj
    BY <2>1
  <2>2. CASE obj' = [obj EXCEPT ![o].stone = FALSE, ![o].living = TRUE, ![o].saving = TRUE]
    <3> DEFINE x == [obj[o] EXCEPT !.stone = FALSE, !.living = TRUE, !.saving = TRUE]
    <3>1. x.kind = obj[o].kind /\ x.v = obj[o].v /\ x.place = obj[o].place
      BY <1>2 DEF Object
    <3>2. obj' = [obj EXCEPT ![o] = x]
      BY <2>2
    <3> HIDE DEF x
    <3> QED BY <1>1, <3>1, <3>2 DEF MemoryOK
  <2> QED BY <2>1, <2>2 DEF EnterOld
<1>5. \A w \in Conns : conn'[w] = conn[w] \/ (~conn'[w].ghost /\ conn'[w].step # "password")
  <2>1. \A w \in Conns : conn'[w] = IF w = u THEN Playing(o) ELSE IF conn[w].as = o THEN Off ELSE conn[w]
    BY DEF EnterOld
  <2>2. ~Playing(o).ghost /\ Playing(o).step # "password"
    BY DEF Playing
  <2>3. ~Off.ghost /\ Off.step # "password"
    BY DEF Off
  <2> QED BY <2>1, <2>2, <2>3
<1>6. FoundByName'
  BY <1>1, <1>3, <1>4 DEF FoundByName
<1>7. \A p \in {reg.soul, reg.body} : p # Nil => p \in Objs
  BY <1>1 DEF MemoryOK
<1>8. Settled' <=> Settled
  BY <1>3, <1>4, <1>7 DEF Settled
<1>9. CASE Settled
  <2>1. o = reg.soul
    BY <1>9 DEF Settled, FindsSoul
  <2>2. reg.body # Nil => reg.body # o /\ ~obj[reg.body].living
    BY <1>1, <1>9, <2>1 DEF FInv, Mortal, Named
  <2> QED BY <1>3, <1>4, <1>6, <1>7, <1>8, <1>9, <2>2 DEF Mortal
<1>10. CASE ~Settled
  <2>1. Unsettled
    BY <1>10 DEF FInv, Mortal
  <2>2. Unsettled'
    BY <1>3, <1>5, <2>1 DEF Unsettled
  <2> QED BY <1>6, <1>8, <1>10, <2>2 DEF Mortal
<1> QED BY <1>9, <1>10

\* A new object is what the file says that was read: the soul of the dead, or a body when
\* there is no soul, no body and no file of the dead.
LEMMA EnterNewMortal ==
  ASSUME FInv, ~coder, NEW u \in Conns, conn[u].step = "password",
         ~FindsSoul, ~FindsBody(conn[u].ghost),
         EnterNew(u, IF conn[u].ghost THEN "soul" ELSE "body"), UNCHANGED <<coder, files, kept>>
  PROVE  Mortal'
<1> DEFINE kind == IF conn[u].ghost THEN "soul" ELSE "body"
<1> PICK o \in Free :
      /\ obj' = [obj EXCEPT ![o] = Entering(kind, files.main)]
      /\ conn' = [conn EXCEPT ![u] = Playing(o)]
      /\ reg' = IF files.main = 0 THEN reg
                ELSE IF kind = "soul" THEN [reg EXCEPT !.soul = o] ELSE [reg EXCEPT !.body = o]
  BY DEF EnterNew
<1> DEFINE x == Entering(kind, files.main)
<1>1. MemoryOK /\ Named /\ FoundByName /\ SaveKept /\ files \in Files /\ kept \in Nat
  BY FromType DEF FInv, Mortal, FileTypeOK
<1>2. o \in Objs /\ o # Nil /\ obj[o].kind = "none" /\ reg.soul = Nil
  BY NilAssumption DEF Free, FindsSoul
<1>3. x.kind = kind /\ x.v = files.main /\ x.place = "login"
  BY DEF Entering
<1>4. ~Settled /\ Unsettled
  BY <1>2 DEF Settled, FInv, Mortal
<1>5. /\ conn[u].ghost <=> files.dead
      /\ reg.body = Nil
  <2>1. conn[u].ghost \in BOOLEAN /\ files.dead \in BOOLEAN
    BY <1>1 DEF MemoryOK, Conn, Files
  <2> QED BY <1>4, <2>1 DEF Unsettled, FindsBody
<1> HIDE DEF x
<1>6. \A p \in Objs : obj'[p] = IF p = o THEN x ELSE obj[p]
  BY <1>1, <1>2 DEF MemoryOK, x
<1>7. \A w \in Conns : conn'[w] = conn[w] \/ (~conn'[w].ghost /\ conn'[w].step # "password")
  <2>1. ~Playing(o).ghost /\ Playing(o).step # "password"
    BY DEF Playing
  <2> QED BY <1>1, <2>1 DEF MemoryOK
<1>8. CASE files.main = 0
  <2>1. UNCHANGED reg
    BY <1>8
  <2>2. FoundByName'
    BY <1>1, <1>3, <1>6, <1>8, <2>1 DEF FoundByName
  <2>3. ~Settled' /\ Unsettled'
    BY <1>2, <1>4, <1>7, <2>1 DEF Settled, Unsettled
  <2> QED BY <2>2, <2>3 DEF Mortal
<1>9. CASE files.main # 0 /\ conn[u].ghost
  <2>1. reg'.soul = o /\ reg'.body = Nil
    BY <1>1, <1>5, <1>9 DEF MemoryOK
  <2>2. kind = "soul"
    BY <1>9
  <2> HIDE DEF kind
  <2>3. FoundByName'
    BY <1>1, <1>2, <1>3, <1>5, <1>6, <2>1, <2>2, NilAssumption DEF FoundByName
  <2>4. ~Settled'
    BY <1>2, <1>3, <1>6, <2>1 DEF Settled
  <2>5. Unsettled'
    BY <1>4, <1>5, <1>7, <1>9, <2>1 DEF Unsettled
  <2> QED BY <2>3, <2>4, <2>5 DEF Mortal
<1>10. CASE files.main # 0 /\ ~conn[u].ghost
  <2>1. reg'.soul = Nil /\ reg'.body = o
    BY <1>1, <1>2, <1>10 DEF MemoryOK
  <2>2. kind = "body" /\ files.main = kept
    BY <1>1, <1>10 DEF SaveKept
  <2> HIDE DEF kind
  <2>3. FoundByName'
    BY <1>1, <1>2, <1>3, <1>5, <1>6, <2>1, <2>2, NilAssumption DEF FoundByName
  <2>4. ~Settled'
    BY <2>1 DEF Settled
  <2>5. Unsettled'
    BY <1>4, <1>5, <1>7, <1>10, <2>1 DEF Unsettled
  <2> QED BY <2>3, <2>4, <2>5 DEF Mortal
<1> QED BY <1>8, <1>9, <1>10

\* What is removed was the soul of a mortal who had not entered the world, or a body.
LEMMA RemovedMortal ==
  ASSUME FInv, ~coder, NEW o \in Objs, Removed(o), Writes,
         obj[o].place = "login" \/ obj[o].kind = "body"
  PROVE  Mortal'
<1>1. MemoryOK /\ Named /\ FoundByName
  BY FromType DEF FInv, Mortal
<1>2. /\ \A p \in Objs : obj'[p] = IF p = o THEN NoObject ELSE obj[p]
      /\ reg'.body = IF reg.body = o THEN Nil ELSE reg.body
      /\ reg'.soul = IF reg.soul = o THEN Nil ELSE reg.soul
      /\ \A w \in Conns : conn'[w] = IF conn[w].as = o THEN Off ELSE conn[w]
  BY <1>1 DEF Removed, MemoryOK
<1>3. \A p \in {reg.soul, reg.body} : p # Nil => p \in Objs
  BY <1>1 DEF MemoryOK
<1>4. NoObject.v = 0 /\ ~Off.ghost /\ Off.step # "password"
  BY DEF NoObject, Off
<1>5. FoundByName'
  BY <1>1, <1>2, <1>4 DEF FoundByName, Writes
<1>6. CASE Settled
  <2>1. reg.soul # o
    BY <1>1, <1>6 DEF Settled, Named
  <2>2. Settled' /\ (reg'.body # Nil => ~obj'[reg'.body].living)
    BY <1>2, <1>3, <1>6, <2>1 DEF Settled, FInv, Mortal
  <2> QED BY <1>5, <2>2 DEF Mortal
<1>7. CASE ~Settled
  <2>1. Unsettled
    BY <1>7 DEF FInv, Mortal
  <2>2. ~Settled'
    BY <1>2, <1>3, <1>7 DEF Settled
  <2>3. Unsettled'
    BY <1>2, <1>4, <1>7, <2>1 DEF Unsettled, Writes
  <2> QED BY <1>5, <2>2, <2>3 DEF Mortal
<1> QED BY <1>6, <1>7

\* Who dies is found as the body, so there is no soul of his yet; the new one is in the world.
LEMMA DieMortal ==
  ASSUME FInv, ~coder, NEW o \in Objs, Die(o)
  PROVE  Mortal'
<1>1. MemoryOK /\ Named /\ FoundByName /\ UNCHANGED <<coder, kept>>
  BY FromType DEF FInv, Mortal, Die
<1>2. obj[o] \in Object /\ obj[o].kind = "body" /\ obj[o].living /\ o # Nil
  BY <1>1, NilAssumption DEF MemoryOK, Die
<1>3. \A p \in {reg.soul, reg.body} : p # Nil => p \in Objs
  BY <1>1 DEF MemoryOK
<1>4. reg.soul # o
  BY <1>1, <1>2 DEF Named
<1>5. CASE ~Linked(o)
  <2> DEFINE x == [obj[o] EXCEPT !.living = FALSE]
  <2>1. x.kind = obj[o].kind /\ x.v = obj[o].v /\ ~x.living
    BY <1>2 DEF Object
  <2>2. obj' = [obj EXCEPT ![o] = x] /\ UNCHANGED <<reg, conn, files>>
    BY <1>5 DEF Die
  <2> HIDE DEF x
  <2>3. \A p \in Objs : obj'[p] = IF p = o THEN x ELSE obj[p]
    BY <1>1, <2>2 DEF MemoryOK
  <2>4. FoundByName'
    BY <1>1, <2>1, <2>2, <2>3 DEF FoundByName
  <2>5. Settled' <=> Settled
    BY <1>3, <1>4, <2>2, <2>3 DEF Settled
  <2>6. CASE Settled
    BY <1>1, <1>3, <2>1, <2>2, <2>3, <2>4, <2>5, <2>6 DEF FInv, Mortal
  <2>7. CASE ~Settled
    <3>1. Unsettled /\ Unsettled'
      BY <2>2, <2>7 DEF FInv, Mortal, Unsettled
    <3> QED BY <2>4, <2>5, <2>7, <3>1 DEF Mortal
  <2> QED BY <2>6, <2>7
<1>6. CASE Linked(o)
  <2> PICK s \in Free :
        LET soul == [Entering("soul", obj[o].v) EXCEPT !.place = "world"]
        IN  /\ obj' = [obj EXCEPT ![o].living = FALSE, ![o].saving = FALSE, ![s] = soul]
            /\ conn' = [u \in Conns |-> IF conn[u].as = o THEN Playing(s) ELSE conn[u]]
            /\ IF soul.v = 0 THEN UNCHANGED <<files, reg>> ELSE reg' = [reg EXCEPT !.soul = s]
    BY <1>6 DEF Die
  <2> DEFINE x == [obj[o] EXCEPT !.living = FALSE, !.saving = FALSE]
             soul == [Entering("soul", obj[o].v) EXCEPT !.place = "world"]
  <2>1. s \in Objs /\ s # o /\ s # Nil
    BY <1>2, NilAssumption DEF Free
  <2>2. x.kind = "body" /\ x.v = obj[o].v /\ ~x.living
    BY <1>2 DEF Object
  <2>3. soul.kind = "soul" /\ soul.v = obj[o].v /\ soul.place = "world"
    BY DEF Entering
  <2>4. obj' = [obj EXCEPT ![o] = x, ![s] = soul]
    BY <1>1, <2>1 DEF MemoryOK
  <2>5. IF soul.v = 0 THEN UNCHANGED <<files, reg>> ELSE reg' = [reg EXCEPT !.soul = s]
    OBVIOUS
  <2> HIDE DEF x, soul
  <2>6. \A p \in Objs : obj'[p] = IF p = s THEN soul ELSE IF p = o THEN x ELSE obj[p]
    BY <1>1, <2>1, <2>4 DEF MemoryOK
  <2>7. \A w \in Conns : conn'[w] = conn[w] \/ (~conn'[w].ghost /\ conn'[w].step # "password")
    <3>1. ~Playing(s).ghost /\ Playing(s).step # "password"
      BY DEF Playing
    <3> QED BY <3>1
  <2>8. reg.body # s /\ reg.soul # s
    BY <1>1, <2>1 DEF MemoryOK
  <2>9. CASE obj[o].v = 0
    <3>1. UNCHANGED <<files, reg>> /\ reg.body # o
      BY <1>1, <1>2, <2>3, <2>5, <2>9 DEF Named
    <3>2. FoundByName'
      <4>1. \A p \in Objs : obj'[p].v > 0 => obj'[p] = obj[p]
        <5>1. soul.v = 0 /\ x.v = 0
          BY <2>2, <2>3, <2>9
        <5>2. ASSUME NEW p \in Objs, p = s \/ p = o
              PROVE  ~(obj'[p].v > 0)
          <6>1. obj'[p].v = 0
            BY <2>6, <5>1, <5>2
          <6> QED BY <6>1
        <5> QED BY <5>2, <2>6
      <4> QED BY <1>1, <3>1, <4>1 DEF FoundByName
    <3>3. Settled' <=> Settled
      BY <1>3, <1>4, <2>6, <2>8, <3>1 DEF Settled
    <3>4. CASE Settled
      BY <1>3, <2>6, <2>8, <3>1, <3>2, <3>3, <3>4 DEF FInv, Mortal
    <3>5. CASE ~Settled
      <4>1. Unsettled /\ Unsettled'
        BY <2>7, <3>1, <3>5 DEF FInv, Mortal, Unsettled
      <4> QED BY <3>2, <3>3, <3>5, <4>1 DEF Mortal
    <3> QED BY <3>4, <3>5
  <2>10. CASE obj[o].v # 0
    <3>1. obj[o].v > 0 /\ o = reg.body
      BY <1>1, <1>2, <2>10 DEF Object, FoundByName
    <3>2. reg.soul = Nil
      BY <1>2, <3>1 DEF FInv, Mortal, Unsettled
    <3>3. reg'.soul = s /\ reg'.body = o
      BY <1>1, <2>3, <2>5, <2>10, <3>1 DEF MemoryOK
    <3>4. FoundByName'
      <4>1. \A p \in Objs : obj[p].v > 0 => p = o
        BY <1>1, <3>1, <3>2, NilAssumption DEF FoundByName
      <4>2. obj[o].v >= kept
        BY <1>1, <1>2, <3>1 DEF FoundByName
      <4>3. \A p \in Objs : obj'[p].v > 0 => p = o \/ p = s
        BY <2>6, <4>1
      <4>4. obj'[o].kind = "body" /\ obj'[o].v >= kept' /\ obj'[s].kind = "soul"
        BY <1>1, <1>2, <2>1, <2>2, <2>3, <2>6, <4>2
      <4> QED BY <3>3, <4>3, <4>4 DEF FoundByName
    <3>5. Settled' /\ ~obj'[reg'.body].living
      BY <2>1, <2>2, <2>3, <2>6, <3>3 DEF Settled
    <3> QED BY <3>4, <3>5 DEF Mortal
  <2> QED BY <2>9, <2>10
<1> QED BY <1>5, <1>6

\* After a crash only the files are left, and nobody has read them yet.
LEMMA LostMortal == MemoryLost => Mortal'
<1> SUFFICES ASSUME MemoryLost PROVE Mortal'
  OBVIOUS
<1>1. NoObject.v = 0 /\ ~Off.ghost /\ Off.step # "password"
  BY DEF NoObject, Off
<1>2. reg'.body = Nil /\ reg'.soul = Nil
  BY DEF MemoryLost
<1> QED BY <1>1, <1>2 DEF MemoryLost, Mortal, FoundByName, Settled, Unsettled

LEMMA MortalStep ==
  ASSUME FInv, [FileNext]_fileVars
  PROVE  Mortal'
<1>1. coder' = coder
  BY FilesStep
<1>2. CASE coder
  BY <1>1, <1>2 DEF Mortal
<1>3. CASE ~coder
  <2> FInv /\ MemoryOK /\ Named /\ FoundByName /\ files \in Files /\ ~coder /\ coder' = coder
    BY <1>1, <1>3, FromType DEF FInv, FileTypeOK, Mortal
  <2>1. UNCHANGED <<files, kept>> => Writes
    BY DEF Writes, FoundByName
  <2>2. Settled \/ \A u \in Conns : /\ conn[u].ghost => files.dead
                                    /\ conn[u].step = "password" /\ files.dead => conn[u].ghost
    BY DEF FInv, Mortal, Unsettled
  <2>3. ASSUME UNCHANGED memory, Writes
        PROVE  Mortal'
    <3>1. UNCHANGED <<obj, reg, conn>>
      BY <2>3 DEF memory
    <3>2. Settled \/ \A u \in Conns : /\ conn'[u].ghost => files.dead
                                      /\ conn'[u].step = "password" /\ files.dead => conn'[u].ghost
      BY <2>2, <3>1
    <3>3. UNCHANGED <<obj, reg>> /\ Writes
      BY <2>3, <3>1
    <3> QED BY <3>2, <3>3, WritesKeep
  <2>4. ASSUME NEW u \in Conns, UNCHANGED <<obj, reg>>, Writes,
               \A w \in Conns \ {u} : conn'[w] = conn[w],
               conn'[u].step # "password", conn'[u].ghost => conn[u].ghost
        PROVE  Mortal'
    <3>1. Settled \/ \A w \in Conns : /\ conn'[w].ghost => files.dead
                                      /\ conn'[w].step = "password" /\ files.dead => conn'[w].ghost
      BY <2>2, <2>4
    <3>2. UNCHANGED <<obj, reg>> /\ Writes
      BY <2>4
    <3> QED BY <3>1, <3>2, WritesKeep
  <2>5. ~Off.ghost /\ Off.step # "password"
    BY DEF Off
  <2>6. ASSUME NEW u \in Conns, AskName(u), UNCHANGED <<coder, files, kept>>
        PROVE  Mortal'
    BY <2>1, <2>4, <2>6 DEF AskName, MemoryOK, Conn
  <2>7. ASSUME NEW u \in Conns, Connect(u)
        PROVE  Mortal'
    BY <2>1, <2>4, <2>7 DEF Connect, MemoryOK, Conn
  <2>8. ASSUME NEW u \in Conns, GetName(u)
        PROVE  Mortal'
    <3>1. UNCHANGED <<obj, reg, files, kept>>
      BY <2>8 DEF GetName
    <3>2. /\ \A w \in Conns \ {u} : conn'[w] = conn[w]
          /\ conn'[u].ghost = ReadsGhost(u)
          /\ conn'[u].step = IF files.main = 0 THEN "certify" ELSE "password"
      BY <2>8 DEF GetName, MemoryOK, Conn
    <3>3. Settled \/ \A w \in Conns :
                       /\ conn'[w].ghost => files.dead
                       /\ conn'[w].step = "password" /\ files.dead => conn'[w].ghost
      <4>1. CASE files.main = 0
        <5>1. conn'[u].step = "certify" /\ (conn'[u].ghost = conn[u].ghost)
          BY <3>2, <4>1 DEF ReadsGhost
        <5> QED BY <2>2, <3>2, <5>1
      <4>2. CASE files.main # 0
        <5>1. conn'[u].ghost = files.dead
          BY <3>2, <4>2 DEF ReadsGhost
        <5>2. \A w \in Conns : conn'[w] = conn[w] \/ conn'[w].ghost = files.dead
          BY <3>2, <5>1
        <5> QED BY <2>2, <5>2
      <4> QED BY <4>1, <4>2
    <3> QED BY <2>1, <3>1, <3>3, WritesKeep
  <2>9. ASSUME NEW u \in Conns, FindsSoul, EnterOld(u, reg.soul), UNCHANGED <<coder, files, kept>>
        PROVE  Mortal'
    <3>1. reg.soul # Nil /\ reg.soul # reg.body
      BY <2>9 DEF FindsSoul, Named
    <3> QED BY <2>9, <3>1, EnterOldMortal
  <2>10. ASSUME NEW u \in Conns, ~FindsSoul, FindsBody(conn[u].ghost), EnterOld(u, reg.body),
                UNCHANGED <<coder, files, kept>>
         PROVE  Mortal'
    BY <2>10, EnterOldMortal DEF FindsBody
  <2>11. ASSUME NEW u \in Conns, CheckPassword(u)
         PROVE  Mortal'
    <3>1. UNCHANGED <<coder, files, kept>> /\ conn[u].step = "password"
      BY <2>11 DEF CheckPassword
    <3>2. CASE StartPlayer(u, conn[u].ghost)
      <4>1. CASE FindsSoul
        BY <2>9, <3>1, <3>2, <4>1 DEF StartPlayer
      <4>2. CASE ~FindsSoul /\ FindsBody(conn[u].ghost)
        BY <2>10, <3>1, <3>2, <4>2 DEF StartPlayer
      <4>3. CASE ~FindsSoul /\ ~FindsBody(conn[u].ghost)
        <5>1. EnterNew(u, IF conn[u].ghost THEN "soul" ELSE "body")
          BY <3>2, <4>3 DEF StartPlayer
        <5> QED BY <3>1, <4>3, <5>1, EnterNewMortal
      <4> QED BY <4>1, <4>2, <4>3
    <3> QED BY <2>6, <2>11, <3>1, <3>2 DEF CheckPassword
  <2>12. ASSUME NEW u \in Conns, Certify(u)
         PROVE  Mortal'
    <3>1. UNCHANGED <<coder, files, kept>>
      BY <2>12 DEF Certify
    <3>2. CASE conn' = [conn EXCEPT ![u].step = "generation"] /\ UNCHANGED <<obj, reg>>
      BY <2>1, <2>4, <3>1, <3>2 DEF MemoryOK, Conn
    <3> QED BY <2>6, <2>9, <2>10, <2>12, <3>1, <3>2 DEF Certify
  <2>13. ASSUME NEW u \in Conns, Apply(u)
         PROVE  Mortal'
    <3>1. Writes
      BY <2>13 DEF Apply, Writes, FoundByName, Files
    <3> QED BY <2>4, <2>5, <2>13, <3>1 DEF Apply, MemoryOK
  <2>14. ASSUME NEW u \in Conns, LoseLink(u)
         PROVE  Mortal'
    <3>1. conn[u].as # Nil => conn[u].as \in Objs
      BY DEF MemoryOK, Conn
    <3>2. Writes
      BY <2>1, <2>14, <3>1, SaveObjectWrites DEF LoseLink
    <3> QED BY <2>4, <2>5, <2>14, <3>2 DEF LoseLink, MemoryOK
  <2>15. ASSUME NEW u \in Conns, Quit(u)
         PROVE  Mortal'
    <3>1. conn[u].as \in Objs
      BY <2>15 DEF Quit, MemoryOK, Conn
    <3>2. Writes
      BY <2>15, <3>1, SaveObjectWrites DEF Quit
    <3> QED BY <2>15, <3>1, <3>2, RemovedMortal DEF Quit
  <2>16. ASSUME NEW u \in Conns, Resurrect(u)
         PROVE  Mortal'
    BY <2>16 DEF Resurrect
  <2>17. ASSUME NEW o \in Objs, EnterArda(o)
         PROVE  Mortal'
    <3> DEFINE x == [obj[o] EXCEPT !.place = "world", !.saving = TRUE]
    <3>1. x.kind = obj[o].kind /\ x.v = obj[o].v /\ x.living = obj[o].living /\ x.place = "world"
      BY DEF MemoryOK, Object
    <3>2. obj' = [obj EXCEPT ![o] = x] /\ UNCHANGED <<files, reg, conn, kept>> /\ obj[o].place = "login"
      BY <2>17 DEF EnterArda
    <3> HIDE DEF x
    <3>3. \A p \in Objs : obj'[p] = IF p = o THEN x ELSE obj[p]
      BY <3>2 DEF MemoryOK
    <3>4. FoundByName'
      BY <3>1, <3>2, <3>3 DEF FoundByName
    <3>5. \A p \in {reg.soul, reg.body} : p # Nil => p \in Objs
      BY DEF MemoryOK
    <3>6. CASE Settled
      <4>1. Settled' /\ (reg'.body # Nil => ~obj'[reg'.body].living)
        BY <3>1, <3>2, <3>3, <3>5, <3>6 DEF Settled, FInv, Mortal
      <4> QED BY <3>4, <4>1 DEF Mortal
    <3>7. CASE ~Settled /\ reg.soul = o
      <4>1. reg.body = Nil
        BY <3>7, NilAssumption DEF FInv, Mortal, Unsettled
      <4>2. Settled'
        BY <3>1, <3>2, <3>3, <3>7, NilAssumption DEF Settled
      <4> QED BY <3>2, <3>4, <4>1, <4>2 DEF Mortal
    <3>8. CASE ~Settled /\ reg.soul # o
      <4>1. ~Settled'
        BY <3>2, <3>3, <3>5, <3>8 DEF Settled
      <4>2. Unsettled /\ Unsettled'
        BY <3>2, <3>8 DEF FInv, Mortal, Unsettled
      <4> QED BY <3>4, <4>1, <4>2 DEF Mortal
    <3> QED BY <3>6, <3>7, <3>8
  <2>18. ASSUME NEW o \in Objs, NEW x \in Object, x.kind = obj[o].kind,
                x.v = obj[o].v \/ (x.v = obj[o].v + 1 /\ obj[o].v > 0), x.place = obj[o].place,
                x.living => obj[o].living,
                obj' = [obj EXCEPT ![o] = x], UNCHANGED <<files, reg, conn, kept>>
         PROVE  Mortal'
    <3>1. \A p \in Objs : obj'[p] = IF p = o THEN x ELSE obj[p]
      BY <2>18 DEF MemoryOK
    <3>2. \A p \in {reg.soul, reg.body} : p # Nil => p \in Objs
      BY DEF MemoryOK
    <3>3. FoundByName'
      <4>1. obj[o].v \in Nat /\ kept \in Nat
        BY DEF MemoryOK, Object, FInv, FileTypeOK
      <4> QED BY <2>18, <3>1, <4>1 DEF FoundByName
    <3>4. Settled' <=> Settled
      BY <2>18, <3>1, <3>2 DEF Settled
    <3>5. CASE Settled
      BY <2>18, <3>1, <3>2, <3>3, <3>4, <3>5 DEF FInv, Mortal
    <3>6. CASE ~Settled
      <4>1. Unsettled /\ Unsettled'
        BY <2>18, <3>6 DEF FInv, Mortal, Unsettled
      <4> QED BY <3>3, <3>4, <3>6, <4>1 DEF Mortal
    <3> QED BY <3>5, <3>6
  <2>19. ASSUME NEW o \in Objs, Progress(o)
         PROVE  Mortal'
    <3> DEFINE x == [obj[o] EXCEPT !.v = @ + 1]
    <3>1. x \in Object /\ x.kind = obj[o].kind /\ x.v = obj[o].v + 1 /\ x.place = obj[o].place
          /\ x.living = obj[o].living
      BY DEF MemoryOK, Object
    <3>2. obj[o].v > 0
      BY <2>19, MaxProgressAssumption DEF Progress, MemoryOK, Object
    <3>3. obj' = [obj EXCEPT ![o] = x] /\ UNCHANGED <<files, reg, conn, kept>>
      BY <2>19 DEF Progress
    <3> HIDE DEF x
    <3> QED BY <2>18, <3>1, <3>2, <3>3
  <2>20. ASSUME NEW o \in Objs, TurnStone(o)
         PROVE  Mortal'
    <3> DEFINE x == [obj[o] EXCEPT !.stone = TRUE, !.living = FALSE, !.saving = FALSE]
    <3>1. x \in Object /\ x.kind = obj[o].kind /\ x.v = obj[o].v /\ x.place = obj[o].place /\ ~x.living
      BY DEF MemoryOK, Object
    <3>2. obj' = [obj EXCEPT ![o] = x] /\ UNCHANGED <<files, reg, conn, kept>>
      BY <2>20 DEF TurnStone
    <3> HIDE DEF x
    <3> QED BY <2>18, <3>1, <3>2
  <2>21. ASSUME NEW o \in Objs, Autosave(o)
         PROVE  Mortal'
    BY <2>3, <2>21, SaveObjectWrites DEF Autosave
  <2>22. ASSUME NEW o \in Objs, SaveFails(o)
         PROVE  Mortal'
    <3>1. files' \in Prepared(files, obj[o]) /\ CanSave(obj[o]) /\ UNCHANGED <<memory, kept>>
      BY <2>22 DEF SaveFails
    <3>2. CASE obj[o].kind = "body"
      <4>1. files'.dead = files.dead
        BY <3>1, <3>2, PreparedFiles DEF FInv, MemoryOK
      <4>2. Writes
        BY <3>1, <4>1 DEF Writes, FoundByName
      <4> QED BY <2>3, <3>1, <4>2
    <3>3. CASE obj[o].kind # "body"
      <4>1. Settled
        BY <3>1, <3>3, NilAssumption DEF CanSave, FoundByName, Settled
      <4>2. Writes
        BY <3>1, <4>1 DEF Writes, FoundByName
      <4> QED BY <2>3, <3>1, <4>2
    <3> QED BY <3>2, <3>3
  <2>23. ASSUME NEW o \in Objs, Decay(o)
         PROVE  Mortal'
    BY <2>1, <2>23, RemovedMortal DEF Decay
  <2>24. ASSUME NEW o \in Objs, Die(o)
         PROVE  Mortal'
    BY <2>24, DieMortal
  <2>25. CASE CreatorSave
    <3>1. Saved(files, NewCharacter).dead = files.dead /\ Saved(files, NewCharacter) \in Files
      BY NewCharacterSaved, SavedFiles DEF FInv
    <3>2. files'.dead = files.dead /\ kept' = 1 /\ UNCHANGED memory
      BY <2>25, <3>1 DEF CreatorSave, Files
    <3>3. \A o \in Objs : obj[o].v > 0 => obj[o].v >= 1
      BY DEF MemoryOK, Object
    <3>4. Writes
      BY <3>2, <3>3 DEF Writes
    <3> QED BY <2>3, <3>2, <3>4
  <2>26. CASE OpenCreator \/ CloseCreator
    BY <2>1, <2>3, <2>26 DEF OpenCreator, CloseCreator
  <2>27. CASE Refuse
    <3>1. Writes
      BY <2>27 DEF Refuse, Writes, FoundByName, Files
    <3> QED BY <2>3, <2>27, <3>1 DEF Refuse
  <2>28. CASE Shutdown \/ Crash
    BY <2>28, LostMortal DEF Shutdown, Crash
  <2>29. CASE UNCHANGED fileVars
    BY <2>1, <2>3, <2>29 DEF fileVars, memory
  <2> QED BY <2>7, <2>8, <2>11, <2>12, <2>13, <2>14, <2>15, <2>16, <2>17, <2>19, <2>20, <2>21, <2>22,
             <2>23, <2>24, <2>25, <2>26, <2>27, <2>28, <2>29 DEF FileNext
<1> QED BY <1>2, <1>3

-----------------------------------------------------------------------------
(* Theorems. *)

LEMMA FInvStep == FInv /\ [FileNext]_fileVars => FInv'
<1> SUFFICES ASSUME FInv, [FileNext]_fileVars PROVE FInv'
  OBVIOUS
<1>1. MemoryOK' /\ Named'
  BY MemoryStep
<1>2. files' \in Files /\ kept' \in Nat /\ creator' \in BOOLEAN /\ SaveKept'
  BY FilesStep
<1>3. coder' \in BOOLEAN
  <2>1. coder \in BOOLEAN
    BY DEF FInv, FileTypeOK
  <2>2. coder' = coder
    BY FilesStep
  <2> QED BY <2>1, <2>2
<1>4. FileTypeOK'
  BY <1>1, <1>2, <1>3 DEF FileTypeOK, MemoryOK
<1> QED BY <1>1, <1>2, <1>4, MortalStep DEF FInv

LEMMA FInvAlways == FileSpec => []FInv
BY FInvInit, FInvStep, PTL DEF FileSpec

\* Names and connections stand for objects that are there, and nobody plays what another
\* plays, through death, resurrection, lost links and crashes.
THEOREM FileTypeCorrect == FileSpec => []FileTypeOK
<1>1. FInv => FileTypeOK
  BY DEF FInv
<1> QED BY <1>1, FInvAlways, PTL

\* The progress that was written last is in the character's file, or in the .bak if there is
\* none, whatever save() was interrupted by and whatever the host does with a rename.
THEOREM SaveKeptAlways == FileSpec => []SaveKept
<1>1. FInv => SaveKept
  BY DEF FInv
<1> QED BY <1>1, FInvAlways, PTL

LEMMA AtMostOne == ASSUME NEW S, NEW p, S \subseteq {p} PROVE Cardinality(S) <= 1
<1>1. CASE S = {}
  <2>1. Cardinality({}) = 0
    BY FS_EmptySet
  <2> QED BY <1>1, <2>1
<1>2. CASE S = {p}
  <2>1. Cardinality({p}) = 1
    BY FS_Singleton
  <2> QED BY <1>2, <2>1
<1> QED BY <1>1, <1>2

\* A mortal is in the game once, dead or alive: only what is found by the name was restored,
\* of body and soul only one is present, and with the file of the dead no body.
THEOREM OneOfAMortalAlways == FileSpec => []OneOfAMortal
<1>1. FInv => OneOfAMortal
  <2> SUFFICES ASSUME FInv, ~coder PROVE AlreadyPlaying /\ DeadStayDead
    BY DEF OneOfAMortal
  <2>1. MemoryOK /\ Named /\ FoundByName
    BY FromType DEF FInv, Mortal
  <2>2. \A o \in Present : o \in Objs /\ obj[o].v > 0 /\ obj[o] \in Object
    BY <2>1 DEF Present, MemoryOK
  <2>3. CASE Settled
    <3>1. \A o \in Present : obj[o].kind # "body"
      BY <2>1, <2>2, <2>3, NilAssumption DEF FoundByName, FInv, Mortal, Present
    <3>2. Present \subseteq {reg.soul}
      BY <2>1, <2>2, <3>1 DEF FoundByName
    <3>3. Cardinality(Present) <= 1
      BY <3>2, AtMostOne
    <3> QED BY <3>1, <3>3 DEF AlreadyPlaying, DeadStayDead
  <2>4. CASE ~Settled
    <3>1. Unsettled
      BY <2>4 DEF FInv, Mortal
    <3>2. files.dead => \A o \in Present : obj[o].kind # "body"
      BY <2>1, <2>2, <3>1, NilAssumption DEF FoundByName, Unsettled
    <3>3. PICK p : Present \subseteq {p}
      <4>1. CASE reg.body = Nil
        <5>1. Present \subseteq {reg.soul}
          BY <2>1, <2>2, <4>1, NilAssumption DEF FoundByName
        <5> QED BY <5>1
      <4>2. CASE reg.body # Nil
        <5>1. Present \subseteq {reg.body}
          BY <2>1, <2>2, <3>1, <4>2, NilAssumption DEF FoundByName, Unsettled
        <5> QED BY <5>1
      <4> QED BY <4>1, <4>2
    <3>4. Cardinality(Present) <= 1
      BY <3>3, AtMostOne
    <3> QED BY <3>2, <3>4 DEF AlreadyPlaying, DeadStayDead
  <2> QED BY <2>3, <2>4
<1> QED BY <1>1, FInvAlways, PTL

\* No object of a mortal writes less than was written before: what is restored is at least
\* that, and there is no second object that could be behind.
THEOREM MortalNeverOlder == FileSpec => NeverOlder
<1>1. FInv /\ [FileNext]_fileVars => [~coder /\ kept' < kept => creator]_fileVars
  <2> SUFFICES ASSUME FInv, FileNext, ~coder, ~creator PROVE ~(kept' < kept)
    OBVIOUS
  <2>1. MemoryOK /\ FoundByName /\ SaveKept /\ FileTypeOK /\ kept \in Nat /\ files \in Files
    BY FromType DEF FInv, Mortal, FileTypeOK
  <2>2. ASSUME NEW o \in Objs, SaveObject(obj[o])
        PROVE  ~(kept' < kept)
    <3>1. CASE ~CanSave(obj[o]) \/ obj[o].kind # "body"
      BY <2>1, <2>2, <3>1 DEF SaveObject
    <3>2. CASE CanSave(obj[o]) /\ obj[o].kind = "body"
      <4>1. kept' = obj[o].v /\ obj[o].v > 0 /\ obj[o].v \in Nat
        BY <2>1, <2>2, <3>2 DEF SaveObject, CanSave, MemoryOK, Object
      <4> QED BY <2>1, <3>2, <4>1 DEF FoundByName
    <3> QED BY <3>1, <3>2
  <2>3. CASE kept' = kept
    BY <2>1, <2>3
  <2>4. ASSUME NEW u \in Conns,
               Connect(u) \/ GetName(u) \/ CheckPassword(u) \/ Certify(u) \/ Apply(u) \/ Resurrect(u)
        PROVE  kept' = kept
    BY <2>4 DEF Connect, GetName, CheckPassword, Certify, Apply, Resurrect
  <2>5. ASSUME NEW u \in Conns, LoseLink(u) \/ Quit(u)
        PROVE  ~(kept' < kept)
    <3>1. conn[u].as # Nil => conn[u].as \in Objs
      BY <2>1 DEF MemoryOK, Conn
    <3> QED BY <2>2, <2>3, <2>5, <3>1 DEF LoseLink, Quit
  <2>6. ASSUME NEW o \in Objs,
               EnterArda(o) \/ Progress(o) \/ SaveFails(o) \/ TurnStone(o) \/ Die(o) \/ Decay(o)
        PROVE  kept' = kept
    BY <2>6 DEF EnterArda, Progress, SaveFails, TurnStone, Die, Decay
  <2>7. ASSUME NEW o \in Objs, Autosave(o)
        PROVE  ~(kept' < kept)
    BY <2>2, <2>7 DEF Autosave
  <2>8. CASE OpenCreator \/ CreatorSave \/ CloseCreator \/ Refuse
    BY <2>3, <2>8 DEF OpenCreator, CreatorSave, CloseCreator, Refuse
  <2>9. CASE Shutdown
    <3>1. kept' = kept \/ \E o \in Objs : CanSave(obj[o]) /\ obj[o].kind = "body" /\ kept' = obj[o].v
      BY <2>9 DEF Shutdown
    <3>2. ASSUME NEW o \in Objs, CanSave(obj[o]), obj[o].kind = "body", kept' = obj[o].v
          PROVE  ~(kept' < kept)
      <4>1. obj[o].v > 0 /\ obj[o].v \in Nat
        BY <2>1, <3>2 DEF CanSave, MemoryOK, Object
      <4> QED BY <2>1, <3>2, <4>1 DEF FoundByName
    <3> QED BY <2>3, <3>1, <3>2
  <2>10. CASE Crash
    <3> DEFINE saving == {obj[o] : o \in {p \in Objs : CanSave(obj[p])}}
                         \cup (IF creator THEN {NewCharacter} ELSE {})
    <3>1. files' \in {files} \cup UNION {Torn(files, o) : o \in saving}
      BY <2>10 DEF Crash
    <3>2. kept' = IF files'.main > 0 THEN files'.main ELSE kept
      BY <2>10 DEF Crash
    <3>3. CASE files' = files
      BY <2>1, <3>2, <3>3 DEF SaveKept, Files
    <3>4. ASSUME NEW o \in Objs, CanSave(obj[o]), files' \in Torn(files, obj[o])
          PROVE  ~(kept' < kept)
      <4>1. /\ files' \in Files
            /\ \/ files'.main = kept \/ (files'.main = 0 /\ files'.bak = kept)
               \/ obj[o].kind = "body" /\ files'.main = obj[o].v
        BY <2>1, <3>4, TornFiles DEF MemoryOK
      <4>2. obj[o].v > 0 /\ obj[o].v \in Nat /\ (obj[o].kind = "body" => obj[o].v >= kept)
        BY <2>1, <3>4 DEF CanSave, FoundByName, MemoryOK, Object
      <4> QED BY <2>1, <3>2, <4>1, <4>2 DEF Files
    <3>5. files' = files \/ \E o \in Objs : CanSave(obj[o]) /\ files' \in Torn(files, obj[o])
      BY <3>1
    <3> QED BY <3>3, <3>4, <3>5
  <2> QED BY <2>3, <2>4, <2>5, <2>6, <2>7, <2>8, <2>9, <2>10 DEF FileNext
<1> QED BY <1>1, FInvAlways, PTL DEF FileSpec, NeverOlder
=============================================================================
