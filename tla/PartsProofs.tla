----------------------------- MODULE PartsProofs -----------------------------
(***************************************************************************)
(* Proofs about eight parts of the world that share no state: doors and    *)
(* stairs, spells that are cast, events, ailments of the livings, mail,    *)
(* what a player gets back at login, the queue of commands, and the way    *)
(* that an npc looks for.                                                  *)
(***************************************************************************)
EXTENDS Doors, Ailments, Spells, Events, Mail, Reload, CmdQueue, FindWay, SetInduction, SequenceTheorems, TLAPS

(***************************************************************************)
(* Proofs about Doors, for any number of doors, whichever halves have a    *)
(* lock and however they start.  HalvesAgree is inductive together with    *)
(* the types: a command that works leaves both halves of its door with one *)
(* status, and any other step leaves the flags of a half alone or makes it *)
(* anew.                                                                   *)
(***************************************************************************)

DoorInv == DoorTypeOK /\ HalvesAgree

\* Flags of halves, none of which is locked and open.
FlagsOK(f) == f.closed \subseteq Halves /\ f.locked \subseteq f.closed

\* Two flags say the same of every half but those in H.
SameBut(f, g, H) == \A k \in Halves \ H : k \in f.closed <=> k \in g.closed

\* The flags that the halves have.
Now == [closed |-> CLOSED, locked |-> LOCKED]

-----------------------------------------------------------------------------
LEMMA OtherIsOther ==
  ASSUME NEW h \in Halves
  PROVE  OtherHalf[h] \in Halves /\ OtherHalf[h] # h /\ OtherHalf[OtherHalf[h]] = h
  BY OtherHalfAssumption

LEMMA SetStatusSets ==
  ASSUME NEW f, FlagsOK(f), NEW h \in Halves, NEW st
  PROVE  /\ FlagsOK(SetStatus(f, h, st))
         /\ h \in SetStatus(f, h, st).closed <=> st # DOOR_OPEN
         /\ SameBut(SetStatus(f, h, st), f, {h})
  BY DEF SetStatus, FlagsOK, SameBut, DOOR_OPEN, DOOR_LOCKED

\* After SetBoth() the halves agree.
LEMMA SetBothSets ==
  ASSUME NEW f, FlagsOK(f), NEW h \in Halves, NEW st
  PROVE  /\ FlagsOK(SetBoth(f, h, st))
         /\ h \in SetBoth(f, h, st).closed <=> OtherHalf[h] \in SetBoth(f, h, st).closed
         /\ SameBut(SetBoth(f, h, st), f, {h, OtherHalf[h]})
<1> DEFINE o == OtherHalf[h]
<1> DEFINE g == SetStatus(f, o, st)
<1>1. o \in Halves /\ o # h
  BY OtherIsOther
<1>2. FlagsOK(g) /\ (o \in g.closed <=> st # DOOR_OPEN) /\ SameBut(g, f, {o})
  BY <1>1, SetStatusSets
<1> HIDE DEF g
<1>3. /\ FlagsOK(SetStatus(g, h, st))
      /\ h \in SetStatus(g, h, st).closed <=> st # DOOR_OPEN
      /\ SameBut(SetStatus(g, h, st), g, {h})
  BY <1>2, SetStatusSets
<1>4. SetBoth(f, h, st) = SetStatus(g, h, st)
  BY DEF SetBoth, g
<1> QED
  BY <1>1, <1>2, <1>3, <1>4 DEF SameBut

LEMMA MadeMakes ==
  ASSUME NEW f, FlagsOK(f), NEW h \in Halves
  PROVE  FlagsOK(Made(f, h)) /\ SameBut(Made(f, h), f, {h})
<1> DEFINE g == [closed |-> f.closed \ {h}, locked |-> f.locked \ {h}]
<1>1. FlagsOK(g) /\ SameBut(g, f, {h})
  BY DEF FlagsOK, SameBut
<1> HIDE DEF g
<1>2. FlagsOK(SetStatus(g, h, FreshStatus[h])) /\ SameBut(SetStatus(g, h, FreshStatus[h]), g, {h})
  BY <1>1, SetStatusSets
<1>3. Made(f, h) = SetStatus(g, h, FreshStatus[h])
  BY DEF Made, g
<1> QED
  BY <1>1, <1>2, <1>3 DEF SameBut

\* Finding the other half touches no half but that, and that only if it was not loaded.
LEMMA OtherFoundFinds ==
  ASSUME DoorInv, NEW h \in Halves
  PROVE  /\ FlagsOK(OtherFound(h))
         /\ SameBut(OtherFound(h), Now, {OtherHalf[h]} \ loaded)
<1>1. FlagsOK(Now)
  BY DEF DoorInv, DoorTypeOK, HalvesAgree, FlagsOK, Now
<1>2. CASE OtherHalf[h] \in loaded
  <2>1. OtherFound(h) = Now
    BY <1>2 DEF OtherFound, Now
  <2> QED
    BY <1>1, <2>1 DEF SameBut
<1>3. CASE OtherHalf[h] \notin loaded
  <2>1. OtherFound(h) = Made(Now, OtherHalf[h])
    BY <1>3 DEF OtherFound, Now
  <2>2. FlagsOK(Made(Now, OtherHalf[h])) /\ SameBut(Made(Now, OtherHalf[h]), Now, {OtherHalf[h]})
    BY <1>1, OtherIsOther, MadeMakes
  <2> QED
    BY <1>3, <2>1, <2>2 DEF SameBut
<1> QED
  BY <1>2, <1>3

-----------------------------------------------------------------------------
\* A command that works keeps the invariant if it leaves the halves of its door alike.
LEMMA WorksKeeps ==
  ASSUME DoorInv, NEW h \in Halves, NEW f,
         Find(h), DoorWorks(h, f), FlagsOK(f), h \in f.closed <=> OtherHalf[h] \in f.closed,
         SameBut(f, Now, {h, OtherHalf[h]})
  PROVE  DoorInv'
<1> DEFINE o == OtherHalf[h]
<1>1. /\ o \in Halves /\ loaded' = loaded \cup {o} /\ h \in loaded
      /\ CLOSED' = f.closed /\ LOCKED' = f.locked /\ anew' = anew \ {h, o}
  BY OtherIsOther DEF Find, DoorWorks, Flags
<1>2. DoorTypeOK' /\ LOCKED' \subseteq CLOSED'
  BY <1>1 DEF DoorInv, DoorTypeOK, FlagsOK
<1>3. ASSUME NEW k \in loaded', OtherHalf[k] \in loaded' \ anew', k \notin anew'
      PROVE  k \in CLOSED' <=> OtherHalf[k] \in CLOSED'
  <2>1. k \in Halves /\ OtherHalf[k] \in Halves /\ OtherHalf[OtherHalf[k]] = k
    BY <1>1, OtherIsOther DEF DoorInv, DoorTypeOK
  <2>2. CASE k \in {h, o}
    BY <1>1, <2>1, <2>2, OtherIsOther
  <2>3. CASE k \notin {h, o}
    <3>1. OtherHalf[k] \notin {h, o}
      BY <2>1, <2>3, OtherIsOther
    <3>2. k \in loaded \ anew /\ OtherHalf[k] \in loaded \ anew
      BY <1>1, <1>3, <2>3, <3>1
    <3>3. k \in CLOSED <=> OtherHalf[k] \in CLOSED
      BY <3>2 DEF DoorInv, HalvesAgree
    <3> QED
      BY <1>1, <2>1, <2>3, <3>1, <3>3 DEF SameBut, Now
  <2> QED
    BY <2>2, <2>3
<1> QED
  BY <1>2, <1>3 DEF DoorInv, HalvesAgree

\* A half that is made anew, or none, keeps the invariant.
LEMMA MakingKeeps ==
  ASSUME DoorInv, NEW f, NEW H \in SUBSET Halves,
         FlagsOK(f), SameBut(f, Now, H), Flags(f),
         loaded' \subseteq loaded \cup H, anew' = anew \cup H
  PROVE  DoorInv'
<1>1. DoorTypeOK' /\ LOCKED' \subseteq CLOSED'
  BY DEF DoorInv, DoorTypeOK, FlagsOK, Flags
<1>2. ASSUME NEW k \in loaded', OtherHalf[k] \in loaded' \ anew', k \notin anew'
      PROVE  k \in CLOSED' <=> OtherHalf[k] \in CLOSED'
  <2>1. k \in Halves /\ OtherHalf[k] \in Halves
    BY OtherIsOther DEF DoorInv, DoorTypeOK
  <2>2. k \in (loaded \ anew) \ H /\ OtherHalf[k] \in (loaded \ anew) \ H
    BY <1>2
  <2>3. k \in CLOSED <=> OtherHalf[k] \in CLOSED
    BY <2>2 DEF DoorInv, HalvesAgree
  <2> QED
    BY <2>1, <2>2, <2>3 DEF SameBut, Now, Flags
<1> QED
  BY <1>1, <1>2 DEF DoorInv, HalvesAgree

LEMMA FailsKeeps ==
  ASSUME DoorInv, NEW h \in Halves, Find(h), DoorFails(h)
  PROVE  DoorInv'
<1> DEFINE H == {OtherHalf[h]} \ loaded
<1>1. FlagsOK(OtherFound(h)) /\ SameBut(OtherFound(h), Now, H)
  BY OtherFoundFinds
<1>2. H \subseteq Halves /\ loaded' \subseteq loaded \cup H /\ anew' = anew \cup H /\ Flags(OtherFound(h))
  BY OtherIsOther DEF Find, DoorFails
<1> HIDE DEF H
<1> QED
  BY <1>1, <1>2, MakingKeeps

\* Setting both halves, from flags that differ from the present ones at this door only.
LEMMA SettingKeeps ==
  ASSUME DoorInv, NEW h \in Halves, NEW f, NEW st, Find(h),
         FlagsOK(f), SameBut(f, Now, {h, OtherHalf[h]}), DoorWorks(h, SetBoth(f, h, st))
  PROVE  DoorInv'
<1> DEFINE g == SetBoth(f, h, st)
<1>1. FlagsOK(g) /\ (h \in g.closed <=> OtherHalf[h] \in g.closed) /\ SameBut(g, f, {h, OtherHalf[h]})
  BY SetBothSets
<1> HIDE DEF g
<1>2. SameBut(g, Now, {h, OtherHalf[h]})
  BY <1>1 DEF SameBut
<1>3. DoorWorks(h, g)
  BY DEF g
<1> QED
  BY <1>1, <1>2, <1>3, WorksKeeps

\* What unlock_cmd() does before it sets the status.
LEMMA UnlockedKeeps ==
  ASSUME DoorInv, NEW h \in Halves
  PROVE  /\ FlagsOK(Unlocked(OtherFound(h), h))
         /\ SameBut(Unlocked(OtherFound(h), h), Now, {h, OtherHalf[h]})
<1> DEFINE f == OtherFound(h)
<1> DEFINE g == [closed |-> f.closed \cup {h}, locked |-> f.locked \ {h}]
<1>1. FlagsOK(f) /\ SameBut(f, Now, {h, OtherHalf[h]})
  BY OtherFoundFinds DEF SameBut
<1> HIDE DEF f
<1>2. FlagsOK(g) /\ SameBut(g, f, {h, OtherHalf[h]})
  BY <1>1 DEF FlagsOK, SameBut
<1> HIDE DEF g
<1>3. FlagsOK(SetBoth(g, h, DOOR_UNLOCKED)) /\ SameBut(SetBoth(g, h, DOOR_UNLOCKED), g, {h, OtherHalf[h]})
  BY <1>2, SetBothSets
<1>4. Unlocked(f, h) = SetBoth(g, h, DOOR_UNLOCKED)
  BY DEF Unlocked, g
<1> QED
  BY <1>1, <1>2, <1>3, <1>4 DEF SameBut, f

-----------------------------------------------------------------------------
LEMMA DoorStep ==
  ASSUME DoorInv, [DoorNext]_doorVars
  PROVE  DoorInv'
<1>1. CASE UNCHANGED doorVars
  BY <1>1 DEF doorVars, DoorInv, DoorTypeOK, HalvesAgree
<1>2. CASE DoorNext
  <2>1. PICK h \in Halves :
          \/ \E keyNamed, fits \in BOOLEAN : OpenCmd(h, keyNamed, fits) \/ CloseCmd(h, keyNamed, fits)
          \/ \E fits \in BOOLEAN : LockCmd(h, fits) \/ UnlockCmd(h, fits)
          \/ EnterDoor(h) \/ Unload(h) \/ Load(h)
    BY <1>2 DEF DoorNext
  <2>2. FlagsOK(OtherFound(h)) /\ SameBut(OtherFound(h), Now, {h, OtherHalf[h]})
    BY OtherFoundFinds DEF SameBut
  <2>3. FlagsOK(Unlocked(OtherFound(h), h)) /\ SameBut(Unlocked(OtherFound(h), h), Now, {h, OtherHalf[h]})
    BY UnlockedKeeps
  <2>4. ASSUME NEW keyNamed \in BOOLEAN, NEW fits \in BOOLEAN, OpenCmd(h, keyNamed, fits)
        PROVE  DoorInv'
    <3> DEFINE f == IF keyNamed THEN Unlocked(OtherFound(h), h) ELSE OtherFound(h)
    <3>1. FlagsOK(f) /\ SameBut(f, Now, {h, OtherHalf[h]})
      BY <2>2, <2>3
    <3>2. Find(h) /\ (DoorWorks(h, SetBoth(f, h, DOOR_OPEN)) \/ DoorFails(h))
      BY <2>4 DEF OpenCmd
    <3> HIDE DEF f
    <3> QED
      BY <3>1, <3>2, SettingKeeps, FailsKeeps
  <2>5. ASSUME NEW keyNamed \in BOOLEAN, NEW fits \in BOOLEAN, CloseCmd(h, keyNamed, fits)
        PROVE  DoorInv'
    <3>1. /\ Find(h)
          /\ \/ DoorWorks(h, SetBoth(OtherFound(h), h, DOOR_LOCKED))
             \/ DoorWorks(h, SetBoth(OtherFound(h), h, DOOR_CLOSED))
             \/ DoorFails(h)
      BY <2>5 DEF CloseCmd
    <3> QED
      BY <2>2, <3>1, SettingKeeps, FailsKeeps
  <2>6. ASSUME NEW fits \in BOOLEAN, LockCmd(h, fits)
        PROVE  DoorInv'
    <3>1. Find(h) /\ (DoorWorks(h, SetBoth(OtherFound(h), h, DOOR_LOCKED)) \/ DoorFails(h))
      BY <2>6 DEF LockCmd
    <3> QED
      BY <2>2, <3>1, SettingKeeps, FailsKeeps
  <2>7. ASSUME NEW fits \in BOOLEAN, UnlockCmd(h, fits)
        PROVE  DoorInv'
    <3> DEFINE f == OtherFound(h)
    <3> DEFINE g == [closed |-> f.closed \cup {h}, locked |-> f.locked \ {h}]
    <3>1. FlagsOK(g) /\ SameBut(g, Now, {h, OtherHalf[h]})
      BY <2>2 DEF FlagsOK, SameBut
    <3>2. Find(h) /\ (DoorWorks(h, SetBoth(g, h, DOOR_UNLOCKED)) \/ DoorFails(h))
      BY <2>7 DEF UnlockCmd, Unlocked
    <3> HIDE DEF g
    <3> QED
      BY <3>1, <3>2, SettingKeeps, FailsKeeps
  <2>8. CASE EnterDoor(h)
    BY <2>8, FailsKeeps DEF EnterDoor
  <2>9. CASE Unload(h)
    <3>1. FlagsOK(Now) /\ SameBut(Now, Now, {}) /\ Flags(Now)
      BY <2>9 DEF Unload, DoorInv, DoorTypeOK, HalvesAgree, FlagsOK, SameBut, Flags, Now
    <3>2. loaded' \subseteq loaded \cup {} /\ anew' = anew \cup {}
      BY <2>9 DEF Unload
    <3> QED
      BY <3>1, <3>2, MakingKeeps
  <2>10. CASE Load(h)
    <3>1. FlagsOK(Now)
      BY DEF DoorInv, DoorTypeOK, HalvesAgree, FlagsOK, Now
    <3>2. FlagsOK(Made(Now, h)) /\ SameBut(Made(Now, h), Now, {h})
      BY <3>1, MadeMakes
    <3>3. Flags(Made(Now, h)) /\ loaded' \subseteq loaded \cup {h} /\ anew' = anew \cup {h}
      BY <2>10 DEF Load, Now
    <3> QED
      BY <3>2, <3>3, MakingKeeps
  <2> QED
    BY <2>1, <2>4, <2>5, <2>6, <2>7, <2>8, <2>9, <2>10
<1> QED
  BY <1>1, <1>2

LEMMA DoorStart == DoorInit => DoorInv
<1> SUFFICES ASSUME DoorInit PROVE DoorInv
  OBVIOUS
<1>1. /\ loaded = Halves /\ anew = Halves
      /\ CLOSED = Halves \ {h \in Halves : FreshStatus[h] = DOOR_OPEN}
      /\ LOCKED = {h \in Halves : FreshStatus[h] = DOOR_LOCKED}
  BY DEF DoorInit
<1> QED
  BY <1>1 DEF DoorInv, DoorTypeOK, HalvesAgree, DOOR_OPEN, DOOR_LOCKED

LEMMA DoorAlways == DoorSpec => []DoorInv
<1> QED
  BY DoorStart, DoorStep, PTL DEF DoorSpec

\* Flags are those of halves, and what is made anew is a half (door.c).
THEOREM DoorTypeCorrect == DoorSpec => []DoorTypeOK
<1>1. DoorInv => DoorTypeOK
  BY DEF DoorInv
<1> QED
  BY <1>1, DoorAlways, PTL

\* Whatever is opened, closed, locked, unlocked, loaded and removed, both halves of a door
\* are open or closed alike once a command has worked on it, and none is locked and open.
THEOREM DoorHalvesAgree == DoorSpec => []HalvesAgree
<1>1. DoorInv => HalvesAgree
  BY DEF DoorInv
<1> QED
  BY <1>1, DoorAlways, PTL

(***************************************************************************)
(* Proofs about Spells, for any spells and however far SPELL_CODE counts.  *)
(***************************************************************************)

\* Every cast has a code of its own.
CodesDiffer == \A c, d \in casting : c.code = d.code => c = d

\* The cast that delay_spell() would accept is the one that was kept in mind.
AcceptedIsKept == concentrate => \A c \in casting : c.code = spell_code => kept = c.code

SpellInv == SpellTypeOK /\ CodesDiffer /\ AcceptedIsKept /\ SomethingInMind

\* A cast that is uttered has a code that no earlier one has.
LEMMA CastKeeps ==
  ASSUME SpellInv, NEW s \in Charms, Cast(s)
  PROVE  SpellInv'
<1> DEFINE new == [charm |-> s, code |-> CodeAfter + 1]
<1>1. /\ spell_code \in Nat /\ CodeAfter \in Nat /\ CodeAfter >= spell_code
      /\ spell_code' = CodeAfter + 1 /\ kept' = CodeAfter + 1 /\ concentrate'
      /\ spell_code' \in 0 .. MaxCode
  BY SpellAssumption DEF SpellInv, SpellTypeOK, Cast, CodeAfter
<1>2. casting' = casting \cup {new} /\ new.code = spell_code' /\ new.charm = s
  BY <1>1 DEF Cast
<1>3. \A c \in casting : /\ c \in [charm : Charms, code : 1 .. spell_code]
                         /\ c.code \in Nat /\ c.code < spell_code'
  BY <1>1 DEF SpellInv, SpellTypeOK
<1>4. SpellTypeOK'
  <2>1. new \in [charm : Charms, code : 1 .. spell_code']
    BY <1>1
  <2>2. \A c \in casting : c \in [charm : Charms, code : 1 .. spell_code']
    BY <1>1, <1>3
  <2>3. lasting' \subseteq Charms /\ data' \in Charms \cup {NoCharm}
    BY DEF SpellInv, SpellTypeOK, Cast, EffectStops
  <2> QED
    BY <1>1, <1>2, <2>1, <2>2, <2>3 DEF SpellTypeOK
<1>5. CodesDiffer'
  BY <1>1, <1>2, <1>3 DEF SpellInv, CodesDiffer
<1>6. AcceptedIsKept'
  BY <1>1, <1>2 DEF AcceptedIsKept
<1>7. SomethingInMind'
  BY <1>2 DEF SomethingInMind
<1> QED
  BY <1>4, <1>5, <1>6, <1>7 DEF SpellInv

\* A spell that is due is accepted by itself or finds itself disturbed; in both cases what
\* is left of the casts has other codes.
LEMMA DelaySpellKeeps ==
  ASSUME SpellInv, NEW c \in casting, DelaySpell(c)
  PROVE  SpellInv'
<1>1. casting' = casting \ {c} /\ spell_code' = spell_code
  BY DEF DelaySpell
<1>2. SpellTypeOK'
  <2>1. casting' \subseteq [charm : Charms, code : 1 .. spell_code]
    BY <1>1 DEF SpellInv, SpellTypeOK
  <2>2. c.charm \in Charms /\ 0 \in 0 .. spell_code
    BY SpellAssumption DEF SpellInv, SpellTypeOK
  <2>3. /\ concentrate' \in BOOLEAN /\ kept' \in 0 .. spell_code
        /\ lasting' \subseteq Charms /\ data' \in Charms \cup {NoCharm}
    BY <2>2 DEF SpellInv, SpellTypeOK, DelaySpell, SpellNow
  <2> QED
    BY <1>1, <2>1, <2>3 DEF SpellInv, SpellTypeOK
<1>3. CodesDiffer'
  BY <1>1 DEF SpellInv, CodesDiffer
<1>4. CASE StillCast(c)
  <2>1. \A d \in casting' : d.code # spell_code'
    BY <1>1, <1>4 DEF SpellInv, CodesDiffer, StillCast
  <2>2. concentrate' => data' \in lasting'
    BY <1>4 DEF DelaySpell, SpellNow
  <2> QED
    BY <1>2, <1>3, <2>1, <2>2 DEF SpellInv, AcceptedIsKept, SomethingInMind
<1>5. CASE ~StillCast(c)
  <2>1. UNCHANGED <<concentrate, lasting, data, kept>>
    BY <1>5 DEF DelaySpell
  <2>2. AcceptedIsKept'
    BY <1>1, <2>1 DEF SpellInv, AcceptedIsKept
  <2>3. SomethingInMind'
    BY <1>1, <1>5, <2>1 DEF SpellInv, SomethingInMind, StillCast
  <2> QED
    BY <1>2, <1>3, <2>2, <2>3 DEF SpellInv
<1> QED
  BY <1>4, <1>5

\* Whatever takes the state away, without another cast, keeps the invariant.
LEMMA LosingKeeps ==
  ASSUME SpellInv, ~concentrate', concentrate' \in BOOLEAN, casting' = casting, kept' = 0,
         spell_code' \in spell_code .. MaxCode,
         lasting' \subseteq lasting, data' \in {data, NoCharm}
  PROVE  SpellInv'
<1>1. casting' \subseteq [charm : Charms, code : 1 .. spell_code']
  <2>1. spell_code \in Nat /\ spell_code' \in Nat /\ spell_code <= spell_code'
    BY SpellAssumption DEF SpellInv, SpellTypeOK
  <2>2. \A c \in casting : c \in [charm : Charms, code : 1 .. spell_code']
    BY <2>1 DEF SpellInv, SpellTypeOK
  <2> QED
    BY <2>2
<1>2. SpellTypeOK'
  BY <1>1, SpellAssumption DEF SpellInv, SpellTypeOK
<1> QED
  BY <1>2 DEF SpellInv, CodesDiffer, AcceptedIsKept, SomethingInMind

\* Every step keeps the invariant.
LEMMA SpellStep ==
  ASSUME SpellInv, [SpellNext]_spellVars
  PROVE  SpellInv'
<1> USE DEF SpellInv
<1>0. spell_code \in Nat /\ spell_code <= MaxCode /\ spell_code \in spell_code .. MaxCode
  BY SpellAssumption DEF SpellTypeOK
<1>1. CASE SpellCommand
  <2>1. spell_code' \in spell_code .. MaxCode
    BY <1>0, <1>1, SpellAssumption DEF SpellCommand, CodeAfter
  <2> QED
    BY <1>1, <2>1, LosingKeeps DEF SpellCommand, EffectStops
<1>2. CASE Struck
  BY <1>0, <1>2, LosingKeeps DEF Struck
<1>3. ASSUME NEW s \in Charms, Cast(s) PROVE SpellInv'
  BY <1>3, CastKeeps
<1>4. ASSUME NEW c \in casting, DelaySpell(c) PROVE SpellInv'
  BY <1>4, DelaySpellKeeps
<1>5. ASSUME NEW s \in lasting, CancelSpell(s) PROVE SpellInv'
  BY <1>0, <1>5, LosingKeeps DEF CancelSpell, RemoveSpell
<1>6. ASSUME NEW s \in lasting, NEW near \in BOOLEAN, Concentrate(s, near) PROVE SpellInv'
  <2>1. CASE concentrate /\ near
    BY <1>6, <2>1 DEF Concentrate, SpellTypeOK, CodesDiffer, AcceptedIsKept, SomethingInMind
  <2>2. CASE ~(concentrate /\ near)
    BY <1>0, <1>6, <2>2, LosingKeeps DEF Concentrate, RemoveSpell
  <2> QED
    BY <2>1, <2>2
<1>7. CASE UNCHANGED spellVars
  BY <1>7 DEF spellVars, SpellTypeOK, CodesDiffer, AcceptedIsKept, SomethingInMind
<1> QED
  BY <1>1, <1>2, <1>3, <1>4, <1>5, <1>6, <1>7 DEF SpellNext

\* The invariant holds throughout.
LEMMA SpellInvariant == SpellSpec => []SpellInv
<1>1. SpellInit => SpellInv
  <2> SUFFICES ASSUME SpellInit PROVE SpellInv
    OBVIOUS
  <2>1. SpellTypeOK
    <3>1. concentrate \in BOOLEAN
      BY DEF SpellInit
    <3>2. 0 \in 0 .. MaxCode /\ 0 \in 0 .. 0
      BY SpellAssumption
    <3>3. spell_code \in 0 .. MaxCode /\ kept \in 0 .. spell_code
      BY <3>2 DEF SpellInit
    <3> QED
      BY <3>1, <3>3 DEF SpellInit, SpellTypeOK
  <2>2. ~concentrate /\ casting = {}
    BY DEF SpellInit
  <2> QED
    BY <2>1, <2>2 DEF SpellInv, CodesDiffer, AcceptedIsKept, SomethingInMind
<1>2. SpellInv /\ [SpellNext]_spellVars => SpellInv'
  BY SpellStep
<1> QED
  BY <1>1, <1>2, PTL DEF SpellSpec

\* Whoever has the state CONCENTRATE has something in mind that a command can end: the
\* last spell that was uttered or the effect in CONCENTRATE_DATA.
THEOREM SpellsSomethingInMind == SpellSpec => []SomethingInMind
<1>1. SpellInv => SomethingInMind
  BY DEF SpellInv
<1> QED
  BY <1>1, SpellInvariant, PTL

\* A spell never takes effect once its caster was disturbed, whatever delay_spell() finds
\* the caster concentrating on by then.
THEOREM SpellsOnlyKeptWork == SpellSpec => OnlyKeptSpellsWork
<1> DEFINE Right == \A c \in casting \ casting', s \in lasting' \ lasting : s = c.charm /\ c.code = kept
<1>1. ASSUME SpellInv, SpellNext, NEW c \in casting, c \notin casting',
             NEW s \in lasting', s \notin lasting
      PROVE  s = c.charm /\ c.code = kept
  <2>1. PICK d \in casting : DelaySpell(d)
    BY <1>1 DEF SpellNext, SpellCommand, Struck, Cast, CancelSpell, Concentrate
  <2>2. c = d
    BY <1>1, <2>1 DEF DelaySpell
  <2>3. StillCast(d) /\ s = d.charm
    BY <1>1, <2>1 DEF DelaySpell, SpellNow
  <2> QED
    BY <1>1, <2>2, <2>3 DEF SpellInv, AcceptedIsKept, StillCast
<1>2. SpellInv /\ [SpellNext]_spellVars => [Right]_spellVars
  BY <1>1
<1> QED
  BY <1>2, SpellInvariant, PTL DEF SpellSpec, OnlyKeptSpellsWork

(***************************************************************************)
(* Proofs about Events, for any listeners and functions, any depth of      *)
(* sendings inside each other and any number of changes on the way.        *)
(***************************************************************************)

Calls ==
  [ todo : SUBSET Listeners, ob : Listeners \cup {Nobody}, rest : Seq(Funcs), r : BOOLEAN,
    running : BOOLEAN, same : BOOLEAN, invited : SUBSET Listeners,
    steady : SUBSET Listeners, heard : SUBSET Listeners ]

\* What is true of a sending s while the mapping is fs.  Who listened all the time
\* listens still, has been heard or will be, and is to be found: the mapping is
\* dropped only when nobody is left.  Whose turn is to come was invited.
Fair(fs, s) ==
  /\ s.steady \subseteq Listening(fs) \cap (s.todo \cup s.heard)
  /\ ~s.same => s.steady = {}
  /\ s.todo \subseteq s.invited

EventInd ==
  /\ funcs \in [Listeners -> Seq(Funcs)] /\ sender \in BOOLEAN
  /\ sendings \in Seq(Calls)
  /\ \A i \in DOMAIN sendings : Fair(funcs, sendings[i])

\* The innermost sending replaced.
LEMMA SetInnerSendings ==
  ASSUME sendings \in Seq(Calls), sendings # <<>>, NEW s \in Calls, SetInner(s)
  PROVE  /\ sendings' \in Seq(Calls) /\ DOMAIN sendings' = DOMAIN sendings
         /\ Inner \in Calls /\ Len(sendings) \in DOMAIN sendings
         /\ sendings[Len(sendings)] = Inner
         /\ \A i \in DOMAIN sendings' :
              sendings'[i] = IF i = Len(sendings) THEN s ELSE sendings[i]
<1>1. Len(sendings) \in Nat \ {0} /\ DOMAIN sendings = 1 .. Len(sendings)
  OBVIOUS
<1>2. /\ Front(sendings) \in Seq(Calls) /\ Len(Front(sendings)) = Len(sendings) - 1
      /\ \A i \in 1 .. Len(sendings) - 1 : Front(sendings)[i] = sendings[i]
  BY <1>1 DEF Front
<1>3. sendings' = Append(Front(sendings), s)
  BY DEF SetInner
<1>4. sendings' \in Seq(Calls) /\ Len(sendings') = Len(sendings)
  <2>1. Len(Append(Front(sendings), s)) = Len(Front(sendings)) + 1
    BY <1>2, AppendProperties
  <2>2. Append(Front(sendings), s) \in Seq(Calls)
    BY <1>2, AppendProperties
  <2> QED BY <1>1, <1>2, <1>3, <2>1, <2>2
<1>5. DOMAIN sendings' = DOMAIN sendings
  BY <1>1, <1>4
<1>6. \A i \in DOMAIN sendings : sendings'[i] = IF i = Len(sendings) THEN s ELSE sendings[i]
  BY <1>1, <1>2, <1>3, AppendProperties
<1> QED BY <1>1, <1>4, <1>5, <1>6 DEF Inner, Last

LEMMA LeaveSendings ==
  ASSUME sendings \in Seq(Calls), NEW L \in SUBSET Listeners, NEW d \in BOOLEAN, Leave(L, d)
  PROVE  /\ sendings' \in Seq(Calls) /\ DOMAIN sendings' = DOMAIN sendings
         /\ \A i \in DOMAIN sendings' :
              LET s == sendings[i]
                  t == sendings'[i]
              IN  /\ s \in Calls /\ t \in Calls
                  /\ t.todo = s.todo /\ t.heard = s.heard /\ t.invited = s.invited
                  /\ t.steady = s.steady \ L /\ (t.same <=> s.same /\ ~d)
<1>1. Len(sendings) \in Nat /\ DOMAIN sendings = 1 .. Len(sendings)
  OBVIOUS
<1>2. \A i \in DOMAIN sendings : sendings[i] \in Calls
  OBVIOUS
<1>3. \A i \in DOMAIN sendings :
        LET s == sendings[i]
            t == [s EXCEPT !.steady = @ \ L, !.same = @ /\ ~d]
        IN  /\ t \in Calls
            /\ t.todo = s.todo /\ t.heard = s.heard /\ t.invited = s.invited
            /\ t.steady = s.steady \ L /\ (t.same <=> s.same /\ ~d)
  <2> SUFFICES ASSUME NEW s \in Calls
               PROVE  LET t == [s EXCEPT !.steady = @ \ L, !.same = @ /\ ~d]
                      IN  /\ t \in Calls
                          /\ t.todo = s.todo /\ t.heard = s.heard /\ t.invited = s.invited
                          /\ t.steady = s.steady \ L /\ (t.same <=> s.same /\ ~d)
    BY <1>2
  <2> QED BY DEF Calls
<1>4. sendings' = [i \in 1 .. Len(sendings) |->
                     [sendings[i] EXCEPT !.steady = @ \ L, !.same = @ /\ ~d]]
  BY <1>1 DEF Leave
<1>5. sendings' \in [1 .. Len(sendings) -> Calls]
  BY <1>1, <1>3, <1>4
<1>6. sendings' \in Seq(Calls) /\ DOMAIN sendings' = DOMAIN sendings
  BY <1>1, <1>5
<1> QED BY <1>1, <1>2, <1>3, <1>4, <1>6

LEMMA InitInd == EventInit => EventInd
<1> SUFFICES ASSUME EventInit PROVE EventInd
  OBVIOUS
<1>1. <<>> \in Seq(Funcs) /\ <<>> \in Seq(Calls) /\ DOMAIN <<>> = {}
  OBVIOUS
<1> QED BY <1>1 DEF EventInit, EventInd

\* What a turn, a call and a return do to the sendings: a listener's turn is taken
\* off the list, and noted if the listener has functions.
LEMMA NextListenerStep ==
  ASSUME EventInd, NextListener
  PROVE  /\ EventInd'
         /\ \A i \in DOMAIN sendings \cap DOMAIN sendings' :
              \A l \in sendings'[i].heard \ sendings[i].heard :
                funcs[l] # <<>> /\ l \in sendings[i].invited
<1> DEFINE n == Len(sendings)
           found(l) == Found(Inner, l)
           next(l) == [Inner EXCEPT !.todo = @ \ {l}, !.ob = l, !.rest = found(l),
                                    !.heard = IF found(l) = <<>> THEN @ ELSE @ \cup {l}]
<1>1. /\ funcs \in [Listeners -> Seq(Funcs)] /\ sendings \in Seq(Calls) /\ sendings # <<>>
      /\ funcs' = funcs /\ sender' = sender
  BY DEF EventInd, NextListener
<1>2. n \in DOMAIN sendings /\ Inner = sendings[n] /\ Inner \in Calls /\ Fair(funcs, Inner)
  BY <1>1 DEF EventInd, Inner, Last
<1>3. PICK l \in Inner.todo : SetInner(next(l))
  BY DEF NextListener
<1>4. l \in Listeners /\ found(l) \in Seq(Funcs)
  BY <1>1, <1>2 DEF Calls, Found
<1> DEFINE t == next(l)
<1>5. /\ t \in Calls /\ t.todo = Inner.todo \ {l} /\ t.invited = Inner.invited
      /\ t.steady = Inner.steady /\ t.same = Inner.same
      /\ t.heard = IF found(l) = <<>> THEN Inner.heard ELSE Inner.heard \cup {l}
  BY <1>2, <1>4 DEF Calls
<1>6. /\ sendings' \in Seq(Calls) /\ DOMAIN sendings' = DOMAIN sendings
      /\ \A i \in DOMAIN sendings' : sendings'[i] = IF i = n THEN t ELSE sendings[i]
  BY <1>1, <1>3, <1>5, SetInnerSendings
<1> HIDE DEF t
<1>7. found(l) # <<>> => funcs[l] # <<>>
  BY DEF Found
<1>8. l \in Inner.steady => found(l) # <<>>
  BY <1>2, <1>4 DEF Fair, Found, Listening
<1>9. Fair(funcs, t)
  BY <1>2, <1>5, <1>8 DEF Fair
<1>10. EventInd'
  BY <1>1, <1>6, <1>9 DEF EventInd
<1>11. l \in Inner.invited
  BY <1>2 DEF Fair
<1> QED BY <1>2, <1>5, <1>6, <1>7, <1>10, <1>11

\* A call and a return leave alone who was heard and who is to be.
LEMMA InnerStep ==
  ASSUME EventInd, CallFunction \/ \E result \in BOOLEAN : Returns(result)
  PROVE  /\ EventInd' /\ DOMAIN sendings' = DOMAIN sendings
         /\ \A i \in DOMAIN sendings : sendings'[i].heard = sendings[i].heard
<1>1. /\ sendings \in Seq(Calls) /\ sendings # <<>> /\ UNCHANGED <<funcs, sender>>
      /\ sender \in BOOLEAN
  BY DEF EventInd, CallFunction, Returns
<1>2. Inner \in Calls /\ Inner = sendings[Len(sendings)] /\ Len(sendings) \in DOMAIN sendings
  BY <1>1 DEF Inner, Last
<1>3. PICK t \in Calls : /\ SetInner(t)
                         /\ t.todo = Inner.todo /\ t.heard = Inner.heard /\ t.same = Inner.same
                         /\ t.steady = Inner.steady /\ t.invited = Inner.invited
  <2>1. CASE CallFunction
    <3> DEFINE t == [Inner EXCEPT !.rest = Front(@), !.running = sender, !.r = FALSE]
    <3>1. SetInner(t) /\ Inner.rest # <<>>
      BY <2>1 DEF CallFunction
    <3>2. Front(Inner.rest) \in Seq(Funcs)
      <4>1. Inner.rest \in Seq(Funcs)
        BY <1>2 DEF Calls
      <4>2. Len(Inner.rest) \in Nat \ {0}
        BY <3>1, <4>1
      <4> QED BY <4>1, <4>2 DEF Front
    <3>3. /\ t \in Calls /\ t.todo = Inner.todo /\ t.heard = Inner.heard /\ t.same = Inner.same
          /\ t.steady = Inner.steady /\ t.invited = Inner.invited
      BY <1>1, <1>2, <3>2 DEF Calls
    <3> QED BY <3>1, <3>3
  <2>2. CASE \E result \in BOOLEAN : Returns(result)
    <3>1. PICK result \in BOOLEAN : Returns(result)
      BY <2>2
    <3> DEFINE t == [Inner EXCEPT !.running = FALSE, !.r = result]
    <3>2. SetInner(t)
      BY <3>1 DEF Returns
    <3>3. /\ t \in Calls /\ t.todo = Inner.todo /\ t.heard = Inner.heard /\ t.same = Inner.same
          /\ t.steady = Inner.steady /\ t.invited = Inner.invited
      BY <1>2 DEF Calls
    <3> QED BY <3>2, <3>3
  <2> QED BY <2>1, <2>2
<1>4. /\ sendings' \in Seq(Calls) /\ DOMAIN sendings' = DOMAIN sendings
      /\ \A i \in DOMAIN sendings' :
           sendings'[i] = IF i = Len(sendings) THEN t ELSE sendings[i]
  BY <1>1, <1>3, SetInnerSendings
<1>5. \A i \in DOMAIN sendings' : Fair(funcs, sendings'[i])
  BY <1>2, <1>3, <1>4 DEF EventInd, Fair
<1> QED BY <1>1, <1>2, <1>3, <1>4, <1>5 DEF EventInd

\* Listeners that leave: no sending counts on them any more.
LEMMA LeaveInd ==
  ASSUME EventInd, NEW L \in SUBSET Listeners, NEW d \in BOOLEAN, Leave(L, d),
         sender' \in BOOLEAN, funcs' \in [Listeners -> Seq(Funcs)],
         Listening(funcs) \ L \subseteq Listening(funcs'),
         d => Listening(funcs) \subseteq L
  PROVE  /\ EventInd' /\ DOMAIN sendings' = DOMAIN sendings
         /\ \A i \in DOMAIN sendings : sendings'[i].heard = sendings[i].heard
<1>1. /\ sendings' \in Seq(Calls) /\ DOMAIN sendings' = DOMAIN sendings
      /\ \A i \in DOMAIN sendings' :
           LET s == sendings[i]
               t == sendings'[i]
           IN  /\ s \in Calls /\ t \in Calls
               /\ t.todo = s.todo /\ t.heard = s.heard /\ t.invited = s.invited
               /\ t.steady = s.steady \ L /\ (t.same <=> s.same /\ ~d)
  BY LeaveSendings DEF EventInd
<1>2. ASSUME NEW i \in DOMAIN sendings'
      PROVE  Fair(funcs', sendings'[i])
  <2> DEFINE s == sendings[i]
             t == sendings'[i]
  <2>1. /\ s \in Calls /\ t.todo = s.todo /\ t.heard = s.heard /\ t.invited = s.invited
        /\ t.steady = s.steady \ L /\ (t.same <=> s.same /\ ~d)
    BY <1>1
  <2>2. /\ s.steady \subseteq Listening(funcs) \cap (s.todo \cup s.heard)
        /\ (~s.same => s.steady = {}) /\ s.todo \subseteq s.invited
    BY <1>1 DEF EventInd, Fair
  <2> HIDE DEF s, t
  <2>3. t.steady \subseteq Listening(funcs') \cap (t.todo \cup t.heard) /\ t.todo \subseteq t.invited
    BY <2>1, <2>2
  <2>4. ~t.same => t.steady = {}
    BY <2>1, <2>2
  <2> QED BY <2>3, <2>4 DEF Fair, t
<1> QED BY <1>1, <1>2 DEF EventInd

LEMMA ChangeStep ==
  ASSUME EventInd, NEW l \in Listeners,
         Destructs(l) \/ \E f \in Funcs : AddEvent(l, f) \/ RemoveEvent(l, f)
  PROVE  /\ EventInd' /\ DOMAIN sendings' = DOMAIN sendings
         /\ \A i \in DOMAIN sendings : sendings'[i].heard = sendings[i].heard
<1>0. funcs \in [Listeners -> Seq(Funcs)] /\ sender \in BOOLEAN /\ <<>> \in Seq(Funcs)
  BY DEF EventInd
<1>1. ASSUME NEW f \in Funcs, AddEvent(l, f)
      PROVE  EventInd' /\ UNCHANGED sendings
  <2>1. /\ funcs' = [funcs EXCEPT ![l] = Append(@, f)] /\ UNCHANGED <<sendings, sender>>
        /\ funcs[l] \in Seq(Funcs)
    BY <1>0, <1>1 DEF AddEvent
  <2>2. Append(funcs[l], f) \in Seq(Funcs) /\ Append(funcs[l], f) # <<>>
    BY <2>1, AppendProperties
  <2>3. funcs' \in [Listeners -> Seq(Funcs)] /\ Listening(funcs) \subseteq Listening(funcs')
    BY <1>0, <2>1, <2>2 DEF Listening
  <2>4. \A i \in DOMAIN sendings : Fair(funcs', sendings[i])
    BY <2>3 DEF EventInd, Fair
  <2> QED BY <2>1, <2>3, <2>4 DEF EventInd
<1>2. ASSUME NEW f \in Funcs, RemoveEvent(l, f)
      PROVE  /\ EventInd' /\ DOMAIN sendings' = DOMAIN sendings
             /\ \A i \in DOMAIN sendings : sendings'[i].heard = sendings[i].heard
  <2>1. PICK k \in DOMAIN funcs[l] : funcs' = [funcs EXCEPT ![l] = RemoveAt(@, k)]
    BY <1>2 DEF RemoveEvent
  <2>2. RemoveAt(funcs[l], k) \in Seq(Funcs)
    <3>1. funcs[l] \in Seq(Funcs) /\ k \in 1 .. Len(funcs[l])
      BY <1>0, <2>1
    <3>2. /\ SubSeq(funcs[l], 1, k - 1) \in Seq(Funcs)
          /\ SubSeq(funcs[l], k + 1, Len(funcs[l])) \in Seq(Funcs)
      BY <3>1
    <3> QED BY <3>2, ConcatProperties DEF RemoveAt
  <2> DEFINE L == IF funcs'[l] = <<>> THEN {l} ELSE {}
             d == Listening(funcs') = {}
  <2>3. Leave(L, d) /\ sender' = sender
    BY <1>2 DEF RemoveEvent
  <2>4. funcs' \in [Listeners -> Seq(Funcs)] /\ \A m \in Listeners \ {l} : funcs'[m] = funcs[m]
    BY <1>0, <2>1, <2>2
  <2>5. Listening(funcs) \ L \subseteq Listening(funcs')
    BY <2>4 DEF Listening
  <2>6. d => Listening(funcs) \subseteq L
    BY <2>5
  <2> QED BY <1>0, <2>3, <2>4, <2>5, <2>6, LeaveInd
<1>3. ASSUME Destructs(l)
      PROVE  /\ EventInd' /\ DOMAIN sendings' = DOMAIN sendings
             /\ \A i \in DOMAIN sendings : sendings'[i].heard = sendings[i].heard
  <2>1. funcs' = [funcs EXCEPT ![l] = <<>>] /\ Leave({l}, FALSE) /\ sender' = sender
    BY <1>3 DEF Destructs
  <2>2. funcs' \in [Listeners -> Seq(Funcs)] /\ Listening(funcs) \ {l} \subseteq Listening(funcs')
    BY <1>0, <2>1 DEF Listening
  <2> QED BY <1>0, <2>1, <2>2, LeaveInd
<1> QED BY <1>1, <1>2, <1>3

\* The sendings that a return or an error leaves are as they were.
LEMMA UnwindStep ==
  ASSUME EventInd, UNCHANGED <<funcs, sender>>,
         NEW k \in 0 .. Len(sendings), sendings' = SubSeq(sendings, 1, k)
  PROVE  /\ EventInd'
         /\ \A i \in DOMAIN sendings \cap DOMAIN sendings' : sendings'[i] = sendings[i]
<1>1. sendings \in Seq(Calls) /\ DOMAIN sendings = 1 .. Len(sendings) /\ Len(sendings) \in Nat
  BY DEF EventInd
<1>2. /\ sendings' \in Seq(Calls) /\ DOMAIN sendings' = 1 .. k
      /\ \A i \in 1 .. k : sendings'[i] = sendings[i]
  BY <1>1
<1> QED BY <1>1, <1>2 DEF EventInd

\* Everybody who listens is invited to a sending that begins.
LEMMA CallEventStep ==
  ASSUME EventInd, CallEvent
  PROVE  /\ EventInd'
         /\ \A i \in DOMAIN sendings : i \in DOMAIN sendings' /\ sendings'[i] = sendings[i]
<1>1. /\ sendings \in Seq(Calls) /\ DOMAIN sendings = 1 .. Len(sendings) /\ Len(sendings) \in Nat
      /\ funcs \in [Listeners -> Seq(Funcs)]
  BY DEF EventInd
<1>2. PICK s \in Calls : /\ sendings' = Append(sendings, s)
                         /\ s.todo = Listening(funcs) /\ s.steady = Listening(funcs)
                         /\ s.same = TRUE /\ s.invited = Listening(funcs)
  <2> DEFINE s == [todo |-> Listening(funcs), ob |-> Nobody, rest |-> <<>>, r |-> FALSE,
                   running |-> FALSE, same |-> TRUE, invited |-> Listening(funcs),
                   steady |-> Listening(funcs), heard |-> {}]
  <2>1. s \in Calls
    BY <1>1 DEF Calls, Listening
  <2>2. sendings' = Append(sendings, s)
    BY DEF CallEvent
  <2>3. s.todo = Listening(funcs) /\ s.steady = Listening(funcs) /\ s.same = TRUE /\ s.invited = Listening(funcs)
    OBVIOUS
  <2> QED BY <2>1, <2>2, <2>3
<1>3. Fair(funcs, s)
  BY <1>2 DEF Fair, Listening
<1>4. /\ sendings' \in Seq(Calls) /\ DOMAIN sendings' = 1 .. Len(sendings) + 1
      /\ sendings'[Len(sendings) + 1] = s
      /\ \A i \in 1 .. Len(sendings) : sendings'[i] = sendings[i]
  BY <1>1, <1>2, AppendProperties
<1>5. \A i \in DOMAIN sendings' : i \in DOMAIN sendings \/ i = Len(sendings) + 1
  BY <1>1, <1>4
<1>6. \A i \in DOMAIN sendings : i \in DOMAIN sendings' /\ sendings'[i] = sendings[i]
  BY <1>1, <1>4
<1>7. UNCHANGED <<funcs, sender>>
  BY DEF CallEvent
<1>8. \A i \in DOMAIN sendings' : Fair(funcs, sendings'[i])
  BY <1>3, <1>4, <1>5, <1>6 DEF EventInd
<1> QED BY <1>4, <1>6, <1>7, <1>8 DEF EventInd

\* Whoever is heard newly in this step listens, and was invited.
HeardRightly ==
  \A i \in DOMAIN sendings \cap DOMAIN sendings' :
    \A l \in sendings'[i].heard \ sendings[i].heard :
      funcs[l] # <<>> /\ l \in sendings[i].invited

LEMMA EventStep == EventInd /\ [EventNext]_eventVars => EventInd' /\ HeardRightly
<1> SUFFICES ASSUME EventInd, [EventNext]_eventVars PROVE EventInd' /\ HeardRightly
  OBVIOUS
<1>1. CASE \E l \in Listeners, f \in Funcs : AddEvent(l, f) \/ RemoveEvent(l, f)
  BY <1>1, ChangeStep DEF HeardRightly
<1>2. CASE \E l \in Listeners : Destructs(l)
  BY <1>2, ChangeStep DEF HeardRightly
<1>3. CASE SenderGoes
  BY <1>3 DEF SenderGoes, EventInd, HeardRightly
<1>4. CASE CallEvent
  BY <1>4, CallEventStep DEF HeardRightly
<1>5. CASE NextListener
  BY <1>5, NextListenerStep DEF HeardRightly
<1>6. CASE CallFunction \/ \E result \in BOOLEAN : Returns(result)
  BY <1>6, InnerStep DEF HeardRightly
<1>7. CASE Fails \/ Finish
  <2>1. sendings \in Seq(Calls) /\ Len(sendings) \in Nat
    BY DEF EventInd
  <2>2. \E k \in 0 .. Len(sendings) : sendings' = SubSeq(sendings, 1, k)
    <3>1. CASE Fails
      BY <2>1, <3>1 DEF Fails, Unwind
    <3>2. CASE Finish
      BY <2>1, <3>2 DEF Finish, Front
    <3> QED BY <1>7, <3>1, <3>2
  <2>3. UNCHANGED <<funcs, sender>>
    BY <1>7 DEF Fails, Unwind, Finish
  <2> QED BY <2>2, <2>3, UnwindStep DEF HeardRightly
<1>8. CASE UNCHANGED eventVars
  BY <1>8 DEF eventVars, EventInd, HeardRightly
<1> QED BY <1>1, <1>2, <1>3, <1>4, <1>5, <1>6, <1>7, <1>8 DEF EventNext

\* Nobody who listens from the beginning of a sending to its end is left out of
\* it, whatever the called functions do to the list of listeners, for any number
\* of listeners and of sendings inside each other.
THEOREM EveryoneAlwaysHears == EventSpec => []EveryoneHears
<1>1. EventInd => EveryoneHears
  BY DEF EventInd, Fair, EveryoneHears
<1>2. EventInd /\ [EventNext]_eventVars => EventInd'
  BY EventStep
<1> QED BY <1>1, <1>2, InitInd, PTL DEF EventSpec

\* Nobody is called who does not listen when his turn comes, or did not when the
\* event was sent.
THEOREM OnlyListenersEverHear == EventSpec => OnlyListenersHear
<1>1. EventInd /\ [EventNext]_eventVars => EventInd'
  BY EventStep
<1>2. EventInd /\ [EventNext]_eventVars => [HeardRightly]_eventVars
  BY EventStep
<1>3. [HeardRightly]_eventVars =>
        [\A i \in DOMAIN sendings \cap DOMAIN sendings' :
           \A l \in sendings'[i].heard \ sendings[i].heard :
             funcs[l] # <<>> /\ l \in sendings[i].invited]_eventVars
  BY DEF HeardRightly
<1> QED BY <1>1, <1>2, <1>3, InitInd, PTL DEF EventSpec, OnlyListenersHear

(***************************************************************************)
(* Proofs about Ailments, for any number of patients and of call_outs.     *)
(*                                                                         *)
(* Acts is not inductive: that a renewed call_out is the only one needs    *)
(* that nobody who is not marked has one, and a patient who comes back is  *)
(* marked anew by what is listed, which therefore has to agree with the    *)
(* marks (InSync) and with who is in the game.                             *)
(***************************************************************************)

USE DustAssumption, MaxTimersAssumption

Kinds == {"poison", "disease"}

\* Marks are for those in the game, and only who is marked has slept.
MarkedAreThere == slept \subseteq marked /\ \A p \in marked : There(p)

\* A poison has one call_out for each patient, as long as none was taken from another.
OneEach ==
  kind = "poison" /\ ~stray =>
    \A p \in Patients : call_outs[p] = IF p \in marked \ slept THEN 1 ELSE 0

\* A disease may have more than it needs.
Enough == kind = "disease" => \A p \in marked \ slept : call_outs[p] > 0

Fit == kind \in Kinds /\ stray \in BOOLEAN /\ AilTypeOK
AilInv == Fit /\ MarkedAreThere /\ InSync /\ OneEach /\ Enough

-----------------------------------------------------------------------------
LEMMA StartedStarts ==
  ASSUME AilInv, Bounded, NEW S \in SUBSET Patients
  PROVE  /\ Started(S) \in [Patients \cup {Dust} -> 0 .. MaxTimers]
         /\ \A p \in Patients :
              Started(S)[p] = IF p \in S THEN call_outs[p] + 1 ELSE call_outs[p]
  BY DEF Started, AilInv, Fit, AilTypeOK, Bounded

LEMMA LessOne ==
  ASSUME AilInv, NEW q \in Patients \cup {Dust}, call_outs[q] > 0
  PROVE  /\ [call_outs EXCEPT ![q] = @ - 1] \in [Patients \cup {Dust} -> 0 .. MaxTimers]
         /\ [call_outs EXCEPT ![q] = @ - 1][q] = call_outs[q] - 1
         /\ \A p \in Patients \ {q} : [call_outs EXCEPT ![q] = @ - 1][p] = call_outs[p]
  BY DEF AilInv, Fit, AilTypeOK

\* Whoever are in the game may be given the ailment.
LEMMA CaughtKeeps ==
  ASSUME AilInv, Bounded, NEW S \in SUBSET Patients, \A p \in S : There(p),
         Caught(S), UNCHANGED <<kind, stray>>,
         condition' \in [Patients -> {"living", "statue", "dead", "out", "gone"}],
         \A p \in Patients : There(p)' <=> There(p)
  PROVE  AilInv'
<1>1. /\ marked' = marked \cup S /\ effects' = effects \cup S /\ slept' = slept \ (S \ marked)
      /\ call_outs' = Started(S \ marked)
  BY DEF Caught
<1>2. /\ call_outs' \in [Patients \cup {Dust} -> 0 .. MaxTimers]
      /\ \A p \in Patients : call_outs'[p] = IF p \in S \ marked THEN call_outs[p] + 1 ELSE call_outs[p]
  BY <1>1, StartedStarts
<1>3. Fit'
  BY <1>1, <1>2 DEF AilInv, Fit, AilTypeOK
<1>4. MarkedAreThere'
  BY <1>1 DEF AilInv, Fit, AilTypeOK, MarkedAreThere
<1>5. InSync'
  BY <1>1 DEF AilInv, InSync
<1>6. marked' \ slept' = (marked \ slept) \cup (S \ marked)
  BY <1>1 DEF AilInv, MarkedAreThere
<1>7. OneEach'
  <2>1. SUFFICES ASSUME kind = "poison", ~stray, NEW p \in Patients
                 PROVE  call_outs'[p] = IF p \in marked' \ slept' THEN 1 ELSE 0
    BY DEF OneEach
  <2>2. call_outs[p] = IF p \in marked \ slept THEN 1 ELSE 0
    BY <2>1 DEF AilInv, OneEach
  <2> QED
    BY <1>2, <1>6, <2>2
<1>8. Enough'
  <2>1. SUFFICES ASSUME kind = "disease", NEW p \in marked' \ slept'
                 PROVE  call_outs'[p] > 0
    BY DEF Enough
  <2>2. p \in Patients /\ call_outs[p] \in Nat
    BY <1>3 DEF AilInv, Fit, AilTypeOK
  <2>3. p \in marked \ slept => call_outs[p] > 0
    BY <2>1 DEF AilInv, Enough
  <2> QED
    BY <1>2, <1>6, <2>2, <2>3
<1> QED
  BY <1>3, <1>4, <1>5, <1>7, <1>8 DEF AilInv

\* Who is healed is no more marked, and no other loses a call_out unless stray says so.
LEMMA CuredKeeps ==
  ASSUME AilInv, NEW p \in Patients, p \in marked, NEW t,
         \/ t = call_outs
         \/ kind = "disease" /\ call_outs[p] > 0 /\ t = [call_outs EXCEPT ![p] = @ - 1],
         Cured(p, t), kind' = kind,
         condition' \in [Patients -> {"living", "statue", "dead", "out", "gone"}],
         \A q \in Patients : There(q)' <=> There(q)
  PROVE  AilInv'
<1>1. marked' = marked \ {p} /\ slept' = slept \ {p} /\ effects' = effects \ {p}
  BY DEF Cured, Freed
<1>2. MarkedAreThere'
  BY <1>1 DEF AilInv, Fit, AilTypeOK, MarkedAreThere
<1>3. InSync'
  BY <1>1 DEF AilInv, InSync
<1>4. CASE kind = "disease"
  <2>1. call_outs' = t /\ stray' = stray
    BY <1>4 DEF Cured, LeavesCallOuts
  <2>2. /\ t \in [Patients \cup {Dust} -> 0 .. MaxTimers]
        /\ \A q \in Patients \ {p} : t[q] = call_outs[q]
    BY LessOne DEF AilInv, Fit, AilTypeOK
  <2>3. Fit' /\ OneEach'
    BY <1>1, <1>4, <2>1, <2>2 DEF AilInv, Fit, AilTypeOK, OneEach
  <2>4. Enough'
    BY <1>1, <1>4, <2>1, <2>2 DEF AilInv, Fit, AilTypeOK, Enough
  <2> QED
    BY <1>2, <1>3, <2>3, <2>4 DEF AilInv
<1>5. CASE kind = "poison"
  <2>1. t = call_outs /\ ~LeavesCallOuts
    BY <1>5 DEF LeavesCallOuts
  <2>2. CASE (\A q \in DOMAIN t : t[q] = 0) /\ call_outs' = t /\ stray' = stray
    <3>1. Fit'
      BY <1>1, <2>1, <2>2 DEF AilInv, Fit, AilTypeOK
    <3>2. OneEach'
      <4>1. SUFFICES ASSUME kind = "poison", ~stray, NEW q \in Patients
                     PROVE  call_outs'[q] = IF q \in marked' \ slept' THEN 1 ELSE 0
        BY <1>5, <2>2 DEF OneEach
      <4>2. call_outs[q] = IF q \in marked \ slept THEN 1 ELSE 0
        BY <4>1 DEF AilInv, OneEach
      <4>3. call_outs[q] = 0 /\ call_outs'[q] = 0
        BY <2>1, <2>2 DEF AilInv, Fit, AilTypeOK
      <4> QED
        BY <1>1, <4>2, <4>3
    <3> QED
      BY <1>2, <1>3, <1>5, <3>1, <3>2 DEF AilInv, Enough
  <2>3. CASE \E q \in DOMAIN t : t[q] > 0 /\ call_outs' = [t EXCEPT ![q] = @ - 1] /\ stray' = (stray \/ q # p)
    <3>1. PICK q \in Patients \cup {Dust} :
            call_outs[q] > 0 /\ call_outs' = [call_outs EXCEPT ![q] = @ - 1] /\ stray' = (stray \/ q # p)
      BY <2>1, <2>3 DEF AilInv, Fit, AilTypeOK
    <3>2. /\ call_outs' \in [Patients \cup {Dust} -> 0 .. MaxTimers]
          /\ call_outs'[q] = call_outs[q] - 1
          /\ \A k \in Patients \ {q} : call_outs'[k] = call_outs[k]
      BY <3>1, LessOne
    <3>3. Fit'
      BY <1>1, <3>1, <3>2 DEF AilInv, Fit, AilTypeOK
    <3>4. OneEach'
      <4>1. SUFFICES ASSUME ~stray', NEW k \in Patients
                     PROVE  call_outs'[k] = IF k \in marked' \ slept' THEN 1 ELSE 0
        BY DEF OneEach
      <4>2. ~stray /\ q = p
        BY <3>1, <4>1
      <4>3. \A l \in Patients : call_outs[l] = IF l \in marked \ slept THEN 1 ELSE 0
        BY <1>5, <4>2 DEF AilInv, OneEach
      <4>4. CASE k = p
        <5>1. call_outs[p] = 1
          BY <3>1, <4>2, <4>3
        <5>2. k \notin marked' \ slept'
          BY <1>1, <4>4
        <5> QED
          BY <3>2, <4>2, <4>4, <5>1, <5>2
      <4>5. CASE k # p
        <5>1. k \in marked' \ slept' <=> k \in marked \ slept
          BY <1>1, <4>5
        <5> QED
          BY <3>2, <4>2, <4>3, <4>5, <5>1
      <4> QED
        BY <4>4, <4>5
    <3> QED
      BY <1>2, <1>3, <1>5, <3>3, <3>4 DEF AilInv, Enough
  <2> QED
    BY <2>1, <2>2, <2>3 DEF Cured
<1> QED
  BY <1>4, <1>5 DEF AilInv, Fit, Kinds

-----------------------------------------------------------------------------
LEMMA EffectEndsKeeps ==
  ASSUME AilInv, NEW p \in Patients \cup {Dust}, EffectEnds(p)
  PROVE  AilInv'
<1>1. /\ call_outs[p] > 0 /\ call_outs' = [call_outs EXCEPT ![p] = @ - 1]
      /\ slept' = slept \cup ({p} \cap marked)
      /\ UNCHANGED <<kind, condition, marked, effects, stray>>
  BY DEF EffectEnds, Fired
<1>2. /\ call_outs' \in [Patients \cup {Dust} -> 0 .. MaxTimers]
      /\ call_outs'[p] = call_outs[p] - 1
      /\ \A q \in Patients \ {p} : call_outs'[q] = call_outs[q]
  BY <1>1, LessOne
<1>3. Fit' /\ MarkedAreThere' /\ InSync'
  BY <1>1, <1>2 DEF AilInv, Fit, AilTypeOK, MarkedAreThere, InSync, There
<1>4. OneEach'
  <2>1. SUFFICES ASSUME kind = "poison", ~stray, NEW q \in Patients
                 PROVE  call_outs'[q] = IF q \in marked' \ slept' THEN 1 ELSE 0
    BY <1>1 DEF OneEach
  <2>2. call_outs[q] = IF q \in marked \ slept THEN 1 ELSE 0
    BY <2>1 DEF AilInv, OneEach
  <2>3. CASE q = p
    BY <1>1, <1>2, <2>2, <2>3
  <2>4. CASE q # p
    BY <1>1, <1>2, <2>2, <2>4
  <2> QED
    BY <2>3, <2>4
<1>5. Enough'
  <2>1. SUFFICES ASSUME kind = "disease", NEW q \in marked' \ slept'
                 PROVE  call_outs'[q] > 0
    BY <1>1 DEF Enough
  <2>2. q \in marked \ slept /\ q # p /\ q \in Patients
    BY <1>1, <1>3 DEF AilInv, Fit, AilTypeOK
  <2> QED
    BY <1>2, <2>1, <2>2 DEF AilInv, Enough
<1> QED
  BY <1>3, <1>4, <1>5 DEF AilInv

LEMMA LeavesKeeps ==
  ASSUME AilInv, NEW p \in Patients, Leaves(p)
  PROVE  AilInv'
<1>1. /\ condition' = [condition EXCEPT ![p] = IF Lives(p) THEN "out" ELSE "gone"]
      /\ marked' = marked \ {p} /\ slept' = slept \ {p} /\ UNCHANGED <<kind, effects, stray>>
  BY DEF Leaves
<1>2. /\ call_outs' \in [Patients \cup {Dust} -> 0 .. MaxTimers]
      /\ call_outs'[p] = 0
      /\ \A q \in Patients \ {p} : call_outs'[q] = call_outs[q]
  BY DEF Leaves, AilInv, Fit, AilTypeOK
<1>3. condition \in [Patients -> {"living", "statue", "dead", "out", "gone"}]
  BY DEF AilInv, Fit, AilTypeOK
<1>4. ~There(p)' /\ \A q \in Patients \ {p} : There(q)' <=> There(q)
  BY <1>1, <1>3 DEF There
<1>5. Fit'
  BY <1>1, <1>2, <1>3 DEF AilInv, Fit, AilTypeOK
<1>6. MarkedAreThere' /\ InSync'
  BY <1>1, <1>4 DEF AilInv, Fit, AilTypeOK, MarkedAreThere, InSync
<1>7. OneEach' /\ Enough'
  BY <1>1, <1>2, <1>5 DEF AilInv, Fit, AilTypeOK, OneEach, Enough
<1> QED
  BY <1>5, <1>6, <1>7 DEF AilInv

LEMMA ComesBackKeeps ==
  ASSUME AilInv, NEW p \in Patients, ComesBack(p)
  PROVE  AilInv'
<1>1. /\ condition[p] = "out" /\ Bounded /\ condition' = [condition EXCEPT ![p] = "living"]
      /\ marked' = marked \cup ({p} \cap effects) /\ call_outs' = Started({p} \cap effects)
      /\ UNCHANGED <<kind, effects, slept, stray>>
  BY DEF ComesBack
<1>2. /\ call_outs' \in [Patients \cup {Dust} -> 0 .. MaxTimers]
      /\ \A q \in Patients : call_outs'[q] = IF q \in {p} \cap effects THEN call_outs[q] + 1 ELSE call_outs[q]
  <2> DEFINE S == {p} \cap effects
  <2>1. S \in SUBSET Patients
    OBVIOUS
  <2> HIDE DEF S
  <2>2. /\ Started(S) \in [Patients \cup {Dust} -> 0 .. MaxTimers]
        /\ \A q \in Patients : Started(S)[q] = IF q \in S THEN call_outs[q] + 1 ELSE call_outs[q]
    BY <1>1, <2>1, StartedStarts
  <2>3. call_outs' = Started(S)
    BY <1>1 DEF S
  <2> QED
    BY <2>2, <2>3 DEF S
<1>3. condition \in [Patients -> {"living", "statue", "dead", "out", "gone"}]
  BY DEF AilInv, Fit, AilTypeOK
<1>4. There(p)' /\ ~There(p) /\ \A q \in Patients \ {p} : There(q)' <=> There(q)
  BY <1>1, <1>3 DEF There
<1>5. p \notin marked /\ p \notin slept
  BY <1>4 DEF AilInv, MarkedAreThere
<1>6. Fit'
  BY <1>1, <1>2, <1>3 DEF AilInv, Fit, AilTypeOK
<1>7. MarkedAreThere' /\ InSync'
  BY <1>1, <1>4, <1>5 DEF AilInv, Fit, AilTypeOK, MarkedAreThere, InSync
<1>8. marked' \ slept' = (marked \ slept) \cup ({p} \cap effects)
  BY <1>1, <1>5
<1>9. OneEach'
  <2>1. SUFFICES ASSUME kind = "poison", ~stray, NEW q \in Patients
                 PROVE  call_outs'[q] = IF q \in marked' \ slept' THEN 1 ELSE 0
    BY <1>1 DEF OneEach
  <2>2. call_outs[q] = IF q \in marked \ slept THEN 1 ELSE 0
    BY <2>1 DEF AilInv, OneEach
  <2> QED
    BY <1>2, <1>5, <1>8, <2>2
<1>10. Enough'
  <2>1. SUFFICES ASSUME kind = "disease", NEW q \in marked' \ slept'
                 PROVE  call_outs'[q] > 0
    BY <1>1 DEF Enough
  <2>2. q \in Patients /\ call_outs[q] \in Nat
    BY <1>6 DEF AilInv, Fit, AilTypeOK
  <2>3. q \in marked \ slept => call_outs[q] > 0
    BY <2>1 DEF AilInv, Enough
  <2> QED
    BY <1>2, <1>8, <2>2, <2>3
<1> QED
  BY <1>6, <1>7, <1>9, <1>10 DEF AilInv

LEMMA ChangesKeeps ==
  ASSUME AilInv, NEW p \in Patients, Changes(p)
  PROVE  AilInv'
<1>1. PICK s \in {"statue", "dead", "living"} : condition' = [condition EXCEPT ![p] = s]
  BY DEF Changes
<1>2. condition \in [Patients -> {"living", "statue", "dead", "out", "gone"}]
  BY DEF AilInv, Fit, AilTypeOK
<1>3. \A q \in Patients : There(q)' <=> There(q)
  BY <1>1, <1>2 DEF Changes, There
<1>4. UNCHANGED <<kind, marked, effects, call_outs, slept, stray>>
  BY DEF Changes
<1> QED
  BY <1>1, <1>2, <1>3, <1>4
  DEF AilInv, Fit, AilTypeOK, MarkedAreThere, InSync, OneEach, Enough

\* The steps in which the call_out finds somebody to harm.
LEMMA HarmKeeps ==
  ASSUME AilInv, NEW p \in Patients, EffectResisted(p) \/ EffectKills(p) \/ EffectGoesOn(p)
  PROVE  AilInv'
<1>1. Harmed(p) /\ p \in marked /\ call_outs[p] > 0 /\ There(p)
  BY DEF EffectResisted, EffectKills, EffectGoesOn, Harmed, Lives, There
<1>2. condition \in [Patients -> {"living", "statue", "dead", "out", "gone"}]
  BY DEF AilInv, Fit, AilTypeOK
<1>3. CASE EffectResisted(p)
  <2>1. UNCHANGED <<kind, condition>> /\ Cured(p, IF kind = "poison" THEN call_outs ELSE Fired(p))
    BY <1>3 DEF EffectResisted
  <2>2. \A q \in Patients : There(q)' <=> There(q)
    BY <2>1 DEF There
  <2>3. CASE kind = "poison"
    BY <1>1, <1>2, <2>1, <2>2, <2>3, CuredKeeps
  <2>4. CASE kind = "disease"
    <3>1. Cured(p, [call_outs EXCEPT ![p] = @ - 1])
      BY <2>1, <2>4 DEF Fired
    <3> QED
      BY <1>1, <1>2, <2>1, <2>2, <2>4, <3>1, CuredKeeps
  <2> QED
    BY <2>3, <2>4 DEF AilInv, Fit, Kinds
<1>4. CASE EffectKills(p)
  <2>1. condition' = [condition EXCEPT ![p] = "dead"] /\ Cured(p, call_outs) /\ kind' = kind
    BY <1>4 DEF EffectKills
  <2>2. \A q \in Patients : There(q)' <=> There(q)
    BY <1>1, <1>2, <2>1 DEF There
  <2> QED
    BY <1>1, <1>2, <2>1, <2>2, CuredKeeps
<1>5. CASE EffectGoesOn(p)
  <2>1. PICK S \in SUBSET {q \in Patients \ {p} : There(q)} : Caught(S)
    BY <1>5 DEF EffectGoesOn
  <2>2. /\ Bounded /\ UNCHANGED <<kind, stray>>
        /\ condition' = condition \/ condition' = [condition EXCEPT ![p] = "dead"]
    BY <1>5 DEF EffectGoesOn
  <2>3. \A q \in Patients : There(q)' <=> There(q)
    BY <1>1, <1>2, <2>2 DEF There
  <2> QED
    BY <1>2, <2>1, <2>2, <2>3, CaughtKeeps
<1> QED
  BY <1>3, <1>4, <1>5

-----------------------------------------------------------------------------
LEMMA AilStart == AilInit => AilInv
<1> SUFFICES ASSUME AilInit PROVE AilInv
  OBVIOUS
<1>1. Fit
  <2>1. kind \in Kinds /\ stray \in BOOLEAN
    BY DEF AilInit, Kinds
  <2>2. call_outs \in [Patients \cup {Dust} -> 0 .. MaxTimers]
    BY DEF AilInit
  <2>3. condition \in [Patients -> {"living", "statue", "dead", "out", "gone"}]
    BY DEF AilInit
  <2>4. marked \cup effects \cup slept \subseteq Patients
    BY DEF AilInit
  <2> QED
    BY <2>1, <2>2, <2>3, <2>4 DEF Fit, AilTypeOK
<1>2. MarkedAreThere /\ InSync /\ Enough
  BY DEF AilInit, MarkedAreThere, InSync, Enough
<1>3. OneEach
  BY DEF AilInit, OneEach
<1> QED
  BY <1>1, <1>2, <1>3 DEF AilInv

LEMMA AilStep ==
  ASSUME AilInv, [AilNext]_ailVars
  PROVE  AilInv'
<1>1. CASE UNCHANGED ailVars
  BY <1>1 DEF ailVars, AilInv, Fit, AilTypeOK, MarkedAreThere, InSync, OneEach, Enough, There
<1>2. ASSUME NEW p \in Patients, Afflict(p)
      PROVE  AilInv'
  <2>1. Bounded /\ There(p) /\ Caught({p}) /\ UNCHANGED <<kind, condition, stray>>
    BY <1>2 DEF Afflict
  <2>2. \A q \in Patients : There(q)' <=> There(q)
    BY <2>1 DEF There
  <2> QED
    BY <2>1, <2>2, CaughtKeeps DEF AilInv, Fit, AilTypeOK
<1>3. ASSUME NEW p \in Patients, Cure(p)
      PROVE  AilInv'
  <2>1. There(p) /\ p \in effects /\ Cured(p, call_outs) /\ UNCHANGED <<kind, condition>>
    BY <1>3 DEF Cure
  <2>2. p \in marked /\ \A q \in Patients : There(q)' <=> There(q)
    BY <2>1 DEF AilInv, InSync, There
  <2> QED
    BY <2>1, <2>2, CuredKeeps DEF AilInv, Fit, AilTypeOK
<1>4. CASE AilNext
  BY <1>2, <1>3, <1>4, HarmKeeps, ChangesKeeps, LeavesKeeps, ComesBackKeeps, EffectEndsKeeps
  DEF AilNext
<1> QED
  BY <1>1, <1>4

LEMMA AilAlways == AilSpec => []AilInv
  BY AilStart, AilStep, PTL DEF AilSpec

\* The master's marks and the livings' lists agree on everybody in the game, however many
\* catch, resist, are healed, die, turn to stone, leave and come back (poison.c, extra.c).
THEOREM AilInSync == AilSpec => []InSync
<1>1. AilInv => InSync
  BY DEF AilInv
<1> QED
  BY <1>1, AilAlways, PTL

\* Who has an ailment is harmed by it, but for the two cases that Acts names.
THEOREM AilActs == AilSpec => []Acts
<1>1. AilInv => Acts
  BY DEF AilInv, Fit, Kinds, AilTypeOK, OneEach, Enough, Acts
<1> QED
  BY <1>1, AilAlways, PTL

(***************************************************************************)
(* Proofs about Mail, for any number of mails.                             *)
(*                                                                         *)
(* What is kept rests on three things: as long as no crash left some of    *)
(* the files of a run, they are numbered from 1 without a gap, one mail    *)
(* each; while a reader is told of mail, there are no files; and as long   *)
(* as no second reader was opened past the first, the reader that saves    *)
(* is the one that is told, and its copy has all that is in the file.      *)
(***************************************************************************)

\* Mail data that hold mails up to number p.
Filed(p) == {f \in Folders : f.doomed \subseteq f.mails /\ f.mails \subseteq 1 .. p}
Copies(p) == [folder : Filed(p), at0 : BOOLEAN]

MailTyped ==
  /\ posted \in 0 .. MaxMails /\ odd \subseteq 1 .. posted /\ owed \subseteq 1 .. posted
  /\ twice \in BOOLEAN /\ torn \in BOOLEAN /\ mail_link \in BOOLEAN
  /\ maildata \in Filed(posted) /\ new_files \in [Names -> Seq(1 .. posted)]
  /\ reader \in [Readers -> Copies(posted)]
  /\ mail_input \in Readers \cup {NoReader} /\ tmp_reader \in Readers \cup {NoReader}

\* The files up to k hold one mail each, and there are no others.
Upto(fs, k) == \A n \in Names : IF n <= k THEN Len(fs[n]) = 1 ELSE fs[n] = <<>>
Single(fs) == {fs[n][1] : n \in {k \in Names : Len(fs[k]) = 1}}

ToldHasAll ==
  /\ mail_input \in {NoReader, tmp_reader}
  /\ tmp_reader # NoReader => maildata.mails \cap owed \subseteq reader[tmp_reader].folder.mails

InOrder == \E k \in 0 .. 2 * posted : Upto(new_files, k)
OnDisk == owed \ odd \subseteq maildata.mails \cup Single(new_files)

MailInd ==
  /\ MailTyped
  /\ tmp_reader # NoReader => new_files = NoFiles
  /\ ~twice => ToldHasAll
  /\ ~torn => InOrder
  /\ ~twice /\ ~torn => OnDisk

\* What FiledStays says of a step.
Stays == ~twice' => maildata.mails \cap owed' \subseteq maildata'.mails

(***************************************************************************)
(* The operators.                                                          *)
(***************************************************************************)

LEMMA MoreMails ==
  ASSUME NEW p \in Nat, NEW q \in Nat, p <= q
  PROVE  Filed(p) \subseteq Filed(q) /\ Seq(1 .. p) \subseteq Seq(1 .. q) /\ Copies(p) \subseteq Copies(q)
<1>1. 1 .. p \subseteq 1 .. q
  OBVIOUS
<1>2. Seq(1 .. p) \subseteq Seq(1 .. q)
  BY <1>1, SeqMonotonic
<1>3. Filed(p) \subseteq Filed(q)
  BY <1>1 DEF Filed
<1> QED BY <1>2, <1>3 DEF Copies

LEMMA NoneUnread ==
  /\ NoFiles \in [Names -> Seq(1 .. 0)]
  /\ \A p \in Nat : NoFiles \in [Names -> Seq(1 .. p)]
  /\ Upto(NoFiles, 0) /\ Single(NoFiles) = {}
<1>1. <<>> \in Seq(1 .. 0) /\ Len(<<>>) = 0 /\ \A p \in Nat : <<>> \in Seq(1 .. p)
  OBVIOUS
<1>2. \A n \in Names : n \in Nat /\ n >= 1 /\ NoFiles[n] = <<>>
  BY MaxMailsAssumption DEF Names, NoFiles
<1> QED BY <1>1, <1>2 DEF Upto, Single, NoFiles

\* get_new_mail() takes every mail over that is alone in its file.
LEMMA FetchedAll ==
  ASSUME NEW p \in 0 .. MaxMails, NEW f \in Filed(p), NEW fs \in [Names -> Seq(1 .. p)]
  PROVE  /\ Fetched(f, fs) \in Filed(p)
         /\ f.mails \cup (Single(fs) \ odd) \subseteq Fetched(f, fs).mails
<1> DEFINE T == UNION {Taken(fs[n]) : n \in Names}
<1>0. p \in Nat /\ 1 .. p \subseteq Mails
  BY MaxMailsAssumption DEF Mails
<1>1. \A n \in Names : Len(fs[n]) = 1 => fs[n][1] \in 1 .. p
  <2> SUFFICES ASSUME NEW n \in Names, Len(fs[n]) = 1 PROVE fs[n][1] \in 1 .. p
    OBVIOUS
  <2>1. fs[n] \in Seq(1 .. p)
    OBVIOUS
  <2>2. 1 \in 1 .. Len(fs[n])
    OBVIOUS
  <2> QED BY <2>1, <2>2, ElementOfSeq
<1>2. T \subseteq 1 .. p
  BY <1>1 DEF Taken
<1>3. Single(fs) \ odd \subseteq T
  BY DEF Single, Taken
<1>4. Fetched(f, fs) = [f EXCEPT !.mails = @ \cup T]
  BY DEF Fetched
<1> HIDE DEF T
<1>5. f \in Folders /\ f.doomed \subseteq f.mails /\ f.mails \subseteq 1 .. p
  BY DEF Filed
<1>6. Fetched(f, fs) \in Folders /\ Fetched(f, fs).mails = f.mails \cup T /\ Fetched(f, fs).doomed = f.doomed
  BY <1>0, <1>2, <1>4, <1>5 DEF Folders
<1> QED BY <1>2, <1>3, <1>5, <1>6 DEF Filed

\* distribute_mail() writes a file of its own, if the others are numbered without a gap.
LEMMA WrittenApart ==
  ASSUME NEW p \in 0 .. MaxMails, NEW fs \in [Names -> Seq(1 .. p)], NEW m \in 1 .. p
  PROVE  /\ Written(fs, m) \in [Names -> Seq(1 .. p)]
         /\ \A k \in 0 .. 2 * MaxMails - 1 :
              Upto(fs, k) => /\ Upto(Written(fs, m), k + 1)
                             /\ Single(fs) \cup {m} \subseteq Single(Written(fs, m))
<1> DEFINE c == Cardinality({n \in Names : fs[n] # <<>>}) + 1
           w == Written(fs, m)
<1>1. w = [fs EXCEPT ![c] = Append(fs[c], m)]
  BY DEF Written
<1> HIDE DEF c, w
<1>2. \A n \in Names : w[n] = IF n = c THEN Append(fs[n], m) ELSE fs[n]
  BY <1>1
<1>3. \A n \in Names : w[n] \in Seq(1 .. p)
  <2> SUFFICES ASSUME NEW n \in Names PROVE w[n] \in Seq(1 .. p)
    OBVIOUS
  <2>1. fs[n] \in Seq(1 .. p)
    OBVIOUS
  <2>2. Append(fs[n], m) \in Seq(1 .. p)
    BY <2>1, AppendProperties
  <2> QED BY <1>2, <2>1, <2>2
<1>4. w \in [Names -> Seq(1 .. p)]
  BY <1>1, <1>3
<1>5. ASSUME NEW k \in 0 .. 2 * MaxMails - 1, Upto(fs, k)
      PROVE  Upto(w, k + 1) /\ Single(fs) \cup {m} \subseteq Single(w)
  <2>1. k \in Nat /\ k + 1 \in Names /\ k + 1 \in Nat
    BY MaxMailsAssumption DEF Names
  <2>2. \A n \in Names : n \in Nat /\ n >= 1
    BY MaxMailsAssumption DEF Names
  <2>3. \A n \in Names : fs[n] # <<>> <=> n <= k
    <3> SUFFICES ASSUME NEW n \in Names PROVE fs[n] # <<>> <=> n <= k
      OBVIOUS
    <3>1. Len(<<>>) = 0 /\ n \in Nat
      BY <2>2
    <3>2. IF n <= k THEN Len(fs[n]) = 1 ELSE fs[n] = <<>>
      BY <1>5 DEF Upto
    <3>3. CASE n <= k
      <4>1. Len(fs[n]) = 1
        BY <3>2, <3>3
      <4> QED BY <3>1, <3>3, <4>1
    <3> QED BY <3>2, <3>3
  <2>4. {n \in Names : fs[n] # <<>>} = 1 .. k
    <3>1. \A n : n \in 1 .. k <=> n \in Names /\ n <= k
      BY <2>1, MaxMailsAssumption DEF Names
    <3> QED BY <2>3, <3>1
  <2>5. c = k + 1
    <3>1. Cardinality(1 .. k) = k
      BY <2>1, FS_Interval
    <3> QED BY <2>4, <3>1 DEF c
  <2>6. fs[k + 1] = <<>>
    BY <1>5, <2>1 DEF Upto
  <2>7. w[k + 1] = Append(<<>>, m)
    BY <1>2, <2>1, <2>5, <2>6
  <2>8. Len(w[k + 1]) = 1 /\ w[k + 1][1] = m
    BY <2>7
  <2>9. \A n \in Names \ {k + 1} : w[n] = fs[n]
    BY <1>2, <2>5
  <2>10. Upto(w, k + 1)
    <3> SUFFICES ASSUME NEW n \in Names
                 PROVE  IF n <= k + 1 THEN Len(w[n]) = 1 ELSE w[n] = <<>>
      BY DEF Upto
    <3>1. CASE n = k + 1
      BY <2>1, <2>8, <3>1
    <3>2. CASE n # k + 1
      BY <1>5, <2>1, <2>2, <2>9, <3>2 DEF Upto
    <3> QED BY <3>1, <3>2
  <2>11. Single(fs) \subseteq Single(w)
    <3> SUFFICES ASSUME NEW n \in Names, Len(fs[n]) = 1 PROVE fs[n][1] \in Single(w)
      BY DEF Single
    <3>1. n # k + 1
      <4>1. Len(<<>>) # 1
        OBVIOUS
      <4> QED BY <2>6, <4>1
    <3> QED BY <2>9, <3>1 DEF Single
  <2>12. m \in Single(w)
    BY <2>1, <2>8 DEF Single
  <2> QED BY <2>10, <2>11, <2>12
<1> QED BY <1>4, <1>5 DEF w

LEMMA RolesTyped ==
  ASSUME NEW p \in Nat, NEW rd \in [Readers -> Copies(p)], NEW i \in Readers \cup {NoReader},
         NEW t \in Readers \cup {NoReader}, Roles(rd, i, t)
  PROVE  /\ mail_input' = i /\ tmp_reader' = t
         /\ mail_input' \in Readers \cup {NoReader} /\ tmp_reader' \in Readers \cup {NoReader}
         /\ reader' \in [Readers -> Copies(p)]
         /\ t # NoReader => reader'[t] = rd[t]
<1>1. Gone \in Copies(p)
  BY DEF Gone, NoMails, Copies, Filed, Folders
<1> QED BY <1>1 DEF Roles

LEMMA AskedTyped ==
  ASSUME NEW r, NEW rec PROVE AskedBy(r, rec) \in {r, NoReader}
BY DEF AskedBy

(***************************************************************************)
(* Sending mails.                                                          *)
(***************************************************************************)

LEMMA NumberedFacts ==
  ASSUME MailTyped, NEW isOdd \in BOOLEAN, Numbered(isOdd)
  PROVE  /\ posted < MaxMails /\ posted \in Nat /\ posted' = posted + 1 /\ posted' \in 0 .. MaxMails
         /\ posted' \in 1 .. posted' /\ 1 .. posted \subseteq 1 .. posted'
         /\ odd' \subseteq 1 .. posted' /\ owed' \subseteq 1 .. posted'
         /\ owed' \ odd' \subseteq (owed \ odd) \cup (IF isOdd THEN {} ELSE {posted'})
         /\ \A M \in SUBSET (1 .. posted) : M \cap owed' = M \cap owed
         /\ Filed(posted) \subseteq Filed(posted') /\ Seq(1 .. posted) \subseteq Seq(1 .. posted')
         /\ Copies(posted) \subseteq Copies(posted')
<1>1. /\ posted < MaxMails /\ posted \in Nat /\ posted' = posted + 1 /\ posted' \in 0 .. MaxMails
      /\ posted' \in 1 .. posted' /\ posted' \notin 1 .. posted /\ posted' \in Nat
  BY MaxMailsAssumption DEF MailTyped, Numbered
<1>2. 1 .. posted \subseteq 1 .. posted'
  BY <1>1
<1>3. /\ odd' = (IF isOdd THEN odd \cup {posted'} ELSE odd) /\ owed' = owed \cup {posted'}
      /\ odd \subseteq 1 .. posted /\ owed \subseteq 1 .. posted
  BY DEF MailTyped, Numbered
<1>4. odd' \subseteq 1 .. posted' /\ owed' \subseteq 1 .. posted'
  BY <1>1, <1>2, <1>3
<1>5. owed' \ odd' \subseteq (owed \ odd) \cup (IF isOdd THEN {} ELSE {posted'})
  BY <1>3
<1>6. \A M \in SUBSET (1 .. posted) : M \cap owed' = M \cap owed
  BY <1>1, <1>3
<1> QED BY <1>1, <1>2, <1>4, <1>5, <1>6, MoreMails

LEMMA ToldFacts ==
  ASSUME MailTyped, NEW isOdd \in BOOLEAN, Numbered(isOdd), NEW r \in Readers
  PROVE  /\ Told(r, isOdd) \in Filed(posted')
         /\ reader[r].folder.mails \subseteq Told(r, isOdd).mails
         /\ ~isOdd => posted' \in Told(r, isOdd).mails
<1> DEFINE f == Fetched(reader[r].folder, new_files)
<1>1. /\ posted \in 0 .. MaxMails /\ reader[r].folder \in Filed(posted)
      /\ new_files \in [Names -> Seq(1 .. posted)]
  BY DEF MailTyped, Copies
<1>2. f \in Filed(posted) /\ reader[r].folder.mails \subseteq f.mails
  BY <1>1, FetchedAll
<1> HIDE DEF f
<1>3. f \in Filed(posted') /\ posted' \in 1 .. posted' /\ posted' \in 0 .. MaxMails
  BY <1>2, NumberedFacts
<1> DEFINE t == [f EXCEPT !.mails = IF isOdd THEN @ ELSE @ \cup {posted'}]
<1>4. f \in Folders /\ f.doomed \subseteq f.mails /\ f.mails \subseteq 1 .. posted'
  BY <1>3 DEF Filed
<1>5. /\ t \in Folders /\ t.doomed = f.doomed
      /\ t.mails = IF isOdd THEN f.mails ELSE f.mails \cup {posted'}
  BY <1>3, <1>4, MaxMailsAssumption DEF Folders, Mails
<1>6. Told(r, isOdd) = t
  BY DEF Told, f
<1> HIDE DEF t
<1> QED BY <1>2, <1>3, <1>4, <1>5, <1>6 DEF Filed

LEMMA SendStep ==
  ASSUME MailInd, NEW isOdd \in BOOLEAN, NEW again \in BOOLEAN, Send(isOdd, again)
  PROVE  MailInd' /\ Stays
<1> DEFINE r == tmp_reader
<1>1. /\ MailTyped /\ Numbered(isOdd) /\ r \in Readers \cup {NoReader}
      /\ UNCHANGED <<mail_input, tmp_reader, mail_link, twice, torn>>
      /\ posted \in 0 .. MaxMails /\ maildata \in Filed(posted) /\ maildata.mails \subseteq 1 .. posted
      /\ new_files \in [Names -> Seq(1 .. posted)] /\ reader \in [Readers -> Copies(posted)]
  BY DEF MailInd, MailTyped, Send, Filed
<1>2. /\ posted < MaxMails /\ posted \in Nat /\ posted' = posted + 1 /\ posted' \in 0 .. MaxMails
      /\ posted' \in 1 .. posted' /\ odd' \subseteq 1 .. posted' /\ owed' \subseteq 1 .. posted'
      /\ owed' \ odd' \subseteq (owed \ odd) \cup (IF isOdd THEN {} ELSE {posted'})
      /\ maildata.mails \cap owed' = maildata.mails \cap owed
      /\ Filed(posted) \subseteq Filed(posted') /\ Seq(1 .. posted) \subseteq Seq(1 .. posted')
      /\ Copies(posted) \subseteq Copies(posted')
  BY <1>1, NumberedFacts
<1>3. CASE r = NoReader
  <2> DEFINE once == Written(new_files, posted')
             files == IF again THEN Written(once, posted') ELSE once
  <2>1. new_files' = files /\ UNCHANGED <<maildata, reader>>
    BY <1>3 DEF Send, ReaderOf
  <2>2. new_files \in [Names -> Seq(1 .. posted')]
    BY <1>1, <1>2
  <2>3. /\ once \in [Names -> Seq(1 .. posted')]
        /\ \A k \in 0 .. 2 * MaxMails - 1 :
             Upto(new_files, k) => /\ Upto(once, k + 1)
                                   /\ Single(new_files) \cup {posted'} \subseteq Single(once)
    BY <1>2, <2>2, WrittenApart
  <2> HIDE DEF once
  <2>4. /\ Written(once, posted') \in [Names -> Seq(1 .. posted')]
        /\ \A k \in 0 .. 2 * MaxMails - 1 :
             Upto(once, k) => /\ Upto(Written(once, posted'), k + 1)
                              /\ Single(once) \subseteq Single(Written(once, posted'))
    BY <1>2, <2>3, WrittenApart
  <2>5. new_files' \in [Names -> Seq(1 .. posted')]
    BY <2>1, <2>3, <2>4
  <2>6. MailTyped'
    BY <1>1, <1>2, <2>1, <2>5 DEF MailTyped
  <2>7. ~twice' => ToldHasAll'
    BY <1>1, <1>3, <2>1 DEF MailInd, ToldHasAll
  <2>8. ASSUME ~torn PROVE InOrder' /\ Single(new_files) \cup {posted'} \subseteq Single(new_files')
    <3>1. PICK k \in 0 .. 2 * posted : Upto(new_files, k)
      BY <2>8 DEF MailInd, InOrder
    <3>2. /\ k \in 0 .. 2 * MaxMails - 1 /\ k + 1 \in 0 .. 2 * MaxMails - 1
          /\ k + 1 \in 0 .. 2 * posted' /\ (k + 1) + 1 \in 0 .. 2 * posted'
      BY <1>2, MaxMailsAssumption
    <3>3. Upto(once, k + 1) /\ Single(new_files) \cup {posted'} \subseteq Single(once)
      BY <2>3, <3>1, <3>2
    <3>4. /\ Upto(Written(once, posted'), (k + 1) + 1)
          /\ Single(once) \subseteq Single(Written(once, posted'))
      BY <2>4, <3>2, <3>3
    <3>5. Single(new_files) \cup {posted'} \subseteq Single(new_files')
      BY <2>1, <3>3, <3>4
    <3>6. InOrder'
      <4>1. CASE again
        BY <2>1, <3>2, <3>4, <4>1 DEF InOrder
      <4>2. CASE ~again
        BY <2>1, <3>2, <3>3, <4>2 DEF InOrder
      <4> QED BY <4>1, <4>2
    <3> QED BY <3>5, <3>6
  <2>9. ~twice' /\ ~torn' => OnDisk'
    BY <1>1, <1>2, <2>1, <2>8 DEF MailInd, OnDisk
  <2> QED BY <1>1, <1>3, <2>1, <2>6, <2>7, <2>8, <2>9 DEF MailInd, Stays
<1>4. CASE r # NoReader
  <2> DEFINE told == Told(r, isOdd)
  <2>1. /\ new_files' = NoFiles /\ maildata' = told
        /\ reader' = [reader EXCEPT ![r].folder = told] /\ r \in Readers
    BY <1>1, <1>4 DEF Send, ReaderOf
  <2>2. /\ told \in Filed(posted') /\ reader[r].folder.mails \subseteq told.mails
        /\ ~isOdd => posted' \in told.mails
    BY <1>1, <2>1, ToldFacts
  <2> HIDE DEF told
  <2>3. reader' \in [Readers -> Copies(posted')] /\ reader'[r].folder = told
    BY <1>1, <1>2, <2>1, <2>2 DEF Copies
  <2>4. MailTyped'
    BY <1>1, <1>2, <2>1, <2>2, <2>3, NoneUnread DEF MailTyped
  <2>5. InOrder'
    BY <1>2, <2>1, NoneUnread DEF InOrder
  <2>6. ASSUME ~twice PROVE ToldHasAll' /\ Stays /\ (~torn => OnDisk')
    <3>1. maildata.mails \cap owed \subseteq told.mails
      BY <1>4, <2>2, <2>6 DEF MailInd, ToldHasAll
    <3>2. Single(new_files) = {}
      BY <1>4, NoneUnread DEF MailInd
    <3>3. ToldHasAll' /\ Stays
      BY <1>1, <1>2, <2>1, <2>3, <2>6, <3>1 DEF MailInd, ToldHasAll, Stays
    <3>4. ~torn => owed \ odd \subseteq told.mails
      BY <2>6, <3>1, <3>2 DEF MailInd, OnDisk
    <3>5. ~torn => OnDisk'
      BY <1>2, <2>1, <2>2, <3>4 DEF OnDisk
    <3> QED BY <3>3, <3>5
  <2> QED BY <1>1, <2>1, <2>4, <2>5, <2>6 DEF MailInd, Stays
<1> QED BY <1>3, <1>4

\* The types of what stands on the disk, and of the readers.
LEMMA TypesNow ==
  ASSUME MailTyped
  PROVE  /\ posted \in Nat /\ posted \in 0 .. MaxMails
         /\ maildata \in Filed(posted) /\ new_files \in [Names -> Seq(1 .. posted)]
         /\ reader \in [Readers -> Copies(posted)]
         /\ \A r \in Readers : /\ reader[r] \in Copies(posted) /\ reader[r].folder \in Filed(posted)
                               /\ reader[r].at0 \in BOOLEAN
         /\ maildata.mails \subseteq 1 .. posted
         /\ mail_input \in Readers \cup {NoReader} /\ tmp_reader \in Readers \cup {NoReader}
         /\ NoReader \notin Readers
BY MaxMailsAssumption, ReadersAssumption DEF MailTyped, Copies, Filed

LEMMA SendAndGoOnStep == ASSUME MailInd, SendAndGoOn PROVE MailInd' /\ Stays
<1> DEFINE r == mail_input
           rec == [reader[r] EXCEPT !.folder = Told(r, FALSE)]
<1>1. MailTyped /\ r \in Readers /\ UNCHANGED <<mail_link, twice, torn>>
  BY DEF MailInd, MailTyped, SendAndGoOn
<1>2. CASE Roles(reader, AskedBy(r, reader[r]), tmp_reader) /\ UNCHANGED <<disk, posted, odd, owed>>
  <2>1. AskedBy(r, reader[r]) \in {mail_input, NoReader}
    BY AskedTyped
  <2>2. /\ mail_input' \in {mail_input, NoReader} /\ tmp_reader' = tmp_reader
        /\ reader' \in [Readers -> Copies(posted)] /\ mail_input' \in Readers \cup {NoReader}
        /\ tmp_reader # NoReader => reader'[tmp_reader] = reader[tmp_reader]
    BY <1>1, <1>2, <2>1, TypesNow, RolesTyped
  <2>3. MailTyped'
    BY <1>1, <1>2, <2>2 DEF MailTyped, disk
  <2>4. ~twice' => ToldHasAll'
    BY <1>1, <1>2, <2>2 DEF MailInd, ToldHasAll, disk
  <2> QED BY <1>1, <1>2, <2>2, <2>3, <2>4 DEF MailInd, InOrder, OnDisk, Stays, disk
<1>3. CASE /\ tmp_reader = r /\ Numbered(FALSE)
           /\ maildata' = rec.folder /\ new_files' = NoFiles
           /\ Roles([reader EXCEPT ![r] = rec], AskedBy(r, rec), r)
  <2>1. /\ posted' \in Nat /\ posted' \in 0 .. MaxMails /\ posted' \in 1 .. posted' /\ 0 \in 0 .. 2 * posted'
        /\ odd' \subseteq 1 .. posted' /\ owed' \subseteq 1 .. posted'
        /\ owed' \ odd' \subseteq (owed \ odd) \cup {posted'}
        /\ maildata.mails \cap owed' = maildata.mails \cap owed
        /\ Copies(posted) \subseteq Copies(posted')
    <3>1. /\ posted \in Nat /\ posted' = posted + 1 /\ posted' \in 0 .. MaxMails
          /\ posted' \in 1 .. posted' /\ odd' \subseteq 1 .. posted' /\ owed' \subseteq 1 .. posted'
          /\ owed' \ odd' \subseteq (owed \ odd) \cup (IF FALSE THEN {} ELSE {posted'})
          /\ \A M \in SUBSET (1 .. posted) : M \cap owed' = M \cap owed
          /\ Copies(posted) \subseteq Copies(posted')
      BY <1>1, <1>3, NumberedFacts
    <3>2. maildata.mails \subseteq 1 .. posted
      BY <1>1, TypesNow
    <3>3. posted' \in Nat /\ 0 \in 0 .. 2 * posted'
      BY <3>1
    <3> QED BY <3>1, <3>2, <3>3
  <2>2. /\ Told(r, FALSE) \in Filed(posted') /\ reader[r].folder.mails \subseteq Told(r, FALSE).mails
        /\ posted' \in Told(r, FALSE).mails
    BY <1>1, <1>3, ToldFacts
  <2>3. rec \in Copies(posted') /\ rec.folder = Told(r, FALSE)
    BY <1>1, <2>2, TypesNow DEF Copies
  <2> HIDE DEF rec
  <2>4. [reader EXCEPT ![r] = rec] \in [Readers -> Copies(posted')]
    BY <1>1, <2>1, <2>3, TypesNow
  <2>5. AskedBy(r, rec) \in {r, NoReader}
    BY AskedTyped
  <2>6. /\ mail_input' \in {r, NoReader} /\ tmp_reader' = r
        /\ reader' \in [Readers -> Copies(posted')] /\ reader'[r] = rec
    <3>1. [reader EXCEPT ![r] = rec][r] = rec /\ r # NoReader
      BY <1>1, TypesNow
    <3> QED BY <1>1, <1>3, <2>1, <2>4, <2>5, <3>1, RolesTyped
  <2>7. MailTyped'
    BY <1>1, <1>3, <2>1, <2>2, <2>3, <2>6, NoneUnread DEF MailTyped
  <2>8. InOrder'
    BY <1>3, <2>1, NoneUnread DEF InOrder
  <2>9. ASSUME ~twice PROVE ToldHasAll' /\ Stays /\ (~torn => OnDisk')
    <3>1. maildata.mails \cap owed \subseteq Told(r, FALSE).mails
      BY <1>1, <1>3, <2>2, <2>9, TypesNow DEF MailInd, ToldHasAll
    <3>2. Single(new_files) = {}
      BY <1>1, <1>3, NoneUnread, TypesNow DEF MailInd
    <3>3. ToldHasAll' /\ Stays
      BY <1>3, <2>1, <2>3, <2>6, <3>1 DEF ToldHasAll, Stays
    <3>4. ~torn => owed \ odd \subseteq Told(r, FALSE).mails
      BY <2>9, <3>1, <3>2 DEF MailInd, OnDisk
    <3>5. ~torn => OnDisk'
      BY <1>3, <2>1, <2>2, <2>3, <3>4 DEF OnDisk
    <3> QED BY <3>3, <3>5
  <2> QED BY <1>1, <1>3, <2>7, <2>8, <2>9 DEF MailInd, Stays
<1> QED BY <1>2, <1>3 DEF SendAndGoOn

(***************************************************************************)
(* Reading mails.                                                          *)
(***************************************************************************)

\* What get_new_mail() makes of the disk is complete.
LEMMA FetchedComplete ==
  ASSUME MailInd
  PROVE  LET f == Fetched(maildata, new_files) IN
         /\ f \in Filed(posted) /\ maildata.mails \subseteq f.mails
         /\ ~twice /\ ~torn => owed \ odd \subseteq f.mails
<1>1. MailTyped
  BY DEF MailInd
<1>2. /\ Fetched(maildata, new_files) \in Filed(posted)
      /\ maildata.mails \cup (Single(new_files) \ odd) \subseteq Fetched(maildata, new_files).mails
  BY <1>1, TypesNow, FetchedAll
<1> QED BY <1>2 DEF MailInd, OnDisk

LEMMA OtherReader == \E x \in Readers : x # mail_input
<1> SUFFICES ASSUME \A x \in Readers : x = mail_input PROVE FALSE
  OBVIOUS
<1>1. Readers \subseteq {mail_input}
  OBVIOUS
<1>2. IsFiniteSet({mail_input}) /\ Cardinality({mail_input}) = 1
  BY FS_Singleton
<1>3. Cardinality(Readers) <= 1
  BY <1>1, <1>2, FS_Subset
<1> QED BY <1>3, ReadersAssumption

LEMMA ReadMailStep == ASSUME MailInd, ReadMail PROVE MailInd' /\ Stays
<1> DEFINE r == CHOOSE x \in Readers : x # mail_input
           f == Fetched(maildata, new_files)
           rec == [folder |-> f, at0 |-> FALSE]
           i == IF mail_input = NoReader THEN r ELSE mail_input
<1>1. MailTyped /\ UNCHANGED <<mail_link, posted, odd, owed, torn>>
  BY DEF MailInd, ReadMail
<1>2. r \in Readers /\ r # mail_input
  BY OtherReader
<1>3. /\ f \in Filed(posted) /\ maildata.mails \subseteq f.mails
      /\ ~twice /\ ~torn => owed \ odd \subseteq f.mails
  BY FetchedComplete
<1>4. /\ Roles([reader EXCEPT ![r] = rec], i, r) /\ maildata' = f /\ new_files' = NoFiles
      /\ twice' = (twice \/ mail_input # NoReader)
  BY DEF ReadMail
<1> HIDE DEF r, f
<1>5. rec \in Copies(posted) /\ rec.folder = f
  BY <1>3 DEF Copies
<1> HIDE DEF rec
<1>6. /\ [reader EXCEPT ![r] = rec] \in [Readers -> Copies(posted)]
      /\ [reader EXCEPT ![r] = rec][r] = rec /\ i \in Readers \cup {NoReader} /\ r # NoReader
  BY <1>1, <1>2, <1>5, TypesNow
<1>7. /\ mail_input' = i /\ tmp_reader' = r /\ mail_input' \in Readers \cup {NoReader}
      /\ reader' \in [Readers -> Copies(posted)] /\ reader'[r] = rec
  BY <1>1, <1>2, <1>4, <1>6, RolesTyped, TypesNow
<1>8. MailTyped'
  BY <1>1, <1>2, <1>3, <1>4, <1>7, NoneUnread, TypesNow DEF MailTyped
<1>9. InOrder'
  BY <1>1, <1>4, NoneUnread, TypesNow DEF InOrder
<1>10. ~twice' => ToldHasAll'
  BY <1>4, <1>5, <1>7 DEF ToldHasAll
<1>11. ~twice' /\ ~torn' => OnDisk'
  BY <1>1, <1>3, <1>4 DEF OnDisk
<1> QED BY <1>3, <1>4, <1>8, <1>9, <1>10, <1>11 DEF MailInd, Stays

LEMMA FromStep == ASSUME MailInd, From PROVE MailInd' /\ Stays
<1> DEFINE f == Fetched(maildata, new_files)
<1>1. /\ MailTyped /\ maildata' = f /\ new_files' = NoFiles
      /\ UNCHANGED <<reader, mail_input, tmp_reader, mail_link, posted, odd, owed, twice, torn>>
  BY DEF MailInd, From
<1>2. /\ f \in Filed(posted) /\ maildata.mails \subseteq f.mails
      /\ ~twice /\ ~torn => owed \ odd \subseteq f.mails
  BY FetchedComplete
<1>3. tmp_reader = NoReader
  BY DEF MailInd, From, Unread, NoFiles
<1> HIDE DEF f
<1>4. MailTyped'
  BY <1>1, <1>2, NoneUnread, TypesNow DEF MailTyped
<1>5. InOrder'
  BY <1>1, NoneUnread, TypesNow DEF InOrder
<1>6. ~twice' => ToldHasAll'
  BY <1>1, <1>3 DEF MailInd, ToldHasAll
<1>7. ~twice' /\ ~torn' => OnDisk'
  BY <1>1, <1>2 DEF OnDisk
<1> QED BY <1>1, <1>2, <1>4, <1>5, <1>6, <1>7 DEF MailInd, Stays

\* A reader saves the copy it has, of which the mails D are deleted: nothing is
\* lost unless there were two readers.
LEMMA SaveStep ==
  ASSUME MailInd, NEW r \in Readers, mail_input = r, NEW D \in SUBSET Mails,
         posted' = posted, odd' = odd, owed' = owed \ D, twice' = twice, torn' = torn,
         mail_link' = mail_link, new_files' = new_files,
         NEW f \in Filed(posted), f.mails = reader[r].folder.mails \ D,
         maildata' = f,
         reader' \in [Readers -> Copies(posted)],
         tmp_reader' # NoReader => tmp_reader' = tmp_reader /\ reader'[tmp_reader].folder.mails
                                     = IF tmp_reader = r THEN f.mails ELSE reader[tmp_reader].folder.mails,
         tmp_reader' \in {tmp_reader, NoReader},
         mail_input' \in {r, NoReader}, tmp_reader' = NoReader /\ ~twice => mail_input' = NoReader
  PROVE  MailInd' /\ Stays
<1>1. MailTyped /\ r # NoReader
  BY TypesNow DEF MailInd
<1>2. MailTyped'
  BY <1>1, TypesNow DEF MailTyped
<1>3. ~twice => /\ tmp_reader = r /\ new_files = NoFiles
                /\ maildata.mails \cap owed \subseteq reader[r].folder.mails
  BY <1>1 DEF MailInd, ToldHasAll
<1>4. ~twice => maildata.mails \cap owed' \subseteq f.mails
  BY <1>3
<1>5. ~twice' => ToldHasAll'
  BY <1>1, <1>3, <1>4 DEF ToldHasAll
<1>6. ~torn' => InOrder'
  BY DEF MailInd, InOrder
<1>7. ~twice' /\ ~torn' => OnDisk'
  <2> SUFFICES ASSUME ~twice, ~torn PROVE owed' \ odd' \subseteq f.mails
    BY DEF OnDisk
  <2>1. owed \ odd \subseteq maildata.mails
    BY <1>3, NoneUnread DEF MailInd, OnDisk
  <2> QED BY <1>3, <2>1
<1> QED BY <1>2, <1>4, <1>5, <1>6, <1>7 DEF MailInd, Stays

LEMMA DisplayStep == ASSUME MailInd, NEW r \in Readers, Display(r) PROVE MailInd' /\ Stays
<1>1. /\ MailTyped /\ mail_input = r /\ maildata' = reader[r].folder
      /\ reader' = [reader EXCEPT ![r].at0 = FALSE]
      /\ UNCHANGED <<new_files, mail_input, tmp_reader, mail_link, posted, odd, owed, twice, torn>>
  BY DEF MailInd, Display
<1>2. /\ reader' \in [Readers -> Copies(posted)] /\ reader[r].folder \in Filed(posted)
      /\ \A x \in Readers : reader'[x].folder = reader[x].folder
  BY <1>1, TypesNow DEF Copies
<1>3. owed' = owed \ {} /\ reader[r].folder.mails = reader[r].folder.mails \ {}
  BY <1>1
<1>4. tmp_reader # NoReader => tmp_reader \in Readers
  BY <1>1, TypesNow
<1>5. tmp_reader = NoReader /\ ~twice => mail_input = NoReader
  BY DEF MailInd, ToldHasAll
<1> QED BY <1>1, <1>2, <1>3, <1>4, <1>5, SaveStep

\* Nothing is saved, and the readers have what they had.
LEMMA NothingSaved ==
  ASSUME MailInd, UNCHANGED <<disk, posted, odd, owed, twice, torn>>, mail_link' \in BOOLEAN,
         reader' \in [Readers -> Copies(posted)],
         tmp_reader' \in {tmp_reader, NoReader},
         mail_input' \in {mail_input, NoReader},
         tmp_reader' = NoReader /\ ~twice => mail_input' = NoReader,
         tmp_reader' # NoReader =>
           reader'[tmp_reader].folder.mails = reader[tmp_reader].folder.mails
  PROVE  MailInd' /\ Stays
<1>1. MailTyped
  BY DEF MailInd
<1>2. MailTyped'
  BY <1>1 DEF MailTyped, disk
<1>3. ~twice' => ToldHasAll'
  BY DEF MailInd, ToldHasAll, disk
<1> QED BY <1>2, <1>3 DEF MailInd, InOrder, OnDisk, Stays, disk

\* The player's dialogue and the roles of the readers, as a save or a step without one
\* needs them.
LEMMA RolesKept ==
  ASSUME MailInd, NEW rd \in [Readers -> Copies(posted)], NEW i, NEW t,
         i \in {mail_input, NoReader}, t \in {tmp_reader, NoReader}, Roles(rd, i, t)
  PROVE  /\ reader' \in [Readers -> Copies(posted)]
         /\ tmp_reader' \in {tmp_reader, NoReader} /\ mail_input' \in {mail_input, NoReader}
         /\ mail_input' = i /\ tmp_reader' = t
         /\ tmp_reader' # NoReader => tmp_reader \in Readers /\ reader'[tmp_reader] = rd[tmp_reader]
<1>1. MailTyped
  BY DEF MailInd
<1>2. i \in Readers \cup {NoReader} /\ t \in Readers \cup {NoReader}
  BY <1>1, TypesNow
<1> QED BY <1>1, <1>2, TypesNow, RolesTyped

LEMMA DeleteStep == ASSUME MailInd, NEW r \in Readers, Delete(r) PROVE MailInd' /\ Stays
<1>1. /\ MailTyped /\ mail_input = r
      /\ UNCHANGED <<new_files, mail_link, posted, odd, owed, twice, torn>>
  BY DEF MailInd, Delete
<1>2. PICK S \in SUBSET reader[r].folder.mails \ {{}}, onDisk \in BOOLEAN :
        /\ Roles([reader EXCEPT ![r].folder.doomed = @ \cup S], AskedBy(r, reader[r]), tmp_reader)
        /\ maildata' = IF onDisk THEN [reader[r].folder EXCEPT !.doomed = @ \cup S] ELSE maildata
  BY DEF Delete
<1> DEFINE f == [reader[r].folder EXCEPT !.doomed = @ \cup S]
           rd == [reader EXCEPT ![r].folder.doomed = @ \cup S]
<1>3. reader[r] \in Copies(posted) /\ reader[r].folder \in Filed(posted)
  BY <1>1, TypesNow
<1>4. f \in Filed(posted) /\ f.mails = reader[r].folder.mails
  BY <1>3 DEF Filed, Folders
<1>5. rd = [reader EXCEPT ![r] = [reader[r] EXCEPT !.folder = f]]
  BY <1>1, <1>3, TypesNow DEF Copies, Filed, Folders
<1> HIDE DEF f, rd
<1>6. [reader[r] EXCEPT !.folder = f] \in Copies(posted) /\ [reader[r] EXCEPT !.folder = f].folder = f
  BY <1>3, <1>4 DEF Copies
<1>7. rd \in [Readers -> Copies(posted)] /\ \A x \in Readers : rd[x].folder.mails = reader[x].folder.mails
  BY <1>1, <1>4, <1>5, <1>6, TypesNow
<1>8. AskedBy(r, reader[r]) \in {mail_input, NoReader}
  BY <1>1, AskedTyped
<1>9. Roles(rd, AskedBy(r, reader[r]), tmp_reader)
  BY <1>2 DEF rd
<1>10. /\ reader' \in [Readers -> Copies(posted)]
       /\ tmp_reader' = tmp_reader /\ mail_input' \in {mail_input, NoReader}
       /\ tmp_reader' # NoReader => tmp_reader \in Readers /\ reader'[tmp_reader] = rd[tmp_reader]
  BY <1>7, <1>8, <1>9, RolesKept
<1>11. tmp_reader' = NoReader /\ ~twice => mail_input' = NoReader
  BY <1>10 DEF MailInd, ToldHasAll
<1>12. CASE onDisk
  <2>1. maildata' = f /\ owed' = owed \ {} /\ f.mails = reader[r].folder.mails \ {}
    BY <1>1, <1>2, <1>4, <1>12 DEF f
  <2>2. tmp_reader' # NoReader =>
          tmp_reader' = tmp_reader /\ reader'[tmp_reader].folder.mails
                                     = IF tmp_reader = r THEN f.mails ELSE reader[tmp_reader].folder.mails
    BY <1>4, <1>7, <1>10
  <2> QED BY <1>1, <1>4, <1>10, <1>11, <2>1, <2>2, SaveStep
<1>13. CASE ~onDisk
  <2>1. maildata' = maildata
    BY <1>2, <1>13
  <2>2. UNCHANGED <<disk, posted, odd, owed, twice, torn>> /\ mail_link' \in BOOLEAN
    BY <1>1, <2>1 DEF disk, MailTyped
  <2> QED BY <1>7, <1>10, <1>11, <2>2, NothingSaved
<1> QED BY <1>12, <1>13

LEMMA DeleteNoneStep == ASSUME MailInd, DeleteNone PROVE MailInd' /\ Stays
<1>1. /\ MailTyped /\ Roles(reader, NoReader, tmp_reader)
      /\ UNCHANGED <<disk, posted, odd, owed, twice, torn>> /\ mail_link' \in BOOLEAN
  BY DEF MailInd, MailTyped, DeleteNone
<1>2. /\ reader' \in [Readers -> Copies(posted)]
      /\ tmp_reader' = tmp_reader /\ mail_input' = NoReader
      /\ tmp_reader' # NoReader => reader'[tmp_reader] = reader[tmp_reader]
  BY <1>1, TypesNow, RolesKept
<1> QED BY <1>1, <1>2, NothingSaved

LEMMA PurgeStep ==
  ASSUME MailInd, NEW r \in Readers, NEW ends \in BOOLEAN, Purge(r, ends) PROVE MailInd' /\ Stays
<1> DEFINE named == reader[r].folder.doomed
           rest == [mails |-> reader[r].folder.mails \ named, doomed |-> {}]
           rec == [folder |-> rest, at0 |-> reader[r].at0 \/ rest.mails = {}]
           i == IF ends THEN NoReader ELSE AskedBy(r, rec)
           t == IF ends /\ tmp_reader = r THEN NoReader ELSE tmp_reader
           rd == [reader EXCEPT ![r] = rec]
<1>1. /\ MailTyped /\ mail_input = r /\ maildata' = rest /\ owed' = owed \ named
      /\ Roles(rd, i, t)
      /\ UNCHANGED <<new_files, mail_link, posted, odd, twice, torn>>
  BY DEF MailInd, Purge
<1>2. reader[r].folder \in Filed(posted)
  BY <1>1, TypesNow
<1>3. rest \in Filed(posted) /\ rest.mails = reader[r].folder.mails \ named /\ named \in SUBSET Mails
  BY <1>2 DEF Filed, Folders
<1>4. rec.folder = rest /\ (rec.at0 \in BOOLEAN)
  OBVIOUS
<1> HIDE DEF rest
<1>5. rec \in Copies(posted)
  BY <1>3 DEF Copies
<1> HIDE DEF rec
<1>6. /\ rd \in [Readers -> Copies(posted)]
      /\ \A x \in Readers : rd[x] = IF x = r THEN rec ELSE reader[x]
  BY <1>1, <1>5, TypesNow
<1>7. i \in {mail_input, NoReader} /\ t \in {tmp_reader, NoReader}
  BY <1>1, AskedTyped
<1>8. ~twice => tmp_reader = r
  BY <1>1, TypesNow DEF MailInd, ToldHasAll
<1> HIDE DEF rd
<1>9. /\ reader' \in [Readers -> Copies(posted)]
      /\ tmp_reader' \in {tmp_reader, NoReader} /\ mail_input' \in {mail_input, NoReader}
      /\ mail_input' = i /\ tmp_reader' = t
      /\ tmp_reader' # NoReader => tmp_reader \in Readers /\ reader'[tmp_reader] = rd[tmp_reader]
  BY <1>1, <1>6, <1>7, RolesKept
<1>10. tmp_reader' = NoReader /\ ~twice => mail_input' = NoReader
  BY <1>1, <1>8, <1>9, TypesNow
<1>11. tmp_reader' # NoReader =>
         tmp_reader' = tmp_reader /\ reader'[tmp_reader].folder.mails
                                    = IF tmp_reader = r THEN rest.mails ELSE reader[tmp_reader].folder.mails
  BY <1>4, <1>6, <1>9
<1> HIDE DEF named
<1> QED BY <1>1, <1>3, <1>9, <1>10, <1>11, SaveStep

LEMMA QuitMailStep == ASSUME MailInd, NEW r \in Readers, QuitMail(r) PROVE MailInd' /\ Stays
<1> DEFINE i == IF mail_input = r THEN NoReader ELSE mail_input
           t == IF tmp_reader = r THEN NoReader ELSE tmp_reader
<1>1. /\ MailTyped /\ Roles(reader, i, t)
      /\ UNCHANGED <<disk, posted, odd, owed, twice, torn>> /\ mail_link' \in BOOLEAN
  BY DEF MailInd, MailTyped, QuitMail
<1>2. i \in {mail_input, NoReader} /\ t \in {tmp_reader, NoReader}
  OBVIOUS
<1>3. ~twice /\ t = NoReader => i = NoReader
  BY DEF MailInd, ToldHasAll
<1> HIDE DEF i, t
<1>4. /\ reader' \in [Readers -> Copies(posted)]
      /\ tmp_reader' \in {tmp_reader, NoReader} /\ mail_input' \in {mail_input, NoReader}
      /\ mail_input' = i /\ tmp_reader' = t
      /\ tmp_reader' # NoReader => reader'[tmp_reader] = reader[tmp_reader]
  BY <1>1, <1>2, TypesNow, RolesKept
<1> QED BY <1>1, <1>3, <1>4, NothingSaved

LEMMA MailLinkStep == ASSUME MailInd, MailLink PROVE MailInd' /\ Stays
<1>1. /\ MailTyped /\ Roles(reader, NoReader, tmp_reader)
      /\ UNCHANGED <<disk, posted, odd, owed, twice, torn>> /\ mail_link' \in BOOLEAN
  BY DEF MailInd, MailTyped, MailLink
<1>2. /\ reader' \in [Readers -> Copies(posted)]
      /\ tmp_reader' = tmp_reader /\ mail_input' = NoReader
      /\ tmp_reader' # NoReader => reader'[tmp_reader] = reader[tmp_reader]
  BY <1>1, TypesNow, RolesKept
<1> QED BY <1>1, <1>2, NothingSaved

(***************************************************************************)
(* Crashes.                                                                *)
(***************************************************************************)

LEMMA RemainingTyped ==
  ASSUME NEW p \in Nat, NEW fs \in [Names -> Seq(1 .. p)], NEW rest \in Remaining(fs)
  PROVE  rest \in [Names -> Seq(1 .. p)]
<1>1. PICK k \in 0 .. 2 * MaxMails : rest = [n \in Names |-> IF n <= k THEN <<>> ELSE fs[n]]
  BY DEF Remaining
<1>2. <<>> \in Seq(1 .. p)
  OBVIOUS
<1> QED BY <1>1, <1>2

\* After a crash there is no reader; the disk is what it is.
LEMMA CrashedStep ==
  ASSUME MailInd, Roles(reader, NoReader, NoReader), mail_link' = TRUE, twice' = twice,
         NEW p \in Nat, posted' = p, p \in 0 .. MaxMails, posted <= p,
         odd' \subseteq 1 .. p, owed' \subseteq 1 .. p,
         NEW f \in Filed(p), maildata' = f,
         NEW fs \in [Names -> Seq(1 .. p)], new_files' = fs,
         torn' \in BOOLEAN, ~torn' => InOrder', ~twice /\ ~torn' => OnDisk'
  PROVE  MailInd'
<1>1. MailTyped
  BY DEF MailInd
<1>2. reader \in [Readers -> Copies(p)]
  BY <1>1, TypesNow, MoreMails
<1>3. /\ mail_input' = NoReader /\ tmp_reader' = NoReader /\ reader' \in [Readers -> Copies(p)]
  BY <1>2, RolesTyped
<1>4. MailTyped'
  BY <1>1, <1>3, TypesNow DEF MailTyped
<1>5. ToldHasAll'
  BY <1>3 DEF ToldHasAll
<1> QED BY <1>3, <1>4, <1>5 DEF MailInd

LEMMA CrashWhileFetching ==
  ASSUME MailInd, Roles(reader, NoReader, NoReader), mail_link' = TRUE, twice' = twice,
         UNCHANGED <<posted, odd, owed>>,
         NEW fs \in Remaining(new_files), maildata' = Fetched(maildata, new_files),
         new_files' = fs, torn' = (torn \/ new_files' # NoFiles)
  PROVE  MailInd' /\ Stays
<1>1. MailTyped /\ torn \in BOOLEAN
  BY DEF MailInd, MailTyped
<1>2. fs \in [Names -> Seq(1 .. posted)]
  BY <1>1, TypesNow, RemainingTyped
<1> DEFINE f == Fetched(maildata, new_files)
<1>3. /\ f \in Filed(posted) /\ maildata.mails \subseteq f.mails
      /\ ~twice /\ ~torn => owed \ odd \subseteq f.mails
  BY FetchedComplete
<1> HIDE DEF f
<1>4. ~torn' => InOrder'
  <2>1. 0 \in 0 .. 2 * posted'
    BY <1>1, TypesNow
  <2> QED BY <2>1, NoneUnread DEF InOrder
<1>5. ~twice /\ ~torn' => OnDisk'
  BY <1>3 DEF OnDisk, f
<1>6. /\ posted' = posted /\ posted <= posted /\ posted \in Nat /\ posted \in 0 .. MaxMails
      /\ odd' \subseteq 1 .. posted /\ owed' \subseteq 1 .. posted
      /\ torn' \in BOOLEAN /\ maildata' = f
  BY <1>1, TypesNow DEF MailTyped, f
<1>7. MailInd'
  BY <1>2, <1>3, <1>4, <1>5, <1>6, CrashedStep
<1> QED BY <1>3, <1>6, <1>7 DEF Stays

LEMMA CrashWhileTold ==
  ASSUME MailInd, Roles(reader, NoReader, NoReader), mail_link' = TRUE, twice' = twice,
         tmp_reader # NoReader, Numbered(FALSE),
         NEW fs \in Remaining(Written(new_files, posted')),
         maildata' = Fetched(reader[tmp_reader].folder, Written(new_files, posted')),
         new_files' = fs, torn' = (torn \/ new_files' # NoFiles)
  PROVE  MailInd' /\ Stays
<1> DEFINE w == Written(new_files, posted')
           f == Fetched(reader[tmp_reader].folder, w)
<1>1. /\ MailTyped /\ torn \in BOOLEAN /\ tmp_reader \in Readers /\ new_files = NoFiles
      /\ odd \subseteq 1 .. posted
  BY DEF MailInd, MailTyped
<1>2. /\ posted \in Nat /\ posted < MaxMails /\ posted' = posted + 1 /\ posted' \in 0 .. MaxMails
      /\ posted' \in 1 .. posted' /\ odd' \subseteq 1 .. posted' /\ owed' \subseteq 1 .. posted'
      /\ owed' \ odd' \subseteq (owed \ odd) \cup (IF FALSE THEN {} ELSE {posted'})
      /\ \A M \in SUBSET (1 .. posted) : M \cap owed' = M \cap owed
      /\ Filed(posted) \subseteq Filed(posted')
  BY <1>1, NumberedFacts
<1>3. /\ maildata.mails \cap owed' = maildata.mails \cap owed
      /\ reader[tmp_reader].folder \in Filed(posted')
  BY <1>1, <1>2, TypesNow
<1>4. new_files \in [Names -> Seq(1 .. posted')] /\ Upto(new_files, 0) /\ Single(new_files) = {}
  BY <1>1, <1>2, NoneUnread
<1>5. w \in [Names -> Seq(1 .. posted')] /\ posted' \in Single(w)
  <2>1. 0 \in 0 .. 2 * MaxMails - 1
    BY <1>2, MaxMailsAssumption
  <2> QED BY <1>2, <1>4, <2>1, WrittenApart
<1> HIDE DEF w
<1>6. f \in Filed(posted') /\ reader[tmp_reader].folder.mails \cup (Single(w) \ odd) \subseteq f.mails
  BY <1>2, <1>3, <1>5, FetchedAll
<1> HIDE DEF f
<1>7. posted' \in f.mails
  <2>1. posted' \notin odd
    BY <1>1, <1>2
  <2> QED BY <1>5, <1>6, <2>1
<1>8. maildata' = f /\ fs \in [Names -> Seq(1 .. posted')]
  <2>1. posted' \in Nat /\ fs \in Remaining(w)
    BY <1>2 DEF w
  <2> QED BY <1>5, <2>1, RemainingTyped DEF f, w
<1>9. ~torn' => InOrder'
  <2>1. 0 \in 0 .. 2 * posted'
    BY <1>2
  <2> QED BY <2>1, NoneUnread DEF InOrder
<1>10. ~twice => maildata.mails \cap owed \subseteq f.mails
  BY <1>1, <1>6 DEF MailInd, ToldHasAll
<1>11. ~twice /\ ~torn' => OnDisk'
  BY <1>2, <1>4, <1>7, <1>8, <1>10 DEF MailInd, OnDisk
<1>12. posted <= posted' /\ posted' \in Nat
  BY <1>2
<1>13. torn' \in BOOLEAN
  BY <1>1
<1>14. MailInd'
  BY <1>2, <1>6, <1>8, <1>9, <1>11, <1>12, <1>13, CrashedStep
<1> QED BY <1>3, <1>8, <1>10, <1>14 DEF Stays

LEMMA MailCrashStep == ASSUME MailInd, MailCrash PROVE MailInd' /\ Stays
<1>1. Roles(reader, NoReader, NoReader) /\ mail_link' = TRUE /\ twice' = twice
  BY DEF MailCrash
<1>2. CASE UNCHANGED <<disk, posted, odd, owed, torn>>
  <2>1. MailTyped
    BY DEF MailInd
  <2>2. /\ mail_input' = NoReader /\ tmp_reader' = NoReader /\ reader' \in [Readers -> Copies(posted)]
    BY <1>1, <2>1, TypesNow, RolesTyped
  <2> QED BY <1>1, <1>2, <2>2, NothingSaved
<1>3. CASE /\ Unread # {}
           /\ \E d \in SavedFirst(maildata, new_files) : maildata' = d[1] /\ new_files' = d[2]
           /\ torn' = (torn \/ new_files' # NoFiles)
           /\ UNCHANGED <<posted, odd, owed>>
  <2>1. PICK fs \in Remaining(new_files) :
          maildata' = Fetched(maildata, new_files) /\ new_files' = fs
    BY <1>3 DEF SavedFirst
  <2> QED BY <1>1, <1>3, <2>1, CrashWhileFetching
<1>4. CASE /\ tmp_reader # NoReader
           /\ Numbered(FALSE)
           /\ \E d \in SavedFirst(reader[tmp_reader].folder, Written(new_files, posted')) :
                maildata' = d[1] /\ new_files' = d[2]
           /\ torn' = (torn \/ new_files' # NoFiles)
  <2>1. PICK fs \in Remaining(Written(new_files, posted')) :
          /\ maildata' = Fetched(reader[tmp_reader].folder, Written(new_files, posted'))
          /\ new_files' = fs
    BY <1>4 DEF SavedFirst
  <2> QED BY <1>1, <1>4, <2>1, CrashWhileTold
<1> QED BY <1>2, <1>3, <1>4 DEF MailCrash

(***************************************************************************)
(* The specification.                                                      *)
(***************************************************************************)

LEMMA MailInitInd == MailInit => MailInd
<1> SUFFICES ASSUME MailInit PROVE MailInd
  OBVIOUS
<1>1. Gone \in Copies(0) /\ NoMails \in Filed(0)
  BY DEF Gone, NoMails, Copies, Filed, Folders
<1>2. posted = 0 /\ posted \in Nat /\ posted \in 0 .. MaxMails
  BY MaxMailsAssumption DEF MailInit
<1>3. new_files \in [Names -> Seq(1 .. posted)] /\ Upto(new_files, 0) /\ Single(new_files) = {}
  BY <1>2, NoneUnread DEF MailInit
<1>4. MailTyped
  BY <1>1, <1>2, <1>3 DEF MailInit, MailTyped
<1>5. InOrder
  BY <1>2, <1>3 DEF InOrder
<1>6. ToldHasAll /\ OnDisk /\ tmp_reader = NoReader
  BY DEF MailInit, ToldHasAll, OnDisk
<1> QED BY <1>4, <1>5, <1>6 DEF MailInd

LEMMA MailStep == MailInd /\ [MailNext]_mailVars => MailInd' /\ [Stays]_mailVars
<1> SUFFICES ASSUME MailInd, [MailNext]_mailVars PROVE MailInd' /\ [Stays]_mailVars
  OBVIOUS
<1>1. CASE UNCHANGED mailVars
  BY <1>1 DEF mailVars, MailInd, MailTyped, ToldHasAll, InOrder, OnDisk
<1>2. ASSUME NEW isOdd \in BOOLEAN, NEW again \in BOOLEAN, Send(isOdd, again)
      PROVE  MailInd' /\ Stays
  BY <1>2, SendStep
<1>3. ASSUME NEW r \in Readers, Display(r) \/ Delete(r) \/ QuitMail(r) PROVE MailInd' /\ Stays
  BY <1>3, DisplayStep, DeleteStep, QuitMailStep
<1>4. ASSUME NEW r \in Readers, NEW ends \in BOOLEAN, Purge(r, ends) PROVE MailInd' /\ Stays
  BY <1>4, PurgeStep
<1> QED
  BY <1>1, <1>2, <1>3, <1>4, SendAndGoOnStep, ReadMailStep, FromStep, DeleteNoneStep,
     MailLinkStep, MailCrashStep DEF MailNext

\* A mail that was sent is in the mail data or alone in a file of its own until the player
\* deletes it, whatever readers, lost links and crashes do: distribute_mail() and
\* get_new_mail() of system/mailmaster.c lose none, unless a second reader was opened past
\* the first or a crash left some files of many.
THEOREM MailAlwaysKept == MailSpec => []MailKept
<1>1. MailInd => MailKept
  <2> SUFFICES ASSUME MailInd, ~twice, ~torn PROVE MailKept
    BY DEF MailKept
  <2>1. Single(new_files) = {new_files[n][1] : n \in {k \in Names : Len(new_files[k]) = 1}}
    BY DEF Single
  <2>2. {k \in Names : Len(new_files[k]) = 1} = {k \in Unread : Len(new_files[k]) = 1}
    BY DEF Unread
  <2> QED BY <2>1, <2>2 DEF MailInd, OnDisk, MailKept
<1> QED BY <1>1, MailInitInd, MailStep, PTL DEF MailSpec

\* What the mail data hold stays in them until the player's deletion: no older copy that a
\* reader saves removes a mail, as the reader that asks is the one that is told.
THEOREM FiledAlwaysStays == MailSpec => FiledStays
<1>1. MailInd /\ [MailNext]_mailVars => [~twice' => maildata.mails \cap owed' \subseteq maildata'.mails]_mailVars
  BY MailStep DEF Stays
<1> QED BY <1>1, MailInitInd, MailStep, PTL DEF MailSpec, FiledStays

(***************************************************************************)
(* Proofs about Reload, for any things and whatever was saved of them.     *)
(* Two facts carry it.  There is a set of things that had their turn:      *)
(* none of them waits in a call_out, none waits twice, and what waits was  *)
(* saved in what had its turn (HadTurn).  And for any set of things that   *)
(* are whole, as each can be made and did not go away with what it was     *)
(* saved in, each is where it belongs, or on the way there, or waits for   *)
(* what it was in (Cared).  Sets of this kind take the place of paths      *)
(* through what was saved.                                                 *)
(***************************************************************************)

Homes == Things \cup {LoginRoom}
CallOuts == [into : Homes, things : Seq(Things)]

\* Where t was saved.
SavedIn(t, p) ==
  \/ p = LoginRoom /\ t \in ToSet(auto_load.top)
  \/ p \in Things /\ t \in ToSet(Contents(p))

\* Things that can be made and did not go away, with all they were saved in.
Whole(A) ==
  \A t \in A : /\ fate[t] = "fine" /\ t \notin vanished
               /\ \E p \in A \cup {LoginRoom} : SavedIn(t, p)

\* No thing waits twice, and none of those that had their turn.
Scattered(co, P) ==
  /\ \A c \in co : c.things # <<>> /\ IsInjective(c.things) /\ ToSet(c.things) \cap P = {}
  /\ \A c, d \in co : c # d => ToSet(c.things) \cap ToSet(d.things) = {}

Waiting(co) == UNION {ToSet(c.things) : c \in co}

\* What waits, or had its turn, was saved in what had its turn.
Outward(P, T) == \A u, v \in Things : v \in ToSet(Contents(u)) /\ v \in P \cup T => u \in P

MadeOnce(m, P) == \A t \in Things : m[t] = 0 \/ (m[t] = 1 /\ t \in P)

\* P had their turn to be made.
HadTurn(P, co, m) ==
  Scattered(co, P) /\ Outward(P, Waiting(co)) /\ MadeOnce(m, P)

\* Call_outs know where whole things belong.
Guided(co, A) == \A c \in co : \A t \in A \cap ToSet(c.things) : SavedIn(t, c.into)

\* A whole thing is where it belongs, or on the way there, or what it was in is missing.
Cared(co, w, A, s, place) ==
  \A t \in A : \A p \in A \cup {LoginRoom} : SavedIn(t, p) =>
    \/ w[t] = p
    \/ p = place /\ t \in ToSet(s)
    \/ \E c \in co : c.into = p /\ t \in ToSet(c.things)
    \/ p \in Things /\ w[p] = Nowhere

-----------------------------------------------------------------------------
LEMMA SavedNested ==
  ASSUME auto_load \in Inventories
  PROVE  Nested(auto_load) /\ auto_load.top \in Seq(Things) /\ \A t \in Things : Contents(t) \in Seq(Things)
<1>1. Nested(auto_load)
  BY InventoriesAssumption
<1> QED
  BY <1>1 DEF Nested, Contents

\* A thing is saved in one place.
LEMMA OnePlace ==
  ASSUME auto_load \in Inventories, NEW t, NEW p, NEW q, SavedIn(t, p), SavedIn(t, q)
  PROVE  p = q
<1>1. Nested(auto_load)
  BY SavedNested
<1> QED
  BY <1>1 DEF Nested, SavedIn, Contents

LEMMA BatchOf ==
  ASSUME NEW s \in Seq(Things)
  PROVE  /\ Batch(s) \in 0 .. Len(s) /\ Rest(s) \in Seq(Things)
         /\ Len(Rest(s)) = Len(s) - Batch(s)
         /\ \A i \in 1 .. Len(Rest(s)) : Rest(s)[i] = s[Batch(s) + i]
<1> DEFINE b == Batch(s)
           n == Len(s)
<1>1. n \in Nat /\ DOMAIN s = 1 .. n /\ s \in [1 .. n -> Things]
  OBVIOUS
<1>2. b \in 0 .. n
  <2> DEFINE K == {k \in DOMAIN s : Cell(s, k) <= 5}
  <2>1. K \in SUBSET (1 .. n) /\ b = Cardinality(K)
    BY <1>1 DEF Batch
  <2>2. IsFiniteSet(1 .. n) /\ Cardinality(1 .. n) = n
    BY <1>1, FS_Interval
  <2> HIDE DEF K, b, n
  <2>3. Cardinality(K) <= n /\ Cardinality(K) \in Nat
    BY <2>1, <2>2, FS_Subset, FS_CardinalityType
  <2> QED
    BY <1>1, <2>1, <2>3
<1> HIDE DEF b, n
<1>3. Rest(s) = SubSeq(s, b + 1, n)
  BY DEF Rest, b, n
<1>4. b + 1 \in Int /\ n \in Int /\ n - b \in Nat /\ \A i \in b + 1 .. n : s[i] \in Things
  BY <1>1, <1>2
<1>5. /\ Rest(s) \in Seq(Things)
      /\ Len(Rest(s)) = IF b + 1 <= n THEN n - (b + 1) + 1 ELSE 0
      /\ \A i \in 1 .. n - (b + 1) + 1 : Rest(s)[i] = s[b + 1 + i - 1]
  BY <1>3, <1>4, SubSeqProperties
<1>6. Len(Rest(s)) = n - b
  BY <1>2, <1>1, <1>5
<1>7. \A i \in 1 .. n - b : i \in 1 .. n - (b + 1) + 1 /\ b + 1 + i - 1 = b + i
  BY <1>1, <1>2
<1> QED
  BY <1>2, <1>5, <1>6, <1>7 DEF b, n

LEMMA HolderOf ==
  ASSUME NEW s \in Seq(Things), NEW k \in 1 .. Len(s)
  PROVE  /\ Holder(s, k) # Nowhere => Holder(s, k) \in Things
         /\ fate[s[k]] = "fine" => Holder(s, k) = s[k]
<1> DEFINE cloned == {j \in 1 .. k : fate[s[j]] # "no clone"}
<1>1. k \in Nat /\ k \in 1 .. k /\ \A j \in 1 .. k : s[j] \in Things /\ j <= k /\ j \in Int
  OBVIOUS
<1>2. cloned \in SUBSET (1 .. k)
  OBVIOUS
<1>3. Holder(s, k) = IF cloned = {} \/ fate[s[Max(cloned)]] = "no init" THEN Nowhere ELSE s[Max(cloned)]
  BY DEF Holder
<1> HIDE DEF cloned
<1>4. cloned # {} => Max(cloned) \in cloned /\ \A y \in cloned : y <= Max(cloned)
  BY <1>1, <1>2, LastOf
<1>5. fate[s[k]] = "fine" => k \in cloned
  BY <1>1 DEF cloned
<1>6. fate[s[k]] = "fine" => Max(cloned) = k
  <2> SUFFICES ASSUME k \in cloned PROVE Max(cloned) = k
    BY <1>5
  <2> DEFINE m == Max(cloned)
  <2>1. m \in 1 .. k /\ k <= m
    BY <1>2, <1>4
  <2> HIDE DEF m
  <2>2. m = k
    BY <1>1, <2>1
  <2> QED
    BY <2>2 DEF m
<1>7. cloned # {} => Max(cloned) \in 1 .. k
  BY <1>2, <1>4
<1>8. fate[s[k]] = "fine" => fate[s[k]] # "no init" /\ cloned # {}
  BY <1>5
<1> QED
  BY <1>1, <1>3, <1>6, <1>7, <1>8

\* Contents are put into something that was just made and is fine.
LEMMA HolderFine ==
  ASSUME fate \in [Things -> Fates], NEW s \in Seq(Things), NEW k \in 1 .. Len(s), Holder(s, k) # Nowhere
  PROVE  \E j \in 1 .. k : Holder(s, k) = s[j] /\ fate[s[j]] = "fine"
<1> DEFINE cloned == {j \in 1 .. k : fate[s[j]] # "no clone"}
           m == Max(cloned)
<1>1. k \in Nat
  OBVIOUS
<1>2. cloned \in SUBSET (1 .. k)
  OBVIOUS
<1>3. \A j \in 1 .. k : s[j] \in Things
  <2>1. Len(s) \in Nat /\ \A j \in 1 .. Len(s) : s[j] \in Things
    OBVIOUS
  <2> QED
    BY <2>1
<1>4. cloned # {} /\ fate[s[m]] # "no init" /\ Holder(s, k) = s[m]
  BY DEF Holder
<1> HIDE DEF m
<1>5. m \in cloned
  <2> HIDE DEF cloned
  <2> QED
    BY <1>1, <1>2, <1>4, LastOf DEF m
<1>6. m \in 1 .. k /\ fate[s[m]] # "no clone" /\ s[m] \in Things
  BY <1>3, <1>5
<1> QED
  BY <1>4, <1>6 DEF Fates

\* The turn of the batch of s.
Turned(P, s) == P \cup {s[k] : k \in 1 .. Batch(s)}

NewMade(s) == {s[k] : k \in {j \in 1 .. Batch(s) : fate[s[j]] # "no clone"}}

LEMMA CallOutsAre ==
  ASSUME auto_load \in Inventories, NEW s \in Seq(Things), NEW place \in Homes
  PROVE  /\ IsFiniteSet(CallOutsFor(place, s)) /\ CallOutsFor(place, s) \subseteq CallOuts
         /\ \A c \in CallOutsFor(place, s) :
              \/ c.into = place /\ c.things = Rest(s) /\ Rest(s) # <<>>
              \/ \E k \in 1 .. Batch(s) : c.into = Holder(s, k) /\ c.things = Contents(s[k]) /\ Contents(s[k]) # <<>>
         /\ \A k \in 1 .. Batch(s) : Contents(s[k]) # <<>> /\ fate[s[k]] = "fine" =>
              \E c \in CallOutsFor(place, s) : c.into = s[k] /\ c.things = Contents(s[k])
         /\ Rest(s) # <<>> => \E c \in CallOutsFor(place, s) : c.into = place /\ c.things = Rest(s)
<1> DEFINE b == Batch(s)
           K == {j \in 1 .. b : Contents(s[j]) # <<>> /\ Holder(s, j) # Nowhere}
           Of(k) == [into |-> Holder(s, k), things |-> Contents(s[k])]
           N == {Of(k) : k \in K}
           M == IF Rest(s) = <<>> THEN {} ELSE {[into |-> place, things |-> Rest(s)]}
<1>1. CallOutsFor(place, s) = N \cup M
  BY DEF CallOutsFor
<1>2. b \in 0 .. Len(s) /\ Rest(s) \in Seq(Things) /\ Len(s) \in Nat
  BY BatchOf
<1>3. \A k \in 1 .. b : k \in 1 .. Len(s) /\ s[k] \in Things /\ Contents(s[k]) \in Seq(Things)
  BY <1>2, SavedNested
<1>4. \A k \in 1 .. b : (Holder(s, k) # Nowhere => Holder(s, k) \in Things)
                        /\ (fate[s[k]] = "fine" => Holder(s, k) = s[k])
  BY <1>3, HolderOf
<1>5. IsFiniteSet(N)
  <2>1. IsFiniteSet(1 .. b)
    BY <1>2, FS_Interval
  <2>2. IsFiniteSet(K)
    BY <2>1, FS_Subset
  <2> DEFINE f == [k \in K |-> Of(k)]
  <2> HIDE DEF K, Of
  <2>3. f \in Surjection(K, N)
    BY DEF Surjection
  <2> HIDE DEF f, N
  <2> QED
    BY <2>2, <2>3, FS_Surjection
<1>6. IsFiniteSet(M)
  BY FS_EmptySet, FS_Singleton
<1>7. IsFiniteSet(CallOutsFor(place, s))
  <2> HIDE DEF N, M
  <2> QED
    BY <1>1, <1>5, <1>6, FS_Union
<1>8. \A k \in K : Of(k) \in CallOuts /\ Of(k).into = Holder(s, k) /\ Of(k).things = Contents(s[k])
  BY <1>3, <1>4 DEF CallOuts, Homes
<1>9. M \subseteq CallOuts
  BY <1>2 DEF CallOuts
<1>10. \A k \in 1 .. b : Contents(s[k]) # <<>> /\ fate[s[k]] = "fine" => k \in K
  BY <1>3, <1>4, PlacesAssumption
<1> HIDE DEF K, Of, b
<1>11. \A k \in 1 .. b : Contents(s[k]) # <<>> /\ fate[s[k]] = "fine" =>
              \E c \in N : c.into = s[k] /\ c.things = Contents(s[k])
  BY <1>4, <1>8, <1>10
<1>12. \A c \in N : c \in CallOuts /\ \E k \in K : c.into = Holder(s, k) /\ c.things = Contents(s[k])
  BY <1>8
<1>13. \A k \in K : k \in 1 .. b /\ Contents(s[k]) # <<>>
  BY DEF K
<1>14. \A c \in M : c.into = place /\ c.things = Rest(s) /\ Rest(s) # <<>>
  OBVIOUS
<1>15. Rest(s) # <<>> => \E c \in M : c.into = place /\ c.things = Rest(s)
  OBVIOUS
<1> HIDE DEF N, M
<1> QED
  BY <1>1, <1>7, <1>9, <1>11, <1>12, <1>13, <1>14, <1>15 DEF b

LEMMA TurnScatters ==
  ASSUME auto_load \in Inventories, NEW s \in Seq(Things), NEW place \in Homes,
         NEW others \in SUBSET CallOuts, NEW P \in SUBSET Things,
         Scattered(others, P), IsInjective(s), ToSet(s) \cap (P \cup Waiting(others)) = {},
         Outward(P, Waiting(others) \cup ToSet(s))
  PROVE  /\ Scattered(others \cup CallOutsFor(place, s), Turned(P, s))
         /\ others \cap CallOutsFor(place, s) = {}
         /\ Outward(Turned(P, s), Waiting(others \cup CallOutsFor(place, s)))
<1> DEFINE b == Batch(s)
           n == Len(s)
           N == CallOutsFor(place, s)
           Q == Turned(P, s)
<1>1. n \in Nat /\ DOMAIN s = 1 .. n /\ b \in 0 .. n /\ Rest(s) \in Seq(Things)
      /\ Len(Rest(s)) = n - b /\ \A i \in 1 .. n - b : Rest(s)[i] = s[b + i]
  BY BatchOf
<1>2. \A i, j \in 1 .. n : s[i] = s[j] => i = j
  BY <1>1 DEF IsInjective
<1>3. \A i \in 1 .. n : s[i] \in Things /\ s[i] \in ToSet(s) /\ s[i] \notin P
  BY <1>1 DEF ToSet
<1>4. N \subseteq CallOuts /\ \A c \in N :
        \/ c.into = place /\ c.things = Rest(s) /\ Rest(s) # <<>>
        \/ \E k \in 1 .. b : c.into = Holder(s, k) /\ c.things = Contents(s[k]) /\ Contents(s[k]) # <<>>
  BY CallOutsAre
<1>5. \A u \in Things : Contents(u) \in Seq(Things) /\ IsInjective(Contents(u))
  BY SavedNested DEF Nested, Contents
<1>6. \A u, v \in Things : u # v => ToSet(Contents(u)) \cap ToSet(Contents(v)) = {}
  BY SavedNested DEF Nested, Contents
<1> HIDE DEF b, n, N
<1>7. DOMAIN Rest(s) = 1 .. n - b /\ \A i \in 1 .. n - b : b + i \in 1 .. n /\ b + i > b
  BY <1>1
<1>8. ToSet(Rest(s)) \subseteq ToSet(s) /\ ToSet(Rest(s)) \cap Q = {}
  <2> SUFFICES ASSUME NEW i \in 1 .. n - b
               PROVE  Rest(s)[i] \in ToSet(s) /\ Rest(s)[i] \notin Q
    BY <1>7 DEF ToSet
  <2>1. Rest(s)[i] = s[b + i] /\ b + i \in 1 .. n /\ b + i \notin 1 .. b
    BY <1>1, <1>7
  <2>2. \A k \in 1 .. b : k \in 1 .. n
    BY <1>1
  <2> QED
    BY <1>2, <1>3, <2>1, <2>2 DEF Turned, b
<1>9. IsInjective(Rest(s))
  <2> SUFFICES ASSUME NEW i \in 1 .. n - b, NEW j \in 1 .. n - b, Rest(s)[i] = Rest(s)[j]
               PROVE  i = j
    BY <1>7 DEF IsInjective
  <2>1. s[b + i] = s[b + j] /\ b + i \in 1 .. n /\ b + j \in 1 .. n
    BY <1>1, <1>7
  <2>2. b + i = b + j
    BY <1>2, <2>1
  <2> QED
    BY <1>1, <2>2
\* Contents of what has its turn now are new.
<1>10. \A k \in 1 .. b : k \in 1 .. n
  BY <1>1
<1>11. \A k \in 1 .. b : \A v \in ToSet(Contents(s[k])) : v \in Things
  BY <1>3, <1>5, <1>10 DEF ToSet
<1>12. \A k \in 1 .. b : ToSet(Contents(s[k])) \cap (P \cup Waiting(others) \cup ToSet(s)) = {}
  BY <1>3, <1>10, <1>11 DEF Outward
<1>13. Q \subseteq P \cup ToSet(s) /\ P \subseteq Q /\ \A k \in 1 .. b : s[k] \in Q
  BY <1>3, <1>10 DEF Turned, b
<1>14. \A c \in N : c.things # <<>> /\ IsInjective(c.things) /\ ToSet(c.things) \cap Q = {}
                   /\ ToSet(c.things) \cap Waiting(others) = {}
  BY <1>3, <1>4, <1>5, <1>8, <1>9, <1>10, <1>12, <1>13
<1>15. \A c \in others : c.things # <<>> /\ IsInjective(c.things) /\ ToSet(c.things) \cap Q = {}
                        /\ ToSet(c.things) \subseteq Waiting(others)
  <2> SUFFICES ASSUME NEW c \in others
               PROVE  c.things # <<>> /\ IsInjective(c.things) /\ ToSet(c.things) \cap Q = {}
                      /\ ToSet(c.things) \subseteq Waiting(others)
    OBVIOUS
  <2>1. c.things # <<>> /\ IsInjective(c.things) /\ ToSet(c.things) \cap P = {}
    BY DEF Scattered
  <2>2. ToSet(c.things) \subseteq Waiting(others)
    BY DEF Waiting
  <2> QED
    BY <1>13, <2>1, <2>2
<1>16. \A c, d \in N : c # d => ToSet(c.things) \cap ToSet(d.things) = {}
  <2> SUFFICES ASSUME NEW c \in N, NEW d \in N, ToSet(c.things) \cap ToSet(d.things) # {}
               PROVE  c = d
    OBVIOUS
  <2>1. c.into = d.into /\ c.things = d.things => c = d
    BY <1>4 DEF CallOuts
  <2>2. CASE c.things = Rest(s) /\ c.into = place
    <3>1. \A k \in 1 .. b : d.things # Contents(s[k])
      BY <1>8, <1>12, <2>2
    <3> QED
      BY <1>4, <2>1, <2>2, <3>1
  <2>3. CASE d.things = Rest(s) /\ d.into = place
    <3>1. \A k \in 1 .. b : c.things # Contents(s[k])
      BY <1>8, <1>12, <2>3
    <3> QED
      BY <1>4, <2>1, <2>3, <3>1
  <2>4. ASSUME NEW k \in 1 .. b, c.into = Holder(s, k), c.things = Contents(s[k]),
               NEW j \in 1 .. b, d.into = Holder(s, j), d.things = Contents(s[j])
        PROVE  c = d
    <3>1. s[k] = s[j]
      BY <1>3, <1>6, <1>10, <2>4
    <3>2. k = j
      BY <1>2, <1>10, <3>1
    <3> QED
      BY <2>1, <2>4, <3>2
  <2> QED
    BY <1>4, <2>2, <2>3, <2>4
<1>17. Scattered(others \cup N, Q)
  <2>1. \A c \in others \cup N : c.things # <<>> /\ IsInjective(c.things) /\ ToSet(c.things) \cap Q = {}
    BY <1>14, <1>15
  <2>2. \A c, d \in others : c # d => ToSet(c.things) \cap ToSet(d.things) = {}
    BY DEF Scattered
  <2>3. \A c \in others, d \in N : ToSet(c.things) \cap ToSet(d.things) = {}
    BY <1>14, <1>15
  <2> QED
    BY <1>16, <2>1, <2>2, <2>3 DEF Scattered
<1>18. others \cap N = {}
  <2> SUFFICES ASSUME NEW c \in others, c \in N PROVE FALSE
    OBVIOUS
  <2>1. ToSet(c.things) = {} /\ c.things # <<>>
    BY <1>14, <1>15
  <2>2. c.things \in Seq(Things)
    BY DEF CallOuts
  <2>3. c.things[1] \in ToSet(c.things)
    BY <2>1, <2>2 DEF ToSet
  <2> QED
    BY <2>1, <2>3
<1>19. Outward(Q, Waiting(others \cup N))
  <2> SUFFICES ASSUME NEW u \in Things, NEW v \in Things, v \in ToSet(Contents(u)),
                      v \in Q \cup Waiting(others \cup N)
               PROVE  u \in Q
    BY DEF Outward
  <2>1. CASE v \in P \cup Waiting(others) \cup ToSet(s)
    <3>1. u \in P
      BY <2>1 DEF Outward
    <3> QED
      BY <1>13, <3>1
  <2>2. CASE \E c \in N : v \in ToSet(c.things)
    <3>1. CASE v \in ToSet(Rest(s))
      BY <1>8, <2>1, <3>1
    <3>2. ASSUME NEW k \in 1 .. b, v \in ToSet(Contents(s[k]))
          PROVE  u \in Q
      <4>1. s[k] = u
        BY <1>3, <1>6, <1>10, <3>2
      <4> QED
        BY <1>13, <4>1
    <3> QED
      BY <1>4, <2>2, <3>1, <3>2
  <2>3. v \in Waiting(others) \/ v \in Q \/ \E c \in N : v \in ToSet(c.things)
    BY DEF Waiting
  <2> QED
    BY <1>13, <2>1, <2>2, <2>3
<1> QED
  BY <1>17, <1>18, <1>19 DEF N

LEMMA TurnMakes ==
  ASSUME NEW s \in Seq(Things), NEW P \in SUBSET Things, ToSet(s) \cap P = {},
         NEW m, MadeOnce(m, P), NEW m2,
         m2 = [t \in Things |-> m[t] + IF t \in NewMade(s) THEN 1 ELSE 0]
  PROVE  MadeOnce(m2, Turned(P, s))
<1>1. Batch(s) \in 0 .. Len(s)
  BY BatchOf
<1>2. \A k \in 1 .. Batch(s) : k \in DOMAIN s
  BY <1>1
<1>3. NewMade(s) \cap P = {} /\ NewMade(s) \subseteq Turned(P, s) /\ P \subseteq Turned(P, s)
  BY <1>2 DEF NewMade, Turned, ToSet
<1> SUFFICES ASSUME NEW t \in Things
             PROVE  m2[t] = 0 \/ (m2[t] = 1 /\ t \in Turned(P, s))
  BY DEF MadeOnce
<1>4. m[t] = 0 \/ (m[t] = 1 /\ t \in P)
  BY DEF MadeOnce
<1>5. m2[t] = m[t] + IF t \in NewMade(s) THEN 1 ELSE 0
  OBVIOUS
<1> QED
  BY <1>3, <1>4, <1>5

\* A turn takes care of the whole things: those that are made are where they belong,
\* and what was in them is on the way to them.
LEMMA TurnCares ==
  ASSUME auto_load \in Inventories, NEW s \in Seq(Things), NEW place \in Homes,
         NEW others \in SUBSET CallOuts, NEW A \in SUBSET Things, Whole(A),
         NEW w, Cared(others, w, A, s, place), Guided(others, A),
         \A t \in A \cap ToSet(s) : SavedIn(t, place),
         NEW w2, w2 = [t \in Things |-> IF t \in NewMade(s) /\ fate[t] = "fine" THEN place ELSE w[t]]
  PROVE  /\ Cared(others \cup CallOutsFor(place, s), w2, A, <<>>, Nowhere)
         /\ Guided(others \cup CallOutsFor(place, s), A)
<1> DEFINE b == Batch(s)
           n == Len(s)
           N == CallOutsFor(place, s)
<1>0. b \in 0 .. n /\ Rest(s) \in Seq(Things) /\ Len(Rest(s)) = n - b
      /\ \A i \in 1 .. Len(Rest(s)) : Rest(s)[i] = s[b + i]
  BY BatchOf
<1>1. n \in Nat /\ DOMAIN s = 1 .. n /\ b \in 0 .. n /\ Rest(s) \in Seq(Things)
      /\ Len(Rest(s)) = n - b /\ \A i \in 1 .. n - b : Rest(s)[i] = s[b + i]
  BY <1>0
<1>2. \A i \in 1 .. n : s[i] \in Things /\ s[i] \in ToSet(s)
  BY <1>1 DEF ToSet
<1>3. /\ \A c \in N :
              \/ c.into = place /\ c.things = Rest(s) /\ Rest(s) # <<>>
              \/ \E k \in 1 .. b : c.into = Holder(s, k) /\ c.things = Contents(s[k]) /\ Contents(s[k]) # <<>>
      /\ \A k \in 1 .. b : Contents(s[k]) # <<>> /\ fate[s[k]] = "fine" =>
              \E c \in N : c.into = s[k] /\ c.things = Contents(s[k])
      /\ Rest(s) # <<>> => \E c \in N : c.into = place /\ c.things = Rest(s)
  BY CallOutsAre
<1>4. \A k \in 1 .. b : k \in 1 .. n /\ (fate[s[k]] = "fine" => Holder(s, k) = s[k])
  <2>1. \A k \in 1 .. b : k \in 1 .. n
    BY <1>1
  <2>2. \A k \in 1 .. Len(s) : fate[s[k]] = "fine" => Holder(s, k) = s[k]
    BY HolderOf
  <2> QED
    BY <2>1, <2>2
<1>5. NewMade(s) = {s[k] : k \in {j \in 1 .. b : fate[s[j]] # "no clone"}}
  BY DEF NewMade
<1> HIDE DEF b, n, N
<1>6. DOMAIN Rest(s) = 1 .. n - b /\ \A i \in 1 .. n - b : b + i \in 1 .. n
  BY <1>1
<1>7. ToSet(Rest(s)) \subseteq ToSet(s)
  BY <1>1, <1>2, <1>6 DEF ToSet
<1>8. \A t \in A : fate[t] = "fine" /\ \E p \in A \cup {LoginRoom} : SavedIn(t, p)
  BY DEF Whole
<1>9. \A t \in ToSet(s) : t \in Things /\ ((\E k \in 1 .. b : t = s[k]) \/ t \in ToSet(Rest(s)))
  <2> SUFFICES ASSUME NEW i \in 1 .. n
               PROVE  (\E k \in 1 .. b : s[i] = s[k]) \/ s[i] \in ToSet(Rest(s))
    BY <1>1, <1>2 DEF ToSet
  <2>1. CASE i <= b
    BY <1>1, <2>1
  <2>2. CASE i > b
    <3>1. i - b \in 1 .. n - b /\ b + (i - b) = i
      BY <1>1, <2>2
    <3> QED
      BY <1>1, <1>6, <3>1 DEF ToSet
  <2> QED
    BY <1>1, <2>1, <2>2
<1>10. \A t \in A : (\E k \in 1 .. b : t = s[k]) => w2[t] = place
  BY <1>5, <1>8
<1>11. \A t \in A : w2[t] = w[t] \/ (w2[t] = place /\ \E k \in 1 .. b : t = s[k])
  BY <1>5
<1>12. Guided(others \cup N, A)
  <2> SUFFICES ASSUME NEW c \in N, NEW t \in A, t \in ToSet(c.things)
               PROVE  SavedIn(t, c.into)
    BY DEF Guided
  <2>1. CASE c.into = place /\ c.things = Rest(s)
    BY <1>7, <2>1
  <2>2. ASSUME NEW k \in 1 .. b, c.into = Holder(s, k), c.things = Contents(s[k])
        PROVE  SavedIn(t, c.into)
    <3>1. SavedIn(t, s[k]) /\ s[k] \in Things
      BY <1>2, <1>4, <2>2 DEF SavedIn
    <3>2. s[k] \in A
      BY <1>8, <3>1, OnePlace, PlacesAssumption
    <3> QED
      BY <1>4, <1>8, <2>2, <3>1, <3>2
  <2> QED
    BY <1>3, <2>1, <2>2
<1>13. Cared(others \cup N, w2, A, <<>>, Nowhere)
  <2> SUFFICES ASSUME NEW t \in A, NEW p \in A \cup {LoginRoom}, SavedIn(t, p)
               PROVE  \/ w2[t] = p
                      \/ \E c \in others \cup N : c.into = p /\ t \in ToSet(c.things)
                      \/ p \in Things /\ w2[p] = Nowhere
    BY DEF Cared
  <2>1. \/ w[t] = p
        \/ p = place /\ t \in ToSet(s)
        \/ \E c \in others : c.into = p /\ t \in ToSet(c.things)
        \/ p \in Things /\ w[p] = Nowhere
    BY DEF Cared
  <2>2. CASE w[t] = p
    <3>1. CASE w2[t] = w[t]
      BY <2>2, <3>1
    <3>2. CASE w2[t] = place /\ \E k \in 1 .. b : t = s[k]
      BY <1>2, <1>4, <3>2, OnePlace
    <3> QED
      BY <1>11, <3>1, <3>2
  <2>3. CASE p = place /\ t \in ToSet(s)
    <3>1. CASE \E k \in 1 .. b : t = s[k]
      BY <1>10, <2>3, <3>1
    <3>2. CASE t \in ToSet(Rest(s))
      <4>1. Rest(s) # <<>>
        BY <1>6, <1>1, <3>2 DEF ToSet
      <4> QED
        BY <1>3, <2>3, <3>2, <4>1
    <3> QED
      BY <1>9, <2>3, <3>1, <3>2
  <2>4. CASE p \in Things /\ w[p] = Nowhere
    <3>1. p \in A
      BY <2>4, PlacesAssumption
    <3>2. CASE w2[p] = Nowhere
      BY <2>4, <3>2
    <3>3. CASE \E k \in 1 .. b : p = s[k]
      <4>1. t \in ToSet(Contents(p))
        BY <2>4, PlacesAssumption DEF SavedIn
      <4>2. Contents(p) # <<>>
        BY <4>1 DEF ToSet
      <4> QED
        BY <1>3, <1>8, <3>1, <3>3, <4>1, <4>2
    <3> QED
      BY <1>11, <2>4, <3>1, <3>2, <3>3
  <2> QED
    BY <2>1, <2>2, <2>3, <2>4
<1> QED
  BY <1>12, <1>13 DEF N

-----------------------------------------------------------------------------
LoadTyped ==
  /\ auto_load \in Inventories /\ fate \in [Things -> Fates]
  /\ pending \in SUBSET CallOuts /\ IsFiniteSet(pending)
  /\ pl \in {"entering", "waiting", "dressing", "arda", "gone"}

\* As many call_outs are pending as are counted, and none once the player was let go.
Patience ==
  /\ pl = "waiting" => finish = Cardinality(pending)
  /\ pl \in {"entering", "dressing", "arda"} => pending = {}
  /\ pl = "entering" => /\ \A t \in Things : where[t] = Nowhere /\ made[t] = 0

InTurn == \E P \in SUBSET Things : HadTurn(P, pending, made)

CaredFor ==
  pl \in {"waiting", "dressing", "arda"} =>
    \A A \in SUBSET Things : Whole(A) => Cared(pending, where, A, <<>>, Nowhere) /\ Guided(pending, A)

\* Unless something went away, a call_out is to come, and each finds its place.
AllFind(co) == \A c \in co : c.into \in Existing
Comes == pl = "waiting" /\ vanished = {} => pending # {} /\ AllFind(pending)

LoadInd == LoadTyped /\ Patience /\ InTurn /\ CaredFor /\ Comes

LEMMA NobodyIn == \A t : t \notin ToSet(<<>>)
  BY DEF ToSet

\* Any turn, be it the first or that of a call_out.
LEMMA MakeKeeps ==
  ASSUME LoadInd, UNCHANGED saved, UNCHANGED vanished,
         NEW s \in Seq(Things), NEW place \in Homes, NEW others \in SUBSET CallOuts, IsFiniteSet(others),
         NEW P \in SUBSET Things, HadTurn(P, others, made),
         IsInjective(s), ToSet(s) \cap (P \cup Waiting(others)) = {},
         Outward(P, Waiting(others) \cup ToSet(s)),
         \A A \in SUBSET Things : Whole(A) =>
           /\ Cared(others, where, A, s, place) /\ Guided(others, A)
           /\ \A t \in A \cap ToSet(s) : SavedIn(t, place),
         vanished = {} => AllFind(others), place \in Existing,
         Make(place, s, others, Cardinality(others))
  PROVE  LoadInd'
<1> DEFINE N == CallOutsFor(place, s)
           n == Cardinality(others) + Counted(place, s)
           Q == Turned(P, s)
<1>1. /\ where' = [t \in Things |-> IF t \in NewMade(s) /\ fate[t] = "fine" THEN place ELSE where[t]]
      /\ made' = [t \in Things |-> made[t] + IF t \in NewMade(s) THEN 1 ELSE 0]
      /\ pending' = others \cup N
      /\ IF Rest(s) = <<>> /\ NoneLeft(n) THEN LetGo ELSE finish' = n /\ pl' = "waiting"
  BY DEF Make, NewMade
<1>2. auto_load \in Inventories /\ auto_load' = auto_load /\ fate' = fate /\ coder' = coder /\ vanished' = vanished
  BY DEF LoadInd, LoadTyped, saved
<1>3. Scattered(others, P) /\ Outward(P, Waiting(others)) /\ MadeOnce(made, P)
  BY DEF HadTurn
<1>4. Scattered(others \cup N, Q) /\ others \cap N = {} /\ Outward(Q, Waiting(others \cup N))
  BY <1>2, <1>3, TurnScatters
<1>5. MadeOnce(made', Q)
  <2>1. ToSet(s) \cap P = {}
    OBVIOUS
  <2> QED
    BY <1>1, <1>3, <2>1, TurnMakes
<1>6. IsFiniteSet(N) /\ N \subseteq CallOuts
  BY <1>2, CallOutsAre
<1>7. Q \in SUBSET Things
  <2>1. \A k \in 1 .. Batch(s) : s[k] \in Things
    BY BatchOf
  <2> QED
    BY <2>1 DEF Turned
<1>8. IsFiniteSet(pending') /\ Cardinality(pending') = n
  <2>1. Cardinality(others \cup N) = Cardinality(others) + Cardinality(N) - Cardinality(others \cap N)
        /\ IsFiniteSet(others \cup N)
    BY <1>6, FS_Union
  <2>2. Cardinality(others \cap N) = 0 /\ Cardinality(others) \in Nat /\ Cardinality(N) \in Nat
    BY <1>4, <1>6, FS_EmptySet, FS_CardinalityType
  <2> QED
    BY <1>1, <2>1, <2>2 DEF Counted
<1>9. n \in Nat
  BY <1>8, FS_CardinalityType
<1>10. n < 1 => pending' = {}
  BY <1>8, <1>9, FS_EmptySet
<1>11. /\ pl' \in {"waiting", "dressing", "arda"}
       /\ pl' = "waiting" => finish' = n
       /\ pl' # "waiting" => pending' = {}
  BY <1>1, <1>10 DEF LetGo, NoneLeft
<1>16. Comes'
  <2> SUFFICES ASSUME pl' = "waiting", vanished = {} PROVE pending' # {} /\ AllFind(pending)'
    BY <1>2 DEF Comes
  <2>1. fate \in [Things -> Fates] /\ place # Nowhere
    BY PlacesAssumption DEF LoadInd, LoadTyped, Homes
  <2>2. Rest(s) # <<>> => N # {}
    BY DEF CallOutsFor
  <2>3. Rest(s) = <<>> => n >= 1
    BY <1>1, <1>9 DEF LetGo, NoneLeft
  <2>4. pending' # {}
    BY <1>1, <1>8, <2>2, <2>3, FS_EmptySet
  <2>5. \A p \in Existing : p \in Existing'
    BY <1>1, <2>1 DEF Existing
  <2>6. ASSUME NEW c \in N PROVE c.into \in Existing'
    <3>1. CASE c.into = place
      BY <2>5, <3>1
    <3>2. CASE c.into # place
      <4>1. PICK k \in 1 .. Batch(s) : c.into = Holder(s, k) /\ Holder(s, k) # Nowhere
        BY <3>2 DEF CallOutsFor
      <4>2. k \in 1 .. Len(s) /\ Batch(s) \in Nat /\ Batch(s) <= Len(s)
        BY <4>1, BatchOf
      <4>3. PICK j \in 1 .. k : Holder(s, k) = s[j] /\ fate[s[j]] = "fine"
        BY <2>1, <4>1, <4>2, HolderFine
      <4>4. j \in 1 .. Batch(s) /\ s[j] \in Things
        BY <4>2, <4>3
      <4>5. s[j] \in NewMade(s)
        BY <4>3, <4>4 DEF NewMade
      <4>6. where'[s[j]] = place
        BY <1>1, <4>3, <4>4, <4>5
      <4> QED
        BY <2>1, <4>1, <4>3, <4>4, <4>6 DEF Existing
    <3> QED
      BY <3>1, <3>2
  <2>7. AllFind(pending)'
    BY <1>1, <2>5, <2>6 DEF AllFind
  <2> QED
    BY <2>4, <2>7
<1> HIDE DEF N, n, Q
<1>12. LoadTyped'
  <2>1. fate' \in [Things -> Fates]
    BY <1>2 DEF LoadInd, LoadTyped
  <2> QED
    BY <1>1, <1>2, <1>6, <1>8, <1>11, <2>1 DEF LoadTyped
<1>13. Patience'
  BY <1>8, <1>11 DEF Patience
<1>14. InTurn'
  <2>1. HadTurn(Q, pending', made')
    BY <1>1, <1>4, <1>5 DEF HadTurn
  <2>2. PICK R \in SUBSET Things : HadTurn(R, pending', made')
    BY <1>7, <2>1
  <2>3. HadTurn(R, pending, made)'
    BY <1>2, <2>2 DEF HadTurn, Scattered, Outward, Waiting, MadeOnce, Contents
  <2> QED
    BY <2>3 DEF InTurn
<1>15. CaredFor'
  <2> SUFFICES ASSUME NEW A \in SUBSET Things, Whole(A)'
               PROVE  Cared(pending, where, A, <<>>, Nowhere)' /\ Guided(pending, A)'
    BY DEF CaredFor
  <2>1. Whole(A)
    BY <1>2 DEF Whole, SavedIn, Contents
  <2>2. Cared(pending', where', A, <<>>, Nowhere) /\ Guided(pending', A)
    BY <1>1, <1>2, <2>1, TurnCares DEF N
  <2> QED
    BY <1>2, <2>2 DEF Cared, Guided, SavedIn, Contents
<1> QED
  BY <1>12, <1>13, <1>14, <1>15, <1>16 DEF LoadInd

\* Nothing of what was saved in things is left if the player had nothing.
LEMMA NothingWhole ==
  ASSUME auto_load \in Inventories, auto_load.top = <<>>, NEW A \in SUBSET Things, Whole(A)
  PROVE  A = {}
<1> SUFFICES ASSUME A # {} PROVE FALSE
  OBVIOUS
<1>1. PICK t \in A : \A u \in A : t \notin ToSet(Contents(u))
  BY SavedNested DEF Nested, Contents
<1>2. PICK p \in A \cup {LoginRoom} : SavedIn(t, p)
  BY DEF Whole
<1>3. t \notin ToSet(auto_load.top)
  BY NobodyIn
<1> QED
  BY <1>1, <1>2, <1>3, PlacesAssumption DEF SavedIn

LEMMA LoadInventoryKeeps ==
  ASSUME LoadInd, LoadInventory
  PROVE  LoadInd'
<1>1. auto_load \in Inventories /\ auto_load' = auto_load /\ fate' = fate /\ vanished' = vanished
      /\ pl = "entering" /\ pending = {} /\ \A t \in Things : where[t] = Nowhere /\ made[t] = 0
  BY DEF LoadInd, LoadTyped, Patience, LoadInventory, saved
<1>2. Nested(auto_load) /\ auto_load.top \in Seq(Things) /\ \A t \in Things : Contents(t) \in Seq(Things)
  BY <1>1, SavedNested
<1>3. CASE auto_load.top = <<>> /\ pl' = "arda" /\ UNCHANGED <<finish, pending, where, made>>
  <2>1. LoadTyped' /\ Patience'
    BY <1>1, <1>3 DEF LoadInd, LoadTyped, Patience
  <2>2. InTurn'
    BY <1>1, <1>3 DEF LoadInd, InTurn, HadTurn, Scattered, Outward, Waiting, MadeOnce, Contents
  <2>3. CaredFor'
    <3> SUFFICES ASSUME NEW A \in SUBSET Things, Whole(A)'
                 PROVE  Cared(pending, where, A, <<>>, Nowhere)' /\ Guided(pending, A)'
      BY DEF CaredFor
    <3>1. Whole(A)
      BY <1>1 DEF Whole, SavedIn, Contents
    <3>2. A = {}
      BY <1>1, <1>3, <3>1, NothingWhole
    <3> QED
      BY <3>2 DEF Cared, Guided
  <2>4. Comes'
    BY <1>3 DEF Comes
  <2> QED
    BY <2>1, <2>2, <2>3, <2>4 DEF LoadInd
<1>4. CASE auto_load.top # <<>> /\ Make(LoginRoom, auto_load.top, {}, 0)
  <2> DEFINE s == auto_load.top
  <2>1. UNCHANGED saved /\ UNCHANGED vanished /\ s \in Seq(Things) /\ LoginRoom \in Homes
    BY <1>2 DEF LoadInventory, Homes
  <2>2. IsFiniteSet({}) /\ Cardinality({}) = 0
    BY FS_EmptySet
  <2>3. HadTurn({}, {}, made)
    BY <1>1 DEF HadTurn, Scattered, Outward, Waiting, MadeOnce
  <2>4. IsInjective(s) /\ ToSet(s) \cap ({} \cup Waiting({})) = {}
    BY <1>2 DEF Nested, Waiting
  <2>5. Outward({}, Waiting({}) \cup ToSet(s))
    BY <1>2 DEF Nested, Outward, Waiting, Contents
  <2>6. ASSUME NEW A \in SUBSET Things, Whole(A)
        PROVE  /\ Cared({}, where, A, s, LoginRoom) /\ Guided({}, A)
               /\ \A t \in A \cap ToSet(s) : SavedIn(t, LoginRoom)
    BY <1>1 DEF Cared, Guided, SavedIn
  <2>7. Make(LoginRoom, s, {}, Cardinality({}))
    BY <1>4, <2>2
  <2> HIDE DEF s
  <2>8. {} \in SUBSET CallOuts /\ {} \in SUBSET Things
    OBVIOUS
  <2>9. AllFind({}) /\ LoginRoom \in Existing
    BY DEF AllFind, Existing
  <2> QED
    BY <2>1, <2>2, <2>3, <2>4, <2>5, <2>6, <2>7, <2>8, <2>9, MakeKeeps
<1> QED
  BY <1>3, <1>4 DEF LoadInventory

\* Nothing but a call_out that is over.
LEMMA LessKeeps ==
  ASSUME NEW P, NEW co, NEW d, d \subseteq co, NEW m, HadTurn(P, co, m)
  PROVE  HadTurn(P, d, m)
  BY DEF HadTurn, Scattered, Outward, Waiting

LEMMA CallOutKeeps ==
  ASSUME LoadInd, NEW c \in pending, CallOut(c)
  PROVE  LoadInd'
<1> DEFINE others == pending \ {c}
<1>1. auto_load \in Inventories /\ auto_load' = auto_load /\ fate' = fate /\ vanished' = vanished
      /\ UNCHANGED saved /\ UNCHANGED vanished /\ pending \in SUBSET CallOuts /\ IsFiniteSet(pending)
      /\ pl \in {"waiting", "gone"} /\ c \in CallOuts
  BY DEF LoadInd, LoadTyped, Patience, CallOut, saved
<1>2. PICK P \in SUBSET Things : HadTurn(P, pending, made)
  BY DEF LoadInd, InTurn
<1>3. IsFiniteSet(others) /\ Cardinality(others) = Cardinality(pending) - 1 /\ others \in SUBSET CallOuts
  BY <1>1, FS_RemoveElement
<1>4. HadTurn(P, others, made)
  BY <1>2, LessKeeps
<1>5. CASE pl = "gone" /\ pending' = {} /\ UNCHANGED <<finish, where, made, pl>>
  <2>1. HadTurn(P, {}, made)
    BY <1>2, LessKeeps
  <2>2. InTurn'
    BY <1>1, <1>5, <2>1 DEF InTurn, HadTurn, Scattered, Outward, Waiting, MadeOnce, Contents
  <2>3. IsFiniteSet({})
    BY FS_EmptySet
  <2> QED
    BY <1>1, <1>5, <2>2, <2>3 DEF LoadInd, LoadTyped, Patience, CaredFor, Comes
<1>6. CASE pl # "gone" /\ c.into \notin Existing /\ finish' = finish - 1 /\ pending' = others
           /\ UNCHANGED <<where, made, pl>>
  <2>1. InTurn'
    BY <1>1, <1>4, <1>6 DEF InTurn, HadTurn, Scattered, Outward, Waiting, MadeOnce, Contents
  <2>2. LoadTyped' /\ Patience'
    BY <1>1, <1>3, <1>6 DEF LoadInd, LoadTyped, Patience
  <2>3. CaredFor'
    <3> SUFFICES ASSUME NEW A \in SUBSET Things, Whole(A)'
                 PROVE  Cared(pending, where, A, <<>>, Nowhere)' /\ Guided(pending, A)'
      BY DEF CaredFor
    <3>1. Whole(A)
      BY <1>1 DEF Whole, SavedIn, Contents
    <3>2. Cared(pending, where, A, <<>>, Nowhere) /\ Guided(pending, A)
      BY <1>1, <1>6, <3>1 DEF LoadInd, CaredFor
    <3>3. c.into \in Things /\ where[c.into] = Nowhere
      BY <1>1, <1>6 DEF Existing, CallOuts, Homes
    <3>4. Cared(others, where, A, <<>>, Nowhere) /\ Guided(others, A)
      BY <3>2, <3>3 DEF Cared, Guided
    <3> QED
      BY <1>1, <1>6, <3>4 DEF Cared, Guided, SavedIn, Contents
  <2>4. Comes'
    BY <1>1, <1>6 DEF LoadInd, Comes, AllFind
  <2> QED
    BY <2>1, <2>2, <2>3, <2>4 DEF LoadInd
<1>7. CASE pl # "gone" /\ c.into \in Existing /\ Make(c.into, c.things, others, finish - 1)
  <2>1. c.things \in Seq(Things) /\ c.into \in Homes
    BY <1>1 DEF CallOuts
  <2>2. finish - 1 = Cardinality(others)
    BY <1>1, <1>3, <1>7 DEF LoadInd, Patience
  <2>3. IsInjective(c.things) /\ ToSet(c.things) \cap P = {}
    BY <1>2 DEF HadTurn, Scattered
  <2>4. ToSet(c.things) \cap Waiting(others) = {}
    BY <1>2 DEF HadTurn, Scattered, Waiting
  <2>5. Waiting(others) \cup ToSet(c.things) = Waiting(pending)
    BY DEF Waiting
  <2>6. Outward(P, Waiting(others) \cup ToSet(c.things))
    BY <1>2, <2>5 DEF HadTurn
  <2>7. ASSUME NEW A \in SUBSET Things, Whole(A)
        PROVE  /\ Cared(others, where, A, c.things, c.into) /\ Guided(others, A)
               /\ \A t \in A \cap ToSet(c.things) : SavedIn(t, c.into)
    <3>1. Cared(pending, where, A, <<>>, Nowhere) /\ Guided(pending, A)
      BY <1>1, <1>7, <2>7 DEF LoadInd, CaredFor
    <3> QED
      BY <3>1, NobodyIn DEF Cared, Guided
  <2>8. Make(c.into, c.things, others, Cardinality(others))
    BY <1>7, <2>2
  <2>9. ToSet(c.things) \cap (P \cup Waiting(others)) = {}
    BY <2>3, <2>4
  <2>10. vanished = {} => AllFind(others)
    BY <1>1, <1>7 DEF LoadInd, Comes, AllFind
  <2> HIDE DEF others
  <2> QED
    BY <1>1, <1>3, <1>4, <1>7, <2>1, <2>3, <2>6, <2>7, <2>8, <2>9, <2>10, MakeKeeps
<1> QED
  BY <1>5, <1>6, <1>7 DEF CallOut

LEMMA VanishKeeps ==
  ASSUME LoadInd, NEW t \in Things, Vanish(t)
  PROVE  LoadInd'
<1> DEFINE V == Within(t)
<1>1. auto_load' = auto_load /\ fate' = fate /\ finish' = finish /\ pending' = pending /\ made' = made
      /\ pl' = pl /\ vanished' = V /\ vanished = {} /\ pl = "waiting"
      /\ where' = [u \in Things |-> IF u \in V THEN Nowhere ELSE where[u]]
  BY DEF Vanish, saved
<1> HIDE DEF V
<1>2. LoadTyped' /\ Patience' /\ InTurn'
  BY <1>1 DEF LoadInd, LoadTyped, Patience, InTurn, HadTurn, Scattered, Outward, Waiting, MadeOnce, Contents
<1>3. CaredFor'
  <2> SUFFICES ASSUME NEW A \in SUBSET Things, Whole(A)'
               PROVE  Cared(pending, where, A, <<>>, Nowhere)' /\ Guided(pending, A)'
    BY DEF CaredFor
  <2>1. Whole(A) /\ A \cap V = {}
    BY <1>1 DEF Whole, SavedIn, Contents
  <2>2. Cared(pending, where, A, <<>>, Nowhere) /\ Guided(pending, A)
    BY <1>1, <2>1 DEF LoadInd, CaredFor
  <2>3. \A u \in A : where'[u] = where[u]
    BY <1>1, <2>1
  <2>4. Cared(pending, where', A, <<>>, Nowhere)
    BY <2>2, <2>3, PlacesAssumption DEF Cared
  <2> QED
    BY <1>1, <2>2, <2>4 DEF Cared, Guided, SavedIn, Contents
<1>4. Comes'
  <2>1. V = {} => Existing' = Existing
    BY <1>1 DEF Existing
  <2> QED
    BY <1>1, <2>1 DEF LoadInd, Comes, AllFind
<1> QED
  BY <1>2, <1>3, <1>4 DEF LoadInd

\* The player leaves: nothing is made any more.
LEMMA GoesKeeps ==
  ASSUME LoadInd, PlayerGoes \/ QuitCmd
  PROVE  LoadInd'
<1>1. auto_load' = auto_load /\ fate' = fate /\ made' = made /\ pl' = "gone" /\ pending' \subseteq pending
      /\ pending' \in {pending, {}}
  BY DEF PlayerGoes, QuitCmd, saved
<1>2. PICK P \in SUBSET Things : HadTurn(P, pending, made)
  BY DEF LoadInd, InTurn
<1>3. HadTurn(P, pending', made)
  BY <1>1, <1>2, LessKeeps
<1>4. InTurn'
  BY <1>1, <1>3 DEF InTurn, HadTurn, Scattered, Outward, Waiting, MadeOnce, Contents
<1>5. IsFiniteSet({})
  BY FS_EmptySet
<1> QED
  BY <1>1, <1>4, <1>5 DEF LoadInd, LoadTyped, Patience, CaredFor, Comes

\* What was saved is as it was, and everything else of the state.
LEMMA EntersKeeps ==
  ASSUME LoadInd, EnterCmd \/ UNCHANGED loadVars
  PROVE  LoadInd'
<1>1. auto_load' = auto_load /\ fate' = fate /\ made' = made /\ pending' = pending /\ where' = where
      /\ vanished' = vanished /\ finish' = finish
      /\ (pl' = pl \/ (pl = "dressing" /\ pl' = "arda"))
  BY DEF EnterCmd, loadVars, saved
<1>2. LoadTyped' /\ Patience' /\ InTurn'
  BY <1>1 DEF LoadInd, LoadTyped, Patience, InTurn, HadTurn, Scattered, Outward, Waiting, MadeOnce, Contents
<1>3. CaredFor'
  <2> SUFFICES ASSUME NEW A \in SUBSET Things, Whole(A)', pl' \in {"waiting", "dressing", "arda"}
               PROVE  Cared(pending, where, A, <<>>, Nowhere)' /\ Guided(pending, A)'
    BY DEF CaredFor
  <2>1. Whole(A)
    BY <1>1 DEF Whole, SavedIn, Contents
  <2>2. Cared(pending, where, A, <<>>, Nowhere) /\ Guided(pending, A)
    BY <1>1, <2>1 DEF LoadInd, CaredFor
  <2> QED
    BY <1>1, <2>2 DEF Cared, Guided, SavedIn, Contents
<1>4. Comes'
  BY <1>1 DEF LoadInd, Comes, AllFind, Existing
<1> QED
  BY <1>2, <1>3, <1>4 DEF LoadInd

LEMMA LoadStart == LoadInit => LoadInd
<1> SUFFICES ASSUME LoadInit PROVE LoadInd
  OBVIOUS
<1>1. IsFiniteSet({})
  BY FS_EmptySet
<1>2. LoadTyped /\ Patience /\ CaredFor /\ Comes
  BY <1>1 DEF LoadInit, LoadTyped, Patience, CaredFor, Comes
<1>3. HadTurn({}, pending, made)
  BY DEF LoadInit, HadTurn, Scattered, Outward, Waiting, MadeOnce
<1> QED
  BY <1>2, <1>3 DEF LoadInd, InTurn

LEMMA LoadStep == LoadInd /\ [LoadNext]_loadVars => LoadInd'
<1> SUFFICES ASSUME LoadInd, [LoadNext]_loadVars PROVE LoadInd'
  OBVIOUS
<1>1. CASE LoadInventory
  BY <1>1, LoadInventoryKeeps
<1>2. ASSUME NEW c \in pending, CallOut(c) PROVE LoadInd'
  BY <1>2, CallOutKeeps
<1>3. ASSUME NEW t \in Things, Vanish(t) PROVE LoadInd'
  BY <1>3, VanishKeeps
<1>4. CASE PlayerGoes \/ QuitCmd
  BY <1>4, GoesKeeps
<1>5. CASE EnterCmd \/ UNCHANGED loadVars
  BY <1>5, EntersKeeps
<1> QED
  BY <1>1, <1>2, <1>3, <1>4, <1>5 DEF LoadNext

-----------------------------------------------------------------------------
\* What Intact[] is, for every thing that was saved.
LEMMA IntactIs ==
  ASSUME auto_load \in Inventories
  PROVE  \A t \in SavedThings :
           /\ Place(t) \in SavedThings \cup {LoginRoom} /\ SavedIn(t, Place(t))
           /\ Intact[t] <=> /\ fate[t] = "fine" /\ t \notin vanished
                            /\ Place(t) # LoginRoom => Intact[Place(t)]
<1>1. Nested(auto_load)
  BY SavedNested
<1>2. \A t \in SavedThings : t \in Things
  BY <1>1, SavedNested DEF SavedThings, ToSet
<1>3. \A t \in SavedThings : Place(t) \in SavedThings \cup {LoginRoom} /\ SavedIn(t, Place(t))
  <2> SUFFICES ASSUME NEW t \in SavedThings
               PROVE  Place(t) \in SavedThings \cup {LoginRoom} /\ SavedIn(t, Place(t))
    OBVIOUS
  <2>1. CASE t \in ToSet(auto_load.top)
    BY <2>1 DEF Place, SavedIn
  <2>2. CASE t \notin ToSet(auto_load.top)
    <3>1. PICK u \in Things : t \in ToSet(Contents(u))
      BY <2>2 DEF SavedThings
    <3>2. Place(t) \in Things /\ t \in ToSet(Contents(Place(t)))
      BY <2>2, <3>1 DEF Place
    <3> DEFINE p == Place(t)
    <3>3. p \in Things /\ t \in ToSet(Contents(p))
      BY <3>2
    <3> HIDE DEF p
    <3>4. Contents(p) # <<>>
      BY <3>3, NobodyIn
    <3>5. p \in SavedThings
      BY <1>1, <3>3, <3>4 DEF Nested, Contents, SavedThings
    <3> QED
      BY <3>3, <3>5 DEF SavedIn, p
  <2> QED
    BY <2>1, <2>2
<1> DEFINE S == SavedThings
           Fine(t) == fate[t] = "fine" /\ t \notin vanished
           Closed(A) == \A t \in A : Fine(t) /\ (Place(t) # LoginRoom => Place(t) \in A)
           f == [t \in S |-> \E A \in SUBSET S : t \in A /\ Closed(A)]
<1>4. f = [t \in S |-> Fine(t) /\ (Place(t) # LoginRoom => f[Place(t)])]
  <2> SUFFICES ASSUME NEW t \in S
               PROVE  f[t] <=> Fine(t) /\ (Place(t) # LoginRoom => f[Place(t)])
    OBVIOUS
  <2> DEFINE p == Place(t)
  <2>1. p \in S \cup {LoginRoom}
    BY <1>3
  <2> HIDE DEF S, Fine
  <2>2. ASSUME f[t] PROVE Fine(t) /\ (p # LoginRoom => f[p])
    <3>1. PICK A \in SUBSET S : t \in A /\ Closed(A)
      BY <2>2
    <3> QED
      BY <2>1, <3>1
  <2>3. ASSUME Fine(t), p = LoginRoom PROVE f[t]
    <3>1. Closed({t}) /\ t \in {t} /\ {t} \in SUBSET S
      BY <2>3
    <3> QED
      BY <3>1
  <2>4. ASSUME Fine(t), p # LoginRoom, f[p] PROVE f[t]
    <3>1. PICK A \in SUBSET S : p \in A /\ Closed(A)
      BY <2>1, <2>4
    <3>2. Closed(A \cup {t}) /\ t \in A \cup {t} /\ A \cup {t} \in SUBSET S
      BY <2>4, <3>1
    <3> QED
      BY <3>2
  <2> QED
    BY <2>2, <2>3, <2>4
<1> HIDE DEF f
<1>5. Intact = [t \in S |-> Fine(t) /\ (Place(t) # LoginRoom => Intact[Place(t)])]
  BY <1>4, Zenon DEF Intact
<1> QED
  BY <1>3, <1>5

\* The property follows: if anything whole were not where it belongs, then so were what it
\* was saved in, and what that was saved in.
LEMMA LoadIndRestored == LoadInd => Restored
<1> SUFFICES ASSUME LoadInd PROVE Restored
  OBVIOUS
<1>1. OnceEach
  <2>1. PICK P \in SUBSET Things : HadTurn(P, pending, made)
    BY DEF LoadInd, InTurn
  <2>2. \A t \in Things : made[t] = 0 \/ made[t] = 1
    BY <2>1 DEF HadTurn, MadeOnce
  <2> QED
    BY <2>2 DEF OnceEach
<1>2. ASSUME pl \in {"dressing", "arda"}
      PROVE  pending = {} /\ \A t \in Things : t \in SavedThings /\ Intact[t] => where[t] = Place(t)
  <2>1. pending = {} /\ auto_load \in Inventories
    BY <1>2 DEF LoadInd, LoadTyped, Patience
  <2> DEFINE A == {t \in SavedThings : Intact[t]}
             U == {t \in A : where[t] # Place(t)}
  <2>2. \A t \in A : /\ Place(t) \in A \cup {LoginRoom} /\ SavedIn(t, Place(t))
                     /\ fate[t] = "fine" /\ t \notin vanished
    BY <2>1, IntactIs
  <2>3. Nested(auto_load)
    BY <2>1, SavedNested
  <2>4. A \in SUBSET Things
    BY <2>1, <2>3, SavedNested DEF SavedThings, ToSet
  <2>5. Whole(A)
    BY <2>2 DEF Whole
  <2>6. Cared(pending, where, A, <<>>, Nowhere)
    BY <1>2, <2>4, <2>5 DEF LoadInd, CaredFor
  <2>7. \A t \in A : where[t] = Place(t) \/ (Place(t) \in Things /\ where[Place(t)] = Nowhere)
    BY <2>1, <2>2, <2>6, NobodyIn DEF Cared
  <2> SUFFICES ASSUME U # {} PROVE FALSE
    BY <2>1
  <2>8. U \in SUBSET Things /\ U \in SUBSET A
    BY <2>4
  <2> HIDE DEF A
  <2>9. PICK t \in U : \A u \in U : t \notin ToSet(Contents(u))
    BY <2>3, <2>8 DEF Nested, Contents
  <2> DEFINE p == Place(t)
  <2>10. p \in Things /\ where[p] = Nowhere /\ p \in A \cup {LoginRoom} /\ SavedIn(t, p)
    BY <2>2, <2>7, <2>8, <2>9
  <2>11. p \in A /\ t \in ToSet(Contents(p))
    BY <2>10, PlacesAssumption DEF SavedIn
  <2>12. p \notin U
    BY <2>9, <2>11
  <2>13. Place(p) = Nowhere
    BY <2>10, <2>11, <2>12
  <2>14. Place(p) \in A \cup {LoginRoom}
    BY <2>2, <2>11
  <2> QED
    BY <2>4, <2>13, <2>14, PlacesAssumption
<1>3. NotInVain
  BY DEF LoadInd, Comes, AllFind, NotInVain
<1> QED
  BY <1>1, <1>2, <1>3 DEF Restored, LetGoLast

\* When a player is let go, everything that can be is where it was saved and nothing is on
\* its way; nobody gets a thing twice; and who is asked to be patient has a call_out to come.
THEOREM AlwaysRestored == LoadSpec => []Restored
<1>1. LoadSpec => []LoadInd
  BY LoadStart, LoadStep, PTL DEF LoadSpec
<1> QED
  BY <1>1, LoadIndRestored, PTL

(***************************************************************************)
(* Proofs about CmdQueue, for any delays and any length of the queue.  The *)
(* LPC functions are operators on a state s; the lemmas say what each of   *)
(* them preserves: that the one call_out fits the queue (Timed), and,      *)
(* where commands that fail ask nothing, that a question stops the queue   *)
(* (Calm).                                                                 *)
(***************************************************************************)

TimerOf(q) == IF q = <<>> THEN <<>> ELSE <<q[1].delay>>

Timed(s) ==
  s \in CmdState /\ 2 * Len(s.queue) <= QueueLength + 2 /\ s.timers = TimerOf(s.queue)

\* A cell that may stand in the queue while a question waits.
MayWait(e) == e.special \/ e.past

Calm(s) == ~AskFails /\ s.status # "command" => \A i \in DOMAIN s.queue : MayWait(s.queue[i])

Fine(s) == Timed(s) /\ Calm(s)

\* A queue and the call_out that fits it, put into a state.
LEMMA TimedState ==
  ASSUME NEW s \in CmdState, NEW q \in Seq(Entry), 2 * Len(q) <= QueueLength + 2
  PROVE  /\ TimerOf(q) \in Seq(Nat)
         /\ Timed([s EXCEPT !.queue = q, !.timers = TimerOf(q)])
<1>1. q # <<>> => q[1] \in Entry
  OBVIOUS
<1>2. q # <<>> => q[1].delay \in Nat
  BY <1>1 DEF Entry
<1>3. TimerOf(q) \in Seq(Nat)
  BY <1>2 DEF TimerOf
<1> DEFINE t == [s EXCEPT !.queue = q, !.timers = TimerOf(q)]
<1>4. t \in CmdState /\ t.queue = q /\ t.timers = TimerOf(q)
  BY <1>3 DEF CmdState
<1> QED BY <1>3, <1>4 DEF Timed

\* add_command() into an empty queue, and behind others.
LEMMA EnqueueFine ==
  ASSUME NEW s, Fine(s), NEW e \in Entry, s.status = "command" \/ MayWait(e)
  PROVE  Fine(Enqueue(s, e))
<1> USE QueueLengthAssumption
<1>1. CASE s.queue = <<>>
  <2>1. <<e>> \in Seq(Entry) /\ Len(<<e>>) = 1 /\ <<e>> # <<>> /\ DOMAIN <<e>> = {1} /\ <<e>>[1] = e
    OBVIOUS
  <2>2. s \in CmdState /\ s.timers = <<>>
    BY <1>1 DEF Fine, Timed, TimerOf
  <2>3. Append(s.timers, e.delay) = TimerOf(<<e>>)
    BY <2>1, <2>2 DEF TimerOf, Entry
  <2>4. Enqueue(s, e) = [s EXCEPT !.queue = <<e>>, !.timers = TimerOf(<<e>>)]
    BY <1>1, <2>3 DEF Enqueue, FirstIn
  <2>5. 2 * Len(<<e>>) <= QueueLength + 2
    BY <2>1
  <2>6. Timed(Enqueue(s, e))
    BY ONLY <2>1, <2>2, <2>4, <2>5, TimedState
  <2>7. Enqueue(s, e).queue = <<e>> /\ Enqueue(s, e).status = s.status
    BY <2>2, <2>4 DEF CmdState
  <2> QED BY <2>1, <2>6, <2>7 DEF Fine, Calm
<1>2. CASE s.queue # <<>>
  <2>1. CASE 2 * Len(s.queue) > QueueLength
    BY <1>2, <2>1 DEF Enqueue, Behind
  <2>2. CASE ~(2 * Len(s.queue) > QueueLength)
    <3> DEFINE q == s.queue
    <3>1. q \in Seq(Entry) /\ q # <<>>
      BY <1>2 DEF Fine, Timed, CmdState
    <3>2. Append(q, e) \in Seq(Entry) /\ Len(Append(q, e)) = Len(q) + 1
          /\ Append(q, e) # <<>> /\ Append(q, e)[1] = q[1]
      BY <3>1
    <3>3. Enqueue(s, e) = [s EXCEPT !.queue = Append(q, e)]
      BY <1>2, <2>2 DEF Enqueue, Behind
    <3>4. Timed(Enqueue(s, e))
      <4>1. s \in CmdState /\ s.timers = TimerOf(Append(q, e))
        BY <3>1, <3>2 DEF Fine, Timed, TimerOf
      <4>2. Enqueue(s, e) = [s EXCEPT !.queue = Append(q, e), !.timers = TimerOf(Append(q, e))]
        BY <3>3, <4>1 DEF CmdState
      <4>3. Len(q) \in Nat
        BY <3>1
      <4>4. 2 * Len(Append(q, e)) <= QueueLength + 2
        BY <4>3, <3>2, <2>2
      <4> QED BY <4>1, <4>2, <4>4, <3>2, TimedState
    <3>5. Calm(Enqueue(s, e))
      <4>1. \A i \in DOMAIN Append(q, e) : Append(q, e)[i] = e \/ (i \in DOMAIN q /\ Append(q, e)[i] = q[i])
        BY <3>1
      <4>2. Enqueue(s, e).queue = Append(q, e) /\ Enqueue(s, e).status = s.status
        BY <3>3 DEF Fine, Timed, CmdState
      <4> QED BY <4>1, <4>2 DEF Fine, Calm
    <3> QED BY <3>4, <3>5 DEF Fine
  <2> QED BY <2>1, <2>2
<1> QED BY <1>1, <1>2

\* stop_cmdqueue().
LEMMA StopFine ==
  ASSUME NEW s, Timed(s)
  PROVE  Fine(StopQueue(s)) /\ StopQueue(s).queue = <<>> /\ StopQueue(s).timers = <<>>
<1> DEFINE q == s.queue
<1>1. s \in CmdState /\ q \in Seq(Entry)
  BY DEF Timed, CmdState
<1>2. s.timers = <<>> \/ s.timers = <<q[1].delay>>
  BY DEF Timed, TimerOf
<1>3. Tail(<<q[1].delay>>) = <<>>
  OBVIOUS
<1>4. StopQueue(s) = [s EXCEPT !.queue = <<>>, !.timers = TimerOf(<<>>)]
  BY <1>2, <1>3 DEF StopQueue, TimerOf
<1>5. <<>> \in Seq(Entry) /\ 2 * Len(<<>>) <= QueueLength + 2
  BY QueueLengthAssumption
<1>6. Timed(StopQueue(s))
  BY <1>1, <1>4, <1>5, TimedState, QueueLengthAssumption
<1>7. StopQueue(s).queue = <<>> /\ StopQueue(s).timers = <<>>
  BY <1>1, <1>4 DEF CmdState, TimerOf
<1> QED BY <1>6, <1>7 DEF Fine, Calm

\* A continuation may wait whatever is asked.
LEMMA ContinueFine ==
  ASSUME NEW s, Fine(s)
  PROVE  Fine(Continue(s))
<1> DEFINE e == [n |-> s.typed + 1, delay |-> 1, special |-> TRUE, past |-> FALSE]
           t == [s EXCEPT !.typed = @ + 1]
<1>1. Fine(t)
  BY DEF Fine, Timed, Calm, CmdState, TimerOf
<1>2. e \in Entry /\ MayWait(e)
  BY DEF Fine, Timed, CmdState, Entry, MayWait
<1>3. Fine(Enqueue(t, e))
  BY <1>1, <1>2, EnqueueFine
<1> QED BY <1>3 DEF Continue

\* The question a command may leave; only Timed is kept by it.
LEMMA ActedTimed ==
  ASSUME NEW s, Timed(s), NEW t \in Acted(s)
  PROVE  Timed(t)
<1>1. \A u \in Asked(s) : Timed(u)
  BY DEF Asked, Timed, CmdState, TimerOf, Status
<1>2. \A u : Timed(u) => Timed(Continue(u))
  <2> SUFFICES ASSUME NEW u, Timed(u) PROVE Timed(Continue(u))
    OBVIOUS
  <2> DEFINE v == [u EXCEPT !.status = "command"]
  <2>1. Fine(v)
    BY DEF Fine, Timed, Calm, CmdState, Status, TimerOf
  <2>2. Timed(Continue(v))
    BY <2>1, ContinueFine DEF Fine
  <2>3. Continue(u) = [Continue(v) EXCEPT !.status = u.status]
    BY DEF Continue, Enqueue, FirstIn, Behind, Timed, CmdState
  <2> QED BY <2>2, <2>3 DEF Timed, CmdState
<1> QED BY <1>1, <1>2 DEF Acted

\* command() of player.c: after a success a question stops the queue.
LEMMA CommandFine ==
  ASSUME NEW s, Fine(s), NEW t \in Command(s)
  PROVE  Fine(t)
<1>1. CASE t = s
  BY <1>1
<1>2. CASE \E u \in Acted(s) : t = Prompted(u)
  <2>1. PICK u \in Acted(s) : t = Prompted(u)
    BY <1>2
  <2>2. Timed(u)
    BY <2>1, ActedTimed DEF Fine
  <2>3. CASE u.status = "command"
    BY <2>1, <2>2, <2>3 DEF Prompted, Fine, Calm
  <2>4. CASE u.status # "command"
    BY <2>1, <2>2, <2>4, StopFine DEF Prompted
  <2> QED BY <2>3, <2>4
<1>3. CASE AskFails /\ t \in Acted(s)
  BY <1>3, ActedTimed DEF Fine, Calm
<1> QED BY <1>1, <1>2, <1>3 DEF Command

\* add_command() with the command of a player.
LEMMA AddCommandFine ==
  ASSUME NEW s, Fine(s), NEW e \in Entry, s.status = "command" \/ MayWait(e),
         NEW t \in AddCommand(s, e)
  PROVE  Fine(t)
<1>1. CASE s.queue # <<>>
  <2>1. t = Enqueue(s, e)
    BY <1>1 DEF AddCommand, Enqueue
  <2> QED BY <2>1, EnqueueFine
<1>2. CASE s.queue = <<>> /\ e.delay < 1
  <2> DEFINE r == [s EXCEPT !.ran = e.n]
  <2>1. Fine(r)
    BY DEF Fine, Timed, Calm, CmdState, TimerOf, Entry
  <2>2. t \in Command(r)
    BY <1>2 DEF AddCommand
  <2> QED BY <2>1, <2>2, CommandFine
<1>3. CASE s.queue = <<>> /\ ~(e.delay < 1)
  <2>1. t = Enqueue(s, e)
    BY <1>3 DEF AddCommand, Enqueue
  <2> QED BY <2>1, EnqueueFine
<1> QED BY <1>1, <1>2, <1>3

\* next_command() takes the first out and starts the call_out again.
LEMMA PoppedFine ==
  ASSUME NEW s, s \in CmdState, 2 * Len(s.queue) <= QueueLength + 2, Calm(s),
         s.queue # <<>>, s.timers = <<>>
  PROVE  Fine(Popped(s))
<1> DEFINE q == s.queue
           rest == Tail(q)
<1>1. q \in Seq(Entry) /\ q # <<>>
  BY DEF CmdState
<1>2. rest \in Seq(Entry) /\ Len(rest) = Len(q) - 1 /\ \A i \in DOMAIN rest : rest[i] = q[i + 1] /\ i + 1 \in DOMAIN q
  BY <1>1
<1>3. rest # <<>> => rest[1] \in Entry
  BY <1>2
<1>4. q[1] \in Entry
  BY <1>1
<1>5. Popped(s) = [s EXCEPT !.queue = rest,
                            !.timers = IF rest = <<>> THEN <<>> ELSE <<rest[1].delay>>,
                            !.ran = q[1].n]
  BY DEF Popped, CmdState
<1>6. Timed(Popped(s))
  <2> DEFINE r == [s EXCEPT !.ran = q[1].n]
  <2>1. r \in CmdState
    BY <1>4 DEF CmdState, Entry
  <2>2. Popped(s) = [r EXCEPT !.queue = rest, !.timers = TimerOf(rest)]
    BY <1>5 DEF TimerOf, CmdState
  <2>3. 2 * Len(rest) <= QueueLength + 2
    BY <1>1, <1>2, QueueLengthAssumption
  <2> QED BY <1>2, <2>1, <2>2, <2>3, TimedState
<1>7. Calm(Popped(s))
  BY <1>2, <1>5 DEF Calm, CmdState
<1> QED BY <1>6, <1>7 DEF Fine

\* One call_out is pending: taking it out leaves none.
LEMMA OneOut ==
  ASSUME NEW s, Timed(s), NEW i \in DOMAIN s.timers
  PROVE  s.queue # <<>> /\ RemoveAt(s.timers, i) = <<>>
<1>1. s.queue # <<>> /\ s.timers = <<s.queue[1].delay>>
  BY DEF Timed, TimerOf
<1> DEFINE d == s.queue[1].delay
<1>2. i = 1
  BY <1>1
<1>3. SubSeq(<<d>>, 1, 0) = <<>> /\ SubSeq(<<d>>, 2, 1) = <<>> /\ Len(<<d>>) = 1
  OBVIOUS
<1>4. <<>> \o <<>> = <<>>
  OBVIOUS
<1>5. RemoveAt(<<d>>, 1) = SubSeq(<<d>>, 1, 0) \o SubSeq(<<d>>, 2, 1)
  BY <1>3 DEF RemoveAt
<1> QED BY <1>1, <1>2, <1>3, <1>4, <1>5

-----------------------------------------------------------------------------
QueueFlags == linked \in BOOLEAN /\ hasted \in BOOLEAN

CmdInd == Fine(Current) /\ QueueFlags

\* Becomes(s) makes the next state s.
LEMMA BecomesFine ==
  ASSUME NEW s, Fine(s), Becomes(s)
  PROVE  Fine(Current')
<1>1. Current' = [queue |-> s.queue, timers |-> s.timers, status |-> s.status,
                  typed |-> s.typed, ran |-> s.ran]
  BY DEF Becomes, Current
<1>2. Current' = s
  BY <1>1 DEF Fine, Timed, CmdState
<1> QED BY <1>2

LEMMA InitFine == CmdInit => CmdInd
<1> SUFFICES ASSUME CmdInit PROVE CmdInd
  OBVIOUS
<1>1. Current \in CmdState
  BY DEF CmdInit, Current, CmdState, Status
<1>2. Current.queue = <<>> /\ Current.timers = <<>> /\ Current.status = "command"
  BY DEF CmdInit, Current
<1>3. TimerOf(<<>>) = <<>> /\ 2 * Len(<<>>) <= QueueLength + 2
  BY QueueLengthAssumption DEF TimerOf
<1>4. Fine(Current)
  BY <1>1, <1>2, <1>3 DEF Fine, Timed, Calm
<1> QED BY <1>4 DEF CmdInit, CmdInd, QueueFlags

\* What the actions that leave the queue alone have to show.
LEMMA SameQueue ==
  ASSUME CmdInd, UNCHANGED <<cmd_queue, timers, typed, ran>>, status' \in Status,
         status' # "command" => status # "command", QueueFlags'
  PROVE  CmdInd'
<1>1. Current' = [Current EXCEPT !.status = status']
  BY DEF Current
<1> QED BY <1>1 DEF CmdInd, Fine, Timed, Calm, CmdState, Current

LEMMA StepFine == CmdInd /\ [CmdNext]_cmdVars => CmdInd'
<1> SUFFICES ASSUME CmdInd, [CmdNext]_cmdVars PROVE CmdInd'
  OBVIOUS
<1> DEFINE counted == [Current EXCEPT !.typed = @ + 1]
<1>1. Fine(counted) /\ counted.status = status /\ counted.queue = cmd_queue
  BY DEF CmdInd, Fine, Timed, Calm, CmdState, Current, TimerOf
<1>2. typed \in Nat /\ status \in Status
  BY DEF CmdInd, Fine, Timed, CmdState, Current
<1>3. ASSUME NEW d \in Delays, Type(d) PROVE CmdInd'
  <2> DEFINE e == [n |-> typed + 1, delay |-> QueryDelay(d), special |-> FALSE,
                   past |-> status # "command"]
  <2>1. PICK t \in AddCommand(counted, e) : Becomes(t)
    BY <1>3 DEF Type
  <2>2. QueryDelay(d) \in Nat
    BY DelaysAssumption DEF QueryDelay
  <2>3. e \in Entry /\ (counted.status = "command" \/ MayWait(e))
    <3>1. (status # "command") \in BOOLEAN /\ e.past = (status # "command")
      OBVIOUS
    <3>2. e \in Entry
      BY <1>2, <2>2, <3>1 DEF Entry
    <3>3. status = "command" \/ e.past
      BY <3>1
    <3> QED BY <1>1, <3>2, <3>3 DEF MayWait
  <2>4. Fine(t)
    BY <1>1, <2>1, <2>3, AddCommandFine
  <2> QED BY <1>3, <2>1, <2>4, BecomesFine DEF CmdInd, Type, QueueFlags
<1>4. ASSUME TypeCancel PROVE CmdInd'
  <2> DEFINE s == [StopQueue(Current) EXCEPT !.typed = typed + 1, !.ran = typed + 1]
  <2>1. PICK t \in Command(s) : Becomes(t)
    BY <1>4 DEF TypeCancel
  <2>2. Fine(StopQueue(Current))
    BY StopFine DEF CmdInd, Fine
  <2> DEFINE r == StopQueue(Current)
  <2>3. s \in CmdState /\ s.queue = r.queue /\ s.timers = r.timers /\ s.status = r.status
    <3>1. r \in CmdState
      BY <2>2 DEF Fine, Timed
    <3>2. typed + 1 \in Nat
      BY <1>2
    <3>3. s = [r EXCEPT !.typed = typed + 1, !.ran = typed + 1]
      OBVIOUS
    <3> HIDE DEF r, s
    <3> QED BY <3>1, <3>2, <3>3 DEF CmdState
  <2>4. Fine(s)
    <3>1. Fine(r)
      BY <2>2
    <3> HIDE DEF r, s
    <3>2. r.timers = TimerOf(r.queue) /\ 2 * Len(r.queue) <= QueueLength + 2
      BY <3>1 DEF Fine, Timed
    <3>3. Calm(r)
      BY <3>1 DEF Fine
    <3>4. s.timers = TimerOf(s.queue) /\ 2 * Len(s.queue) <= QueueLength + 2
      BY ONLY <3>2, <2>3
    <3>5. Calm(s)
      BY <3>3, <2>3 DEF Calm
    <3> QED BY <3>4, <3>5, <2>3 DEF Fine, Timed
  <2>5. Fine(t)
    BY <2>1, <2>4, CommandFine
  <2> QED BY <1>4, <2>1, <2>5, BecomesFine DEF CmdInd, TypeCancel, QueueFlags
<1>5. ASSUME Answer PROVE CmdInd'
  BY <1>5, SameQueue DEF CmdInd, Answer, QueueFlags
<1>6. ASSUME NextCommand PROVE CmdInd'
  <2>1. PICK i \in DOMAIN timers :
          LET s == [Current EXCEPT !.timers = RemoveAt(timers, i)]
          IN  /\ IF cmd_queue = <<>> THEN Becomes(s)
                 ELSE \E t \in RunEntry(Popped(s), cmd_queue[1]) : Becomes(t)
              /\ UNCHANGED <<linked, hasted>>
    BY <1>6 DEF NextCommand
  <2> DEFINE s == [Current EXCEPT !.timers = <<>>]
  <2>2. cmd_queue # <<>> /\ RemoveAt(timers, i) = <<>>
    BY <2>1, OneOut DEF CmdInd, Fine, Current
  <2>3. PICK t \in RunEntry(Popped(s), cmd_queue[1]) : Becomes(t)
    BY <2>1, <2>2
  <2>4. /\ s \in CmdState /\ 2 * Len(s.queue) <= QueueLength + 2 /\ Calm(s)
        /\ s.queue # <<>> /\ s.timers = <<>>
    <3>1. Current \in CmdState /\ Current.queue = cmd_queue
      BY DEF CmdInd, Fine, Timed, Current
    <3>2. s \in CmdState /\ s.queue = cmd_queue /\ s.status = Current.status /\ s.timers = <<>>
      <4>1. <<>> \in Seq(Nat)
        OBVIOUS
      <4> QED BY <3>1, <4>1 DEF CmdState
    <3>3. Calm(Current) /\ 2 * Len(Current.queue) <= QueueLength + 2
      BY DEF CmdInd, Fine, Timed
    <3> HIDE DEF s
    <3>4. Calm(s)
      BY <3>1, <3>2, <3>3 DEF Calm
    <3>5. 2 * Len(s.queue) <= QueueLength + 2
      BY <3>1, <3>2, <3>3
    <3> QED BY <2>2, <3>2, <3>4, <3>5
  <2>5. Fine(Popped(s))
    BY <2>4, PoppedFine
  <2>6. Fine(t)
    BY <2>3, <2>5, ContinueFine, CommandFine DEF RunEntry
  <2> QED BY <2>1, <2>3, <2>6, BecomesFine DEF CmdInd, QueueFlags
<1>7. ASSUME LinkLost PROVE CmdInd'
  BY <1>7, SameQueue DEF LinkLost, QueueFlags, Status, CmdInd
<1>8. ASSUME LinkBack PROVE CmdInd'
  BY <1>2, <1>8, SameQueue DEF LinkBack, QueueFlags, CmdInd
<1>9. ASSUME Haste PROVE CmdInd'
  BY <1>2, <1>9, SameQueue DEF Haste, QueueFlags, CmdInd
<1>10. ASSUME UNCHANGED cmdVars PROVE CmdInd'
  BY <1>2, <1>10, SameQueue DEF cmdVars, QueueFlags, CmdInd
<1> QED BY <1>3, <1>4, <1>5, <1>6, <1>7, <1>8, <1>9, <1>10 DEF CmdNext

LEMMA AlwaysFine == CmdSpec => []CmdInd
<1> QED BY InitFine, StepFine, PTL DEF CmdSpec

-----------------------------------------------------------------------------
\* The types, and the length of the queue: it never holds more than one command over
\* QUEUELENGTH cells, however commands are typed, continued and cancelled.
THEOREM CmdTypeCorrect == CmdSpec => []CmdTypeOK
<1>1. CmdInd => CmdTypeOK
  BY DEF CmdInd, QueueFlags, Fine, Timed, CmdTypeOK, Current
<1> QED BY <1>1, AlwaysFine, PTL

\* One call_out of next_command() is pending, with the delay of the first command, as
\* long as a command waits, and none otherwise.
THEOREM CmdOneTimer == CmdSpec => []OneTimer
<1>1. CmdInd => OneTimer
  BY DEF CmdInd, Fine, Timed, TimerOf, OneTimer, Current
<1> QED BY <1>1, AlwaysFine, PTL

\* If commands that fail ask no questions, no command typed before a question is run
\* before it is answered.
THEOREM CmdNotAskedAhead == ~AskFails /\ CmdSpec => []NotAskedAhead
<1>1. ~AskFails /\ CmdInd => NotAskedAhead
  BY DEF CmdInd, Fine, Calm, MayWait, NotAskedAhead, Current
<1>2. CASE ~AskFails
  BY <1>1, <1>2, AlwaysFine, PTL
<1>3. CASE AskFails
  BY <1>3
<1> QED BY <1>2, <1>3

-----------------------------------------------------------------------------
(* The queue implements a waiting line: each step of the one is a step of the other. *)

LEMMA NumbersOf ==
  ASSUME NEW q \in Seq(Entry), NEW e \in Entry
  PROVE  /\ Numbers(q) \in Seq(Nat) /\ Len(Numbers(q)) = Len(q)
         /\ Numbers(Append(q, e)) = Append(Numbers(q), e.n)
         /\ Numbers(<<>>) = <<>>
         /\ q # <<>> => /\ Numbers(q) # <<>> /\ Head(Numbers(q)) = q[1].n
                        /\ Numbers(Tail(q)) = Tail(Numbers(q))
<1>1. \A i \in DOMAIN q : q[i].n \in Nat
  <2>1. \A i \in DOMAIN q : q[i] \in Entry
    OBVIOUS
  <2> QED BY <2>1 DEF Entry
<1>2. Numbers(q) \in Seq(Nat) /\ Len(Numbers(q)) = Len(q) /\ DOMAIN q = 1 .. Len(q)
  BY <1>1 DEF Numbers
<1>3. Numbers(Append(q, e)) = Append(Numbers(q), e.n)
  <2> DEFINE l == Numbers(Append(q, e))
             r == Append(Numbers(q), e.n)
  <2>1. e.n \in Nat
    BY DEF Entry
  <2>2. Append(q, e) \in Seq(Entry) /\ Len(Append(q, e)) = Len(q) + 1
        /\ \A i \in 1 .. Len(q) + 1 : Append(q, e)[i] = IF i = Len(q) + 1 THEN e ELSE q[i]
    BY <1>2
  <2>3. l = [i \in 1 .. Len(q) + 1 |-> IF i = Len(q) + 1 THEN e.n ELSE q[i].n]
    BY <2>2 DEF Numbers
  <2>4. r = [i \in 1 .. Len(q) + 1 |-> IF i = Len(q) + 1 THEN e.n ELSE Numbers(q)[i]]
    BY <1>2, <2>1
  <2>5. \A i \in 1 .. Len(q) : Numbers(q)[i] = q[i].n
    BY <1>2 DEF Numbers
  <2> QED BY <1>2, <2>3, <2>4, <2>5
<1>4. Numbers(<<>>) = <<>>
  BY DEF Numbers
<1>5. ASSUME q # <<>>
      PROVE  /\ Numbers(q) # <<>> /\ Head(Numbers(q)) = q[1].n
             /\ Numbers(Tail(q)) = Tail(Numbers(q))
  <2>1. Numbers(q) # <<>> /\ Numbers(q)[1] = q[1].n
    BY <1>2, <1>5 DEF Numbers
  <2>2. Tail(q) \in Seq(Entry) /\ Len(Tail(q)) = Len(q) - 1
        /\ \A i \in 1 .. Len(q) - 1 : Tail(q)[i] = q[i + 1]
    BY <1>2, <1>5
  <2>3. Numbers(Tail(q)) = [i \in 1 .. Len(q) - 1 |-> q[i + 1].n]
    BY <2>2 DEF Numbers
  <2>4. Tail(Numbers(q)) = [i \in 1 .. Len(q) - 1 |-> Numbers(q)[i + 1]]
    <3> DEFINE m == Numbers(q)
    <3> HIDE DEF m
    <3>1. m \in Seq(Nat) /\ m # <<>> /\ Len(m) = Len(q)
      BY <1>2, <2>1 DEF m
    <3>2. Tail(m) = [i \in 1 .. Len(m) - 1 |-> m[i + 1]]
      <4> DEFINE g == [i \in 1 .. Len(m) - 1 |-> m[i + 1]]
      <4>1. Tail(m) \in Seq(Nat) /\ Len(Tail(m)) = Len(m) - 1 /\ Len(m) \in Nat
            /\ \A i \in 1 .. Len(m) - 1 : Tail(m)[i] = m[i + 1]
        BY <3>1
      <4>2. g \in Seq(Nat) /\ Len(g) = Len(m) - 1
        <5>1. Len(m) - 1 \in Nat /\ \A i \in 1 .. Len(m) - 1 : m[i + 1] \in Nat
          BY <3>1
        <5> QED BY <5>1
      <4>3. \A i \in 1 .. Len(m) - 1 : g[i] = m[i + 1]
        OBVIOUS
      <4> HIDE DEF g
      <4>4. Tail(m) = g
        BY <4>1, <4>2, <4>3, SeqEqual
      <4> QED BY <4>4 DEF g
    <3> QED BY <3>1, <3>2 DEF m
  <2>5. \A i \in 1 .. Len(q) - 1 : Numbers(q)[i + 1] = q[i + 1].n
    BY <1>2 DEF Numbers
  <2> QED BY <2>1, <2>3, <2>4, <2>5
<1> QED BY <1>2, <1>3, <1>4, <1>5

\* What a command may do to those who wait behind it.
Departs(s, t) ==
  /\ t.ran = s.ran
  /\ \/ t.queue = s.queue /\ t.typed \in {s.typed, s.typed + 1}
     \/ /\ \E e \in Entry : e.n = s.typed + 1 /\ t.queue = Append(s.queue, e)
        /\ t.typed = s.typed + 1 /\ 2 * Len(s.queue) <= QueueLength
     \/ t.queue = <<>> /\ t.typed \in {s.typed, s.typed + 1}

LEMMA ContinueDeparts ==
  ASSUME NEW s, Timed(s)
  PROVE  /\ Departs(s, Continue(s)) 
         /\ Continue(s).status = s.status
<1> DEFINE e == [n |-> s.typed + 1, delay |-> 1, special |-> TRUE, past |-> FALSE]
<1>1. s \in CmdState /\ s.queue \in Seq(Entry) /\ s.typed \in Nat /\ e \in Entry /\ e.n = s.typed + 1
  BY DEF Timed, CmdState, Entry
<1>2. CASE s.typed >= MaxTyped
  BY <1>1, <1>2 DEF Continue, Departs
<1>3. CASE ~(s.typed >= MaxTyped) /\ s.queue = <<>>
  <2>1. <<e>> = Append(s.queue, e) /\ 2 * Len(s.queue) <= QueueLength
    BY <1>3, QueueLengthAssumption
  <2>2. Continue(s).queue = <<e>> /\ Continue(s).typed = s.typed + 1 /\ Continue(s).ran = s.ran
        /\ Continue(s).status = s.status
    BY <1>1, <1>3 DEF Continue, Enqueue, FirstIn, CmdState
  <2> QED BY <1>1, <2>1, <2>2 DEF Departs
<1>4. CASE ~(s.typed >= MaxTyped) /\ s.queue # <<>>
  <2>1. CASE 2 * Len(s.queue) > QueueLength
    BY <1>1, <1>4, <2>1 DEF Continue, Enqueue, Behind, CmdState, Departs
  <2>2. CASE ~(2 * Len(s.queue) > QueueLength)
    <3>1. Continue(s).queue = Append(s.queue, e) /\ Continue(s).typed = s.typed + 1
          /\ Continue(s).ran = s.ran /\ Continue(s).status = s.status
      BY <1>1, <1>4, <2>2 DEF Continue, Enqueue, Behind, CmdState
    <3>2. 2 * Len(s.queue) <= QueueLength
      BY <1>1, <2>2, QueueLengthAssumption
    <3> QED BY <1>1, <3>1, <3>2 DEF Departs
  <2> QED BY <2>1, <2>2
<1> QED BY <1>2, <1>3, <1>4

LEMMA CommandDeparts ==
  ASSUME NEW s, Timed(s), NEW t \in Command(s)
  PROVE  Departs(s, t)
<1>1. \A u \in Asked(s) : Timed(u) /\ u.queue = s.queue /\ u.typed = s.typed /\ u.ran = s.ran
  BY DEF Asked, Timed, CmdState, TimerOf, Status
<1>2. \A u \in Acted(s) : Departs(s, u)
  <2>1. \A u \in Asked(s) : Departs(s, u)
    BY <1>1 DEF Departs, Timed, CmdState
  <2>2. \A u \in Asked(s) : Departs(s, Continue(u))
    <3> SUFFICES ASSUME NEW u \in Asked(s) PROVE Departs(s, Continue(u))
      OBVIOUS
    <3>1. Departs(u, Continue(u))
      BY <1>1, ContinueDeparts
    <3>2. u.queue = s.queue /\ u.typed = s.typed /\ u.ran = s.ran
      BY <1>1
    <3> QED BY <3>1, <3>2 DEF Departs
  <2> QED BY <2>1, <2>2 DEF Acted
<1>3. Departs(s, s)
  BY DEF Departs, Timed, CmdState
<1>4. ASSUME NEW u \in Acted(s) PROVE Departs(s, Prompted(u))
  <2>1. Timed(u) /\ Departs(s, u)
    BY <1>2, <1>4, ActedTimed
  <2>2. Prompted(u).typed = u.typed /\ Prompted(u).ran = u.ran
    BY <2>1 DEF Prompted, StopQueue, Timed, CmdState
  <2>3. Prompted(u).queue \in {u.queue, <<>>}
    BY <2>1, StopFine DEF Prompted
  <2> HIDE DEF Prompted
  <2>4. u.typed \in {s.typed, s.typed + 1} /\ u.ran = s.ran
    BY <2>1 DEF Departs
  <2>5. CASE Prompted(u).queue = u.queue
    BY <2>1, <2>2, <2>5 DEF Departs
  <2>6. CASE Prompted(u).queue = <<>>
    BY <2>2, <2>4, <2>6 DEF Departs
  <2> QED BY <2>3, <2>5, <2>6
<1> QED BY <1>2, <1>3, <1>4 DEF Command

\* What Departs(s, t) is to the line.
LEMMA DepartsRest ==
  ASSUME NEW s, Timed(s), NEW t, Departs(s, t)
  PROVE  \/ Numbers(t.queue) = Numbers(s.queue) /\ t.typed \in {s.typed, s.typed + 1}
         \/ /\ Numbers(t.queue) = Append(Numbers(s.queue), s.typed + 1) /\ t.typed = s.typed + 1
            /\ Len(Numbers(s.queue)) < QueueLength \div 2 + 1
         \/ Numbers(t.queue) = <<>> /\ t.typed \in {s.typed, s.typed + 1}
<1>1. s.queue \in Seq(Entry)
  BY DEF Timed, CmdState
<1>2. ASSUME NEW e \in Entry, e.n = s.typed + 1, t.queue = Append(s.queue, e),
             2 * Len(s.queue) <= QueueLength
      PROVE  /\ Numbers(t.queue) = Append(Numbers(s.queue), s.typed + 1)
             /\ Len(Numbers(s.queue)) < QueueLength \div 2 + 1
  <2>1. Len(Numbers(s.queue)) = Len(s.queue) /\ Len(s.queue) \in Nat
    BY <1>1, <1>2, NumbersOf
  <2> QED BY <1>1, <1>2, <2>1, NumbersOf, QueueLengthAssumption
<1>3. Numbers(<<>>) = <<>>
  BY DEF Numbers
<1> QED BY <1>2, <1>3 DEF Departs

\* The numbers of the next state are those of the state that the step makes.
LEMMA BecomesLine ==
  ASSUME NEW s, Becomes(s)
  PROVE  Numbers(cmd_queue)' = Numbers(s.queue) /\ ran' = s.ran /\ typed' = s.typed
<1> QED BY DEF Becomes, Numbers

LEMMA StepLine == CmdInd /\ [CmdNext]_cmdVars => [Line!LineNext]_(Line!lineVars)
<1> SUFFICES ASSUME CmdInd, [CmdNext]_cmdVars PROVE [Line!LineNext]_(Line!lineVars)
  OBVIOUS
<1> DEFINE counted == [Current EXCEPT !.typed = @ + 1]
           line == Numbers(cmd_queue)
<1>1. Timed(counted) /\ counted.queue = cmd_queue /\ counted.typed = typed + 1 /\ counted.ran = ran
      /\ cmd_queue \in Seq(Entry) /\ typed \in Nat /\ Timed(Current)
  BY DEF CmdInd, Fine, Timed, CmdState, Current, TimerOf
<1>2. Numbers(<<>>) = <<>>
  BY DEF Numbers
<1>3. ASSUME NEW d \in Delays, Type(d) PROVE Line!LineNext
  <2> DEFINE e == [n |-> typed + 1, delay |-> QueryDelay(d), special |-> FALSE,
                   past |-> status # "command"]
  <2>1. PICK t \in AddCommand(counted, e) : Becomes(t)
    BY <1>3 DEF Type
  <2>2. e \in Entry /\ e.n = typed + 1
    <3>1. (status # "command") \in BOOLEAN /\ QueryDelay(d) \in Nat
      BY DelaysAssumption DEF QueryDelay
    <3> QED BY <1>1, <3>1 DEF Entry
  <2>3. line' = Numbers(t.queue) /\ ran' = t.ran /\ typed' = t.typed
    BY <2>1, BecomesLine
  <2>4. CASE cmd_queue = <<>> /\ e.delay < 1
    <3> DEFINE r == [counted EXCEPT !.ran = e.n]
    <3>1. t \in Command(r)
      BY <1>1, <2>1, <2>4 DEF AddCommand
    <3>2. Timed(r) /\ r.queue = <<>> /\ r.typed = typed + 1 /\ r.ran = typed + 1
      BY <1>1, <2>2, <2>4 DEF Timed, CmdState
    <3>3. Departs(r, t)
      BY <3>1, <3>2, CommandDeparts
    <3> HIDE DEF r
    <3>4. Append(<<>>, r.typed + 1) = <<typed + 2>>
      BY <1>1, <3>2
    <3>5. Numbers(t.queue) \in {<<>>, <<typed + 2>>} /\ t.typed \in {typed + 1, typed + 2} /\ t.ran = typed + 1
      <4>1. Numbers(r.queue) = <<>> /\ t.ran = r.ran
        BY <1>2, <3>2, <3>3 DEF Departs
      <4>2. r.typed + 1 = typed + 2
        BY <1>1, <3>2
      <4>3. \/ Numbers(t.queue) = Numbers(r.queue) /\ t.typed \in {r.typed, r.typed + 1}
            \/ Numbers(t.queue) = Append(Numbers(r.queue), r.typed + 1) /\ t.typed = r.typed + 1
            \/ Numbers(t.queue) = <<>> /\ t.typed \in {r.typed, r.typed + 1}
        BY <3>2, <3>3, DepartsRest
      <4> HIDE DEF counted, line, e
      <4> QED BY ONLY <3>2, <3>4, <4>1, <4>2, <4>3
    <3>6. Line!Direct
      BY <1>2, <2>3, <2>4, <3>5 DEF Line!Direct
    <3> QED BY <3>6 DEF Line!LineNext
  <2>5. CASE ~(cmd_queue = <<>> /\ e.delay < 1)
    <3>1. t = Enqueue(counted, e)
      BY <1>1, <2>1, <2>5 DEF AddCommand, Enqueue
    <3>2. t.typed = typed + 1 /\ t.ran = ran
      BY <1>1, <3>1 DEF Enqueue, FirstIn, Behind, Timed, CmdState
    <3>3. t.queue = cmd_queue \/ (t.queue = Append(cmd_queue, e) /\ 2 * Len(cmd_queue) <= QueueLength)
      <4>1. CASE cmd_queue = <<>>
        <5>1. t.queue = <<e>>
          BY <1>1, <3>1, <4>1 DEF Enqueue, FirstIn, Timed, CmdState
        <5>2. <<e>> = Append(cmd_queue, e) /\ 2 * Len(cmd_queue) <= QueueLength
          BY <4>1, QueueLengthAssumption
        <5> QED BY <5>1, <5>2
      <4>2. CASE cmd_queue # <<>>
        BY <1>1, <3>1, <4>2, QueueLengthAssumption DEF Enqueue, Behind, Timed, CmdState
      <4> QED BY <4>1, <4>2
    <3> HIDE DEF counted, e
    <3>4. Len(line) = Len(cmd_queue) /\ Len(line) \in Nat /\ Numbers(Append(cmd_queue, e)) = Append(line, typed + 1)
      <4>1. cmd_queue \in Seq(Entry) /\ e \in Entry /\ e.n = typed + 1 /\ Len(cmd_queue) \in Nat
        BY <1>1, <2>2
      <4> QED BY ONLY <4>1, NumbersOf
    <3>5. line' = line \/ (line' = Append(line, typed + 1) /\ Len(line) < QueueLength \div 2 + 1)
      <4>1. CASE t.queue = cmd_queue
        BY <2>3, <4>1
      <4>2. CASE t.queue = Append(cmd_queue, e) /\ 2 * Len(cmd_queue) <= QueueLength
        <5>1. line' = Append(line, typed + 1)
          BY <2>3, <3>4, <4>2
        <5>2. Len(line) < QueueLength \div 2 + 1
          BY <3>4, <4>2, QueueLengthAssumption
        <5> QED BY <5>1, <5>2
      <4> QED BY <3>3, <4>1, <4>2
    <3>6. Line!Join
      BY <2>3, <3>2, <3>5 DEF Line!Join
    <3> QED BY <3>6 DEF Line!LineNext
  <2> QED BY <2>4, <2>5
<1>4. ASSUME TypeCancel PROVE Line!LineNext
  <2> DEFINE s == [StopQueue(Current) EXCEPT !.typed = typed + 1, !.ran = typed + 1]
             r == StopQueue(Current)
  <2>1. PICK t \in Command(s) : Becomes(t)
    BY <1>4 DEF TypeCancel
  <2>2. Timed(r) /\ r.queue = <<>>
    BY <1>1, StopFine DEF Fine
  <2>3. Timed(s) /\ s.queue = <<>> /\ s.typed = typed + 1 /\ s.ran = typed + 1
    <3>1. s = [r EXCEPT !.typed = typed + 1, !.ran = typed + 1] /\ typed + 1 \in Nat
      BY <1>1
    <3> HIDE DEF s, r
    <3> QED BY <2>2, <3>1 DEF Timed, CmdState
  <2>4. Departs(s, t)
    BY <2>1, <2>3, CommandDeparts
  <2> HIDE DEF s, r
  <2>5. Append(<<>>, s.typed + 1) = <<typed + 2>>
    BY <1>1, <2>3
  <2>6. Numbers(t.queue) \in {<<>>, <<typed + 2>>} /\ t.typed \in {typed + 1, typed + 2} /\ t.ran = typed + 1
    <3>1. Numbers(s.queue) = <<>> /\ t.ran = s.ran
      BY <1>2, <2>3, <2>4 DEF Departs
    <3>2. s.typed + 1 = typed + 2
      BY <1>1, <2>3
    <3>3. \/ Numbers(t.queue) = Numbers(s.queue) /\ t.typed \in {s.typed, s.typed + 1}
          \/ Numbers(t.queue) = Append(Numbers(s.queue), s.typed + 1) /\ t.typed = s.typed + 1
          \/ Numbers(t.queue) = <<>> /\ t.typed \in {s.typed, s.typed + 1}
      BY <2>3, <2>4, DepartsRest
    <3> QED BY ONLY <2>3, <2>5, <3>1, <3>2, <3>3
  <2>7. Line!Clear
    BY <2>1, <2>6, BecomesLine DEF Line!Clear
  <2> QED BY <2>7 DEF Line!LineNext
<1>5. ASSUME NextCommand PROVE Line!LineNext
  <2>1. PICK i \in DOMAIN timers :
          LET s == [Current EXCEPT !.timers = RemoveAt(timers, i)]
          IN  /\ IF cmd_queue = <<>> THEN Becomes(s)
                 ELSE \E t \in RunEntry(Popped(s), cmd_queue[1]) : Becomes(t)
              /\ UNCHANGED <<linked, hasted>>
    BY <1>5 DEF NextCommand
  <2> DEFINE s == [Current EXCEPT !.timers = <<>>]
             p == Popped(s)
  <2>2. cmd_queue # <<>> /\ RemoveAt(timers, i) = <<>>
    BY <2>1, OneOut DEF CmdInd, Fine, Current
  <2>3. PICK t \in RunEntry(p, cmd_queue[1]) : Becomes(t)
    BY <2>1, <2>2
  <2>4. s \in CmdState /\ s.queue = cmd_queue /\ s.status = status /\ s.timers = <<>> /\ s.typed = typed
    <3>1. <<>> \in Seq(Nat) /\ Current \in CmdState
      BY <1>1 DEF Timed
    <3> QED BY <3>1 DEF CmdState, Current
  <2>5. Timed(p)
    <3>1. Calm(s) /\ 2 * Len(s.queue) <= QueueLength + 2
      BY <2>4 DEF CmdInd, Fine, Timed, Calm, Current
    <3> HIDE DEF s
    <3> QED BY <2>2, <2>4, <3>1, PoppedFine DEF Fine
  <2>6. p.queue = Tail(cmd_queue) /\ p.typed = typed /\ p.ran = cmd_queue[1].n
    <3> HIDE DEF s
    <3> QED BY <2>4 DEF Popped, CmdState
  <2>7. Departs(p, t)
    <3>1. Departs(p, p)
      BY <2>5 DEF Departs, Timed, CmdState
    <3> HIDE DEF p
    <3> QED BY <2>3, <2>5, <3>1, ContinueDeparts, CommandDeparts DEF RunEntry
  <2> HIDE DEF p, s
  <2>8. cmd_queue[1] \in Entry
    BY <1>1, <2>2
  <2>9. line # <<>> /\ Head(line) = cmd_queue[1].n /\ Numbers(p.queue) = Tail(line)
    BY <1>1, <2>2, <2>6, <2>8, NumbersOf
  <2>10. ran' = Head(line) /\ line' = Numbers(t.queue) /\ typed' = t.typed
    BY <2>3, <2>6, <2>7, <2>9, BecomesLine DEF Departs
  <2>11. Line!Rest(Tail(line))
    BY <2>5, <2>6, <2>7, <2>9, <2>10, DepartsRest DEF Line!Rest
  <2> QED BY <2>9, <2>10, <2>11 DEF Line!LineNext, Line!Serve
<1>6. ASSUME UNCHANGED <<cmd_queue, typed, ran>> PROVE UNCHANGED Line!lineVars
  BY <1>6 DEF Line!lineVars, Numbers
<1> QED BY <1>3, <1>4, <1>5, <1>6 DEF CmdNext, cmdVars, Answer, LinkLost, LinkBack, Haste

\* Without its liveness ImplementsLine, for any delays and any length of the queue:
\* commands run in the order they were let in, none twice and none that was not let in.
THEOREM CmdInOrder == CmdSpec => Line!LineInit /\ [][Line!LineNext]_(Line!lineVars)
<1>1. CmdInit => Line!LineInit
  BY DEF CmdInit, Line!LineInit, Numbers
<1> QED BY <1>1, StepLine, AlwaysFine, PTL DEF CmdSpec

(***************************************************************************)
(* Proofs about FindWay, for a room of any size and whatever blocks in it. *)
(*                                                                         *)
(* The edges ascend, so every place is in one field and the middles of     *)
(* neighbours are no farther apart than their halves (ReachAtMost).  The   *)
(* search keeps that each distance comes from the target or from a field   *)
(* beside (Founded), and that only fields on the lists may lower those     *)
(* around them (Eased): when the lists are empty, no distance can fall.    *)
(* The walk changes the distance of the npc's own field only, and gets     *)
(* stuck only where half a field is 0.                                     *)
(***************************************************************************)

\* Of two numbers one is the greatest.
LEMMA MaxOfTwo ==
  ASSUME NEW a \in Int, NEW b \in Int
  PROVE  Max({a, b}) = IF a >= b THEN a ELSE b
<1>1. CASE a >= b
  <2>1. a \in {a, b} /\ \A y \in {a, b} : a >= y
    BY <1>1
  <2>2. \A x \in {a, b} : (\A y \in {a, b} : x >= y) => x = a
    BY <1>1
  <2>3. Max({a, b}) = a
    BY <2>1, <2>2 DEF Max
  <2> QED BY <1>1, <2>3
<1>2. CASE ~(a >= b)
  <2>1. b \in {a, b} /\ \A y \in {a, b} : b >= y
    BY <1>2
  <2>2. \A x \in {a, b} : (\A y \in {a, b} : x >= y) => x = b
    BY <1>2
  <2>3. Max({a, b}) = b
    BY <2>1, <2>2 DEF Max
  <2> QED BY <1>2, <2>3
<1> QED BY <1>1, <1>2

\* How far two numbers are apart.
LEMMA FarIs ==
  ASSUME NEW a \in Int, NEW b \in Int
  PROVE  Far(a, b) = IF a >= b THEN a - b ELSE b - a
<1>1. a - b \in Int /\ b - a \in Int
  OBVIOUS
<1>2. Max({a - b, b - a}) = IF a - b >= b - a THEN a - b ELSE b - a
  BY <1>1, MaxOfTwo
<1> QED BY <1>2 DEF Far

\* The least of some numbers.
LEMMA MinIs ==
  ASSUME NEW S \in SUBSET Int, NEW a \in S, \A b \in S : a <= b
  PROVE  Min(S) = a
<1>1. \A x \in S : (\A y \in S : x =< y) => x = a
  OBVIOUS
<1> QED BY <1>1 DEF Min

\* Something of some has the least value.
LEMMA LeastValue ==
  ASSUME NEW S, IsFiniteSet(S), S # {}, NEW v, \A x \in S : v[x] \in Int
  PROVE  \E x \in S : \A y \in S : v[x] <= v[y]
<1> DEFINE A == {U \in SUBSET S : U # {} => \E x \in U : \A y \in U : v[x] <= v[y]}
<1>1. Shrinks(S, A)
  <2> SUFFICES ASSUME NEW W \in SUBSET S, \A U \in SUBSET W : U # W => U \in A, W # {}
               PROVE  \E x \in W : \A y \in W : v[x] <= v[y]
    BY DEF Shrinks
  <2>1. PICK z \in W : TRUE
    OBVIOUS
  <2>2. CASE W = {z}
    <3>1. v[z] <= v[z]
      BY <2>1
    <3> QED BY <2>2, <3>1
  <2>3. CASE W # {z}
    <3>1. W \ {z} \in A /\ W \ {z} # {}
      BY <2>1, <2>3
    <3>2. PICK x \in W \ {z} : \A y \in W \ {z} : v[x] <= v[y]
      BY <3>1
    <3> DEFINE p == v[x]
               q == v[z]
    <3>3. p \in Int /\ q \in Int
      BY <2>1, <3>2
    <3>4. CASE p <= q
      BY <3>2, <3>4
    <3>5. CASE q <= p
      <4>1. \A y \in W \ {z} : v[y] \in Int /\ p <= v[y]
        BY <3>2
      <4> HIDE DEF p
      <4>2. \A y \in W \ {z} : q <= v[y]
        BY <3>3, <3>5, <4>1
      <4>3. q <= v[z]
        BY <3>3
      <4> QED BY <2>1, <4>2, <4>3
    <3>6. p <= q \/ q <= p
      BY <3>3
    <3> QED BY <3>4, <3>5, <3>6
  <2> QED BY <2>2, <2>3
<1> HIDE DEF A
<1>2. S \in A
  BY <1>1, AllShrunk
<1> QED BY <1>2 DEF A

-----------------------------------------------------------------------------
\* Numbers in ascending order.
Ascending(s) == \A i, j \in 1 .. Len(s) : i < j => s[i] < s[j]

\* Numbers in ascending order: each of them, once.
LEMMA SortedIs ==
  ASSUME NEW S \in SUBSET Int, IsFiniteSet(S)
  PROVE  /\ Sorted(S) \in Seq(S) /\ Ascending(Sorted(S))
         /\ \A a \in S : \E i \in 1 .. Len(Sorted(S)) : Sorted(S)[i] = a
<1> DEFINE n == Cardinality(S)
           L(a) == {b \in S : b < a}
           R == [a \in S |-> Cardinality(L(a))]
           T == 0 .. n - 1
<1>0. \A a, b \in S : a \in Int /\ (a < b \/ b < a \/ a = b)
  OBVIOUS
<1>1. n \in Nat
  BY FS_CardinalityType
<1>2. ASSUME NEW a \in S PROVE IsFiniteSet(L(a)) /\ Cardinality(L(a)) \in T
  <2>1. L(a) \in SUBSET S /\ a \notin L(a)
    OBVIOUS
  <2>2. IsFiniteSet(L(a)) /\ Cardinality(L(a)) <= n /\ (n = Cardinality(L(a)) => S = L(a))
    BY <2>1, FS_Subset
  <2>3. Cardinality(L(a)) \in Nat
    BY <2>2, FS_CardinalityType
  <2> QED BY <1>1, <2>1, <2>2, <2>3
<1>3. ASSUME NEW a \in S, NEW b \in S, a < b PROVE Cardinality(L(a)) < Cardinality(L(b))
  <2>1. L(a) \in SUBSET L(b) /\ a \in L(b) /\ a \notin L(a)
    <3>1. \A x \in S : x < a => x < b
      BY <1>0, <1>3
    <3>2. ~(a < a)
      BY <1>0
    <3> QED BY <1>3, <3>1, <3>2
  <2>2. Cardinality(L(a)) <= Cardinality(L(b)) /\ (Cardinality(L(b)) = Cardinality(L(a)) => L(b) = L(a))
    BY <1>2, <2>1, FS_Subset
  <2>3. Cardinality(L(a)) \in Nat /\ Cardinality(L(b)) \in Nat
    BY <1>2, FS_CardinalityType
  <2> QED BY <2>1, <2>2, <2>3
<1>4. R \in Injection(S, T)
  <2>1. R \in [S -> T]
    BY <1>2
  <2>2. ASSUME NEW a \in S, NEW b \in S, R[a] = R[b] PROVE a = b
    <3>1. R[a] = Cardinality(L(a)) /\ R[b] = Cardinality(L(b))
      OBVIOUS
    <3>2. Cardinality(L(a)) \in Int /\ Cardinality(L(b)) \in Int
      BY <1>2
    <3>3. a < b \/ b < a \/ a = b
      BY <1>0
    <3>4. Cardinality(L(a)) = Cardinality(L(b))
      BY <2>2, <3>1
    <3> HIDE DEF L, R
    <3>5. ~(Cardinality(L(a)) < Cardinality(L(b))) /\ ~(Cardinality(L(b)) < Cardinality(L(a)))
      BY <3>2, <3>4
    <3> QED BY <1>3, <3>3, <3>5
  <2> HIDE DEF R, T
  <2> QED BY <2>1, <2>2 DEF Injection, IsInjective
<1>5. IsFiniteSet(T) /\ Cardinality(T) = n
  <2>1. IsFiniteSet(0 .. n - 1) /\ Cardinality(0 .. n - 1) = IF 0 > n - 1 THEN 0 ELSE n - 1 - 0 + 1
    BY <1>1, FS_Interval
  <2> QED BY <1>1, <2>1
<1>6. R \in Surjection(S, T)
  <2> HIDE DEF R, T
  <2> QED BY <1>4, <1>5, FS_Injection
<1>7. \A r \in T : \E a \in S : Cardinality(L(a)) = r
  <2>1. \A r \in T : \E a \in S : R[a] = r
    <3> HIDE DEF R, T
    <3> QED BY <1>6 DEF Surjection
  <2> QED BY <2>1
<1>8. \A i \in 1 .. n : Sorted(S)[i] \in S /\ Cardinality(L(Sorted(S)[i])) = i - 1
  <2> SUFFICES ASSUME NEW i \in 1 .. n PROVE Sorted(S)[i] \in S /\ Cardinality(L(Sorted(S)[i])) = i - 1
    OBVIOUS
  <2>1. i - 1 \in T
    BY <1>1
  <2>2. \E a \in S : Cardinality(L(a)) = i - 1
    BY <1>7, <2>1
  <2>3. Sorted(S)[i] = CHOOSE a \in S : Cardinality(L(a)) = i - 1
    BY DEF Sorted
  <2> HIDE DEF L, n
  <2> QED BY <2>2, <2>3
<1>9. DOMAIN Sorted(S) = 1 .. n /\ Sorted(S) \in [1 .. n -> S] /\ Len(Sorted(S)) = n
  <2>1. Sorted(S) = [i \in 1 .. n |-> Sorted(S)[i]]
    <3> DEFINE G(i) == CHOOSE a \in S : Cardinality(L(a)) = i - 1
    <3>1. Sorted(S) = [i \in 1 .. n |-> G(i)]
      BY DEF Sorted
    <3> HIDE DEF G, n
    <3> QED BY <3>1
  <2>2. Sorted(S) \in [1 .. n -> S]
    <3> HIDE DEF n
    <3> QED BY <1>8, <2>1
  <2> HIDE DEF n
  <2> QED BY <1>1, <2>2
<1> DEFINE s == Sorted(S)
<1> HIDE DEF s
<1>10. \A i, j \in 1 .. n : i < j => s[i] < s[j]
  <2> SUFFICES ASSUME NEW i \in 1 .. n, NEW j \in 1 .. n, i < j, ~(s[i] < s[j]) PROVE FALSE
    OBVIOUS
  <2>1. s[i] \in S /\ s[j] \in S /\ Cardinality(L(s[i])) = i - 1 /\ Cardinality(L(s[j])) = j - 1
    BY <1>8 DEF s
  <2>2. s[j] < s[i] \/ s[j] = s[i]
    BY <1>0, <2>1
  <2> DEFINE p == s[i]
             q == s[j]
  <2> HIDE DEF L, n
  <2>3. Cardinality(L(q)) < Cardinality(L(p)) \/ q = p
    BY <1>3, <2>1, <2>2
  <2>4. Cardinality(L(q)) = j - 1 /\ Cardinality(L(p)) = i - 1
    BY <2>1
  <2> HIDE DEF p, q
  <2> QED BY <1>1, <2>3, <2>4
<1>11. \A a \in S : \E i \in 1 .. n : s[i] = a
  <2> SUFFICES ASSUME NEW a \in S PROVE \E i \in 1 .. n : s[i] = a
    OBVIOUS
  <2>1. Cardinality(L(a)) \in T
    BY <1>2
  <2> DEFINE i == Cardinality(L(a)) + 1
  <2>2. i \in 1 .. n /\ i - 1 = Cardinality(L(a))
    BY <1>1, <2>1
  <2>3. s[i] \in S /\ Cardinality(L(s[i])) = i - 1
    BY <1>8, <2>2 DEF s
  <2>4. s[i] < a \/ a < s[i] \/ s[i] = a
    BY <1>0, <2>3
  <2>5. Cardinality(L(s[i])) = Cardinality(L(a)) /\ Cardinality(L(a)) \in Int
    BY <2>1, <2>2, <2>3
  <2> DEFINE p == s[i]
  <2> HIDE DEF L, n, i
  <2>6. s[i] = a
    <3>1. p \in S /\ Cardinality(L(p)) = Cardinality(L(a)) /\ Cardinality(L(a)) \in Int
      BY <2>3, <2>5
    <3>2. p < a \/ a < p \/ p = a
      BY <2>4
    <3> HIDE DEF p
    <3>3. ~(Cardinality(L(p)) < Cardinality(L(a))) /\ ~(Cardinality(L(a)) < Cardinality(L(p)))
      BY <3>1
    <3>4. p = a
      BY <1>3, <3>1, <3>2, <3>3
    <3> QED BY <3>4 DEF p
  <2> QED BY <2>2, <2>6
<1> QED BY <1>9, <1>10, <1>11 DEF s, Ascending

-----------------------------------------------------------------------------
\* The npc and its target are somewhere in a room where something may block.
Placed ==
  /\ blockers \in BlockSets /\ me_co \in Spots /\ ob_co \in Spots
  /\ edges = <<EdgesOf(blockers, 1), EdgesOf(blockers, 2)>>

\* The edges ascend, and those of the room are among them.
Meshed ==
  \A d \in 1 .. 2 :
    /\ edges[d] \in Seq(Int) /\ Ascending(edges[d])
    /\ \E i \in 1 .. Len(edges[d]) : edges[d][i] = 0
    /\ \E i \in 1 .. Len(edges[d]) : edges[d][i] = RoomSize[d]

\* The edges of a room with what blocks in it ascend from its one side to the other.
LEMMA PlacedMeshed ==
  ASSUME Placed
  PROVE  Meshed
<1> SUFFICES ASSUME NEW d \in 1 .. 2
             PROVE  /\ edges[d] \in Seq(Int) /\ Ascending(edges[d])
                    /\ \E i \in 1 .. Len(edges[d]) : edges[d][i] = 0
                    /\ \E i \in 1 .. Len(edges[d]) : edges[d][i] = RoomSize[d]
  BY DEF Meshed
<1> DEFINE B == blockers
           P == {b.co[d] : b \in B}
           Q == {b.co[d] + b.range[d] : b \in B}
           S == {0, RoomSize[d]} \cup P \cup Q
<1>1. IsFiniteSet(B) /\ \A b \in B : b.co \in [1 .. 2 -> Int] /\ b.range \in [1 .. 2 -> Nat]
  BY WayAssumption DEF Placed
<1>2. RoomSize[d] \in Nat
  BY WayAssumption
<1>3. \A b \in B : b.co[d] \in Int /\ b.co[d] + b.range[d] \in Int
  BY <1>1
<1>4. IsFiniteSet(P)
  <2> DEFINE f == [b \in B |-> b.co[d]]
  <2>1. f \in Surjection(B, P)
    BY DEF Surjection
  <2> HIDE DEF f, P
  <2> QED BY <1>1, <2>1, FS_Surjection
<1>5. IsFiniteSet(Q)
  <2> DEFINE f == [b \in B |-> b.co[d] + b.range[d]]
  <2>1. f \in Surjection(B, Q)
    BY DEF Surjection
  <2> HIDE DEF f, Q
  <2> QED BY <1>1, <2>1, FS_Surjection
<1>6. S \in SUBSET Int /\ 0 \in S /\ RoomSize[d] \in S
  <2>1. P \subseteq Int /\ Q \subseteq Int
    BY <1>3
  <2> HIDE DEF P, Q
  <2>2. {0, RoomSize[d]} \subseteq Int
    BY <1>2
  <2> QED BY <2>1, <2>2
<1>7. IsFiniteSet(S)
  <2>1. IsFiniteSet({0}) /\ IsFiniteSet({0} \cup {RoomSize[d]})
    BY FS_Singleton, FS_AddElement
  <2>2. {0} \cup {RoomSize[d]} = {0, RoomSize[d]}
    OBVIOUS
  <2>3. IsFiniteSet({0, RoomSize[d]})
    BY <2>1, <2>2, Zenon
  <2> HIDE DEF P, Q
  <2>4. IsFiniteSet({0, RoomSize[d]} \cup P)
    BY <1>4, <2>3, FS_Union
  <2> QED BY <1>5, <2>4, FS_Union
<1>8. edges[d] = Sorted(S)
  <2>1. edges[d] = EdgesOf(B, d)
    BY DEF Placed
  <2> QED BY <2>1 DEF EdgesOf
<1> HIDE DEF S
<1>9. /\ Sorted(S) \in Seq(S) /\ Ascending(Sorted(S))
      /\ \A a \in S : \E i \in 1 .. Len(Sorted(S)) : Sorted(S)[i] = a
  BY <1>6, <1>7, SortedIs
<1>10. Sorted(S) \in Seq(Int)
  BY <1>6, <1>9, SeqMonotonic
<1> QED BY <1>6, <1>8, <1>9, <1>10

-----------------------------------------------------------------------------
\* How a place lies to the edges of its field.
InField(p, f) ==
  \A d \in 1 .. 2 :
    /\ edges[d][f[d]] <= p[d] /\ p[d] < edges[d][f[d] + 1]
    /\ edges[d][f[d] + 1] - edges[d][f[d]] <= RoomSize[d]

\* A field has both its edges.
LEMMA FieldsAre ==
  ASSUME Meshed, NEW f \in Fields(edges), NEW d \in 1 .. 2
  PROVE  /\ f[d] \in 1 .. Len(edges[d]) - 1 /\ f[d] \in 1 .. Len(edges[d]) /\ f[d] + 1 \in 1 .. Len(edges[d])
         /\ edges[d][f[d]] \in Int /\ edges[d][f[d] + 1] \in Int /\ Len(edges[d]) \in Nat
<1>1. f[d] \in 1 .. Len(edges[d]) - 1
  BY DEF Fields
<1>2. edges[d] \in Seq(Int)
  BY DEF Meshed
<1> QED BY <1>1, <1>2

\* Every place in the room is in the field it is said to be in.
LEMMA FieldOfIs ==
  ASSUME Meshed, NEW p \in Spots
  PROVE  FieldOf(edges, p) \in Fields(edges) /\ InField(p, FieldOf(edges, p))
<1> DEFINE F == FieldOf(edges, p)
<1>1. ASSUME NEW d \in 1 .. 2
      PROVE  /\ F[d] \in 1 .. Len(edges[d]) - 1
             /\ edges[d][F[d]] <= p[d] /\ p[d] < edges[d][F[d] + 1]
             /\ edges[d][F[d] + 1] - edges[d][F[d]] <= RoomSize[d]
  <2> DEFINE s == edges[d]
             q == p[d]
             r == RoomSize[d]
             n == Len(edges[d])
             T == {i \in 1 .. n - 1 : s[i] <= q \/ i = 1}
             m == Max(T)
  <2>1. q \in 0 .. r - 1 /\ r \in Nat
    BY WayAssumption
  <2>2. s \in Seq(Int) /\ n \in Nat /\ \A i \in 1 .. n : s[i] \in Int
    <3>1. s \in Seq(Int)
      BY DEF Meshed
    <3> HIDE DEF s
    <3>2. Len(s) \in Nat /\ \A i \in 1 .. Len(s) : s[i] \in Int
      BY <3>1
    <3> QED BY <3>1, <3>2 DEF s
  <2>3. \A i, j \in 1 .. n : i < j => s[i] < s[j]
    BY DEF Meshed, Ascending
  <2>4. PICK i \in 1 .. n : s[i] = 0
    BY DEF Meshed
  <2>5. PICK j \in 1 .. n : s[j] = r
    BY DEF Meshed
  <2>6. F[d] = m
    BY DEF FieldOf
  <2> HIDE DEF s, q, r, n, F, T
  <2>7. i < j /\ i \in 1 .. n - 1
    <3>1. ~(j < i) /\ i # j
      BY <2>1, <2>3, <2>4, <2>5
    <3> QED BY <2>2, <3>1
  <2>8. i \in T /\ T \in SUBSET (1 .. n - 1) /\ n - 1 \in Nat
    BY <2>1, <2>4, <2>7, <2>2 DEF T
  <2>9. m \in T /\ \A y \in T : y <= m
    <3>1. T # {}
      BY <2>8
    <3> QED BY <2>8, <3>1, LastOf
  <2> HIDE DEF m
  <2>10. m \in 1 .. n - 1 /\ m \in 1 .. n /\ m + 1 \in 1 .. n
    BY <2>2, <2>8, <2>9
  <2>11. 0 <= s[m]
    <3>1. i <= m
      BY <2>8, <2>9
    <3>2. i = m \/ s[i] < s[m]
      BY <2>3, <2>10, <3>1
    <3> QED BY <2>2, <2>4, <2>10, <3>2
  <2>12. s[m] <= q
    <3>1. CASE m = 1
      <4>1. i = 1
        BY <2>8, <2>9, <3>1
      <4> QED BY <2>1, <2>4, <3>1, <4>1
    <3>2. CASE m # 1
      BY <2>9, <3>2 DEF T
    <3> QED BY <3>1, <3>2
  <2>13. m < j
    <3>1. ~(j < m) /\ j # m
      BY <2>1, <2>2, <2>3, <2>5, <2>10, <2>12
    <3> QED BY <2>10, <3>1
  <2>14. s[m + 1] <= r
    <3>1. m + 1 = j \/ m + 1 < j
      BY <2>10, <2>13
    <3> QED BY <2>2, <2>3, <2>5, <2>10, <3>1
  <2>15. q < s[m + 1]
    <3>1. CASE m + 1 \in 1 .. n - 1
      <4>1. m + 1 \notin T
        BY <2>9, <2>10
      <4>2. ~(s[m + 1] <= q)
        BY <3>1, <4>1 DEF T
      <4> QED BY <2>1, <2>2, <2>10, <4>2
    <3>2. CASE m + 1 \notin 1 .. n - 1
      <4>1. j = m + 1
        BY <2>2, <2>10, <2>13, <3>2
      <4> QED BY <2>1, <2>5, <4>1
    <3> QED BY <3>1, <3>2
  <2>16. s[m + 1] - s[m] <= r
    BY <2>1, <2>2, <2>10, <2>11, <2>14
  <2> QED BY <2>6, <2>10, <2>12, <2>15, <2>16 DEF s, q, r, n
<1>2. F = <<F[1], F[2]>>
  <2>1. F = [d \in 1 .. 2 |-> F[d]]
    BY DEF FieldOf
  <2> HIDE DEF F
  <2> QED BY <2>1
<1> HIDE DEF F
<1>3. F \in Fields(edges)
  <2>1. F[1] \in 1 .. Len(edges[1]) - 1 /\ F[2] \in 1 .. Len(edges[2]) - 1
    BY <1>1
  <2> QED BY <1>2, <2>1 DEF Fields
<1> QED BY <1>1, <1>3 DEF InField, F

-----------------------------------------------------------------------------
\* Where the middle of a field is.
LEMMA CentreIs ==
  ASSUME Meshed, NEW f \in Fields(edges), NEW d \in 1 .. 2
  PROVE  LET a == edges[d][f[d]]
             b == edges[d][f[d] + 1]
         IN  /\ a \in Int /\ b \in Int /\ HalfOf(edges, f, d) \in Nat
             /\ Centre(edges, f)[d] = a + HalfOf(edges, f, d)
             /\ a + HalfOf(edges, f, d) < b
             /\ 2 * HalfOf(edges, f, d) <= b - a /\ b - a <= 2 * HalfOf(edges, f, d) + 1
<1> DEFINE a == edges[d][f[d]]
           b == edges[d][f[d] + 1]
           h == HalfOf(edges, f, d)
<1>1. a \in Int /\ b \in Int /\ a < b
  <2>1. f[d] \in 1 .. Len(edges[d]) /\ f[d] + 1 \in 1 .. Len(edges[d]) /\ f[d] < f[d] + 1
    BY FieldsAre
  <2> QED BY <2>1, FieldsAre DEF Meshed, Ascending
<1>2. h = (b - a) \div 2
  BY DEF HalfOf
<1>3. Centre(edges, f)[d] = a + h
  BY DEF Centre
<1> HIDE DEF a, b, h
<1>4. h \in Nat /\ a + h < b /\ 2 * h <= b - a /\ b - a <= 2 * h + 1
  BY <1>1, <1>2
<1> QED BY <1>1, <1>3, <1>4 DEF a, b, h

\* Half the lesser side of a field.
LEMMA HalfIs ==
  ASSUME Meshed, NEW f \in Fields(edges)
  PROVE  /\ Half(edges, f) \in Nat
         /\ \A d \in 1 .. 2 : HalfOf(edges, f, d) <= Half(edges, f)
<1>1. HalfOf(edges, f, 1) \in Nat /\ HalfOf(edges, f, 2) \in Nat
  BY CentreIs
<1> DEFINE a == HalfOf(edges, f, 1)
           b == HalfOf(edges, f, 2)
<1>2. Half(edges, f) = Max({a, b})
  BY DEF Half
<1>3. \A d \in 1 .. 2 : d = 1 \/ d = 2
  OBVIOUS
<1> HIDE DEF a, b
<1>4. Half(edges, f) = IF a >= b THEN a ELSE b
  BY <1>1, <1>2, MaxOfTwo DEF a, b
<1>5. Half(edges, f) \in Nat /\ a <= Half(edges, f) /\ b <= Half(edges, f)
  BY <1>1, <1>4 DEF a, b
<1> QED BY <1>3, <1>5 DEF a, b

\* How far it is from a place to the middle of a field.
LEMMA ReachIs ==
  ASSUME Meshed, NEW f \in Fields(edges), NEW p \in Spots
  PROVE  /\ Reach(edges, f, p) \in Nat
         /\ \A d \in 1 .. 2 : Far(Centre(edges, f)[d], p[d]) <= Reach(edges, f, p)
         /\ \E d \in 1 .. 2 : Far(Centre(edges, f)[d], p[d]) = Reach(edges, f, p)
<1> DEFINE c(d) == Centre(edges, f)[d]
           w(d) == Far(Centre(edges, f)[d], p[d])
           a == w(1)
           b == w(2)
           r == Reach(edges, f, p)
<1>1. \A d \in 1 .. 2 : c(d) \in Int /\ p[d] \in Int
  <2> SUFFICES ASSUME NEW d \in 1 .. 2 PROVE c(d) \in Int /\ p[d] \in Int
    OBVIOUS
  <2>1. p[d] \in Int
    BY WayAssumption
  <2> QED BY <2>1, CentreIs
<1>2. \A d \in 1 .. 2 : w(d) \in Nat
  <2> SUFFICES ASSUME NEW d \in 1 .. 2 PROVE w(d) \in Nat
    OBVIOUS
  <2> DEFINE x == c(d)
             y == p[d]
  <2>1. x \in Int /\ y \in Int
    BY <1>1
  <2>2. w(d) = Far(x, y)
    OBVIOUS
  <2> HIDE DEF x, y, c, w
  <2>3. Far(x, y) \in Nat
    BY <2>1, FarIs
  <2> QED BY <2>2, <2>3
<1>3. a \in Nat /\ b \in Nat
  BY <1>2
<1>4. {w(d) : d \in 1 .. 2} = {a, b}
  <2>1. 1 .. 2 = {1, 2}
    OBVIOUS
  <2> HIDE DEF w
  <2> QED BY <2>1
<1>5. r = Max({a, b})
  BY <1>4, Zenon DEF Reach
<1>6. \A d \in 1 .. 2 : w(d) = a \/ w(d) = b
  <2>1. \A d \in 1 .. 2 : d = 1 \/ d = 2
    OBVIOUS
  <2> HIDE DEF w
  <2> QED BY <2>1
<1>7. w(1) = a /\ w(2) = b /\ 1 \in 1 .. 2 /\ 2 \in 1 .. 2
  OBVIOUS
<1> HIDE DEF a, b, r
<1>8. r = IF a >= b THEN a ELSE b
  BY <1>3, <1>5, MaxOfTwo
<1>9. r \in Nat /\ a <= r /\ b <= r /\ (r = a \/ r = b)
  BY <1>3, <1>8
<1> HIDE DEF w
<1>10. (\A d \in 1 .. 2 : w(d) <= r) /\ \E d \in 1 .. 2 : w(d) = r
  BY <1>6, <1>7, <1>9, Zenon
<1> QED BY <1>9, <1>10 DEF w, r

\* It is at least a step from a place to the middle of another field.
LEMMA ReachAtLeast ==
  ASSUME Meshed, NEW f \in Fields(edges), NEW p \in Spots, f # FieldOf(edges, p)
  PROVE  Reach(edges, f, p) >= 1
<1> DEFINE F == FieldOf(edges, p)
<1>1. F \in Fields(edges) /\ InField(p, F)
  BY FieldOfIs
<1> HIDE DEF F
<1>2. PICK d \in 1 .. 2 : f[d] # F[d]
  <2>1. f = <<f[1], f[2]>> /\ F = <<F[1], F[2]>>
    BY <1>1 DEF Fields
  <2>2. f # F
    BY DEF F
  <2>3. f[1] # F[1] \/ f[2] # F[2]
    BY <2>1, <2>2
  <2> QED BY <2>3
<1> DEFINE s == edges[d]
           i == f[d]
           j == F[d]
           c == Centre(edges, f)[d]
           q == p[d]
<1>3. /\ i \in 1 .. Len(s) /\ i + 1 \in 1 .. Len(s) /\ s[i] \in Int /\ s[i + 1] \in Int
      /\ j \in 1 .. Len(s) /\ j + 1 \in 1 .. Len(s) /\ s[j] \in Int /\ s[j + 1] \in Int
  BY <1>1, FieldsAre
<1>4. \A k, l \in 1 .. Len(s) : k < l => s[k] < s[l]
  BY DEF Meshed, Ascending
<1>5. s[j] <= q /\ q < s[j + 1]
  BY <1>1 DEF InField
<1>6. q \in Int
  BY WayAssumption
<1>7. c \in Int /\ s[i] <= c /\ c < s[i + 1]
  <2> DEFINE h == HalfOf(edges, f, d)
  <2>1. h \in Nat /\ c = s[i] + h /\ s[i] + h < s[i + 1]
    BY CentreIs
  <2> HIDE DEF h, c, s, i
  <2> QED BY <1>3, <2>1
<1>8. i # j
  BY <1>2
<1>9. Far(c, q) <= Reach(edges, f, p) /\ Reach(edges, f, p) \in Nat
  BY ReachIs
<1> HIDE DEF s, i, j, c, q
<1>10. c # q
  <2>1. CASE i < j
    <3>1. i + 1 = j \/ i + 1 < j
      BY <1>3, <2>1
    <3>2. s[i + 1] <= s[j]
      BY <1>3, <1>4, <3>1
    <3> QED BY <1>3, <1>5, <1>6, <1>7, <3>2
  <2>2. CASE j < i
    <3>1. j + 1 = i \/ j + 1 < i
      BY <1>3, <2>2
    <3>2. s[j + 1] <= s[i]
      BY <1>3, <1>4, <3>1
    <3> QED BY <1>3, <1>5, <1>6, <1>7, <3>2
  <2> QED BY <1>3, <1>8, <2>1, <2>2
<1>11. Far(c, q) >= 1
  BY <1>6, <1>7, <1>10, FarIs
<1>12. Far(c, q) \in Int
  BY <1>6, <1>7, FarIs
<1> QED BY <1>9, <1>11, <1>12

\* How far it is at most to the middle of the field next to it.
LEMMA ReachAtMost ==
  ASSUME Meshed, NEW f \in Fields(edges), NEW p \in Spots, Adjacent(f, FieldOf(edges, p))
  PROVE  /\ Reach(edges, f, p) <= 2 * Half(edges, FieldOf(edges, p)) + Half(edges, f) + 1
         /\ Reach(edges, f, p) <= maximum + Half(edges, f)
<1> DEFINE F == FieldOf(edges, p)
<1>1. F \in Fields(edges) /\ InField(p, F)
  BY FieldOfIs
<1>2. Adjacent(f, F)
  OBVIOUS
<1> HIDE DEF F
<1>3. PICK d \in 1 .. 2 : Far(Centre(edges, f)[d], p[d]) = Reach(edges, f, p)
  BY ReachIs
<1> DEFINE s == edges[d]
           i == f[d]
           j == F[d]
           c == Centre(edges, f)[d]
           q == p[d]
           h == HalfOf(edges, f, d)
           k == HalfOf(edges, F, d)
           w == s[j + 1] - s[j]
<1>4. /\ i \in Int /\ s[i] \in Int /\ s[i + 1] \in Int
      /\ j \in Int /\ s[j] \in Int /\ s[j + 1] \in Int
  <2>1. /\ i \in 1 .. Len(s) /\ s[i] \in Int /\ s[i + 1] \in Int
        /\ j \in 1 .. Len(s) /\ s[j] \in Int /\ s[j + 1] \in Int
    BY <1>1, FieldsAre
  <2> HIDE DEF i, j, s
  <2> QED BY <2>1
<1>5. s[j] <= q /\ q < s[j + 1] /\ w <= RoomSize[d]
  BY <1>1 DEF InField
<1>6. q \in Int
  BY WayAssumption
<1>7. /\ h \in Nat /\ c = s[i] + h /\ s[i] + h < s[i + 1]
      /\ 2 * h <= s[i + 1] - s[i] /\ s[i + 1] - s[i] <= 2 * h + 1
  BY CentreIs
<1>8. k \in Nat /\ w <= 2 * k + 1
  BY <1>1, CentreIs
<1>9. i = j \/ i = j + 1 \/ j = i + 1
  <2>1. Far(i, j) < 2
    BY <1>2 DEF Adjacent
  <2> HIDE DEF i, j, s
  <2> QED BY <1>4, <2>1, FarIs
<1>10. Far(c, q) = Reach(edges, f, p)
  BY <1>3
<1>11. h <= Half(edges, f) /\ k <= Half(edges, F) /\ Half(edges, f) \in Nat /\ Half(edges, F) \in Nat
  BY <1>1, HalfIs
<1>12. w \in Int /\ w = s[j + 1] - s[j]
  BY <1>4
<1>13. RoomSize[d] <= maximum /\ maximum \in Nat
  <2>1. RoomSize[1] \in Nat /\ RoomSize[2] \in Nat
    BY WayAssumption
  <2>2. d = 1 \/ d = 2
    OBVIOUS
  <2>3. RoomSize[d] = RoomSize[1] \/ RoomSize[d] = RoomSize[2]
    BY <2>2
  <2> QED BY <2>1, <2>3 DEF maximum
<1>14. RoomSize[d] \in Nat
  BY WayAssumption
<1> HIDE DEF s, i, j, c, q, h, k, w
<1>15. c \in Int /\ c - q <= w + h /\ q - c <= w + h
  <2>1. CASE i = j
    BY <1>4, <1>5, <1>6, <1>7, <1>12, <2>1
  <2>2. CASE i = j + 1
    BY <1>4, <1>5, <1>6, <1>7, <1>12, <2>2
  <2>3. CASE j = i + 1
    BY <1>4, <1>5, <1>6, <1>7, <1>12, <2>3
  <2> QED BY <1>9, <2>1, <2>2, <2>3
<1>16. Far(c, q) <= w + h
  BY <1>6, <1>15, FarIs
<1> DEFINE r == Reach(edges, f, p)
           H == Half(edges, f)
           K == Half(edges, F)
           R == RoomSize[d]
<1>17. r <= w + h /\ r \in Int
  BY <1>6, <1>10, <1>15, <1>16, FarIs
<1>18. h <= H /\ k <= K /\ H \in Nat /\ K \in Nat
  BY <1>11
<1>19. R <= maximum /\ R \in Nat /\ maximum \in Nat /\ w <= R
  BY <1>5, <1>13, <1>14
<1> HIDE DEF r, H, K, R
<1>20. r <= 2 * K + H + 1 /\ r <= maximum + H
  BY <1>7, <1>8, <1>12, <1>17, <1>18, <1>19
<1> QED BY <1>20 DEF r, H, K, F

-----------------------------------------------------------------------------
\* What each step from 1 to n keeps, counted, is so after the last.
LEMMA CountedTo ==
  ASSUME NEW n \in Nat, NEW it, NEW A, <<0, it[1 .. 0]>> \in A,
         \A i \in 1 .. n : <<i - 1, it[1 .. (i - 1)]>> \in A => <<i, it[1 .. i]>> \in A
  PROVE  <<n, it[1 .. n]>> \in A
<1> DEFINE B == {i \in Nat : i <= n => <<i, it[1 .. i]>> \in A}
<1>1. 0 \in B
  OBVIOUS
<1>2. ASSUME NEW i \in Nat, i \in B PROVE i + 1 \in B
  <2>1. SUFFICES ASSUME i + 1 <= n PROVE <<i + 1, it[1 .. (i + 1)]>> \in A
    OBVIOUS
  <2>2. i <= n /\ i + 1 \in 1 .. n /\ (i + 1) - 1 = i
    BY <2>1
  <2>3. <<i, it[1 .. i]>> \in A
    BY <1>2, <2>2
  <2>4. <<(i + 1) - 1, it[1 .. ((i + 1) - 1)]>> \in A => <<i + 1, it[1 .. (i + 1)]>> \in A
    BY <2>2
  <2> QED BY <2>2, <2>3, <2>4
<1> HIDE DEF B
<1>3. Nat \subseteq B
  BY <1>1, <1>2, CountedUp
<1>4. n \in B /\ n <= n
  BY <1>3
<1> QED BY <1>4, Zenon DEF B

-----------------------------------------------------------------------------
\* What the directions are.
LEMMA DirectionsAre ==
  /\ Directions[1] = <<0, -1>> /\ Directions[2] = <<1, -1>> /\ Directions[3] = <<1, 0>>
  /\ Directions[4] = <<1, 1>> /\ Directions[5] = <<0, 1>> /\ Directions[6] = <<-1, 1>>
  /\ Directions[7] = <<-1, 0>> /\ Directions[8] = <<-1, -1>>
  BY DEF Directions

\* The eight directions lead to the fields next to one.
LEMMA BesideIs ==
  ASSUME Meshed, NEW f \in Fields(edges), NEW g \in Fields(edges)
  PROVE  /\ Adjacent(f, g) <=> \E k \in 1 .. 8 : Beside(f, k) = g
         /\ Adjacent(f, g) <=> Adjacent(g, f)
<1> DEFINE x == f[1]
           y == f[2]
           u == g[1]
           v == g[2]
<1>1. f = <<x, y>> /\ g = <<u, v>> /\ x \in Int /\ y \in Int /\ u \in Int /\ v \in Int
  <2>1. /\ f[1] \in 1 .. Len(edges[1]) /\ f[2] \in 1 .. Len(edges[2])
        /\ g[1] \in 1 .. Len(edges[1]) /\ g[2] \in 1 .. Len(edges[2])
    BY FieldsAre
  <2>2. f = <<f[1], f[2]>> /\ g = <<g[1], g[2]>>
    BY DEF Fields
  <2> QED BY <2>1, <2>2
<1>2. Adjacent(f, g) <=> (f # g /\ Far(x, u) < 2 /\ Far(y, v) < 2)
  <2>1. (\A d \in 1 .. 2 : Far(f[d], g[d]) < 2) <=> (Far(x, u) < 2 /\ Far(y, v) < 2)
    <3>1. \A d \in 1 .. 2 : d = 1 \/ d = 2
      OBVIOUS
    <3> QED BY <3>1
  <2> QED BY <2>1, Zenon DEF Adjacent
<1>3. Adjacent(g, f) <=> (f # g /\ Far(u, x) < 2 /\ Far(v, y) < 2)
  <2>1. (\A d \in 1 .. 2 : Far(g[d], f[d]) < 2) <=> (Far(u, x) < 2 /\ Far(v, y) < 2)
    <3>1. \A d \in 1 .. 2 : d = 1 \/ d = 2
      OBVIOUS
    <3> QED BY <3>1
  <2> QED BY <2>1, Zenon DEF Adjacent
<1>4. /\ Beside(f, 1) = <<x + 0, y + -1>> /\ Beside(f, 2) = <<x + 1, y + -1>> /\ Beside(f, 3) = <<x + 1, y + 0>>
      /\ Beside(f, 4) = <<x + 1, y + 1>> /\ Beside(f, 5) = <<x + 0, y + 1>> /\ Beside(f, 6) = <<x + -1, y + 1>>
      /\ Beside(f, 7) = <<x + -1, y + 0>> /\ Beside(f, 8) = <<x + -1, y + -1>>
  BY DirectionsAre DEF Beside
<1> HIDE DEF x, y, u, v
<1>5. Far(x, u) = Far(u, x) /\ Far(y, v) = Far(v, y)
  <2>1. \A p, q \in Int : Far(p, q) = IF p >= q THEN p - q ELSE q - p
    BY FarIs
  <2>2. \A p, q \in Int : Far(p, q) = Far(q, p)
    BY <2>1
  <2> QED BY <1>1, <2>2
<1>6. (Far(x, u) < 2 <=> u = x \/ u = x + 1 \/ u = x + -1) /\ (Far(y, v) < 2 <=> v = y \/ v = y + 1 \/ v = y + -1)
  BY <1>1, FarIs
<1>7. f # g <=> x # u \/ y # v
  BY <1>1
<1>8. (\E k \in 1 .. 8 : Beside(f, k) = g) <=>
        \/ u = x /\ (v = y + -1 \/ v = y + 1)
        \/ (u = x + 1 \/ u = x + -1) /\ (v = y + -1 \/ v = y \/ v = y + 1)
  <2>1. (\E k \in 1 .. 8 : Beside(f, k) = g) <=>
          \/ Beside(f, 1) = g \/ Beside(f, 2) = g \/ Beside(f, 3) = g \/ Beside(f, 4) = g
          \/ Beside(f, 5) = g \/ Beside(f, 6) = g \/ Beside(f, 7) = g \/ Beside(f, 8) = g
    <3>1. \A k \in 1 .. 8 : k = 1 \/ k = 2 \/ k = 3 \/ k = 4 \/ k = 5 \/ k = 6 \/ k = 7 \/ k = 8
      OBVIOUS
    <3>2. /\ 1 \in 1 .. 8 /\ 2 \in 1 .. 8 /\ 3 \in 1 .. 8 /\ 4 \in 1 .. 8 /\ 5 \in 1 .. 8
          /\ 6 \in 1 .. 8 /\ 7 \in 1 .. 8 /\ 8 \in 1 .. 8
      OBVIOUS
    <3> QED BY <3>1, <3>2, Zenon
  <2>2. \A a, b \in Int : <<a, b>> = g <=> u = a /\ v = b
    BY <1>1
  <2> QED BY <1>1, <1>4, <2>1, <2>2
<1> QED BY <1>1, <1>2, <1>3, <1>5, <1>6, <1>7, <1>8

-----------------------------------------------------------------------------
\* What a field has before anything spreads to it.
BaseOf(f) == IF Adjacent(f, Target) THEN Reach(edges, f, ob_co) ELSE maximum

\* The npc is more than a step away from its target.
Apart == Own # Target /\ ~Adjacent(Own, Target)

\* Distances: none from the target, some from a field that is free, -1 from one that is not.
Spread(m) ==
  /\ m \in [Fields(edges) -> Int] /\ m[Target] = 0
  /\ \A f \in Fields(edges) : f \notin Free /\ f # Target => m[f] = -1
  /\ \A f \in Free : m[f] >= 1 /\ m[f] <= BaseOf(f)

\* Each distance is the first one, or it is no less than that by a field beside.
Founded(m) ==
  \A f \in Free :
    \/ m[f] = BaseOf(f)
    \/ \E g \in Free : Adjacent(f, g) /\ Half(edges, f) + m[g] + Half(edges, g) <= m[f]

\* No way over fields but those in P is shorter.
Eased(m, P) ==
  \A f \in Free, g \in Free \ P : Adjacent(f, g) => m[f] <= Half(edges, f) + m[g] + Half(edges, g)

\* Free fields are fields.
LEMMA FreeAre ==
  Free \subseteq Fields(edges) /\ Target \notin Free
  BY DEF Free

\* What the search starts from, beside the target and elsewhere.
LEMMA BaseIs ==
  ASSUME Placed, Meshed, NEW f \in Free
  PROVE  /\ BaseOf(f) \in Int /\ BaseOf(f) >= 1 /\ BaseOf(f) <= maximum + Half(edges, f)
         /\ maximum \in Int /\ Half(edges, f) \in Nat
<1>1. f \in Fields(edges) /\ f # Target /\ ob_co \in Spots
  BY FreeAre DEF Placed
<1>2. maximum \in Int /\ maximum >= 1
  <2>1. RoomSize[1] \in Nat \ {0} /\ RoomSize[2] \in Nat \ {0}
    BY WayAssumption
  <2> QED BY <2>1 DEF maximum
<1>3. Half(edges, f) \in Nat
  BY <1>1, HalfIs
<1> DEFINE r == Reach(edges, f, ob_co)
           h == Half(edges, f)
<1>4. r \in Int /\ r >= 1
  BY <1>1, ReachIs, ReachAtLeast DEF Target
<1>5. Adjacent(f, Target) => r <= maximum + h
  BY <1>1, ReachAtMost DEF Target
<1>6. BaseOf(f) = IF Adjacent(f, Target) THEN r ELSE maximum
  BY DEF BaseOf
<1>7. h \in Nat
  BY <1>3
<1> HIDE DEF r, h
<1>8. BaseOf(f) \in Int /\ BaseOf(f) >= 1 /\ BaseOf(f) <= maximum + h
  BY <1>2, <1>4, <1>5, <1>6, <1>7
<1> QED BY <1>2, <1>3, <1>8 DEF h

\* The first distances.
LEMMA FirstSpread ==
  ASSUME Placed, Meshed, NEW P, \A f \in Free : Adjacent(f, Target) => f \in P,
         NEW m, m = [f \in Fields(edges) |-> IF f = Target THEN 0 ELSE IF f \notin Free THEN -1 ELSE BaseOf(f)]
  PROVE  Spread(m) /\ Founded(m) /\ Eased(m, P)
<1>1. Target \in Fields(edges) /\ Free \subseteq Fields(edges) /\ Target \notin Free
  <2>1. Target \in Fields(edges)
    BY FieldOfIs DEF Target, Placed
  <2> QED BY <2>1, FreeAre
<1>2. \A f \in Free : BaseOf(f) \in Int /\ BaseOf(f) >= 1
  BY BaseIs
<1>3. m[Target] = 0 /\ \A f \in Free : m[f] = BaseOf(f)
  BY <1>1
<1>4. \A f \in Fields(edges) : f \notin Free /\ f # Target => m[f] = -1
  OBVIOUS
<1>5. m \in [Fields(edges) -> Int]
  BY <1>1, <1>2
<1>6. Eased(m, P)
  <2> SUFFICES ASSUME NEW f \in Free, NEW g \in Free, g \notin P
               PROVE  m[f] <= Half(edges, f) + m[g] + Half(edges, g)
    BY DEF Eased
  <2>1. BaseOf(g) = maximum
    BY DEF BaseOf
  <2>2. BaseOf(f) <= maximum + Half(edges, f) /\ BaseOf(f) \in Int /\ maximum \in Int
    BY BaseIs
  <2>3. Half(edges, f) \in Nat /\ Half(edges, g) \in Nat
    BY BaseIs
  <2>4. m[f] = BaseOf(f) /\ m[g] = BaseOf(g)
    BY <1>3
  <2> QED BY <2>1, <2>2, <2>3, <2>4
<1>7. \A f \in Free : m[f] >= 1 /\ m[f] <= BaseOf(f)
  BY <1>2, <1>3
<1> QED BY <1>3, <1>4, <1>5, <1>6, <1>7 DEF Spread, Founded

-----------------------------------------------------------------------------
States == [dist : [Fields(edges) -> Int], newtodo : Seq(Free)]

\* The search is right but for the fields in P and those that are to do in the next round.
RightBut(s, P) ==
  s \in States /\ Spread(s.dist) /\ Founded(s.dist) /\ Eased(s.dist, P \cup ToSet(s.newtodo))

\* The first k neighbours of f were looked at.
Passed(s, f, k) ==
  \A j \in 1 .. k : Beside(f, j) \in Free =>
    s.dist[Beside(f, j)] <= Half(edges, f) + s.dist[f] + Half(edges, Beside(f, j))

\* One more direction of a field that is searched from.
LEMMA RelaxedKeeps ==
  ASSUME Placed, Meshed, NEW f \in Free, NEW P, NEW s, RightBut(s, P), NEW i \in 1 .. 8,
         NEW r, r = Relaxed(s, f, Beside(f, i))
  PROVE  RightBut(r, P) /\ (Passed(s, f, i - 1) => Passed(r, f, i))
<1> DEFINE g == Beside(f, i)
           m == s.dist
           H(x) == Half(edges, x)
           d == H(f) + m[f] + H(g)
<1>1. /\ s \in States /\ m \in [Fields(edges) -> Int] /\ s.newtodo \in Seq(Free)
      /\ Spread(m) /\ Founded(m) /\ Eased(m, P \cup ToSet(s.newtodo))
  BY DEF RightBut, States
<1>2. \A x \in Free : H(x) \in Nat /\ m[x] \in Int /\ m[x] >= 1 /\ x \in Fields(edges)
  BY <1>1, FreeAre, HalfIs DEF Spread
<1>3. \A j \in 1 .. i : j \in 1 .. i - 1 \/ j = i
  OBVIOUS
<1>4. f \in Free /\ f \in Fields(edges) /\ Target \in Fields(edges)
  <2>1. Target \in Fields(edges)
    BY FieldOfIs DEF Target, Placed
  <2> QED BY <2>1, FreeAre
<1>5. g \in Free => d \in Int
  BY <1>2
<1>6. CASE g \in Fields(edges) /\ d < m[g]
  <2> DEFINE M == r.dist
  <2>1. r = [dist |-> [m EXCEPT ![g] = d], newtodo |-> Append(s.newtodo, g)]
    BY <1>6 DEF Relaxed
  <2>2. M = [m EXCEPT ![g] = d] /\ r.newtodo = Append(s.newtodo, g)
    BY <2>1
  <2>3. H(g) \in Nat /\ d \in Int /\ d >= 1
    <3>1. H(g) \in Nat
      BY <1>6, HalfIs
    <3>2. H(f) \in Nat /\ m[f] \in Int /\ m[f] >= 1
      BY <1>2, <1>4
    <3> QED BY <3>1, <3>2
  <2>4. g \in Free /\ m[g] \in Int
    <3>1. m[g] \in Int
      BY <1>1, <1>6
    <3>2. m[g] > 0
      BY <1>6, <2>3, <3>1
    <3> QED BY <1>1, <1>6, <3>1, <3>2 DEF Spread
  <2>5. Adjacent(f, g) /\ Adjacent(g, f) /\ g # f
    <3>1. \E k \in 1 .. 8 : Beside(f, k) = g
      OBVIOUS
    <3> HIDE DEF g
    <3>2. Adjacent(f, g) /\ Adjacent(g, f)
      BY <1>4, <1>6, <3>1, BesideIs
    <3> QED BY <3>2 DEF Adjacent
  <2>6. /\ M \in [Fields(edges) -> Int] /\ M[g] = d
        /\ \A x \in Fields(edges) : x # g => M[x] = m[x]
    <3> HIDE DEF g, d, m
    <3> QED BY <1>1, <1>6, <2>2, <2>3
  <2>7. M[f] = m[f] /\ M[Target] = 0
    <3>1. g # Target
      BY <2>4, FreeAre
    <3> QED BY <1>1, <1>4, <2>5, <2>6, <3>1 DEF Spread
  <2>8. r.newtodo \in Seq(Free) /\ ToSet(s.newtodo) \subseteq ToSet(r.newtodo) /\ g \in ToSet(r.newtodo)
    <3> DEFINE t == s.newtodo
               u == r.newtodo
    <3>1. t \in Seq(Free) /\ u = Append(t, g)
      BY <1>1, <2>2
    <3> HIDE DEF t, u, g
    <3>2. u \in Seq(Free) /\ Len(t) \in Nat /\ Len(u) = Len(t) + 1 /\ u[Len(t) + 1] = g
      BY <2>4, <3>1
    <3>3. \A k \in 1 .. Len(t) : u[k] = t[k]
      BY <3>1
    <3>4. DOMAIN u = 1 .. Len(t) + 1 /\ DOMAIN t = 1 .. Len(t)
      BY <3>1, <3>2
    <3>5. ToSet(t) \subseteq ToSet(u) /\ g \in ToSet(u)
      BY <3>2, <3>3, <3>4 DEF ToSet
    <3> QED BY <3>2, <3>5 DEF t, u
  <2>9. r \in States
    <3>1. r = [dist |-> M, newtodo |-> r.newtodo]
      BY <2>1
    <3> HIDE DEF M
    <3> QED BY <2>6, <2>8, <3>1 DEF States
  <2> HIDE DEF M
  <2>10. \A x \in Free : M[x] \in Int /\ M[x] <= m[x] /\ M[x] >= 1 /\ (x # g => M[x] = m[x])
    <3> SUFFICES ASSUME NEW x \in Free
                 PROVE  M[x] \in Int /\ M[x] <= m[x] /\ M[x] >= 1 /\ (x # g => M[x] = m[x])
      OBVIOUS
    <3>1. CASE x = g
      <4>1. M[x] = d /\ m[x] = m[g]
        BY <2>6, <3>1
      <4>2. d < m[g]
        BY <1>6
      <4> HIDE DEF g, d, m
      <4> QED BY <2>3, <2>4, <3>1, <4>1, <4>2
    <3>2. CASE x # g
      BY <1>2, <2>6, <3>2
    <3> QED BY <3>1, <3>2
  <2>11. Spread(M)
    <3>1. \A x \in Fields(edges) : x \notin Free /\ x # Target => M[x] = -1
      <4> HIDE DEF g, m
      <4> QED BY <1>1, <2>4, <2>6 DEF Spread
    <3>2. \A x \in Free : M[x] >= 1 /\ M[x] <= BaseOf(x)
      <4> SUFFICES ASSUME NEW x \in Free PROVE M[x] >= 1 /\ M[x] <= BaseOf(x)
        OBVIOUS
      <4>1. m[x] <= BaseOf(x) /\ BaseOf(x) \in Int /\ m[x] \in Int
        BY <1>1, <1>2, BaseIs DEF Spread
      <4>2. M[x] \in Int /\ M[x] <= m[x] /\ M[x] >= 1
        BY <2>10
      <4> HIDE DEF m
      <4> QED BY <4>1, <4>2
    <3> QED BY <2>6, <2>7, <3>1, <3>2 DEF Spread
  <2>12. Founded(M)
    <3> SUFFICES ASSUME NEW x \in Free
                 PROVE  \/ M[x] = BaseOf(x)
                        \/ \E y \in Free : Adjacent(x, y) /\ H(x) + M[y] + H(y) <= M[x]
      BY DEF Founded
    <3>1. CASE x = g
      <4>1. H(g) + M[f] + H(f) = d /\ d <= M[g]
        <5>1. H(g) \in Nat /\ H(f) \in Nat /\ m[f] \in Int
          BY <1>2, <1>4, <2>3
        <5> QED BY <2>3, <2>6, <2>7, <5>1
      <4>2. H(x) + M[f] + H(f) <= M[x]
        BY <3>1, <4>1
      <4> QED BY <1>4, <2>5, <3>1, <4>2
    <3>2. CASE x # g
      <4>1. M[x] = m[x]
        BY <2>10, <3>2
      <4>2. \/ m[x] = BaseOf(x)
            \/ \E y \in Free : Adjacent(x, y) /\ H(x) + m[y] + H(y) <= m[x]
        BY <1>1 DEF Founded
      <4>3. CASE m[x] = BaseOf(x)
        BY <4>1, <4>3
      <4>4. ASSUME NEW y \in Free, Adjacent(x, y), H(x) + m[y] + H(y) <= m[x]
            PROVE  Adjacent(x, y) /\ H(x) + M[y] + H(y) <= M[x]
        <5>1. H(x) \in Nat /\ H(y) \in Nat /\ m[x] \in Int /\ m[y] \in Int
          BY <1>2
        <5>2. M[y] \in Int /\ M[y] <= m[y]
          BY <2>10
        <5> HIDE DEF H, m
        <5> QED BY <4>1, <4>4, <5>1, <5>2
      <4> QED BY <4>2, <4>3, <4>4
    <3> QED BY <3>1, <3>2
  <2>13. Eased(M, P \cup ToSet(r.newtodo))
    <3> SUFFICES ASSUME NEW x \in Free, NEW y \in Free, y \notin P \cup ToSet(r.newtodo), Adjacent(x, y)
                 PROVE  M[x] <= H(x) + M[y] + H(y)
      BY DEF Eased
    <3>1. y \notin P \cup ToSet(s.newtodo) /\ y # g
      BY <2>8
    <3>2. m[x] <= H(x) + m[y] + H(y)
      BY <1>1, <3>1 DEF Eased
    <3>3. M[x] \in Int /\ M[x] <= m[x] /\ M[y] = m[y]
      BY <2>10, <3>1
    <3>4. H(x) \in Nat /\ H(y) \in Nat /\ m[x] \in Int /\ m[y] \in Int
      BY <1>2
    <3> HIDE DEF H, m
    <3> QED BY <3>2, <3>3, <3>4
  <2>14. ASSUME Passed(s, f, i - 1) PROVE Passed(r, f, i)
    <3> SUFFICES ASSUME NEW j \in 1 .. i, Beside(f, j) \in Free
                 PROVE  M[Beside(f, j)] <= H(f) + M[f] + H(Beside(f, j))
      BY DEF Passed, M
    <3> DEFINE y == Beside(f, j)
    <3>1. y \in Free
      OBVIOUS
    <3>2. CASE y = g
      <4>1. M[y] = d /\ M[f] = m[f]
        BY <2>6, <2>7, <3>2
      <4>2. d = H(f) + M[f] + H(y) /\ d <= d
        BY <2>3, <3>2, <4>1
      <4> QED BY <4>1, <4>2
    <3>3. CASE y # g
      <4>1. j \in 1 .. i - 1
        BY <1>3, <3>3
      <4>2. m[y] <= H(f) + m[f] + H(y)
        BY <2>14, <3>1, <4>1 DEF Passed
      <4>3. M[y] = m[y] /\ M[f] = m[f]
        BY <2>7, <2>10, <3>1, <3>3
      <4> QED BY <4>2, <4>3
    <3> QED BY <3>2, <3>3
  <2> QED BY <2>9, <2>11, <2>12, <2>13, <2>14 DEF RightBut, M
<1>7. CASE ~(g \in Fields(edges) /\ d < m[g])
  <2>1. r = s
    BY <1>7 DEF Relaxed
  <2>2. ASSUME Passed(s, f, i - 1) PROVE Passed(s, f, i)
    <3> SUFFICES ASSUME NEW j \in 1 .. i, Beside(f, j) \in Free
                 PROVE  m[Beside(f, j)] <= H(f) + m[f] + H(Beside(f, j))
      BY DEF Passed
    <3>1. CASE j \in 1 .. i - 1
      BY <2>2, <3>1 DEF Passed
    <3>2. CASE j = i
      <4>1. g \in Free
        BY <3>2
      <4>2. ~(d < m[g]) /\ m[g] \in Int /\ d \in Int
        BY <1>2, <1>5, <1>7, <4>1
      <4> DEFINE p == m[g]
      <4>3. p <= d
        <5> HIDE DEF d, p
        <5> QED BY <4>2 DEF p
      <4> QED BY <3>2, <4>3
    <3> QED BY <1>3, <3>1, <3>2
  <2> QED BY <2>1, <2>2
<1> QED BY <1>6, <1>7

-----------------------------------------------------------------------------
\* All neighbours of f, one after the other.
RelaxedAll(f, b, seq) == CHOOSE it : it = [s \in SUBSET DOMAIN seq |->
  IF s = {} THEN b ELSE Relaxed(it[s \ {Max(s)}], f, Beside(f, seq[Max(s)]))]

\* All eight of them.
LEMMA AroundRelaxed ==
  ASSUME Placed, Meshed, NEW f \in Free, NEW P, NEW b, RightBut(b, P)
  PROVE  LET r == FoldLeft(LAMBDA t, k : Relaxed(t, f, Beside(f, k)), b, AllRound)
         IN  RightBut(r, P) /\ Passed(r, f, 8)
<1> DEFINE S == 1 .. 8
           D == {s \in States : RightBut(s, P)}
           F == [p \in S \X D |-> Relaxed(p[2], f, Beside(f, p[1]))]
           it == RelaxedAll(f, b, AllRound)
           A == {p \in (0 .. 8) \X D : Passed(p[2], f, p[1])}
           r == FoldLeft(LAMBDA t, k : Relaxed(t, f, Beside(f, k)), b, AllRound)
<1>1. DOMAIN AllRound = S /\ \A k \in S : AllRound[k] = k
  BY DEF AllRound
<1>2. b \in D
  BY DEF RightBut
<1>3. r = it[DOMAIN AllRound]
  BY Zenon DEF FoldLeft, MapThenFoldSet, RelaxedAll
<1> HIDE DEF r
<1>4. F \in [S \X D -> D] /\ \A i \in S, s \in D : F[<<i, s>>] = Relaxed(s, f, Beside(f, i))
  <2>1. \A i \in S, s \in D : Relaxed(s, f, Beside(f, i)) \in D
    BY RelaxedKeeps DEF RightBut
  <2> HIDE DEF S, D
  <2> QED BY <2>1
<1>5. \A s \in SUBSET S : s # {} => Max(s) \in S /\ s \ {Max(s)} \in SUBSET S
  BY LastOf
<1>6. PICK g \in [SUBSET S -> D] : FoldedLeft(g, S, F, b)
  <2> HIDE DEF F, D
  <2>1. 8 \in Nat /\ S = 1 .. 8
    OBVIOUS
  <2> HIDE DEF S
  <2> QED BY <1>2, <1>4, <2>1, FoldLeftExists, Zenon
<1>7. g = [s \in SUBSET S |-> IF s = {} THEN b ELSE Relaxed(g[s \ {Max(s)}], f, Beside(f, AllRound[Max(s)]))]
  <2> HIDE DEF F, S, D
  <2>1. \A s \in SUBSET S : g[s] = IF s = {} THEN b ELSE Relaxed(g[s \ {Max(s)}], f, Beside(f, AllRound[Max(s)]))
    <3> SUFFICES ASSUME NEW s \in SUBSET S, s # {}
                 PROVE  F[<<Max(s), g[s \ {Max(s)}]>>] = Relaxed(g[s \ {Max(s)}], f, Beside(f, AllRound[Max(s)]))
      BY <1>6 DEF FoldedLeft
    <3>1. Max(s) \in S /\ g[s \ {Max(s)}] \in D /\ AllRound[Max(s)] = Max(s)
      BY <1>1, <1>5
    <3> QED BY <1>4, <3>1
  <2> QED BY <2>1
<1>8. it = [s \in SUBSET S |-> IF s = {} THEN b ELSE Relaxed(it[s \ {Max(s)}], f, Beside(f, AllRound[Max(s)]))]
  <2> HIDE DEF S
  <2> QED BY <1>1, <1>7, Zenon DEF RelaxedAll
<1> HIDE DEF it
<1>9. it[1 .. 0] = b
  <2>1. 1 .. 0 = {} /\ {} \in SUBSET S
    OBVIOUS
  <2> QED BY <1>8, <2>1
<1>10. \A i \in 1 .. 8 : it[1 .. i] = Relaxed(it[1 .. (i - 1)], f, Beside(f, i))
  <2> SUFFICES ASSUME NEW i \in 1 .. 8 PROVE it[1 .. i] = Relaxed(it[1 .. (i - 1)], f, Beside(f, i))
    OBVIOUS
  <2>1. i \in Nat \ {0} /\ 1 .. i \in SUBSET S /\ i \in S
    OBVIOUS
  <2>2. 1 .. i # {} /\ Max(1 .. i) = i /\ (1 .. i) \ {Max(1 .. i)} = 1 .. (i - 1)
    BY <2>1, Prefix
  <2> DEFINE T == 1 .. i
  <2>3. T \in SUBSET S
    BY <2>1
  <2> HIDE DEF T, S
  <2>4. it[T] = IF T = {} THEN b ELSE Relaxed(it[T \ {Max(T)}], f, Beside(f, AllRound[Max(T)]))
    BY <1>8, <2>3
  <2> QED BY <1>1, <2>1, <2>2, <2>4 DEF T
<1>11. <<0, it[1 .. 0]>> \in A
  <2>1. Passed(b, f, 0)
    BY DEF Passed
  <2> QED BY <1>2, <1>9, <2>1
<1>12. ASSUME NEW i \in 1 .. 8, <<i - 1, it[1 .. (i - 1)]>> \in A PROVE <<i, it[1 .. i]>> \in A
  <2> DEFINE x == it[1 .. (i - 1)]
             y == it[1 .. i]
  <2>1. x \in D /\ Passed(x, f, i - 1)
    BY <1>12
  <2>2. y = Relaxed(x, f, Beside(f, i))
    BY <1>10
  <2> HIDE DEF x, y
  <2>3. y \in D /\ Passed(y, f, i)
    BY <2>1, <2>2, RelaxedKeeps DEF RightBut
  <2> HIDE DEF D
  <2> QED BY <2>3 DEF y
<1> HIDE DEF A
<1>13. <<8, it[1 .. 8]>> \in A
  BY <1>11, <1>12, CountedTo
<1>14. RightBut(it[S], P) /\ Passed(it[S], f, 8)
  BY <1>13 DEF A
<1> QED BY <1>1, <1>3, <1>14 DEF r

\* A field beside the target that is free is to do first.
Entered(t, k) == IF Beside(Target, k) \in Free THEN Append(t, Beside(Target, k)) ELSE t

EnteredAll(b, seq) == CHOOSE it : it = [s \in SUBSET DOMAIN seq |->
  IF s = {} THEN b ELSE Entered(it[s \ {Max(s)}], seq[Max(s)])]

\* Fields around the target that are free are put on the list.
LEMMA EnteredIs ==
  ASSUME NEW t \in Seq(Free), NEW k
  PROVE  /\ Entered(t, k) \in Seq(Free) /\ ToSet(t) \subseteq ToSet(Entered(t, k))
         /\ Beside(Target, k) \in Free => Beside(Target, k) \in ToSet(Entered(t, k))
<1> DEFINE g == Beside(Target, k)
           u == Append(t, g)
<1>1. CASE g \in Free
  <2>1. Entered(t, k) = u
    BY <1>1 DEF Entered
  <2>2. g \in Free
    BY <1>1
  <2> HIDE DEF g
  <2>3. u \in Seq(Free) /\ Len(t) \in Nat /\ Len(u) = Len(t) + 1 /\ u[Len(t) + 1] = g
    BY <2>2
  <2>4. \A j \in 1 .. Len(t) : u[j] = t[j]
    OBVIOUS
  <2> HIDE DEF u
  <2>5. DOMAIN u = 1 .. Len(t) + 1 /\ DOMAIN t = 1 .. Len(t)
    BY <2>3
  <2>6. ToSet(t) \subseteq ToSet(u) /\ g \in ToSet(u)
    BY <2>3, <2>4, <2>5 DEF ToSet
  <2> QED BY <2>1, <2>3, <2>6 DEF g
<1>2. CASE g \notin Free
  BY <1>2 DEF Entered
<1> QED BY <1>1, <1>2

\* All that are free are on it.
LEMMA AroundTarget ==
  ASSUME Meshed, Target \in Fields(edges)
  PROVE  LET r == FoldLeft(LAMBDA t, k : IF Beside(Target, k) \in Free THEN Append(t, Beside(Target, k)) ELSE t,
                           <<>>, AllRound)
         IN  r \in Seq(Free) /\ \A f \in Free : Adjacent(f, Target) => f \in ToSet(r)
<1> DEFINE S == 1 .. 8
           D == Seq(Free)
           b == <<>>
           F == [p \in S \X D |-> Entered(p[2], p[1])]
           it == EnteredAll(b, AllRound)
           A == {p \in (0 .. 8) \X D :
                  \A j \in 1 .. p[1] : Beside(Target, j) \in Free => Beside(Target, j) \in ToSet(p[2])}
           r == FoldLeft(LAMBDA t, k : IF Beside(Target, k) \in Free THEN Append(t, Beside(Target, k)) ELSE t,
                         b, AllRound)
<1>1. DOMAIN AllRound = S /\ \A k \in S : AllRound[k] = k
  BY DEF AllRound
<1>2. b \in D
  OBVIOUS
<1>3. r = it[DOMAIN AllRound]
  BY Zenon DEF FoldLeft, MapThenFoldSet, EnteredAll, Entered
<1> HIDE DEF r, b
<1>4. F \in [S \X D -> D] /\ \A i \in S, s \in D : F[<<i, s>>] = Entered(s, i)
  <2>1. \A i \in S, s \in D : Entered(s, i) \in D
    BY EnteredIs
  <2> HIDE DEF S, D
  <2> QED BY <2>1
<1>5. \A s \in SUBSET S : s # {} => Max(s) \in S /\ s \ {Max(s)} \in SUBSET S
  BY LastOf
<1>6. PICK g \in [SUBSET S -> D] : FoldedLeft(g, S, F, b)
  <2> HIDE DEF F, D
  <2>1. 8 \in Nat /\ S = 1 .. 8
    OBVIOUS
  <2> HIDE DEF S
  <2> QED BY <1>2, <1>4, <2>1, FoldLeftExists, Zenon
<1>7. g = [s \in SUBSET S |-> IF s = {} THEN b ELSE Entered(g[s \ {Max(s)}], AllRound[Max(s)])]
  <2> HIDE DEF F, S, D
  <2>1. \A s \in SUBSET S : g[s] = IF s = {} THEN b ELSE Entered(g[s \ {Max(s)}], AllRound[Max(s)])
    <3> SUFFICES ASSUME NEW s \in SUBSET S, s # {}
                 PROVE  F[<<Max(s), g[s \ {Max(s)}]>>] = Entered(g[s \ {Max(s)}], AllRound[Max(s)])
      BY <1>6 DEF FoldedLeft
    <3>1. Max(s) \in S /\ g[s \ {Max(s)}] \in D /\ AllRound[Max(s)] = Max(s)
      BY <1>1, <1>5
    <3> QED BY <1>4, <3>1
  <2> QED BY <2>1
<1>8. it = [s \in SUBSET S |-> IF s = {} THEN b ELSE Entered(it[s \ {Max(s)}], AllRound[Max(s)])]
  <2> HIDE DEF S
  <2> QED BY <1>1, <1>7, Zenon DEF EnteredAll
<1> HIDE DEF it
<1>9. it[1 .. 0] = b
  <2>1. 1 .. 0 = {} /\ {} \in SUBSET S
    OBVIOUS
  <2> QED BY <1>8, <2>1
<1>10. \A i \in 1 .. 8 : it[1 .. i] = Entered(it[1 .. (i - 1)], i)
  <2> SUFFICES ASSUME NEW i \in 1 .. 8 PROVE it[1 .. i] = Entered(it[1 .. (i - 1)], i)
    OBVIOUS
  <2>1. i \in Nat \ {0} /\ 1 .. i \in SUBSET S /\ i \in S
    OBVIOUS
  <2>2. 1 .. i # {} /\ Max(1 .. i) = i /\ (1 .. i) \ {Max(1 .. i)} = 1 .. (i - 1)
    BY <2>1, Prefix
  <2> DEFINE T == 1 .. i
  <2>3. T \in SUBSET S
    BY <2>1
  <2> HIDE DEF T, S
  <2>4. it[T] = IF T = {} THEN b ELSE Entered(it[T \ {Max(T)}], AllRound[Max(T)])
    BY <1>8, <2>3
  <2> QED BY <1>1, <2>1, <2>2, <2>4 DEF T
<1>11. <<0, it[1 .. 0]>> \in A
  BY <1>2, <1>9
<1>12. ASSUME NEW i \in 1 .. 8, <<i - 1, it[1 .. (i - 1)]>> \in A PROVE <<i, it[1 .. i]>> \in A
  <2> DEFINE x == it[1 .. (i - 1)]
             y == it[1 .. i]
  <2>1. x \in D /\ \A j \in 1 .. i - 1 : Beside(Target, j) \in Free => Beside(Target, j) \in ToSet(x)
    BY <1>12
  <2>2. y = Entered(x, i)
    BY <1>10
  <2> HIDE DEF x, y
  <2>3. y \in D /\ ToSet(x) \subseteq ToSet(y) /\ (Beside(Target, i) \in Free => Beside(Target, i) \in ToSet(y))
    BY <2>1, <2>2, EnteredIs
  <2>4. \A j \in 1 .. i : j \in 1 .. i - 1 \/ j = i
    OBVIOUS
  <2>5. \A j \in 1 .. i : Beside(Target, j) \in Free => Beside(Target, j) \in ToSet(y)
    BY <2>1, <2>3, <2>4
  <2> HIDE DEF D
  <2> QED BY <2>3, <2>5 DEF y
<1> HIDE DEF A
<1>13. <<8, it[1 .. 8]>> \in A
  BY <1>11, <1>12, CountedTo
<1>14. r \in Seq(Free) /\ \A j \in 1 .. 8 : Beside(Target, j) \in Free => Beside(Target, j) \in ToSet(r)
  <2>1. it[S] \in Seq(Free) /\ \A j \in 1 .. 8 : Beside(Target, j) \in Free => Beside(Target, j) \in ToSet(it[S])
    BY <1>13 DEF A
  <2> QED BY <1>1, <1>3, <2>1
<1>15. ASSUME NEW f \in Free, Adjacent(f, Target) PROVE f \in ToSet(r)
  <2>1. f \in Fields(edges)
    BY FreeAre
  <2>2. \E k \in 1 .. 8 : Beside(Target, k) = f
    BY <1>15, <2>1, BesideIs
  <2> QED BY <1>14, <2>2
<1> QED BY <1>14, <1>15 DEF r, b

-----------------------------------------------------------------------------
\* The search, between two fields.
Searched(m, t, n) ==
  /\ t \in Seq(Free) /\ n \in Seq(Free)
  /\ Spread(m) /\ Founded(m) /\ Eased(m, ToSet(t) \cup ToSet(n))

FieldDone(m, t, n) ==
  FoldLeft(LAMBDA u, k : Relaxed(u, t[1], Beside(t[1], k)), [dist |-> m, newtodo |-> n], AllRound)

\* After a field is searched from, it only matters what else is on the lists.
LEMMA SearchGoesOn ==
  ASSUME Placed, Meshed, NEW t, t # <<>>, NEW n, NEW m, Searched(m, t, n)
  PROVE  Searched(FieldDone(m, t, n).dist, Tail(t), FieldDone(m, t, n).newtodo)
<1> DEFINE f == t[1]
           q == Tail(t)
           b == [dist |-> m, newtodo |-> n]
           r == FoldLeft(LAMBDA u, k : Relaxed(u, f, Beside(f, k)), b, AllRound)
           P == ToSet(q) \cup {f}
<1>1. /\ t \in Seq(Free) /\ n \in Seq(Free)
      /\ Spread(m) /\ Founded(m) /\ Eased(m, ToSet(t) \cup ToSet(n))
  BY DEF Searched
<1>2. f \in Free /\ q \in Seq(Free) /\ ToSet(t) \subseteq P
  <2>1. f \in Free /\ q \in Seq(Free) /\ Len(t) \in Nat \ {0} /\ Len(q) = Len(t) - 1
    BY <1>1
  <2>2. \A i \in 1 .. Len(t) : i # 1 => i - 1 \in 1 .. Len(q) /\ q[i - 1] = t[i]
    BY <1>1, <2>1
  <2>3. DOMAIN t = 1 .. Len(t) /\ DOMAIN q = 1 .. Len(q)
    BY <1>1, <2>1
  <2> HIDE DEF q
  <2>4. ToSet(t) \subseteq P
    BY <2>2, <2>3 DEF ToSet
  <2> QED BY <2>1, <2>4
<1> HIDE DEF f, q
<1>3. RightBut(b, P)
  <2>1. b \in States
    BY <1>1 DEF Spread, States
  <2>2. b.dist = m /\ b.newtodo = n
    OBVIOUS
  <2>3. Eased(m, P \cup ToSet(n))
    BY <1>1, <1>2 DEF Eased
  <2> HIDE DEF b
  <2> QED BY <1>1, <2>1, <2>2, <2>3 DEF RightBut
<1> HIDE DEF b
<1>4. RightBut(r, P) /\ Passed(r, f, 8)
  BY <1>2, <1>3, AroundRelaxed
<1> HIDE DEF r
<1> DEFINE M == r.dist
<1>5. /\ r.newtodo \in Seq(Free) /\ Spread(M) /\ Founded(M) /\ Eased(M, P \cup ToSet(r.newtodo))
  BY <1>4 DEF RightBut, States
<1>6. Eased(M, ToSet(q) \cup ToSet(r.newtodo))
  <2> SUFFICES ASSUME NEW x \in Free, NEW y \in Free, y \notin ToSet(q) \cup ToSet(r.newtodo), Adjacent(x, y)
               PROVE  M[x] <= Half(edges, x) + M[y] + Half(edges, y)
    BY DEF Eased
  <2>1. CASE y = f
    <3>1. x \in Fields(edges) /\ f \in Fields(edges)
      BY <1>2, FreeAre
    <3>2. PICK j \in 1 .. 8 : Beside(f, j) = x
      BY <2>1, <3>1, BesideIs
    <3>3. M[x] <= Half(edges, f) + M[f] + Half(edges, x)
      BY <1>4, <3>2 DEF Passed
    <3>4. Half(edges, f) \in Nat /\ Half(edges, x) \in Nat /\ M[f] \in Int /\ M[x] \in Int
      BY <1>5, <3>1, HalfIs DEF Spread
    <3> HIDE DEF M
    <3> QED BY <2>1, <3>3, <3>4
  <2>2. CASE y # f
    BY <1>5, <2>2 DEF Eased
  <2> QED BY <2>1, <2>2
<1>7. Searched(r.dist, q, r.newtodo)
  BY <1>2, <1>5, <1>6 DEF Searched
<1>8. r = FieldDone(m, t, n)
  BY Zenon DEF r, b, f, FieldDone
<1> QED BY <1>7, <1>8 DEF q

-----------------------------------------------------------------------------
\* When nothing is left to do, distances are the least there are.
LEMMA SearchEndsSettled ==
  ASSUME Placed, Meshed, Searched(dist, <<>>, <<>>)
  PROVE  Settled
<1>1. Spread(dist) /\ Founded(dist) /\ Eased(dist, {})
  <2>1. ToSet(<<>>) \cup ToSet(<<>>) = {}
    BY DEF ToSet
  <2> QED BY <2>1, Zenon DEF Searched
<1>2. \A f \in Free : Half(edges, f) \in Nat /\ dist[f] \in Int
  BY <1>1, FreeAre, HalfIs DEF Spread
<1> SUFFICES ASSUME NEW f \in Free
             PROVE  LET over == {Half(edges, f) + dist[g] + Half(edges, g) : g \in {h \in Free : Adjacent(f, h)}}
                        last == IF Adjacent(f, Target) THEN Reach(edges, f, ob_co) ELSE maximum
                    IN  dist[f] = Min(over \cup {last})
  BY DEF Settled
<1> DEFINE over == {Half(edges, f) + dist[g] + Half(edges, g) : g \in {h \in Free : Adjacent(f, h)}}
           last == IF Adjacent(f, Target) THEN Reach(edges, f, ob_co) ELSE maximum
<1>3. last = BaseOf(f) /\ BaseOf(f) \in Int
  BY BaseIs DEF BaseOf
<1>4. ASSUME NEW g \in Free, Adjacent(f, g)
      PROVE  /\ Half(edges, f) + dist[g] + Half(edges, g) \in Int
             /\ dist[f] <= Half(edges, f) + dist[g] + Half(edges, g)
  <2>1. Half(edges, f) \in Nat /\ Half(edges, g) \in Nat /\ dist[g] \in Int
    BY <1>2
  <2>2. dist[f] <= Half(edges, f) + dist[g] + Half(edges, g)
    BY <1>1, <1>4 DEF Eased
  <2> QED BY <2>1, <2>2
<1>5. over \subseteq Int /\ \A b \in over : dist[f] <= b
  BY <1>4
<1>6. dist[f] = last \/ \E b \in over : b <= dist[f]
  <2>1. \/ dist[f] = BaseOf(f)
        \/ \E g \in Free : Adjacent(f, g) /\ Half(edges, f) + dist[g] + Half(edges, g) <= dist[f]
    BY <1>1 DEF Founded
  <2> QED BY <1>3, <2>1
<1>7. dist[f] <= last /\ last \in Int /\ dist[f] \in Int
  BY <1>1, <1>2, <1>3 DEF Spread
<1> DEFINE S == over \cup {last}
           a == dist[f]
<1> HIDE DEF over, last
<1>8. a \in S /\ S \in SUBSET Int /\ \A b \in S : a <= b
  <2>1. ASSUME NEW b \in over, b <= a PROVE a \in S
    <3>1. b = a
      BY <1>5, <1>7, <2>1
    <3> QED BY <3>1
  <2>2. a \in S
    BY <1>6, <2>1
  <2> QED BY <1>5, <1>7, <2>2
<1> HIDE DEF S, a
<1>9. Min(S) = a
  BY <1>8, MinIs
<1> QED BY <1>9 DEF S, a, over, last

-----------------------------------------------------------------------------
\* The best of some directions.
LEMMA BestIs ==
  ASSUME NEW f, NEW value, NEW T \in SUBSET (1 .. 8), T # {}, \A k \in T : value[Beside(f, k)] \in Int
  PROVE  \E k \in T : Best(f, value, T) = Beside(f, k) /\ \A j \in T : value[Best(f, value, T)] <= value[Beside(f, j)]
<1> DEFINE v == [k \in T |-> value[Beside(f, k)]]
           B == {k \in T : \A j \in T : value[Beside(f, k)] <= value[Beside(f, j)]}
           w == [k \in B |-> k]
<1>1. IsFiniteSet(1 .. 8)
  <2>1. 1 \in Int /\ 8 \in Int
    OBVIOUS
  <2> QED BY <2>1, FS_Interval
<1>2. IsFiniteSet(T)
  BY <1>1, FS_Subset
<1>3. \A k \in T : v[k] \in Int /\ v[k] = value[Beside(f, k)]
  OBVIOUS
<1> HIDE DEF v
<1>4. \E k \in T : \A j \in T : v[k] <= v[j]
  BY <1>2, <1>3, LeastValue
<1>5. B # {} /\ B \in SUBSET T
  BY <1>3, <1>4
<1>6. IsFiniteSet(B)
  BY <1>2, <1>5, FS_Subset
<1>7. \A k \in B : k \in Int
  BY <1>5
<1> HIDE DEF B
<1>8. \A k \in B : w[k] \in Int /\ w[k] = k
  BY <1>7
<1> HIDE DEF w
<1>9. PICK k \in B : \A j \in B : w[k] <= w[j]
  BY <1>5, <1>6, <1>8, LeastValue
<1>10. Min(B) = k
  <2>1. B \in SUBSET Int /\ \A j \in B : k <= j
    BY <1>7, <1>8, <1>9
  <2> QED BY <2>1, MinIs
<1>11. Best(f, value, T) = Beside(f, k)
  BY <1>10, Zenon DEF Best, B
<1>12. k \in T /\ \A j \in T : value[Beside(f, k)] <= value[Beside(f, j)]
  BY <1>9 DEF B
<1> QED BY <1>11, <1>12

\* Fields beside f with a value below the limit are found.
LEMMA LowerIs ==
  ASSUME Meshed, NEW f \in Fields(edges), NEW value \in [Fields(edges) -> Int], NEW limit,
         dist \in [Fields(edges) -> Int]
  PROVE  /\ Lower(f, value, limit) = {} =>
              \A g \in Fields(edges) : Adjacent(f, g) /\ dist[g] >= 0 => ~(value[g] < limit)
         /\ Lower(f, value, limit) # {} =>
              LET best == Best(f, value, Lower(f, value, limit))
              IN  /\ best \in Fields(edges) /\ Adjacent(f, best) /\ dist[best] >= 0 /\ value[best] < limit
                  /\ \A g \in Fields(edges) :
                       Adjacent(f, g) /\ dist[g] >= 0 /\ value[g] < limit => value[best] <= value[g]
<1> DEFINE T == Lower(f, value, limit)
           best == Best(f, value, T)
<1>1. /\ T \in SUBSET (1 .. 8)
      /\ \A k \in T : Beside(f, k) \in Fields(edges) /\ dist[Beside(f, k)] >= 0 /\ value[Beside(f, k)] < limit
  BY DEF Lower
<1>2. ASSUME NEW g \in Fields(edges), Adjacent(f, g), dist[g] >= 0, value[g] < limit
      PROVE  \E k \in T : Beside(f, k) = g
  <2>1. PICK k \in 1 .. 8 : Beside(f, k) = g
    BY <1>2, BesideIs
  <2>2. k \in T
    BY <1>2, <2>1 DEF Lower
  <2> QED BY <2>1, <2>2
<1> HIDE DEF T
<1>3. ASSUME T # {}
      PROVE  /\ best \in Fields(edges) /\ Adjacent(f, best) /\ dist[best] >= 0 /\ value[best] < limit
             /\ \A g \in Fields(edges) : Adjacent(f, g) /\ dist[g] >= 0 /\ value[g] < limit => value[best] <= value[g]
  <2>1. \A k \in T : value[Beside(f, k)] \in Int
    BY <1>1
  <2>2. PICK k \in T : best = Beside(f, k) /\ \A j \in T : value[best] <= value[Beside(f, j)]
    BY <1>1, <1>3, <2>1, BestIs
  <2>3. k \in 1 .. 8 /\ best \in Fields(edges)
    BY <1>1, <2>2
  <2>4. Adjacent(f, best)
    BY <2>2, <2>3, BesideIs
  <2> QED BY <1>1, <1>2, <2>2, <2>3, <2>4
<1>4. ASSUME T = {} PROVE \A g \in Fields(edges) : Adjacent(f, g) /\ dist[g] >= 0 => ~(value[g] < limit)
  BY <1>2, <1>4
<1> QED BY <1>3, <1>4 DEF T

-----------------------------------------------------------------------------
\* What the first station costs on the whole.
WayCost(E, g) == Reach(edges, g, me_co) + E[g]

\* The stations s follow the settled distances E down to the target, from the best one beside
\* the npc on; in d, the distance of the npc's own field is that of this way.
OnWay(E, d, s) ==
  /\ Spread(E) /\ Founded(E) /\ Eased(E, {})
  /\ d = [E EXCEPT ![Own] = WayCost(E, s[1])]
  /\ s \in Seq(Free) /\ s # <<>>
  /\ \A i \in 1 .. Len(s) : s[i] # Own /\ E[s[i]] <= E[s[1]]
  /\ \A i \in 1 .. Len(s) - 1 : Adjacent(s[i], s[i+1])
  /\ Adjacent(Own, s[1]) /\ WayCost(E, s[1]) < maximum
  /\ \A g \in Free : Adjacent(Own, g) => WayCost(E, s[1]) <= WayCost(E, g)

\* The fields of the npc and of its target.
LEMMA EndsAre ==
  ASSUME Placed, Meshed
  PROVE  Own \in Fields(edges) /\ Target \in Fields(edges)
  BY FieldOfIs DEF Own, Target, Placed

\* The npc's own reach.
LEMMA OwnReach ==
  ASSUME Placed, Meshed, NEW g \in Fields(edges)
  PROVE  /\ Reach(edges, g, me_co) \in Nat
         /\ g # Own => Reach(edges, g, me_co) >= 1
         /\ Adjacent(Own, g) => Reach(edges, g, me_co) <= 2 * Half(edges, Own) + Half(edges, g) + 1
<1>1. me_co \in Spots
  BY DEF Placed
<1>2. Adjacent(Own, g) => Adjacent(g, Own)
  BY EndsAre, BesideIs
<1> QED BY <1>1, <1>2, ReachIs, ReachAtLeast, ReachAtMost DEF Own

\* What a walk knows of the fields beside its last station.
LEMMA WalkSees ==
  ASSUME Placed, Meshed, Apart, NEW E, NEW s, OnWay(E, dist, s), NEW f, f = s[Len(s)]
  PROVE  /\ dist \in [Fields(edges) -> Int] /\ f \in Free /\ f \in Fields(edges) /\ f # Own
         /\ dist[f] = E[f] /\ E[f] \in Int /\ E[f] >= 1 /\ E[f] < maximum
         /\ dist[Own] = WayCost(E, s[1]) /\ WayCost(E, s[1]) \in Int /\ E[f] < WayCost(E, s[1])
         /\ s[1] \in Free /\ s[1] # Own
         /\ E[f] <= E[s[1]] /\ E[s[1]] \in Int
         /\ \A g \in Fields(edges) : g # Own => dist[g] = E[g]
<1>1. Own \in Fields(edges) /\ Free \subseteq Fields(edges)
  BY EndsAre, FreeAre
<1>2. E \in [Fields(edges) -> Int] /\ \A g \in Free : E[g] \in Int /\ E[g] >= 1
  BY <1>1 DEF OnWay, Spread
<1>3. Len(s) \in Nat \ {0} /\ \A i \in 1 .. Len(s) : s[i] \in Free /\ s[i] # Own /\ E[s[i]] <= E[s[1]]
  <2>1. s \in Seq(Free) /\ s # <<>> /\ \A i \in 1 .. Len(s) : s[i] # Own /\ E[s[i]] <= E[s[1]]
    BY DEF OnWay
  <2> QED BY <2>1
<1>4. 1 \in 1 .. Len(s) /\ Len(s) \in 1 .. Len(s)
  BY <1>3
<1>5. f \in Free /\ f # Own /\ E[f] <= E[s[1]] /\ s[1] \in Free /\ s[1] # Own
  BY <1>3, <1>4
<1> DEFINE r == Reach(edges, s[1], me_co)
           a == E[s[1]]
           v == WayCost(E, s[1])
<1>6. r \in Nat /\ r >= 1 /\ a \in Int /\ v = r + a
  BY <1>1, <1>2, <1>5, OwnReach DEF WayCost
<1>7. v < maximum /\ maximum \in Int
  BY <1>5, BaseIs DEF OnWay
<1> DEFINE p == E[f]
<1>8. p \in Int /\ p >= 1 /\ p <= a
  BY <1>2, <1>5
<1> HIDE DEF r, a, v, p
<1>9. v \in Int /\ p < v /\ p < maximum
  BY <1>6, <1>7, <1>8
<1>10. dist = [E EXCEPT ![Own] = v]
  BY DEF OnWay, v
<1>11. /\ dist \in [Fields(edges) -> Int] /\ dist[Own] = v
       /\ \A g \in Fields(edges) : g # Own => dist[g] = E[g]
  BY <1>1, <1>2, <1>9, <1>10
<1> QED BY <1>1, <1>5, <1>6, <1>8, <1>9, <1>11 DEF r, a, v, p

\* A walk gets stuck at a field narrower than 2 only.
LEMMA StuckNarrow ==
  ASSUME Placed, Meshed, Apart, NEW E, NEW s, OnWay(E, dist, s), NEW f, f = s[Len(s)],
         \A g \in Fields(edges) : Adjacent(f, g) /\ dist[g] >= 0 => ~(dist[g] < dist[f])
  PROVE  \E g \in Free : Half(edges, g) = 0
<1>1. /\ dist \in [Fields(edges) -> Int] /\ f \in Free /\ f \in Fields(edges) /\ f # Own
      /\ dist[f] = E[f] /\ E[f] \in Int /\ E[f] >= 1 /\ E[f] < maximum
      /\ dist[Own] = WayCost(E, s[1]) /\ WayCost(E, s[1]) \in Int /\ E[f] < WayCost(E, s[1])
      /\ s[1] \in Free /\ s[1] # Own
      /\ E[f] <= E[s[1]] /\ E[s[1]] \in Int
      /\ \A g \in Fields(edges) : g # Own => dist[g] = E[g]
  BY WalkSees
<1>2. Spread(E) /\ Founded(E)
  BY DEF OnWay
<1>3. Own \in Fields(edges) /\ Target \in Fields(edges) /\ Free \subseteq Fields(edges) /\ Own # Target
  BY EndsAre, FreeAre DEF Apart
<1>4. ~Adjacent(f, Target)
  <2> SUFFICES ASSUME Adjacent(f, Target) PROVE FALSE
    OBVIOUS
  <2>1. dist[Target] = 0
    BY <1>1, <1>2, <1>3 DEF Spread
  <2>2. ~(dist[Target] < dist[f])
    BY <1>3, <2>1
  <2> QED BY <1>1, <2>1, <2>2
<1>5. E[f] # BaseOf(f)
  <2>1. BaseOf(f) = maximum /\ maximum \in Int
    BY <1>1, <1>4, BaseIs DEF BaseOf
  <2> QED BY <1>1, <2>1
<1>6. PICK g \in Free : Adjacent(f, g) /\ Half(edges, f) + E[g] + Half(edges, g) <= E[f]
  BY <1>1, <1>2, <1>5 DEF Founded
<1>7. /\ g \in Fields(edges) /\ E[g] \in Int /\ E[g] >= 1
      /\ Half(edges, f) \in Nat /\ Half(edges, g) \in Nat
  BY <1>1, <1>2, <1>3, <1>6, HalfIs DEF Spread
<1> DEFINE hf == Half(edges, f)
           hg == Half(edges, g)
           ef == E[f]
           eg == E[g]
<1>8. CASE g # Own
  <2>1. dist[g] = eg /\ dist[f] = ef
    BY <1>1, <1>7, <1>8
  <2>2. ~(dist[g] < dist[f])
    BY <1>6, <1>7, <2>1
  <2>3. hf + eg + hg <= ef /\ ~(eg < ef) /\ hf \in Nat /\ hg \in Nat /\ eg \in Int /\ ef \in Int
    BY <1>1, <1>6, <1>7, <2>1, <2>2
  <2> HIDE DEF hf, hg, ef, eg
  <2>4. hf = 0
    BY <2>3
  <2> QED BY <1>1, <2>4 DEF hf
<1>9. CASE g = Own
  <2> DEFINE v == WayCost(E, s[1])
             r1 == Reach(edges, s[1], me_co)
             e1 == E[s[1]]
  <2>1. Own \in Free /\ ~Adjacent(Own, Target)
    BY <1>9 DEF Apart
  <2>2. eg # BaseOf(Own)
    <3>1. BaseOf(Own) = maximum /\ maximum \in Int
      BY <2>1, BaseIs DEF BaseOf
    <3>2. hf + eg + hg <= ef /\ ef < maximum /\ hf \in Nat /\ hg \in Nat /\ eg \in Int /\ ef \in Int
      BY <1>1, <1>6, <1>7
    <3> HIDE DEF hf, hg, ef, eg
    <3> QED BY <3>1, <3>2
  <2>3. PICK h \in Free : Adjacent(Own, h) /\ Half(edges, Own) + E[h] + Half(edges, h) <= E[Own]
    BY <1>2, <1>9, <2>1, <2>2 DEF Founded
  <2> DEFINE hh == Half(edges, h)
             eh == E[h]
             rh == Reach(edges, h, me_co)
  <2>4. h \in Fields(edges) /\ eh \in Int /\ hh \in Nat
    BY <1>2, <1>3, HalfIs DEF Spread
  <2>5. rh \in Nat /\ rh <= 2 * hg + hh + 1
    BY <1>9, <2>3, <2>4, OwnReach
  <2>6. r1 \in Nat /\ r1 >= 1
    BY <1>1, <1>3, OwnReach
  <2>7. v = r1 + e1 /\ WayCost(E, h) = rh + eh
    BY DEF WayCost
  <2>8. r1 + e1 <= rh + eh
    <3>1. v <= WayCost(E, h)
      BY <2>3 DEF OnWay
    <3> QED BY <2>7, <3>1
  <2>9. hg + eh + hh <= eg
    BY <1>9, <2>3
  <2>10. hf + eg + hg <= ef /\ ef <= e1
    BY <1>1, <1>6
  <2>11. hf \in Nat /\ hg \in Nat /\ eg \in Int /\ ef \in Int /\ e1 \in Int
    BY <1>1, <1>7
  <2> HIDE DEF hf, hg, ef, eg, hh, eh, rh, r1, e1
  <2>12. hf = 0
    <3>1. r1 + e1 <= 2 * hg + hh + 1 + eh
      BY <2>4, <2>5, <2>6, <2>8, <2>11
    <3>2. r1 + e1 <= hg + 1 + eg
      BY <2>4, <2>6, <2>9, <2>11, <3>1
    <3>3. r1 + hf <= 1
      BY <2>6, <2>10, <2>11, <3>2
    <3> QED BY <2>6, <2>11, <3>3
  <2> QED BY <1>1, <2>12 DEF hf
<1> QED BY <1>8, <1>9

\* The first station, if there is one.
LEMMA WalkBegins ==
  ASSUME Placed, Meshed, Apart, Searched(dist, <<>>, <<>>),
         NEW g \in Fields(edges), Adjacent(Own, g), dist[g] >= 0, WayCost(dist, g) < maximum,
         \A h \in Fields(edges) :
            Adjacent(Own, h) /\ dist[h] >= 0 /\ WayCost(dist, h) < maximum => WayCost(dist, g) <= WayCost(dist, h)
  PROVE  OnWay(dist, [dist EXCEPT ![Own] = WayCost(dist, g)], <<g>>)
<1>1. Spread(dist) /\ Founded(dist) /\ Eased(dist, {})
  <2>1. ToSet(<<>>) \cup ToSet(<<>>) = {}
    BY DEF ToSet
  <2> QED BY <2>1, Zenon DEF Searched
<1>2. g \in Free /\ g # Own
  <2>1. g # Target /\ g # Own
    BY DEF Apart, Adjacent
  <2> QED BY <1>1, <2>1 DEF Spread
<1>3. \A h \in Free : h \in Fields(edges) /\ dist[h] >= 1 /\ dist[h] \in Int /\ WayCost(dist, h) \in Int
  <2> SUFFICES ASSUME NEW h \in Free
               PROVE  h \in Fields(edges) /\ dist[h] >= 1 /\ dist[h] \in Int /\ WayCost(dist, h) \in Int
    OBVIOUS
  <2>1. h \in Fields(edges)
    BY FreeAre
  <2>2. dist[h] >= 1 /\ dist[h] \in Int /\ Reach(edges, h, me_co) \in Nat
    BY <1>1, <2>1, OwnReach DEF Spread
  <2> QED BY <2>1, <2>2 DEF WayCost
<1>4. \A h \in Free : Adjacent(Own, h) => WayCost(dist, g) <= WayCost(dist, h)
  <2> SUFFICES ASSUME NEW h \in Free, Adjacent(Own, h) PROVE WayCost(dist, g) <= WayCost(dist, h)
    OBVIOUS
  <2>1. h \in Fields(edges) /\ dist[h] >= 0
    BY <1>3
  <2>2. CASE WayCost(dist, h) < maximum
    BY <2>1, <2>2
  <2>3. CASE ~(WayCost(dist, h) < maximum)
    <3> DEFINE p == WayCost(dist, g)
               q == WayCost(dist, h)
    <3>1. p \in Int /\ q \in Int /\ p < maximum /\ ~(q < maximum) /\ maximum \in Int
      BY <1>2, <1>3, <2>3, BaseIs
    <3> HIDE DEF p, q
    <3>2. p <= q
      BY <3>1
    <3> QED BY <3>2 DEF p, q
  <2> QED BY <2>2, <2>3
<1> DEFINE s == <<g>>
<1>5. s \in Seq(Free) /\ s # <<>> /\ Len(s) = 1 /\ s[1] = g
  BY <1>2
<1> HIDE DEF s
<1>6. \A i \in 1 .. Len(s) : s[i] # Own /\ dist[s[i]] <= dist[s[1]]
  <2>1. \A i \in 1 .. Len(s) : i = 1
    BY <1>5
  <2>2. dist[g] <= dist[g]
    BY <1>2, <1>3
  <2> QED BY <1>2, <1>5, <2>1, <2>2
<1>7. \A i \in 1 .. Len(s) - 1 : FALSE
  BY <1>5
<1>8. [dist EXCEPT ![Own] = WayCost(dist, g)] = [dist EXCEPT ![Own] = WayCost(dist, s[1])]
  BY <1>5
<1>9. /\ Adjacent(Own, s[1]) /\ WayCost(dist, s[1]) < maximum
      /\ \A h \in Free : Adjacent(Own, h) => WayCost(dist, s[1]) <= WayCost(dist, h)
  BY <1>4, <1>5
<1>10. OnWay(dist, [dist EXCEPT ![Own] = WayCost(dist, g)], s)
  BY <1>1, <1>5, <1>6, <1>7, <1>8, <1>9, Zenon DEF OnWay
<1> QED BY <1>10 DEF s

\* The next one.
LEMMA WalkGoesOn ==
  ASSUME Placed, Meshed, Apart, NEW E, NEW s, OnWay(E, dist, s), NEW f, f = s[Len(s)],
         NEW g \in Fields(edges), Adjacent(f, g), dist[g] >= 0, dist[g] < dist[f]
  PROVE  (dist[g] = 0 => g = Target) /\ (dist[g] # 0 => OnWay(E, dist, Append(s, g)))
<1>1. /\ dist \in [Fields(edges) -> Int] /\ f \in Free /\ f \in Fields(edges) /\ f # Own
      /\ dist[f] = E[f] /\ E[f] \in Int /\ E[f] >= 1 /\ E[f] < maximum
      /\ dist[Own] = WayCost(E, s[1]) /\ WayCost(E, s[1]) \in Int /\ E[f] < WayCost(E, s[1])
      /\ s[1] \in Free /\ s[1] # Own
      /\ E[f] <= E[s[1]] /\ E[s[1]] \in Int
      /\ \A h \in Fields(edges) : h # Own => dist[h] = E[h]
  BY WalkSees
<1>2. Spread(E)
  BY DEF OnWay
<1>3. g # Own
  BY <1>1
<1>4. dist[g] = E[g] /\ E[g] \in Int /\ E[g] >= 0 /\ E[g] <= E[s[1]]
  <2>1. dist[g] = E[g] /\ dist[g] \in Int /\ dist[f] = E[f]
    BY <1>1, <1>3
  <2> DEFINE p == E[g]
             q == E[f]
             r == E[s[1]]
  <2>2. p \in Int /\ q \in Int /\ r \in Int /\ p < q /\ q <= r /\ p >= 0
    BY <1>1, <2>1
  <2> HIDE DEF p, q, r
  <2>3. p \in Int /\ p >= 0 /\ p <= r
    BY <2>2
  <2> QED BY <2>1, <2>3 DEF p, r
<1>5. g \in Free \/ g = Target
  BY <1>2, <1>4 DEF Spread
<1>6. g \in Free => E[g] >= 1
  BY <1>2 DEF Spread
<1>7. g = Target => E[g] = 0
  BY <1>2 DEF Spread
<1>8. ASSUME dist[g] # 0 PROVE OnWay(E, dist, Append(s, g))
  <2> DEFINE t == Append(s, g)
             n == Len(s)
  <2>1. g \in Free
    BY <1>4, <1>5, <1>7, <1>8
  <2>2. /\ s \in Seq(Free) /\ s # <<>>
        /\ \A i \in 1 .. n : s[i] # Own /\ E[s[i]] <= E[s[1]]
        /\ \A i \in 1 .. n - 1 : Adjacent(s[i], s[i+1])
    BY DEF OnWay
  <2>3. n \in Nat \ {0} /\ t \in Seq(Free) /\ t # <<>> /\ Len(t) = n + 1
    BY <2>1, <2>2
  <2>4. t[n + 1] = g /\ \A i \in 1 .. n : t[i] = s[i]
    BY <2>1, <2>2
  <2>5. t[1] = s[1] /\ t[n] = f
    BY <2>3, <2>4
  <2> HIDE DEF t, n
  <2>6. \A i \in 1 .. Len(t) : t[i] # Own /\ E[t[i]] <= E[t[1]]
    <3>1. \A i \in 1 .. Len(t) : i \in 1 .. n \/ i = n + 1
      BY <2>3
    <3> QED BY <1>3, <1>4, <2>2, <2>4, <2>5, <3>1
  <2>7. \A i \in 1 .. Len(t) - 1 : Adjacent(t[i], t[i+1])
    <3> SUFFICES ASSUME NEW i \in 1 .. Len(t) - 1 PROVE Adjacent(t[i], t[i+1])
      OBVIOUS
    <3>1. CASE i = n
      BY <2>4, <2>5, <3>1
    <3>2. CASE i # n
      <4>1. i \in 1 .. n - 1 /\ i \in 1 .. n /\ i + 1 \in 1 .. n
        BY <2>3, <3>2
      <4> QED BY <2>2, <2>4, <4>1
    <3> QED BY <3>1, <3>2
  <2>8. OnWay(E, dist, s) => OnWay(E, dist, t)
    BY <2>3, <2>5, <2>6, <2>7, Zenon DEF OnWay
  <2> QED BY <2>8 DEF t
<1> QED BY <1>4, <1>5, <1>6, <1>8

-----------------------------------------------------------------------------
WayInd ==
  /\ Placed
  /\ finding # "begin" => WayLeads
  /\ finding \in {"search", "begin", "walk"} => Apart
  /\ finding = "mesh" => newtodo = <<>>
  /\ finding = "search" => Searched(dist, todo, newtodo)
  /\ finding = "begin" => Searched(dist, <<>>, <<>>)
  /\ finding = "walk" => \E E : OnWay(E, dist, togo)

\* What blocks, the npc and its target stay where they are.
LEMMA NothingMoves ==
  ASSUME UNCHANGED <<blockers, me_co, ob_co, edges>>
  PROVE  /\ (Placed <=> Placed') /\ Free' = Free /\ Own' = Own /\ Target' = Target
         /\ Apart <=> Apart'
<1>1. blockers' = blockers /\ me_co' = me_co /\ ob_co' = ob_co /\ edges' = edges
  OBVIOUS
<1>2. Own' = Own /\ Target' = Target
  BY <1>1 DEF Own, Target
<1>3. \A f : Blocked(edges, f)' <=> Blocked(edges, f)
  BY <1>1 DEF Blocked
<1>4. Free' = Free
  BY <1>1, <1>2, <1>3 DEF Free
<1>5. Placed <=> Placed'
  BY <1>1 DEF Placed
<1>6. Apart <=> Apart'
  BY <1>2 DEF Apart
<1> QED BY <1>2, <1>4, <1>5, <1>6

\* So do the distances from there,
LEMMA SpreadStays ==
  ASSUME UNCHANGED <<blockers, me_co, ob_co, edges>>, NEW m, Spread(m), Founded(m)
  PROVE  Spread(m)' /\ Founded(m)'
<1>1. Free' = Free /\ Own' = Own /\ Target' = Target
  BY NothingMoves
<1> QED BY <1>1 DEF Spread, Founded, BaseOf

\* what is searched,
LEMMA SearchedStays ==
  ASSUME UNCHANGED <<blockers, me_co, ob_co, edges>>, NEW m, NEW t, NEW n, Searched(m, t, n)
  PROVE  Searched(m, t, n)'
<1>1. Free' = Free /\ edges' = edges
  BY NothingMoves
<1>2. Spread(m)' /\ Founded(m)'
  BY SpreadStays DEF Searched
<1> QED BY <1>1, <1>2 DEF Searched, Eased

\* and where the way has got to.
LEMMA OnWayStays ==
  ASSUME UNCHANGED <<blockers, me_co, ob_co, edges>>, NEW E, NEW d, NEW s, OnWay(E, d, s)
  PROVE  OnWay(E, d, s)'
<1>1. Free' = Free /\ Own' = Own /\ edges' = edges /\ me_co' = me_co
  BY NothingMoves
<1>2. Spread(E)' /\ Founded(E)'
  BY SpreadStays DEF OnWay
<1> QED BY <1>1, <1>2 DEF OnWay, Eased, WayCost

\* Each step keeps WayInd.
LEMMA WayStarts == WayInit => WayInd
  BY DEF WayInit, WayInd, Placed, WayLeads

LEMMA MeshKeeps ==
  ASSUME WayInd, Mesh
  PROVE  WayInd'
<1>1. finding = "mesh" /\ Placed /\ newtodo = <<>> /\ UNCHANGED <<blockers, me_co, ob_co, edges, newtodo, togo>>
  BY DEF Mesh, WayInd
<1>2. Meshed /\ Placed'
  BY <1>1, PlacedMeshed, NothingMoves
<1>3. CASE finding' \in {"none", "near"}
  BY <1>2, <1>3 DEF WayInd, WayLeads
<1>4. CASE finding' \notin {"none", "near"}
  <2> DEFINE r == FoldLeft(LAMBDA t, k : IF Beside(Target, k) \in Free THEN Append(t, Beside(Target, k)) ELSE t,
                           <<>>, AllRound)
             m == [f \in Fields(edges) |-> IF f = Target THEN 0 ELSE IF f \notin Free THEN -1 ELSE BaseOf(f)]
  <2>1. finding' = "search" /\ Apart
    BY <1>4 DEF Mesh, Apart
  <2>2. dist' = m
    BY <1>4 DEF Mesh, Free, BaseOf
  <2>3. todo' = r
    BY <1>4, Zenon DEF Mesh, Free
  <2>4. Target \in Fields(edges)
    BY <1>1, <1>2, EndsAre
  <2>5. r \in Seq(Free) /\ \A f \in Free : Adjacent(f, Target) => f \in ToSet(r)
    BY <1>2, <2>4, AroundTarget
  <2> HIDE DEF r
  <2>6. Spread(m) /\ Founded(m) /\ Eased(m, ToSet(r))
    <3> HIDE DEF m
    <3> QED BY <1>1, <1>2, <2>5, FirstSpread DEF m
  <2> HIDE DEF m
  <2>7. Searched(m, r, <<>>)
    <3>1. ToSet(r) \cup ToSet(<<>>) = ToSet(r)
      BY DEF ToSet
    <3>2. <<>> \in Seq(Free)
      OBVIOUS
    <3> QED BY <2>5, <2>6, <3>1, <3>2 DEF Searched
  <2>8. Searched(dist, todo, newtodo)'
    <3>1. Searched(dist', todo', newtodo')
      BY <1>1, <2>2, <2>3, <2>7
    <3> QED BY <1>1, <3>1, SearchedStays
  <2>9. Apart'
    BY <1>1, <2>1, NothingMoves
  <2> QED BY <1>2, <2>1, <2>8, <2>9 DEF WayInd, WayLeads
<1> QED BY <1>3, <1>4

LEMMA SearchKeeps ==
  ASSUME WayInd, Search
  PROVE  WayInd'
<1>1. /\ finding = "search" /\ todo # <<>> /\ Placed /\ Apart /\ Searched(dist, todo, newtodo)
      /\ UNCHANGED <<blockers, me_co, ob_co, edges, togo>>
  BY DEF Search, WayInd
<1>2. Meshed /\ Placed' /\ Apart'
  BY <1>1, PlacedMeshed, NothingMoves
<1> DEFINE r == FieldDone(dist, todo, newtodo)
<1>3. /\ newtodo' = r.newtodo
      /\ IF Len(r.newtodo) > Cardinality(Fields(edges))
         THEN finding' = "error" /\ UNCHANGED <<dist, todo>>
         ELSE dist' = r.dist /\ todo' = Tail(todo) /\ UNCHANGED finding
  BY Zenon DEF Search, FieldDone
<1>4. Searched(r.dist, Tail(todo), r.newtodo)
  BY <1>1, <1>2, SearchGoesOn
<1> HIDE DEF r
<1>5. CASE Len(r.newtodo) > Cardinality(Fields(edges))
  <2>1. finding' = "error" /\ Len(newtodo') > Cardinality(Fields(edges'))
    BY <1>1, <1>3, <1>5
  <2> QED BY <1>2, <2>1 DEF WayInd, WayLeads
<1>6. CASE ~(Len(r.newtodo) > Cardinality(Fields(edges)))
  <2>1. finding' = "search" /\ Searched(dist', todo', newtodo')
    BY <1>1, <1>3, <1>4, <1>6
  <2>2. Searched(dist, todo, newtodo)'
    BY <1>1, <2>1, SearchedStays
  <2> QED BY <1>2, <2>1, <2>2 DEF WayInd, WayLeads
<1> QED BY <1>5, <1>6

LEMMA EndRoundKeeps ==
  ASSUME WayInd, EndRound
  PROVE  WayInd'
<1>1. /\ finding = "search" /\ todo = <<>> /\ Placed /\ Apart /\ Searched(dist, todo, newtodo)
      /\ todo' = newtodo /\ newtodo' = <<>>
      /\ finding' = IF newtodo = <<>> THEN "begin" ELSE "search"
      /\ UNCHANGED <<blockers, me_co, ob_co, edges, dist, togo>>
  BY DEF EndRound, WayInd
<1>2. Placed' /\ Apart'
  BY <1>1, NothingMoves
<1>3. Searched(dist, newtodo, <<>>)
  <2>1. ToSet(newtodo) \cup ToSet(<<>>) = ToSet(<<>>) \cup ToSet(newtodo)
    OBVIOUS
  <2> QED BY <1>1, <2>1 DEF Searched
<1>4. Searched(dist', todo', <<>>) /\ Searched(dist', todo', newtodo')
  BY <1>1, <1>3
<1>5. Searched(dist, todo, <<>>)' /\ Searched(dist, todo, newtodo)'
  BY <1>1, <1>4, SearchedStays
<1>6. CASE newtodo = <<>>
  BY <1>1, <1>2, <1>5, <1>6 DEF WayInd
<1>7. CASE newtodo # <<>>
  BY <1>1, <1>2, <1>5, <1>7 DEF WayInd, WayLeads
<1> QED BY <1>6, <1>7

LEMMA BeginKeeps ==
  ASSUME WayInd, Begin
  PROVE  WayInd'
<1>1. /\ finding = "begin" /\ Placed /\ Apart /\ Searched(dist, <<>>, <<>>)
      /\ UNCHANGED <<blockers, me_co, ob_co, edges, todo, newtodo>>
  BY DEF Begin, WayInd
<1>2. Meshed /\ Placed' /\ Apart'
  BY <1>1, PlacedMeshed, NothingMoves
<1> DEFINE value == [g \in Fields(edges) |-> Reach(edges, g, me_co) + dist[g]]
           lower == Lower(Own, value, maximum)
           best == Best(Own, value, lower)
<1>3. IF lower = {}
      THEN finding' = "error" /\ UNCHANGED <<dist, togo>>
      ELSE togo' = <<best>> /\ finding' = "walk" /\ dist' = [dist EXCEPT ![Own] = value[best]]
  BY Zenon DEF Begin
<1>4. dist \in [Fields(edges) -> Int] /\ Own \in Fields(edges) /\ Free \subseteq Fields(edges)
  BY <1>1, <1>2, EndsAre, FreeAre DEF Searched, Spread
<1>5. \A g \in Fields(edges) : value[g] = WayCost(dist, g)
  BY DEF WayCost
<1>6. value \in [Fields(edges) -> Int]
  <2>1. \A g \in Fields(edges) : Reach(edges, g, me_co) + dist[g] \in Int
    BY <1>1, <1>2, <1>4, OwnReach
  <2> QED BY <2>1
<1> HIDE DEF value
<1>7. /\ lower = {} => \A g \in Fields(edges) : Adjacent(Own, g) /\ dist[g] >= 0 => ~(value[g] < maximum)
      /\ lower # {} =>
           /\ best \in Fields(edges) /\ Adjacent(Own, best) /\ dist[best] >= 0 /\ value[best] < maximum
           /\ \A g \in Fields(edges) : Adjacent(Own, g) /\ dist[g] >= 0 /\ value[g] < maximum => value[best] <= value[g]
  BY <1>2, <1>4, <1>6, LowerIs
<1> HIDE DEF lower, best
<1>8. CASE lower = {}
  <2>1. finding' = "error" /\ dist' = dist /\ edges' = edges /\ me_co' = me_co
    BY <1>1, <1>3, <1>8
  <2>2. Free' = Free /\ Own' = Own
    BY <1>1, NothingMoves
  <2>3. ASSUME NEW f \in Free, Adjacent(Own, f) PROVE dist[f] + Reach(edges, f, me_co) >= maximum
    <3>1. f \in Fields(edges) /\ dist[f] \in Int /\ dist[f] >= 1 /\ maximum \in Int
      BY <1>1, <1>2, <1>4, BaseIs DEF Searched, Spread
    <3>2. ~(value[f] < maximum)
      BY <1>7, <1>8, <2>3, <3>1
    <3> DEFINE p == Reach(edges, f, me_co)
               q == dist[f]
    <3>3. p \in Nat /\ q \in Int /\ value[f] = p + q
      BY <1>1, <1>2, <1>5, <3>1, OwnReach DEF WayCost
    <3> HIDE DEF p, q
    <3>4. q + p >= maximum
      BY <3>1, <3>2, <3>3
    <3> QED BY <3>4 DEF p, q
  <2>4. finding' = "error" /\ \A f \in Free' : Adjacent(Own', f) => dist'[f] + Reach(edges', f, me_co') >= maximum
    BY <2>1, <2>2, <2>3
  <2> QED BY <1>2, <2>4 DEF WayInd, WayLeads
<1>9. CASE lower # {}
  <2>1. togo' = <<best>> /\ finding' = "walk" /\ dist' = [dist EXCEPT ![Own] = WayCost(dist, best)]
    BY <1>3, <1>5, <1>7, <1>9
  <2>2. OnWay(dist, [dist EXCEPT ![Own] = WayCost(dist, best)], <<best>>)
    <3>1. best \in Fields(edges) /\ Adjacent(Own, best) /\ dist[best] >= 0 /\ WayCost(dist, best) < maximum
      BY <1>5, <1>7, <1>9
    <3>2. \A h \in Fields(edges) :
            Adjacent(Own, h) /\ dist[h] >= 0 /\ WayCost(dist, h) < maximum => WayCost(dist, best) <= WayCost(dist, h)
      BY <1>5, <1>7, <1>9
    <3> QED BY <1>1, <1>2, <3>1, <3>2, WalkBegins
  <2>3. \E E : OnWay(E, dist', togo')
    BY <2>1, <2>2
  <2>4. (\E E : OnWay(E, dist, togo))'
    BY <1>1, <2>3, OnWayStays
  <2> QED BY <1>2, <2>1, <2>4 DEF WayInd, WayLeads
<1> QED BY <1>8, <1>9

LEMMA WalkKeeps ==
  ASSUME WayInd, Walk
  PROVE  WayInd'
<1>1. /\ finding = "walk" /\ Placed /\ Apart /\ \E E : OnWay(E, dist, togo)
      /\ UNCHANGED <<blockers, me_co, ob_co, edges, dist, todo, newtodo>>
  BY DEF Walk, WayInd
<1>2. Meshed /\ Placed' /\ Apart'
  BY <1>1, PlacedMeshed, NothingMoves
<1>3. PICK E : OnWay(E, dist, togo)
  BY <1>1
<1>4. Free' = Free /\ Own' = Own /\ Target' = Target /\ edges' = edges /\ dist' = dist /\ me_co' = me_co
  BY <1>1, NothingMoves
<1> DEFINE f == togo[Len(togo)]
           lower == Lower(f, dist, dist[f])
           best == Best(f, dist, lower)
<1>5. IF lower = {} THEN finding' = "lost" /\ UNCHANGED togo
      ELSE IF dist[best] = 0 THEN finding' = "found" /\ UNCHANGED togo
      ELSE togo' = Append(togo, best) /\ UNCHANGED finding
  BY Zenon DEF Walk, Last
<1>6. /\ dist \in [Fields(edges) -> Int] /\ f \in Free /\ f \in Fields(edges) /\ f # Own
      /\ \A g \in Fields(edges) : g # Own => dist[g] = E[g]
  BY <1>1, <1>2, <1>3, WalkSees
<1>7. /\ lower = {} => \A g \in Fields(edges) : Adjacent(f, g) /\ dist[g] >= 0 => ~(dist[g] < dist[f])
      /\ lower # {} => best \in Fields(edges) /\ Adjacent(f, best) /\ dist[best] >= 0 /\ dist[best] < dist[f]
  BY <1>2, <1>6, LowerIs
<1> HIDE DEF f, lower, best
<1>8. CASE lower = {}
  <2>1. \E g \in Free : Half(edges, g) = 0
    BY <1>1, <1>2, <1>3, <1>7, <1>8, StuckNarrow DEF f
  <2>2. finding' = "lost"
    BY <1>5, <1>8
  <2> QED BY <1>2, <1>4, <2>1, <2>2 DEF WayInd, WayLeads
<1>9. CASE lower # {} /\ dist[best] = 0
  <2>1. finding' = "found" /\ togo' = togo
    BY <1>5, <1>9
  <2>2. best = Target /\ Adjacent(f, Target)
    BY <1>1, <1>2, <1>3, <1>7, <1>9, WalkGoesOn DEF f
  <2>3. /\ togo \in Seq(Free) /\ togo # <<>> /\ Adjacent(Own, togo[1])
        /\ \A i \in 1 .. Len(togo) : togo[i] # Own
        /\ \A i \in 1 .. Len(togo) - 1 : Adjacent(togo[i], togo[i+1])
        /\ \A g \in Free : Adjacent(Own, g) => WayCost(E, togo[1]) <= WayCost(E, g)
    BY <1>3 DEF OnWay
  <2>4. ToSet(togo) \subseteq Free
    BY <2>3 DEF ToSet
  <2>5. ASSUME NEW g \in Free, Adjacent(Own, g)
        PROVE  dist[togo[1]] + Reach(edges, togo[1], me_co) <= dist[g] + Reach(edges, g, me_co)
    <3>1. g # Own /\ g \in Fields(edges)
      BY <2>5, FreeAre DEF Adjacent
    <3>2. togo[1] # Own /\ togo[1] \in Free /\ togo[1] \in Fields(edges)
      <4>1. 1 \in 1 .. Len(togo) /\ togo[1] \in Free
        BY <2>3
      <4> QED BY <2>3, <4>1, FreeAre
    <3> DEFINE a == E[togo[1]]
               b == E[g]
               p == Reach(edges, togo[1], me_co)
               q == Reach(edges, g, me_co)
    <3>3. dist[togo[1]] = a /\ dist[g] = b
      BY <1>6, <3>1, <3>2
    <3>4. a \in Int /\ b \in Int
      BY <1>6, <3>1, <3>2, <3>3
    <3>5. p \in Nat /\ q \in Nat
      BY <1>1, <1>2, <3>1, <3>2, OwnReach
    <3>6. p + a <= q + b
      BY <2>3, <2>5 DEF WayCost
    <3> HIDE DEF a, b, p, q
    <3>7. a + p <= b + q
      BY <3>4, <3>5, <3>6
    <3> QED BY <3>3, <3>7 DEF p, q
  <2>6. /\ ToSet(togo') \subseteq Free'
        /\ Adjacent(Own', togo'[1]) /\ Adjacent(Last(togo'), Target')
        /\ \A i \in 1 .. Len(togo') - 1 : Adjacent(togo'[i], togo'[i+1])
        /\ \A g \in Free' : Adjacent(Own', g) =>
             dist'[togo'[1]] + Reach(edges', togo'[1], me_co') <= dist'[g] + Reach(edges', g, me_co')
    BY <1>4, <2>1, <2>2, <2>3, <2>4, <2>5 DEF Last, f
  <2> QED BY <1>2, <2>1, <2>6 DEF WayInd, WayLeads
<1>10. CASE lower # {} /\ dist[best] # 0
  <2>1. finding' = "walk" /\ togo' = Append(togo, best)
    BY <1>1, <1>5, <1>10
  <2>2. OnWay(E, dist, Append(togo, best))
    BY <1>1, <1>2, <1>3, <1>7, <1>10, WalkGoesOn DEF f
  <2>3. OnWay(E, dist', togo')
    BY <1>4, <2>1, <2>2
  <2>4. (\E D : OnWay(D, dist, togo))'
    BY <1>1, <2>3, OnWayStays
  <2> QED BY <1>2, <2>1, <2>4 DEF WayInd, WayLeads
<1> QED BY <1>8, <1>9, <1>10

\* If nothing changes, it is kept too.
LEMMA WayIdles ==
  ASSUME WayInd, UNCHANGED wayVars
  PROVE  WayInd'
<1>1. UNCHANGED <<blockers, me_co, ob_co, edges, dist, todo, newtodo, togo, finding>>
  BY DEF wayVars
<1>2. /\ Placed' /\ (Apart => Apart')
      /\ Free' = Free /\ Own' = Own /\ Target' = Target
  BY <1>1, NothingMoves DEF WayInd
<1>3. Searched(dist, todo, newtodo) => Searched(dist, todo, newtodo)'
  <2> SUFFICES ASSUME Searched(dist, todo, newtodo)
               PROVE  Searched(dist, todo, newtodo)'
    OBVIOUS
  <2>1. Searched(dist', todo', newtodo')
    BY <1>1
  <2> QED BY <1>1, <2>1, SearchedStays
<1>4. Searched(dist, <<>>, <<>>) => Searched(dist, <<>>, <<>>)'
  <2> SUFFICES ASSUME Searched(dist, <<>>, <<>>)
               PROVE  Searched(dist, <<>>, <<>>)'
    OBVIOUS
  <2>1. Searched(dist', <<>>, <<>>)
    BY <1>1
  <2> QED BY <1>1, <2>1, SearchedStays
<1>5. (\E E : OnWay(E, dist, togo)) => (\E E : OnWay(E, dist, togo))'
  <2> SUFFICES ASSUME NEW E, OnWay(E, dist, togo)
               PROVE  (\E D : OnWay(D, dist, togo))'
    OBVIOUS
  <2>1. OnWay(E, dist', togo')
    BY <1>1
  <2> QED BY <1>1, <2>1, OnWayStays
<1>6. finding # "begin" => WayLeads'
  <2> SUFFICES ASSUME finding # "begin"
               PROVE  WayLeads'
    OBVIOUS
  <2>1. WayLeads /\ finding' # "begin"
    BY <1>1 DEF WayInd
  <2>2. (finding = "lost" => \E f \in Free : Half(edges, f) = 0)'
    BY <1>1, <1>2, <2>1 DEF WayLeads
  <2>3. (finding = "found" =>
           /\ ToSet(togo) \subseteq Free
           /\ Adjacent(Own, togo[1]) /\ Adjacent(Last(togo), Target)
           /\ \A i \in 1 .. Len(togo) - 1 : Adjacent(togo[i], togo[i+1])
           /\ \A f \in Free : Adjacent(Own, f) =>
                dist[togo[1]] + Reach(edges, togo[1], me_co) <= dist[f] + Reach(edges, f, me_co))'
    BY <1>1, <1>2, <2>1 DEF WayLeads
  <2>4. (finding = "error" =>
           \/ Len(newtodo) > Cardinality(Fields(edges))
           \/ \A f \in Free : Adjacent(Own, f) => dist[f] + Reach(edges, f, me_co) >= maximum)'
    BY <1>1, <1>2, <2>1 DEF WayLeads
  <2> QED BY <2>1, <2>2, <2>3, <2>4 DEF WayLeads
<1> QED BY <1>1, <1>2, <1>3, <1>4, <1>5, <1>6 DEF WayInd

\* WayInd says what WayLeads says.
LEMMA WayIndLeads ==
  ASSUME WayInd
  PROVE  WayLeads
<1>1. CASE finding = "begin"
  <2>1. Settled
    BY <1>1, PlacedMeshed, SearchEndsSettled DEF WayInd
  <2> QED BY <1>1, <2>1 DEF WayLeads
<1>2. CASE finding # "begin"
  BY <1>2 DEF WayInd
<1> QED BY <1>1, <1>2

\* The way that brain_find_way() of an npc ends with leads to its target.
THEOREM WayAlwaysLeads == WaySpec => []WayLeads
<1>1. WayInd /\ [WayNext]_wayVars => WayInd'
  BY MeshKeeps, SearchKeeps, EndRoundKeeps, BeginKeeps, WalkKeeps, WayIdles DEF WayNext
<1> QED BY <1>1, WayStarts, WayIndLeads, PTL DEF WaySpec
=============================================================================
