----------------------------- MODULE MCParts -----------------------------
(***************************************************************************)
(* TLC instance of the components that share no state: the command queue,  *)
(* blood loss, events, the reloading of what a player had, what is held    *)
(* and worn, a shop, fights, mail, doors, ailments, the ways of npcs, and  *)
(* a caster's spells.                                                      *)
(* A behaviour moves one of them, so that their states add up and do not   *)
(* multiply.                                                               *)
(***************************************************************************)
EXTENDS CmdQueue, Bleeding, Events, Reload, ToolSlots, Shop, Fights,
        Mail, Doors, Ailments, FindWay, Spells

CONSTANTS arm, hand, head, foot, shirt, mail, sword, t1, t2, t3, t4, t5,
          gateIn, gateOut, hallIn, hallOut

VARIABLE part   \* The component that moves.

HandOnArm == [s \in {arm, hand, head} |-> IF s = arm THEN <<hand>> ELSE <<>>]

Empty == [t \in Things |-> <<>>]
Nothing == [top |-> <<>>, inside |-> Empty]

\* Nothing, more things than one batch makes, and things inside of things in places
\* where a batch ends before, between and behind them.
FewInventories ==
  { Nothing,
    [top |-> <<t1, t2, t3, t4, t5>>, inside |-> Empty],
    [top |-> <<t1, t2, t3>>, inside |-> [Empty EXCEPT ![t1] = <<t4>>, ![t2] = <<t5>>]],
    [top |-> <<t1, t2, t5>>, inside |-> [Empty EXCEPT ![t1] = <<t3>>, ![t3] = <<t4>>]],
    [top |-> <<t1>>, inside |-> [Empty EXCEPT ![t1] = <<t2, t3, t4, t5>>]],
    [top |-> <<t1>>, inside |-> [Empty EXCEPT ![t1] = <<t2, t3, t4>>, ![t3] = <<t5>>]],
    [top |-> <<t1, t2, t3, t4>>, inside |-> [Empty EXCEPT ![t4] = <<t5>>]] }

\* A shirt under a mail, which shares one limb with it and goes down to the hand, and a
\* sword for two hands.
HandOfArm == [l \in Limbs |-> IF l = arm THEN {hand} ELSE {}]
Dresses == [t \in Tools |-> IF t = shirt THEN {arm, foot} ELSE IF t = mail THEN {arm, hand} ELSE {}]
MailOver == [t \in Tools |-> IF t = shirt THEN 1 ELSE 2]
TwoHands == [t \in Tools |-> IF t = sword THEN 2 ELSE 0]

CoinValues == <<10000, 10000, 1000, 200, 50, 5, 2, 1>>
FourOfTwo == <<[type |-> 7, size |-> 4]>>

\* A gate that is locked at first, and a door of which one side has no key and is open.
BothSides ==
  [h \in Halves |-> CASE h = gateIn -> gateOut [] h = gateOut -> gateIn
                     [] h = hallIn -> hallOut [] h = hallOut -> hallIn]
GateLocked ==
  [h \in Halves |-> IF h \in {gateIn, gateOut} THEN DOOR_LOCKED
                    ELSE IF h = hallIn THEN DOOR_CLOSED ELSE DOOR_OPEN]

\* Walls that leave gaps of several widths, overlap, or close the room together, and a post
\* which the distances are spread around in so many turns that the array is too short.
TwelveSquare == <<12, 12>>
Wall(x, y, width, length) == [co |-> <<x, y>>, range |-> <<width, length>>]
OnePost == {{Wall(7, 7, 1, 1)}}
SomeWalls ==
  SUBSET {Wall(2, 0, 2, 8), Wall(2, 4, 6, 2), Wall(6, 2, 2, 10), Wall(10, 2, 1, 3)} \cup OnePost
Corners == {<<1, 7>>, <<11, 11>>, <<9, 1>>}

-----------------------------------------------------------------------------
partVars == <<cmdVars, bleedVars, eventVars, loadVars, slotVars, shopVars, fightVars,
              mailVars, doorVars, ailVars, wayVars, spellVars, part>>

PartsInit ==
  /\ part \in {"commands", "blood", "events", "reload", "tools", "shop", "fights",
               "mail", "doors", "ailments", "way", "spells"}
  /\ CmdInit /\ BleedInit /\ EventInit /\ SlotInit /\ MailInit /\ DoorInit /\ SpellInit
  /\ WayInit /\ (part # "way" => blockers = {} /\ me_co = <<1, 7>> /\ ob_co = me_co)
  /\ AilInit /\ (part # "ailments" => kind = "poison")
  /\ FightInit /\ \A l \in Livings : room[l] = CHOOSE r \in Rooms : TRUE
  /\ ShopInit /\ (part # "shop" => count = 0)
  /\ LoadInit
  /\ part # "reload" => auto_load = Nothing /\ ~coder /\ \A t \in Things : fate[t] = "fine"

\* Only the part moves.
Only(name) ==
  /\ part = name /\ UNCHANGED part
  /\ IF name = "commands" THEN TRUE ELSE UNCHANGED cmdVars
  /\ IF name = "blood" THEN TRUE ELSE UNCHANGED bleedVars
  /\ IF name = "events" THEN TRUE ELSE UNCHANGED eventVars
  /\ IF name = "reload" THEN TRUE ELSE UNCHANGED loadVars
  /\ IF name = "tools" THEN TRUE ELSE UNCHANGED slotVars
  /\ IF name = "shop" THEN TRUE ELSE UNCHANGED shopVars
  /\ IF name = "fights" THEN TRUE ELSE UNCHANGED fightVars
  /\ IF name = "mail" THEN TRUE ELSE UNCHANGED mailVars
  /\ IF name = "doors" THEN TRUE ELSE UNCHANGED doorVars
  /\ IF name = "ailments" THEN TRUE ELSE UNCHANGED ailVars
  /\ IF name = "way" THEN TRUE ELSE UNCHANGED wayVars
  /\ IF name = "spells" THEN TRUE ELSE UNCHANGED spellVars

\* Steps that change nothing are left to the specification's stuttering.
PartsNext ==
  \/ Only("commands") /\ <<CmdNext>>_cmdVars
  \/ Only("blood") /\ <<BleedNext>>_bleedVars
  \/ Only("events") /\ <<EventNext>>_eventVars
  \/ Only("reload") /\ <<LoadNext>>_loadVars
  \/ Only("tools") /\ <<SlotNext>>_slotVars
  \/ Only("shop") /\ <<ShopNext>>_shopVars
  \/ Only("fights") /\ <<FightNext>>_fightVars
  \/ Only("mail") /\ <<MailNext>>_mailVars
  \/ Only("doors") /\ <<DoorNext>>_doorVars
  \/ Only("ailments") /\ <<AilNext>>_ailVars
  \/ Only("way") /\ <<WayNext>>_wayVars
  \/ Only("spells") /\ <<SpellNext>>_spellVars

PartsSpec ==
  /\ PartsInit /\ [][PartsNext]_partVars
  /\ WF_partVars(Only("commands") /\ NextCommand)
  /\ WF_partVars(Only("reload") /\ \E c \in pending : CallOut(c))

\* The components' types.
PartsTypeOK ==
  CmdTypeOK /\ EventTypeOK /\ FightTypeOK /\ MailTypeOK /\ DoorTypeOK /\ AilTypeOK
  /\ SpellTypeOK
=============================================================================
