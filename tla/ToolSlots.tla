----------------------------- MODULE ToolSlots -----------------------------
(***************************************************************************)
(* What a living holds, wields and wears: base/living/slot.c with the      *)
(* sublocations of base/misc/subloc.c, the commands that get, drop, wield, *)
(* unwield, wear and remove, the moves of base/object.c and the listeners  *)
(* of weapons and clothes, limbs that break, are lost and heal.  Each      *)
(* thing is in several of five lists at once.  Volumes are left out but    *)
(* for how many things fill a hand; protection is kept like worn.          *)
(***************************************************************************)
EXTENDS Naturals, FiniteSets, SequencesExt

CONSTANTS Tools, Limbs, None,
          Hands,      \* Limbs of the type SLT_HAND.
          Connected,  \* connections: what goes with a limb.
          Covers,     \* The limbs a thing is worn on, none if it cannot be worn.
          Layer,      \* Its layer.
          Thin,       \* OBJ_THIN_MATERIAL: takes another thing of its layer above it.
          HandsFor,   \* The hands it is wielded with, 0 if it cannot be wielded.
          HandRoom    \* Things that fill a hand.

ASSUME LimbsAssumption ==
  Hands \subseteq Limbs /\ None \notin Tools \cup Limbs /\ IsFiniteSet(Limbs) /\ IsFiniteSet(Tools)
ASSUME ConnectedAssumption ==
  /\ Connected \in [Limbs -> SUBSET Limbs]
  /\ \A l \in Limbs : \A k \in Connected[l] : Connected[k] = {}
ASSUME ToolsAssumption ==
  /\ Covers \in [Tools -> SUBSET Limbs]
  /\ Layer \in [Tools -> Nat] /\ HandsFor \in [Tools -> Nat] /\ HandRoom \in Nat /\ Thin \subseteq Tools

VARIABLES books,     \* What is where, and the lists of slot.c.
          sized,     \* slot_sizes and slot_types: the limbs that can be used.
          wounds,
          bandaged

slotVars == <<books, sized, wounds, bandaged>>

Books == [place   : [Tools -> {"here", "away", "gone"}],
          hold    : [Hands -> SUBSET Tools],       \* hold, by slot
          heldin  : [Tools -> Hands \cup {None}],  \* and by tool.
          wield   : [Hands -> Tools \cup {None}],
          worn    : [Limbs -> Seq(Tools \cup {None})],   \* Outermost first; None is nil.
          holding : SUBSET Tools,    \* SUBLOC_HOLD
          wielding : SUBSET Tools,   \* SUBLOC_WIELD
          wearing : SUBSET Tools,    \* SUBLOC_WORN
          wielder : SUBSET Tools,    \* Things whose wielder, or
          wearer  : SUBSET Tools,    \* wearer, this living is.
          slipped : SUBSET Tools]    \* History: things that left from under others.

WoundStates == {"none", "unusable", "broken", "lost"}

-----------------------------------------------------------------------------
\* The functions of slot.c, as operators on the books.

\* Mutant: the list of the hand is forgotten.
UnholdTool(b, t) == [b EXCEPT !.heldin[t] = None, !.holding = @ \ {t}]

\* hold[hold[tool]] -= ({ tool }), hold[tool] = 0 and SUBLOC_HOLD.
Unhold(b, t) ==
  [b EXCEPT !.hold = [h \in Hands |-> IF h = b.heldin[t] THEN @[h] \ {t} ELSE @[h]],
            !.heldin[t] = None, !.holding = @ \ {t}]

\* Something is worn above t, or was and is destructed, on one of its limbs.
Covered(b, t) ==
  \E l \in Limbs : t \in ToSet(b.worn[l]) /\ Head(b.worn[l]) # t

\* seq - ({ u }): the order of the others stays.
AllBut(seq, u) == FoldLeft(LAMBDA left, v : IF v = u THEN left ELSE Append(left, v), <<>>, seq)

\* remove_tool() up to where it is known whether the tool is dropped: does it succeed,
\* and what does it leave?
Removable(b, t) ==
  b.heldin[t] # None \/ t \in b.wielding \/ t \notin b.wearing \/ ~Covered(b, t)
RemoveTool(b, t) ==
  IF b.heldin[t] # None THEN Unhold(b, t)
  ELSE IF t \in b.wielding
       THEN [b EXCEPT !.wield = [h \in Hands |-> IF @[h] = t /\ h \in sized THEN None ELSE @[h]],
                      !.wielding = @ \ {t}, !.wielder = @ \ {t}]
       ELSE IF t \in b.wearing /\ ~Covered(b, t)
            THEN [b EXCEPT !.worn = [l \in Limbs |-> AllBut(@[l], t)],
                           !.wearing = @ \ {t}, !.wearer = @ \ {t}, !.slipped = @ \ {t}]
            ELSE b

\* Mutant: a thing that is wielded is moved without remove_tool().
MoveAwayWielded(b, t) ==
  LET moved == [b EXCEPT !.place[t] = "away", !.wearer = @ \ {t}, !.wielder = @ \ {t}]
  IN  IF b.place[t] # "here" \/ t \in b.wielding THEN moved ELSE RemoveTool(moved, t)

\* move() to somewhere else: the listeners E_move() and E_move_worn() of the thing, then
\* remove_tool() of the living it left, whose refusal comes too late.
MoveAway(b, t) ==
  LET moved == [b EXCEPT !.place[t] = "away", !.wearer = @ \ {t}, !.wielder = @ \ {t}]
  IN  IF b.place[t] # "here" THEN moved
      ELSE [RemoveTool(moved, t) EXCEPT !.slipped = IF Removable(moved, t) THEN @ ELSE @ \cup {t}]

\* slot_space(slot, tool) > 0
Space(b, h, t) ==
  h \in sized /\ b.wield[h] \in {None, t} /\ Cardinality(b.hold[h] \ {t}) < HandRoom

\* add_tool() to a hand there is, from wherever it is.
AddTool(b, t, h) ==
  [b EXCEPT !.place[t] = "here", !.holding = @ \cup {t}, !.heldin[t] = h, !.hold[h] = @ \cup {t}]

\* The end of remove_tool(): into a hand that has space for it, else to the ground.
InHand(b, t) ==
  LET free == {h \in Hands : Space(b, h, t)}
  IN  IF free = {} THEN {MoveAway(b, t)} ELSE {AddTool(b, t, h) : h \in free}

\* query_worn(): destructed things are no longer listed.
Cleaned(seq) == AllBut(seq, None)

\* remove_tool_slot() for one limb: what is in it falls, and, if the limb is lost, what
\* is on it, the innermost first.
HandEmptied(b, l) ==
  IF l \notin Hands THEN b
  ELSE LET dropped == FoldLeft(MoveAway, b, SetToSeq(b.hold[l]))
       IN  IF dropped.wield[l] = None THEN dropped ELSE MoveAway(dropped, dropped.wield[l])

LimbBared(b, l) ==
  FoldLeft(MoveAway, [b EXCEPT !.worn[l] = Cleaned(@)], Reverse(Cleaned(b.worn[l])))

LimbRemoved(b, l, lost) ==
  IF lost THEN LimbBared(HandEmptied(b, l), l) ELSE HandEmptied(b, l)

\* With the limb goes what is connected; a limb without size is passed over with all that
\* is connected.
Hit(l) == IF l \notin sized THEN {} ELSE {l} \cup (Connected[l] \cap sized)

-----------------------------------------------------------------------------
SlotInit ==
  /\ books = [place |-> [t \in Tools |-> "away"],
              hold |-> [h \in Hands |-> {}], heldin |-> [t \in Tools |-> None],
              wield |-> [h \in Hands |-> None], worn |-> [l \in Limbs |-> <<>>],
              holding |-> {}, wielding |-> {}, wearing |-> {},
              wielder |-> {}, wearer |-> {}, slipped |-> {}]
  /\ sized = Limbs /\ wounds = [l \in Limbs |-> "none"] /\ bandaged = {}

body == <<sized, wounds, bandaged>>

\* try_get() and try_give(): into a hand that has space.
Grasp(t, h) ==
  /\ books.place[t] = "away" /\ Space(books, h, t)
  /\ books' = AddTool(books, t, h)
  /\ UNCHANGED body

\* wield_tool(), for what is held: enough hands that hold nothing else.
Wield(t) ==
  /\ t \in books.holding /\ HandsFor[t] > 0 /\ t \notin books.wielder
  /\ \E hands \in SUBSET {h \in Hands \cap sized : books.wield[h] = None /\ books.hold[h] \subseteq {t}} :
       /\ Cardinality(hands) = HandsFor[t]
       /\ books' = [Unhold(books, t) EXCEPT
                      !.wield = [h \in Hands |-> IF h \in hands THEN t ELSE @[h]],
                      !.wielding = @ \cup {t}, !.wielder = @ \cup {t}]
  /\ UNCHANGED body

\* wear_tool() puts the outermost first.
WornOver(seq, t) == <<t>> \o seq

\* wear_tool(), for what is held: over things of lower layers.
Wear(t) ==
  /\ t \in books.holding /\ Covers[t] # {} /\ t \notin books.wearer
  /\ Covers[t] \subseteq sized
  /\ \A l \in Covers[t] :
       LET worn == Cleaned(books.worn[l])
       IN  worn # <<>> => Layer[t] >= Layer[Head(worn)] + (IF Head(worn) \in Thin THEN 0 ELSE 1)
  /\ books' = [Unhold(books, t) EXCEPT
                 !.worn = [l \in Limbs |-> IF l \in Covers[t] THEN WornOver(Cleaned(@[l]), t) ELSE @[l]],
                 !.wearing = @ \cup {t}, !.wearer = @ \cup {t}]
  /\ UNCHANGED body

\* The command remove: nothing happens without a hand that has space, or if something is
\* worn above.
RemoveCmd(t) ==
  /\ t \in books.wearing
  /\ \E h \in Hands : Space(books, h, None)
  /\ Removable(books, t)
  /\ books' \in InHand(RemoveTool(books, t), t)
  /\ UNCHANGED body

UnwieldCmd(t) ==
  /\ t \in books.wielding
  /\ books' \in InHand(RemoveTool(books, t), t)
  /\ UNCHANGED body

\* Dropped, given, put, thrown; lost by a fumble or a hit; stolen, if it is worn.
LeaveHands(t) ==
  /\ books.place[t] = "here"
  /\ books' = MoveAway(books, t)
  /\ UNCHANGED body

\* remove_object(): references turn nil, and nobody else is told.
Destroy(t) ==
  /\ books.place[t] # "gone"
  /\ books' = [books EXCEPT
       !.place[t] = "gone", !.heldin[t] = None,
       !.hold = [h \in Hands |-> @[h] \ {t}],
       !.wield = [h \in Hands |-> IF @[h] = t THEN None ELSE @[h]],
       !.worn = [l \in Limbs |-> [i \in DOMAIN @[l] |-> IF @[l][i] = t THEN None ELSE @[l][i]]],
       !.holding = @ \ {t}, !.wielding = @ \ {t}, !.wearing = @ \ {t},
       !.wielder = @ \ {t}, !.wearer = @ \ {t}, !.slipped = @ \ {t}]
  /\ UNCHANGED body

\* query_worn() of a limb, by combat, magic, the inventory.
QueryWorn(l) ==
  /\ books' = [books EXCEPT !.worn[l] = Cleaned(@)]
  /\ UNCHANGED body

\* set_wound() for a fracture or a loss.
SetWound(l, lost) ==
  /\ wounds[l] # "lost"
  /\ books' = FoldLeft(LAMBDA b, k : LimbRemoved(b, k, lost), books,
                       IF Hit(l) = {} THEN <<>> ELSE <<l>> \o SetToSeq(Hit(l) \ {l}))
  /\ sized' = sized \ Hit(l)
  /\ wounds' = [k \in Limbs |->
       IF k = l THEN IF lost THEN "lost" ELSE "broken"
       ELSE IF k \notin Connected[l] THEN wounds[k]
       ELSE IF lost THEN "lost" ELSE IF wounds[k] = "none" THEN "unusable" ELSE wounds[k]]
  /\ UNCHANGED bandaged

\* set_wound() with 0.
Healed(l) ==
  /\ wounds' = [wounds EXCEPT ![l] = "none"] /\ sized' = sized \cup {l}
  /\ UNCHANGED books

\* A potion mends what is broken; so do bandages, whatever became of the limb since.
Mend(l) == wounds[l] = "broken" /\ Healed(l) /\ UNCHANGED bandaged
Bandage(l) ==
  /\ wounds[l] = "broken" /\ bandaged' = bandaged \cup {l}
  /\ UNCHANGED <<books, sized, wounds>>
RemoveBandage(l) ==
  /\ bandaged' = bandaged \ {l} /\ UNCHANGED <<books, sized, wounds>>
ResolveBandage(l) == l \in bandaged /\ Healed(l) /\ bandaged' = bandaged \ {l}

SlotNext ==
  \/ \E t \in Tools : Wield(t) \/ Wear(t) \/ RemoveCmd(t) \/ UnwieldCmd(t) \/ LeaveHands(t) \/ Destroy(t)
  \/ \E t \in Tools, h \in Hands : Grasp(t, h)
  \/ \E l \in Limbs : QueryWorn(l) \/ Mend(l) \/ Bandage(l) \/ RemoveBandage(l) \/ ResolveBandage(l)
  \/ \E l \in Limbs, lost \in BOOLEAN : SetWound(l, lost)

SlotSpec == SlotInit /\ [][SlotNext]_slotVars

-----------------------------------------------------------------------------
(* Properties *)

\* The lists of slot.c agree: what is held is held in one hand, which knows it; what is
\* wielded or worn is so on some limb, and knows it by itself, unless it slipped away.
BooksAgree ==
  /\ books \in Books /\ sized \subseteq Limbs /\ wounds \in [Limbs -> WoundStates]
  /\ \A t \in Tools : t \in books.holding <=> books.heldin[t] # None
  /\ \A t \in Tools, h \in Hands : t \in books.hold[h] <=> books.heldin[t] = h
  /\ \A t \in Tools : t \in books.wielding <=> \E h \in Hands : books.wield[h] = t
  /\ books.wielder = books.wielding
  /\ \A t \in Tools : t \in books.wearing <=> \E l \in Limbs : t \in ToSet(books.worn[l])
  /\ books.wearing = books.wearer \cup (books.wearing \cap books.slipped)

\* Everything held, wielded or worn is here, in one of these ways only; except for things
\* that were moved away while something was worn above them: remove_tool() refuses them
\* when they are gone already (slot.c:482-493, object.c:968-972), and they stay listed.
Carried ==
  \A t \in Tools :
    /\ t \in books.holding \cup books.wielding => books.place[t] = "here"
    /\ t \in books.wearing => books.place[t] = "here" \/ t \in books.slipped
    /\ ~(t \in books.holding /\ t \in books.wielding)
    /\ t \in books.wearing \cap (books.holding \cup books.wielding) => t \in books.slipped

\* Nothing is left in a hand that cannot be used, though a weapon may be in two hands,
\* arms take their hands with them, and what falls is taken out of lists on its way.
NothingInLostHands ==
  \A h \in Hands \ sized : books.hold[h] = {} /\ books.wield[h] = None

\* On each limb the outer layers are listed before the inner ones ("don't change
\* order!", slot.c:387), as combat and wear_tool() suppose.
LayersInOrder ==
  \A l \in Limbs : \A i, j \in DOMAIN books.worn[l] :
    i < j /\ None \notin {books.worn[l][i], books.worn[l][j]}
      => Layer[books.worn[l][i]] >= Layer[books.worn[l][j]]

\* Whatever is used is here, in hands that can be used, one thing over the other, and all
\* lists say so, whatever is moved away, lost, broken, bandaged or healed in between.
InUse == BooksAgree /\ Carried /\ NothingInLostHands /\ LayersInOrder
=============================================================================
