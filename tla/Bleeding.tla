------------------------------ MODULE Bleeding ------------------------------
(***************************************************************************)
(* Bleeding wounds of a player: base/living/combat.c (bloodloss,           *)
(* bloodwounds and the call_out of bloodloss_event()), the slots that      *)
(* break in base/living/slot.c, and start_call_out() of base/player.c,     *)
(* which starts the call_out whenever a player returns.                    *)
(***************************************************************************)
EXTENDS Integers, Sequences, FiniteSetsExt, SequencesExt

CONSTANTS Slots,      \* Parts of the body.
          Branch,     \* For each slot those that break with it, as the recursion meets them.
          Severe,     \* Bound: how much one slot bleeds.
          MaxBeats,   \* Bound: pending call_outs of bloodloss_event().
          Fractures   \* Do slots break in any state, or only where all the blood is theirs?

ASSUME SlotsAssumption == IsFiniteSet(Slots)
ASSUME BranchAssumption == Branch \in [Slots -> Seq(Slots)]
ASSUME SevereAssumption == Severe \in Nat
ASSUME MaxBeatsAssumption == MaxBeats \in Nat
ASSUME FracturesAssumption == Fractures \in BOOLEAN

VARIABLES bloodloss,     \* "total of bloodwounds".
          bloodwounds,   \* By slot.
          beats,         \* Pending call_outs of bloodloss_event().
          broken         \* Slots without a size: lost, broken or unusable.

bleedVars == <<bloodloss, bloodwounds, beats, broken>>

Body == [loss |-> bloodloss, wounds |-> bloodwounds, beats |-> beats]
BodyBecomes(b) == bloodloss' = b.loss /\ bloodwounds' = b.wounds /\ beats' = b.beats

-----------------------------------------------------------------------------
\* add_bloodloss() with a positive amount: the call_out is started if nothing bled.
Bleed(b, slot, amount) ==
  [b EXCEPT !.beats = IF b.loss = 0 THEN @ + 1 ELSE @,
            !.wounds[slot] = @ + amount,
            !.loss = @ + amount]

\* Mutant: the total is left as it is when a slot stops to bleed.
StanchWoundOnly(b, slot, amount) ==
  IF b.wounds[slot] > amount
  THEN [b EXCEPT !.loss = @ - amount, !.wounds[slot] = @ - amount]
  ELSE [b EXCEPT !.wounds[slot] = 0]

\* add_bloodloss() with a negative amount: the slot stops to bleed if the amount is at
\* least its wound, and the amount, not the wound, is taken from the total.
Stanch(b, slot, amount) ==
  IF b.wounds[slot] > amount
  THEN [b EXCEPT !.loss = @ - amount, !.wounds[slot] = @ - amount]
  ELSE IF b.wounds[slot] > 0
       THEN [b EXCEPT !.loss = @ - amount, !.wounds[slot] = 0]
       ELSE b

\* remove_tool_slot() for a slot and those connected with it: each takes the total of
\* all wounds for its own ("stop bleeding on lost slots").  Slots that have no size any
\* more are passed over.
RemoveToolSlots(b, slots) ==
  FoldLeft(LAMBDA acc, s : IF s \in broken \/ acc.loss = 0 THEN acc
                           ELSE IF acc.loss > 0 THEN Stanch(acc, s, acc.loss)
                           ELSE Bleed(acc, s, -acc.loss), b, slots)

-----------------------------------------------------------------------------
BleedInit ==
  /\ bloodloss = 0 /\ bloodwounds = [s \in Slots |-> 0]
  /\ beats = 0 /\ broken = {}

\* Critical hits (base/critical/crit_3.c).
Wound(slot) ==
  /\ \E amount \in 1 .. Severe :
       /\ bloodwounds[slot] + amount <= Severe
       /\ BodyBecomes(Bleed(Body, slot, amount))
  /\ beats' <= MaxBeats
  /\ UNCHANGED broken

\* Aid, healing potions and the coders' heal command stanch exactly what a slot bleeds.
Aid(slot) ==
  /\ bloodwounds[slot] > 0
  /\ BodyBecomes(Stanch(Body, slot, bloodwounds[slot]))
  /\ UNCHANGED broken

\* set_wound() with a fracture or a loss.
Fracture(slot) ==
  /\ slot \notin broken
  /\ LET hit == <<slot>> \o Branch[slot]
     IN  /\ Fractures \/ \A s \in ToSet(hit) \ broken : bloodwounds[s] \in {0, bloodloss}
         /\ BodyBecomes(RemoveToolSlots(Body, hit))
         /\ broken' = broken \cup ToSet(hit)

\* set_wound() with 0.
Heal(slot) ==
  /\ slot \in broken /\ broken' = broken \ {slot}
  /\ UNCHANGED <<bloodloss, bloodwounds, beats>>

\* Mutant: the event starts itself again only when blood is lost.
BloodlossEventOnce ==
  /\ beats > 0
  /\ \/ beats' = beats - 1 /\ UNCHANGED <<bloodloss, bloodwounds>>
     \/ bloodloss # 0 /\ UNCHANGED <<bloodloss, bloodwounds, beats>>
  /\ UNCHANGED broken

\* bloodloss_event(), the call_out: nothing if nothing bleeds.  The loss of blood may kill,
\* and do_die() resets both, but the call_out is started once more.
BloodlossEvent ==
  /\ beats > 0
  /\ \/ bloodloss = 0 /\ beats' = beats - 1 /\ UNCHANGED <<bloodloss, bloodwounds>>
     \/ bloodloss # 0 /\ UNCHANGED <<bloodloss, bloodwounds, beats>>
     \/ /\ bloodloss > 0
        /\ bloodloss' = 0 /\ bloodwounds' = [s \in Slots |-> 0] /\ UNCHANGED beats
  /\ UNCHANGED broken

\* do_die() for another reason.
Die ==
  /\ bloodloss' = 0 /\ bloodwounds' = [s \in Slots |-> 0]
  /\ UNCHANGED <<beats, broken>>

\* start_call_out() at the end of a login, a linkdeath or a death.
StartCallOut ==
  /\ beats < MaxBeats /\ beats' = beats + 1
  /\ UNCHANGED <<bloodloss, bloodwounds, broken>>

\* The player's object goes and is loaded again: what bleeds was saved, the call_outs
\* went with the object, and start_call_out() starts one.
Reenter ==
  /\ beats' = 1
  /\ UNCHANGED <<bloodloss, bloodwounds, broken>>

BleedNext ==
  \/ \E s \in Slots : Wound(s) \/ Aid(s) \/ Fracture(s) \/ Heal(s)
  \/ BloodlossEvent \/ Die \/ StartCallOut \/ Reenter

BleedSpec == BleedInit /\ [][BleedNext]_bleedVars

-----------------------------------------------------------------------------
(* Properties *)

\* Somebody who bleeds loses blood at the next beat: a call_out of bloodloss_event() is
\* pending as long as a slot bleeds, though add_bloodloss() starts it only for the first
\* wound, the event only starts itself again, and links, deaths and cures come between
\* (combat.c:134-151, 219-223).
BleedsOn == (\E s \in Slots : bloodwounds[s] > 0) => beats > 0

\* bloodloss is the "total of bloodwounds" (combat.c:17).
TotalRight == bloodloss = FoldFunction(+, 0, bloodwounds)

\* The list of the wounds, their total and the call_out that goes by it never part.
BloodRight == BleedsOn /\ TotalRight
=============================================================================
