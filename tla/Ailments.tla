------------------------------ MODULE Ailments ------------------------------
(***************************************************************************)
(* A poison or a disease: base/poison.c and base/disease.c with the        *)
(* effects of lib/poison/acaana.c and lib/disease/cold.c, the effects kept *)
(* in living/extra.c, and their restart in player.c.  The master object of *)
(* the ailment marks whom it has, the living lists what it has, and a      *)
(* call_out of the master with the living as its argument does the harm    *)
(* and renews itself.  Masters share nothing, so there is one of either    *)
(* kind.  How far the ailment has come is left out, and so are curses,     *)
(* whose code is that of diseases.                                         *)
(***************************************************************************)
EXTENDS Naturals

CONSTANTS Patients,
          Dust,       \* Stands for bodies that were destructed.
          MaxTimers   \* Bound: call_outs for one patient.

ASSUME DustAssumption == Dust \notin Patients
ASSUME MaxTimersAssumption == MaxTimers \in Nat \ {0}

VARIABLES
  kind,       \* "poison" or "disease".
  condition,  \* What each patient is: living, a statue, dead, out of the game, or gone for good.
  marked,     \* poisoned_players, infected_players of the master.
  effects,    \* The patients that list the ailment; saved with them.
  call_outs,  \* The pending call_outs of the master, by their argument.
  slept,      \* History: those whose call_out came while they were not living,
  stray       \* and whether remove_poison() has removed another call_out than the patient's.

ailVars == <<kind, condition, marked, effects, call_outs, slept, stray>>

Lives(p) == condition[p] = "living"
There(p) == condition[p] \in {"living", "statue", "dead"}
Bounded == \A p \in Patients : call_outs[p] < MaxTimers

-----------------------------------------------------------------------------
AilInit ==
  /\ kind \in {"poison", "disease"}
  /\ condition = [p \in Patients |-> "living"]
  /\ marked = {} /\ effects = {} /\ slept = {} /\ stray = FALSE
  /\ call_outs = [p \in Patients \cup {Dust} |-> 0]

\* The call_outs after those for the patients in S were started.
Started(S) ==
  [p \in Patients \cup {Dust} |-> IF p \in S THEN call_outs[p] + 1 ELSE call_outs[p]]

\* poison_player(), infect_player() of the patients in S: who has it already is not given a
\* second call_out.
Caught(S) ==
  /\ marked' = marked \cup S /\ effects' = effects \cup S
  /\ call_outs' = Started(S \ marked)
  /\ slept' = slept \ (S \ marked)

Afflict(p) == Bounded /\ There(p) /\ Caught({p}) /\ UNCHANGED <<kind, condition, stray>>

\* Mutant: the living goes on to list what it was healed of.
FreedMark(p) == marked' = marked \ {p} /\ slept' = slept \ {p} /\ UNCHANGED effects

\* remove_disease() and what remove_poison() does but for the call_outs.
Freed(p) == marked' = marked \ {p} /\ slept' = slept \ {p} /\ effects' = effects \ {p}

\* Mutant: healing a disease removes a call_out, as healing a poison does.
LeavesNoCallOut == FALSE

\* remove_disease() leaves the call_out, which finds nobody infected later.
LeavesCallOuts == kind = "disease"

\* remove_poison(), remove_disease(), while t are the call_outs:
\* remove_call_out("poison_effect") takes one of them, whosever it is.
Cured(p, t) ==
  /\ Freed(p)
  /\ \/ /\ LeavesCallOuts \/ \A q \in DOMAIN t : t[q] = 0
        /\ call_outs' = t /\ UNCHANGED stray
     \/ /\ ~LeavesCallOuts
        /\ \E q \in DOMAIN t :
             /\ t[q] > 0
             /\ call_outs' = [t EXCEPT ![q] = @ - 1]
             /\ stray' = (stray \/ q # p)

\* A cure, which looks for ailments in the patient's list.
Cure(p) == There(p) /\ p \in effects /\ Cured(p, call_outs) /\ UNCHANGED <<kind, condition>>

-----------------------------------------------------------------------------
(* poison_effect(), disease_effect(), when the call_out comes. *)

Fired(p) == [call_outs EXCEPT ![p] = @ - 1]
Harmed(p) == call_outs[p] > 0 /\ Lives(p) /\ p \in marked

\* It does nothing, and does not come again.
EffectEnds(p) ==
  /\ call_outs[p] > 0
  /\ p # Dust => ~Harmed(p)
  /\ call_outs' = Fired(p)
  /\ slept' = slept \cup ({p} \cap marked)
  /\ UNCHANGED <<kind, condition, marked, effects, stray>>

\* The patient resists: the poison has renewed its call_out by then, the disease has not.
EffectResisted(p) ==
  /\ Harmed(p)
  /\ Cured(p, IF kind = "poison" THEN call_outs ELSE Fired(p))
  /\ UNCHANGED <<kind, condition>>

\* The poison kills, and is removed.
EffectKills(p) ==
  /\ kind = "poison" /\ Harmed(p)
  /\ condition' = [condition EXCEPT ![p] = "dead"]
  /\ Cured(p, call_outs) /\ UNCHANGED kind

\* The call_out is renewed.  A disease may spread to some that are near, and may kill.
EffectGoesOn(p) ==
  /\ Bounded /\ Harmed(p)
  /\ \E S \in SUBSET {q \in Patients \ {p} : There(q)} :
       (kind = "poison" => S = {}) /\ Caught(S)
  /\ \/ UNCHANGED condition
     \/ kind = "disease" /\ condition' = [condition EXCEPT ![p] = "dead"]
  /\ UNCHANGED <<kind, stray>>

-----------------------------------------------------------------------------
\* delay_linkdead() makes a statue, do_die() a corpse; the link is back, or resurrect().
\* The ailment is not touched, and its call_outs neither stopped nor started.
Changes(p) ==
  /\ \E s \in IF Lives(p) THEN {"statue", "dead"} ELSE {"living"} : condition' = [condition EXCEPT ![p] = s]
  /\ There(p)
  /\ UNCHANGED <<kind, marked, effects, call_outs, slept, stray>>

\* A player quits, or a corpse decays: the object is gone, and the master does not know it.
Leaves(p) ==
  /\ condition[p] \in {"living", "dead"}
  /\ condition' = [condition EXCEPT ![p] = IF Lives(p) THEN "out" ELSE "gone"]
  /\ marked' = marked \ {p} /\ slept' = slept \ {p}
  /\ call_outs' = [call_outs EXCEPT ![p] = 0, ![Dust] =
       IF @ + call_outs[p] > MaxTimers THEN MaxTimers ELSE @ + call_outs[p]]
  /\ UNCHANGED <<kind, effects, stray>>

\* start_player(): restart_effect() of the master that the player lists.
ComesBack(p) ==
  /\ condition[p] = "out" /\ Bounded
  /\ condition' = [condition EXCEPT ![p] = "living"]
  /\ marked' = marked \cup ({p} \cap effects)
  /\ call_outs' = Started({p} \cap effects)
  /\ UNCHANGED <<kind, effects, slept, stray>>

AilNext ==
  \/ \E p \in Patients :
       \/ Afflict(p) \/ Cure(p) \/ EffectResisted(p) \/ EffectKills(p) \/ EffectGoesOn(p)
       \/ Changes(p) \/ Leaves(p) \/ ComesBack(p)
  \/ \E p \in Patients \cup {Dust} : EffectEnds(p)

AilSpec == AilInit /\ [][AilNext]_ailVars

-----------------------------------------------------------------------------
(* Properties *)

AilTypeOK ==
  /\ condition \in [Patients -> {"living", "statue", "dead", "out", "gone"}]
  /\ marked \cup effects \cup slept \subseteq Patients
  /\ call_outs \in [Patients \cup {Dust} -> 0 .. MaxTimers]

\* The master and the livings agree on who has it, as long as they are in the game.
InSync == \A p \in Patients : There(p) => (p \in marked <=> p \in effects)

\* Who has an ailment is harmed by it: a call_out waits, for a poison exactly one.  Two
\* things only end it: that the call_out came while the patient was dead or a statue, and
\* that the cure of another patient took this one's call_out.
Acts ==
  \A p \in marked \ slept :
    IF kind = "disease" THEN call_outs[p] > 0 ELSE stray \/ call_outs[p] = 1
=============================================================================
