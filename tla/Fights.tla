------------------------------- MODULE Fights -------------------------------
(***************************************************************************)
(* Who fights whom: base/living/combat_intern.c, with the commands that    *)
(* attack, shoot and stop fights, moves between rooms, death and           *)
(* resurrection.  A living that fights has a call_out of cb_combat_round() *)
(* pending, which starts itself again until there is nobody left to        *)
(* attack, unless the blow ends in an error.  Hits are left to chance; who *)
(* is in one room is within reach.                                         *)
(***************************************************************************)
EXTENDS Naturals, FiniteSets, SequencesExt

CONSTANTS Livings,
          Npcs,       \* query_npc()
          Calm,       \* LIVE_NO_AUTOATTACK
          Walkers,    \* Who changes rooms.
          Rooms,
          Noone,      \* nil
          MaxRounds,  \* Bound: pending call_outs of one living.
          MaxLapses,  \* Bound: the sum of lapses and of fights that stand still.
          MaxFallen   \* Bound: so many are dead or gone at once.

ASSUME FightsAssumption ==
  /\ IsFiniteSet(Livings) /\ Npcs \subseteq Livings /\ Calm \subseteq Livings /\ Walkers \subseteq Livings
  /\ Noone \notin Livings
  /\ MaxRounds \in Nat /\ MaxLapses \in Nat /\ MaxFallen \in Nat

VARIABLES fight,   \* Per living: ao, enemies, the pending call_outs of
                   \* cb_combat_round(), and whether the state COMBAT is set.
          life,    \* "alive", "dead" or "gone"
          room,
          lapses,  \* History: how often a living lost its ao other than in its own round.
          failed   \* History: whose fight stands still after a round that failed.

fightVars == <<fight, life, room, lapses, failed>>

Alive(l) == life[l] = "alive"

\* cb_no_melee_attack() says 0.
CanHit(rm, a, v) == life[v] = "alive" /\ rm[a] = rm[v]

-----------------------------------------------------------------------------
\* cb_attacked_by()
AttackedBy(f, v, a) ==
  IF f[v].ao = a THEN f
  ELSE LET angry == [f EXCEPT ![v].enemies = @ \cup {a}]
       IN  IF f[v].ao # Noone \/ v \in Calm THEN angry
           ELSE [angry EXCEPT ![v].ao = a, ![v].rounds = @ + 1]

\* Mutant: every attack starts a call_out.
AttackStarts(f, a, v) ==
  IF f[a].ao = v \/ a = v THEN f
  ELSE AttackedBy([f EXCEPT ![a] = [ao |-> v, enemies |-> @.enemies \cup {v},
                                    rounds |-> @.rounds + 1, combat |-> TRUE]], v, a)

\* cb_attack_object(): who has somebody to attack already only turns to another.
Attack(f, a, v) ==
  IF f[a].ao = v \/ a = v THEN f
  ELSE LET turned == [f EXCEPT ![a].ao = v, ![a].enemies = @ \cup {v}]
       IN  AttackedBy(IF f[a].ao # Noone THEN turned
                      ELSE [turned EXCEPT ![a].rounds = @ + 1, ![a].combat = TRUE], v, a)

\* cb_init_fight(): l looks for an enemy to attack.
Foes(rm, f, l) == {e \in f[l].enemies : CanHit(rm, l, e)}
Dead(f, l)     == {e \in f[l].enemies : life[e] = "dead"}

\* Enemies found dead before that are forgotten, which makes the loop skip the next one,
\* be it dead or somebody to attack.
Forgetting(f, l, some) == [f EXCEPT ![l].enemies = @ \ some]
Finds(rm, f, l) ==
  UNION {{Attack(Forgetting(f, l, some), l, e) : some \in SUBSET Dead(f, l)} : e \in Foes(rm, f, l)}
FindsNobody(rm, f, l) ==
  LET Skips(some) == Cardinality((Foes(rm, f, l) \cup Dead(f, l)) \ some) <= Cardinality(some)
  IN  {Forgetting(f, l, some) : some \in {dead \in SUBSET Dead(f, l) : Skips(dead)}}

InitFight(rm, f, l) ==
  IF f[l].ao # Noone \/ (l \notin Npcs /\ l \in Calm) THEN {f}
  ELSE Finds(rm, f, l) \cup FindsNobody(rm, f, l)

\* The event E_MOVE_INV of a room, for the livings in some order; who has an ao keeps it.
Stirred(rm, f, livings) ==
  LET InTurn(seq) == FoldLeft(LAMBDA fs, l : UNION {InitFight(rm, g, l) : g \in fs}, {f}, seq)
  IN  UNION {InTurn(seq) : seq \in SetToSeqs({l \in livings : f[l].ao = Noone})}

In(r) == {l \in Livings : life[l] # "gone" /\ room[l] = r}

\* References to what is destructed turn nil, in arrays they are dropped before use.
Without(f, l) ==
  [k \in Livings |-> IF k = l THEN [ao |-> Noone, enemies |-> {}, rounds |-> 0, combat |-> FALSE]
                     ELSE [f[k] EXCEPT !.enemies = @ \ {l}, !.ao = IF @ = l THEN Noone ELSE @]]

\* Those that lost their ao between two rounds.
Lapsed(f) == [l \in Livings |-> IF fight[l].ao # Noone /\ f[l].ao = Noone /\ f[l].rounds > 0
                                THEN lapses[l] + 1 ELSE lapses[l]]

\* Who is in a fight without a round to come.
Stuck(f) == {l \in Livings : (f[l].ao # Noone \/ f[l].combat) /\ f[l].rounds = 0}

\* Where the bounds are kept.
FewLapses == FoldFunction(+, 0, lapses') + Cardinality(failed') <= MaxLapses
FewFallen == Cardinality({l \in Livings : life'[l] # "alive"}) <= MaxFallen
Fights(f) ==
  /\ fight' = f /\ failed' = failed \cap Stuck(f)
  /\ \A l \in Livings : f[l].rounds <= MaxRounds

-----------------------------------------------------------------------------
FightInit ==
  /\ fight = [l \in Livings |-> [ao |-> Noone, enemies |-> {}, rounds |-> 0, combat |-> FALSE]]
  /\ life = [l \in Livings |-> "alive"] /\ lapses = [l \in Livings |-> 0] /\ failed = {}
  /\ \E r \in Rooms : room = [l \in Livings |-> r]

\* The commands attack (a corpse too), backstab and steal, and spells.
AttackCmd(a, v) ==
  /\ Alive(a) /\ a # v /\ v \in In(room[a]) /\ Fights(Attack(fight, a, v))
  /\ UNCHANGED <<life, room, lapses>>

\* The command assist: whom another attacks, wherever that one is.
AssistCmd(a, b) ==
  /\ Alive(a) /\ b \in In(room[a]) \ {a} /\ fight[b].ao \notin {Noone, a}
  /\ Fights(Attack(fight, a, fight[b].ao))
  /\ UNCHANGED <<life, room, lapses>>

\* do_die() clears all states, not the enemies.
Killed(f, v) == [f EXCEPT ![v].combat = FALSE]
Falls(v) == life' = [life EXCEPT ![v] = "dead"] /\ FewFallen
Dies(f, v) == Falls(v) /\ Fights(Killed(f, v))

\* shoot and throw, from another room too.
Shoot(a, v) ==
  /\ Alive(a) /\ Alive(v) /\ a # v
  /\ \/ Fights(AttackedBy(fight, v, a)) /\ UNCHANGED life
     \/ Dies(AttackedBy(fight, v, a), v)
  /\ UNCHANGED <<room, lapses>>

\* Mutant: who turns to another enemy forgets to go on.
TurnsOnce(f, l, e, forgotten) ==
  [f EXCEPT ![l].ao = e, ![l].enemies = @ \ forgotten, ![l].rounds = @ - 1]

\* The round goes on against e.
TurnsTo(f, l, e, forgotten) == [f EXCEPT ![l].ao = e, ![l].enemies = @ \ forgotten]

\* The blow ends in an error before the next call_out is started: cb_message() does not
\* catch what the victim's listeners of E_GOT_HIT do, of which E_got_hit() fails for who
\* loses the concentration on a spell, nor the error of do_die() for a player without a
\* connection, who has died by then.
EndsInError(f, l) ==
  LET missing == [f EXCEPT ![l].rounds = @ - 1]
  IN  /\ fight' = missing /\ failed' = (failed \cup {l}) \cap Stuck(missing)
      /\ FewLapses

\* Nobody is left to attack: no call_out is started again.
Ends(f, l, enemies) ==
  [f EXCEPT ![l] = [ao |-> Noone, enemies |-> enemies, rounds |-> @.rounds - 1, combat |-> FALSE]]

\* cb_combat_round(): against ao, or one of the other enemies that are here; whoever is
\* found dead is forgotten.  Not at all, or somebody is hit, and dies; or the round fails.
Round(l) ==
  LET f    == fight
      dead == {e \in f[l].enemies : life[e] = "dead" /\ (e = f[l].ao \/ room[e] = room[l])}
      foes == IF f[l].ao # Noone /\ CanHit(room, l, f[l].ao) THEN {f[l].ao}
              ELSE {e \in f[l].enemies : CanHit(room, l, e)}
  IN  /\ f[l].rounds > 0 /\ UNCHANGED <<room, lapses>>
      /\ IF ~Alive(l) THEN Fights(Ends(f, l, {})) /\ UNCHANGED life
         ELSE IF foes = {} THEN Fights(Ends(f, l, f[l].enemies \ dead)) /\ UNCHANGED life
         ELSE \E e \in foes, forgotten \in SUBSET dead :
                /\ e = f[l].ao => forgotten = {}
                /\ f[l].ao \in dead => f[l].ao \in forgotten
                /\ LET turned == TurnsTo(f, l, e, forgotten)
                   IN  \/ Fights(turned) /\ UNCHANGED life
                       \/ Dies(turned, e)
                       \/ EndsInError(turned, l) /\ UNCHANGED life
                       \/ EndsInError(Killed(turned, e), l) /\ Falls(e) /\ e \notin Npcs

\* The event of the room that is left comes first, and reaches who moves, too.
Move(l, to) ==
  /\ Alive(l) /\ room[l] # to /\ room' = [room EXCEPT ![l] = to]
  /\ \E f \in Stirred(room', fight, In(room[l])) :
       \E g \in Stirred(room', f, In(to) \cup {l}) : Fights(g)
  /\ UNCHANGED <<life, lapses>>

\* Something else moves.
Stir(r) ==
  /\ \E f \in Stirred(room, fight, In(r)) : Fights(f)
  /\ UNCHANGED <<life, room, lapses>>

\* The command "stop fights" of a coder: all enemies are forgotten.
StopFights(r) ==
  LET f == [l \in Livings |-> IF l \in In(r) /\ Alive(l)
                              THEN [fight[l] EXCEPT !.enemies = {}, !.ao = IF @ \in fight[l].enemies THEN Noone ELSE @]
                              ELSE fight[l]]
  IN  /\ f # fight /\ Fights(f) /\ lapses' = Lapsed(f) /\ FewLapses
      /\ UNCHANGED <<life, room>>

\* An npc is removed, a player quits, a corpse decays.
Goes(l) ==
  /\ life[l] # "gone" /\ life' = [life EXCEPT ![l] = "gone"] /\ FewFallen
  /\ Fights(Without(fight, l)) /\ lapses' = [Lapsed(fight') EXCEPT ![l] = 0]
  /\ FewLapses
  /\ UNCHANGED room

Resurrect(l) ==
  /\ life[l] = "dead" /\ l \notin Npcs /\ life' = [life EXCEPT ![l] = "alive"]
  /\ UNCHANGED <<fight, room, lapses, failed>>

FightNext ==
  \/ \E a, v \in Livings : AttackCmd(a, v) \/ AssistCmd(a, v) \/ Shoot(a, v)
  \/ \E l \in Livings : Round(l) \/ Goes(l) \/ Resurrect(l)
  \/ \E l \in Walkers, r \in Rooms : Move(l, r)
  \/ \E r \in Rooms : Stir(r) \/ StopFights(r)

FightSpec == FightInit /\ [][FightNext]_fightVars

-----------------------------------------------------------------------------
(* Properties *)

FightTypeOK ==
  /\ fight \in [Livings -> [ao : Livings \cup {Noone}, enemies : SUBSET Livings,
                            rounds : 0..MaxRounds, combat : BOOLEAN]]
  /\ life \in [Livings -> {"alive", "dead", "gone"}] /\ room \in [Livings -> Rooms]
  /\ failed \subseteq Livings
  /\ \A l \in Livings : life[l] = "gone" => \A k \in Livings : fight[k].ao # l /\ l \notin fight[k].enemies

\* Who has somebody to attack has a round to come: cb_attack_object() and
\* cb_attacked_by() start none for who has an ao, so a fight that lost its call_out
\* would never go on (combat_intern.c:345, 377).  Nor is the state COMBAT, in which most
\* commands are forbidden, left behind: it takes a round to end it.  The one way into
\* that is a round of one's own that ends in an error, the latest before the next
\* call_out (combat_intern.c:493, combat.c:588); it lasts until another attack, after
\* the ao was lost, starts a round again.
FightsOn == Stuck(fight) \subseteq failed

\* Nobody fights faster than one round after the other, but for each time that the ao
\* was lost, to "stop fights" or by destruction, while a round was pending: the next
\* attack starts another call_out beside it.
OneRound == \A l \in Livings : fight[l].rounds <= 1 + lapses[l]

\* So a fight whose rounds do not fail goes on at one pace until nobody is left to fight.
RoundsRight == FightsOn /\ OneRound

=============================================================================
