----------------------------- MODULE BodyProofs ------------------------------
(***************************************************************************)
(* Proofs about what becomes of a living that fights: whom it attacks and  *)
(* who attacks it, the wounds that bleed, and what it holds, wields and    *)
(* wears.                                                                  *)
(***************************************************************************)
EXTENDS Fights, Bleeding, ToolSlots, SetInduction, SequenceTheorems, TLAPS

(***************************************************************************)
(* Proofs about Fights, for any livings and rooms, and without the bounds. *)
(* RoundsRight counts the rounds that are pending, and is inductive when   *)
(* it says which of them a lapse left behind: all of them for a living     *)
(* that attacks nobody, all but one for one that does; and who may be      *)
(* without any, for its round failed.                                      *)
(***************************************************************************)

Fighters == [ao : Livings \cup {Noone}, enemies : SUBSET Livings, rounds : Nat, combat : BOOLEAN]

\* The fighter k with so many lapses, among the living and the dead, some of which may
\* have no round to come.
FitToFight(r, missed, lf, k, may) ==
  /\ k \notin may /\ (r.ao # Noone \/ r.combat) => r.rounds > 0
  /\ r.rounds <= missed + (IF r.ao = Noone THEN 0 ELSE 1)
  /\ \A l \in Livings : lf[l] = "gone" => r.ao # l /\ l \notin r.enemies

FitAll(f, missed, lf, may) ==
  f \in [Livings -> Fighters] /\ \A l \in Livings : FitToFight(f[l], missed[l], lf, l, may)

FightInd ==
  /\ FitAll(fight, lapses, life, failed) /\ \A l \in Livings : fight[l].rounds <= MaxRounds
  /\ lapses \in [Livings -> Nat] /\ life \in [Livings -> {"alive", "dead", "gone"}]
  /\ room \in [Livings -> Rooms] /\ failed \in SUBSET Livings

-----------------------------------------------------------------------------
LEMMA SameFighter ==
  ASSUME NEW r \in Fighters, NEW s \in Fighters,
         r.ao = s.ao, r.enemies = s.enemies, r.rounds = s.rounds, r.combat = s.combat
  PROVE  r = s
  BY DEF Fighters

LEMMA OneFits ==
  ASSUME NEW missed, NEW lf, NEW may, NEW f, FitAll(f, missed, lf, may), NEW l \in Livings,
         NEW r \in Fighters, FitToFight(r, missed[l], lf, l, may)
  PROVE  FitAll([f EXCEPT ![l] = r], missed, lf, may)
  BY DEF FitAll

\* Whoever is attacked strikes back, with one round if none is to come for it.
LEMMA AttackedFits ==
  ASSUME NEW missed \in [Livings -> Nat], NEW lf, NEW may, NEW f, FitAll(f, missed, lf, may),
         NEW v \in Livings, NEW a \in Livings, lf[a] # "gone"
  PROVE  FitAll(AttackedBy(f, v, a), missed, lf, may)
<1> DEFINE angry == [f[v] EXCEPT !.enemies = @ \cup {a}]
           back  == [ao |-> a, enemies |-> angry.enemies, rounds |-> angry.rounds + 1, combat |-> angry.combat]
<1>1. f \in [Livings -> Fighters] /\ f[v] \in Fighters /\ FitToFight(f[v], missed[v], lf, v, may) /\ missed[v] \in Nat
  BY DEF FitAll
<1>2. angry \in Fighters /\ FitToFight(angry, missed[v], lf, v, may)
  BY <1>1 DEF Fighters, FitToFight
<1>3. ASSUME f[v].ao = Noone PROVE back \in Fighters /\ FitToFight(back, missed[v], lf, v, may)
  BY <1>1, <1>3, FightsAssumption DEF Fighters, FitToFight
<1>7. [f EXCEPT ![v].enemies = @ \cup {a}] = [f EXCEPT ![v] = angry]
  BY <1>1
<1>8. [[f EXCEPT ![v] = angry] EXCEPT ![v].ao = a, ![v].rounds = @ + 1] = [f EXCEPT ![v] = back]
  <2>1. [angry EXCEPT !.ao = a, !.rounds = @ + 1] = back
    <3>1. angry.rounds + 1 \in Nat /\ back \in Fighters
      BY <1>2 DEF Fighters
    <3>2. back.ao = a /\ back.enemies = angry.enemies /\ back.rounds = angry.rounds + 1 /\ back.combat = angry.combat
      BY <1>2 DEF Fighters
    <3> HIDE DEF angry, back
    <3>3. [angry EXCEPT !.ao = a, !.rounds = @ + 1] \in Fighters
      BY <1>2, <3>1 DEF Fighters
    <3>4. /\ [angry EXCEPT !.ao = a, !.rounds = @ + 1].ao = a
          /\ [angry EXCEPT !.ao = a, !.rounds = @ + 1].enemies = angry.enemies
          /\ [angry EXCEPT !.ao = a, !.rounds = @ + 1].rounds = angry.rounds + 1
          /\ [angry EXCEPT !.ao = a, !.rounds = @ + 1].combat = angry.combat
      BY <1>2 DEF Fighters
    <3> QED
      BY <3>1, <3>2, <3>3, <3>4, SameFighter
  <2> HIDE DEF angry, back
  <2>2. [[f EXCEPT ![v] = angry] EXCEPT ![v].ao = a, ![v].rounds = @ + 1]
          = [f EXCEPT ![v] = [angry EXCEPT !.ao = a, !.rounds = @ + 1]]
    BY <1>1, <1>2 DEF Fighters
  <2> QED
    BY <2>1, <2>2
<1> HIDE DEF angry, back
<1>4. CASE f[v].ao = a
  BY <1>4 DEF AttackedBy
<1>5. CASE f[v].ao # a /\ (f[v].ao # Noone \/ v \in Calm)
  <2>1. AttackedBy(f, v, a) = [f EXCEPT ![v] = angry]
    BY <1>5, <1>7 DEF AttackedBy
  <2>2. FitAll([f EXCEPT ![v] = angry], missed, lf, may)
    BY <1>2, OneFits
  <2> QED
    BY <2>1, <2>2
<1>6. CASE f[v].ao # a /\ ~(f[v].ao # Noone \/ v \in Calm)
  <2>1. AttackedBy(f, v, a) = [f EXCEPT ![v] = back]
    BY <1>6, <1>7, <1>8 DEF AttackedBy
  <2>2. FitAll([f EXCEPT ![v] = back], missed, lf, may)
    BY <1>3, <1>6, OneFits
  <2> QED
    BY <2>1, <2>2
<1> QED
  BY <1>4, <1>5, <1>6

LEMMA AttackFits ==
  ASSUME NEW missed \in [Livings -> Nat], NEW lf, NEW may, NEW f, FitAll(f, missed, lf, may),
         NEW v \in Livings, NEW a \in Livings, lf[a] # "gone", lf[v] # "gone"
  PROVE  FitAll(Attack(f, a, v), missed, lf, may)
<1> DEFINE turned == [f[a] EXCEPT !.ao = v, !.enemies = @ \cup {v}]
           starts == [ao |-> v, enemies |-> turned.enemies, rounds |-> turned.rounds + 1, combat |-> TRUE]
<1>1. f \in [Livings -> Fighters] /\ f[a] \in Fighters /\ FitToFight(f[a], missed[a], lf, a, may) /\ missed[a] \in Nat
  BY DEF FitAll
<1>2. ASSUME f[a].ao # Noone PROVE turned \in Fighters /\ FitToFight(turned, missed[a], lf, a, may)
  BY <1>1, <1>2, FightsAssumption DEF Fighters, FitToFight
<1>3. ASSUME f[a].ao = Noone PROVE starts \in Fighters /\ FitToFight(starts, missed[a], lf, a, may)
  BY <1>1, <1>3, FightsAssumption DEF Fighters, FitToFight
<1>7. [f EXCEPT ![a].ao = v, ![a].enemies = @ \cup {v}] = [f EXCEPT ![a] = turned]
  BY <1>1 DEF Fighters
<1>8. [[f EXCEPT ![a] = turned] EXCEPT ![a].rounds = @ + 1, ![a].combat = TRUE] = [f EXCEPT ![a] = starts]
  <2>1. turned \in Fighters
    BY <1>1 DEF Fighters
  <2>2. [turned EXCEPT !.rounds = @ + 1, !.combat = TRUE] = starts
    <3>1. turned.rounds + 1 \in Nat /\ starts \in Fighters
      BY <1>1 DEF Fighters
    <3>2. /\ starts.ao = turned.ao /\ starts.enemies = turned.enemies
          /\ starts.rounds = turned.rounds + 1 /\ starts.combat = TRUE
      BY <1>1 DEF Fighters
    <3> HIDE DEF turned, starts
    <3>3. [turned EXCEPT !.rounds = @ + 1, !.combat = TRUE] \in Fighters
      BY <2>1, <3>1 DEF Fighters
    <3>4. /\ [turned EXCEPT !.rounds = @ + 1, !.combat = TRUE].ao = turned.ao
          /\ [turned EXCEPT !.rounds = @ + 1, !.combat = TRUE].enemies = turned.enemies
          /\ [turned EXCEPT !.rounds = @ + 1, !.combat = TRUE].rounds = turned.rounds + 1
          /\ [turned EXCEPT !.rounds = @ + 1, !.combat = TRUE].combat = TRUE
      BY <2>1 DEF Fighters
    <3> QED
      BY <3>1, <3>2, <3>3, <3>4, SameFighter
  <2> HIDE DEF turned, starts
  <2>3. [[f EXCEPT ![a] = turned] EXCEPT ![a].rounds = @ + 1, ![a].combat = TRUE]
          = [f EXCEPT ![a] = [turned EXCEPT !.rounds = @ + 1, !.combat = TRUE]]
    BY <1>1, <2>1 DEF Fighters
  <2> QED
    BY <2>2, <2>3
<1> HIDE DEF turned, starts
<1>4. CASE f[a].ao = v \/ a = v
  BY <1>4 DEF Attack
<1>5. CASE ~(f[a].ao = v \/ a = v) /\ f[a].ao # Noone
  <2>1. Attack(f, a, v) = AttackedBy([f EXCEPT ![a] = turned], v, a)
    BY <1>5, <1>7 DEF Attack
  <2> QED
    BY <1>2, <1>5, <2>1, OneFits, AttackedFits
<1>6. CASE ~(f[a].ao = v \/ a = v) /\ f[a].ao = Noone
  <2>1. Attack(f, a, v) = AttackedBy([f EXCEPT ![a] = starts], v, a)
    BY <1>6, <1>7, <1>8 DEF Attack
  <2> QED
    BY <1>3, <1>6, <2>1, OneFits, AttackedFits
<1> QED
  BY <1>4, <1>5, <1>6

\* To forget enemies changes nothing else.
LEMMA ForgettingFits ==
  ASSUME NEW missed, NEW lf, NEW may, NEW f, FitAll(f, missed, lf, may), NEW l \in Livings, NEW forgotten
  PROVE  FitAll([f EXCEPT ![l].enemies = @ \ forgotten], missed, lf, may)
<1> DEFINE calmer == [f[l] EXCEPT !.enemies = @ \ forgotten]
<1>1. f \in [Livings -> Fighters] /\ f[l] \in Fighters /\ FitToFight(f[l], missed[l], lf, l, may)
  BY DEF FitAll
<1>2. calmer \in Fighters /\ FitToFight(calmer, missed[l], lf, l, may)
  BY <1>1 DEF Fighters, FitToFight
<1>3. [f EXCEPT ![l].enemies = @ \ forgotten] = [f EXCEPT ![l] = calmer]
  BY <1>1 DEF Fighters
<1> QED
  BY <1>2, <1>3, OneFits

\* The fights with which all are fit.
Fitting == {f \in [Livings -> Fighters] : FitAll(f, lapses, life, failed)}

LEMMA InitFightFits ==
  ASSUME lapses \in [Livings -> Nat], NEW rm, NEW f \in Fitting, NEW l \in Livings, life[l] # "gone",
         NEW g \in InitFight(rm, f, l)
  PROVE  g \in Fitting
<1>1. f[l].enemies \subseteq Livings /\ FitAll(f, lapses, life, failed)
  BY DEF Fitting, Fighters
<1>2. \A some : FitAll(Forgetting(f, l, some), lapses, life, failed)
  BY <1>1, ForgettingFits DEF Forgetting
<1>3. CASE g = f
  BY <1>1, <1>3 DEF Fitting, FitAll
<1>4. CASE g \in Finds(rm, f, l)
  <2>1. PICK e \in Foes(rm, f, l), some \in SUBSET Dead(f, l) : g = Attack(Forgetting(f, l, some), l, e)
    BY <1>4 DEF Finds
  <2>2. e \in Livings /\ life[e] # "gone"
    BY <1>1 DEF Foes, CanHit
  <2>3. FitAll(g, lapses, life, failed)
    BY <1>2, <2>1, <2>2, AttackFits
  <2> QED
    BY <2>3 DEF Fitting, FitAll
<1>5. CASE g \in FindsNobody(rm, f, l)
  <2>1. PICK some \in SUBSET Dead(f, l) : g = Forgetting(f, l, some)
    BY <1>5 DEF FindsNobody
  <2>2. FitAll(g, lapses, life, failed)
    BY <1>2, <2>1
  <2> QED
    BY <2>2 DEF Fitting, FitAll
<1> QED
  BY <1>3, <1>4, <1>5 DEF InitFight

\* All that may come of it when l looks around.
LooksAround(rm, fs, l) == UNION {InitFight(rm, g, l) : g \in fs}

LEMMA LooksAroundFits ==
  ASSUME lapses \in [Livings -> Nat], NEW rm, NEW fs \in SUBSET Fitting, NEW l \in Livings, life[l] # "gone"
  PROVE  LooksAround(rm, fs, l) \in SUBSET Fitting
  BY InitFightFits DEF LooksAround

InTurns(rm, f, seq) == CHOOSE it : it = [s \in SUBSET DOMAIN seq |->
  IF s = {} THEN {f} ELSE LooksAround(rm, it[s \ {Max(s)}], seq[Max(s)])]

\* One after the other looks around.
LEMMA InTurnFits ==
  ASSUME lapses \in [Livings -> Nat], NEW rm, NEW f \in Fitting, NEW n \in Nat,
         NEW seq \in [1 .. n -> {l \in Livings : life[l] # "gone"}]
  PROVE  InTurns(rm, f, seq)[DOMAIN seq] \in SUBSET Fitting
<1> DEFINE D == SUBSET Fitting
           S == 1 .. n
           it == InTurns(rm, f, seq)
           F == [p \in S \X D |-> LooksAround(rm, p[2], seq[p[1]])]
<1>1. \A i \in S, fs \in D : LooksAround(rm, fs, seq[i]) \in D
  BY LooksAroundFits
<1>2. F \in [S \X D -> D] /\ \A i \in S, fs \in D : F[<<i, fs>>] = LooksAround(rm, fs, seq[i])
  <2> HIDE DEF S, D
  <2> QED
    BY <1>1
<1>3. DOMAIN seq = S /\ {f} \in D
  OBVIOUS
<1>4. \A s \in SUBSET S : s # {} => Max(s) \in S /\ s \ {Max(s)} \in SUBSET S /\ s \ {Max(s)} # s
  BY LastOf
<1> HIDE DEF F, D
<1>14. S = 1 .. n
  OBVIOUS
<1> DEFINE base == {f}
<1>15. base \in D /\ F \in [S \X D -> D]
  BY <1>2, <1>3
<1> HIDE DEF S, base
<1>5. PICK g \in [SUBSET S -> D] : FoldedLeft(g, S, F, base)
  BY <1>14, <1>15, FoldLeftExists, Zenon
<1>6. \A s \in SUBSET S : g[s] = IF s = {} THEN {f} ELSE LooksAround(rm, g[s \ {Max(s)}], seq[Max(s)])
  BY <1>2, <1>4, <1>5 DEF base, FoldedLeft
<1>7. g = [s \in SUBSET S |-> IF s = {} THEN {f} ELSE LooksAround(rm, g[s \ {Max(s)}], seq[Max(s)])]
  BY <1>6
<1>8. it = [s \in SUBSET S |-> IF s = {} THEN {f} ELSE LooksAround(rm, it[s \ {Max(s)}], seq[Max(s)])]
  BY <1>3, <1>7, Zenon DEF InTurns
<1> HIDE DEF it
<1>9. \A s \in SUBSET S : it[s] = IF s = {} THEN {f} ELSE LooksAround(rm, it[s \ {Max(s)}], seq[Max(s)])
  BY <1>8
<1> DEFINE A == {s \in SUBSET S : it[s] \in D}
<1>10. Shrinks(S, A)
  <2> SUFFICES ASSUME NEW T \in SUBSET S, \A U \in SUBSET T : U # T => U \in A
               PROVE  it[T] \in D
    BY DEF Shrinks
  <2>1. CASE T = {}
    BY <1>3, <1>9, <2>1
  <2>2. CASE T # {}
    <3>1. Max(T) \in S /\ T \ {Max(T)} \in A
      BY <1>4, <2>2
    <3>2. LooksAround(rm, it[T \ {Max(T)}], seq[Max(T)]) \in D
      BY <1>1, <3>1
    <3>3. it[T] = LooksAround(rm, it[T \ {Max(T)}], seq[Max(T)])
      BY <1>9, <2>2
    <3> QED
      BY <3>2, <3>3
  <2> QED
    BY <2>1, <2>2
<1> HIDE DEF A
<1>11. IsFiniteSet(S)
  BY FS_Interval DEF S
<1>12. S \in A
  BY <1>10, <1>11, AllShrunk
<1>13. it[S] \in D
  BY <1>12 DEF A
<1> QED
  BY <1>3, <1>13 DEF D, it

LEMMA StirredFits ==
  ASSUME lapses \in [Livings -> Nat], NEW rm, NEW f \in Fitting,
         NEW there \in SUBSET {l \in Livings : life[l] # "gone"}, NEW g \in Stirred(rm, f, there)
  PROVE  g \in Fitting
<1> DEFINE idle == {l \in there : f[l].ao = Noone}
<1>1. PICK seq \in SetToSeqs(idle) : g \in InTurns(rm, f, seq)[DOMAIN seq]
  BY Zenon DEF Stirred, FoldLeft, MapThenFoldSet, InTurns, LooksAround
<1>2. Cardinality(idle) \in Nat
  <2>1. IsFiniteSet(idle)
    BY FightsAssumption, FS_Subset
  <2> QED
    BY <2>1, FS_CardinalityType
<1>3. seq \in [1 .. Cardinality(idle) -> {l \in Livings : life[l] # "gone"}]
  BY <1>1, <1>2 DEF SetToSeqs
<1> QED
  BY <1>1, <1>2, <1>3, InTurnFits

-----------------------------------------------------------------------------
\* A step that leaves who is where and who lives, or lets somebody die.
LEMMA ResumedFits ==
  ASSUME NEW missed, NEW lf, NEW may, NEW f, FitAll(f, missed, lf, may)
  PROVE  FitAll(f, missed, lf, may \cap Stuck(f))
  BY DEF FitAll, FitToFight, Stuck, Fighters

LEMMA FightsKeeps ==
  ASSUME FightInd, NEW f, FitAll(f, lapses, life, failed), Fights(f), UNCHANGED <<life, room, lapses>>
  PROVE  FightInd'
<1>1. FitAll(f, lapses, life, failed')
  BY ResumedFits DEF Fights
<1>2. fight' = f /\ failed' \in SUBSET Livings /\ \A l \in Livings : fight'[l].rounds <= MaxRounds
  BY DEF Fights, FightInd
<1> QED
  BY <1>1, <1>2 DEF FightInd

LEMMA KilledFits ==
  ASSUME NEW f, FitAll(f, lapses, life, failed), NEW v \in Livings
  PROVE  FitAll(Killed(f, v), lapses, life, failed)
<1> DEFINE r == [f[v] EXCEPT !.combat = FALSE]
<1>1. f \in [Livings -> Fighters] /\ f[v] \in Fighters /\ FitToFight(f[v], lapses[v], life, v, failed)
  BY DEF FitAll
<1>2. r \in Fighters /\ FitToFight(r, lapses[v], life, v, failed)
  BY <1>1 DEF Fighters, FitToFight
<1>3. Killed(f, v) = [f EXCEPT ![v] = r]
  BY <1>1 DEF Killed
<1> HIDE DEF r
<1>4. FitAll([f EXCEPT ![v] = r], lapses, life, failed)
  BY <1>2, OneFits
<1> QED
  BY <1>3, <1>4

\* Death takes nobody away.
LEMMA FallsFit ==
  ASSUME FightInd, NEW v \in Livings, life[v] # "gone", Falls(v), NEW f, NEW may, FitAll(f, lapses, life, may)
  PROVE  life' \in [Livings -> {"alive", "dead", "gone"}] /\ FitAll(f, lapses, life', may)
<1>1. life' \in [Livings -> {"alive", "dead", "gone"}] /\ \A l \in Livings : life'[l] = "gone" <=> life[l] = "gone"
  BY DEF FightInd, Falls
<1> QED
  BY <1>1 DEF FitAll, FitToFight

LEMMA DiesKeeps ==
  ASSUME FightInd, NEW f, FitAll(f, lapses, life, failed), NEW v \in Livings, life[v] # "gone",
         Dies(f, v), UNCHANGED <<room, lapses>>
  PROVE  FightInd'
<1>1. Falls(v) /\ Fights(Killed(f, v))
  BY DEF Dies
<1>2. FitAll(Killed(f, v), lapses, life, failed')
  BY <1>1, KilledFits, ResumedFits DEF Fights
<1>3. life' \in [Livings -> {"alive", "dead", "gone"}] /\ FitAll(Killed(f, v), lapses, life', failed')
  BY <1>1, <1>2, FallsFit
<1>4. fight' = Killed(f, v) /\ failed' \in SUBSET Livings /\ \A l \in Livings : fight'[l].rounds <= MaxRounds
  BY <1>1 DEF Fights, FightInd
<1> QED
  BY <1>3, <1>4 DEF FightInd

LEMMA AttackCmdKeeps ==
  ASSUME FightInd, NEW a \in Livings, NEW v \in Livings, AttackCmd(a, v) \/ AssistCmd(a, v)
  PROVE  FightInd'
<1>1. FitAll(fight, lapses, life, failed) /\ lapses \in [Livings -> Nat] /\ fight[v] \in Fighters
      /\ FitToFight(fight[v], lapses[v], life, v, failed)
  BY DEF FightInd, FitAll
<1>2. life[a] # "gone"
  BY DEF AttackCmd, AssistCmd, Alive
<1>3. CASE AttackCmd(a, v)
  <2>1. life[v] # "gone" /\ Fights(Attack(fight, a, v)) /\ UNCHANGED <<life, room, lapses>>
    BY <1>3 DEF AttackCmd, In
  <2>2. FitAll(Attack(fight, a, v), lapses, life, failed)
    BY <1>1, <1>2, <2>1, AttackFits
  <2> QED
    BY <2>1, <2>2, FightsKeeps
<1>4. CASE AssistCmd(a, v)
  <2> DEFINE w == fight[v].ao
  <2>1. w # Noone /\ Fights(Attack(fight, a, w)) /\ UNCHANGED <<life, room, lapses>>
    BY <1>4 DEF AssistCmd
  <2>2. w \in Livings /\ life[w] # "gone"
    BY <1>1, <2>1 DEF Fighters, FitToFight
  <2> HIDE DEF w
  <2>3. FitAll(Attack(fight, a, w), lapses, life, failed)
    BY <1>1, <1>2, <2>2, AttackFits
  <2> QED
    BY <2>1, <2>3, FightsKeeps
<1> QED
  BY <1>3, <1>4

LEMMA ShootKeeps ==
  ASSUME FightInd, NEW a \in Livings, NEW v \in Livings, Shoot(a, v)
  PROVE  FightInd'
<1>1. life[a] # "gone" /\ life[v] # "gone" /\ UNCHANGED <<room, lapses>>
  BY DEF Shoot, Alive
<1>2. FitAll(AttackedBy(fight, v, a), lapses, life, failed)
  BY <1>1, AttackedFits DEF FightInd
<1>3. CASE Fights(AttackedBy(fight, v, a)) /\ UNCHANGED life
  BY <1>1, <1>2, <1>3, FightsKeeps
<1>4. CASE Dies(AttackedBy(fight, v, a), v)
  BY <1>1, <1>2, <1>4, DiesKeeps
<1> QED
  BY <1>3, <1>4 DEF Shoot

\* Whoever has nobody left to attack starts no other round.
LEMMA EndsFits ==
  ASSUME FightInd, NEW l \in Livings, fight[l].rounds > 0, NEW enemies \in SUBSET fight[l].enemies
  PROVE  FitAll(Ends(fight, l, enemies), lapses, life, failed)
<1> DEFINE r == [ao |-> Noone, enemies |-> enemies, rounds |-> fight[l].rounds - 1, combat |-> FALSE]
<1>1. FitAll(fight, lapses, life, failed) /\ fight[l] \in Fighters /\ FitToFight(fight[l], lapses[l], life, l, failed) /\ lapses[l] \in Nat
  BY DEF FightInd, FitAll
<1>2. r \in Fighters /\ FitToFight(r, lapses[l], life, l, failed)
  BY <1>1, FightsAssumption DEF Fighters, FitToFight
<1>3. Ends(fight, l, enemies) = [fight EXCEPT ![l] = r]
  BY DEF Ends
<1> HIDE DEF r
<1>4. FitAll([fight EXCEPT ![l] = r], lapses, life, failed)
  BY <1>1, <1>2, OneFits
<1> QED
  BY <1>3, <1>4

LEMMA TurnsToFits ==
  ASSUME FightInd, NEW l \in Livings, fight[l].rounds > 0, NEW e \in Livings, life[e] # "gone", NEW forgotten
  PROVE  FitAll(TurnsTo(fight, l, e, forgotten), lapses, life, failed)
<1> DEFINE r == [fight[l] EXCEPT !.ao = e, !.enemies = @ \ forgotten]
<1>1. FitAll(fight, lapses, life, failed) /\ fight \in [Livings -> Fighters] /\ fight[l] \in Fighters
      /\ FitToFight(fight[l], lapses[l], life, l, failed) /\ lapses[l] \in Nat
  BY DEF FightInd, FitAll
<1>2. r \in Fighters /\ FitToFight(r, lapses[l], life, l, failed)
  <2>1. /\ r \in Fighters /\ r.ao = e /\ r.enemies \subseteq fight[l].enemies
        /\ r.rounds = fight[l].rounds /\ r.combat = fight[l].combat
    BY <1>1 DEF Fighters
  <2>2. fight[l].rounds \in Nat /\ fight[l].rounds <= lapses[l] + 1
    BY <1>1 DEF Fighters, FitToFight
  <2> HIDE DEF r
  <2> QED
    BY <1>1, <2>1, <2>2, FightsAssumption DEF FitToFight
<1>3. TurnsTo(fight, l, e, forgotten) = [fight EXCEPT ![l] = r]
  BY <1>1 DEF TurnsTo, Fighters
<1> HIDE DEF r
<1>4. FitAll([fight EXCEPT ![l] = r], lapses, life, failed)
  BY <1>1, <1>2, OneFits
<1> QED
  BY <1>3, <1>4

\* Of a round that ends in an error nothing is left but the fighter without one.
LEMMA ErrorFits ==
  ASSUME FightInd, NEW f, FitAll(f, lapses, life, failed), NEW l \in Livings, f[l].rounds > 0,
         f[l].rounds <= MaxRounds, \A k \in Livings : k # l => f[k].rounds <= MaxRounds,
         EndsInError(f, l)
  PROVE  /\ FitAll(fight', lapses, life, failed') /\ failed' \in SUBSET Livings
         /\ \A k \in Livings : fight'[k].rounds <= MaxRounds
<1> DEFINE r == [f[l] EXCEPT !.rounds = @ - 1]
           more == failed \cup {l}
<1>1. f \in [Livings -> Fighters] /\ f[l] \in Fighters /\ FitToFight(f[l], lapses[l], life, l, failed) /\ lapses[l] \in Nat
  BY DEF FitAll, FightInd
<1>2. r \in Fighters /\ FitToFight(r, lapses[l], life, l, more) /\ r.rounds <= MaxRounds
  BY <1>1, FightsAssumption DEF Fighters, FitToFight
<1>3. fight' = [f EXCEPT ![l] = r] /\ failed' = more \cap Stuck(fight')
  BY <1>1 DEF EndsInError
<1> HIDE DEF r
<1>4. FitAll(f, lapses, life, more)
  BY DEF FitAll, FitToFight
<1> HIDE DEF more
<1>5. FitAll(fight', lapses, life, more)
  BY <1>2, <1>3, <1>4, OneFits
<1>6. FitAll(fight', lapses, life, failed')
  BY <1>3, <1>5, ResumedFits
<1>7. failed' \in SUBSET Livings
  BY <1>3 DEF Stuck
<1> QED
  BY <1>1, <1>2, <1>3, <1>6, <1>7

LEMMA RoundKeeps ==
  ASSUME FightInd, NEW l \in Livings, Round(l)
  PROVE  FightInd'
<1> DEFINE f    == fight
           dead == {e \in f[l].enemies : life[e] = "dead" /\ (e = f[l].ao \/ room[e] = room[l])}
           foes == IF f[l].ao # Noone /\ CanHit(room, l, f[l].ao) THEN {f[l].ao}
                   ELSE {e \in f[l].enemies : CanHit(room, l, e)}
<1>1. fight[l].rounds > 0 /\ UNCHANGED <<room, lapses>>
  BY DEF Round
<1>2. fight[l] \in Fighters /\ FitToFight(fight[l], lapses[l], life, l, failed)
  BY DEF FightInd, FitAll
<1>3. \A e \in foes : e \in Livings /\ life[e] # "gone"
  BY <1>2 DEF CanHit, Fighters
<1>4. CASE ~Alive(l)
  <2>1. Fights(Ends(fight, l, {})) /\ UNCHANGED life
    BY <1>4 DEF Round
  <2> QED
    BY <1>1, <2>1, EndsFits, FightsKeeps
<1>5. CASE Alive(l) /\ foes = {}
  <2>1. Fights(Ends(fight, l, fight[l].enemies \ dead)) /\ UNCHANGED life
    BY <1>5 DEF Round
  <2> HIDE DEF dead
  <2> QED
    BY <1>1, <2>1, EndsFits, FightsKeeps
<1>6. CASE Alive(l) /\ foes # {}
  <2>1. PICK e \in foes, forgotten \in SUBSET dead :
          \/ Fights(TurnsTo(fight, l, e, forgotten)) /\ UNCHANGED life
          \/ Dies(TurnsTo(fight, l, e, forgotten), e)
          \/ EndsInError(TurnsTo(fight, l, e, forgotten), l) /\ UNCHANGED life
          \/ EndsInError(Killed(TurnsTo(fight, l, e, forgotten), e), l) /\ Falls(e)
    BY <1>6 DEF Round
  <2> HIDE DEF dead, foes
  <2> DEFINE turned == TurnsTo(fight, l, e, forgotten)
  <2>2. FitAll(turned, lapses, life, failed) /\ e \in Livings /\ life[e] # "gone"
    BY <1>1, <1>3, TurnsToFits
  <2>3. FitAll(Killed(turned, e), lapses, life, failed)
    BY <2>2, KilledFits
  <2>4. fight \in [Livings -> Fighters] /\ turned \in [Livings -> Fighters]
    BY <2>2 DEF FightInd, FitAll
  <2>5. \A k \in Livings : turned[k].rounds = fight[k].rounds /\ Killed(turned, e)[k].rounds = fight[k].rounds
    <3>1. \A k \in Livings : turned[k].rounds = fight[k].rounds
      BY <2>4 DEF TurnsTo, Fighters
    <3> HIDE DEF turned
    <3> QED
      BY <2>4, <3>1 DEF Killed, Fighters
  <2>6. fight[l].rounds > 0 /\ \A k \in Livings : fight[k].rounds <= MaxRounds
    BY <1>1 DEF FightInd
  <2> HIDE DEF turned
  <2>7. CASE (Fights(turned) /\ UNCHANGED life) \/ Dies(turned, e)
    BY <1>1, <2>2, <2>7, FightsKeeps, DiesKeeps
  <2>8. CASE EndsInError(turned, l) /\ UNCHANGED life
    BY <1>1, <2>2, <2>5, <2>6, <2>8, ErrorFits DEF FightInd
  <2>9. CASE EndsInError(Killed(turned, e), l) /\ Falls(e)
    <3>1. FitAll(fight', lapses, life, failed') /\ failed' \in SUBSET Livings
          /\ \A k \in Livings : fight'[k].rounds <= MaxRounds
      BY <2>3, <2>5, <2>6, <2>9, ErrorFits
    <3>2. life' \in [Livings -> {"alive", "dead", "gone"}] /\ FitAll(fight', lapses, life', failed')
      BY <2>2, <2>9, <3>1, FallsFit
    <3> QED
      BY <1>1, <3>1, <3>2 DEF FightInd
  <2> QED
    BY <2>1, <2>7, <2>8, <2>9 DEF turned
<1> QED
  BY <1>4, <1>5, <1>6

LEMMA LooksKeep ==
  ASSUME FightInd, \/ \E l \in Walkers, r \in Rooms : Move(l, r)
                   \/ \E r \in Rooms : Stir(r)
  PROVE  FightInd'
<1> DEFINE AllThere == {l \in Livings : life[l] # "gone"}
<1>1. fight \in Fitting /\ lapses \in [Livings -> Nat]
  BY DEF FightInd, FitAll, Fitting
<1>2. \A r : In(r) \in SUBSET AllThere
  BY DEF In
<1>3. ASSUME NEW l \in Walkers, NEW r \in Rooms, Move(l, r) PROVE FightInd'
  <2>1. PICK f \in Stirred(room', fight, In(room[l])) :
          \E g \in Stirred(room', f, In(r) \cup {l}) : Fights(g)
    BY <1>3 DEF Move
  <2>2. PICK g \in Stirred(room', f, In(r) \cup {l}) : Fights(g)
    BY <2>1
  <2>3. l \in AllThere /\ UNCHANGED <<life, lapses>> /\ room' \in [Livings -> Rooms]
    BY <1>3, FightsAssumption DEF Move, Alive, FightInd
  <2>4. f \in Fitting
    BY <1>1, <1>2, <2>1, StirredFits
  <2>5. In(r) \cup {l} \in SUBSET AllThere
    BY <1>2, <2>3
  <2>6. g \in Fitting
    BY <1>1, <2>2, <2>4, <2>5, StirredFits
  <2>7. FitAll(g, lapses, life, failed')
    BY <2>2, <2>6, ResumedFits DEF Fights, Fitting
  <2> QED
    BY <2>2, <2>3, <2>7 DEF FightInd, Fights
<1>4. ASSUME NEW r \in Rooms, Stir(r) PROVE FightInd'
  <2>1. PICK g \in Stirred(room, fight, In(r)) : Fights(g)
    BY <1>4 DEF Stir
  <2>2. g \in Fitting
    BY <1>1, <1>2, <2>1, StirredFits
  <2> QED
    BY <1>4, <2>1, <2>2, FightsKeeps DEF Stir, Fitting
<1> QED
  BY <1>3, <1>4

\* s is the fighter r that lost enemies, and perhaps its ao.
Loses(r, s) ==
  /\ s.rounds = r.rounds /\ s.combat = r.combat
  /\ s.enemies \subseteq r.enemies /\ s.ao \in {r.ao, Noone}

\* The lapses with that one, as Lapsed() counts them.
Missed(r, s, missed) == IF r.ao # Noone /\ s.ao = Noone /\ s.rounds > 0 THEN missed + 1 ELSE missed

LEMMA LosingFits ==
  ASSUME NEW r \in Fighters, NEW s \in Fighters, Loses(r, s), NEW missed \in Nat, NEW lf, NEW lg, NEW k, NEW may,
         FitToFight(r, missed, lf, k, may),
         \A l \in Livings : lg[l] = "gone" => lf[l] = "gone" \/ (s.ao # l /\ l \notin s.enemies)
  PROVE  FitToFight(s, Missed(r, s, missed), lg, k, may)
<1>1. \A l \in Livings : lg[l] = "gone" => s.ao # l /\ l \notin s.enemies
  BY FightsAssumption DEF FitToFight, Loses
<1>2. r.rounds \in Nat
  BY DEF Fighters
<1> QED
  BY <1>1, <1>2 DEF FitToFight, Loses, Missed

LEMMA StopFightsKeeps ==
  ASSUME FightInd, NEW r \in Rooms, StopFights(r)
  PROVE  FightInd'
<1>1. UNCHANGED <<life, room>> /\ lapses' = Lapsed(fight') /\ lapses' \in [Livings -> Nat]
  <2>1. UNCHANGED <<life, room>> /\ lapses' = Lapsed(fight')
    BY DEF StopFights, Fights
  <2>2. Lapsed(fight') \in [Livings -> Nat]
    BY DEF Lapsed, FightInd
  <2> QED
    BY <2>1, <2>2
<1>2. ASSUME NEW l \in Livings
      PROVE  fight'[l] \in Fighters /\ FitToFight(fight'[l], lapses'[l], life, l, failed)
             /\ fight'[l].rounds <= MaxRounds
  <2>1. fight[l] \in Fighters /\ FitToFight(fight[l], lapses[l], life, l, failed) /\ lapses[l] \in Nat
        /\ fight[l].rounds <= MaxRounds
    BY DEF FightInd, FitAll
  <2>2. fight'[l] = fight[l] \/ fight'[l] = [fight[l] EXCEPT !.enemies = {}, !.ao = IF @ \in fight[l].enemies THEN Noone ELSE @]
    BY DEF StopFights, Fights
  <2>3. fight'[l] \in Fighters /\ Loses(fight[l], fight'[l])
    BY <2>1, <2>2 DEF Fighters, Loses
  <2>4. lapses'[l] = Missed(fight[l], fight'[l], lapses[l])
    BY <1>1 DEF Lapsed, Missed
  <2>5. FitToFight(fight'[l], Missed(fight[l], fight'[l], lapses[l]), life, l, failed)
    BY <2>1, <2>3, LosingFits
  <2>6. fight'[l].rounds <= MaxRounds
    BY <2>1, <2>3 DEF Loses
  <2> QED
    BY <2>3, <2>4, <2>5, <2>6
<1>3. fight' = [l \in Livings |-> fight'[l]] /\ failed' = failed \cap Stuck(fight')
  BY DEF StopFights, Fights
<1>4. FitAll(fight', lapses', life, failed)
  BY <1>2, <1>3 DEF FitAll
<1>5. FitAll(fight', lapses', life, failed')
  BY <1>3, <1>4, ResumedFits
<1> QED
  BY <1>1, <1>2, <1>3, <1>5 DEF FightInd

LEMMA GoesKeeps ==
  ASSUME FightInd, NEW v \in Livings, Goes(v)
  PROVE  FightInd'
<1>1. /\ life' = [life EXCEPT ![v] = "gone"] /\ fight' = Without(fight, v) /\ UNCHANGED room
      /\ lapses' = [Lapsed(fight') EXCEPT ![v] = 0] /\ failed' = failed \cap Stuck(fight')
  BY DEF Goes, Fights
<1>2. lapses' \in [Livings -> Nat] /\ lapses'[v] = 0
      /\ \A l \in Livings : l # v => lapses'[l] = Missed(fight[l], fight'[l], lapses[l])
  <2>1. Lapsed(fight') \in [Livings -> Nat]
    BY DEF Lapsed, FightInd
  <2> QED
    BY <1>1, <2>1 DEF Lapsed, Missed
<1>3. life' \in [Livings -> {"alive", "dead", "gone"}] /\ \A l \in Livings : life'[l] = "gone" => life[l] = "gone" \/ l = v
  BY <1>1 DEF FightInd
<1>4. ASSUME NEW l \in Livings
      PROVE  fight'[l] \in Fighters /\ FitToFight(fight'[l], lapses'[l], life', l, failed) /\ fight'[l].rounds <= MaxRounds
  <2>1. fight[l] \in Fighters /\ FitToFight(fight[l], lapses[l], life, l, failed) /\ lapses[l] \in Nat
        /\ fight[l].rounds <= MaxRounds
    BY DEF FightInd, FitAll
  <2>2. CASE l = v
    <3>1. fight'[l] = [ao |-> Noone, enemies |-> {}, rounds |-> 0, combat |-> FALSE]
      BY <1>1, <2>2 DEF Without
    <3> QED
      BY <1>2, <2>2, <3>1, FightsAssumption DEF Fighters, FitToFight
  <2>3. CASE l # v
    <3>1. fight'[l] = [fight[l] EXCEPT !.enemies = @ \ {v}, !.ao = IF @ = v THEN Noone ELSE @]
      BY <1>1, <2>3 DEF Without
    <3>2. fight'[l] \in Fighters /\ Loses(fight[l], fight'[l]) /\ fight'[l].ao # v /\ v \notin fight'[l].enemies
      BY <2>1, <3>1, FightsAssumption DEF Fighters, Loses
    <3>3. FitToFight(fight'[l], Missed(fight[l], fight'[l], lapses[l]), life', l, failed)
      BY <1>3, <2>1, <3>2, LosingFits
    <3>4. fight'[l].rounds <= MaxRounds
      BY <2>1, <3>2 DEF Loses
    <3> QED
      BY <1>2, <2>3, <3>2, <3>3, <3>4
  <2> QED
    BY <2>2, <2>3
<1>5. fight' = [l \in Livings |-> fight'[l]]
  BY <1>1 DEF Without
<1>6. FitAll(fight', lapses', life', failed)
  BY <1>4, <1>5 DEF FitAll
<1>7. FitAll(fight', lapses', life', failed')
  BY <1>1, <1>6, ResumedFits
<1> QED
  BY <1>1, <1>2, <1>3, <1>4, <1>7 DEF FightInd

LEMMA FightStart == FightInit => FightInd
  BY FightsAssumption DEF FightInit, FightInd, FitAll, FitToFight, Fighters

LEMMA FightStep == FightInd /\ [FightNext]_fightVars => FightInd'
<1> SUFFICES ASSUME FightInd, [FightNext]_fightVars PROVE FightInd'
  OBVIOUS
<1>1. CASE UNCHANGED fightVars
  BY <1>1 DEF fightVars, FightInd
<1>2. ASSUME NEW l \in Livings, Resurrect(l) PROVE FightInd'
  <2>1. UNCHANGED <<fight, room, lapses, failed>> /\ life' = [life EXCEPT ![l] = "alive"]
    BY <1>2 DEF Resurrect
  <2>2. FitAll(fight, lapses, life', failed)
    BY <2>1 DEF FightInd, FitAll, FitToFight
  <2> QED
    BY <2>1, <2>2 DEF FightInd
<1>3. CASE FightNext
  BY <1>2, <1>3, AttackCmdKeeps, ShootKeeps, RoundKeeps, LooksKeep, StopFightsKeeps, GoesKeeps DEF FightNext
<1> QED
  BY <1>1, <1>3

\* A fight goes on at one pace until nobody is left to fight, unless a round of it ends
\* in an error (combat_intern.c:493): whoever attacks, or is held for fighting, has a
\* round to come, or the last one failed and nothing started another since; and there are
\* no more of them than one and those that a lapse left behind.
THEOREM RoundsAlwaysRight == FightSpec => []RoundsRight
<1>1. FightInd => RoundsRight
  BY DEF FightInd, FitAll, FitToFight, Fighters, RoundsRight, FightsOn, Stuck, OneRound
<1> QED
  BY <1>1, FightStart, FightStep, PTL DEF FightSpec

\* Nobody attacks, or counts among the enemies, somebody who is gone.
THEOREM FightTypeCorrect == FightSpec => []FightTypeOK
<1>1. FightInd => FightTypeOK
  BY FightsAssumption DEF FightInd, FitAll, FitToFight, Fighters, FightTypeOK
<1> QED
  BY <1>1, FightStart, FightStep, PTL DEF FightSpec

(***************************************************************************)
(* Proofs about Bleeding, for any body whose slots break only where all    *)
(* the blood is theirs.  Elsewhere the total goes wrong, which is the      *)
(* finding of the module.                                                  *)
(***************************************************************************)

Bodies == [loss : Int, wounds : [Slots -> Nat], beats : Nat]

\* The body bleeds what its wounds do, and a call_out is there to take it.
Healthy(b) == b \in Bodies /\ b.loss = SumFunction(b.wounds) /\ (b.loss # 0 => b.beats > 0)

BleedInd == Healthy(Body)

-----------------------------------------------------------------------------
\* No wound bleeds more than all do.
LEMMA WoundsAddUp ==
  ASSUME NEW w \in [Slots -> Nat]
  PROVE  SumFunction(w) \in Nat /\ \A s \in Slots : w[s] <= SumFunction(w)
<1> DEFINE it == SumsOf(w, Slots)
           A == {d \in SUBSET Slots : it[d] >= 0 /\ \A s \in d : w[s] <= it[d]}
<1>1. AreSums(it, w, Slots)
  BY SlotsAssumption, SumsAdd
<1> HIDE DEF it
<1>2. Shrinks(Slots, A)
  <2> SUFFICES ASSUME NEW T \in SUBSET Slots, \A U \in SUBSET T : U # T => U \in A
               PROVE  T \in A
    BY DEF Shrinks
  <2>1. it[T] \in Int
    BY <1>1 DEF AreSums
  <2>2. ASSUME NEW s \in T PROVE it[T] >= 0 /\ w[s] <= it[T]
    <3>1. it[T] = w[s] + it[T \ {s}] /\ w[s] \in Nat /\ it[T \ {s}] \in Int
      BY <1>1 DEF AreSums
    <3>2. it[T \ {s}] >= 0
      OBVIOUS
    <3> QED
      BY <2>1, <3>1, <3>2
  <2>3. CASE T = {}
    BY <1>1, <2>3 DEF AreSums
  <2> QED
    BY <2>2, <2>3
<1> HIDE DEF A
<1>3. Slots \in A
  BY <1>2, SlotsAssumption, AllShrunk
<1>4. SumFunction(w) = it[Slots] /\ it[Slots] \in Int
  BY <1>1 DEF AreSums
<1> QED
  BY <1>3, <1>4 DEF A

\* The total is 0 where nothing bleeds.
LEMMA NothingAddsUp == SumFunction([s \in Slots |-> 0]) = 0
<1> DEFINE w == [s \in Slots |-> 0]
           it == SumsOf(w, Slots)
           A == {d \in SUBSET Slots : it[d] = 0}
<1>1. w \in [Slots -> Int] /\ \A s \in Slots : w[s] = 0
  OBVIOUS
<1> HIDE DEF w
<1>2. AreSums(it, w, Slots)
  BY <1>1, SlotsAssumption, SumsAdd
<1> HIDE DEF it
<1>3. Shrinks(Slots, A)
  <2> SUFFICES ASSUME NEW T \in SUBSET Slots, \A U \in SUBSET T : U # T => U \in A
               PROVE  it[T] = 0
    BY DEF Shrinks
  <2>1. CASE T = {}
    BY <1>2, <2>1 DEF AreSums
  <2>2. ASSUME NEW s \in T PROVE it[T] = 0
    <3>1. it[T] = w[s] + it[T \ {s}] /\ w[s] = 0
      BY <1>1, <1>2 DEF AreSums
    <3>2. it[T \ {s}] = 0
      OBVIOUS
    <3> QED
      BY <3>1, <3>2
  <2> QED
    BY <2>1, <2>2
<1> HIDE DEF A
<1>4. Slots \in A
  BY <1>3, SlotsAssumption, AllShrunk
<1> QED
  BY <1>2, <1>4 DEF A, AreSums, w

\* One wound more or less is that much more or less in all.
LEMMA WoundChanges ==
  ASSUME NEW w \in [Slots -> Nat], NEW s \in Slots, NEW n \in Nat
  PROVE  [w EXCEPT ![s] = n] \in [Slots -> Nat]
         /\ SumFunction([w EXCEPT ![s] = n]) = SumFunction(w) + n - w[s]
<1>1. w \in [Slots -> Int] /\ n \in Int
  OBVIOUS
<1>2. SumFunction([w EXCEPT ![s] = n]) = SumFunction(w) + n - w[s]
  BY <1>1, SlotsAssumption, SumChanges
<1> QED
  BY <1>2

LEMMA SameBody ==
  ASSUME NEW b \in Bodies, NEW c \in Bodies, b.loss = c.loss, b.wounds = c.wounds, b.beats = c.beats
  PROVE  b = c
  BY DEF Bodies

LEMMA BleedHealthy ==
  ASSUME NEW b, Healthy(b), NEW s \in Slots, NEW amount \in Nat
  PROVE  Healthy(Bleed(b, s, amount))
<1> DEFINE w == [b.wounds EXCEPT ![s] = @ + amount]
           c == [loss |-> b.loss + amount, wounds |-> w, beats |-> IF b.loss = 0 THEN b.beats + 1 ELSE b.beats]
<1>1. b \in Bodies /\ b.wounds \in [Slots -> Nat] /\ b.wounds[s] \in Nat /\ b.loss \in Int /\ b.beats \in Nat
  BY DEF Healthy, Bodies
<1>2. w \in [Slots -> Nat] /\ SumFunction(w) = SumFunction(b.wounds) + (b.wounds[s] + amount) - b.wounds[s]
  BY <1>1, WoundChanges
<1>3. SumFunction(b.wounds) \in Nat
  BY <1>1, WoundsAddUp
<1>4. Bleed(b, s, amount) = c
  <2> DEFINE e == Bleed(b, s, amount)
  <2>1. e.loss = b.loss + amount /\ e.beats = (IF b.loss = 0 THEN b.beats + 1 ELSE b.beats)
    BY <1>1 DEF Bleed, Bodies
  <2>2. e.wounds = w
    BY <1>1 DEF Bleed, Bodies
  <2>3. e \in Bodies
    <3> DEFINE m == IF b.loss = 0 THEN b.beats + 1 ELSE b.beats
               k == b.loss + amount
    <3>1. m \in Nat /\ k \in Int
      BY <1>1
    <3>2. e = [b EXCEPT !.beats = m, !.wounds = w, !.loss = k]
      BY DEF Bleed
    <3> HIDE DEF e, m, w, k
    <3> QED
      BY <1>1, <1>2, <3>1, <3>2 DEF Bodies
  <2> HIDE DEF e, w
  <2>4. c \in Bodies
    BY <1>1, <1>2 DEF Bodies
  <2>5. e = c
    BY <2>1, <2>2, <2>3, <2>4, SameBody
  <2> QED
    BY <2>5 DEF e
<1> HIDE DEF w
<1>5. c \in Bodies
  BY <1>1, <1>2 DEF Bodies
<1>6. c.loss = SumFunction(c.wounds) /\ (c.loss # 0 => c.beats > 0)
  BY <1>1, <1>2, <1>3 DEF Healthy
<1> QED
  BY <1>4, <1>5, <1>6 DEF Healthy

\* A slot that is stanched with what it bleeds.
LEMMA StanchHealthy ==
  ASSUME NEW b, Healthy(b), NEW s \in Slots, b.wounds[s] > 0
  PROVE  /\ Healthy(Stanch(b, s, b.wounds[s])) /\ Stanch(b, s, b.wounds[s]).beats = b.beats
         /\ Stanch(b, s, b.wounds[s]).loss = b.loss - b.wounds[s]
<1> DEFINE w == [b.wounds EXCEPT ![s] = 0]
           c == [loss |-> b.loss - b.wounds[s], wounds |-> w, beats |-> b.beats]
<1>1. b \in Bodies /\ b.wounds \in [Slots -> Nat] /\ b.wounds[s] \in Nat /\ b.loss \in Int /\ b.beats \in Nat
  BY DEF Healthy, Bodies
<1>2. w \in [Slots -> Nat] /\ SumFunction(w) = SumFunction(b.wounds) + 0 - b.wounds[s]
  BY <1>1, WoundChanges
<1>3. SumFunction(b.wounds) \in Nat /\ b.wounds[s] <= SumFunction(b.wounds)
  BY <1>1, WoundsAddUp
<1>4. Stanch(b, s, b.wounds[s]) = c
  <2> DEFINE e == [b EXCEPT !.loss = @ - b.wounds[s], !.wounds[s] = 0]
  <2>1. e.loss = b.loss - b.wounds[s] /\ e.beats = b.beats
    BY <1>1 DEF Bodies
  <2>2. e.wounds = w
    BY <1>1 DEF Bodies
  <2>3. e \in Bodies
    <3> DEFINE k == b.loss - b.wounds[s]
    <3>1. k \in Int /\ e = [b EXCEPT !.loss = k, !.wounds = w]
      BY <1>1
    <3> HIDE DEF e, w, k
    <3> QED
      BY <1>1, <1>2, <3>1 DEF Bodies
  <2>6. Stanch(b, s, b.wounds[s]) = e
    BY <1>1 DEF Stanch
  <2> HIDE DEF e, w
  <2>4. c \in Bodies
    BY <1>1, <1>2 DEF Bodies
  <2> QED
    BY <2>1, <2>2, <2>3, <2>4, <2>6, SameBody
<1> HIDE DEF w
<1>5. c \in Bodies
  BY <1>1, <1>2 DEF Bodies
<1>6. c.loss = SumFunction(c.wounds) /\ (c.loss # 0 => c.beats > 0)
  BY <1>1, <1>2, <1>3 DEF Healthy
<1> QED
  BY <1>4, <1>5, <1>6 DEF Healthy

-----------------------------------------------------------------------------
\* All the blood is lost by one of the limbs in hit, or none of it by any.
Lone(hit) == {b \in Bodies : Healthy(b) /\ \A s \in hit \ broken : b.wounds[s] \in {0, b.loss}}

\* What remove_tool_slot() does for one slot.
SlotRemoved(b, s) ==
  IF s \in broken \/ b.loss = 0 THEN b
  ELSE IF b.loss > 0 THEN Stanch(b, s, b.loss) ELSE Bleed(b, s, -b.loss)

LEMMA SlotRemovedLone ==
  ASSUME NEW hit \in SUBSET Slots, NEW b \in Lone(hit), NEW s \in hit
  PROVE  SlotRemoved(b, s) \in Lone(hit)
<1>1. /\ Healthy(b) /\ b.loss \in Nat /\ b.wounds \in [Slots -> Nat] /\ b.wounds[s] \in Nat
      /\ s \notin broken => b.wounds[s] \in {0, b.loss}
  BY WoundsAddUp DEF Lone, Healthy, Bodies
<1>2. CASE s \in broken \/ b.loss = 0
  BY <1>2 DEF SlotRemoved
<1>3. CASE s \notin broken /\ b.loss > 0 /\ b.wounds[s] = 0
  BY <1>1, <1>3 DEF SlotRemoved, Stanch
<1>4. CASE s \notin broken /\ b.loss > 0 /\ b.wounds[s] # 0
  <2> DEFINE c == Stanch(b, s, b.wounds[s])
  <2>1. b.wounds[s] = b.loss /\ SlotRemoved(b, s) = c
    BY <1>1, <1>4 DEF SlotRemoved
  <2>2. Healthy(c) /\ c.loss = b.loss - b.wounds[s]
    BY <1>1, <1>4, <2>1, StanchHealthy
  <2> HIDE DEF c
  <2>3. c.wounds \in [Slots -> Nat] /\ SumFunction(c.wounds) = 0
    BY <1>1, <2>1, <2>2 DEF Healthy, Bodies
  <2>4. \A k \in Slots : c.wounds[k] = 0
    BY <2>3, WoundsAddUp
  <2> QED
    BY <2>1, <2>2, <2>4 DEF Lone, Healthy
<1> QED
  BY <1>1, <1>2, <1>3, <1>4

Removals(b, slots) == CHOOSE it : it = [s \in SUBSET DOMAIN slots |->
  IF s = {} THEN b ELSE SlotRemoved(it[s \ {Max(s)}], slots[Max(s)])]

\* One limb after the other is removed.
LEMMA RemovalsLone ==
  ASSUME NEW hit \in SUBSET Slots, NEW b \in Lone(hit), NEW n \in Nat, NEW slots \in [1 .. n -> hit]
  PROVE  RemoveToolSlots(b, slots) \in Lone(hit)
<1> DEFINE D == Lone(hit)
           S == 1 .. n
           it == Removals(b, slots)
           F == [p \in S \X D |-> SlotRemoved(p[2], slots[p[1]])]
<1>1. \A i \in S, c \in D : SlotRemoved(c, slots[i]) \in D
  BY SlotRemovedLone
<1>2. F \in [S \X D -> D] /\ \A i \in S, c \in D : F[<<i, c>>] = SlotRemoved(c, slots[i])
  <2> HIDE DEF S, D
  <2> QED
    BY <1>1
<1>3. DOMAIN slots = S /\ S = 1 .. n /\ b \in D
  OBVIOUS
<1>4. \A s \in SUBSET S : s # {} => Max(s) \in S /\ s \ {Max(s)} \in SUBSET S /\ s \ {Max(s)} # s
  BY LastOf
<1>5. RemoveToolSlots(b, slots) = it[DOMAIN slots]
  BY Zenon DEF RemoveToolSlots, FoldLeft, MapThenFoldSet, Removals, SlotRemoved
<1> HIDE DEF F, D, S
<1>6. PICK g \in [SUBSET S -> D] : FoldedLeft(g, S, F, b)
  BY <1>2, <1>3, FoldLeftExists, Zenon
<1>7. \A s \in SUBSET S : g[s] = IF s = {} THEN b ELSE SlotRemoved(g[s \ {Max(s)}], slots[Max(s)])
  BY <1>2, <1>4, <1>6 DEF FoldedLeft
<1>8. g = [s \in SUBSET S |-> IF s = {} THEN b ELSE SlotRemoved(g[s \ {Max(s)}], slots[Max(s)])]
  BY <1>7
<1>9. it = [s \in SUBSET S |-> IF s = {} THEN b ELSE SlotRemoved(it[s \ {Max(s)}], slots[Max(s)])]
  BY <1>3, <1>8, Zenon DEF Removals
<1> HIDE DEF it
<1>10. \A s \in SUBSET S : it[s] = IF s = {} THEN b ELSE SlotRemoved(it[s \ {Max(s)}], slots[Max(s)])
  BY <1>9
<1> DEFINE A == {s \in SUBSET S : it[s] \in D}
<1>11. Shrinks(S, A)
  <2> SUFFICES ASSUME NEW T \in SUBSET S, \A U \in SUBSET T : U # T => U \in A
               PROVE  it[T] \in D
    BY DEF Shrinks
  <2>1. CASE T = {}
    BY <1>3, <1>10, <2>1
  <2>2. CASE T # {}
    <3>1. Max(T) \in S /\ T \ {Max(T)} \in A
      BY <1>4, <2>2
    <3>2. SlotRemoved(it[T \ {Max(T)}], slots[Max(T)]) \in D
      BY <1>1, <3>1
    <3>3. it[T] = SlotRemoved(it[T \ {Max(T)}], slots[Max(T)])
      BY <1>10, <2>2
    <3> QED
      BY <3>2, <3>3
  <2> QED
    BY <2>1, <2>2
<1> HIDE DEF A
<1>12. IsFiniteSet(S)
  BY FS_Interval DEF S
<1>13. S \in A
  BY <1>11, <1>12, AllShrunk
<1> QED
  BY <1>3, <1>5, <1>13 DEF A, D

-----------------------------------------------------------------------------
LEMMA BodyFits ==
  ASSUME NEW b, Healthy(b), BodyBecomes(b)
  PROVE  BleedInd'
<1>1. Body' = b
  <2>1. Body'.loss = b.loss /\ Body'.wounds = b.wounds /\ Body'.beats = b.beats /\ b \in Bodies
    BY DEF BodyBecomes, Body, Healthy
  <2>2. Body' \in Bodies
    BY <2>1 DEF Body, Bodies
  <2> QED
    BY <2>1, <2>2, SameBody
<1> QED
  BY <1>1 DEF BleedInd

\* What a wound, an aid and a broken limb do, is right.
LEMMA WoundKeeps ==
  ASSUME BleedInd, NEW slot \in Slots, Wound(slot)
  PROVE  BleedInd'
<1>1. PICK amount \in 1 .. Severe : BodyBecomes(Bleed(Body, slot, amount))
  BY DEF Wound
<1>2. amount \in Nat
  BY SevereAssumption
<1>3. Healthy(Bleed(Body, slot, amount))
  BY <1>2, BleedHealthy DEF BleedInd
<1> QED
  BY <1>1, <1>3, BodyFits

LEMMA AidKeeps ==
  ASSUME BleedInd, NEW slot \in Slots, Aid(slot)
  PROVE  BleedInd'
<1>1. Body.wounds[slot] > 0 /\ BodyBecomes(Stanch(Body, slot, Body.wounds[slot]))
  BY DEF Aid, Body
<1>2. Healthy(Stanch(Body, slot, Body.wounds[slot]))
  BY <1>1, StanchHealthy DEF BleedInd
<1> QED
  BY <1>1, <1>2, BodyFits

LEMMA FractureKeeps ==
  ASSUME BleedInd, ~Fractures, NEW slot \in Slots, Fracture(slot)
  PROVE  BleedInd'
<1> DEFINE slots == <<slot>> \o Branch[slot]
           hit == ToSet(slots)
<1>1. slots \in Seq(Slots)
  BY BranchAssumption
<1>2. /\ \A s \in hit \ broken : bloodwounds[s] \in {0, bloodloss}
      /\ BodyBecomes(RemoveToolSlots(Body, slots))
  BY DEF Fracture
<1> HIDE DEF slots
<1>3. Len(slots) \in Nat /\ slots \in [1 .. Len(slots) -> hit] /\ hit \in SUBSET Slots
  BY <1>1 DEF ToSet
<1>4. Body \in Lone(hit)
  BY <1>2 DEF Lone, BleedInd, Healthy, Body
<1> HIDE DEF hit
<1>5. RemoveToolSlots(Body, slots) \in Lone(hit)
  BY <1>3, <1>4, RemovalsLone
<1> QED
  BY <1>2, <1>5, BodyFits DEF Lone

\* All blood is lost, or none of it any more.
LEMMA NothingBleeds ==
  ASSUME beats' \in Nat, bloodloss' = 0, bloodwounds' = [s \in Slots |-> 0]
  PROVE  BleedInd'
  BY NothingAddsUp DEF BleedInd, Healthy, Body, Bodies

\* The call_outs are not counted down while there is something to do for them.
LEMMA BeatsKeep ==
  ASSUME BleedInd, UNCHANGED <<bloodloss, bloodwounds>>, beats' \in Nat, bloodloss # 0 => beats' > 0
  PROVE  BleedInd'
  BY DEF BleedInd, Healthy, Body, Bodies

LEMMA BleedStart == BleedInit => BleedInd
  BY NothingAddsUp DEF BleedInit, BleedInd, Healthy, Body, Bodies

LEMMA BleedStep == BleedInd /\ ~Fractures /\ [BleedNext]_bleedVars => BleedInd'
<1> SUFFICES ASSUME BleedInd, ~Fractures, [BleedNext]_bleedVars PROVE BleedInd'
  OBVIOUS
<1>1. beats \in Nat /\ (bloodloss # 0 => beats > 0)
  BY DEF BleedInd, Healthy, Body, Bodies
<1>2. CASE UNCHANGED bleedVars
  BY <1>1, <1>2, BeatsKeep DEF bleedVars
<1>3. ASSUME NEW s \in Slots, Heal(s) PROVE BleedInd'
  BY <1>1, <1>3, BeatsKeep DEF Heal
<1>4. CASE BloodlossEvent
  <2>1. CASE bloodloss' = 0 /\ bloodwounds' = [s \in Slots |-> 0] /\ UNCHANGED beats
    BY <1>1, <2>1, NothingBleeds
  <2>2. CASE bloodloss = 0 /\ beats' = beats - 1 /\ UNCHANGED <<bloodloss, bloodwounds>>
    <3>1. beats' \in Nat
      BY <1>1, <1>4, <2>2 DEF BloodlossEvent
    <3> QED
      BY <2>2, <3>1, BeatsKeep
  <2>3. CASE UNCHANGED <<bloodloss, bloodwounds, beats>>
    BY <1>1, <2>3, BeatsKeep
  <2> QED
    BY <1>4, <2>1, <2>2, <2>3 DEF BloodlossEvent
<1>5. CASE Die
  BY <1>1, <1>5, NothingBleeds DEF Die
<1>6. CASE StartCallOut \/ Reenter
  <2>1. beats' \in Nat /\ beats' > 0 /\ UNCHANGED <<bloodloss, bloodwounds>>
    BY <1>1, <1>6 DEF StartCallOut, Reenter
  <2> QED
    BY <2>1, BeatsKeep
<1>7. CASE BleedNext
  BY <1>3, <1>4, <1>5, <1>6, <1>7, WoundKeeps, AidKeeps, FractureKeeps DEF BleedNext
<1> QED
  BY <1>2, <1>7

\* The list of the wounds, their total and the call_out that goes by it never part, as long
\* as no limb breaks that has a part of the blood loss only.
THEOREM BloodAlwaysRight == ~Fractures /\ BleedSpec => []BloodRight
<1>1. BleedInd => BloodRight
  <2> SUFFICES ASSUME BleedInd PROVE BloodRight
    OBVIOUS
  <2>1. /\ bloodwounds \in [Slots -> Nat] /\ bloodloss = SumFunction(bloodwounds)
        /\ bloodloss # 0 => beats > 0
    BY DEF BleedInd, Healthy, Body, Bodies
  <2>2. SumFunction(bloodwounds) = FoldFunction(+, 0, bloodwounds)
    BY Zenon DEF FoldFunction, SumFunction, SumFunctionOnSet, FoldFunctionOnSet
  <2>3. BleedsOn
    BY <2>1, WoundsAddUp DEF BleedsOn
  <2> QED
    BY <2>1, <2>2, <2>3 DEF BloodRight, TotalRight
<1>2. (~Fractures)' <=> ~Fractures
  OBVIOUS
<1> QED
  BY <1>1, <1>2, BleedStart, BleedStep, PTL DEF BleedSpec

(***************************************************************************)
(* Proofs about ToolSlots, for any tools, limbs, layers and hands.  The    *)
(* inductive invariant is that the books are Orderly, which is InUse of    *)
(* the books alone: the operators of slot.c are lemmas from orderly books  *)
(* to orderly books, and what is removed in a row, the things in a hand,   *)
(* those on a limb, the limbs that go together, goes by induction.         *)
(***************************************************************************)

Listable == Seq(Tools \cup {None})

\* Outer layers come first; what is destructed does not matter.
Ordered(seq) ==
  \A i, j \in DOMAIN seq : i < j /\ None \notin {seq[i], seq[j]} => Layer[seq[i]] >= Layer[seq[j]]

Kept(left, v, u) == IF v = u THEN left ELSE Append(left, v)

Keeping(seq, u) == CHOOSE it : it = [s \in SUBSET DOMAIN seq |->
  IF s = {} THEN <<>> ELSE Kept(it[s \ {Max(s)}], seq[Max(s)], u)]

\* What is left of a sequence is in order, and is all but u.
KeptRight(seq, u, left) == Ordered(left) /\ ToSet(left) = ToSet(seq) \ {u}

LEMMA AppendOrdered ==
  ASSUME NEW left \in Listable, Ordered(left), NEW v \in Tools \cup {None},
         \A x \in ToSet(left) : x # None /\ v # None => Layer[x] >= Layer[v]
  PROVE  Ordered(Append(left, v)) /\ ToSet(Append(left, v)) = ToSet(left) \cup {v}
<1> DEFINE both == Append(left, v)
           n == Len(left)
<1>1. n \in Nat /\ DOMAIN left = 1 .. n /\ Len(both) = n + 1 /\ DOMAIN both = 1 .. n + 1
      /\ both[n + 1] = v /\ \A i \in 1 .. n : both[i] = left[i]
  BY DEF Listable
<1> HIDE DEF both, n
<1>2. \A i \in 1 .. n + 1 : i \in 1 .. n \/ i = n + 1
  BY <1>1
<1>3. Ordered(both)
  <2> SUFFICES ASSUME NEW i \in 1 .. n + 1, NEW j \in 1 .. n + 1, i < j, None \notin {both[i], both[j]}
               PROVE  Layer[both[i]] >= Layer[both[j]]
    BY <1>1 DEF Ordered
  <2>1. i \in 1 .. n
    BY <1>1
  <2>2. CASE j = n + 1
    BY <1>1, <2>1, <2>2 DEF ToSet
  <2>3. CASE j # n + 1
    BY <1>1, <1>2, <2>1, <2>3 DEF Ordered
  <2> QED
    BY <2>2, <2>3
<1>4. ToSet(both) = ToSet(left) \cup {v}
  <2>1. \A i \in 1 .. n : i \in 1 .. n + 1
    BY <1>1
  <2>2. n + 1 \in 1 .. n + 1
    BY <1>1
  <2> QED
    BY <1>1, <1>2, <2>1, <2>2 DEF ToSet
<1> QED
  BY <1>3, <1>4 DEF both

LEMMA AllButRight ==
  ASSUME NEW n \in Nat, NEW seq \in [1 .. n -> Tools \cup {None}], Ordered(seq), NEW u
  PROVE  AllBut(seq, u) \in Listable /\ KeptRight(seq, u, AllBut(seq, u))
<1> DEFINE D == Listable
           S == 1 .. n
           it == Keeping(seq, u)
           F == [p \in S \X D |-> Kept(p[2], seq[p[1]], u)]
<1>1. \A i \in S, c \in D : Kept(c, seq[i], u) \in D
  BY DEF Kept, Listable
<1>2. F \in [S \X D -> D] /\ \A i \in S, c \in D : F[<<i, c>>] = Kept(c, seq[i], u)
  <2> HIDE DEF S, D
  <2> QED
    BY <1>1
<1>3. DOMAIN seq = S /\ S = 1 .. n /\ <<>> \in D
  BY DEF Listable
<1>4. \A s \in SUBSET S : s # {} => Max(s) \in S /\ s \ {Max(s)} \in SUBSET S /\ s \ {Max(s)} # s
  BY LastOf
<1>5. AllBut(seq, u) = it[DOMAIN seq]
  BY Zenon DEF AllBut, FoldLeft, MapThenFoldSet, Keeping, Kept
<1>6. IsFiniteSet(S)
  BY FS_Interval
<1>14. \A s \in SUBSET S : s # {} => Max(s) \in s /\ \A i \in s : i <= Max(s)
  BY LastOf
<1> HIDE DEF F, D, S
<1>7. PICK g \in [SUBSET S -> D] : FoldedLeft(g, S, F, <<>>)
  BY <1>2, <1>3, FoldLeftExists, Zenon
<1>8. \A s \in SUBSET S : g[s] = IF s = {} THEN <<>> ELSE Kept(g[s \ {Max(s)}], seq[Max(s)], u)
  BY <1>2, <1>4, <1>7 DEF FoldedLeft
<1>9. g = [s \in SUBSET S |-> IF s = {} THEN <<>> ELSE Kept(g[s \ {Max(s)}], seq[Max(s)], u)]
  BY <1>8
<1>10. it = [s \in SUBSET S |-> IF s = {} THEN <<>> ELSE Kept(it[s \ {Max(s)}], seq[Max(s)], u)]
  BY <1>3, <1>9, Zenon DEF Keeping
<1> HIDE DEF it
<1>11. \A s \in SUBSET S : it[s] = IF s = {} THEN <<>> ELSE Kept(it[s \ {Max(s)}], seq[Max(s)], u)
  BY <1>10
<1> DEFINE Fit(s) == it[s] \in Listable /\ Ordered(it[s]) /\ ToSet(it[s]) = {seq[i] : i \in s} \ {u}
           A == {s \in SUBSET S : Fit(s)}
<1>12. Shrinks(S, A)
  <2> SUFFICES ASSUME NEW T \in SUBSET S, \A U \in SUBSET T : U # T => U \in A
               PROVE  Fit(T)
    BY DEF Shrinks
  <2>1. CASE T = {}
    <3>1. it[T] = <<>>
      BY <1>11, <2>1
    <3> QED
      BY <2>1, <3>1 DEF Ordered, ToSet, Listable
  <2>2. CASE T # {}
    <3> DEFINE m == Max(T)
               R == T \ {m}
               left == it[R]
               v == seq[m]
    <3>1. m \in S /\ m \in T /\ R \in A /\ v \in Tools \cup {None} /\ T = R \cup {m}
      BY <1>3, <1>4, <1>14, <2>2
    <3>2. it[T] = Kept(left, v, u)
      BY <1>11, <2>2
    <3>3. left \in Listable /\ Ordered(left) /\ ToSet(left) = {seq[i] : i \in R} \ {u}
      BY <3>1
    <3>4. \A i \in R : i \in S /\ i < m
      <4>1. \A i \in R : i <= m /\ i # m /\ i \in Int /\ i \in S
        BY <1>3, <1>14, <2>2, <3>1
      <4>2. m \in Int
        BY <1>3, <3>1
      <4> QED
        BY <4>1, <4>2
    <3> HIDE DEF m, R, left, v, A
    <3>5. \A x \in ToSet(left) : x # None /\ v # None => Layer[x] >= Layer[v]
      BY <1>3, <3>1, <3>3, <3>4 DEF Ordered, v
    <3>6. {seq[i] : i \in T} = {seq[i] : i \in R} \cup {v}
      BY <3>1 DEF v
    <3>7. CASE v = u
      BY <3>2, <3>3, <3>6, <3>7 DEF Kept
    <3>8. CASE v # u
      <4>1. it[T] = Append(left, v)
        BY <3>2, <3>8 DEF Kept
      <4>2. Append(left, v) \in Listable
        BY <3>1, <3>3 DEF Listable
      <4>3. Ordered(Append(left, v)) /\ ToSet(Append(left, v)) = ToSet(left) \cup {v}
        BY <3>1, <3>3, <3>5, AppendOrdered
      <4> QED
        BY <3>3, <3>6, <3>8, <4>1, <4>2, <4>3
    <3> QED
      BY <3>7, <3>8
  <2> QED
    BY <2>1, <2>2
<1> HIDE DEF A
<1>13. S \in A
  BY <1>6, <1>12, AllShrunk
<1>15. Fit(S)
  BY <1>13 DEF A
<1>16. ToSet(seq) = {seq[i] : i \in S}
  BY <1>3 DEF ToSet
<1>17. AllBut(seq, u) = it[S]
  BY <1>3, <1>5
<1> QED
  BY <1>15, <1>16, <1>17 DEF KeptRight

\* A finite set in some order.
LEMMA InSomeOrder ==
  ASSUME NEW S, IsFiniteSet(S)
  PROVE  /\ Cardinality(S) \in Nat /\ SetToSeq(S) \in [1 .. Cardinality(S) -> S]
         /\ S = {SetToSeq(S)[i] : i \in 1 .. Cardinality(S)}
<1> DEFINE c == Cardinality(S)
           q == SetToSeq(S)
<1>1. c \in Nat
  BY FS_CardinalityType
<1>2. PICK f : f \in Bijection(1 .. c, S)
  BY FS_CardinalityType, Zenon DEF ExistsBijection
<1>3. f \in [1 .. c -> S] /\ IsInjective(f)
  BY <1>2 DEF Bijection, Injection, IsInjective
<1>4. q \in [1 .. c -> S] /\ IsInjective(q)
  BY <1>3, Zenon DEF SetToSeq
<1> HIDE DEF q, c
<1>5. ASSUME NEW x \in S, \A i \in 1 .. c : q[i] # x PROVE FALSE
  <2> DEFINE T == S \ {x}
             N == 1 .. c
  <2>1. IsFiniteSet(T) /\ Cardinality(T) = c - 1
    BY FS_RemoveElement DEF c
  <2>2. IsFiniteSet(N) /\ Cardinality(N) = c
    BY <1>1, FS_Interval
  <2>3. q \in [N -> T]
    BY <1>4, <1>5
  <2> HIDE DEF T, N
  <2>4. \E i, j \in N : i # j /\ q[i] = q[j]
    BY <1>1, <2>1, <2>2, <2>3, FS_PigeonHole
  <2> QED
    BY <1>4, <2>4 DEF IsInjective, N
<1> QED
  BY <1>1, <1>4, <1>5 DEF q, c

-----------------------------------------------------------------------------
Typed(b) == b \in Books

\* The lists agree.
Agree(b) ==
  /\ \A t \in Tools : t \in b.holding <=> b.heldin[t] # None
  /\ \A t \in Tools, h \in Hands : t \in b.hold[h] <=> b.heldin[t] = h
  /\ \A t \in Tools : t \in b.wielding <=> \E h \in Hands : b.wield[h] = t
  /\ b.wielder = b.wielding
  /\ \A t \in Tools : t \in b.wearing <=> \E l \in Limbs : t \in ToSet(b.worn[l])
  /\ b.wearer \subseteq b.wearing /\ b.wearing \subseteq b.wearer \cup b.slipped

\* What is used is here, in one way only.
Here(b) ==
  \A t \in Tools :
    /\ t \in b.holding \cup b.wielding => b.place[t] = "here"
    /\ t \in b.wearing => b.place[t] = "here" \/ t \in b.slipped
    /\ ~(t \in b.holding /\ t \in b.wielding)
    /\ t \in b.wearing \cap (b.holding \cup b.wielding) => t \in b.slipped

Usable(b) == \A h \in Hands \ sized : b.hold[h] = {} /\ b.wield[h] = None

Layered(b) == \A l \in Limbs : Ordered(b.worn[l])

Orderly(b) == Typed(b) /\ Agree(b) /\ Here(b) /\ Usable(b) /\ Layered(b)

\* c is b with t taken out of the hands, and with nothing new in them.
Freed(b, c, t) ==
  /\ \A h \in Hands : c.hold[h] \subseteq b.hold[h] \ {t}
  /\ \A h \in Hands : c.wield[h] \in {b.wield[h], None} \ {t}

SameBooks(b, c) ==
  /\ b.place = c.place /\ b.hold = c.hold /\ b.heldin = c.heldin /\ b.wield = c.wield /\ b.worn = c.worn
  /\ b.holding = c.holding /\ b.wielding = c.wielding /\ b.wearing = c.wearing
  /\ b.wielder = c.wielder /\ b.wearer = c.wearer /\ b.slipped = c.slipped


\* What Unhold() leaves.
Unheld(b, c, t) ==
  /\ c \in Books
  /\ c.place = b.place /\ c.wield = b.wield /\ c.worn = b.worn
  /\ c.wielding = b.wielding /\ c.wearing = b.wearing
  /\ c.wielder = b.wielder /\ c.wearer = b.wearer /\ c.slipped = b.slipped
  /\ c.hold = [h \in Hands |-> IF h = b.heldin[t] THEN b.hold[h] \ {t} ELSE b.hold[h]]
  /\ c.heldin = [b.heldin EXCEPT ![t] = None] /\ c.holding = b.holding \ {t}

LEMMA UnholdFields ==
  ASSUME NEW b \in Books, NEW t \in Tools
  PROVE  Unheld(b, Unhold(b, t), t)
  BY DEF Unhold, Unheld, Books

LEMMA UnholdOrderly ==
  ASSUME NEW b, Orderly(b), NEW t \in Tools, NEW c, Unheld(b, c, t)
  PROVE  Orderly(c) /\ (t \notin b.wielding => Freed(b, c, t))
<1>1. b \in Books /\ c \in Books
  BY DEF Orderly, Typed, Unheld
<1>2. Agree(c)
  BY <1>1, LimbsAssumption DEF Orderly, Agree, Books, Unheld
<1>3. Here(c)
  BY <1>1 DEF Orderly, Here, Unheld
<1>4. Usable(c) /\ Layered(c)
  BY <1>1 DEF Orderly, Usable, Layered, Unheld
<1>5. t \notin b.wielding => Freed(b, c, t)
  BY <1>1, LimbsAssumption DEF Freed, Orderly, Agree, Books, Unheld
<1> QED
  BY <1>1, <1>2, <1>3, <1>4, <1>5 DEF Orderly, Typed

LEMMA WithoutRight ==
  ASSUME NEW b, Orderly(b), NEW l \in Limbs, NEW u
  PROVE  AllBut(b.worn[l], u) \in Listable /\ KeptRight(b.worn[l], u, AllBut(b.worn[l], u))
<1> DEFINE seq == b.worn[l]
           n == Len(seq)
<1>1. seq \in Listable /\ Ordered(seq)
  BY DEF Orderly, Typed, Books, Layered, Listable
<1> HIDE DEF seq
<1>2. n \in Nat /\ seq \in [1 .. n -> Tools \cup {None}]
  BY <1>1 DEF Listable
<1> HIDE DEF n
<1>3. AllBut(seq, u) \in Listable /\ KeptRight(seq, u, AllBut(seq, u))
  BY <1>1, <1>2, AllButRight
<1> QED
  BY <1>3 DEF seq

\* What MoveAway() leaves: nothing of t but, if it is worn below another, its place there.
Moved(b, c, t) ==
  /\ c \in Books
  /\ c.place = [b.place EXCEPT ![t] = "away"]
  /\ c.hold = [h \in Hands |-> b.hold[h] \ {t}]
  /\ c.heldin = [b.heldin EXCEPT ![t] = None] /\ c.holding = b.holding \ {t}
  /\ c.wield = [h \in Hands |-> IF b.wield[h] = t THEN None ELSE b.wield[h]]
  /\ c.wielding = b.wielding \ {t} /\ c.wielder = b.wielder \ {t} /\ c.wearer = b.wearer \ {t}
  /\ \/ /\ c.worn = b.worn /\ c.wearing = b.wearing
        /\ c.slipped \in {b.slipped, b.slipped \cup {t}} /\ (t \in b.wearing => t \in c.slipped)
     \/ /\ c.worn = [l \in Limbs |-> AllBut(b.worn[l], t)]
        /\ c.wearing = b.wearing \ {t} /\ c.slipped = b.slipped \ {t}

LEMMA MovedOrderly ==
  ASSUME NEW b, Orderly(b), NEW t \in Tools, NEW c, Moved(b, c, t)
  PROVE  Orderly(c) /\ Freed(b, c, t)
<1>1. b \in Books /\ c \in Books
  BY DEF Orderly, Typed, Moved
<1>2. \A l \in Limbs : ToSet(AllBut(b.worn[l], t)) = ToSet(b.worn[l]) \ {t} /\ Ordered(AllBut(b.worn[l], t))
  BY WithoutRight DEF KeptRight
<1>3. Agree(c)
  <2>1. \A s \in Tools : s \in c.holding <=> c.heldin[s] # None
    BY <1>1, LimbsAssumption DEF Orderly, Agree, Books, Moved
  <2>2. \A s \in Tools, h \in Hands : s \in c.hold[h] <=> c.heldin[s] = h
    BY <1>1, LimbsAssumption DEF Orderly, Agree, Books, Moved
  <2>3. \A s \in Tools : s \in c.wielding <=> \E h \in Hands : c.wield[h] = s
    BY <1>1, LimbsAssumption DEF Orderly, Agree, Books, Moved
  <2>4. c.wielder = c.wielding
    BY <1>1 DEF Orderly, Agree, Moved
  <2>5. \A s \in Tools : s \in c.wearing <=> \E l \in Limbs : s \in ToSet(c.worn[l])
    <3>1. CASE c.worn = b.worn /\ c.wearing = b.wearing
      BY <3>1 DEF Orderly, Agree
    <3>2. CASE c.worn = [l \in Limbs |-> AllBut(b.worn[l], t)] /\ c.wearing = b.wearing \ {t}
      <4>1. \A l \in Limbs : ToSet(c.worn[l]) = ToSet(b.worn[l]) \ {t}
        BY <1>2, <3>2
      <4> QED
        BY <3>2, <4>1 DEF Orderly, Agree
    <3> QED
      BY <3>1, <3>2 DEF Moved
  <2>6. c.wearer \subseteq c.wearing /\ c.wearing \subseteq c.wearer \cup c.slipped
    BY <1>1 DEF Orderly, Agree, Moved
  <2> QED
    BY <2>1, <2>2, <2>3, <2>4, <2>5, <2>6 DEF Agree
<1>4. Here(c)
  BY <1>1 DEF Orderly, Here, Moved, Books
<1>5. Usable(c)
  BY <1>1 DEF Orderly, Usable, Moved
<1>6. Layered(c)
  BY <1>2 DEF Orderly, Layered, Moved
<1>7. Freed(b, c, t)
  BY <1>1, LimbsAssumption DEF Freed, Moved, Books
<1> QED
  BY <1>1, <1>3, <1>4, <1>5, <1>6, <1>7 DEF Orderly, Typed

LEMMA MoveAwayMoved ==
  ASSUME NEW b, Orderly(b), NEW t \in Tools
  PROVE  Moved(b, MoveAway(b, t), t)
<1> DEFINE moved == [b EXCEPT !.place[t] = "away", !.wearer = @ \ {t}, !.wielder = @ \ {t}]
           r == RemoveTool(moved, t)
           c == MoveAway(b, t)
<1>1. b \in Books
  BY DEF Orderly, Typed
<1>2. /\ moved \in Books /\ moved.place = [b.place EXCEPT ![t] = "away"]
      /\ moved.hold = b.hold /\ moved.heldin = b.heldin /\ moved.holding = b.holding
      /\ moved.wield = b.wield /\ moved.wielding = b.wielding /\ moved.wielder = b.wielder \ {t}
      /\ moved.worn = b.worn /\ moved.wearing = b.wearing /\ moved.wearer = b.wearer \ {t}
      /\ moved.slipped = b.slipped
  BY <1>1 DEF Books
<1> HIDE DEF moved
<1>3. CASE b.place[t] # "here"
  <2>1. c = moved
    BY <1>3 DEF MoveAway, moved
  <2>2. t \notin b.holding /\ t \notin b.wielding /\ (t \in b.wearing => t \in b.slipped)
    BY <1>3 DEF Orderly, Here
  <2>3. b.heldin[t] = None /\ (\A h \in Hands : b.wield[h] # t /\ t \notin b.hold[h])
    BY <2>2, LimbsAssumption DEF Orderly, Agree
  <2> HIDE DEF c
  <2>4. b.hold = [h \in Hands |-> b.hold[h] \ {t}] /\ b.heldin = [b.heldin EXCEPT ![t] = None]
        /\ b.wield = [h \in Hands |-> IF b.wield[h] = t THEN None ELSE b.wield[h]]
    BY <1>1, <2>3 DEF Books
  <2> QED
    BY <1>2, <2>1, <2>2, <2>4 DEF Moved, c
<1>4. CASE b.place[t] = "here"
  <2>1. c = [r EXCEPT !.slipped = IF Removable(moved, t) THEN @ ELSE @ \cup {t}]
    BY <1>4 DEF MoveAway, moved
  <2> HIDE DEF c
  <2>2. CASE b.heldin[t] # None
    <3>1. r = Unhold(moved, t) /\ Removable(moved, t)
      BY <1>2, <2>2 DEF RemoveTool, Removable
    <3>2. Unheld(moved, r, t)
      BY <1>2, <3>1, UnholdFields
    <3>3. c = r
      BY <2>1, <3>1, <3>2 DEF Unheld, Books
    <3>4. t \in b.holding /\ t \notin b.wielding /\ (\A h \in Hands : b.wield[h] # t)
          /\ (t \in b.wearing => t \in b.slipped) /\ (\A h \in Hands : h # b.heldin[t] => t \notin b.hold[h])
      BY <2>2 DEF Orderly, Agree, Here
    <3>5. c.hold = [h \in Hands |-> b.hold[h] \ {t}]
      <4>1. \A h \in Hands : b.hold[h] \ {t} = IF h = b.heldin[t] THEN b.hold[h] \ {t} ELSE b.hold[h]
        BY <3>4
      <4>2. c.hold = [h \in Hands |-> IF h = b.heldin[t] THEN b.hold[h] \ {t} ELSE b.hold[h]]
        <5>1. r.hold = [h \in Hands |-> IF h = moved.heldin[t] THEN moved.hold[h] \ {t} ELSE moved.hold[h]]
          BY <3>2 DEF Unheld
        <5>2. moved.heldin = b.heldin /\ moved.hold = b.hold
          BY <1>2
        <5> QED
          BY <3>3, <5>1, <5>2, Zenon
      <4> QED
        BY <4>1, <4>2
    <3>6. b.wield = [h \in Hands |-> IF b.wield[h] = t THEN None ELSE b.wield[h]]
      BY <1>1, <3>4 DEF Books
    <3> QED
      BY <1>2, <3>2, <3>3, <3>4, <3>5, <3>6 DEF Moved, Unheld, c
  <2>3. CASE b.heldin[t] = None
    <3>1. t \notin b.holding /\ (\A h \in Hands : t \notin b.hold[h])
      BY <2>3, LimbsAssumption DEF Orderly, Agree
    <3>2. b.hold = [h \in Hands |-> b.hold[h] \ {t}] /\ b.heldin = [b.heldin EXCEPT ![t] = None]
          /\ b.holding = b.holding \ {t}
      BY <1>1, <2>3, <3>1 DEF Books
    <3>3. CASE t \in b.wielding
      <4>1. r = [moved EXCEPT !.wield = [h \in Hands |-> IF moved.wield[h] = t /\ h \in sized THEN None ELSE moved.wield[h]],
                              !.wielding = moved.wielding \ {t}, !.wielder = moved.wielder \ {t}]
            /\ Removable(moved, t)
        BY <1>2, <2>3, <3>3 DEF RemoveTool, Removable
      <4>2. \A h \in Hands : b.wield[h] = t => h \in sized
        BY LimbsAssumption DEF Orderly, Usable
      <4>3. [h \in Hands |-> IF moved.wield[h] = t /\ h \in sized THEN None ELSE moved.wield[h]]
            = [h \in Hands |-> IF b.wield[h] = t THEN None ELSE b.wield[h]]
        BY <1>2, <4>2
      <4> DEFINE w == [h \in Hands |-> IF b.wield[h] = t THEN None ELSE b.wield[h]]
      <4>4. w \in [Hands -> Tools \cup {None}]
        BY <1>1 DEF Books
      <4>5. r = [moved EXCEPT !.wield = w, !.wielding = moved.wielding \ {t}, !.wielder = moved.wielder \ {t}]
        BY <4>1, <4>3
      <4> HIDE DEF w, r
      <4>6. r \in Books /\ r.wield = w /\ r.wielding = b.wielding \ {t} /\ r.wielder = b.wielder \ {t}
            /\ r.place = moved.place /\ r.hold = b.hold /\ r.heldin = b.heldin /\ r.holding = b.holding
            /\ r.worn = b.worn /\ r.wearing = b.wearing /\ r.wearer = moved.wearer /\ r.slipped = b.slipped
        BY <1>2, <4>4, <4>5 DEF Books
      <4>8. c = r
        BY <2>1, <4>1, <4>6 DEF Books
      <4>7. t \in b.wearing => t \in b.slipped
        BY <3>3 DEF Orderly, Here
      <4> QED
        BY <1>2, <3>2, <4>6, <4>7, <4>8 DEF Moved, w, c
    <3>4. CASE t \notin b.wielding
      <4>1. \A h \in Hands : b.wield[h] # t
        BY <3>4 DEF Orderly, Agree
      <4>2. b.wield = [h \in Hands |-> IF b.wield[h] = t THEN None ELSE b.wield[h]]
            /\ b.wielding = b.wielding \ {t}
        BY <1>1, <3>4, <4>1 DEF Books
      <4>3. CASE t \in b.wearing /\ ~Covered(moved, t)
        <5> DEFINE w == [l \in Limbs |-> AllBut(b.worn[l], t)]
        <5>1. w \in [Limbs -> Listable]
          BY WithoutRight
        <5>2. r = [moved EXCEPT !.worn = [l \in Limbs |-> AllBut(moved.worn[l], t)],
                     !.wearing = moved.wearing \ {t}, !.wearer = moved.wearer \ {t}, !.slipped = moved.slipped \ {t}]
              /\ Removable(moved, t)
          BY <1>2, <2>3, <3>4, <4>3 DEF RemoveTool, Removable
        <5>3. r = [moved EXCEPT !.worn = w, !.wearing = b.wearing \ {t},
                     !.wearer = moved.wearer \ {t}, !.slipped = b.slipped \ {t}]
          BY <1>2, <5>2
        <5> HIDE DEF w, r
        <5>4. r \in Books /\ r.worn = w /\ r.wearing = b.wearing \ {t} /\ r.slipped = b.slipped \ {t}
              /\ r.wearer = b.wearer \ {t} /\ r.wielding = b.wielding /\ r.wielder = b.wielder \ {t}
              /\ r.place = moved.place /\ r.hold = b.hold /\ r.heldin = b.heldin /\ r.holding = b.holding
              /\ r.wield = b.wield
          BY <1>2, <5>1, <5>3 DEF Books, Listable
        <5>5. c = r
          BY <2>1, <5>2, <5>4 DEF Books
        <5> QED
          BY <1>2, <3>2, <4>2, <5>4, <5>5 DEF Moved, w, c
      <4>4. CASE ~(t \in b.wearing /\ ~Covered(moved, t))
        <5>1. r = moved /\ (~Removable(moved, t) <=> t \in b.wearing)
          BY <1>2, <2>3, <3>4, <4>4 DEF RemoveTool, Removable
        <5> HIDE DEF r
        <5> DEFINE sl == IF t \in b.wearing THEN b.slipped \cup {t} ELSE b.slipped
        <5>2. c = [moved EXCEPT !.slipped = sl]
          BY <1>2, <2>1, <5>1
        <5>3. sl \in {b.slipped, b.slipped \cup {t}} /\ (t \in b.wearing => t \in sl) /\ sl \subseteq Tools
          BY <1>1 DEF Books
        <5> HIDE DEF sl
        <5>4. /\ c \in Books /\ c.worn = b.worn /\ c.wearing = b.wearing /\ c.slipped = sl
              /\ c.wearer = b.wearer \ {t} /\ c.wielding = b.wielding /\ c.wielder = b.wielder \ {t}
              /\ c.place = moved.place /\ c.hold = b.hold /\ c.heldin = b.heldin /\ c.holding = b.holding
              /\ c.wield = b.wield
          BY <1>2, <5>2, <5>3 DEF Books
        <5> QED
          BY <1>2, <3>2, <4>2, <5>3, <5>4 DEF Moved, c
      <4> QED
        BY <4>3, <4>4
    <3> QED
      BY <3>3, <3>4
  <2> QED
    BY <2>2, <2>3
<1> QED
  BY <1>3, <1>4

\* Nothing new comes into a hand.
Fewer(b, c) ==
  /\ \A h \in Hands : c.hold[h] \subseteq b.hold[h]
  /\ \A h \in Hands : c.wield[h] \in {b.wield[h], None}

OrderlyFrom(b) == {c \in Books : Orderly(c) /\ Fewer(b, c)}

LEMMA MoveAwayOrderly ==
  ASSUME NEW a, NEW b \in OrderlyFrom(a), NEW t \in Tools
  PROVE  MoveAway(b, t) \in OrderlyFrom(a) /\ Freed(b, MoveAway(b, t), t)
<1> DEFINE c == MoveAway(b, t)
<1>1. Orderly(b) /\ Fewer(a, b)
  BY DEF OrderlyFrom
<1>2. Moved(b, c, t)
  BY <1>1, MoveAwayMoved
<1> HIDE DEF c
<1>3. Orderly(c) /\ Freed(b, c, t)
  BY <1>1, <1>2, MovedOrderly
<1>5. c \in Books
  BY <1>2 DEF Moved
<1>4. Fewer(a, c)
  BY <1>1, <1>3 DEF Fewer, Freed
<1> QED
  BY <1>3, <1>4, <1>5 DEF OrderlyFrom, c

MovesOf(b, seq) == CHOOSE it : it = [s \in SUBSET DOMAIN seq |->
  IF s = {} THEN b ELSE MoveAway(it[s \ {Max(s)}], seq[Max(s)])]

\* Some tools are moved away one after the other.
LEMMA MovesOrderly ==
  ASSUME NEW b, Orderly(b), NEW n \in Nat, NEW seq \in [1 .. n -> Tools], NEW c, c = FoldLeft(MoveAway, b, seq)
  PROVE  Orderly(c) /\ Fewer(b, c) /\ \A i \in 1 .. n, h \in Hands : seq[i] \notin c.hold[h]
<1> DEFINE D == OrderlyFrom(b)
           S == 1 .. n
           it == MovesOf(b, seq)
           F == [p \in S \X D |-> MoveAway(p[2], seq[p[1]])]
<1>1. \A i \in S, d \in D : MoveAway(d, seq[i]) \in D /\ Freed(d, MoveAway(d, seq[i]), seq[i])
  BY MoveAwayOrderly
<1>2. F \in [S \X D -> D] /\ \A i \in S, d \in D : F[<<i, d>>] = MoveAway(d, seq[i])
  <2> HIDE DEF S, D
  <2> QED
    BY <1>1
<1>3. DOMAIN seq = S /\ S = 1 .. n
  OBVIOUS
<1>15. b \in D
  BY DEF Orderly, Typed, OrderlyFrom, Fewer
<1>4. \A s \in SUBSET S : s # {} =>
        Max(s) \in S /\ Max(s) \in s /\ s \ {Max(s)} \in SUBSET S /\ s \ {Max(s)} # s
  BY LastOf
<1>5. c = it[DOMAIN seq]
  BY Zenon DEF FoldLeft, MapThenFoldSet, MovesOf
<1>6. IsFiniteSet(S)
  BY FS_Interval
<1> HIDE DEF F, D, S
<1>7. PICK g \in [SUBSET S -> D] : FoldedLeft(g, S, F, b)
  BY <1>2, <1>3, <1>15, FoldLeftExists, Zenon
<1>8. \A s \in SUBSET S : g[s] = IF s = {} THEN b ELSE MoveAway(g[s \ {Max(s)}], seq[Max(s)])
  BY <1>2, <1>4, <1>7 DEF FoldedLeft
<1>9. g = [s \in SUBSET S |-> IF s = {} THEN b ELSE MoveAway(g[s \ {Max(s)}], seq[Max(s)])]
  BY <1>8
<1>10. it = [s \in SUBSET S |-> IF s = {} THEN b ELSE MoveAway(it[s \ {Max(s)}], seq[Max(s)])]
  BY <1>3, <1>9, Zenon DEF MovesOf
<1> HIDE DEF it
<1>11. \A s \in SUBSET S : it[s] = IF s = {} THEN b ELSE MoveAway(it[s \ {Max(s)}], seq[Max(s)])
  BY <1>10
<1> DEFINE Fit(s) == it[s] \in D /\ \A i \in s, h \in Hands : seq[i] \notin it[s].hold[h]
           A == {s \in SUBSET S : Fit(s)}
<1>12. Shrinks(S, A)
  <2> SUFFICES ASSUME NEW T \in SUBSET S, \A U \in SUBSET T : U # T => U \in A
               PROVE  Fit(T)
    BY DEF Shrinks
  <2>1. CASE T = {}
    BY <1>11, <1>15, <2>1
  <2>2. CASE T # {}
    <3> DEFINE m == Max(T)
               R == T \ {m}
               d == it[R]
    <3>1. m \in S /\ R \in A /\ T = R \cup {m}
      BY <1>4, <2>2
    <3>2. it[T] = MoveAway(d, seq[m])
      BY <1>11, <2>2
    <3>3. d \in D /\ \A i \in R, h \in Hands : seq[i] \notin d.hold[h]
      BY <3>1
    <3> HIDE DEF m, R, d, A
    <3>4. it[T] \in D /\ Freed(d, it[T], seq[m])
      BY <1>1, <3>1, <3>2, <3>3
    <3>5. \A i \in T, h \in Hands : seq[i] \notin it[T].hold[h]
      BY <3>1, <3>3, <3>4 DEF Freed
    <3> QED
      BY <3>4, <3>5
  <2> QED
    BY <2>1, <2>2
<1> HIDE DEF A
<1>13. S \in A
  BY <1>6, <1>12, AllShrunk
<1>14. c \in D /\ \A i \in S, h \in Hands : seq[i] \notin c.hold[h]
  BY <1>3, <1>5, <1>13 DEF A
<1> QED
  BY <1>3, <1>14 DEF D, OrderlyFrom

\* Nothing is in the hand, if it is one.
Emptied(b, l) == l \in Hands => b.hold[l] = {} /\ b.wield[l] = None

LEMMA HandEmptiedOrderly ==
  ASSUME NEW b, Orderly(b), NEW l \in Limbs
  PROVE  Orderly(HandEmptied(b, l)) /\ Fewer(b, HandEmptied(b, l)) /\ Emptied(HandEmptied(b, l), l)
<1> DEFINE e == HandEmptied(b, l)
<1>1. CASE l \notin Hands
  BY <1>1 DEF HandEmptied, Emptied, Fewer
<1>2. CASE l \in Hands
  <2> DEFINE q == SetToSeq(b.hold[l])
             n == Cardinality(b.hold[l])
             d == FoldLeft(MoveAway, b, q)
             w == d.wield[l]
  <2>1. b \in Books /\ b.hold[l] \subseteq Tools
    BY <1>2 DEF Orderly, Typed, Books
  <2>2. IsFiniteSet(b.hold[l])
    BY <2>1, LimbsAssumption, FS_Subset
  <2>3. n \in Nat /\ q \in [1 .. n -> b.hold[l]] /\ b.hold[l] = {q[i] : i \in 1 .. n}
    BY <2>2, InSomeOrder
  <2>4. e = IF w = None THEN d ELSE MoveAway(d, w)
    BY <1>2 DEF HandEmptied
  <2> HIDE DEF q, n
  <2>5. q \in [1 .. n -> Tools]
    BY <2>1, <2>3
  <2>6. Orderly(d) /\ Fewer(b, d) /\ \A i \in 1 .. n, h \in Hands : q[i] \notin d.hold[h]
    BY <2>3, <2>5, MovesOrderly
  <2> HIDE DEF d, e
  <2>7. d.hold[l] = {} /\ w \in Tools \cup {None}
    BY <1>2, <2>3, <2>6 DEF Fewer, Orderly, Typed, Books
  <2> HIDE DEF w
  <2>8. CASE w = None
    BY <2>4, <2>6, <2>7, <2>8 DEF Emptied, w, e
  <2>9. CASE w # None
    <3>1. d \in OrderlyFrom(b) /\ w \in Tools
      BY <2>6, <2>7, <2>9 DEF OrderlyFrom, Orderly, Typed
    <3>2. e \in OrderlyFrom(b) /\ Freed(d, e, w)
      BY <2>4, <2>9, <3>1, MoveAwayOrderly
    <3>3. e.hold[l] = {} /\ e.wield[l] = None
      BY <1>2, <2>7, <3>2 DEF Freed, w
    <3> QED
      BY <3>2, <3>3 DEF OrderlyFrom, Emptied, e
  <2> QED
    BY <2>8, <2>9 DEF e
<1> QED
  BY <1>1, <1>2

\* The list of a limb without what is destructed.
LEMMA CleanedOrderly ==
  ASSUME NEW b, Orderly(b), NEW l \in Limbs, NEW c, c = [b EXCEPT !.worn[l] = Cleaned(@)]
  PROVE  Orderly(c) /\ Fewer(b, c)
<1> DEFINE w == AllBut(b.worn[l], None)
<1>1. b \in Books
  BY DEF Orderly, Typed
<1>2. w \in Listable /\ ToSet(w) = ToSet(b.worn[l]) \ {None} /\ Ordered(w)
  BY WithoutRight DEF KeptRight
<1> DEFINE v == [b.worn EXCEPT ![l] = w]
<1>3. c = [b EXCEPT !.worn = v]
  BY <1>1 DEF Cleaned
<1> HIDE DEF w
<1>9. v \in [Limbs -> Listable]
  BY <1>1, <1>2 DEF Books, Listable
<1> HIDE DEF v
<1>4. /\ c \in Books /\ c.worn = v /\ c.hold = b.hold /\ c.wield = b.wield
      /\ c.place = b.place /\ c.heldin = b.heldin /\ c.holding = b.holding /\ c.wielding = b.wielding
      /\ c.wearing = b.wearing /\ c.wielder = b.wielder /\ c.wearer = b.wearer /\ c.slipped = b.slipped
  BY <1>1, <1>3, <1>9 DEF Books, Listable
<1>5. \A k \in Limbs : c.worn[k] = IF k = l THEN w ELSE b.worn[k]
  BY <1>1, <1>4 DEF Books, v
<1>6. \A t \in Tools, k \in Limbs : t \in ToSet(c.worn[k]) <=> t \in ToSet(b.worn[k])
  BY <1>2, <1>5, LimbsAssumption
<1>7. Agree(c)
  BY <1>4, <1>6 DEF Orderly, Agree
<1>8. Here(c) /\ Usable(c) /\ Layered(c) /\ Fewer(b, c)
  BY <1>2, <1>4, <1>5 DEF Orderly, Here, Usable, Layered, Fewer
<1> QED
  BY <1>4, <1>7, <1>8 DEF Orderly, Typed

LEMMA LimbBaredOrderly ==
  ASSUME NEW b, Orderly(b), NEW l \in Limbs
  PROVE  Orderly(LimbBared(b, l)) /\ Fewer(b, LimbBared(b, l))
<1> DEFINE d == [b EXCEPT !.worn[l] = Cleaned(@)]
           w == AllBut(b.worn[l], None)
           n == Len(w)
           q == Reverse(w)
           c == FoldLeft(MoveAway, d, q)
<1>1. w \in Listable /\ ToSet(w) = ToSet(b.worn[l]) \ {None}
  BY WithoutRight DEF KeptRight
<1>2. LimbBared(b, l) = c
  BY DEF LimbBared, Cleaned
<1>3. Orderly(d) /\ Fewer(b, d)
  BY CleanedOrderly
<1> HIDE DEF d, w
<1>4. n \in Nat /\ DOMAIN w = 1 .. n /\ w \in [1 .. n -> Tools \cup {None}]
  BY <1>1 DEF Listable
<1>5. \A i \in 1 .. n : w[i] \in Tools
  BY <1>1, <1>4 DEF ToSet
<1>6. q \in [1 .. n -> Tools]
  BY <1>4, <1>5 DEF Reverse
<1> HIDE DEF n, q
<1>7. Orderly(c) /\ Fewer(d, c)
  BY <1>3, <1>4, <1>6, MovesOrderly
<1> HIDE DEF c
<1>8. Fewer(b, c)
  BY <1>3, <1>7 DEF Fewer
<1> QED
  BY <1>2, <1>7, <1>8

LEMMA LimbRemovedOrderly ==
  ASSUME NEW b, Orderly(b), NEW l \in Limbs, NEW lost \in BOOLEAN, NEW c, c = LimbRemoved(b, l, lost)
  PROVE  Orderly(c) /\ Fewer(b, c) /\ Emptied(c, l)
<1> DEFINE e == HandEmptied(b, l)
<1>1. Orderly(e) /\ Fewer(b, e) /\ Emptied(e, l)
  BY HandEmptiedOrderly
<1>2. c = IF lost THEN LimbBared(e, l) ELSE e
  BY DEF LimbRemoved
<1> HIDE DEF e
<1>3. CASE lost
  <2>1. Orderly(c) /\ Fewer(e, c)
    BY <1>1, <1>2, <1>3, LimbBaredOrderly
  <2> QED
    BY <1>1, <2>1 DEF Fewer, Emptied
<1> QED
  BY <1>1, <1>2, <1>3

LimbsOff(b, seq, lost) == CHOOSE it : it = [s \in SUBSET DOMAIN seq |->
  IF s = {} THEN b ELSE LimbRemoved(it[s \ {Max(s)}], seq[Max(s)], lost)]

\* Some limbs are removed one after the other.
LEMMA LimbsOffOrderly ==
  ASSUME NEW b, Orderly(b), NEW lost \in BOOLEAN, NEW n \in Nat, NEW seq \in [1 .. n -> Limbs],
         NEW c, c = LimbsOff(b, seq, lost)[DOMAIN seq]
  PROVE  Orderly(c) /\ Fewer(b, c) /\ \A i \in 1 .. n : Emptied(c, seq[i])
<1> DEFINE D == OrderlyFrom(b)
           S == 1 .. n
           it == LimbsOff(b, seq, lost)
           F == [p \in S \X D |-> LimbRemoved(p[2], seq[p[1]], lost)]
<1>1. ASSUME NEW i \in S, NEW d \in D, NEW e, e = LimbRemoved(d, seq[i], lost)
      PROVE  e \in D /\ Fewer(d, e) /\ Emptied(e, seq[i])
  <2>1. Orderly(d) /\ Fewer(b, d) /\ seq[i] \in Limbs
    BY DEF OrderlyFrom
  <2>2. Orderly(e) /\ Fewer(d, e) /\ Emptied(e, seq[i])
    BY <1>1, <2>1, LimbRemovedOrderly
  <2>3. Fewer(b, e)
    BY <2>1, <2>2 DEF Fewer
  <2> QED
    BY <2>2, <2>3 DEF OrderlyFrom, Orderly, Typed
<1>2. F \in [S \X D -> D] /\ \A i \in S, d \in D : F[<<i, d>>] = LimbRemoved(d, seq[i], lost)
  <2> HIDE DEF S, D
  <2> QED
    BY <1>1
<1>3. DOMAIN seq = S /\ S = 1 .. n
  OBVIOUS
<1>15. b \in D
  BY DEF Orderly, Typed, OrderlyFrom, Fewer
<1>4. \A s \in SUBSET S : s # {} =>
        Max(s) \in S /\ Max(s) \in s /\ s \ {Max(s)} \in SUBSET S /\ s \ {Max(s)} # s
  BY LastOf
<1>5. c = it[DOMAIN seq]
  OBVIOUS
<1>6. IsFiniteSet(S)
  BY FS_Interval
<1> HIDE DEF F, D, S
<1>7. PICK g \in [SUBSET S -> D] : FoldedLeft(g, S, F, b)
  BY <1>2, <1>3, <1>15, FoldLeftExists, Zenon
<1>8. \A s \in SUBSET S : g[s] = IF s = {} THEN b ELSE LimbRemoved(g[s \ {Max(s)}], seq[Max(s)], lost)
  BY <1>2, <1>4, <1>7 DEF FoldedLeft
<1>9. g = [s \in SUBSET S |-> IF s = {} THEN b ELSE LimbRemoved(g[s \ {Max(s)}], seq[Max(s)], lost)]
  BY <1>8
<1>10. it = [s \in SUBSET S |-> IF s = {} THEN b ELSE LimbRemoved(it[s \ {Max(s)}], seq[Max(s)], lost)]
  BY <1>3, <1>9, Zenon DEF LimbsOff
<1> HIDE DEF it
<1>11. \A s \in SUBSET S : it[s] = IF s = {} THEN b ELSE LimbRemoved(it[s \ {Max(s)}], seq[Max(s)], lost)
  BY <1>10
<1> DEFINE Fit(s) == it[s] \in D /\ \A i \in s : Emptied(it[s], seq[i])
           A == {s \in SUBSET S : Fit(s)}
<1>12. Shrinks(S, A)
  <2> SUFFICES ASSUME NEW T \in SUBSET S, \A U \in SUBSET T : U # T => U \in A
               PROVE  Fit(T)
    BY DEF Shrinks
  <2>1. CASE T = {}
    BY <1>11, <1>15, <2>1
  <2>2. CASE T # {}
    <3> DEFINE m == Max(T)
               R == T \ {m}
               d == it[R]
    <3>1. m \in S /\ R \in A /\ T = R \cup {m}
      BY <1>4, <2>2
    <3>2. it[T] = LimbRemoved(d, seq[m], lost)
      BY <1>11, <2>2
    <3>3. d \in D /\ \A i \in R : Emptied(d, seq[i])
      BY <3>1
    <3> HIDE DEF m, R, d, A
    <3>4. it[T] \in D /\ Fewer(d, it[T]) /\ Emptied(it[T], seq[m])
      BY <1>1, <3>1, <3>2, <3>3
    <3>5. \A i \in R : Emptied(it[T], seq[i])
      BY <3>3, <3>4 DEF Emptied, Fewer
    <3> QED
      BY <3>1, <3>4, <3>5
  <2> QED
    BY <2>1, <2>2
<1> HIDE DEF A
<1>13. S \in A
  BY <1>6, <1>12, AllShrunk
<1>14. c \in D /\ \A i \in S : Emptied(c, seq[i])
  BY <1>3, <1>5, <1>13 DEF A
<1> QED
  BY <1>3, <1>14 DEF D, OrderlyFrom

-----------------------------------------------------------------------------
SlotInd == Orderly(books) /\ sized \subseteq Limbs /\ wounds \in [Limbs -> WoundStates]

\* The books changed, and the body as it was.
LEMMA BodyStays ==
  ASSUME SlotInd, UNCHANGED body, Orderly(books')
  PROVE  SlotInd'
<1>1. Orderly(books)' <=> Orderly(books')
  BY DEF Orderly, Typed, Agree, Here, Usable, Layered, Ordered, body
<1> QED
  BY <1>1 DEF SlotInd, body

LEMMA SetWoundKeeps ==
  ASSUME SlotInd, NEW l \in Limbs, NEW lost \in BOOLEAN, SetWound(l, lost)
  PROVE  SlotInd'
<1> DEFINE rest == Hit(l) \ {l}
           n == Cardinality(rest)
           q == SetToSeq(rest)
           seq == IF Hit(l) = {} THEN <<>> ELSE <<l>> \o q
           c == LimbsOff(books, seq, lost)[DOMAIN seq]
<1>1. books' = c
  BY Zenon DEF SetWound, FoldLeft, MapThenFoldSet, LimbsOff
<1> HIDE DEF c
<1>2. Hit(l) \subseteq Limbs /\ (Hit(l) # {} => l \in Hit(l))
  BY DEF Hit, SlotInd
<1>3. IsFiniteSet(rest)
  BY <1>2, LimbsAssumption, FS_Subset
<1>4. n \in Nat /\ q \in [1 .. n -> rest] /\ rest = {q[i] : i \in 1 .. n}
  BY <1>3, InSomeOrder
<1> HIDE DEF n, q
<1>5. \E m \in Nat : seq \in [1 .. m -> Limbs] /\ Hit(l) = {seq[i] : i \in 1 .. m}
  <2>1. CASE Hit(l) = {}
    <3>1. seq = <<>>
      BY <2>1
    <3>2. seq \in [1 .. 0 -> Limbs] /\ Hit(l) = {seq[i] : i \in 1 .. 0}
      BY <2>1, <3>1
    <3> QED
      BY <3>2
  <2>2. CASE Hit(l) # {}
    <3>1. seq = <<l>> \o q
      BY <2>2
    <3>2. q \in Seq(Limbs) /\ Len(q) = n /\ <<l>> \in Seq(Limbs) /\ Len(<<l>>) = 1
      BY <1>2, <1>4
    <3>3. /\ Len(seq) = n + 1 /\ seq \in Seq(Limbs) /\ seq[1] = l
          /\ \A i \in 1 .. n : seq[i + 1] = q[i]
      BY <1>4, <3>1, <3>2, ConcatProperties
    <3> HIDE DEF seq
    <3>4. seq \in [1 .. n + 1 -> Limbs]
      BY <3>3
    <3>5. \A i \in 1 .. n + 1 : i = 1 \/ (i - 1 \in 1 .. n /\ (i - 1) + 1 = i)
      BY <1>4
    <3>6. \A i \in 1 .. n : i + 1 \in 1 .. n + 1
      BY <1>4
    <3>7. 1 \in 1 .. n + 1 /\ Hit(l) = rest \cup {l}
      BY <1>2, <1>4, <2>2
    <3>8. {seq[i] : i \in 1 .. n + 1} = {q[i] : i \in 1 .. n} \cup {l}
      BY <3>3, <3>5, <3>6, <3>7
    <3>9. n + 1 \in Nat
      BY <1>4
    <3>10. Hit(l) = {seq[i] : i \in 1 .. n + 1}
      BY <1>4, <3>7, <3>8
    <3> QED
      BY <3>4, <3>9, <3>10
  <2> QED
    BY <2>1, <2>2
<1>6. PICK m \in Nat : seq \in [1 .. m -> Limbs] /\ Hit(l) = {seq[i] : i \in 1 .. m}
  BY <1>5
<1> HIDE DEF seq
<1>7. Orderly(c) /\ \A i \in 1 .. m : Emptied(c, seq[i])
  BY <1>6, LimbsOffOrderly DEF SlotInd, c
<1>8. \A h \in Hands \cap Hit(l) : c.hold[h] = {} /\ c.wield[h] = None
  BY <1>6, <1>7 DEF Emptied
<1>9. sized' = sized \ Hit(l)
  BY DEF SetWound
<1>10. Orderly(books)'
  BY <1>1, <1>7, <1>8, <1>9 DEF Orderly, Typed, Agree, Here, Usable, Layered, Ordered
<1>11. wounds' \in [Limbs -> WoundStates]
  BY DEF SetWound, SlotInd, WoundStates
<1> QED
  BY <1>9, <1>10, <1>11 DEF SlotInd

\* Something comes into a hand there is, which is not in one and not in use there.
LEMMA AddToolOrderly ==
  ASSUME NEW b, Orderly(b), NEW t \in Tools, NEW h \in Hands \cap sized,
         t \notin b.holding \cup b.wielding, t \in b.wearing => t \in b.slipped
  PROVE  Orderly(AddTool(b, t, h))
<1> DEFINE c == AddTool(b, t, h)
<1>1. b \in Books
  BY DEF Orderly, Typed
<1>2. /\ c \in Books /\ c.place = [b.place EXCEPT ![t] = "here"] /\ c.holding = b.holding \cup {t}
      /\ c.heldin = [b.heldin EXCEPT ![t] = h] /\ c.hold = [b.hold EXCEPT ![h] = @ \cup {t}]
      /\ c.wield = b.wield /\ c.wielding = b.wielding /\ c.worn = b.worn /\ c.wearing = b.wearing
      /\ c.wielder = b.wielder /\ c.wearer = b.wearer /\ c.slipped = b.slipped
  BY <1>1 DEF AddTool, Books
<1> HIDE DEF c
<1>3. h # None /\ b.heldin[t] = None
  BY LimbsAssumption DEF Orderly, Agree
<1>4. Agree(c)
  <2>1. \A s \in Tools : s \in c.holding <=> c.heldin[s] # None
    BY <1>1, <1>2, <1>3 DEF Orderly, Agree, Books
  <2>2. \A s \in Tools, k \in Hands : s \in c.hold[k] <=> c.heldin[s] = k
    <3> SUFFICES ASSUME NEW s \in Tools, NEW k \in Hands PROVE s \in c.hold[k] <=> c.heldin[s] = k
      OBVIOUS
    <3>1. s \in b.hold[k] <=> b.heldin[s] = k
      BY DEF Orderly, Agree
    <3>2. b.hold \in [Hands -> SUBSET Tools] /\ b.heldin \in [Tools -> Hands \cup {None}]
      BY <1>1 DEF Books
    <3>3. c.hold[k] = IF k = h THEN b.hold[k] \cup {t} ELSE b.hold[k]
      BY <1>2, <3>2
    <3>4. c.heldin[s] = IF s = t THEN h ELSE b.heldin[s]
      BY <1>2, <3>2
    <3> QED
      BY <1>3, <3>1, <3>3, <3>4, LimbsAssumption
  <2> QED
    BY <1>2, <2>1, <2>2 DEF Orderly, Agree
<1>5. Here(c)
  BY <1>1, <1>2 DEF Orderly, Here, Books
<1>6. Usable(c) /\ Layered(c)
  BY <1>1, <1>2 DEF Orderly, Usable, Layered, Books
<1> QED
  BY <1>2, <1>4, <1>5, <1>6 DEF Orderly, Typed, c

LEMMA GraspKeeps ==
  ASSUME SlotInd, NEW t \in Tools, NEW h \in Hands, Grasp(t, h)
  PROVE  SlotInd'
<1>1. h \in sized /\ t \notin books.holding \cup books.wielding /\ (t \in books.wearing => t \in books.slipped)
  BY DEF Grasp, Space, SlotInd, Orderly, Here
<1>2. Orderly(books')
  BY <1>1, AddToolOrderly DEF Grasp, SlotInd
<1> QED
  BY <1>2, BodyStays DEF Grasp

LEMMA WieldKeeps ==
  ASSUME SlotInd, NEW t \in Tools, Wield(t)
  PROVE  SlotInd'
<1> DEFINE b == Unhold(books, t)
<1>1. PICK hands \in SUBSET {h \in Hands \cap sized : books.wield[h] = None /\ books.hold[h] \subseteq {t}} :
        /\ Cardinality(hands) = HandsFor[t]
        /\ books' = [b EXCEPT !.wield = [h \in Hands |-> IF h \in hands THEN t ELSE @[h]],
                              !.wielding = @ \cup {t}, !.wielder = @ \cup {t}]
  BY DEF Wield
<1>2. t \in books.holding /\ t \notin books.wielding /\ books \in Books /\ Orderly(books)
  BY DEF Wield, SlotInd, Orderly, Typed, Agree
<1>3. Unheld(books, b, t)
  BY <1>2, UnholdFields
<1> HIDE DEF b
<1>4. Orderly(b) /\ Freed(books, b, t) /\ b \in Books
  BY <1>2, <1>3, UnholdOrderly DEF Unheld
<1>5. hands # {}
  <2>1. HandsFor[t] > 0
    BY DEF Wield
  <2> QED
    BY <1>1, <2>1, FS_EmptySet
<1> DEFINE w == [h \in Hands |-> IF h \in hands THEN t ELSE b.wield[h]]
           c == books'
<1>6. w \in [Hands -> Tools \cup {None}]
  BY <1>4 DEF Books
<1>7. c = [b EXCEPT !.wield = w, !.wielding = b.wielding \cup {t}, !.wielder = b.wielder \cup {t}]
  BY <1>1
<1> HIDE DEF w, c
<1>8. /\ c \in Books /\ c.wield = w /\ c.wielding = b.wielding \cup {t} /\ c.wielder = b.wielder \cup {t}
      /\ c.place = b.place /\ c.hold = b.hold /\ c.heldin = b.heldin /\ c.holding = b.holding
      /\ c.worn = b.worn /\ c.wearing = b.wearing /\ c.wearer = b.wearer /\ c.slipped = b.slipped
  BY <1>4, <1>6, <1>7 DEF Books
<1>9. t \notin b.holding /\ t \notin b.wielding /\ b.place[t] = "here" /\ (t \in b.wearing => t \in b.slipped)
  BY <1>2, <1>3 DEF Unheld, Orderly, Here, Agree
<1>10. \A h \in hands : h \in Hands /\ h \in sized /\ b.wield[h] = None
  BY <1>1, <1>3 DEF Unheld
<1>11. Agree(c)
  <2>1. \A s \in Tools : s \in c.wielding <=> \E h \in Hands : c.wield[h] = s
    <3> SUFFICES ASSUME NEW s \in Tools PROVE s \in c.wielding <=> \E h \in Hands : c.wield[h] = s
      OBVIOUS
    <3>1. s \in b.wielding <=> \E h \in Hands : b.wield[h] = s
      BY <1>4 DEF Orderly, Agree
    <3>2. CASE s = t
      BY <1>5, <1>8, <1>10, <3>2 DEF w
    <3>3. CASE s # t
      <4>1. \A h \in Hands : c.wield[h] = s <=> b.wield[h] = s
        BY <1>8, <1>10, <3>3, LimbsAssumption DEF w
      <4> QED
        BY <1>8, <3>1, <3>3, <4>1
    <3> QED
      BY <3>2, <3>3
  <2> QED
    BY <1>4, <1>8, <2>1 DEF Orderly, Agree
<1>12. Here(c)
  BY <1>4, <1>8, <1>9 DEF Orderly, Here
<1>13. Usable(c) /\ Layered(c)
  BY <1>4, <1>8, <1>10 DEF Orderly, Usable, Layered, w
<1>14. Orderly(books')
  BY <1>8, <1>11, <1>12, <1>13 DEF Orderly, Typed, c
<1> QED
  BY <1>14, BodyStays DEF Wield

\* What is put on top of layers that are not above it.
LEMMA OverOrdered ==
  ASSUME NEW seq \in Listable, Ordered(seq), NEW t \in Tools, \A x \in ToSet(seq) : x # None,
         seq # <<>> => Layer[t] >= Layer[Head(seq)]
  PROVE  /\ WornOver(seq, t) \in Listable /\ Ordered(WornOver(seq, t))
         /\ ToSet(WornOver(seq, t)) = ToSet(seq) \cup {t}
<1> DEFINE over == WornOver(seq, t)
           n == Len(seq)
<1>1. n \in Nat /\ DOMAIN seq = 1 .. n /\ \A i \in 1 .. n : seq[i] \in Tools
  BY DEF Listable, ToSet
<1>2. /\ Len(over) = n + 1 /\ over \in Seq(Tools \cup {None}) /\ over[1] = t
      /\ \A i \in 1 .. n : over[i + 1] = seq[i]
  <2>1. over = <<t>> \o seq
    BY DEF WornOver
  <2>2. <<t>> \in Seq(Tools \cup {None}) /\ Len(<<t>>) = 1 /\ <<t>>[1] = t /\ seq \in Seq(Tools \cup {None})
    BY DEF Listable
  <2> QED
    BY <1>1, <2>1, <2>2, ConcatProperties
<1> HIDE DEF over
<1>3. DOMAIN over = 1 .. n + 1
  BY <1>2
<1>4. \A i \in 1 .. n : Layer[t] >= Layer[seq[i]]
  <2> SUFFICES ASSUME NEW i \in 1 .. n PROVE Layer[t] >= Layer[seq[i]]
    OBVIOUS
  <2>1. seq # <<>> /\ Head(seq) = seq[1] /\ 1 \in 1 .. n
    BY <1>1 DEF Listable
  <2>2. Layer[seq[1]] >= Layer[seq[i]]
    <3>1. CASE i = 1
      BY <1>1, <3>1, ToolsAssumption
    <3>2. CASE i # 1
      BY <1>1, <2>1, <3>2, LimbsAssumption DEF Ordered
    <3> QED
      BY <3>1, <3>2
  <2>3. Layer[t] \in Nat /\ Layer[seq[1]] \in Nat /\ Layer[seq[i]] \in Nat
    BY <1>1, <2>1, ToolsAssumption
  <2> QED
    BY <2>1, <2>2, <2>3
<1> HIDE DEF n
<1>5. \A i \in 1 .. n + 1 : i = 1 \/ (i - 1 \in 1 .. n /\ over[i] = seq[i - 1])
  <2> SUFFICES ASSUME NEW i \in 1 .. n + 1, i # 1 PROVE i - 1 \in 1 .. n /\ over[i] = seq[i - 1]
    OBVIOUS
  <2>1. i - 1 \in 1 .. n /\ (i - 1) + 1 = i
    BY <1>1
  <2> QED
    BY <1>2, <2>1
<1>6. Ordered(over)
  <2> SUFFICES ASSUME NEW i \in 1 .. n + 1, NEW j \in 1 .. n + 1, i < j, None \notin {over[i], over[j]}
               PROVE  Layer[over[i]] >= Layer[over[j]]
    BY <1>3 DEF Ordered
  <2>1. j - 1 \in 1 .. n /\ over[j] = seq[j - 1]
    BY <1>1, <1>5
  <2>2. CASE i = 1
    BY <1>2, <1>4, <2>1, <2>2
  <2>3. CASE i # 1
    <3>1. i - 1 \in 1 .. n /\ over[i] = seq[i - 1] /\ i - 1 < j - 1
      BY <1>1, <1>5, <2>3
    <3> QED
      BY <1>1, <2>1, <3>1 DEF Ordered
  <2> QED
    BY <2>2, <2>3
<1>7. ToSet(over) = ToSet(seq) \cup {t}
  <2>1. \A i \in 1 .. n : i + 1 \in 1 .. n + 1
    BY <1>1
  <2>2. 1 \in 1 .. n + 1
    BY <1>1
  <2>3. ToSet(over) = {over[i] : i \in 1 .. n + 1} /\ ToSet(seq) = {seq[i] : i \in 1 .. n}
    BY <1>1, <1>3 DEF ToSet
  <2> QED
    BY <1>2, <1>5, <2>1, <2>2, <2>3
<1> QED
  BY <1>2, <1>6, <1>7 DEF over, Listable

LEMMA WearKeeps ==
  ASSUME SlotInd, NEW t \in Tools, Wear(t)
  PROVE  SlotInd'
<1> DEFINE b == Unhold(books, t)
           w == [l \in Limbs |-> IF l \in Covers[t] THEN WornOver(Cleaned(books.worn[l]), t) ELSE books.worn[l]]
           c == books'
<1>1. t \in books.holding /\ books \in Books /\ Orderly(books) /\ Covers[t] # {} /\ Covers[t] \subseteq Limbs
  BY ToolsAssumption DEF Wear, SlotInd, Orderly, Typed
<1>2. Unheld(books, b, t)
  BY <1>1, UnholdFields
<1>3. c = [b EXCEPT !.worn = [l \in Limbs |-> IF l \in Covers[t] THEN WornOver(Cleaned(b.worn[l]), t) ELSE b.worn[l]],
                    !.wearing = b.wearing \cup {t}, !.wearer = b.wearer \cup {t}]
  BY DEF Wear
<1> HIDE DEF b
<1>4. b.worn = books.worn /\ b \in Books
  BY <1>2 DEF Unheld
<1>5. c = [b EXCEPT !.worn = w, !.wearing = b.wearing \cup {t}, !.wearer = b.wearer \cup {t}]
  BY <1>3, <1>4
<1>6. ASSUME NEW l \in Covers[t]
      PROVE  /\ w[l] \in Listable /\ Ordered(w[l])
             /\ \A s \in Tools : s \in ToSet(w[l]) <=> s = t \/ s \in ToSet(books.worn[l])
  <2> DEFINE seq == Cleaned(books.worn[l])
  <2>1. seq \in Listable /\ Ordered(seq) /\ ToSet(seq) = ToSet(books.worn[l]) \ {None}
    <3>1. l \in Limbs
      BY <1>1
    <3> QED
      BY <1>1, <3>1, WithoutRight DEF KeptRight, Cleaned
  <2>2. seq # <<>> => Layer[t] >= Layer[Head(seq)] + (IF Head(seq) \in Thin THEN 0 ELSE 1)
    BY DEF Wear
  <2>3. w[l] = WornOver(seq, t)
    BY <1>1
  <2> HIDE DEF seq, w
  <2>4. \A x \in ToSet(seq) : x # None
    BY <2>1
  <2>5. seq # <<>> => Layer[t] >= Layer[Head(seq)]
    <3> SUFFICES ASSUME seq # <<>> PROVE Layer[t] >= Layer[Head(seq)]
      OBVIOUS
    <3>1. Head(seq) = seq[1] /\ 1 \in DOMAIN seq /\ seq[1] \in Tools \cup {None}
      BY <2>1 DEF Listable
    <3>2. Head(seq) \in Tools
      BY <2>4, <3>1 DEF ToSet
    <3> DEFINE m == Layer[t]
               k == Layer[Head(seq)]
    <3>3. m \in Nat /\ k \in Nat
      BY <3>2, ToolsAssumption
    <3>4. m >= k + 1 \/ m >= k + 0
      BY <2>2
    <3> HIDE DEF m, k
    <3>5. m >= k
      BY <3>3, <3>4
    <3> QED
      BY <3>5 DEF m, k
  <2>6. /\ WornOver(seq, t) \in Listable /\ Ordered(WornOver(seq, t))
        /\ ToSet(WornOver(seq, t)) = ToSet(seq) \cup {t}
    BY <2>1, <2>4, <2>5, OverOrdered
  <2> QED
    BY <2>1, <2>3, <2>6, LimbsAssumption
<1>7. \A l \in Limbs \ Covers[t] : w[l] = books.worn[l]
  OBVIOUS
<1>8. w \in [Limbs -> Listable]
  BY <1>1, <1>6 DEF Books, Listable
<1> HIDE DEF w, c
<1>9. /\ c \in Books /\ c.worn = w /\ c.wearing = b.wearing \cup {t} /\ c.wearer = b.wearer \cup {t}
      /\ c.place = b.place /\ c.hold = b.hold /\ c.heldin = b.heldin /\ c.holding = b.holding
      /\ c.wield = b.wield /\ c.wielding = b.wielding /\ c.wielder = b.wielder /\ c.slipped = b.slipped
  BY <1>4, <1>5, <1>8 DEF Books, Listable
<1>10. Orderly(b)
  BY <1>1, <1>2, UnholdOrderly
<1>11. t \notin b.holding /\ t \notin b.wielding /\ b.place[t] = "here"
  BY <1>1, <1>2 DEF Unheld, Orderly, Here
<1>12. Agree(c)
  <2>1. \A s \in Tools : s \in c.wearing <=> \E l \in Limbs : s \in ToSet(c.worn[l])
    <3> SUFFICES ASSUME NEW s \in Tools PROVE s \in c.wearing <=> \E l \in Limbs : s \in ToSet(c.worn[l])
      OBVIOUS
    <3>1. s \in b.wearing <=> \E l \in Limbs : s \in ToSet(books.worn[l])
      BY <1>4, <1>10 DEF Orderly, Agree
    <3>2. CASE s = t
      BY <1>1, <1>6, <1>9, <3>2
    <3>3. CASE s # t
      <4>1. \A l \in Limbs : s \in ToSet(c.worn[l]) <=> s \in ToSet(books.worn[l])
        BY <1>6, <1>7, <1>9, <3>3
      <4> QED
        BY <1>9, <3>1, <3>3, <4>1
    <3> QED
      BY <3>2, <3>3
  <2> QED
    BY <1>9, <1>10, <2>1 DEF Orderly, Agree
<1>13. Here(c)
  BY <1>9, <1>10, <1>11 DEF Orderly, Here
<1>14. Usable(c)
  BY <1>9, <1>10 DEF Orderly, Usable
<1>15. Layered(c)
  BY <1>1, <1>6, <1>7, <1>9 DEF Orderly, Layered
<1>16. Orderly(books')
  BY <1>9, <1>12, <1>13, <1>14, <1>15 DEF Orderly, Typed, c
<1> QED
  BY <1>16, BodyStays DEF Wear

\* Into a hand with space, or to the ground.
LEMMA InHandOrderly ==
  ASSUME NEW b, Orderly(b), NEW t \in Tools, t \notin b.holding \cup b.wielding,
         t \in b.wearing => t \in b.slipped, NEW c \in InHand(b, t)
  PROVE  Orderly(c)
<1>1. CASE c = MoveAway(b, t)
  BY <1>1, MoveAwayMoved, MovedOrderly
<1>2. CASE \E h \in Hands : Space(b, h, t) /\ c = AddTool(b, t, h)
  <2>1. PICK h \in Hands \cap sized : c = AddTool(b, t, h)
    BY <1>2 DEF Space
  <2> QED
    BY <2>1, AddToolOrderly
<1> QED
  BY <1>1, <1>2 DEF InHand

\* What remove_tool() leaves of what could be removed: as if it were moved, but here.
Loose(c, t) == Orderly(c) /\ t \notin c.holding \cup c.wielding /\ (t \in c.wearing => t \in c.slipped)

LEMMA RemoveToolLoose ==
  ASSUME NEW b, Orderly(b), NEW t \in Tools, Removable(b, t)
  PROVE  Loose(RemoveTool(b, t), t)
<1> DEFINE r == RemoveTool(b, t)
<1>1. b \in Books
  BY DEF Orderly, Typed
<1>2. CASE b.heldin[t] # None
  <2>1. r = Unhold(b, t)
    BY <1>2 DEF RemoveTool
  <2>2. Unheld(b, r, t)
    BY <1>1, <2>1, UnholdFields
  <2> HIDE DEF r
  <2>3. t \in b.holding /\ t \notin b.wielding /\ (t \in b.wearing => t \in b.slipped)
    BY <1>2 DEF Orderly, Agree, Here
  <2> QED
    BY <2>2, <2>3, UnholdOrderly DEF Loose, Unheld, r
<1>3. CASE b.heldin[t] = None
  <2>1. t \notin b.holding
    BY <1>3 DEF Orderly, Agree
  <2>2. CASE t \in b.wielding
    <3> DEFINE w == [h \in Hands |-> IF b.wield[h] = t /\ h \in sized THEN None ELSE b.wield[h]]
    <3>1. r = [b EXCEPT !.wield = w, !.wielding = b.wielding \ {t}, !.wielder = b.wielder \ {t}]
      BY <1>3, <2>2 DEF RemoveTool
    <3>2. w \in [Hands -> Tools \cup {None}]
      BY <1>1 DEF Books
    <3> HIDE DEF w, r
    <3>3. /\ r \in Books /\ r.wield = w /\ r.wielding = b.wielding \ {t} /\ r.wielder = b.wielder \ {t}
          /\ r.place = b.place /\ r.hold = b.hold /\ r.heldin = b.heldin /\ r.holding = b.holding
          /\ r.worn = b.worn /\ r.wearing = b.wearing /\ r.wearer = b.wearer /\ r.slipped = b.slipped
      BY <1>1, <3>1, <3>2 DEF Books
    <3>4. \A h \in Hands : r.wield[h] = IF b.wield[h] = t THEN None ELSE b.wield[h]
      BY <3>3, LimbsAssumption DEF Orderly, Usable, w
    <3>5. Agree(r)
      <4>1. \A s \in Tools : s \in r.wielding <=> \E h \in Hands : r.wield[h] = s
        BY <3>3, <3>4, LimbsAssumption DEF Orderly, Agree
      <4> QED
        BY <3>3, <4>1 DEF Orderly, Agree
    <3>6. Here(r) /\ Usable(r) /\ Layered(r)
      BY <3>3, <3>4 DEF Orderly, Here, Usable, Layered
    <3>7. t \in b.wearing => t \in b.slipped
      BY <2>2 DEF Orderly, Here
    <3> QED
      BY <2>1, <3>3, <3>5, <3>6, <3>7 DEF Loose, Orderly, Typed, r
  <2>3. CASE t \notin b.wielding /\ t \in b.wearing
    <3> DEFINE w == [l \in Limbs |-> AllBut(b.worn[l], t)]
    <3>1. r = [b EXCEPT !.worn = w, !.wearing = b.wearing \ {t},
                        !.wearer = b.wearer \ {t}, !.slipped = b.slipped \ {t}]
      BY <1>3, <2>3 DEF RemoveTool, Removable
    <3>2. \A l \in Limbs : w[l] \in Listable /\ Ordered(w[l]) /\ ToSet(w[l]) = ToSet(b.worn[l]) \ {t}
      BY WithoutRight DEF KeptRight
    <3>3. w \in [Limbs -> Listable]
      BY <3>2
    <3> HIDE DEF w, r
    <3>4. /\ r \in Books /\ r.worn = w /\ r.wearing = b.wearing \ {t} /\ r.wearer = b.wearer \ {t}
          /\ r.place = b.place /\ r.hold = b.hold /\ r.heldin = b.heldin /\ r.holding = b.holding
          /\ r.wield = b.wield /\ r.wielding = b.wielding /\ r.wielder = b.wielder
          /\ r.slipped = b.slipped \ {t}
      BY <1>1, <3>1, <3>3 DEF Books, Listable
    <3>5. Agree(r)
      <4>1. \A s \in Tools : s \in r.wearing <=> \E l \in Limbs : s \in ToSet(r.worn[l])
        BY <3>2, <3>4 DEF Orderly, Agree
      <4> QED
        BY <3>4, <4>1 DEF Orderly, Agree
    <3>6. Here(r) /\ Usable(r) /\ Layered(r)
      BY <3>2, <3>4 DEF Orderly, Here, Usable, Layered
    <3> QED
      BY <2>1, <2>3, <3>4, <3>5, <3>6 DEF Loose, Orderly, Typed, r
  <2>4. CASE t \notin b.wielding /\ t \notin b.wearing
    BY <1>3, <2>1, <2>4 DEF RemoveTool, Loose
  <2> QED
    BY <2>2, <2>3, <2>4
<1> QED
  BY <1>2, <1>3

LEMMA RemoveCmdsKeep ==
  ASSUME SlotInd, NEW t \in Tools, RemoveCmd(t) \/ UnwieldCmd(t)
  PROVE  SlotInd'
<1> DEFINE r == RemoveTool(books, t)
<1>1. Removable(books, t) /\ books' \in InHand(r, t) /\ UNCHANGED body
  BY DEF RemoveCmd, UnwieldCmd, Removable
<1>2. Loose(r, t)
  BY <1>1, RemoveToolLoose DEF SlotInd
<1> HIDE DEF r
<1>3. Orderly(books')
  BY <1>1, <1>2, InHandOrderly DEF Loose
<1> QED
  BY <1>1, <1>3, BodyStays

LEMMA LeaveHandsKeeps ==
  ASSUME SlotInd, NEW t \in Tools, LeaveHands(t)
  PROVE  SlotInd'
<1>1. books' = MoveAway(books, t) /\ UNCHANGED body /\ Orderly(books)
  BY DEF LeaveHands, SlotInd
<1>2. Orderly(books')
  BY <1>1, MoveAwayMoved, MovedOrderly
<1> QED
  BY <1>1, <1>2, BodyStays

LEMMA DestroyKeeps ==
  ASSUME SlotInd, NEW t \in Tools, Destroy(t)
  PROVE  SlotInd'
<1> DEFINE b == books
           c == books'
           hold == [h \in Hands |-> b.hold[h] \ {t}]
           wield == [h \in Hands |-> IF b.wield[h] = t THEN None ELSE b.wield[h]]
           worn == [l \in Limbs |-> [i \in DOMAIN b.worn[l] |-> IF b.worn[l][i] = t THEN None ELSE b.worn[l][i]]]
<1>1. Orderly(b) /\ b \in Books
  BY DEF SlotInd, Orderly, Typed
<1>2. c = [b EXCEPT !.place[t] = "gone", !.heldin[t] = None, !.hold = hold, !.wield = wield, !.worn = worn,
             !.holding = b.holding \ {t}, !.wielding = b.wielding \ {t}, !.wearing = b.wearing \ {t},
             !.wielder = b.wielder \ {t}, !.wearer = b.wearer \ {t}, !.slipped = b.slipped \ {t}]
  BY DEF Destroy
<1>3. hold \in [Hands -> SUBSET Tools] /\ wield \in [Hands -> Tools \cup {None}]
  BY <1>1 DEF Books
<1>4. ASSUME NEW l \in Limbs
      PROVE  worn[l] \in Listable /\ Ordered(worn[l]) /\ ToSet(worn[l]) \ {None} = ToSet(b.worn[l]) \ {t, None}
  <2> DEFINE p == b.worn[l]
             q == worn[l]
             n == Len(p)
  <2>1. p \in Listable /\ Ordered(p)
    BY <1>1 DEF Books, Listable, Orderly, Layered
  <2>2. n \in Nat /\ DOMAIN p = 1 .. n /\ \A i \in 1 .. n : p[i] \in Tools \cup {None}
    BY <2>1 DEF Listable
  <2>3. q = [i \in DOMAIN p |-> IF p[i] = t THEN None ELSE p[i]]
    OBVIOUS
  <2> HIDE DEF p, q, n, worn, hold, wield
  <2>4. DOMAIN q = 1 .. n /\ \A i \in 1 .. n : q[i] = IF p[i] = t THEN None ELSE p[i]
    BY <2>2, <2>3
  <2>5. q \in Listable
    BY <2>2, <2>3 DEF Listable
  <2>6. Ordered(q)
    BY <2>1, <2>2, <2>4 DEF Ordered
  <2>7. ToSet(q) \ {None} = ToSet(p) \ {t, None}
    BY <2>2, <2>4, LimbsAssumption DEF ToSet
  <2> QED
    BY <2>5, <2>6, <2>7 DEF p, q
<1>5. worn \in [Limbs -> Listable]
  BY <1>4
<1> HIDE DEF hold, wield, worn, c
<1>6. /\ c \in Books /\ c.place = [b.place EXCEPT ![t] = "gone"] /\ c.heldin = [b.heldin EXCEPT ![t] = None]
      /\ c.hold = hold /\ c.wield = wield /\ c.worn = worn
      /\ c.holding = b.holding \ {t} /\ c.wielding = b.wielding \ {t} /\ c.wearing = b.wearing \ {t}
      /\ c.wielder = b.wielder \ {t} /\ c.wearer = b.wearer \ {t} /\ c.slipped = b.slipped \ {t}
  BY <1>1, <1>2, <1>3, <1>5 DEF Books, Listable
<1>7. Agree(c)
  <2>1. \A s \in Tools : s \in c.holding <=> c.heldin[s] # None
    BY <1>1, <1>6, LimbsAssumption DEF Orderly, Agree, Books
  <2>2. \A s \in Tools, h \in Hands : s \in c.hold[h] <=> c.heldin[s] = h
    BY <1>1, <1>6, LimbsAssumption DEF Orderly, Agree, Books, hold
  <2>3. \A s \in Tools : s \in c.wielding <=> \E h \in Hands : c.wield[h] = s
    BY <1>1, <1>6, LimbsAssumption DEF Orderly, Agree, wield
  <2>4. \A s \in Tools : s \in c.wearing <=> \E l \in Limbs : s \in ToSet(c.worn[l])
    <3>1. \A s \in Tools, l \in Limbs : s \in ToSet(worn[l]) <=> s # t /\ s \in ToSet(b.worn[l])
      BY <1>4, LimbsAssumption
    <3> QED
      BY <1>1, <1>6, <3>1 DEF Orderly, Agree
  <2> QED
    BY <1>1, <1>6, <2>1, <2>2, <2>3, <2>4 DEF Orderly, Agree
<1>8. Here(c)
  BY <1>1, <1>6 DEF Orderly, Here, Books
<1>9. Usable(c) /\ Layered(c)
  BY <1>1, <1>4, <1>6 DEF Orderly, Usable, Layered, hold, wield
<1>10. Orderly(books')
  BY <1>6, <1>7, <1>8, <1>9 DEF Orderly, Typed, c
<1> QED
  BY <1>10, BodyStays DEF Destroy

\* What is healed can be used.
LEMMA HealsKeep ==
  ASSUME SlotInd, NEW l \in Limbs, UNCHANGED books, sized' \in {sized, sized \cup {l}},
         wounds' \in {wounds, [wounds EXCEPT ![l] = "none"]}
  PROVE  SlotInd'
<1>1. Usable(books)'
  BY DEF SlotInd, Orderly, Usable
<1>2. Orderly(books)'
  BY <1>1 DEF SlotInd, Orderly, Typed, Agree, Here, Layered, Ordered
<1>3. wounds' \in [Limbs -> WoundStates] /\ sized' \subseteq Limbs
  BY DEF SlotInd, WoundStates
<1> QED
  BY <1>2, <1>3 DEF SlotInd

LEMMA SlotStart == SlotInit => SlotInd
<1> SUFFICES ASSUME SlotInit PROVE SlotInd
  OBVIOUS
<1>1. books \in Books
  BY DEF SlotInit, Books
<1>2. /\ books.holding = {} /\ books.wielding = {} /\ books.wearing = {} /\ books.wielder = {}
      /\ books.wearer = {} /\ books.slipped = {} /\ books.hold = [h \in Hands |-> {}]
      /\ books.heldin = [t \in Tools |-> None] /\ books.wield = [h \in Hands |-> None]
      /\ books.worn = [l \in Limbs |-> <<>>]
  BY DEF SlotInit
<1>3. Agree(books)
  BY <1>2, LimbsAssumption DEF Agree, ToSet
<1>4. Here(books) /\ Usable(books) /\ Layered(books)
  BY <1>2 DEF Here, Usable, Layered, Ordered
<1>5. sized \subseteq Limbs /\ wounds \in [Limbs -> WoundStates]
  BY DEF SlotInit, WoundStates
<1> QED
  BY <1>1, <1>3, <1>4, <1>5 DEF SlotInd, Orderly, Typed

LEMMA SlotStep == SlotInd /\ [SlotNext]_slotVars => SlotInd'
<1> SUFFICES ASSUME SlotInd, [SlotNext]_slotVars PROVE SlotInd'
  OBVIOUS
<1>1. CASE UNCHANGED slotVars
  BY <1>1, BodyStays DEF slotVars, body, SlotInd
<1>2. ASSUME NEW t \in Tools, NEW h \in Hands, Grasp(t, h) PROVE SlotInd'
  BY <1>2, GraspKeeps
<1>3. ASSUME NEW t \in Tools,
             Wield(t) \/ Wear(t) \/ RemoveCmd(t) \/ UnwieldCmd(t) \/ LeaveHands(t) \/ Destroy(t)
      PROVE  SlotInd'
  BY <1>3, WieldKeeps, WearKeeps, RemoveCmdsKeep, LeaveHandsKeeps, DestroyKeeps
<1>4. ASSUME NEW l \in Limbs, QueryWorn(l) PROVE SlotInd'
  <2>1. Orderly(books')
    BY <1>4, CleanedOrderly DEF QueryWorn, SlotInd
  <2> QED
    BY <1>4, <2>1, BodyStays DEF QueryWorn
<1>5. ASSUME NEW l \in Limbs, Mend(l) \/ Bandage(l) \/ RemoveBandage(l) \/ ResolveBandage(l) PROVE SlotInd'
  BY <1>5, HealsKeep DEF Mend, Bandage, RemoveBandage, ResolveBandage, Healed
<1>6. ASSUME NEW l \in Limbs, NEW lost \in BOOLEAN, SetWound(l, lost) PROVE SlotInd'
  BY <1>6, SetWoundKeeps
<1>7. CASE SlotNext
  BY <1>2, <1>3, <1>4, <1>5, <1>6, <1>7 DEF SlotNext
<1> QED
  BY <1>1, <1>7

\* Whatever is held, wielded or worn is here, in one way and in limbs that can be used, the
\* lists of slot.c agree on it, and outer layers come before inner ones.
THEOREM ToolsAlwaysInUse == SlotSpec => []InUse
<1>1. SlotInd => InUse
  <2> SUFFICES ASSUME SlotInd PROVE InUse
    OBVIOUS
  <2>1. BooksAgree
    BY DEF SlotInd, Orderly, Typed, Agree, BooksAgree
  <2>2. Carried
    BY DEF SlotInd, Orderly, Here, Carried
  <2>3. NothingInLostHands /\ LayersInOrder
    BY DEF SlotInd, Orderly, Usable, Layered, Ordered, NothingInLostHands, LayersInOrder
  <2> QED
    BY <2>1, <2>2, <2>3 DEF InUse
<1> QED
  BY <1>1, SlotStart, SlotStep, PTL DEF SlotSpec
==============================================================================
