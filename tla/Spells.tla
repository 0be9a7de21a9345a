------------------------------- MODULE Spells -------------------------------
(***************************************************************************)
(* The concentration of one caster: spells that are uttered and take       *)
(* effect later, effects that last while the caster concentrates, and what *)
(* disturbs both (lib/spell/spell_base.c, cmd/check_state.c, the events of *)
(* base/living/combat.c).  One state, CONCENTRATE, serves all of them; a   *)
(* number, SPELL_CODE, tells one cast from another, and CONCENTRATE_DATA   *)
(* tells which effect the state is for.  All spells have one target, the   *)
(* same, whom none affects twice; the caster is not destructed.            *)
(***************************************************************************)
EXTENDS Naturals

CONSTANTS Charms,   \* The spells whose effect lasts while the caster concentrates.
          NoCharm,
          MaxCode   \* How far SPELL_CODE is counted.

ASSUME SpellAssumption == NoCharm \notin Charms /\ MaxCode \in Nat

VARIABLES
  concentrate,  \* The state CONCENTRATE.
  spell_code,   \* SPELL_CODE.
  casting,      \* The pending call_outs of delay_spell().
  lasting,      \* The clones of spells that are there, each with a call_out of concentrate().
  data,         \* The effect in CONCENTRATE_DATA.
  kept          \* History: the code of a cast through which the caster concentrated so far, or 0.

spellVars == <<concentrate, spell_code, casting, lasting, data, kept>>

SpellTypeOK ==
  /\ concentrate \in BOOLEAN /\ spell_code \in 0 .. MaxCode /\ kept \in 0 .. spell_code
  /\ casting \subseteq [charm : Charms, code : 1 .. spell_code]
  /\ lasting \subseteq Charms /\ data \in Charms \cup {NoCharm}

SpellInit ==
  /\ concentrate = FALSE /\ spell_code = 0 /\ kept = 0
  /\ casting = {} /\ lasting = {} /\ data = NoCharm

-----------------------------------------------------------------------------
\* Mutant: delet_state(CONCENTRATE), which no object has, as in shac.c.
RemoveSpellMisspelt(s) ==
  /\ lasting' = lasting \ {s} /\ data' = NoCharm
  /\ UNCHANGED <<concentrate, kept>>

\* remove_spell() of the spells, like that of covre.c: whatever the caster concentrates
\* on by now.
RemoveSpell(s) ==
  /\ lasting' = lasting \ {s}
  /\ concentrate' = FALSE /\ data' = NoCharm /\ kept' = 0

\* The effect that is concentrated on is told to stop.
EffectStops ==
  /\ lasting' = lasting \ {data}
  /\ data' = IF data \in lasting THEN NoCharm ELSE data

CodeAfter == IF concentrate THEN spell_code + 1 ELSE spell_code

\* check_state() for a command that does not go with CONCENTRATE, a spell that is cast at
\* once or cannot be uttered among them: what is being cast is lost.
SpellCommand ==
  /\ concentrate /\ CodeAfter <= MaxCode
  /\ EffectStops /\ concentrate' = FALSE /\ kept' = 0
  /\ spell_code' = CodeAfter /\ UNCHANGED casting

\* cast() and do_spell(), after the same check_state().
Cast(s) ==
  /\ CodeAfter < MaxCode
  /\ IF concentrate THEN EffectStops ELSE UNCHANGED <<lasting, data>>
  /\ concentrate' = TRUE
  /\ spell_code' = CodeAfter + 1 /\ kept' = CodeAfter + 1
  /\ casting' = casting \cup {[charm |-> s, code |-> CodeAfter + 1]}

\* Mutant: delay_spell() does not look at the code.
StillCastAnyhow(c) == concentrate

\* The test at the beginning of delay_spell().
StillCast(c) == concentrate /\ spell_code = c.code

\* spell_now() fails for want of a target or of success, finds the target affected
\* already, or the effect begins, with start_concentrate().
SpellNow(c) ==
  \/ /\ concentrate' = FALSE /\ kept' = 0 /\ UNCHANGED <<lasting, data>>
  \/ /\ c.charm \notin lasting
     /\ lasting' = lasting \cup {c.charm} /\ data' = c.charm
     /\ concentrate' = TRUE /\ kept' = 0

DelaySpell(c) ==
  /\ casting' = casting \ {c} /\ UNCHANGED spell_code
  /\ IF StillCast(c) THEN SpellNow(c) ELSE UNCHANGED <<concentrate, lasting, data, kept>>

\* concentrate(), each 15 seconds: near, the target is there and near enough.
Concentrate(s, near) ==
  /\ IF concentrate /\ near THEN UNCHANGED <<concentrate, lasting, data, kept>> ELSE RemoveSpell(s)
  /\ UNCHANGED <<spell_code, casting>>

\* The command cancel, which goes with everything.
CancelSpell(s) == RemoveSpell(s) /\ UNCHANGED <<spell_code, casting>>

\* E_got_hit() that disturbs, and do_die(): the state is taken away and nothing else is
\* told.  With an effect in CONCENTRATE_DATA, E_got_hit() then fails, as that is an array.
Struck ==
  /\ concentrate /\ concentrate' = FALSE /\ kept' = 0
  /\ UNCHANGED <<spell_code, casting, lasting, data>>

SpellNext ==
  \/ SpellCommand \/ Struck
  \/ \E s \in Charms : Cast(s)
  \/ \E c \in casting : DelaySpell(c)
  \/ \E s \in lasting : CancelSpell(s) \/ \E near \in BOOLEAN : Concentrate(s, near)

SpellSpec == SpellInit /\ [][SpellNext]_spellVars

-----------------------------------------------------------------------------
\* A spell takes effect only if its caster concentrated on it, undisturbed, from the
\* moment it was uttered: the state may be back by then, for another spell or another
\* effect, but the call_out of the one that was disturbed does not take it for its own.
OnlyKeptSpellsWork ==
  [][\A c \in casting \ casting', s \in lasting' \ lasting : s = c.charm /\ c.code = kept]_spellVars

\* Who concentrates does so on something a command can end: on a spell that is still to
\* come, or on the effect in CONCENTRATE_DATA.  An effect whose concentration a blow broke
\* may live on beside it for the next spell's sake, but never keeps the state alone.
SomethingInMind ==
  concentrate => \/ \E c \in casting : c.code = spell_code
                 \/ data \in lasting
=============================================================================
