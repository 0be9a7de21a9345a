------------------------------- MODULE Reload -------------------------------
(***************************************************************************)
(* What a player had comes back in the login room: get_reload_data() of    *)
(* base/player.c wrote the things and, behind each, what was inside or     *)
(* attached; load_inventory() of config/login/login_room.c makes them in   *)
(* batches of a few cells with call_outs for the rest and for the contents *)
(* of each, counts the call_outs, and lets the player go when none is      *)
(* left.  Things that cannot be made, or go at once, are part of it.       *)
(***************************************************************************)
EXTENDS Integers, FiniteSets, SequencesExt

CONSTANTS Things,     \* What the player had.
          LoginRoom,  \* The login room, or for a coder the player's hands.
          Nowhere,    \* Not made yet, or gone.
          Inventories \* What may have been saved: top, and inside of each thing.

ASSUME PlacesAssumption == {LoginRoom, Nowhere} \cap Things = {} /\ LoginRoom # Nowhere

\* Data are written behind the thing they belong to, from the outside inwards: each thing
\* once, in the list of the player or of a thing that is saved, and nothing within itself.
Nested(s) ==
  /\ s.top \in Seq(Things) /\ s.inside \in [Things -> Seq(Things)]
  /\ IsInjective(s.top) /\ \A t \in Things : IsInjective(s.inside[t])
  /\ \A t \in Things : ToSet(s.inside[t]) \cap ToSet(s.top) = {}
  /\ \A t, u \in Things : t # u => ToSet(s.inside[t]) \cap ToSet(s.inside[u]) = {}
  /\ \A t \in Things : s.inside[t] # <<>> =>
       t \in ToSet(s.top) \/ \E u \in Things : t \in ToSet(s.inside[u])
  /\ \A A \in SUBSET Things : A # {} => \E t \in A : \A u \in A : t \notin ToSet(s.inside[u])

ASSUME InventoriesAssumption == \A s \in Inventories : Nested(s)

VARIABLES auto_load,  \* What was saved.
          fate,       \* Can a thing be cloned, and its data restored?
          coder,      \* g_lev.
          finish,     \* "pending call_outs", or -1.
          pending,    \* The call_outs of create_inventory() and move_to_container().
          where,      \* Where each thing is.
          made,       \* History: how often it was made.
          vanished,   \* History: things that went away by themselves.
          pl          \* The player: waiting here, getting dressed, gone on, or gone.

loadVars == <<auto_load, fate, coder, finish, pending, where, made, vanished, pl>>
saved == <<auto_load, fate, coder>>

Fates == {"fine", "no clone", "no init"}
Contents(t) == auto_load.inside[t]
SavedThings == ToSet(auto_load.top) \cup UNION {ToSet(Contents(t)) : t \in Things}

-----------------------------------------------------------------------------
\* A thing takes two cells, its file and its data, and a third for its contents.
Cell(s, k) == 2 * (k - 1) + Cardinality({j \in 1 .. k - 1 : Contents(s[j]) # <<>>})

\* The test i > 5: how many things of s are made in one task.
Batch(s) == Cardinality({k \in DOMAIN s : Cell(s, k) <= 5})

\* inv[i..]
Rest(s) == SubSeq(s, Batch(s) + 1, Len(s))

\* ob when the contents of the k-th thing are met: the thing, nothing when its data were
\* refused and it was removed, the one before when it could not be cloned.
Holder(s, k) ==
  LET cloned == {j \in 1 .. k : fate[s[j]] # "no clone"}
  IN  IF cloned = {} \/ fate[s[Max(cloned)]] = "no init" THEN Nowhere ELSE s[Max(cloned)]

\* The call_outs that a batch of s, made into a place, leaves.
CallOutsFor(place, s) ==
  {[into |-> Holder(s, k), things |-> Contents(s[k])] :
     k \in {j \in 1 .. Batch(s) : Contents(s[j]) # <<>> /\ Holder(s, j) # Nowhere}}
  \cup (IF Rest(s) = <<>> THEN {} ELSE {[into |-> place, things |-> Rest(s)]})

\* Mutant: the call_out for the rest is not counted.
CountedContents(place, s) == Cardinality({c \in CallOutsFor(place, s) : c.into # place})

\* What is added to finish.
Counted(place, s) == Cardinality(CallOutsFor(place, s))

\* Mutant: the last call_out is waited for in vain.
NoneLeftTwice(n) == n < 0
NoneLeft(n) == n < 1

-----------------------------------------------------------------------------
\* finish(): coders go on by themselves, others get dressed first.
LetGo == finish' = -1 /\ pl' = IF coder THEN "arda" ELSE "dressing"

\* create_inventory() and move_to_container(), for a place that exists: a call without
\* a rest looks whether it was the last.
Make(place, s, others, counter) ==
  LET new == {s[k] : k \in {j \in 1 .. Batch(s) : fate[s[j]] # "no clone"}}
      n == counter + Counted(place, s)
  IN  /\ where' = [t \in Things |-> IF t \in new /\ fate[t] = "fine" THEN place ELSE where[t]]
      /\ made' = [t \in Things |-> made[t] + IF t \in new THEN 1 ELSE 0]
      /\ pending' = others \cup CallOutsFor(place, s)
      /\ IF Rest(s) = <<>> /\ NoneLeft(n) THEN LetGo ELSE finish' = n /\ pl' = "waiting"

LoadInit ==
  /\ auto_load \in Inventories /\ fate \in [Things -> Fates] /\ coder \in BOOLEAN
  /\ finish = 0 /\ pending = {} /\ vanished = {} /\ pl = "entering"
  /\ where = [t \in Things |-> Nowhere] /\ made = [t \in Things |-> 0]

\* load_inventory(): who had nothing goes on at once.
LoadInventory ==
  /\ pl = "entering"
  /\ \/ auto_load.top = <<>> /\ pl' = "arda" /\ UNCHANGED <<finish, pending, where, made>>
     \/ auto_load.top # <<>> /\ Make(LoginRoom, auto_load.top, {}, 0)
  /\ UNCHANGED <<saved, vanished>>

Existing == {LoginRoom} \cup {t \in Things : where[t] # Nowhere}

\* A call_out: the room goes with its player, a place that is gone is passed over without
\* a look whether this was the last.
CallOut(c) ==
  /\ \/ pl = "gone" /\ pending' = {} /\ UNCHANGED <<finish, where, made, pl>>
     \/ /\ pl # "gone" /\ c.into \notin Existing
        /\ finish' = finish - 1 /\ pending' = pending \ {c}
        /\ UNCHANGED <<where, made, pl>>
     \/ /\ pl # "gone" /\ c.into \in Existing
        /\ Make(c.into, c.things, pending \ {c}, finish - 1)
  /\ UNCHANGED <<saved, vanished>>

\* A thing goes away by itself, with what is in it by then.
Within(t) ==
  LET In[n \in Nat] == IF n = 0 THEN {t}
                       ELSE LET in == In[n - 1] IN in \cup {u \in Things : where[u] \in in}
  IN  In[Cardinality(Things)]
Vanish(t) ==
  /\ pl = "waiting" /\ vanished = {} /\ where[t] # Nowhere
  /\ vanished' = Within(t)
  /\ where' = [u \in Things |-> IF u \in Within(t) THEN Nowhere ELSE where[u]]
  /\ UNCHANGED <<saved, finish, pending, made, pl>>

\* The player is removed by somebody else.
PlayerGoes ==
  /\ pl = "waiting" /\ pl' = "gone"
  /\ UNCHANGED <<saved, finish, pending, where, made, vanished>>

\* catch_all_cmd(): quitting is possible at any time, entering when nothing is pending.
QuitCmd ==
  /\ pl \in {"waiting", "dressing"} /\ pl' = "gone" /\ pending' = {}
  /\ UNCHANGED <<saved, finish, where, made, vanished>>
EnterCmd ==
  /\ pl = "dressing" /\ finish = -1 /\ pl' = "arda"
  /\ UNCHANGED <<saved, finish, pending, where, made, vanished>>

LoadNext ==
  \/ LoadInventory \/ PlayerGoes \/ QuitCmd \/ EnterCmd
  \/ \E c \in pending : CallOut(c)
  \/ \E t \in Things : Vanish(t)

\* The driver calls each pending call_out.
LoadSpec == LoadInit /\ [][LoadNext]_loadVars /\ WF_loadVars(\E c \in pending : CallOut(c))

-----------------------------------------------------------------------------
(* Properties *)

\* The place a thing was saved in.
Place(t) ==
  IF t \in ToSet(auto_load.top) THEN LoginRoom
  ELSE CHOOSE u \in Things : t \in ToSet(Contents(u))

\* A thing and all it was saved in can be made and did not go away.
Intact[t \in SavedThings] ==
  fate[t] = "fine" /\ t \notin vanished /\ (Place(t) # LoginRoom => Intact[Place(t)])

\* When the player is let go nothing is on its way any more, and everything he had that
\* can still be is where it was saved, whatever else could not be made: what comes
\* later would be lost with the room ("Make sure you forgot nothing").
LetGoLast ==
  pl \in {"dressing", "arda"} =>
    /\ pending = {}
    /\ \A t \in Things : t \in SavedThings /\ Intact[t] => where[t] = Place(t)

\* Nobody gets a thing twice, however the batches and the call_outs are cut.
OnceEach == \A t \in Things : made[t] <= 1

\* Who is asked to be patient is not so in vain: unless something went away, a call_out
\* is to come, and it finds the place that it fills (move_to_container() would return at
\* once otherwise, and be the last without anybody noticing).
NotInVain == pl = "waiting" /\ vanished = {} => \E c \in pending : c.into \in Existing

\* Nothing is lost and nothing doubled, and nobody left waiting.
Restored == LetGoLast /\ OnceEach /\ NotInVain

\* A player who is asked to be patient is let go in the end, unless something went away
\* that was to be filled (move_to_container() then returns without finish()).
PatienceEnds == (pl = "waiting") ~> (pl # "waiting" \/ vanished # {})
=============================================================================
