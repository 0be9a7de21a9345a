------------------------------ MODULE Session ------------------------------
(***************************************************************************)
(* Connections, bodies and who acts through which body.                    *)
(*                                                                         *)
(* A connection object (kernel/net/user.c) knows the object its input goes *)
(* to (player) and, while that is a possessed living, the body to return   *)
(* to (splayer).  A living knows the connection its output goes to (user,  *)
(* base/living.c).  The two are set by different calls: logging in and     *)
(* exec() (login.c, simfun.c), possession() and break_possession()         *)
(* (comm.c), and losing the link (user.c, player.c).  A player without a   *)
(* link turns to stone after ten seconds and crumbles to dust a minute     *)
(* later, both by call_outs.                                               *)
(*                                                                         *)
(* Every action is one task of the virtual machine.  A call on nil is a    *)
(* runtime error that ends the task; what it did before stays.  A          *)
(* reference to a destructed object is nil.  An operator on a state s that *)
(* stands for a call yields the set of the states the call may leave.      *)
(***************************************************************************)
EXTENDS Naturals, FiniteSets

CONSTANTS
  Users,       \* connection objects; one that is gone may be used again
  Players,     \* the bodies of players, one for each name
  Npcs,        \* other livings; they always exist
  ForceLevel,  \* force level of every living, 0 without access data
  Admins,      \* players with the level _ADMIN
  Login,       \* stands for the login object that serves a connection
  Nil,         \* the LPC value nil
  Victims,     \* livings the command 'possess' is used on
  SnoopUsed,   \* whether the command 'snoop' is used
  RoomsLost,   \* whether load_room() may fail for the room of a statue
  MaxCrumble   \* bound: pending move_statue() call_outs of one player

Livings == Players \cup Npcs

ASSUME SessionAssumption ==
  /\ Users \cap Livings = {} /\ Players \cap Npcs = {}
  /\ Login \notin Users \cup Livings
  /\ Nil \notin Users \cup Livings \cup {Login}
  /\ ForceLevel \in [Livings -> Nat]
  /\ Admins \subseteq {p \in Players : ForceLevel[p] > 0}
  /\ Victims \subseteq Livings
  /\ SnoopUsed \in BOOLEAN /\ RoomsLost \in BOOLEAN
  /\ MaxCrumble \in Nat \ {0}

VARIABLES
  conn,     \* connections that are open, users()
  uobj,     \* connection objects that exist
  player,   \* user.c: where input of a connection goes
  splayer,  \* user.c: the saved player
  snooper,  \* user.c: the connection that sees what this one sees
  user,     \* living.c: where output of a living goes
  body,     \* players whose body exists
  list,     \* statistics.c: the people list
  delay,    \* players with a pending call_out of delay_linkdead()
  stone,    \* player.c: is_linkdead
  haunts,   \* the property LIVE_POSSESSED
  crumble,  \* number of pending call_outs of move_statue()
  place,    \* where a body is: in the "world" or in a "statue" room
  origin    \* the property STATUE_LOCATION

vars == <<conn, uobj, player, splayer, snooper, user, body, list, delay, stone,
          haunts, crumble, place, origin>>

Now == [conn |-> conn, uobj |-> uobj, player |-> player, splayer |-> splayer,
        snooper |-> snooper, user |-> user, body |-> body, list |-> list,
        delay |-> delay, stone |-> stone, haunts |-> haunts]

\* The task leaves the connections and the livings in the state s.
Becomes(s) ==
  /\ conn' = s.conn /\ uobj' = s.uobj
  /\ player' = s.player /\ splayer' = s.splayer /\ snooper' = s.snooper
  /\ user' = s.user /\ body' = s.body /\ list' = s.list
  /\ delay' = s.delay /\ stone' = s.stone /\ haunts' = s.haunts

Statues == <<crumble, place, origin>>

\* The task ends in s and moved no statue.  With a body go its call_outs and
\* properties.
EndsIn(s) ==
  LET kept(p, v, initial) == IF p \in body \ s.body THEN initial ELSE v IN
  /\ Becomes(s)
  /\ crumble' = [p \in Players |-> kept(p, crumble[p], 0)]
  /\ place'   = [p \in Players |-> kept(p, place[p], "world")]
  /\ origin'  = [p \in Players |-> kept(p, origin[p], Nil)]

MayForce(a, x) == ForceLevel[a] > ForceLevel[x]
IsCoder(a) == ForceLevel[a] > 0

(***************************************************************************)
(* Destruction.                                                            *)
(***************************************************************************)

Without(f, o) == [x \in DOMAIN f |-> IF f[x] = o THEN Nil ELSE f[x]]

\* destruct_object() of a connection object, which closes its connection.
DestructUser(s, u) ==
  [s EXCEPT !.conn    = s.conn \ {u},
            !.uobj    = s.uobj \ {u},
            !.player  = [s.player EXCEPT ![u] = Nil],
            !.splayer = [s.splayer EXCEPT ![u] = Nil],
            !.snooper = [Without(s.snooper, u) EXCEPT ![u] = Nil],
            !.user    = Without(s.user, u)]

DestructBody(s, b) ==
  [s EXCEPT !.body    = s.body \ {b},
            !.player  = Without(s.player, b),
            !.splayer = Without(s.splayer, b),
            !.user    = [s.user EXCEPT ![b] = Nil],
            !.list    = s.list \ {b},
            !.delay   = s.delay \ {b},
            !.stone   = s.stone \ {b},
            !.haunts  = [s.haunts EXCEPT ![b] = Nil]]

(***************************************************************************)
(* Whose input and whose output.                                           *)
(***************************************************************************)

\* set_user(): a player accepts only a connection whose input it gets.
SetUser(s, b, u) ==
  IF b \in Players /\ u # Nil /\ s.player[u] # b THEN s
  ELSE [s EXCEPT !.user = [s.user EXCEPT ![b] = u]]

\* switch_player()
SwitchPlayer(s, u, new) ==
  [s EXCEPT !.splayer = [s.splayer EXCEPT ![u] = s.player[u]],
            !.player  = [s.player EXCEPT ![u] = new]]

\* switch_player() and _F_reset_splayer(): back into a body.
Return(s, u, new) ==
  [s EXCEPT !.splayer = [s.splayer EXCEPT ![u] = Nil],
            !.player  = [s.player EXCEPT ![u] = new]]

\* The connections break_possession() may take for that of the possessed: one
\* of users() whose saved player it is, in no particular order.
Evicted(s, x) ==
  LET us == {u \in s.conn : s.splayer[u] = x} IN IF us = {} THEN {Nil} ELSE us

\* break_possession() does something: the breaker may force the possessed, and
\* the possessed has the connection of a demon.
CanBreak(s, x, a) ==
  MayForce(a, x) /\ s.user[x] # Nil /\ s.splayer[s.user[x]] # Nil

\* break_possession(): the demon's connection (du) returns to the demon's body,
\* that of the possessed, if it has one still, to the possessed.
BreakPossession(s, x, a) ==
  IF ~CanBreak(s, x, a) THEN {s}
  ELSE LET du == s.user[x]
           demon == s.splayer[du]
       IN  {IF u = Nil
            THEN SetUser(SetUser(Return(s, du, demon), demon, du), x, Nil)
            ELSE LET t == Return(Return(s, u, x), du, demon) IN
                 SetUser(SetUser([t EXCEPT !.snooper = [t.snooper EXCEPT ![du] = Nil]], x, u),
                         demon, du)
            : u \in Evicted(s, x)}

\* Mutant: possession() leaves the demon's body its connection.
PossessionBoth(s, w, by) ==
  IF ~MayForce(by, w) \/ s.user[w] # Nil THEN s
  ELSE SetUser(SwitchPlayer(s, s.user[by], w), w, s.user[by])

\* possession() of w by a player with the connection du: the connection of w
\* is left without a body and sees what the demon does.
Possession(s, w, by) ==
  LET du == s.user[by]
      wu == s.user[w]
  IN  IF ~MayForce(by, w) THEN s
      ELSE IF wu = Nil
      THEN SetUser(SetUser(SwitchPlayer(s, du, w), w, du), by, Nil)
      ELSE IF s.splayer[wu] # Nil \/ s.snooper[wu] = du THEN s
      ELSE LET t == SwitchPlayer(SwitchPlayer(s, wu, Nil), du, w) IN
           SetUser(SetUser([t EXCEPT !.snooper = [t.snooper EXCEPT ![du] = wu]], w, du), by, Nil)

(***************************************************************************)
(* Losing the link.                                                        *)
(***************************************************************************)

\* Mutants: set_linkdead(1) of a player forgets the call_out, or starts one for
\* a statue too.
SetLinkdeadNoTimer(s, b) == {s}

SetLinkdeadAgain(s, b) == IF b \in Players THEN {[s EXCEPT !.delay = s.delay \cup {b}]} ELSE {s}

\* set_linkdead(1).  An npc notes for its demon that it was possessed; a player
\* is about to turn to stone, and if a demon's link was lost, is freed.
SetLinkdead(s, b) ==
  IF b \in Npcs
  THEN LET du == s.user[b]
           d  == IF du = Nil THEN Nil ELSE s.splayer[du]
       IN  {IF d \in Players THEN [s EXCEPT !.haunts = [s.haunts EXCEPT ![d] = b]] ELSE s}
  ELSE IF b \in Players /\ b \notin s.stone \cup s.delay
  THEN LET t  == [s EXCEPT !.delay = s.delay \cup {b}]
           du == s.user[b]
       IN  IF du # Nil /\ s.splayer[du] # Nil THEN BreakPossession(t, b, s.splayer[du])
           ELSE {t}
  ELSE {s}

\* Mutant: the connection object of a lost link stays, without a body.
CloseOwnClears(s, u) ==
  {[t EXCEPT !.player = [t.player EXCEPT ![u] = Nil]] :
     t \in SetLinkdead([s EXCEPT !.list = s.list \ {s.player[u]}], s.player[u])}

\* The second half of close(), for the body a connection belongs to: nothing
\* more than an error if there is none.
CloseOwn(s, u) ==
  IF s.player[u] = Nil THEN {s}
  ELSE {DestructUser(t, u) :
          t \in SetLinkdead([s EXCEPT !.list = s.list \ {s.player[u]}], s.player[u])}

\* Mutant: close() takes the possessed for the one that leaves.
CloseVictim(s, u) ==
  IF s.splayer[u] = Nil /\ s.player[u] = Nil THEN {DestructUser(s, u)} ELSE CloseOwn(s, u)

\* close(): if a possessed living is left behind it goes first.
Close(s, u) ==
  IF s.splayer[u] = Nil
  THEN IF s.player[u] = Nil THEN {DestructUser(s, u)} ELSE CloseOwn(s, u)
  ELSE IF s.player[u] = Nil THEN {s}
  ELSE UNION {CloseOwn([t EXCEPT !.player = [t.player EXCEPT ![u] = t.splayer[u]]], u) :
                t \in SetLinkdead(s, s.player[u])}

(***************************************************************************)
(* The tasks.                                                              *)
(***************************************************************************)

Init ==
  /\ conn = {} /\ uobj = {}
  /\ player = [u \in Users |-> Nil] /\ splayer = [u \in Users |-> Nil]
  /\ snooper = [u \in Users |-> Nil]
  /\ user = [l \in Livings |-> Nil]
  /\ body = {} /\ list = {} /\ delay = {} /\ stone = {}
  /\ haunts = [p \in Players |-> Nil]
  /\ crumble = [p \in Players |-> 0]
  /\ place = [p \in Players |-> "world"]
  /\ origin = [p \in Players |-> Nil]

\* open(): a new connection is served by a login object.
Connect(u) ==
  /\ u \notin uobj
  /\ conn' = conn \cup {u} /\ uobj' = uobj \cup {u}
  /\ player' = [player EXCEPT ![u] = Login]
  /\ UNCHANGED <<splayer, snooper, user, body, list, delay, stone, haunts, Statues>>

\* The login object goes, and its connection with it: banished, idle, refused.
LoginEnds(u) ==
  /\ player[u] = Login
  /\ EndsIn(DestructUser(Now, u))

\* exec() of a connection into the body p: a connection p has is cut first.
\* Its disconnect() names its player, so it fails for one without a player.
CanTake(s, p) == s.user[p] # Nil => s.player[s.user[p]] # Nil

\* Mutant: the old connection of the body is left alone.
ExecKeepsOld(s, u, p) ==
  SetUser([s EXCEPT !.player = [s.player EXCEPT ![u] = p]], p, u)

Exec(s, u, p) ==
  LET t == IF s.user[p] = Nil THEN s ELSE DestructUser(s, s.user[p]) IN
  SetUser([t EXCEPT !.player = [t.player EXCEPT ![u] = p]], p, u)

Haunt(s, p) == IF s.haunts[p] = Nil THEN s ELSE Possession(s, s.haunts[p], p)

\* enter_game() of the login object, after the password, into a new body.
EnterNew(u, p) ==
  /\ player[u] = Login /\ p \notin body
  /\ EndsIn(Exec([Now EXCEPT !.body = body \cup {p}, !.list = list \cup {p}], u, p))

\* The same into the body p still has, with set_linkdead(0): a statue is
\* brought back to its room and turns alive, and a demon to its victim.
EnterOld(u, p) ==
  /\ player[u] = Login /\ p \in body /\ CanTake(Now, p)
  /\ LET s == Exec([Now EXCEPT !.list = list \cup {p}], u, p) IN
     \/ /\ p \notin stone
        /\ EndsIn(Haunt(s, p))
     \/ /\ p \in stone
        /\ Becomes(Haunt([s EXCEPT !.stone = s.stone \ {p}], p))
        /\ place' = [place EXCEPT ![p] = IF origin[p] = Nil THEN @ ELSE origin[p]]
        /\ origin' = [origin EXCEPT ![p] = Nil]
        /\ UNCHANGED crumble
     \/ /\ RoomsLost /\ p \in stone /\ origin[p] # Nil
        /\ EndsIn(s)

\* The driver calls close() when the link is gone.  The connection is closed
\* then, also if close() fails.
LoseLink(u) ==
  /\ u \in conn
  /\ \E s \in Close([Now EXCEPT !.conn = conn \ {u}], u) : EndsIn(s)

\* Mutant: delay_linkdead() does not look for a link.
DelayLinkdeadAnyway(b) ==
  /\ b \in delay /\ b \notin stone /\ crumble[b] < MaxCrumble
  /\ delay' = delay \ {b} /\ stone' = stone \cup {b}
  /\ crumble' = [crumble EXCEPT ![b] = @ + 1]
  /\ UNCHANGED <<conn, uobj, player, splayer, snooper, user, body, list, haunts,
                 place, origin>>

\* delay_linkdead()
DelayLinkdead(b) ==
  /\ b \in delay
  /\ delay' = delay \ {b}
  /\ IF b \in stone \/ user[b] \in conn
     THEN UNCHANGED <<stone, crumble>>
     ELSE /\ crumble[b] < MaxCrumble
          /\ stone' = stone \cup {b}
          /\ crumble' = [crumble EXCEPT ![b] = @ + 1]
  /\ UNCHANGED <<conn, uobj, player, splayer, snooper, user, body, list, haunts,
                 place, origin>>

\* move_statue()
MoveStatue(b) ==
  /\ crumble[b] > 0
  /\ crumble' = [crumble EXCEPT ![b] = @ - 1]
  /\ IF b \in stone
     THEN /\ place' = [place EXCEPT ![b] = "statue"]
          /\ origin' = [origin EXCEPT ![b] = place[b]]
     ELSE UNCHANGED <<place, origin>>
  /\ UNCHANGED <<conn, uobj, player, splayer, snooper, user, body, list, delay,
                 stone, haunts>>

\* The object that acts on a line that u sends.
Acts(u, b) == u \in conn /\ player[u] = b /\ b \notin stone

\* quit() of the player b: out of a possession, or out of the game.  A coder's
\* body is removed at once; a mortal leaves like one whose link is lost.
QuitOf(s, b) ==
  LET u == s.user[b] IN
  IF CanBreak(s, b, b) THEN BreakPossession(s, b, b)
  ELSE IF IsCoder(b)
  THEN {DestructBody(IF u # Nil /\ s.player[u] = b THEN DestructUser(s, u) ELSE s, b)}
  ELSE IF u = Nil THEN {s} ELSE Close(s, u)

\* The command 'quit'.
Quit(u) ==
  \E b \in Players : Acts(u, b) /\ \E s \in QuitOf(Now, b) : EndsIn(s)

\* The command 'possess' on w.
PossessCmd(u, w) ==
  \E by \in Players :
    /\ Acts(u, by) /\ IsCoder(by) /\ user[by] # Nil
    /\ w # by /\ w \in Npcs \cup (body \ stone)
    /\ EndsIn(Possession(Now, w, by))

\* The form of 'possess' that breaks the possession of w.
BreakCmd(u, w) ==
  \E by \in Admins :
    /\ Acts(u, by) /\ w # by /\ w \notin stone /\ CanBreak(Now, w, by)
    /\ \E s \in BreakPossession(Now, w, by) : EndsIn(s)

MaySnoop(a, x) == a = x \/ ForceLevel[a] > ForceLevel[x]

\* snoop(): by watches on, or a snoop there is ends.
SnoopBy(s, a, by, on) ==
  LET us == s.user[on]
      ub == s.user[by]
      watcher == IF s.snooper[us] = Nil THEN Nil ELSE s.player[s.snooper[us]]
  IN  IF watcher # Nil
      THEN IF watcher = by \/ MaySnoop(a, watcher)
           THEN [s EXCEPT !.snooper = [s.snooper EXCEPT ![us] = Nil]] ELSE s
      ELSE IF s.snooper[ub] = us THEN s
      ELSE [s EXCEPT !.snooper = [s.snooper EXCEPT ![us] = ub]]

\* The command 'snoop' of a coder.
Snoop(u, by, on) ==
  \E a \in Players :
    /\ SnoopUsed /\ Acts(u, a) /\ IsCoder(a)
    /\ by \in body /\ on \in body \ {by}
    /\ user[by] \in conn /\ user[on] # Nil
    /\ MaySnoop(a, on)
    /\ EndsIn(SnoopBy(Now, a, by, on))

Next ==
  \/ \E u \in Users :
       \/ Connect(u) \/ LoginEnds(u) \/ LoseLink(u) \/ Quit(u)
       \/ \E p \in Players : EnterNew(u, p) \/ EnterOld(u, p)
       \/ \E w \in Victims : PossessCmd(u, w) \/ BreakCmd(u, w)
       \/ \E by, on \in Players : Snoop(u, by, on)
  \/ \E b \in Players : DelayLinkdead(b) \/ MoveStatue(b)

Spec == Init /\ [][Next]_vars

\* The driver runs every call_out in time.
TimedSpec == Spec /\ \A b \in Players : WF_vars(DelayLinkdead(b)) /\ WF_vars(MoveStatue(b))

(***************************************************************************)
(* Properties.                                                             *)
(***************************************************************************)

\* Every variable holds what its declaration says; a connection that is open
\* has its object (user.c), and what was destructed is referred to no more.
SessionTypeOK ==
  /\ conn \subseteq uobj /\ uobj \subseteq Users
  /\ player \in [Users -> body \cup Npcs \cup {Login, Nil}]
  /\ splayer \in [Users -> body \cup Npcs \cup {Nil}]
  /\ \A u \in Users \ uobj : player[u] = Nil /\ splayer[u] = Nil
  /\ snooper \in [Users -> uobj \cup {Nil}]
  /\ user \in [Livings -> uobj \cup {Nil}]
  /\ body \subseteq Players /\ list \subseteq body
  /\ delay \subseteq body /\ stone \subseteq body /\ delay \cap stone = {}
  /\ haunts \in [Players -> Npcs \cup {Nil}]
  /\ crumble \in [Players -> 0 .. MaxCrumble]
  /\ place \in [Players -> {"world", "statue"}]
  /\ origin \in [Players -> {"world", "statue", Nil}]

\* What set_user() of player.c checks stays true: the connection that shows the
\* messages of a player sends its input to that player, or to none.
RoutedToOwn ==
  \A b \in Players : user[b] # Nil => player[user[b]] \in {b, Nil}

\* No two connections send their input to the same body (possession() in
\* comm.c takes the possessed its connection, exec() cuts the old one).
OneActor ==
  \A u, v \in conn : u # v /\ player[u] \in Livings => player[u] # player[v]

\* The people list names players with a link only: close() of user.c takes
\* the player off the list, whoever sat in the body.
ListedAreReachable ==
  \A p \in list : \E u \in conn : p \in {player[u], splayer[u]}

\* The connection that shows the messages of a living sends its input to it:
\* as long as only npcs are possessed, so that disconnect() of user.c, called
\* by exec(), always finds a player to name and whoever lost the link can come
\* back.
LinksMatch == \A l \in Livings : user[l] # Nil => player[user[l]] = l

\* A statue has no link: delay_linkdead() and set_linkdead() of player.c.
StatuesHaveNoLink == \A p \in stone : user[p] \notin conn

\* Whoever has no connection, and is not kept by one either, is a statue or has
\* the call_out of delay_linkdead() to come (set_linkdead() of player.c).
HasLink(p) == \E u \in uobj : p \in {player[u], splayer[u]}
NobodyForgotten == \A p \in body : HasLink(p) \/ p \in delay \cup stone

\* Connections, bodies and the people list agree on who is there, and who is
\* not will be a statue.
PlayersReached == OneActor /\ ListedAreReachable /\ StatuesHaveNoLink /\ NobodyForgotten

\* Snoops make no cycle, in which a message would go round for ever: the check
\* against a recursive snoop in snoop() of comm.c.
SnoopsEnd ==
  LET seen[n \in Nat] ==
        IF n = 0 THEN [u \in Users |-> snooper[u]]
        ELSE LET f == seen[n - 1] IN
             [u \in Users |-> IF f[u] = Nil THEN Nil ELSE snooper[f[u]]]
  IN  \A u \in Users : seen[Cardinality(Users)][u] = Nil

\* A body without a link becomes a statue (delay_linkdead() of player.c), unless
\* its player comes back.
LinkdeathSettles ==
  \A p \in Players : (p \in body /\ ~HasLink(p)) ~> (p \in stone \/ p \notin body \/ HasLink(p))
=============================================================================
