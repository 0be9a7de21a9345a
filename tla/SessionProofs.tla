--------------------------- MODULE SessionProofs ---------------------------
(***************************************************************************)
(* Proofs about Session, for any number of connections and livings.        *)
(*                                                                         *)
(* The operators of Session map a state of the connections, a record, to   *)
(* states; so do the lemmas: each says what one call preserves.            *)
(***************************************************************************)
EXTENDS Session, TLAPS

States ==
  [conn: SUBSET Users, uobj: SUBSET Users,
   player: [Users -> Livings \cup {Login, Nil}],
   splayer: [Users -> Livings \cup {Nil}],
   snooper: [Users -> Users \cup {Nil}],
   user: [Livings -> Users \cup {Nil}],
   body: SUBSET Players, list: SUBSET Players,
   delay: SUBSET Players, stone: SUBSET Players,
   haunts: [Players -> Npcs \cup {Nil}]]

\* Nothing refers to what does not exist, and a player who waits to turn to
\* stone is none yet.
Existing(s) ==
  /\ s.conn \subseteq s.uobj
  /\ s.list \subseteq s.body /\ s.delay \subseteq s.body /\ s.stone \subseteq s.body
  /\ s.delay \cap s.stone = {}
  /\ \A u \in Users : /\ s.player[u] \in Players => s.player[u] \in s.body
                      /\ s.splayer[u] \in Players => s.splayer[u] \in s.body
                      /\ s.snooper[u] # Nil => s.snooper[u] \in s.uobj
                      /\ u \notin s.uobj => s.player[u] = Nil /\ s.splayer[u] = Nil
  /\ \A l \in Livings : s.user[l] # Nil => s.user[l] \in s.uobj

\* A body without existence has no connection; one that serves a login is no
\* living's.
NoStray(s) ==
  /\ \A p \in Players \ s.body : s.user[p] = Nil
  /\ \A l \in Livings : s.user[l] # Nil => s.player[s.user[l]] # Login

Sound(s) == s \in States /\ Existing(s) /\ NoStray(s)

StatuesOK ==
  /\ crumble \in [Players -> 0 .. MaxCrumble]
  /\ place \in [Players -> {"world", "statue"}]
  /\ origin \in [Players -> {"world", "statue", Nil}]

LEMMA DestructUserSound ==
  ASSUME NEW s, Sound(s), NEW u \in Users
  PROVE  Sound(DestructUser(s, u)) /\ DestructUser(s, u).body = s.body
<1> DEFINE t == DestructUser(s, u)
<1>1. t \in States /\ t.body = s.body
  BY DEF Sound, States, DestructUser, Without
<1>2. Existing(t)
  <2>1. \A v \in Users : t.snooper[v] # Nil => t.snooper[v] \in t.uobj
    BY DEF Sound, States, DestructUser, Without, Existing
  <2>2. \A l \in Livings : t.user[l] # Nil => t.user[l] \in t.uobj
    BY DEF Sound, States, DestructUser, Without, Existing
  <2>3. \A v \in Users : /\ t.player[v] \in Players => t.player[v] \in t.body
                         /\ t.splayer[v] \in Players => t.splayer[v] \in t.body
    BY SessionAssumption DEF Sound, States, DestructUser, Existing, Livings
  <2>4. \A v \in Users \ t.uobj : t.player[v] = Nil /\ t.splayer[v] = Nil
    BY DEF Sound, States, DestructUser, Existing
  <2> QED BY <2>1, <2>2, <2>3, <2>4 DEF Sound, States, DestructUser, Existing
<1>3. NoStray(t)
  <2>1. \A p \in Players \ t.body : t.user[p] = Nil
    BY DEF Sound, States, DestructUser, Without, NoStray, Livings
  <2>2. \A l \in Livings : t.user[l] # Nil => t.player[t.user[l]] # Login
    BY SessionAssumption DEF Sound, States, DestructUser, Without, NoStray
  <2> QED BY <2>1, <2>2 DEF NoStray
<1> QED BY <1>1, <1>2, <1>3 DEF Sound

LEMMA DestructBodySound ==
  ASSUME NEW s, Sound(s), NEW b \in Players
  PROVE  Sound(DestructBody(s, b))
<1> DEFINE t == DestructBody(s, b)
<1>1. t \in States
  BY DEF Sound, States, DestructBody, Without, Livings
<1>2. Existing(t)
  BY SessionAssumption DEF Sound, States, DestructBody, Without, Existing, Livings
<1>3. NoStray(t)
  BY SessionAssumption DEF Sound, States, DestructBody, Without, NoStray, Livings
<1> QED BY <1>1, <1>2, <1>3 DEF Sound

(***************************************************************************)
(* Routing: the calls that change where input and output go.               *)
(***************************************************************************)

\* What such a call leaves alone.
SameWorld(s, t) ==
  /\ t.conn = s.conn /\ t.uobj = s.uobj /\ t.body = s.body
  /\ t.list = s.list /\ t.delay = s.delay /\ t.stone = s.stone
  /\ t.haunts = s.haunts

LEMMA SetUserSound ==
  ASSUME NEW s, Sound(s), NEW b \in Livings, NEW u \in s.uobj \cup {Nil},
         u # Nil /\ b \in Npcs => s.player[u] # Login
  PROVE  Sound(SetUser(s, b, u)) /\ SameWorld(s, SetUser(s, b, u))
<1> DEFINE t == [s EXCEPT !.user = [s.user EXCEPT ![b] = u]]
<1>1. CASE b \in Players /\ u # Nil /\ s.player[u] # b
  BY <1>1 DEF SetUser, SameWorld
<1>2. CASE ~(b \in Players /\ u # Nil /\ s.player[u] # b)
  <2>1. SetUser(s, b, u) = t
    BY <1>2 DEF SetUser
  <2>2. t \in States /\ SameWorld(s, t) /\ Existing(t)
    BY DEF Sound, States, Existing, SameWorld
  <2>3. \A p \in Players \ t.body : t.user[p] = Nil
    BY <1>2 DEF Sound, States, Existing, NoStray, Livings
  <2>4. \A l \in Livings : t.user[l] # Nil => t.player[t.user[l]] # Login
    BY <1>2, SessionAssumption DEF Sound, States, NoStray, Livings
  <2> QED BY <2>1, <2>2, <2>3, <2>4 DEF Sound, NoStray
<1> QED BY <1>1, <1>2

\* A connection given a body, and its saved body replaced.
Route(s, u, old, new) ==
  [s EXCEPT !.splayer = [s.splayer EXCEPT ![u] = old],
            !.player  = [s.player EXCEPT ![u] = new]]

Routed(s, t, u, old, new) ==
  /\ Sound(t) /\ SameWorld(s, t) /\ t.user = s.user /\ t.snooper = s.snooper
  /\ t.player = [s.player EXCEPT ![u] = new]
  /\ t.splayer = [s.splayer EXCEPT ![u] = old]

LEMMA RouteSound ==
  ASSUME NEW s, Sound(s), NEW u \in s.uobj,
         NEW old \in s.body \cup Npcs \cup {Nil},
         NEW new \in s.body \cup Npcs \cup {Nil}
  PROVE  Routed(s, Route(s, u, old, new), u, old, new)
<1> DEFINE t == Route(s, u, old, new)
<1>1. t \in States /\ SameWorld(s, t)
  BY DEF Sound, States, Existing, SameWorld, Livings, Route
<1>2. Existing(t)
  BY SessionAssumption DEF Sound, States, Existing, Livings, Route
<1>3. NoStray(t)
  BY SessionAssumption DEF Sound, States, Existing, NoStray, Livings, Route
<1>4. /\ t.user = s.user /\ t.snooper = s.snooper
      /\ t.player = [s.player EXCEPT ![u] = new]
      /\ t.splayer = [s.splayer EXCEPT ![u] = old]
  BY DEF Sound, States, Route
<1> QED BY <1>1, <1>2, <1>3, <1>4 DEF Sound, Routed

LEMMA SwitchSound ==
  ASSUME NEW s, Sound(s), NEW u \in s.uobj, s.player[u] # Login,
         NEW new \in s.body \cup Npcs \cup {Nil}
  PROVE  Routed(s, SwitchPlayer(s, u, new), u, s.player[u], new)
<1>1. s.player[u] \in s.body \cup Npcs \cup {Nil}
  BY DEF Sound, States, Existing, Livings
<1>2. SwitchPlayer(s, u, new) = Route(s, u, s.player[u], new)
  BY DEF SwitchPlayer, Route
<1> QED BY <1>1, <1>2, RouteSound

LEMMA ReturnSound ==
  ASSUME NEW s, Sound(s), NEW u \in s.uobj, NEW new \in s.body \cup Npcs \cup {Nil}
  PROVE  Routed(s, Return(s, u, new), u, Nil, new)
<1>1. Return(s, u, new) = Route(s, u, Nil, new)
  BY DEF Return, Route
<1> QED BY <1>1, RouteSound

LEMMA SnooperSound ==
  ASSUME NEW s, Sound(s), NEW u \in Users, NEW v \in s.uobj \cup {Nil},
         NEW t, t = [s EXCEPT !.snooper = [s.snooper EXCEPT ![u] = v]]
  PROVE  /\ Sound(t) /\ SameWorld(s, t)
         /\ t.user = s.user /\ t.player = s.player /\ t.splayer = s.splayer
<1>1. t \in States /\ SameWorld(s, t)
  BY DEF Sound, States, Existing, SameWorld
<1>2. Existing(t)
  BY DEF Sound, States, Existing
<1>3. NoStray(t)
  BY DEF Sound, States, NoStray
<1>4. t.user = s.user /\ t.player = s.player /\ t.splayer = s.splayer
  BY DEF Sound, States
<1> QED BY <1>1, <1>2, <1>3, <1>4 DEF Sound

\* Breaking a possession and possessing keep every state sound.
LEMMA BreakSound ==
  ASSUME NEW s, Sound(s), NEW x \in s.body \cup Npcs, NEW a,
         NEW t \in BreakPossession(s, x, a)
  PROVE  Sound(t) /\ SameWorld(s, t)
<1>1. CASE ~CanBreak(s, x, a)
  BY <1>1 DEF BreakPossession, SameWorld
<1>2. CASE CanBreak(s, x, a)
  <2> DEFINE du == s.user[x]
             demon == s.splayer[du]
  <2>1. /\ x \in Livings /\ du \in s.uobj /\ du \in Users
        /\ demon \in s.body \cup Npcs
    BY <1>2, SessionAssumption DEF Sound, States, Existing, Livings, CanBreak
  <2>2. demon \in Livings /\ demon # Login /\ x # Login
    BY <2>1, SessionAssumption DEF Sound, States, Livings
  <2>3. PICK u \in Evicted(s, x) :
          t = IF u = Nil
              THEN SetUser(SetUser(Return(s, du, demon), demon, du), x, Nil)
              ELSE LET r == Return(Return(s, u, x), du, demon) IN
                   SetUser(SetUser([r EXCEPT !.snooper = [r.snooper EXCEPT ![du] = Nil]], x, u),
                           demon, du)
    BY <1>2 DEF BreakPossession
  <2>4. u = Nil \/ u \in s.conn
    BY DEF Evicted
  <2>5. CASE u = Nil
    <3> DEFINE t1 == Return(s, du, demon)
               t2 == SetUser(t1, demon, du)
               t3 == SetUser(t2, x, Nil)
    <3>1. t = t3
      BY <2>3, <2>5
    <3>2. Routed(s, t1, du, Nil, demon)
      BY <2>1, ReturnSound
    <3> HIDE DEF t1
    <3>3. Sound(t1) /\ du \in t1.uobj /\ t1.player[du] = demon
      BY <3>2, <2>1 DEF Routed, SameWorld, Sound, States
    <3>4. Sound(t2) /\ SameWorld(t1, t2)
      BY <3>3, <2>2, SetUserSound
    <3> HIDE DEF t2
    <3>5. Sound(t3) /\ SameWorld(t2, t3)
      BY <3>4, <2>1, SetUserSound
    <3> QED BY <3>1, <3>2, <3>4, <3>5 DEF Routed, SameWorld
  <2>6. CASE u # Nil
    <3> DEFINE t1 == Return(s, u, x)
               t2 == Return(t1, du, demon)
               t3 == [t2 EXCEPT !.snooper = [t2.snooper EXCEPT ![du] = Nil]]
               t4 == SetUser(t3, x, u)
               t5 == SetUser(t4, demon, du)
    <3>0. u \in s.uobj /\ u \in Users
      BY <2>4, <2>6 DEF Sound, States, Existing
    <3>1. t = t5
      BY <2>3, <2>6
    <3>2. Routed(s, t1, u, Nil, x)
      BY <3>0, ReturnSound
    <3> HIDE DEF t1
    <3>3. Sound(t1) /\ demon \in t1.body \cup Npcs /\ du \in t1.uobj
      BY <3>2, <2>1 DEF Routed, SameWorld
    <3>4. Routed(t1, t2, du, Nil, demon)
      BY <3>3, <2>1, ReturnSound
    <3> HIDE DEF t2
    <3>5. Sound(t2)
      BY <3>4 DEF Routed
    <3>6. Sound(t3) /\ SameWorld(t2, t3) /\ t3.player = t2.player
      <4>1. Nil \in t2.uobj \cup {Nil} /\ du \in Users
        BY <2>1
      <4>2. Sound(t3) /\ SameWorld(t2, t3)
        BY <3>5, <4>1, SnooperSound
      <4>3. t3.player = t2.player
        BY <3>5 DEF Sound, States
      <4> QED BY <4>2, <4>3
    <3> HIDE DEF t3
    <3>7. t3.player[u] # Login /\ t3.player[du] # Login
      <4>1. t2.player = [[s.player EXCEPT ![u] = x] EXCEPT ![du] = demon]
        BY <3>2, <3>4 DEF Routed
      <4> QED BY <4>1, <3>0, <3>6, <2>1, <2>2 DEF Sound, States
    <3>8. u \in t3.uobj /\ du \in t3.uobj
      BY <3>0, <2>1, <3>2, <3>4, <3>6 DEF Routed, SameWorld
    <3>9. Sound(t4) /\ SameWorld(t3, t4)
      BY <3>6, <3>7, <3>8, <2>1, SetUserSound
    <3>10. t4.player = t3.player /\ du \in t4.uobj
      BY <3>6, <3>8, <3>9 DEF t4, SetUser, Sound, States, SameWorld
    <3> HIDE DEF t4
    <3>11. Sound(t5) /\ SameWorld(t4, t5)
      BY <3>7, <3>9, <3>10, <2>2, SetUserSound
    <3> QED BY <3>1, <3>2, <3>4, <3>6, <3>9, <3>11 DEF Routed, SameWorld
  <2> QED BY <2>5, <2>6
<1> QED BY <1>1, <1>2

LEMMA PossessionSound ==
  ASSUME NEW s, Sound(s), NEW w \in s.body \cup Npcs, NEW by \in s.body \cup Npcs,
         s.user[by] # Nil
  PROVE  Sound(Possession(s, w, by)) /\ SameWorld(s, Possession(s, w, by))
<1> DEFINE du == s.user[by]
           wu == s.user[w]
<1>1. /\ w \in Livings /\ by \in Livings /\ w # Login
      /\ du \in s.uobj /\ du \in Users /\ s.player[du] # Login
      /\ wu \in s.uobj \cup {Nil} /\ (wu # Nil => s.player[wu] # Login /\ wu \in Users)
  BY SessionAssumption DEF Sound, States, Existing, NoStray, Livings
<1>2. CASE Possession(s, w, by) = s
  BY <1>2 DEF SameWorld
<1>3. CASE MayForce(by, w) /\ wu = Nil
  <2> DEFINE t1 == SwitchPlayer(s, du, w)
             t2 == SetUser(t1, w, du)
             t3 == SetUser(t2, by, Nil)
  <2>1. Possession(s, w, by) = t3
    BY <1>3 DEF Possession
  <2>2. Routed(s, t1, du, s.player[du], w)
    BY <1>1, SwitchSound
  <2> HIDE DEF t1
  <2>3. Sound(t1) /\ du \in t1.uobj /\ t1.player[du] = w
    BY <1>1, <2>2 DEF Routed, SameWorld, Sound, States
  <2>4. Sound(t2) /\ SameWorld(t1, t2)
    BY <1>1, <2>3, SetUserSound
  <2> HIDE DEF t2
  <2>5. Sound(t3) /\ SameWorld(t2, t3)
    BY <1>1, <2>4, SetUserSound
  <2> QED BY <2>1, <2>2, <2>4, <2>5 DEF Routed, SameWorld
<1>4. CASE MayForce(by, w) /\ wu # Nil /\ ~(s.splayer[wu] # Nil \/ s.snooper[wu] = du)
  <2> DEFINE t1 == SwitchPlayer(s, wu, Nil)
             t2 == SwitchPlayer(t1, du, w)
             t3 == [t2 EXCEPT !.snooper = [t2.snooper EXCEPT ![du] = wu]]
             t4 == SetUser(t3, w, du)
             t5 == SetUser(t4, by, Nil)
  <2>1. Possession(s, w, by) = t5
    BY <1>4 DEF Possession
  <2>2. Routed(s, t1, wu, s.player[wu], Nil)
    BY <1>1, <1>4, SwitchSound
  <2> HIDE DEF t1
  <2>3. /\ Sound(t1) /\ du \in t1.uobj /\ w \in t1.body \cup Npcs
        /\ t1.player[du] # Login
    BY <1>1, <1>4, <2>2, SessionAssumption DEF Routed, SameWorld, Sound, States
  <2>4. Routed(t1, t2, du, t1.player[du], w)
    BY <2>3, SwitchSound
  <2> HIDE DEF t2
  <2>5. Sound(t2) /\ wu \in t2.uobj /\ du \in Users /\ t2.player[du] = w
    BY <1>1, <1>4, <2>2, <2>3, <2>4 DEF Routed, SameWorld, Sound, States
  <2>6. Sound(t3) /\ SameWorld(t2, t3) /\ t3.player = t2.player
    BY <2>5, SnooperSound
  <2> HIDE DEF t3
  <2>7. du \in t3.uobj
    BY <2>3, <2>4, <2>6 DEF Routed, SameWorld
  <2>8. Sound(t4) /\ SameWorld(t3, t4)
    BY <1>1, <2>5, <2>6, <2>7, SetUserSound
  <2> HIDE DEF t4
  <2>9. Sound(t5) /\ SameWorld(t4, t5)
    BY <1>1, <2>8, SetUserSound
  <2> QED BY <2>1, <2>2, <2>4, <2>6, <2>8, <2>9 DEF Routed, SameWorld
<1> QED BY <1>2, <1>3, <1>4 DEF Possession

(***************************************************************************)
(* Losing the link, and taking a body over.                                *)
(***************************************************************************)

LEMMA SetLinkdeadSound ==
  ASSUME NEW s, Sound(s), NEW b, b \in Players => b \in s.body,
         NEW t \in SetLinkdead(s, b)
  PROVE  Sound(t) /\ t.body = s.body
<1>1. CASE t = s
  BY <1>1
<1>2. CASE b \in Npcs /\ t # s
  <2>1. PICK d \in Players : t = [s EXCEPT !.haunts = [s.haunts EXCEPT ![d] = b]]
    BY <1>2 DEF SetLinkdead
  <2> QED BY <1>2, <2>1 DEF Sound, States, Existing, NoStray
<1>3. CASE b \in Players \ Npcs /\ b \notin s.stone \cup s.delay /\ t # s
  <2> DEFINE r == [s EXCEPT !.delay = s.delay \cup {b}]
  <2>1. Sound(r) /\ r.body = s.body
    BY <1>3 DEF Sound, States, Existing, NoStray
  <2>2. t = r \/ \E a : t \in BreakPossession(r, b, a)
    BY <1>3 DEF SetLinkdead
  <2> HIDE DEF r
  <2> QED BY <1>3, <2>1, <2>2, BreakSound DEF SameWorld
<1> QED BY <1>1, <1>2, <1>3 DEF SetLinkdead

LEMMA CloseOwnSound ==
  ASSUME NEW s, Sound(s), NEW u \in Users, NEW t \in CloseOwn(s, u)
  PROVE  Sound(t) /\ t.body = s.body
<1>1. CASE t = s
  BY <1>1
<1>2. CASE t # s
  <2> DEFINE r == [s EXCEPT !.list = s.list \ {s.player[u]}]
  <2>1. PICK q \in SetLinkdead(r, s.player[u]) : t = DestructUser(q, u)
    BY <1>2 DEF CloseOwn
  <2>2. Sound(r) /\ r.body = s.body
    BY DEF Sound, States, Existing, NoStray
  <2>3. s.player[u] \in Players => s.player[u] \in s.body
    BY DEF Sound, Existing
  <2> HIDE DEF r
  <2>4. Sound(q) /\ q.body = s.body
    BY <2>1, <2>2, <2>3, SetLinkdeadSound
  <2> QED BY <2>1, <2>4, DestructUserSound
<1> QED BY <1>1, <1>2

LEMMA CloseSound ==
  ASSUME NEW s, Sound(s), NEW u \in s.uobj, NEW t \in Close(s, u)
  PROVE  Sound(t) /\ t.body = s.body
<1>0. u \in Users
  BY DEF Sound, States
<1>1. CASE s.splayer[u] = Nil /\ s.player[u] = Nil
  BY <1>0, <1>1, DestructUserSound DEF Close
<1>2. CASE s.splayer[u] = Nil /\ s.player[u] # Nil
  BY <1>0, <1>2, CloseOwnSound DEF Close
<1>3. CASE s.splayer[u] # Nil /\ s.player[u] = Nil
  BY <1>3 DEF Close
<1>4. CASE s.splayer[u] # Nil /\ s.player[u] # Nil
  <2>1. PICK q \in SetLinkdead(s, s.player[u]) :
          t \in CloseOwn([q EXCEPT !.player = [q.player EXCEPT ![u] = q.splayer[u]]], u)
    BY <1>4 DEF Close
  <2> DEFINE r == [q EXCEPT !.player = [q.player EXCEPT ![u] = q.splayer[u]]]
  <2>0. s.player[u] \in Players => s.player[u] \in s.body
    BY <1>0 DEF Sound, Existing
  <2>2. Sound(q) /\ q.body = s.body
    BY <2>0, <2>1, SetLinkdeadSound
  <2>3. r \in States /\ r.body = q.body
    BY <2>2, <1>0 DEF Sound, States
  <2>4. Existing(r)
    BY <2>2, <1>0 DEF Sound, States, Existing
  <2>5. NoStray(r)
    BY <2>2, <1>0, SessionAssumption DEF Sound, States, NoStray, Livings
  <2>6. Sound(r)
    BY <2>3, <2>4, <2>5 DEF Sound
  <2> HIDE DEF r
  <2> QED BY <1>0, <2>1, <2>2, <2>3, <2>6, CloseOwnSound DEF r
<1> QED BY <1>1, <1>2, <1>3, <1>4

\* exec() for a connection u that serves a login.
LEMMA ExecSound ==
  ASSUME NEW s, Sound(s), NEW u \in s.uobj, s.player[u] = Login, NEW p \in s.body
  PROVE  /\ Sound(Exec(s, u, p)) /\ Exec(s, u, p).body = s.body
         /\ Exec(s, u, p).user[p] # Nil
<1> DEFINE r == IF s.user[p] = Nil THEN s ELSE DestructUser(s, s.user[p])
           t == [r EXCEPT !.player = [r.player EXCEPT ![u] = p]]
<1>1. /\ u \in Users /\ p \in Livings /\ p \in Players /\ p \notin Npcs
      /\ s.user[p] \in Users \cup {Nil} /\ s.user[p] # u /\ p # Login
  BY SessionAssumption DEF Sound, States, NoStray, Livings
<1>2. Sound(r) /\ r.body = s.body /\ u \in r.uobj
  <2>1. CASE s.user[p] = Nil
    BY <2>1
  <2>2. CASE s.user[p] # Nil
    <3>1. r = DestructUser(s, s.user[p])
      BY <2>2
    <3>2. Sound(r) /\ r.body = s.body
      BY <1>1, <2>2, <3>1, DestructUserSound
    <3>3. u \in r.uobj
      BY <1>1, <3>1 DEF DestructUser, Sound, States
    <3> QED BY <3>2, <3>3
  <2> QED BY <2>1, <2>2
<1>3. Exec(s, u, p) = SetUser(t, p, u)
  BY DEF Exec
<1> HIDE DEF r
<1>4. t \in States /\ t.body = s.body /\ t.uobj = r.uobj /\ t.player[u] = p
  BY <1>1, <1>2 DEF Sound, States
<1>5. Existing(t)
  BY <1>1, <1>2, SessionAssumption DEF Sound, States, Existing
<1>6. NoStray(t)
  BY <1>1, <1>2 DEF Sound, States, NoStray
<1>7. Sound(t)
  BY <1>4, <1>5, <1>6 DEF Sound
<1> HIDE DEF t
<1>8. Sound(SetUser(t, p, u)) /\ SameWorld(t, SetUser(t, p, u))
  BY <1>1, <1>2, <1>4, <1>7, SetUserSound
<1>9. SetUser(t, p, u).user[p] # Nil
  BY <1>1, <1>4, <1>7, SessionAssumption DEF SetUser, Sound, States
<1> QED BY <1>3, <1>4, <1>8, <1>9 DEF SameWorld

LEMMA HauntSound ==
  ASSUME NEW s, Sound(s), NEW p \in s.body, s.user[p] # Nil
  PROVE  Sound(Haunt(s, p)) /\ SameWorld(s, Haunt(s, p))
<1>1. CASE s.haunts[p] = Nil
  BY <1>1 DEF Haunt, SameWorld
<1>2. CASE s.haunts[p] # Nil
  BY <1>2, PossessionSound DEF Haunt, Sound, States
<1> QED BY <1>1, <1>2

LEMMA QuitOfSound ==
  ASSUME NEW s, Sound(s), NEW b \in s.body, NEW t \in QuitOf(s, b)
  PROVE  Sound(t)
<1> DEFINE u == s.user[b]
<1>1. b \in Players /\ u \in s.uobj \cup {Nil} /\ (u # Nil => u \in Users)
  BY DEF Sound, States, Existing, Livings
<1>2. CASE t \in BreakPossession(s, b, b)
  BY <1>2, BreakSound
<1>3. CASE t = DestructBody(IF u # Nil /\ s.player[u] = b THEN DestructUser(s, u) ELSE s, b)
  BY <1>1, <1>3, DestructUserSound, DestructBodySound
<1>4. CASE t = s
  BY <1>4
<1>5. CASE u # Nil /\ t \in Close(s, u)
  BY <1>1, <1>5, CloseSound
<1> QED BY <1>2, <1>3, <1>4, <1>5 DEF QuitOf

LEMMA SnoopBySound ==
  ASSUME NEW s, Sound(s), NEW a, NEW by \in Livings, NEW on \in Livings,
         s.user[by] # Nil, s.user[on] # Nil
  PROVE  Sound(SnoopBy(s, a, by, on))
<1>1. s.user[by] \in s.uobj /\ s.user[on] \in Users
  BY DEF Sound, States, Existing
<1>2. \/ SnoopBy(s, a, by, on) = s
      \/ \E v \in {s.user[by], Nil} :
           SnoopBy(s, a, by, on) = [s EXCEPT !.snooper = [s.snooper EXCEPT ![s.user[on]] = v]]
  BY DEF SnoopBy
<1> QED BY <1>1, <1>2, SnooperSound

(***************************************************************************)
(* The tasks.                                                              *)
(***************************************************************************)

SessionInd == Sound(Now) /\ StatuesOK

LEMMA EndsInSound ==
  ASSUME NEW s, Sound(s), StatuesOK, EndsIn(s)
  PROVE  SessionInd'
<1>1. Sound(Now)' <=> Sound(s)
  <2>1. Now' = s
    BY DEF Now, EndsIn, Becomes, Sound, States
  <2> QED BY <2>1
<1>2. StatuesOK'
  BY SessionAssumption DEF EndsIn, StatuesOK
<1> QED BY <1>1, <1>2 DEF SessionInd

LEMMA SessionInitInd == Init => SessionInd
<1> SUFFICES ASSUME Init PROVE SessionInd
  OBVIOUS
<1>1. Now \in States
  BY DEF Init, Now, States
<1>2. Existing(Now) /\ NoStray(Now)
  BY SessionAssumption DEF Init, Now, Existing, NoStray, Livings
<1>3. StatuesOK
  BY SessionAssumption DEF Init, StatuesOK
<1> QED BY <1>1, <1>2, <1>3 DEF SessionInd, Sound

\* The actions that end in a sound state of the connections and move no statue.
LEMMA TaskInd ==
  ASSUME SessionInd, NEW u \in Users,
         \/ LoginEnds(u) \/ LoseLink(u) \/ Quit(u)
         \/ \E p \in Players : EnterNew(u, p)
         \/ \E w \in Victims : PossessCmd(u, w) \/ BreakCmd(u, w)
         \/ \E by, on \in Players : Snoop(u, by, on)
  PROVE  SessionInd'
<1>0. Sound(Now) /\ StatuesOK
  BY DEF SessionInd
<1>1. ASSUME LoginEnds(u) PROVE SessionInd'
  <2>1. PICK s : s = DestructUser(Now, u) /\ EndsIn(s)
    BY <1>1 DEF LoginEnds
  <2>2. Sound(s)
    BY <1>0, <2>1, DestructUserSound
  <2> QED BY <1>0, <2>1, <2>2, EndsInSound
<1>2. ASSUME LoseLink(u) PROVE SessionInd'
  <2> DEFINE r == [Now EXCEPT !.conn = conn \ {u}]
  <2>1. PICK s \in Close(r, u) : EndsIn(s)
    BY <1>2 DEF LoseLink
  <2>2. Sound(r) /\ u \in r.uobj
    BY <1>0, <1>2 DEF LoseLink, Now, Sound, States, Existing, NoStray
  <2> HIDE DEF r
  <2>3. Sound(s)
    BY <2>1, <2>2, CloseSound
  <2> QED BY <1>0, <2>1, <2>3, EndsInSound
<1>3. ASSUME Quit(u) PROVE SessionInd'
  <2>1. PICK b \in Players : Acts(u, b) /\ \E s \in QuitOf(Now, b) : EndsIn(s)
    BY <1>3 DEF Quit
  <2>2. b \in Now.body
    BY <1>0, <2>1 DEF Acts, Now, Sound, Existing
  <2>3. PICK s \in QuitOf(Now, b) : EndsIn(s)
    BY <2>1
  <2>4. Sound(s)
    BY <1>0, <2>2, <2>3, QuitOfSound
  <2> QED BY <1>0, <2>3, <2>4, EndsInSound
<1>4. ASSUME NEW p \in Players, EnterNew(u, p) PROVE SessionInd'
  <2> DEFINE r == [Now EXCEPT !.body = body \cup {p}, !.list = list \cup {p}]
  <2>1. PICK s : s = Exec(r, u, p) /\ EndsIn(s)
    BY <1>4 DEF EnterNew
  <2>2. r \in States /\ p \in r.body /\ r.player[u] = Login
    BY <1>0, <1>4 DEF EnterNew, Now, Sound, States
  <2>3. Existing(r)
    BY <1>0 DEF Now, Sound, Existing
  <2>4. NoStray(r) /\ u \in r.uobj
    BY <1>0, <1>4, SessionAssumption DEF EnterNew, Now, Sound, Existing, NoStray
  <2> HIDE DEF r
  <2>5. Sound(s)
    BY <2>1, <2>2, <2>3, <2>4, ExecSound DEF Sound
  <2> QED BY <1>0, <2>1, <2>5, EndsInSound
<1>5. ASSUME NEW w \in Victims, PossessCmd(u, w) PROVE SessionInd'
  <2>1. PICK by \in Players : /\ Acts(u, by) /\ user[by] # Nil
                              /\ w \in Npcs \cup (body \ stone)
                              /\ EndsIn(Possession(Now, w, by))
    BY <1>5 DEF PossessCmd
  <2>2. PICK s : s = Possession(Now, w, by) /\ EndsIn(s)
    BY <2>1
  <2>3. by \in Now.body /\ w \in Now.body \cup Npcs /\ Now.user[by] # Nil
    BY <1>0, <2>1 DEF Acts, Now, Sound, Existing
  <2>4. Sound(s)
    BY <1>0, <2>2, <2>3, PossessionSound
  <2> QED BY <1>0, <2>2, <2>4, EndsInSound
<1>6. ASSUME NEW w \in Victims, BreakCmd(u, w) PROVE SessionInd'
  <2>1. PICK by \in Admins : /\ CanBreak(Now, w, by)
                             /\ \E s \in BreakPossession(Now, w, by) : EndsIn(s)
    BY <1>6 DEF BreakCmd
  <2>2. w \in Now.body \cup Npcs
    BY <1>0, <2>1, SessionAssumption DEF CanBreak, Sound, NoStray, Livings
  <2>3. PICK s \in BreakPossession(Now, w, by) : EndsIn(s)
    BY <2>1
  <2>4. Sound(s)
    BY <1>0, <2>2, <2>3, BreakSound
  <2> QED BY <1>0, <2>3, <2>4, EndsInSound
<1>7. ASSUME NEW by \in Players, NEW on \in Players, Snoop(u, by, on) PROVE SessionInd'
  <2>1. PICK a \in Players : EndsIn(SnoopBy(Now, a, by, on))
    BY <1>7 DEF Snoop
  <2>2. PICK s : s = SnoopBy(Now, a, by, on) /\ EndsIn(s)
    BY <2>1
  <2>3. Now.user[by] # Nil /\ Now.user[on] # Nil /\ by \in Livings /\ on \in Livings
    BY <1>0, <1>7, SessionAssumption DEF Snoop, Now, Sound, States, Livings
  <2>4. Sound(s)
    BY <1>0, <2>2, <2>3, SnoopBySound
  <2> QED BY <1>0, <2>2, <2>4, EndsInSound
<1> QED BY <1>1, <1>2, <1>3, <1>4, <1>5, <1>6, <1>7

LEMMA ConnectInd ==
  ASSUME SessionInd, NEW u \in Users, Connect(u)
  PROVE  SessionInd'
<1>1. Now' \in States /\ StatuesOK'
  BY DEF SessionInd, StatuesOK, Sound, States, Now, Connect, Statues
<1>2. Existing(Now)'
  BY SessionAssumption DEF SessionInd, Sound, States, Existing, Now, Connect, Livings
<1>3. NoStray(Now)'
  <2>1. \A l \in Livings : user[l] # u
    BY SessionAssumption DEF SessionInd, Sound, Existing, Now, Connect
  <2> QED BY <2>1 DEF SessionInd, Sound, States, NoStray, Now, Connect
<1> QED BY <1>1, <1>2, <1>3 DEF SessionInd, Sound

LEMMA EnterOldInd ==
  ASSUME SessionInd, NEW u \in Users, NEW p \in Players, EnterOld(u, p)
  PROVE  SessionInd'
<1> DEFINE r == [Now EXCEPT !.list = list \cup {p}]
<1>1. PICK s : s = Exec(r, u, p)
  OBVIOUS
<1>2. /\ r \in States /\ r.player[u] = Login /\ p \in r.body /\ u \in r.uobj
      /\ Existing(r) /\ NoStray(r)
  BY SessionAssumption DEF SessionInd, EnterOld, Now, Sound, States, Existing, NoStray
<1>3. Sound(s) /\ s.body = r.body /\ s.user[p] # Nil
  BY <1>1, <1>2, ExecSound DEF Sound
<1>4. \/ EndsIn(Haunt(s, p))
      \/ EndsIn(s)
      \/ /\ Becomes(Haunt([s EXCEPT !.stone = s.stone \ {p}], p))
         /\ place' = [place EXCEPT ![p] = IF origin[p] = Nil THEN @ ELSE origin[p]]
         /\ origin' = [origin EXCEPT ![p] = Nil]
         /\ UNCHANGED crumble
  BY <1>1 DEF EnterOld
<1> HIDE DEF r
<1>5. CASE EndsIn(Haunt(s, p))
  <2>1. PICK t : t = Haunt(s, p) /\ EndsIn(t)
    BY <1>5
  <2>2. Sound(t)
    BY <1>2, <1>3, <2>1, HauntSound
  <2> QED BY <2>1, <2>2, EndsInSound DEF SessionInd
<1>6. CASE EndsIn(s)
  BY <1>3, <1>6, EndsInSound DEF SessionInd
<1>7. CASE /\ Becomes(Haunt([s EXCEPT !.stone = s.stone \ {p}], p))
           /\ place' = [place EXCEPT ![p] = IF origin[p] = Nil THEN @ ELSE origin[p]]
           /\ origin' = [origin EXCEPT ![p] = Nil]
           /\ UNCHANGED crumble
  <2>1. PICK q : q = [s EXCEPT !.stone = s.stone \ {p}]
    OBVIOUS
  <2>2. Sound(q) /\ p \in q.body /\ q.user[p] # Nil
    BY <1>2, <1>3, <2>1 DEF Sound, States, Existing, NoStray
  <2>3. PICK t : t = Haunt(q, p) /\ Becomes(t)
    BY <1>7, <2>1
  <2>4. Sound(t)
    BY <2>2, <2>3, HauntSound
  <2>5. Now' = t
    BY <2>3, <2>4 DEF Now, Becomes, Sound, States
  <2>6. StatuesOK'
    BY <1>7 DEF SessionInd, StatuesOK
  <2> QED BY <2>4, <2>5, <2>6 DEF SessionInd
<1> QED BY <1>4, <1>5, <1>6, <1>7

LEMMA TimersInd ==
  ASSUME SessionInd, NEW b \in Players, DelayLinkdead(b) \/ MoveStatue(b)
  PROVE  SessionInd'
<1>1. CASE DelayLinkdead(b)
  <2>1. Now' \in States /\ Existing(Now)' /\ NoStray(Now)'
    BY <1>1 DEF SessionInd, Sound, States, Existing, NoStray, Now, DelayLinkdead
  <2>2. StatuesOK'
    BY <1>1, SessionAssumption DEF SessionInd, StatuesOK, DelayLinkdead
  <2> QED BY <2>1, <2>2 DEF SessionInd, Sound
<1>2. CASE MoveStatue(b)
  <2>1. Now' = Now
    BY <1>2 DEF Now, MoveStatue
  <2>2. StatuesOK'
    BY <1>2, SessionAssumption DEF SessionInd, StatuesOK, MoveStatue
  <2> QED BY <2>1, <2>2 DEF SessionInd
<1> QED BY <1>1, <1>2

LEMMA SessionStepInd == SessionInd /\ [Next]_vars => SessionInd'
<1> SUFFICES ASSUME SessionInd, [Next]_vars PROVE SessionInd'
  OBVIOUS
<1>1. CASE UNCHANGED vars
  <2>1. Now' = Now /\ (StatuesOK' <=> StatuesOK)
    BY <1>1 DEF vars, Now, StatuesOK
  <2> QED BY <2>1 DEF SessionInd
<1>2. CASE Next
  <2>1. ASSUME NEW u \in Users,
               \/ Connect(u) \/ LoginEnds(u) \/ LoseLink(u) \/ Quit(u)
               \/ \E p \in Players : EnterNew(u, p) \/ EnterOld(u, p)
               \/ \E w \in Victims : PossessCmd(u, w) \/ BreakCmd(u, w)
               \/ \E by, on \in Players : Snoop(u, by, on)
        PROVE  SessionInd'
    BY <2>1, ConnectInd, TaskInd, EnterOldInd
  <2>2. ASSUME NEW b \in Players, DelayLinkdead(b) \/ MoveStatue(b) PROVE SessionInd'
    BY <2>2, TimersInd
  <2> QED BY <1>2, <2>1, <2>2 DEF Next
<1> QED BY <1>1, <1>2

LEMMA SessionAlwaysInd == Spec => []SessionInd
<1> QED BY SessionInitInd, SessionStepInd, PTL DEF Spec

\* Whatever is done by and to any number of connections and livings, no
\* connection, body or list refers to an object that is gone, and no player is
\* both a statue and waiting to become one.
THEOREM SessionTypeCorrect == Spec => []SessionTypeOK
<1>1. SessionInd => SessionTypeOK
  BY SessionAssumption DEF SessionInd, StatuesOK, Sound, States, Existing, Now, SessionTypeOK, Livings
<1> QED BY <1>1, SessionAlwaysInd, PTL

(***************************************************************************)
(* If only npcs are possessed, connection and living name each other.      *)
(* Inductive together with: who plays a player (or logs in) has no saved   *)
(* body, and a connection whose saved body is an npc has none to play.     *)
(***************************************************************************)

Linked(s) ==
  /\ \A l \in Livings : s.user[l] # Nil => s.player[s.user[l]] = l
  /\ \A u \in Users : /\ s.player[u] \in Players \cup {Login} => s.splayer[u] = Nil
                      /\ s.splayer[u] \in Npcs => s.player[u] = Nil

SameRoutes(s, t) == t.player = s.player /\ t.splayer = s.splayer /\ t.user = s.user

LEMMA LinkedSame ==
  ASSUME NEW s, NEW t, Linked(s), SameRoutes(s, t)
  PROVE  Linked(t)
BY DEF Linked, SameRoutes

Assigned(s, t, b, u) ==
  t.user = [s.user EXCEPT ![b] = u] /\ t.player = s.player /\ t.splayer = s.splayer

LEMMA SetUserAssigns ==
  ASSUME NEW s, Sound(s), NEW b \in Livings, NEW u, u = Nil \/ b \in Npcs \/ s.player[u] = b
  PROVE  Assigned(s, SetUser(s, b, u), b, u)
<1>1. SetUser(s, b, u) = [s EXCEPT !.user = [s.user EXCEPT ![b] = u]]
  BY SessionAssumption DEF SetUser
<1> QED BY <1>1 DEF Sound, States, Assigned

LEMMA DestructUserLinked ==
  ASSUME NEW s, Sound(s), Linked(s), NEW u \in Users
  PROVE  Linked(DestructUser(s, u))
<1> DEFINE t == DestructUser(s, u)
<1>1. \A l \in Livings : t.user[l] # Nil => t.player[t.user[l]] = l
  BY DEF Sound, States, Linked, DestructUser, Without
<1>2. \A v \in Users : /\ t.player[v] \in Players \cup {Login} => t.splayer[v] = Nil
                       /\ t.splayer[v] \in Npcs => t.player[v] = Nil
  BY DEF Sound, States, Linked, DestructUser
<1> HIDE DEF t
<1>3. Linked(t)
  BY <1>1, <1>2 DEF Linked
<1> QED BY <1>3 DEF t

LEMMA DestructBodyLinked ==
  ASSUME NEW s, Sound(s), Linked(s), NEW b \in Players
  PROVE  Linked(DestructBody(s, b))
<1> DEFINE t == DestructBody(s, b)
<1>1. \A l \in Livings : t.user[l] # Nil => t.player[t.user[l]] = l
  BY SessionAssumption DEF Sound, States, Linked, DestructBody, Without, Livings
<1>2. \A v \in Users : /\ t.player[v] \in Players \cup {Login} => t.splayer[v] = Nil
                       /\ t.splayer[v] \in Npcs => t.player[v] = Nil
  BY SessionAssumption DEF Sound, States, Linked, DestructBody, Without, Livings
<1> HIDE DEF t
<1>3. Linked(t)
  BY <1>1, <1>2 DEF Linked
<1> QED BY <1>3 DEF t

\* An npc is freed: the demon's connection plays the demon's body again.
LEMMA BreakLinked ==
  ASSUME NEW s, Sound(s), Linked(s), NEW x \in Npcs, NEW a,
         NEW t \in BreakPossession(s, x, a)
  PROVE  Linked(t)
<1>1. CASE ~CanBreak(s, x, a)
  BY <1>1 DEF BreakPossession
<1>2. CASE CanBreak(s, x, a)
  <2> DEFINE du == s.user[x]
             demon == s.splayer[du]
  <2>1. /\ x \in Livings /\ du \in s.uobj /\ du \in Users /\ s.player[du] = x
        /\ demon \in s.body \cup Npcs
    BY <1>2, SessionAssumption DEF Sound, States, Existing, Livings, CanBreak, Linked
  <2>2. demon \in Players /\ demon \in Livings /\ demon # x /\ demon \in s.body
    BY <2>1, SessionAssumption DEF Sound, States, Livings, Linked
  <2>3. PICK u \in Evicted(s, x) :
          t = IF u = Nil
              THEN SetUser(SetUser(Return(s, du, demon), demon, du), x, Nil)
              ELSE LET r == Return(Return(s, u, x), du, demon) IN
                   SetUser(SetUser([r EXCEPT !.snooper = [r.snooper EXCEPT ![du] = Nil]], x, u),
                           demon, du)
    BY <1>2 DEF BreakPossession
  <2>4. CASE u = Nil
    <3> DEFINE t1 == Return(s, du, demon)
               t2 == SetUser(t1, demon, du)
    <3>1. t = SetUser(t2, x, Nil)
      BY <2>3, <2>4
    <3>2. Routed(s, t1, du, Nil, demon)
      BY <2>1, ReturnSound
    <3> HIDE DEF t1
    <3>3. Sound(t1) /\ t1.player[du] = demon /\ du \in t1.uobj
      BY <2>1, <3>2 DEF Routed, SameWorld, Sound, States
    <3>4. Assigned(t1, t2, demon, du) /\ Sound(t2)
      BY <2>2, <3>3, SetUserAssigns, SetUserSound, SessionAssumption
    <3> HIDE DEF t2
    <3>5. Assigned(t2, t, x, Nil)
      BY <2>1, <3>1, <3>4, SetUserAssigns
    <3>6. /\ t.user = [[s.user EXCEPT ![demon] = du] EXCEPT ![x] = Nil]
          /\ t.player = [s.player EXCEPT ![du] = demon]
          /\ t.splayer = [s.splayer EXCEPT ![du] = Nil]
      BY <3>2, <3>4, <3>5 DEF Routed, Assigned
    <3>7. \A l \in Livings : t.user[l] # Nil => t.player[t.user[l]] = l
      BY <2>1, <2>2, <3>6 DEF Linked, Sound, States
    <3>8. \A v \in Users : /\ t.player[v] \in Players \cup {Login} => t.splayer[v] = Nil
                           /\ t.splayer[v] \in Npcs => t.player[v] = Nil
      <4>1. t.player[du] = demon /\ t.splayer[du] = Nil
        BY <2>1, <3>6 DEF Sound, States
      <4>2. \A v \in Users \ {du} : t.player[v] = s.player[v] /\ t.splayer[v] = s.splayer[v]
        BY <3>6 DEF Sound, States
      <4> QED BY <4>1, <4>2, SessionAssumption DEF Linked, Livings
    <3> QED BY <3>7, <3>8 DEF Linked
  <2>5. CASE u # Nil
    <3> DEFINE t1 == Return(s, u, x)
               t2 == Return(t1, du, demon)
               t3 == [t2 EXCEPT !.snooper = [t2.snooper EXCEPT ![du] = Nil]]
               t4 == SetUser(t3, x, u)
    <3>0. /\ u \in s.uobj /\ u \in Users /\ s.splayer[u] = x /\ s.player[u] = Nil
          /\ u # du
      BY <2>1, <2>5, SessionAssumption DEF Evicted, Sound, States, Existing, Linked, Livings
    <3>1. t = SetUser(t4, demon, du)
      BY <2>3, <2>5
    <3>2. Routed(s, t1, u, Nil, x)
      BY <3>0, ReturnSound
    <3> HIDE DEF t1
    <3>3. Sound(t1) /\ demon \in t1.body \cup Npcs /\ du \in t1.uobj
      BY <3>2, <2>1 DEF Routed, SameWorld
    <3>4. Routed(t1, t2, du, Nil, demon)
      BY <3>3, ReturnSound
    <3> HIDE DEF t2
    <3>5. Sound(t2)
      BY <3>4 DEF Routed
    <3>6. /\ Sound(t3) /\ SameWorld(t2, t3)
          /\ t3.user = t2.user /\ t3.player = t2.player /\ t3.splayer = t2.splayer
      <4>1. Sound(t3) /\ SameWorld(t2, t3)
        BY <3>5, <2>1, SnooperSound
      <4>2. t3.user = t2.user /\ t3.player = t2.player /\ t3.splayer = t2.splayer
        BY <3>5 DEF Sound, States
      <4> QED BY <4>1, <4>2
    <3> HIDE DEF t3
    <3>7. /\ t3.player = [[s.player EXCEPT ![u] = x] EXCEPT ![du] = demon]
          /\ t3.splayer = [[s.splayer EXCEPT ![u] = Nil] EXCEPT ![du] = Nil]
          /\ t3.user = s.user
      BY <3>2, <3>4, <3>6 DEF Routed
    <3>8. t3.player[u] = x /\ t3.player[du] = demon
      BY <3>0, <3>7, <2>1 DEF Sound, States
    <3>9. u \in t3.uobj /\ x # Login
      BY <3>0, <3>2, <3>4, <3>6, SessionAssumption DEF Routed, SameWorld, Livings
    <3>10. Assigned(t3, t4, x, u) /\ Sound(t4)
      BY <2>1, <3>6, <3>8, <3>9, SetUserAssigns, SetUserSound
    <3> HIDE DEF t4
    <3>11. Assigned(t4, t, demon, du)
      <4>1. t4.player[du] = demon
        BY <3>8, <3>10 DEF Assigned
      <4> QED BY <4>1, <2>2, <3>1, <3>10, SetUserAssigns
    <3>12. /\ t.user = [[s.user EXCEPT ![x] = u] EXCEPT ![demon] = du]
           /\ t.player = t3.player /\ t.splayer = t3.splayer
      BY <3>7, <3>10, <3>11 DEF Assigned
    <3>13. \A l \in Livings : t.user[l] # Nil => t.player[t.user[l]] = l
      <4>1. t.user[x] = u /\ t.user[demon] = du /\ t.player[u] = x /\ t.player[du] = demon
        BY <2>1, <2>2, <3>0, <3>7, <3>12 DEF Sound, States
      <4>2. \A l \in Livings \ {x, demon} : t.user[l] = s.user[l]
        BY <3>12 DEF Sound, States
      <4>3. \A l \in Livings \ {x, demon} :
              t.user[l] # Nil => t.user[l] \in Users \ {u, du}
        BY <4>2, <2>1, <3>0, SessionAssumption DEF Linked, Sound, States
      <4>4. \A v \in Users \ {u, du} : t.player[v] = s.player[v]
        BY <3>7, <3>12 DEF Sound, States
      <4> QED BY <4>1, <4>2, <4>3, <4>4 DEF Linked
    <3>14. \A v \in Users : /\ t.player[v] \in Players \cup {Login} => t.splayer[v] = Nil
                            /\ t.splayer[v] \in Npcs => t.player[v] = Nil
      <4>1. t.splayer[u] = Nil /\ t.splayer[du] = Nil
        BY <2>1, <3>0, <3>7, <3>12 DEF Sound, States
      <4>2. \A v \in Users \ {u, du} : t.player[v] = s.player[v] /\ t.splayer[v] = s.splayer[v]
        BY <3>7, <3>12 DEF Sound, States
      <4> QED BY <4>1, <4>2, SessionAssumption DEF Linked, Livings
    <3> QED BY <3>13, <3>14 DEF Linked
  <2> QED BY <2>4, <2>5
<1> QED BY <1>1, <1>2

\* A player possesses an npc, which a demon without a saved body may hold.
\* If the npc was played, that connection is left without a body.
PossessedFree(s, t, w, by) ==
  LET du == s.user[by] IN
  /\ s.user[w] = Nil
  /\ t.user[w] = du /\ t.user[by] = Nil /\ t.player[du] = w /\ t.splayer[du] = by
  /\ \A l \in Livings \ {w, by} : t.user[l] = s.user[l]
  /\ \A v \in Users \ {du} : t.player[v] = s.player[v] /\ t.splayer[v] = s.splayer[v]

PossessedTaken(s, t, w, by) ==
  LET du == s.user[by]
      wu == s.user[w]
  IN  /\ wu # Nil /\ wu # du /\ s.splayer[wu] = Nil
      /\ t.user[w] = du /\ t.user[by] = Nil /\ t.player[du] = w /\ t.splayer[du] = by
      /\ t.player[wu] = Nil /\ t.splayer[wu] = w
      /\ \A l \in Livings \ {w, by} : t.user[l] = s.user[l]
      /\ \A v \in Users \ {du, wu} : t.player[v] = s.player[v] /\ t.splayer[v] = s.splayer[v]

LEMMA PossessionRoutes ==
  ASSUME NEW s, Sound(s), Linked(s), NEW w \in Npcs, NEW by \in s.body, s.user[by] # Nil
  PROVE  LET t == Possession(s, w, by) IN
         t = s \/ PossessedFree(s, t, w, by) \/ PossessedTaken(s, t, w, by)
<1> DEFINE du == s.user[by]
           wu == s.user[w]
           t  == Possession(s, w, by)
<1>1. /\ w \in Livings /\ by \in Livings /\ by \in Players /\ w # by /\ w # Login
      /\ by \notin Npcs /\ by # Nil /\ by # Login /\ w # Nil /\ w \notin Players
      /\ du \in s.uobj /\ du \in Users /\ s.player[du] = by
      /\ wu \in s.uobj \cup {Nil} /\ (wu # Nil => s.player[wu] = w /\ wu \in Users)
  BY SessionAssumption DEF Sound, States, Existing, Livings, Linked
<1>2. CASE t = s
  BY <1>2
<1>3. CASE MayForce(by, w) /\ wu = Nil
  <2> DEFINE t1 == SwitchPlayer(s, du, w)
             t2 == SetUser(t1, w, du)
  <2>1. t = SetUser(t2, by, Nil)
    BY <1>3 DEF Possession
  <2> HIDE DEF t
  <2>2. Routed(s, t1, du, by, w)
    BY <1>1, SwitchSound
  <2> HIDE DEF t1
  <2>3. Sound(t1) /\ du \in t1.uobj /\ t1.player[du] = w
    BY <1>1, <2>2 DEF Routed, SameWorld, Sound, States
  <2>4. Assigned(t1, t2, w, du) /\ Sound(t2)
    BY <1>1, <2>3, SetUserAssigns, SetUserSound
  <2> HIDE DEF t2
  <2>5. Assigned(t2, t, by, Nil)
    BY <1>1, <2>1, <2>4, SetUserAssigns
  <2>6. /\ t.user = [[s.user EXCEPT ![w] = du] EXCEPT ![by] = Nil]
        /\ t.player = [s.player EXCEPT ![du] = w]
        /\ t.splayer = [s.splayer EXCEPT ![du] = by]
    BY <2>2, <2>4, <2>5 DEF Routed, Assigned
  <2>7. /\ t.user[w] = du /\ t.user[by] = Nil /\ t.player[du] = w /\ t.splayer[du] = by
        /\ \A l \in Livings \ {w, by} : t.user[l] = s.user[l]
        /\ \A v \in Users \ {du} : t.player[v] = s.player[v] /\ t.splayer[v] = s.splayer[v]
    BY <1>1, <2>6 DEF Sound, States
  <2> QED BY <1>3, <2>7 DEF PossessedFree, t
<1>4. CASE MayForce(by, w) /\ wu # Nil /\ ~(s.splayer[wu] # Nil \/ s.snooper[wu] = du)
  <2> DEFINE t1 == SwitchPlayer(s, wu, Nil)
             t2 == SwitchPlayer(t1, du, w)
             t3 == [t2 EXCEPT !.snooper = [t2.snooper EXCEPT ![du] = wu]]
             t4 == SetUser(t3, w, du)
  <2>1. t = SetUser(t4, by, Nil)
    BY <1>4 DEF Possession
  <2> HIDE DEF t
  <2>2. Routed(s, t1, wu, w, Nil) /\ wu # du
    BY <1>1, <1>4, SwitchSound
  <2> HIDE DEF t1
  <2>3. /\ Sound(t1) /\ du \in t1.uobj /\ w \in t1.body \cup Npcs
        /\ t1.player[du] = by
    BY <1>1, <2>2 DEF Routed, SameWorld, Sound, States
  <2>4. Routed(t1, t2, du, by, w)
    BY <1>1, <2>3, SwitchSound
  <2> HIDE DEF t2
  <2>5. Sound(t2) /\ wu \in t2.uobj /\ du \in t2.uobj /\ t2.player[du] = w
    BY <1>1, <1>4, <2>2, <2>3, <2>4 DEF Routed, SameWorld, Sound, States
  <2>6. /\ Sound(t3) /\ du \in t3.uobj /\ t3.player[du] = w
        /\ t3.user = t2.user /\ t3.player = t2.player /\ t3.splayer = t2.splayer
    <3>1. Sound(t3) /\ SameWorld(t2, t3)
      BY <1>1, <2>5, SnooperSound
    <3>2. t3.user = t2.user /\ t3.player = t2.player /\ t3.splayer = t2.splayer
      BY <2>5 DEF Sound, States
    <3> HIDE DEF t3
    <3> QED BY <2>5, <3>1, <3>2 DEF SameWorld
  <2> HIDE DEF t3
  <2>7. Assigned(t3, t4, w, du) /\ Sound(t4)
    BY <1>1, <2>6, SetUserAssigns, SetUserSound
  <2> HIDE DEF t4
  <2>8. Assigned(t4, t, by, Nil)
    BY <1>1, <2>1, <2>7, SetUserAssigns
  <2>9. /\ t.user = [[s.user EXCEPT ![w] = du] EXCEPT ![by] = Nil]
        /\ t.player = [[s.player EXCEPT ![wu] = Nil] EXCEPT ![du] = w]
        /\ t.splayer = [[s.splayer EXCEPT ![wu] = w] EXCEPT ![du] = by]
    BY <2>2, <2>4, <2>6, <2>7, <2>8 DEF Routed, Assigned
  <2>10. /\ t.user[w] = du /\ t.user[by] = Nil
         /\ t.player[du] = w /\ t.splayer[du] = by
         /\ t.player[wu] = Nil /\ t.splayer[wu] = w
         /\ \A l \in Livings \ {w, by} : t.user[l] = s.user[l]
         /\ \A v \in Users \ {du, wu} : t.player[v] = s.player[v] /\ t.splayer[v] = s.splayer[v]
    BY <1>1, <1>4, <2>2, <2>9 DEF Sound, States
  <2> QED BY <1>4, <2>2, <2>10 DEF PossessedTaken, t
<1> QED BY <1>2, <1>3, <1>4 DEF Possession

LEMMA PossessionLinked ==
  ASSUME NEW s, Sound(s), Linked(s), NEW w \in Npcs, NEW by \in s.body, s.user[by] # Nil
  PROVE  Linked(Possession(s, w, by))
<1> DEFINE du == s.user[by]
           wu == s.user[w]
           t  == Possession(s, w, by)
<1>1. /\ w \in Livings /\ by \in Livings /\ by \in Players /\ w # by
      /\ by \notin Npcs /\ by # Nil /\ by # Login /\ w # Nil /\ w \notin Players /\ w # Login
      /\ du \in Users /\ s.player[du] = by
      /\ (wu # Nil => s.player[wu] = w /\ wu \in Users)
      /\ Nil \notin Players \cup {Login}
  BY SessionAssumption DEF Sound, States, Existing, Livings, Linked
<1>2. t = s \/ PossessedFree(s, t, w, by) \/ PossessedTaken(s, t, w, by)
  BY PossessionRoutes
<1> HIDE DEF t
<1>3. CASE PossessedFree(s, t, w, by)
  <2>1. \A l \in Livings \ {w, by} : s.user[l] # Nil => s.user[l] \in Users \ {du}
    BY <1>1 DEF Linked, Sound, States
  <2>2. \A l \in Livings : t.user[l] # Nil => t.player[t.user[l]] = l
    BY <1>1, <1>3, <2>1 DEF Linked, PossessedFree
  <2>3. \A v \in Users : /\ t.player[v] \in Players \cup {Login} => t.splayer[v] = Nil
                         /\ t.splayer[v] \in Npcs => t.player[v] = Nil
    BY <1>1, <1>3 DEF Linked, PossessedFree
  <2> QED BY <2>2, <2>3 DEF Linked, t
<1>4. CASE PossessedTaken(s, t, w, by)
  <2>1. \A l \in Livings \ {w, by} : s.user[l] # Nil => s.user[l] \in Users \ {du, wu}
    BY <1>1, <1>4 DEF Linked, Sound, States, PossessedTaken
  <2>2. \A l \in Livings : t.user[l] # Nil => t.player[t.user[l]] = l
    BY <1>1, <1>4, <2>1 DEF Linked, PossessedTaken
  <2>3. \A v \in Users : /\ t.player[v] \in Players \cup {Login} => t.splayer[v] = Nil
                         /\ t.splayer[v] \in Npcs => t.player[v] = Nil
    BY <1>1, <1>4 DEF Linked, PossessedTaken
  <2> QED BY <2>2, <2>3 DEF Linked, t
<1> QED BY <1>2, <1>3, <1>4 DEF t

\* set_linkdead(1) breaks no possession of a body whose connection has none saved.
LEMMA SetLinkdeadLinked ==
  ASSUME NEW s, Sound(s), NEW b,
         b \in Players /\ s.user[b] # Nil => s.splayer[s.user[b]] = Nil,
         NEW t \in SetLinkdead(s, b)
  PROVE  SameRoutes(s, t)
BY SessionAssumption DEF SetLinkdead, SameRoutes, Sound, States

\* The end of close() for a body whose connection has none saved.  It may be
\* called in a state in which only u itself is not linked: s is Linked but for
\* the player of u.
LEMMA CloseOwnLinked ==
  ASSUME NEW s, Sound(s), NEW q, Sound(q), Linked(q), NEW u \in Users,
         s.user = q.user, s.splayer = q.splayer,
         \A v \in Users \ {u} : s.player[v] = q.player[v],
         s.player[u] # Nil,
         \A l \in Livings : l = s.player[u] /\ l \in Players /\ s.user[l] # Nil
                              => s.splayer[s.user[l]] = Nil,
         NEW t \in CloseOwn(s, u)
  PROVE  Linked(t)
<1> DEFINE b == s.player[u]
           r == [s EXCEPT !.list = s.list \ {b}]
<1>1. PICK x \in SetLinkdead(r, b) : t = DestructUser(x, u)
  BY DEF CloseOwn
<1>2. Sound(r) /\ SameRoutes(s, r)
  BY DEF Sound, States, Existing, NoStray, SameRoutes
<1>3. b \in Players => b \in r.body
  BY DEF Sound, States, Existing
<1> HIDE DEF r
<1>4. b \in Players /\ r.user[b] # Nil => r.splayer[r.user[b]] = Nil
  BY <1>2 DEF SameRoutes, Livings
<1>5. SameRoutes(r, x)
  BY <1>1, <1>2, <1>4, SetLinkdeadLinked
<1>6. Sound(x) /\ x.user = q.user /\ x.splayer = q.splayer /\ x.player = s.player
  BY <1>1, <1>2, <1>3, <1>5, SetLinkdeadSound DEF SameRoutes
<1>7. SameRoutes(DestructUser(q, u), t)
  <2>1. [x.player EXCEPT ![u] = Nil] = [q.player EXCEPT ![u] = Nil]
    BY <1>6 DEF Sound, States
  <2>2. DestructUser(q, u).player = [q.player EXCEPT ![u] = Nil] /\ t.player = [x.player EXCEPT ![u] = Nil]
    BY <1>1, <1>6 DEF DestructUser, Sound, States
  <2>3. DestructUser(q, u).splayer = t.splayer /\ DestructUser(q, u).user = t.user
    BY <1>1, <1>6 DEF DestructUser, Sound, States
  <2> QED BY <2>1, <2>2, <2>3 DEF SameRoutes
<1> QED BY <1>7, DestructUserLinked, LinkedSame

LEMMA CloseLinked ==
  ASSUME NEW s, Sound(s), Linked(s), NEW u \in s.uobj, NEW t \in Close(s, u)
  PROVE  Linked(t)
<1>0. u \in Users
  BY DEF Sound, States
<1>1. CASE s.splayer[u] = Nil /\ s.player[u] = Nil
  BY <1>0, <1>1, DestructUserLinked DEF Close
<1>2. \A l \in Players : s.user[l] # Nil => s.splayer[s.user[l]] = Nil
  BY DEF Sound, States, Linked, Livings
<1>3. CASE s.splayer[u] = Nil /\ s.player[u] # Nil
  <2>1. t \in CloseOwn(s, u)
    BY <1>3 DEF Close
  <2> QED BY <1>0, <1>2, <1>3, <2>1, CloseOwnLinked
<1>4. CASE s.splayer[u] # Nil /\ s.player[u] = Nil
  BY <1>4 DEF Close
<1>5. CASE s.splayer[u] # Nil /\ s.player[u] # Nil
  <2>1. PICK q \in SetLinkdead(s, s.player[u]) :
          t \in CloseOwn([q EXCEPT !.player = [q.player EXCEPT ![u] = q.splayer[u]]], u)
    BY <1>5 DEF Close
  <2> DEFINE r == [q EXCEPT !.player = [q.player EXCEPT ![u] = q.splayer[u]]]
  <2>2. s.player[u] \notin Players
    BY <1>0, <1>5 DEF Linked
  <2>3. Sound(q) /\ SameRoutes(s, q) /\ Linked(q)
    BY <2>1, <2>2, SetLinkdeadSound, SetLinkdeadLinked, LinkedSame
  <2>4. r \in States
    BY <2>3, <1>0 DEF Sound, States
  <2>5. Existing(r)
    BY <2>3, <1>0 DEF Sound, States, Existing
  <2>6. NoStray(r)
    BY <2>3, <1>0, SessionAssumption DEF Sound, States, NoStray, Livings
  <2>7. Sound(r)
    BY <2>4, <2>5, <2>6 DEF Sound
  <2>8. /\ r.user = q.user /\ r.splayer = q.splayer /\ r.player[u] # Nil
        /\ \A v \in Users \ {u} : r.player[v] = q.player[v]
    BY <1>0, <1>5, <2>3 DEF Sound, States, SameRoutes
  <2> HIDE DEF r
  <2>9. \A l \in Players : r.user[l] # Nil => r.splayer[r.user[l]] = Nil
    BY <1>2, <2>3, <2>8 DEF SameRoutes
  <2>10. t \in CloseOwn(r, u)
    BY <2>1 DEF r
  <2> QED BY <1>0, <2>3, <2>7, <2>8, <2>9, <2>10, CloseOwnLinked
<1> QED BY <1>1, <1>3, <1>4, <1>5

LEMMA ExecLinked ==
  ASSUME NEW s, Sound(s), Linked(s), NEW u \in s.uobj, s.player[u] = Login, NEW p \in s.body
  PROVE  Linked(Exec(s, u, p))
<1> DEFINE r == IF s.user[p] = Nil THEN s ELSE DestructUser(s, s.user[p])
           q == [r EXCEPT !.player = [r.player EXCEPT ![u] = p]]
           t == Exec(s, u, p)
<1>1. /\ u \in Users /\ p \in Livings /\ p \in Players /\ p # Nil
      /\ s.user[p] \in Users \cup {Nil} /\ s.user[p] # u
  BY SessionAssumption DEF Sound, States, NoStray, Livings
<1>2. Sound(r) /\ Linked(r) /\ r.player[u] = Login
  <2>1. CASE s.user[p] = Nil
    BY <2>1
  <2>2. CASE s.user[p] # Nil
    <3>1. r = DestructUser(s, s.user[p])
      BY <2>2
    <3>2. Sound(r) /\ Linked(r)
      BY <1>1, <2>2, <3>1, DestructUserSound, DestructUserLinked
    <3>3. r.player[u] = Login
      BY <1>1, <3>1 DEF DestructUser, Sound, States
    <3> QED BY <3>2, <3>3
  <2> QED BY <2>1, <2>2
<1>3. t = SetUser(q, p, u)
  BY DEF Exec
<1> HIDE DEF r, t
<1>4. q.player[u] = p
  BY <1>1, <1>2 DEF Sound, States
<1>5. t = [q EXCEPT !.user = [q.user EXCEPT ![p] = u]]
  BY <1>3, <1>4 DEF SetUser
<1>6. /\ t.user = [r.user EXCEPT ![p] = u] /\ t.player = [r.player EXCEPT ![u] = p]
      /\ t.splayer = r.splayer
  BY <1>2, <1>5 DEF Sound, States
<1>7. /\ t.user[p] = u /\ t.player[u] = p
      /\ \A l \in Livings \ {p} : t.user[l] = r.user[l]
      /\ \A v \in Users \ {u} : t.player[v] = r.player[v]
  BY <1>1, <1>2, <1>6 DEF Sound, States
<1>8. \A l \in Livings : r.user[l] # Nil => r.user[l] \in Users \ {u}
  BY <1>2 DEF Sound, States, NoStray
<1>9. \A l \in Livings : t.user[l] # Nil => t.player[t.user[l]] = l
  BY <1>2, <1>7, <1>8 DEF Linked
<1>10. r.splayer[u] = Nil /\ Nil \notin Npcs
  BY <1>1, <1>2, SessionAssumption DEF Linked, Livings
<1>11. \A v \in Users : /\ t.player[v] \in Players \cup {Login} => t.splayer[v] = Nil
                        /\ t.splayer[v] \in Npcs => t.player[v] = Nil
  BY <1>2, <1>6, <1>7, <1>10 DEF Linked
<1> QED BY <1>9, <1>11 DEF Linked, t

LEMMA HauntLinked ==
  ASSUME NEW s, Sound(s), Linked(s), NEW p \in s.body, s.user[p] # Nil
  PROVE  Linked(Haunt(s, p))
<1>1. CASE s.haunts[p] = Nil
  BY <1>1 DEF Haunt
<1>2. CASE s.haunts[p] # Nil
  BY <1>2, PossessionLinked DEF Haunt, Sound, States
<1> QED BY <1>1, <1>2

LEMMA QuitOfLinked ==
  ASSUME NEW s, Sound(s), Linked(s), NEW b \in s.body, NEW t \in QuitOf(s, b)
  PROVE  Linked(t)
<1> DEFINE u == s.user[b]
<1>1. /\ b \in Players /\ b \in Livings /\ u \in s.uobj \cup {Nil} /\ (u # Nil => u \in Users)
  BY DEF Sound, States, Existing, Livings
<1>2. ~CanBreak(s, b, b)
  BY <1>1, SessionAssumption DEF CanBreak, MayForce
<1>3. CASE t = DestructBody(IF u # Nil /\ s.player[u] = b THEN DestructUser(s, u) ELSE s, b)
  BY <1>1, <1>3, DestructUserSound, DestructUserLinked, DestructBodyLinked
<1>4. CASE t = s
  BY <1>4
<1>5. CASE u # Nil /\ t \in Close(s, u)
  BY <1>1, <1>5, CloseLinked
<1> QED BY <1>2, <1>3, <1>4, <1>5 DEF QuitOf

LEMMA SnoopByLinked ==
  ASSUME NEW s, Sound(s), Linked(s), NEW a, NEW by, NEW on
  PROVE  Linked(SnoopBy(s, a, by, on))
<1>1. SameRoutes(s, SnoopBy(s, a, by, on))
  BY DEF SnoopBy, SameRoutes, Sound, States
<1> QED BY <1>1, LinkedSame

LEMMA EndsInLinked ==
  ASSUME NEW s, Sound(s), Linked(s), Becomes(s)
  PROVE  Linked(Now)'
<1>1. Now' = s
  BY DEF Now, Becomes, Sound, States
<1>2. Linked(Now)' <=> Linked(Now')
  BY DEF Linked, Now
<1> QED BY <1>1, <1>2

LEMMA InitLinked == Init => Linked(Now)
BY SessionAssumption DEF Init, Now, Linked, Livings

\* The actions that end in a linked state and move no statue.
LEMMA TaskLinked ==
  ASSUME SessionInd, Linked(Now), Victims \subseteq Npcs, NEW u \in Users,
         \/ LoginEnds(u) \/ LoseLink(u) \/ Quit(u)
         \/ \E p \in Players : EnterNew(u, p)
         \/ \E w \in Victims : PossessCmd(u, w) \/ BreakCmd(u, w)
         \/ \E by, on \in Players : Snoop(u, by, on)
  PROVE  Linked(Now)'
<1>0. Sound(Now) /\ Linked(Now)
  BY DEF SessionInd
<1>1. ASSUME LoginEnds(u) PROVE Linked(Now)'
  <2>1. PICK s : s = DestructUser(Now, u) /\ EndsIn(s)
    BY <1>1 DEF LoginEnds
  <2>2. Sound(s) /\ Linked(s)
    BY <1>0, <2>1, DestructUserSound, DestructUserLinked
  <2> QED BY <2>1, <2>2, EndsInLinked DEF EndsIn
<1>2. ASSUME LoseLink(u) PROVE Linked(Now)'
  <2> DEFINE r == [Now EXCEPT !.conn = conn \ {u}]
  <2>1. PICK s \in Close(r, u) : EndsIn(s)
    BY <1>2 DEF LoseLink
  <2>2. Sound(r) /\ u \in r.uobj
    BY <1>0, <1>2 DEF LoseLink, Now, Sound, States, Existing, NoStray
  <2>3. SameRoutes(Now, r)
    BY DEF SameRoutes, Now
  <2> HIDE DEF r
  <2>4. Sound(s) /\ Linked(s)
    BY <1>0, <2>1, <2>2, <2>3, LinkedSame, CloseSound, CloseLinked
  <2> QED BY <2>1, <2>4, EndsInLinked DEF EndsIn
<1>3. ASSUME Quit(u) PROVE Linked(Now)'
  <2>1. PICK b \in Players : Acts(u, b) /\ \E s \in QuitOf(Now, b) : EndsIn(s)
    BY <1>3 DEF Quit
  <2>2. b \in Now.body
    BY <1>0, <2>1 DEF Acts, Now, Sound, Existing
  <2>3. PICK s \in QuitOf(Now, b) : EndsIn(s)
    BY <2>1
  <2>4. Sound(s) /\ Linked(s)
    BY <1>0, <2>2, <2>3, QuitOfSound, QuitOfLinked
  <2> QED BY <2>3, <2>4, EndsInLinked DEF EndsIn
<1>4. ASSUME NEW p \in Players, EnterNew(u, p) PROVE Linked(Now)'
  <2> DEFINE r == [Now EXCEPT !.body = body \cup {p}, !.list = list \cup {p}]
  <2>1. PICK s : s = Exec(r, u, p) /\ EndsIn(s)
    BY <1>4 DEF EnterNew
  <2>2. r \in States /\ p \in r.body /\ r.player[u] = Login
    BY <1>0, <1>4 DEF EnterNew, Now, Sound, States
  <2>3. Existing(r)
    BY <1>0 DEF Now, Sound, Existing
  <2>4. NoStray(r) /\ u \in r.uobj
    BY <1>0, <1>4, SessionAssumption DEF EnterNew, Now, Sound, Existing, NoStray
  <2>5. SameRoutes(Now, r)
    BY DEF SameRoutes, Now
  <2> HIDE DEF r
  <2>6. Sound(r) /\ Linked(r)
    BY <1>0, <2>2, <2>3, <2>4, <2>5, LinkedSame DEF Sound
  <2>7. Sound(s) /\ Linked(s)
    BY <2>1, <2>2, <2>4, <2>6, ExecSound, ExecLinked
  <2> QED BY <2>1, <2>7, EndsInLinked DEF EndsIn
<1>5. ASSUME NEW w \in Victims, PossessCmd(u, w) PROVE Linked(Now)'
  <2>1. PICK by \in Players : /\ Acts(u, by) /\ user[by] # Nil
                              /\ EndsIn(Possession(Now, w, by))
    BY <1>5 DEF PossessCmd
  <2>2. PICK s : s = Possession(Now, w, by) /\ EndsIn(s)
    BY <2>1
  <2>3. by \in Now.body /\ w \in Npcs /\ Now.user[by] # Nil
    BY <1>0, <2>1 DEF Acts, Now, Sound, Existing
  <2>4. Sound(s) /\ Linked(s)
    BY <1>0, <2>2, <2>3, PossessionSound, PossessionLinked
  <2> QED BY <2>2, <2>4, EndsInLinked DEF EndsIn
<1>6. ASSUME NEW w \in Victims, BreakCmd(u, w) PROVE Linked(Now)'
  <2>1. PICK by \in Admins : \E s \in BreakPossession(Now, w, by) : EndsIn(s)
    BY <1>6 DEF BreakCmd
  <2>2. PICK s \in BreakPossession(Now, w, by) : EndsIn(s)
    BY <2>1
  <2>3. Sound(s) /\ Linked(s)
    BY <1>0, <2>2, BreakSound, BreakLinked
  <2> QED BY <2>2, <2>3, EndsInLinked DEF EndsIn
<1>7. ASSUME NEW by \in Players, NEW on \in Players, Snoop(u, by, on) PROVE Linked(Now)'
  <2>1. PICK a \in Players : EndsIn(SnoopBy(Now, a, by, on))
    BY <1>7 DEF Snoop
  <2>2. PICK s : s = SnoopBy(Now, a, by, on) /\ EndsIn(s)
    BY <2>1
  <2>3. Now.user[by] # Nil /\ Now.user[on] # Nil /\ by \in Livings /\ on \in Livings
    BY <1>0, <1>7, SessionAssumption DEF Snoop, Now, Sound, States, Livings
  <2>4. Sound(s) /\ Linked(s)
    BY <1>0, <2>2, <2>3, SnoopBySound, SnoopByLinked
  <2> QED BY <2>2, <2>4, EndsInLinked DEF EndsIn
<1> QED BY <1>1, <1>2, <1>3, <1>4, <1>5, <1>6, <1>7

LEMMA ConnectLinked ==
  ASSUME SessionInd, Linked(Now), NEW u \in Users, Connect(u)
  PROVE  Linked(Now)'
<1>1. u \notin uobj /\ splayer[u] = Nil /\ \A l \in Livings : user[l] # u
  BY SessionAssumption DEF SessionInd, Sound, Existing, Now, Connect
<1>2. /\ user' = user /\ splayer' = splayer /\ player'[u] = Login
      /\ \A v \in Users \ {u} : player'[v] = player[v]
      /\ \A l \in Livings : user[l] # Nil => user[l] \in Users
  BY DEF Connect, SessionInd, Sound, States, Now
<1>3. Nil \notin Npcs
  BY SessionAssumption DEF Livings
<1> QED BY <1>1, <1>2, <1>3 DEF Linked, Now

LEMMA EnterOldLinked ==
  ASSUME SessionInd, Linked(Now), NEW u \in Users, NEW p \in Players, EnterOld(u, p)
  PROVE  Linked(Now)'
<1> DEFINE r == [Now EXCEPT !.list = list \cup {p}]
<1>1. PICK s : s = Exec(r, u, p)
  OBVIOUS
<1>2. /\ Sound(r) /\ r.player[u] = Login /\ p \in r.body /\ u \in r.uobj
      /\ SameRoutes(Now, r)
  BY SessionAssumption
  DEF SessionInd, EnterOld, Now, Sound, States, Existing, NoStray, SameRoutes
<1>3. \/ EndsIn(Haunt(s, p))
      \/ EndsIn(s)
      \/ Becomes(Haunt([s EXCEPT !.stone = s.stone \ {p}], p))
  BY <1>1 DEF EnterOld
<1> HIDE DEF r
<1>4. Sound(s) /\ s.body = r.body /\ s.user[p] # Nil /\ Linked(s)
  BY <1>1, <1>2, LinkedSame, ExecSound, ExecLinked
<1>5. CASE EndsIn(Haunt(s, p))
  <2>1. PICK t : t = Haunt(s, p) /\ EndsIn(t)
    BY <1>5
  <2>2. Sound(t) /\ Linked(t)
    BY <1>2, <1>4, <2>1, HauntSound, HauntLinked
  <2> QED BY <2>1, <2>2, EndsInLinked DEF EndsIn
<1>6. CASE EndsIn(s)
  BY <1>4, <1>6, EndsInLinked DEF EndsIn
<1>7. CASE Becomes(Haunt([s EXCEPT !.stone = s.stone \ {p}], p))
  <2>1. PICK q : q = [s EXCEPT !.stone = s.stone \ {p}]
    OBVIOUS
  <2>2. Sound(q) /\ p \in q.body /\ q.user[p] # Nil /\ SameRoutes(s, q)
    BY <1>2, <1>4, <2>1 DEF Sound, States, Existing, NoStray, SameRoutes
  <2>3. PICK t : t = Haunt(q, p) /\ Becomes(t)
    BY <1>7, <2>1
  <2>4. Sound(t) /\ Linked(t)
    BY <1>4, <2>2, <2>3, LinkedSame, HauntSound, HauntLinked
  <2> QED BY <2>3, <2>4, EndsInLinked
<1> QED BY <1>3, <1>5, <1>6, <1>7

LEMMA SessionStepLinked ==
  Victims \subseteq Npcs /\ SessionInd /\ Linked(Now) /\ [Next]_vars => Linked(Now)'
<1> SUFFICES ASSUME Victims \subseteq Npcs, SessionInd, Linked(Now), [Next]_vars
             PROVE  Linked(Now)'
  OBVIOUS
<1>1. ASSUME UNCHANGED <<player, splayer, user>> PROVE Linked(Now)'
  BY <1>1 DEF Linked, Now
<1>2. CASE UNCHANGED vars
  BY <1>1, <1>2 DEF vars
<1>3. CASE Next
  <2>1. ASSUME NEW u \in Users,
               \/ Connect(u) \/ LoginEnds(u) \/ LoseLink(u) \/ Quit(u)
               \/ \E p \in Players : EnterNew(u, p) \/ EnterOld(u, p)
               \/ \E w \in Victims : PossessCmd(u, w) \/ BreakCmd(u, w)
               \/ \E by, on \in Players : Snoop(u, by, on)
        PROVE  Linked(Now)'
    BY <2>1, ConnectLinked, TaskLinked, EnterOldLinked
  <2>2. ASSUME NEW b \in Players, DelayLinkdead(b) \/ MoveStatue(b) PROVE Linked(Now)'
    BY <1>1, <2>2 DEF DelayLinkdead, MoveStatue
  <2> QED BY <1>3, <2>1, <2>2 DEF Next
<1> QED BY <1>2, <1>3

\* If only npcs are possessed, the connection that shows a living what happens
\* always has that living as the object its input goes to: what logging in,
\* exec(), possession() and losing the link set on either side never comes
\* apart, for any number of connections, players and demons.
THEOREM SessionLinksMatch == Victims \subseteq Npcs /\ Spec => []LinksMatch
<1>1. Linked(Now) => LinksMatch
  BY DEF Linked, Now, LinksMatch
<1> SUFFICES ASSUME Victims \subseteq Npcs PROVE Spec => []LinksMatch
  OBVIOUS
<1>2. SessionInd /\ Linked(Now) /\ [Next]_vars => Linked(Now)'
  BY SessionStepLinked
<1> QED BY <1>1, <1>2, InitLinked, SessionAlwaysInd, PTL DEF Spec

(***************************************************************************)
(* If besides nobody breaks another's possession, connections, bodies and  *)
(* the people list agree on who is there.                                  *)
(***************************************************************************)

\* A connection that plays a living is the one that living knows.
AnsweredBut(s, U) == \A u \in Users \ U : s.player[u] \in Livings => s.user[s.player[u]] = u

\* Who is at a login has a connection that is open; a saved body of a player is
\* that of a demon in an npc.
AwakeBut(s, U) ==
  \A u \in Users \ U : /\ s.player[u] = Login => u \in s.conn
                       /\ s.splayer[u] \in Players => s.player[u] \in Npcs

\* Who is on the people list can be reached; a statue has no link.
ListedBut(s, P) == \A p \in s.list \ P : \E u \in s.conn : p \in {s.player[u], s.splayer[u]}
NoLinksBut(s, P) == \A p \in s.stone \ P : s.user[p] \notin s.conn

Reach(s) == AnsweredBut(s, {}) /\ AwakeBut(s, {}) /\ ListedBut(s, {})

LEMMA Names ==
  /\ Nil \notin Livings \cup {Login} \cup Users /\ Login \notin Livings
  /\ Players \subseteq Livings /\ Npcs \subseteq Livings
  /\ Livings = Players \cup Npcs /\ Players \cap Npcs = {}
BY SessionAssumption DEF Livings

\* No possession is broken: nobody can force himself.
LEMMA SetLinkdeadQuiet ==
  ASSUME NEW s, Sound(s), NEW b \in Livings \cup {Login},
         b \in Players /\ s.user[b] # Nil => s.splayer[s.user[b]] = Nil,
         NEW t \in SetLinkdead(s, b)
  PROVE  SameRoutes(s, t) /\ t.conn = s.conn /\ t.list = s.list /\ t.stone = s.stone
BY SessionAssumption DEF SetLinkdead, SameRoutes, Sound, States, Livings

\* A connection object goes; what it played and saved may be anything.
LEMMA DestructUserReach ==
  ASSUME NEW s, Sound(s), NEW u \in Users, AnsweredBut(s, {u}), AwakeBut(s, {u}), NEW P,
         \A p \in s.list \ P : \E v \in s.conn \ {u} : p \in {s.player[v], s.splayer[v]}
  PROVE  LET t == DestructUser(s, u) IN
         /\ AnsweredBut(t, {}) /\ AwakeBut(t, {}) /\ ListedBut(t, P)
         /\ \A Q : NoLinksBut(s, Q) => NoLinksBut(t, Q)
<1> DEFINE t == DestructUser(s, u)
<1>1. /\ t.conn = s.conn \ {u} /\ t.list = s.list /\ t.stone = s.stone
      /\ \A v \in Users : t.player[v] = (IF v = u THEN Nil ELSE s.player[v])
      /\ \A v \in Users : t.splayer[v] = (IF v = u THEN Nil ELSE s.splayer[v])
      /\ \A l \in Livings : t.user[l] = (IF s.user[l] = u THEN Nil ELSE s.user[l])
  BY DEF DestructUser, Without, Sound, States
<1> HIDE DEF t
<1>2. s.conn \subseteq Users /\ s.stone \subseteq Livings
  BY Names DEF Sound, States
<1>3. AnsweredBut(t, {})
  BY <1>1, <1>2, Names DEF AnsweredBut
<1>4. AwakeBut(t, {})
  BY <1>1, <1>2, Names DEF AwakeBut
<1>5. ListedBut(t, P)
  BY <1>1, <1>2 DEF ListedBut
<1>6. ASSUME NEW Q, NoLinksBut(s, Q) PROVE NoLinksBut(t, Q)
  BY <1>1, <1>2, <1>6, Names DEF NoLinksBut
<1> QED BY <1>3, <1>4, <1>5, <1>6 DEF t

LEMMA DestructBodyReach ==
  ASSUME NEW s, Sound(s), NEW b \in Players,
         AnsweredBut(s, {}), AwakeBut(s, {}), ListedBut(s, {b})
  PROVE  Reach(DestructBody(s, b)) /\ (NoLinksBut(s, {}) => NoLinksBut(DestructBody(s, b), {}))
<1> DEFINE t == DestructBody(s, b)
<1>1. /\ t.conn = s.conn /\ t.list = s.list \ {b} /\ t.stone = s.stone \ {b}
      /\ \A v \in Users : t.player[v] = (IF s.player[v] = b THEN Nil ELSE s.player[v])
      /\ \A v \in Users : t.splayer[v] = (IF s.splayer[v] = b THEN Nil ELSE s.splayer[v])
      /\ \A l \in Livings : t.user[l] = (IF l = b THEN Nil ELSE s.user[l])
  BY DEF DestructBody, Without, Sound, States
<1> HIDE DEF t
<1>2. s.conn \subseteq Users /\ s.stone \subseteq Livings
  BY Names DEF Sound, States
<1>3. AnsweredBut(t, {})
  BY <1>1, <1>2, Names DEF Reach, AnsweredBut
<1>4. AwakeBut(t, {})
  BY <1>1, <1>2, Names DEF Reach, AwakeBut
<1>5. ListedBut(t, {})
  BY <1>1, <1>2 DEF Reach, ListedBut
<1>6. NoLinksBut(s, {}) => NoLinksBut(t, {})
  BY <1>1, <1>2 DEF NoLinksBut
<1> QED BY <1>3, <1>4, <1>5, <1>6 DEF Reach, t

LEMMA PossessionReach ==
  ASSUME NEW s, Sound(s), Linked(s), Reach(s), NEW w \in Npcs, NEW by \in s.body, s.user[by] # Nil
  PROVE  LET t == Possession(s, w, by) IN
         Reach(t) /\ (NoLinksBut(s, {}) => NoLinksBut(t, {}))
<1> DEFINE du == s.user[by]
           wu == s.user[w]
           t  == Possession(s, w, by)
<1>1. /\ w \in Livings /\ by \in Livings /\ by \in Players /\ w # by /\ w \notin Players
      /\ du \in Users /\ s.player[du] = by /\ s.splayer[du] = Nil
      /\ (wu # Nil => s.player[wu] = w /\ wu \in Users)
      /\ s.conn \subseteq Users /\ s.stone \subseteq Players /\ s.list \subseteq Players
  BY SessionAssumption DEF Sound, States, Existing, Livings, Linked
<1>2. t = s \/ PossessedFree(s, t, w, by) \/ PossessedTaken(s, t, w, by)
  BY PossessionRoutes
<1>3. t.conn = s.conn /\ t.list = s.list /\ t.stone = s.stone
  BY <1>1, PossessionSound DEF SameWorld
<1> HIDE DEF t
<1>4. CASE PossessedFree(s, t, w, by)
  <2>1. AnsweredBut(t, {})
    <3>1. \A v \in Users \ {du} : s.player[v] \in Livings => s.player[v] \notin {w, by}
      BY <1>1, <1>4, Names DEF Reach, AnsweredBut, PossessedFree
    <3> QED BY <1>1, <1>4, <3>1 DEF Reach, AnsweredBut, PossessedFree
  <2>2. AwakeBut(t, {})
    BY <1>1, <1>3, <1>4, Names DEF Reach, AwakeBut, PossessedFree
  <2>3. ListedBut(t, {})
    BY <1>1, <1>3, <1>4, Names DEF Reach, ListedBut, PossessedFree
  <2>4. NoLinksBut(s, {}) => NoLinksBut(t, {})
    BY <1>1, <1>3, <1>4, Names DEF NoLinksBut, PossessedFree
  <2> QED BY <2>1, <2>2, <2>3, <2>4 DEF Reach, t
<1>5. CASE PossessedTaken(s, t, w, by)
  <2>1. AnsweredBut(t, {})
    <3>1. \A v \in Users \ {du, wu} : s.player[v] \in Livings => s.player[v] \notin {w, by}
      BY <1>1, <1>5, Names DEF Reach, AnsweredBut, PossessedTaken
    <3> QED BY <1>1, <1>5, <3>1, Names DEF Reach, AnsweredBut, PossessedTaken
  <2>2. AwakeBut(t, {})
    BY <1>1, <1>3, <1>5, Names DEF Reach, AwakeBut, PossessedTaken
  <2>3. ListedBut(t, {})
    BY <1>1, <1>3, <1>5, Names DEF Reach, ListedBut, PossessedTaken
  <2>4. NoLinksBut(s, {}) => NoLinksBut(t, {})
    BY <1>1, <1>3, <1>5, Names DEF NoLinksBut, PossessedTaken
  <2> QED BY <2>1, <2>2, <2>3, <2>4 DEF Reach, t
<1> QED BY <1>2, <1>4, <1>5 DEF t

\* The end of close(): who leaves is on the people list no more.
LEMMA CloseOwnReach ==
  ASSUME NEW s, Sound(s), NEW u \in Users, AnsweredBut(s, {u}), AwakeBut(s, {u}),
         NEW b \in Livings \cup {Login}, b = s.player[u],
         b \in Players /\ s.user[b] # Nil => s.splayer[s.user[b]] = Nil,
         \A p \in s.list \ {b} : \E v \in s.conn \ {u} : p \in {s.player[v], s.splayer[v]},
         NEW t \in CloseOwn(s, u)
  PROVE  Reach(t) /\ (NoLinksBut(s, {}) => NoLinksBut(t, {}))
<1> DEFINE r == [s EXCEPT !.list = s.list \ {b}]
<1>1. PICK x \in SetLinkdead(r, b) : t = DestructUser(x, u)
  BY Names DEF CloseOwn
<1>2. Sound(r) /\ SameRoutes(s, r) /\ r.conn = s.conn /\ r.list = s.list \ {b} /\ r.stone = s.stone
  BY DEF Sound, States, Existing, NoStray, SameRoutes
<1>3. b \in Players => b \in r.body
  BY DEF Sound, States, Existing
<1> HIDE DEF r
<1>4. b \in Players /\ r.user[b] # Nil => r.splayer[r.user[b]] = Nil
  BY <1>2 DEF SameRoutes
<1>5. Sound(x) /\ SameRoutes(r, x) /\ x.conn = r.conn /\ x.list = r.list /\ x.stone = r.stone
  BY <1>1, <1>2, <1>3, <1>4, SetLinkdeadQuiet, SetLinkdeadSound
<1>6. AnsweredBut(x, {u}) /\ AwakeBut(x, {u})
  BY <1>2, <1>5 DEF AnsweredBut, AwakeBut, SameRoutes
<1>7. \A p \in x.list \ {} : \E v \in x.conn \ {u} : p \in {x.player[v], x.splayer[v]}
  BY <1>2, <1>5 DEF SameRoutes
<1>8. NoLinksBut(s, {}) => NoLinksBut(x, {})
  BY <1>2, <1>5 DEF NoLinksBut, SameRoutes
<1> QED BY <1>1, <1>5, <1>6, <1>7, <1>8, DestructUserReach DEF Reach

\* close(): the connection u may be closed already.
LEMMA CloseReach ==
  ASSUME NEW s, Sound(s), Linked(s), NEW u \in s.uobj, AnsweredBut(s, {}), AwakeBut(s, {u}),
         s.splayer[u] \in Players => s.player[u] \in Npcs,
         \A p \in s.list : \E v \in s.conn \cup {u} : p \in {s.player[v], s.splayer[v]},
         NEW t \in Close(s, u)
  PROVE  Reach(t) /\ (NoLinksBut(s, {}) => NoLinksBut(t, {}))
<1>1. /\ u \in Users /\ s.list \subseteq Players
      /\ s.player[u] \in Livings \cup {Login, Nil} /\ s.splayer[u] \in Livings \cup {Nil}
      /\ AnsweredBut(s, {u})
  BY DEF Sound, States, AnsweredBut
<1>2. \A l \in Players : s.user[l] # Nil => s.splayer[s.user[l]] = Nil
  BY DEF Sound, States, Linked, Livings
<1>3. CASE s.splayer[u] = Nil /\ s.player[u] = Nil
  <2>1. t = DestructUser(s, u)
    BY <1>3 DEF Close
  <2>2. \A p \in s.list \ {} : \E v \in s.conn \ {u} : p \in {s.player[v], s.splayer[v]}
    BY <1>1, <1>3, Names
  <2> QED BY <1>1, <2>1, <2>2, DestructUserReach DEF Reach
<1>4. CASE s.splayer[u] = Nil /\ s.player[u] # Nil
  <2>1. t \in CloseOwn(s, u) /\ s.player[u] \in Livings \cup {Login}
    BY <1>1, <1>4 DEF Close
  <2>2. \A p \in s.list \ {s.player[u]} :
          \E v \in s.conn \ {u} : p \in {s.player[v], s.splayer[v]}
    BY <1>1, <1>4, Names
  <2> QED BY <1>1, <1>2, <2>1, <2>2, CloseOwnReach
<1>5. CASE s.splayer[u] # Nil /\ s.player[u] = Nil
  <2>1. t = s /\ s.splayer[u] \notin Players
    BY <1>5, Names DEF Close
  <2>2. AwakeBut(s, {})
    BY <1>5, <2>1, Names DEF AwakeBut
  <2>3. ListedBut(s, {})
    BY <1>1, <1>5, <2>1, Names DEF ListedBut
  <2> QED BY <2>1, <2>2, <2>3 DEF Reach
<1>6. CASE s.splayer[u] # Nil /\ s.player[u] # Nil
  <2> DEFINE d == s.splayer[u]
  <2>1. s.player[u] \in Npcs /\ d \in Players
    BY <1>1, <1>6, Names DEF Linked
  <2>2. PICK q \in SetLinkdead(s, s.player[u]) :
          t \in CloseOwn([q EXCEPT !.player = [q.player EXCEPT ![u] = q.splayer[u]]], u)
    BY <1>6 DEF Close
  <2> DEFINE r == [q EXCEPT !.player = [q.player EXCEPT ![u] = q.splayer[u]]]
  <2>3. /\ Sound(q) /\ SameRoutes(s, q)
        /\ q.conn = s.conn /\ q.list = s.list /\ q.stone = s.stone
    BY <2>1, <2>2, Names, SetLinkdeadSound, SetLinkdeadQuiet
  <2>4. r \in States
    BY <2>3, <1>1 DEF Sound, States
  <2>5. Existing(r)
    BY <2>3, <1>1 DEF Sound, States, Existing
  <2>6. NoStray(r)
    BY <2>3, <1>1, SessionAssumption DEF Sound, States, NoStray, Livings
  <2>7. Sound(r)
    BY <2>4, <2>5, <2>6 DEF Sound
  <2>8. /\ r.user = s.user /\ r.splayer = s.splayer /\ r.player[u] = d
        /\ \A v \in Users \ {u} : r.player[v] = s.player[v]
        /\ r.conn = s.conn /\ r.list = s.list /\ r.stone = s.stone
    BY <1>1, <2>3 DEF Sound, States, SameRoutes
  <2> HIDE DEF r
  <2>9. AnsweredBut(r, {u}) /\ AwakeBut(r, {u}) /\ (NoLinksBut(s, {}) => NoLinksBut(r, {}))
    BY <2>8 DEF AnsweredBut, AwakeBut, NoLinksBut
  <2>10. d \in Players /\ r.user[d] # Nil => r.splayer[r.user[d]] = Nil
    BY <1>2, <2>8
  <2>11. \A p \in r.list \ {d} : \E v \in r.conn \ {u} : p \in {r.player[v], r.splayer[v]}
    <3> SUFFICES ASSUME NEW p \in r.list \ {d}
                 PROVE  \E v \in r.conn \ {u} : p \in {r.player[v], r.splayer[v]}
      OBVIOUS
    <3>1. PICK v \in s.conn \cup {u} : p \in {s.player[v], s.splayer[v]}
      BY <2>8
    <3>2. v # u /\ v \in Users
      BY <1>1, <2>1, <2>8, <3>1, Names DEF Sound, States
    <3> QED BY <2>8, <3>1, <3>2
  <2>12. t \in CloseOwn(r, u)
    BY <2>2 DEF r
  <2> QED BY <1>1, <2>1, <2>7, <2>8, <2>9, <2>10, <2>11, <2>12, CloseOwnReach, Names
<1> QED BY <1>3, <1>4, <1>5, <1>6

\* exec(): the body p, for which nobody need be there yet, is reached at u.
LEMMA ExecReach ==
  ASSUME NEW s, Sound(s), Linked(s), AnsweredBut(s, {}), AwakeBut(s, {}),
         NEW p \in s.body, ListedBut(s, {p}),
         NEW u \in s.uobj, s.player[u] = Login
  PROVE  LET t == Exec(s, u, p) IN
         /\ Reach(t) /\ t.stone = s.stone
         /\ NoLinksBut(s, {}) => NoLinksBut(t, {p})
<1> DEFINE r == IF s.user[p] = Nil THEN s ELSE DestructUser(s, s.user[p])
           q == [r EXCEPT !.player = [r.player EXCEPT ![u] = p]]
           t == Exec(s, u, p)
<1>1. /\ u \in Users /\ p \in Livings /\ p \in Players /\ p # Nil
      /\ s.user[p] \in Users \cup {Nil} /\ s.user[p] # u
      /\ u \in s.conn /\ s.splayer[u] = Nil
      /\ s.list \subseteq Players
  BY SessionAssumption DEF Sound, States, NoStray, Livings, AwakeBut, Linked
<1>2. /\ Sound(r) /\ AnsweredBut(r, {}) /\ AwakeBut(r, {}) /\ ListedBut(r, {p})
      /\ NoLinksBut(s, {}) => NoLinksBut(r, {})
      /\ r.user[p] = Nil /\ r.player[u] = Login /\ r.splayer[u] = Nil
      /\ u \in r.conn /\ r.stone = s.stone /\ r.list = s.list
  <2>1. CASE s.user[p] = Nil
    BY <1>1, <2>1
  <2>2. CASE s.user[p] # Nil
    <3> DEFINE v == s.user[p]
    <3>1. r = DestructUser(s, v) /\ v \in Users /\ s.player[v] = p /\ s.splayer[v] = Nil
      BY <1>1, <2>2 DEF Linked
    <3>2. \A m \in s.list \ {p} : \E v2 \in s.conn \ {v} : m \in {s.player[v2], s.splayer[v2]}
      BY <1>1, <3>1, Names DEF ListedBut
    <3>3. AnsweredBut(s, {v}) /\ AwakeBut(s, {v})
      BY DEF AnsweredBut, AwakeBut
    <3>4. /\ AnsweredBut(r, {}) /\ AwakeBut(r, {}) /\ ListedBut(r, {p})
          /\ NoLinksBut(s, {}) => NoLinksBut(r, {})
      BY <3>1, <3>2, <3>3, DestructUserReach
    <3>5. Sound(r)
      BY <3>1, DestructUserSound
    <3>6. /\ r.user[p] = Nil /\ r.player[u] = Login /\ r.splayer[u] = Nil
          /\ u \in r.conn /\ r.stone = s.stone /\ r.list = s.list
      BY <1>1, <3>1 DEF DestructUser, Without, Sound, States
    <3> QED BY <3>4, <3>5, <3>6
  <2> QED BY <2>1, <2>2
<1>3. t = SetUser(q, p, u)
  BY DEF Exec
<1> HIDE DEF r, t
<1>4. q.player[u] = p
  BY <1>1, <1>2 DEF Sound, States
<1>5. t = [q EXCEPT !.user = [q.user EXCEPT ![p] = u]]
  BY <1>3, <1>4 DEF SetUser
<1>6. /\ t.user = [r.user EXCEPT ![p] = u] /\ t.player = [r.player EXCEPT ![u] = p]
      /\ t.splayer = r.splayer /\ t.conn = r.conn /\ t.stone = r.stone /\ t.list = r.list
  BY <1>2, <1>5 DEF Sound, States
<1>7. /\ t.user[p] = u /\ t.player[u] = p
      /\ \A l \in Livings \ {p} : t.user[l] = r.user[l]
      /\ \A v \in Users \ {u} : t.player[v] = r.player[v]
      /\ r.conn \subseteq Users /\ r.stone \subseteq Livings
  BY <1>1, <1>2, <1>6, Names DEF Sound, States
<1>8. AnsweredBut(t, {})
  BY <1>1, <1>2, <1>7, Names DEF AnsweredBut
<1>9. AwakeBut(t, {})
  BY <1>1, <1>2, <1>6, <1>7, Names DEF AwakeBut
<1>10. ListedBut(t, {})
  BY <1>1, <1>2, <1>6, <1>7, Names DEF ListedBut
<1>11. NoLinksBut(s, {}) => NoLinksBut(t, {p})
  BY <1>2, <1>6, <1>7 DEF NoLinksBut
<1> QED BY <1>2, <1>6, <1>8, <1>9, <1>10, <1>11 DEF Reach, t

LEMMA HauntReach ==
  ASSUME NEW s, Sound(s), Linked(s), Reach(s), NEW p \in s.body, s.user[p] # Nil
  PROVE  Reach(Haunt(s, p)) /\ (NoLinksBut(s, {}) => NoLinksBut(Haunt(s, p), {}))
<1>1. CASE s.haunts[p] = Nil
  BY <1>1 DEF Haunt
<1>2. CASE s.haunts[p] # Nil
  BY <1>2, PossessionReach DEF Haunt, Sound, States
<1> QED BY <1>1, <1>2

LEMMA QuitOfReach ==
  ASSUME NEW s, Sound(s), Linked(s), Reach(s), NEW b \in s.body, NEW t \in QuitOf(s, b)
  PROVE  Reach(t) /\ (NoLinksBut(s, {}) => NoLinksBut(t, {}))
<1> DEFINE u == s.user[b]
<1>1. /\ b \in Players /\ b \in Livings /\ u \in s.uobj \cup {Nil} /\ (u # Nil => u \in Users)
      /\ s.list \subseteq Players /\ s.conn \subseteq Users
  BY DEF Sound, States, Existing, Livings
<1>2. ~CanBreak(s, b, b)
  BY <1>1, SessionAssumption DEF CanBreak, MayForce
<1>3. CASE t = DestructBody(IF u # Nil /\ s.player[u] = b THEN DestructUser(s, u) ELSE s, b)
  <2>1. CASE u # Nil /\ s.player[u] = b
    <3> DEFINE r == DestructUser(s, u)
    <3>1. s.splayer[u] = Nil /\ AnsweredBut(s, {u}) /\ AwakeBut(s, {u})
      BY <1>1, <2>1 DEF Linked, Reach, AnsweredBut, AwakeBut
    <3>2. \A p \in s.list \ {b} : \E v \in s.conn \ {u} : p \in {s.player[v], s.splayer[v]}
      BY <1>1, <2>1, <3>1, Names DEF Reach, ListedBut
    <3>3. /\ AnsweredBut(r, {}) /\ AwakeBut(r, {}) /\ ListedBut(r, {b})
          /\ NoLinksBut(s, {}) => NoLinksBut(r, {})
      BY <1>1, <2>1, <3>1, <3>2, DestructUserReach
    <3>4. Sound(r)
      BY <1>1, <2>1, DestructUserSound
    <3>5. t = DestructBody(r, b)
      BY <1>3, <2>1
    <3> HIDE DEF r
    <3> QED BY <1>1, <3>3, <3>4, <3>5, DestructBodyReach
  <2>2. CASE ~(u # Nil /\ s.player[u] = b)
    <3>1. t = DestructBody(s, b)
      BY <1>3, <2>2
    <3>2. AnsweredBut(s, {}) /\ AwakeBut(s, {}) /\ ListedBut(s, {b})
      BY DEF Reach, ListedBut
    <3> QED BY <1>1, <3>1, <3>2, DestructBodyReach
  <2> QED BY <2>1, <2>2
<1>4. CASE t = s
  BY <1>4
<1>5. CASE u # Nil /\ t \in Close(s, u)
  <2>1. AnsweredBut(s, {}) /\ AwakeBut(s, {u})
    BY DEF Reach, AwakeBut
  <2>2. \A p \in s.list : \E v \in s.conn \cup {u} : p \in {s.player[v], s.splayer[v]}
    BY DEF Reach, ListedBut
  <2>3. s.splayer[u] \in Players => s.player[u] \in Npcs
    BY <1>1, <1>5 DEF Reach, AwakeBut
  <2> QED BY <1>1, <1>5, <2>1, <2>2, <2>3, CloseReach
<1> QED BY <1>2, <1>3, <1>4, <1>5 DEF QuitOf

(***************************************************************************)
(* Who is not played is a statue, or delay_linkdead() is to come.          *)
(***************************************************************************)

Played(s, p) == \E u \in Users : p \in {s.player[u], s.splayer[u]}
KeptBut(s, P) == \A p \in s.body \ P : Played(s, p) \/ p \in s.delay \cup s.stone

\* A connection object may go if whom it played or saved has been seen to.
LEMMA DestructUserKept ==
  ASSUME NEW s, Sound(s), NEW u \in Users, NEW P, KeptBut(s, P),
         \A p \in s.body \ P : p \in {s.player[u], s.splayer[u]} => p \in s.delay \cup s.stone
  PROVE  KeptBut(DestructUser(s, u), P)
<1> DEFINE t == DestructUser(s, u)
<1>1. /\ t.body = s.body /\ t.delay = s.delay /\ t.stone = s.stone
      /\ \A v \in Users \ {u} : t.player[v] = s.player[v] /\ t.splayer[v] = s.splayer[v]
  BY DEF DestructUser, Sound, States
<1> HIDE DEF t
<1>2. KeptBut(t, P)
  BY <1>1 DEF KeptBut, Played
<1> QED BY <1>2 DEF t

LEMMA DestructBodyKept ==
  ASSUME NEW s, Sound(s), NEW b \in Players, KeptBut(s, {b})
  PROVE  KeptBut(DestructBody(s, b), {})
<1> DEFINE t == DestructBody(s, b)
<1>1. /\ t.body = s.body \ {b} /\ t.delay = s.delay \ {b} /\ t.stone = s.stone \ {b}
      /\ \A v \in Users : t.player[v] = (IF s.player[v] = b THEN Nil ELSE s.player[v])
      /\ \A v \in Users : t.splayer[v] = (IF s.splayer[v] = b THEN Nil ELSE s.splayer[v])
  BY DEF DestructBody, Without, Sound, States
<1> HIDE DEF t
<1>2. KeptBut(t, {})
  BY <1>1 DEF KeptBut, Played
<1> QED BY <1>2 DEF t

LEMMA PossessionKept ==
  ASSUME NEW s, Sound(s), Linked(s), KeptBut(s, {}),
         NEW w \in Npcs, NEW by \in s.body, s.user[by] # Nil
  PROVE  KeptBut(Possession(s, w, by), {})
<1> DEFINE du == s.user[by]
           wu == s.user[w]
           t  == Possession(s, w, by)
<1>1. /\ w \in Livings /\ by \in Livings /\ w \notin Players /\ s.body \subseteq Players
      /\ du \in Users /\ s.player[du] = by /\ s.splayer[du] = Nil
      /\ (wu # Nil => s.player[wu] = w /\ wu \in Users)
  BY SessionAssumption DEF Sound, States, Existing, Livings, Linked
<1>2. t = s \/ PossessedFree(s, t, w, by) \/ PossessedTaken(s, t, w, by)
  BY PossessionRoutes
<1>3. t.body = s.body /\ t.delay = s.delay /\ t.stone = s.stone
  BY <1>1, PossessionSound DEF SameWorld
<1> HIDE DEF t
<1>4. Nil \notin s.body
  BY <1>1, Names
<1>5. ASSUME NEW p \in s.body, Played(s, p), t # s PROVE Played(t, p)
  <2>1. PICK v \in Users : p \in {s.player[v], s.splayer[v]}
    BY <1>5 DEF Played
  <2>2. CASE v = du
    <3>1. p = by
      BY <1>1, <1>4, <2>1, <2>2
    <3>2. t.splayer[du] = by
      BY <1>2, <1>5 DEF PossessedFree, PossessedTaken
    <3> QED BY <1>1, <3>1, <3>2 DEF Played
  <2>3. CASE v # du
    <3>1. PossessedTaken(s, t, w, by) => v # wu
      BY <1>1, <1>4, <2>1 DEF PossessedTaken
    <3>2. t.player[v] = s.player[v] /\ t.splayer[v] = s.splayer[v]
      BY <1>2, <1>5, <2>3, <3>1 DEF PossessedFree, PossessedTaken
    <3> QED BY <2>1, <3>2 DEF Played
  <2> QED BY <2>2, <2>3
<1>6. KeptBut(t, {})
  BY <1>3, <1>5 DEF KeptBut
<1> QED BY <1>6 DEF t

\* set_linkdead(1) sees to its player, and takes that from nobody.
LEMMA SetLinkdeadKept ==
  ASSUME NEW s, Sound(s), NEW b \in Livings \cup {Login},
         b \in Players /\ s.user[b] # Nil => s.splayer[s.user[b]] = Nil,
         NEW t \in SetLinkdead(s, b)
  PROVE  /\ s.delay \cup s.stone \subseteq t.delay \cup t.stone
         /\ b \in Players => b \in t.delay \cup t.stone
BY SessionAssumption DEF SetLinkdead, Sound, States, Livings

LEMMA CloseOwnKept ==
  ASSUME NEW s, Sound(s), KeptBut(s, {}), NEW u \in Users,
         NEW b \in Livings \cup {Login}, b = s.player[u], s.splayer[u] \in {b, Nil},
         b \in Players /\ s.user[b] # Nil => s.splayer[s.user[b]] = Nil,
         NEW t \in CloseOwn(s, u)
  PROVE  KeptBut(t, {})
<1> DEFINE r == [s EXCEPT !.list = s.list \ {b}]
<1>1. PICK x \in SetLinkdead(r, b) : t = DestructUser(x, u)
  BY Names DEF CloseOwn
<1>2. /\ Sound(r) /\ SameRoutes(s, r) /\ r.body = s.body
      /\ r.delay = s.delay /\ r.stone = s.stone
  BY DEF Sound, States, Existing, NoStray, SameRoutes
<1>3. b \in Players => b \in r.body
  BY DEF Sound, States, Existing
<1> HIDE DEF r
<1>4. b \in Players /\ r.user[b] # Nil => r.splayer[r.user[b]] = Nil
  BY <1>2 DEF SameRoutes
<1>5. Sound(x) /\ x.body = r.body /\ SameRoutes(r, x)
  BY <1>1, <1>2, <1>3, <1>4, SetLinkdeadQuiet, SetLinkdeadSound
<1>6. /\ r.delay \cup r.stone \subseteq x.delay \cup x.stone
      /\ b \in Players => b \in x.delay \cup x.stone
  BY <1>1, <1>2, <1>4, SetLinkdeadKept
<1>7. KeptBut(x, {})
  BY <1>2, <1>5, <1>6 DEF KeptBut, Played, SameRoutes
<1>8. \A p \in x.body \ {} : p \in {x.player[u], x.splayer[u]} => p \in x.delay \cup x.stone
  BY <1>2, <1>5, <1>6, Names DEF SameRoutes, Sound, States
<1> QED BY <1>1, <1>5, <1>7, <1>8, DestructUserKept

LEMMA CloseKept ==
  ASSUME NEW s, Sound(s), Linked(s), KeptBut(s, {}), NEW u \in s.uobj,
         s.splayer[u] \in Players => s.player[u] \in Npcs,
         NEW t \in Close(s, u)
  PROVE  KeptBut(t, {})
<1>1. /\ u \in Users /\ s.body \subseteq Players
      /\ s.player[u] \in Livings \cup {Login, Nil} /\ s.splayer[u] \in Livings \cup {Nil}
  BY DEF Sound, States
<1>2. \A l \in Players : s.user[l] # Nil => s.splayer[s.user[l]] = Nil
  BY DEF Sound, States, Linked, Livings
<1>3. CASE s.splayer[u] = Nil /\ s.player[u] = Nil
  <2>1. t = DestructUser(s, u)
    BY <1>3 DEF Close
  <2> QED BY <1>1, <1>3, <2>1, DestructUserKept, Names
<1>4. CASE s.splayer[u] = Nil /\ s.player[u] # Nil
  <2>1. t \in CloseOwn(s, u) /\ s.player[u] \in Livings \cup {Login}
    BY <1>1, <1>4 DEF Close
  <2> QED BY <1>1, <1>2, <1>4, <2>1, CloseOwnKept
<1>5. CASE s.splayer[u] # Nil /\ s.player[u] = Nil
  BY <1>5 DEF Close
<1>6. CASE s.splayer[u] # Nil /\ s.player[u] # Nil
  <2> DEFINE d == s.splayer[u]
  <2>1. s.player[u] \in Npcs /\ d \in Players
    BY <1>1, <1>6, Names DEF Linked
  <2>2. PICK q \in SetLinkdead(s, s.player[u]) :
          t \in CloseOwn([q EXCEPT !.player = [q.player EXCEPT ![u] = q.splayer[u]]], u)
    BY <1>6 DEF Close
  <2> DEFINE r == [q EXCEPT !.player = [q.player EXCEPT ![u] = q.splayer[u]]]
  <2>3. Sound(q) /\ q.body = s.body /\ SameRoutes(s, q)
    BY <2>1, <2>2, Names, SetLinkdeadSound, SetLinkdeadQuiet
  <2>4. s.delay \cup s.stone \subseteq q.delay \cup q.stone
    BY <2>1, <2>2, Names, SetLinkdeadKept
  <2>5. Sound(r)
    <3>1. r \in States
      BY <1>1, <2>3 DEF Sound, States
    <3>2. Existing(r)
      BY <1>1, <2>3 DEF Sound, States, Existing
    <3>3. NoStray(r)
      BY <1>1, <2>3, SessionAssumption DEF Sound, States, NoStray, Livings
    <3> QED BY <3>1, <3>2, <3>3 DEF Sound
  <2>6. /\ r.user = s.user /\ r.splayer = s.splayer /\ r.player[u] = d /\ r.body = s.body
        /\ r.delay = q.delay /\ r.stone = q.stone
        /\ \A v \in Users \ {u} : r.player[v] = s.player[v]
    BY <1>1, <2>3 DEF Sound, States, SameRoutes
  <2>7. t \in CloseOwn(r, u)
    BY <2>2
  <2> HIDE DEF r
  <2>8. KeptBut(r, {})
    BY <1>1, <2>1, <2>4, <2>6, Names DEF KeptBut, Played
  <2> QED BY <1>1, <1>2, <2>1, <2>5, <2>6, <2>7, <2>8, CloseOwnKept, Names
<1> QED BY <1>3, <1>4, <1>5, <1>6

\* exec(): the body p, for which nobody need be there yet, is played by u.
LEMMA ExecKept ==
  ASSUME NEW s, Sound(s), Linked(s), NEW p \in s.body, KeptBut(s, {p}),
         NEW u \in s.uobj, s.player[u] = Login
  PROVE  KeptBut(Exec(s, u, p), {}) /\ Played(Exec(s, u, p), p)
<1> DEFINE r == IF s.user[p] = Nil THEN s ELSE DestructUser(s, s.user[p])
           q == [r EXCEPT !.player = [r.player EXCEPT ![u] = p]]
           t == Exec(s, u, p)
<1>1. /\ u \in Users /\ p \in Livings /\ p \in Players
      /\ s.user[p] \in Users \cup {Nil} /\ s.user[p] # u
      /\ s.splayer[u] = Nil /\ s.body \subseteq Players
  BY SessionAssumption DEF Sound, States, NoStray, Livings, Linked
<1>2. Sound(r) /\ KeptBut(r, {p}) /\ r.player[u] = Login /\ r.splayer[u] = Nil
  <2>1. CASE s.user[p] = Nil
    BY <1>1, <2>1
  <2>2. CASE s.user[p] # Nil
    <3> DEFINE v == s.user[p]
    <3>1. r = DestructUser(s, v) /\ v \in Users /\ s.player[v] = p /\ s.splayer[v] = Nil
      BY <1>1, <2>2 DEF Linked
    <3>2. Sound(r) /\ KeptBut(r, {p})
      BY <1>1, <3>1, DestructUserSound, DestructUserKept, Names
    <3>3. r.player[u] = Login /\ r.splayer[u] = Nil
      BY <1>1, <3>1 DEF DestructUser, Sound, States
    <3> QED BY <3>2, <3>3
  <2> QED BY <2>1, <2>2
<1>3. t = SetUser(q, p, u)
  BY DEF Exec
<1> HIDE DEF r, t
<1>4. /\ q.player[u] = p /\ \A v \in Users \ {u} : q.player[v] = r.player[v]
      /\ q.splayer = r.splayer
      /\ q.body = r.body /\ q.delay = r.delay /\ q.stone = r.stone
  BY <1>1, <1>2 DEF Sound, States
<1>5. /\ t.player = q.player /\ t.splayer = q.splayer
      /\ t.body = q.body /\ t.delay = q.delay /\ t.stone = q.stone
  BY <1>3 DEF SetUser
<1>6. Played(t, p)
  BY <1>1, <1>4, <1>5 DEF Played
<1>7. r.body \subseteq Players
  BY <1>2 DEF Sound, States
<1> HIDE DEF q
<1>8. KeptBut(t, {})
  BY <1>2, <1>4, <1>5, <1>6, <1>7, Names DEF KeptBut, Played
<1> QED BY <1>6, <1>8 DEF t

LEMMA HauntKept ==
  ASSUME NEW s, Sound(s), Linked(s), KeptBut(s, {}), NEW p \in s.body, s.user[p] # Nil
  PROVE  KeptBut(Haunt(s, p), {})
<1>1. CASE s.haunts[p] = Nil
  BY <1>1 DEF Haunt
<1>2. CASE s.haunts[p] # Nil
  BY <1>2, PossessionKept DEF Haunt, Sound, States
<1> QED BY <1>1, <1>2

LEMMA QuitOfKept ==
  ASSUME NEW s, Sound(s), Linked(s), Reach(s), KeptBut(s, {}),
         NEW b \in s.body, NEW t \in QuitOf(s, b)
  PROVE  KeptBut(t, {})
<1> DEFINE u == s.user[b]
<1>1. /\ b \in Players /\ b \in Livings /\ u \in s.uobj \cup {Nil} /\ (u # Nil => u \in Users)
      /\ s.body \subseteq Players
  BY DEF Sound, States, Existing, Livings
<1>2. ~CanBreak(s, b, b)
  BY <1>1, SessionAssumption DEF CanBreak, MayForce
<1>3. CASE t = DestructBody(IF u # Nil /\ s.player[u] = b THEN DestructUser(s, u) ELSE s, b)
  <2>1. KeptBut(s, {b})
    BY DEF KeptBut
  <2>2. CASE u # Nil /\ s.player[u] = b
    <3> DEFINE r == DestructUser(s, u)
    <3>1. s.splayer[u] = Nil
      BY <1>1, <2>2 DEF Linked
    <3>2. Sound(r) /\ KeptBut(r, {b})
      BY <1>1, <2>1, <2>2, <3>1, DestructUserSound, DestructUserKept, Names
    <3>3. t = DestructBody(r, b)
      BY <1>3, <2>2
    <3> HIDE DEF r
    <3> QED BY <1>1, <3>2, <3>3, DestructBodyKept
  <2>3. CASE ~(u # Nil /\ s.player[u] = b)
    BY <1>1, <1>3, <2>1, <2>3, DestructBodyKept
  <2> QED BY <2>2, <2>3
<1>4. CASE t = s
  BY <1>4
<1>5. CASE u # Nil /\ t \in Close(s, u)
  <2>1. s.splayer[u] \in Players => s.player[u] \in Npcs
    BY <1>1, <1>5 DEF Reach, AwakeBut
  <2> QED BY <1>1, <1>5, <2>1, CloseKept
<1> QED BY <1>2, <1>3, <1>4, <1>5 DEF QuitOf

\* Where rooms are always found, a statue is freed before its player is there.
Met(s) == Reach(s) /\ KeptBut(s, {}) /\ (RoomsLost \/ NoLinksBut(s, {}))

LEMMA EndsInMet ==
  ASSUME NEW s, Sound(s), Met(s), Becomes(s)
  PROVE  Met(Now)'
<1>1. Now' = s
  BY DEF Now, Becomes, Sound, States
<1>2. Met(Now)' <=> Met(Now')
  BY DEF Met, Reach, AnsweredBut, AwakeBut, ListedBut, KeptBut, Played, NoLinksBut, Now
<1> QED BY <1>1, <1>2

LEMMA InitMet == Init => Met(Now)
BY SessionAssumption
DEF Init, Now, Met, Reach, AnsweredBut, AwakeBut, ListedBut, KeptBut, NoLinksBut, Livings

\* The actions that move no statue.
LEMMA TaskMet ==
  ASSUME SessionInd, Linked(Now), Met(Now), Victims \subseteq Npcs, Admins = {}, NEW u \in Users,
         \/ LoginEnds(u) \/ LoseLink(u) \/ Quit(u)
         \/ \E p \in Players : EnterNew(u, p)
         \/ \E w \in Victims : PossessCmd(u, w) \/ BreakCmd(u, w)
         \/ \E by, on \in Players : Snoop(u, by, on)
  PROVE  Met(Now)'
<1>0. /\ Sound(Now) /\ Linked(Now) /\ Reach(Now) /\ KeptBut(Now, {}) /\ Met(Now)
      /\ Now.list \subseteq Players /\ Now.body \subseteq Players
  BY DEF SessionInd, Met, Sound, States
<1>1. ASSUME LoginEnds(u) PROVE Met(Now)'
  <2>1. PICK s : s = DestructUser(Now, u) /\ EndsIn(s)
    BY <1>1 DEF LoginEnds
  <2>2. /\ AnsweredBut(Now, {u}) /\ AwakeBut(Now, {u})
        /\ Now.player[u] = Login /\ Now.splayer[u] = Nil
    BY <1>0, <1>1, Names DEF Reach, AnsweredBut, AwakeBut, Linked, LoginEnds, Now
  <2>3. \A p \in Now.list \ {} :
          \E v \in Now.conn \ {u} : p \in {Now.player[v], Now.splayer[v]}
    BY <1>0, <2>2, Names DEF Reach, ListedBut
  <2>4. KeptBut(s, {})
    BY <1>0, <2>1, <2>2, DestructUserKept, Names
  <2>5. Sound(s) /\ Met(s)
    BY <1>0, <2>1, <2>2, <2>3, <2>4, DestructUserSound, DestructUserReach DEF Met, Reach
  <2> QED BY <2>1, <2>5, EndsInMet DEF EndsIn
<1>2. ASSUME LoseLink(u) PROVE Met(Now)'
  <2> DEFINE r == [Now EXCEPT !.conn = conn \ {u}]
  <2>1. PICK s \in Close(r, u) : EndsIn(s)
    BY <1>2 DEF LoseLink
  <2>2. Sound(r) /\ u \in r.uobj
    BY <1>0, <1>2 DEF LoseLink, Now, Sound, States, Existing, NoStray
  <2>3. /\ SameRoutes(Now, r) /\ r.conn = conn \ {u} /\ r.list = Now.list /\ r.stone = Now.stone
        /\ Now.conn = conn /\ r.body = Now.body /\ r.delay = Now.delay
    BY DEF SameRoutes, Now
  <2> HIDE DEF r
  <2>4. Linked(r) /\ AnsweredBut(r, {}) /\ AwakeBut(r, {u})
    BY <1>0, <2>3, LinkedSame DEF Reach, AnsweredBut, AwakeBut, SameRoutes
  <2>5. r.splayer[u] \in Players => r.player[u] \in Npcs
    BY <1>0, <2>3 DEF Reach, AwakeBut, SameRoutes
  <2>6. \A p \in r.list : \E v \in r.conn \cup {u} : p \in {r.player[v], r.splayer[v]}
    BY <1>0, <2>3 DEF Reach, ListedBut, SameRoutes
  <2>7. NoLinksBut(Now, {}) => NoLinksBut(r, {})
    BY <2>3 DEF NoLinksBut, SameRoutes
  <2>8. KeptBut(s, {})
    <3>1. KeptBut(r, {})
      BY <1>0, <2>3 DEF KeptBut, Played, SameRoutes
    <3> QED BY <2>1, <2>2, <2>4, <2>5, <3>1, CloseKept
  <2>9. Sound(s) /\ Met(s)
    BY <1>0, <2>1, <2>2, <2>4, <2>5, <2>6, <2>7, <2>8, CloseSound, CloseReach DEF Met
  <2> QED BY <2>1, <2>9, EndsInMet DEF EndsIn
<1>3. ASSUME Quit(u) PROVE Met(Now)'
  <2>1. PICK b \in Players : Acts(u, b) /\ \E s \in QuitOf(Now, b) : EndsIn(s)
    BY <1>3 DEF Quit
  <2>2. b \in Now.body
    BY <1>0, <2>1 DEF Acts, Now, Sound, Existing
  <2>3. PICK s \in QuitOf(Now, b) : EndsIn(s)
    BY <2>1
  <2>4. Sound(s) /\ Met(s)
    BY <1>0, <2>2, <2>3, QuitOfSound, QuitOfReach, QuitOfKept DEF Met
  <2> QED BY <2>3, <2>4, EndsInMet DEF EndsIn
<1>4. ASSUME NEW p \in Players, EnterNew(u, p) PROVE Met(Now)'
  <2> DEFINE r == [Now EXCEPT !.body = body \cup {p}, !.list = list \cup {p}]
  <2>1. PICK s : s = Exec(r, u, p) /\ EndsIn(s)
    BY <1>4 DEF EnterNew
  <2>2. r \in States /\ p \in r.body /\ r.player[u] = Login
    BY <1>0, <1>4 DEF EnterNew, Now, Sound, States
  <2>3. Existing(r)
    BY <1>0 DEF Now, Sound, Existing
  <2>4. NoStray(r) /\ u \in r.uobj
    BY <1>0, <1>4, SessionAssumption DEF EnterNew, Now, Sound, Existing, NoStray
  <2>5. /\ SameRoutes(Now, r) /\ r.conn = Now.conn /\ r.stone = Now.stone
        /\ r.list = Now.list \cup {p} /\ p \notin Now.stone
        /\ r.body = Now.body \cup {p} /\ r.delay = Now.delay
    BY <1>0, <1>4 DEF SameRoutes, Now, EnterNew, Sound, Existing
  <2> HIDE DEF r
  <2>6. Sound(r) /\ Linked(r)
    BY <1>0, <2>2, <2>3, <2>4, <2>5, LinkedSame DEF Sound
  <2>7. AnsweredBut(r, {}) /\ AwakeBut(r, {}) /\ ListedBut(r, {p})
    BY <1>0, <2>5 DEF Reach, AnsweredBut, AwakeBut, ListedBut, SameRoutes
  <2>8. NoLinksBut(Now, {}) => NoLinksBut(r, {})
    BY <2>5 DEF NoLinksBut, SameRoutes
  <2>9. Reach(s) /\ s.stone = Now.stone /\ (NoLinksBut(Now, {}) => NoLinksBut(s, {p}))
    BY <2>1, <2>2, <2>4, <2>5, <2>6, <2>7, <2>8, ExecReach
  <2>10. KeptBut(s, {})
    <3>1. KeptBut(r, {p})
      BY <1>0, <2>5 DEF KeptBut, Played, SameRoutes
    <3> QED BY <2>1, <2>2, <2>4, <2>6, <3>1, ExecKept
  <2>11. Sound(s) /\ Met(s)
    BY <1>0, <2>1, <2>2, <2>4, <2>5, <2>6, <2>9, <2>10, ExecSound DEF Met, NoLinksBut
  <2> QED BY <2>1, <2>11, EndsInMet DEF EndsIn
<1>5. ASSUME NEW w \in Victims, PossessCmd(u, w) PROVE Met(Now)'
  <2>1. PICK by \in Players : /\ Acts(u, by) /\ user[by] # Nil
                              /\ EndsIn(Possession(Now, w, by))
    BY <1>5 DEF PossessCmd
  <2>2. PICK s : s = Possession(Now, w, by) /\ EndsIn(s)
    BY <2>1
  <2>3. by \in Now.body /\ w \in Npcs /\ Now.user[by] # Nil
    BY <1>0, <2>1 DEF Acts, Now, Sound, Existing
  <2>4. Sound(s) /\ Met(s)
    BY <1>0, <2>2, <2>3, PossessionSound, PossessionReach, PossessionKept DEF Met
  <2> QED BY <2>2, <2>4, EndsInMet DEF EndsIn
<1>6. ASSUME NEW w \in Victims, BreakCmd(u, w) PROVE FALSE
  BY <1>6 DEF BreakCmd
<1>7. ASSUME NEW by \in Players, NEW on \in Players, Snoop(u, by, on) PROVE Met(Now)'
  <2>1. PICK a \in Players : EndsIn(SnoopBy(Now, a, by, on))
    BY <1>7 DEF Snoop
  <2>2. PICK s : s = SnoopBy(Now, a, by, on) /\ EndsIn(s)
    BY <2>1
  <2>3. Now.user[by] # Nil /\ Now.user[on] # Nil /\ by \in Livings /\ on \in Livings
    BY <1>0, <1>7, SessionAssumption DEF Snoop, Now, Sound, States, Livings
  <2>4. Sound(s)
    BY <1>0, <2>2, <2>3, SnoopBySound
  <2>5. /\ SameRoutes(Now, s) /\ s.conn = Now.conn /\ s.list = Now.list
        /\ s.stone = Now.stone /\ s.body = Now.body /\ s.delay = Now.delay
    BY <2>2 DEF SnoopBy, SameRoutes, Now
  <2>6. Met(s)
    BY <1>0, <2>5
    DEF Met, Reach, AnsweredBut, AwakeBut, ListedBut, KeptBut, Played, NoLinksBut, SameRoutes
  <2> QED BY <2>2, <2>4, <2>6, EndsInMet DEF EndsIn
<1> QED BY <1>1, <1>2, <1>3, <1>4, <1>5, <1>6, <1>7

LEMMA ConnectMet ==
  ASSUME SessionInd, Met(Now), NEW u \in Users, Connect(u)
  PROVE  Met(Now)'
<1>1. /\ u \notin uobj /\ splayer[u] = Nil /\ \A l \in Livings : user[l] # u
      /\ player[u] = Nil /\ conn \subseteq Users /\ list \subseteq Livings /\ stone \subseteq Livings
  BY SessionAssumption DEF SessionInd, Sound, States, Existing, Now, Connect, Livings
<1>2. /\ user' = user /\ splayer' = splayer /\ player'[u] = Login
      /\ \A v \in Users \ {u} : player'[v] = player[v]
      /\ conn' = conn \cup {u} /\ list' = list /\ stone' = stone
  BY DEF Connect, SessionInd, Sound, States, Now
<1>3. AnsweredBut(Now, {})'
  BY <1>1, <1>2, Names DEF Met, Reach, AnsweredBut, Now
<1>4. AwakeBut(Now, {})'
  BY <1>1, <1>2, Names DEF Met, Reach, AwakeBut, Now
<1>5. ListedBut(Now, {})'
  BY <1>1, <1>2, Names DEF Met, Reach, ListedBut, Now
<1>6. NoLinksBut(Now, {}) => NoLinksBut(Now, {})'
  BY <1>1, <1>2 DEF NoLinksBut, Now
<1>7. KeptBut(Now, {})'
  <2>1. body \subseteq Players /\ body' = body /\ delay' = delay
    BY DEF SessionInd, Sound, States, Now, Connect
  <2> QED BY <1>1, <1>2, <2>1, Names DEF Met, KeptBut, Played, Now
<1> QED BY <1>3, <1>4, <1>5, <1>6, <1>7 DEF Met, Reach

LEMMA EnterOldMet ==
  ASSUME SessionInd, Linked(Now), Met(Now), NEW u \in Users, NEW p \in Players, EnterOld(u, p)
  PROVE  Met(Now)'
<1> DEFINE r == [Now EXCEPT !.list = list \cup {p}]
<1>1. PICK s : s = Exec(r, u, p)
  OBVIOUS
<1>2. /\ Sound(r) /\ r.player[u] = Login /\ p \in r.body /\ u \in r.uobj
      /\ SameRoutes(Now, r) /\ r.conn = Now.conn /\ r.list = Now.list \cup {p}
      /\ r.stone = Now.stone /\ r.body = Now.body /\ r.delay = Now.delay
  BY SessionAssumption
  DEF SessionInd, EnterOld, Now, Sound, States, Existing, NoStray, SameRoutes
<1>3. \/ p \notin stone /\ EndsIn(Haunt(s, p))
      \/ RoomsLost /\ EndsIn(s)
      \/ Becomes(Haunt([s EXCEPT !.stone = s.stone \ {p}], p))
  BY <1>1 DEF EnterOld
<1> HIDE DEF r
<1>4. Sound(s) /\ s.body = r.body /\ s.user[p] # Nil /\ Linked(s)
  BY <1>1, <1>2, LinkedSame, ExecSound, ExecLinked
<1>5. AnsweredBut(r, {}) /\ AwakeBut(r, {}) /\ ListedBut(r, {p}) /\ Linked(r)
  BY <1>2, LinkedSame DEF Met, Reach, AnsweredBut, AwakeBut, ListedBut, SameRoutes
<1>6. NoLinksBut(Now, {}) => NoLinksBut(r, {})
  BY <1>2 DEF NoLinksBut, SameRoutes
<1>7. /\ Reach(s) /\ s.stone = stone /\ (NoLinksBut(Now, {}) => NoLinksBut(s, {p}))
      /\ KeptBut(s, {}) /\ Played(s, p)
  <2>1. KeptBut(r, {p})
    BY <1>2 DEF Met, KeptBut, Played, SameRoutes
  <2> QED BY <1>1, <1>2, <1>5, <1>6, <2>1, ExecReach, ExecKept DEF Now
<1>8. CASE p \notin stone /\ EndsIn(Haunt(s, p))
  <2>1. PICK t : t = Haunt(s, p) /\ EndsIn(t)
    BY <1>8
  <2>2. NoLinksBut(Now, {}) => NoLinksBut(s, {})
    BY <1>7, <1>8 DEF NoLinksBut
  <2>3. Sound(t) /\ Met(t)
    BY <1>2, <1>4, <1>7, <2>1, <2>2, HauntSound, HauntReach, HauntKept DEF Met
  <2> QED BY <2>1, <2>3, EndsInMet DEF EndsIn
<1>9. CASE RoomsLost /\ EndsIn(s)
  <2>1. Met(s)
    BY <1>7, <1>9 DEF Met
  <2> QED BY <1>4, <1>9, <2>1, EndsInMet DEF EndsIn
<1>10. CASE Becomes(Haunt([s EXCEPT !.stone = s.stone \ {p}], p))
  <2>1. PICK q : q = [s EXCEPT !.stone = s.stone \ {p}]
    OBVIOUS
  <2>2. /\ Sound(q) /\ p \in q.body /\ q.user[p] # Nil /\ SameRoutes(s, q)
        /\ q.conn = s.conn /\ q.list = s.list /\ q.stone = s.stone \ {p}
        /\ q.body = s.body /\ q.delay = s.delay
    BY <1>2, <1>4, <2>1 DEF Sound, States, Existing, NoStray, SameRoutes
  <2>3. PICK t : t = Haunt(q, p) /\ Becomes(t)
    BY <1>10, <2>1
  <2>4. Reach(q) /\ (NoLinksBut(s, {p}) => NoLinksBut(q, {}))
    BY <1>7, <2>2 DEF Reach, AnsweredBut, AwakeBut, ListedBut, NoLinksBut, SameRoutes
  <2>5. KeptBut(q, {})
    BY <1>7, <2>2 DEF KeptBut, Played, SameRoutes
  <2>6. Sound(t) /\ Met(t)
    BY <1>4, <1>7, <2>2, <2>3, <2>4, <2>5, LinkedSame, HauntSound, HauntReach, HauntKept
    DEF Met
  <2> QED BY <2>3, <2>6, EndsInMet
<1> QED BY <1>3, <1>8, <1>9, <1>10

LEMMA SessionStepMet ==
  Victims \subseteq Npcs /\ Admins = {} /\ SessionInd /\ Linked(Now) /\ Met(Now) /\ [Next]_vars
    => Met(Now)'
<1> SUFFICES ASSUME Victims \subseteq Npcs, Admins = {}, SessionInd, Linked(Now), Met(Now),
                    [Next]_vars
             PROVE  Met(Now)'
  OBVIOUS
<1>1. ASSUME UNCHANGED <<conn, player, splayer, user, body, list>>,
             \A b \in stone' \ stone : user[b] \notin conn,
             \A b \in (delay \cup stone) \ (delay' \cup stone') : Played(Now, b)
      PROVE  Met(Now)'
  BY <1>1 DEF Met, Reach, AnsweredBut, AwakeBut, ListedBut, KeptBut, Played, NoLinksBut, Now
<1>2. CASE UNCHANGED vars
  BY <1>1, <1>2 DEF vars
<1>3. CASE Next
  <2>1. ASSUME NEW u \in Users,
               \/ Connect(u) \/ LoginEnds(u) \/ LoseLink(u) \/ Quit(u)
               \/ \E p \in Players : EnterNew(u, p) \/ EnterOld(u, p)
               \/ \E w \in Victims : PossessCmd(u, w) \/ BreakCmd(u, w)
               \/ \E by, on \in Players : Snoop(u, by, on)
        PROVE  Met(Now)'
    BY <2>1, ConnectMet, TaskMet, EnterOldMet
  <2>2. ASSUME NEW b \in Players, DelayLinkdead(b) PROVE Met(Now)'
    <3>1. user[b] \in conn => Played(Now, b)
      BY SessionAssumption DEF SessionInd, Sound, States, Linked, Played, Now, Livings
    <3> QED BY <1>1, <2>2, <3>1 DEF DelayLinkdead
  <2>3. ASSUME NEW b \in Players, MoveStatue(b) PROVE Met(Now)'
    BY <1>1, <2>3 DEF MoveStatue
  <2> QED BY <1>3, <2>1, <2>2, <2>3 DEF Next
<1> QED BY <1>2, <1>3

LEMMA SessionAlwaysMet ==
  Victims \subseteq Npcs /\ Admins = {} /\ Spec => [](SessionInd /\ Linked(Now) /\ Met(Now))
<1> SUFFICES ASSUME Victims \subseteq Npcs, Admins = {}
             PROVE  Spec => [](SessionInd /\ Linked(Now) /\ Met(Now))
  OBVIOUS
<1>1. SessionInd /\ Linked(Now) /\ Met(Now) /\ [Next]_vars => Linked(Now)' /\ Met(Now)'
  BY SessionStepLinked, SessionStepMet
<1> QED BY <1>1, InitLinked, InitMet, SessionAlwaysInd, PTL DEF Spec

LEMMA MetSays ==
  ASSUME SessionInd, Met(Now)
  PROVE  OneActor /\ ListedAreReachable /\ NobodyForgotten /\ (~RoomsLost => StatuesHaveNoLink)
<1>1. conn \subseteq Users
  BY DEF SessionInd, Sound, States, Now
<1>2. OneActor
  BY <1>1 DEF Met, Reach, AnsweredBut, OneActor, Now
<1>3. ListedAreReachable
  BY DEF Met, Reach, ListedBut, ListedAreReachable, Now
<1>4. ~RoomsLost => StatuesHaveNoLink
  BY DEF Met, NoLinksBut, StatuesHaveNoLink, Now
<1>5. NobodyForgotten
  <2>1. /\ body \subseteq Players
        /\ \A u \in Users \ uobj : player[u] = Nil /\ splayer[u] = Nil
    BY DEF SessionInd, Sound, States, Existing, Now
  <2> QED BY <2>1, Names DEF Met, KeptBut, Played, NobodyForgotten, HasLink, Now
<1> QED BY <1>2, <1>3, <1>4, <1>5

\* If only npcs are possessed and nobody breaks another's possession, no body
\* ever acts for two connections, everybody on the people list can be reached,
\* and a body without a connection is a statue or about to be one: not even a
\* room that is gone, at which entering the game stops halfway, takes that away.
THEOREM SessionOneActor ==
  Victims \subseteq Npcs /\ Admins = {} /\ Spec => [](OneActor /\ ListedAreReachable /\ NobodyForgotten)
<1> SUFFICES ASSUME Victims \subseteq Npcs, Admins = {}
             PROVE  Spec => [](OneActor /\ ListedAreReachable /\ NobodyForgotten)
  OBVIOUS
<1>1. SessionInd /\ Met(Now) => OneActor /\ ListedAreReachable /\ NobodyForgotten
  BY MetSays
<1> QED BY <1>1, SessionAlwaysMet, PTL

\* If moreover the rooms of statues can always be loaded, a statue is always a
\* player without a link as well: delay_linkdead(), the return of a player and
\* the return of a demon to its victim never leave who plays as a statue.
THEOREM SessionPlayersReached ==
  Victims \subseteq Npcs /\ Admins = {} /\ ~RoomsLost /\ Spec => []PlayersReached
<1> SUFFICES ASSUME Victims \subseteq Npcs, Admins = {}, ~RoomsLost
             PROVE  Spec => []PlayersReached
  OBVIOUS
<1>1. SessionInd /\ Met(Now) => PlayersReached
  BY MetSays DEF PlayersReached
<1> QED BY <1>1, SessionAlwaysMet, PTL

(***************************************************************************)
(* Anybody may be possessed, but only who cannot possess (with the force   *)
(* levels 0 and 1, say): then a player is shown things through a           *)
(* connection that is the player's own, or has nobody to play.  Inductive  *)
(* together with: no two livings share a connection; one with a saved body *)
(* is either that of a possessed, which nobody uses, or that of a demon,   *)
(* who acts through somebody who cannot possess.                           *)
(***************************************************************************)

OnlyPowerless == \A a, x \in Livings : MayForce(a, x) => ForceLevel[x] = 0

Owned(s) ==
  /\ \A l \in Livings : s.user[l] # Nil => s.player[s.user[l]] \in {l, Nil}
  /\ \A l, m \in Livings : s.user[l] # Nil /\ s.user[l] = s.user[m] => l = m
  /\ \A u \in Users : s.splayer[u] # Nil /\ s.player[u] = Nil
       => ForceLevel[s.splayer[u]] = 0 /\ \A l \in Livings : s.user[l] # u
  /\ \A u \in Users : s.splayer[u] # Nil /\ s.player[u] # Nil
       => s.player[u] \in Livings /\ ForceLevel[s.player[u]] = 0 /\ ForceLevel[s.splayer[u]] > 0

LEMMA OwnedSame ==
  ASSUME NEW s, NEW t, Owned(s), SameRoutes(s, t)
  PROVE  Owned(t)
BY DEF Owned, SameRoutes

LEMMA DestructUserOwned ==
  ASSUME NEW s, Sound(s), Owned(s), NEW u \in Users
  PROVE  Owned(DestructUser(s, u))
<1> DEFINE t == DestructUser(s, u)
<1>1. /\ t.player[u] = Nil /\ t.splayer[u] = Nil
      /\ \A v \in Users \ {u} : t.player[v] = s.player[v] /\ t.splayer[v] = s.splayer[v]
      /\ \A l \in Livings : t.user[l] = IF s.user[l] = u THEN Nil ELSE s.user[l]
      /\ \A l \in Livings : s.user[l] # Nil => s.user[l] \in Users
  BY DEF Sound, States, DestructUser, Without
<1> HIDE DEF t
<1>2. u # Nil
  BY SessionAssumption
<1>3. Owned(t)
  <2>1. \A l \in Livings : t.user[l] # Nil => t.player[t.user[l]] \in {l, Nil}
    BY <1>1, <1>2 DEF Owned
  <2>2. \A l, m \in Livings : t.user[l] # Nil /\ t.user[l] = t.user[m] => l = m
    BY <1>1 DEF Owned
  <2>3. \A v \in Users : t.splayer[v] # Nil /\ t.player[v] = Nil
          => ForceLevel[t.splayer[v]] = 0 /\ \A l \in Livings : t.user[l] # v
    BY <1>1, SessionAssumption DEF Owned
  <2>4. \A v \in Users : t.splayer[v] # Nil /\ t.player[v] # Nil
          => t.player[v] \in Livings /\ ForceLevel[t.player[v]] = 0 /\ ForceLevel[t.splayer[v]] > 0
    BY <1>1 DEF Owned
  <2> QED BY <2>1, <2>2, <2>3, <2>4 DEF Owned
<1> QED BY <1>3 DEF t

\* Only who can possess is removed at once, and nobody acts through him.
LEMMA DestructBodyOwned ==
  ASSUME NEW s, Sound(s), Owned(s), NEW b \in Players, ForceLevel[b] # 0
  PROVE  Owned(DestructBody(s, b))
<1> DEFINE t == DestructBody(s, b)
<1>1. /\ \A v \in Users : /\ t.player[v] = IF s.player[v] = b THEN Nil ELSE s.player[v]
                          /\ t.splayer[v] = IF s.splayer[v] = b THEN Nil ELSE s.splayer[v]
      /\ t.user[b] = Nil /\ \A l \in Livings \ {b} : t.user[l] = s.user[l]
      /\ \A l \in Livings : s.user[l] # Nil => s.user[l] \in Users
  BY DEF Sound, States, DestructBody, Without, Livings
<1>2. \A v \in Users : s.player[v] = b => s.splayer[v] = Nil
  BY SessionAssumption DEF Owned, Livings
<1> HIDE DEF t
<1>3. b # Nil
  BY SessionAssumption DEF Livings
<1>4. Owned(t)
  <2>1. \A l \in Livings : t.user[l] # Nil => t.player[t.user[l]] \in {l, Nil}
    BY <1>1, <1>3 DEF Owned
  <2>2. \A l, m \in Livings : t.user[l] # Nil /\ t.user[l] = t.user[m] => l = m
    BY <1>1 DEF Owned
  <2>3. \A v \in Users : t.splayer[v] # Nil /\ t.player[v] = Nil
          => ForceLevel[t.splayer[v]] = 0 /\ \A l \in Livings : t.user[l] # v
    BY <1>1, <1>2, SessionAssumption DEF Owned
  <2>4. \A v \in Users : t.splayer[v] # Nil /\ t.player[v] # Nil
          => t.player[v] \in Livings /\ ForceLevel[t.player[v]] = 0 /\ ForceLevel[t.splayer[v]] > 0
    BY <1>1 DEF Owned
  <2> QED BY <2>1, <2>2, <2>3, <2>4 DEF Owned
<1> QED BY <1>4 DEF t

\* Whom a connection has in mind can possess, if somebody acts through it.
LEMMA BreakOwned ==
  ASSUME NEW s, Sound(s), Owned(s), OnlyPowerless, NEW x \in s.body \cup Npcs, NEW a \in Livings,
         NEW t \in BreakPossession(s, x, a)
  PROVE  Owned(t)
<1>1. CASE ~CanBreak(s, x, a)
  BY <1>1 DEF BreakPossession
<1>2. CASE CanBreak(s, x, a)
  <2> DEFINE du == s.user[x]
             demon == s.splayer[du]
  <2>1. /\ x \in Livings /\ x # Nil /\ du \in s.uobj /\ du \in Users /\ du # Nil
        /\ demon \in s.body \cup Npcs /\ demon \in Livings /\ demon # Nil
    BY <1>2, SessionAssumption DEF Sound, States, Existing, Livings, CanBreak
  <2>2. /\ ForceLevel[x] = 0 /\ s.player[du] = x /\ ForceLevel[demon] > 0 /\ demon # x
    BY <1>2, <2>1, SessionAssumption DEF CanBreak, OnlyPowerless, Owned
  <2>3. PICK u \in Evicted(s, x) :
          t = IF u = Nil
              THEN SetUser(SetUser(Return(s, du, demon), demon, du), x, Nil)
              ELSE LET r == Return(Return(s, u, x), du, demon) IN
                   SetUser(SetUser([r EXCEPT !.snooper = [r.snooper EXCEPT ![du] = Nil]], x, u),
                           demon, du)
    BY <1>2 DEF BreakPossession
  <2>4. CASE u = Nil
    <3> DEFINE t1 == Return(s, du, demon)
               t2 == SetUser(t1, demon, du)
    <3>1. t = SetUser(t2, x, Nil)
      BY <2>3, <2>4
    <3>2. Routed(s, t1, du, Nil, demon)
      BY <2>1, ReturnSound
    <3> HIDE DEF t1
    <3>3. Sound(t1) /\ t1.player[du] = demon /\ du \in t1.uobj
      BY <2>1, <3>2 DEF Routed, SameWorld, Sound, States
    <3>4. Assigned(t1, t2, demon, du) /\ Sound(t2)
      BY <2>1, <3>3, SetUserAssigns, SetUserSound, SessionAssumption
    <3> HIDE DEF t2
    <3>5. Assigned(t2, t, x, Nil)
      BY <2>1, <3>1, <3>4, SetUserAssigns
    <3>6. /\ t.user = [[s.user EXCEPT ![demon] = du] EXCEPT ![x] = Nil]
          /\ t.player = [s.player EXCEPT ![du] = demon]
          /\ t.splayer = [s.splayer EXCEPT ![du] = Nil]
      BY <3>2, <3>4, <3>5 DEF Routed, Assigned
    <3>7. /\ t.user[demon] = du /\ t.user[x] = Nil /\ t.player[du] = demon /\ t.splayer[du] = Nil
          /\ \A l \in Livings \ {x, demon} : t.user[l] = s.user[l] /\ s.user[l] # du
          /\ \A v \in Users \ {du} : t.player[v] = s.player[v] /\ t.splayer[v] = s.splayer[v]
          /\ \A l \in Livings : s.user[l] # Nil => s.user[l] \in Users
      BY <2>1, <2>2, <3>6 DEF Sound, States, Owned
    <3>8. \A l \in Livings : t.user[l] # Nil => t.player[t.user[l]] \in {l, Nil}
      BY <3>7 DEF Owned
    <3>9. \A l, m \in Livings : t.user[l] # Nil /\ t.user[l] = t.user[m] => l = m
      BY <3>7 DEF Owned
    <3>10. \A v \in Users : t.splayer[v] # Nil /\ t.player[v] = Nil
             => ForceLevel[t.splayer[v]] = 0 /\ \A l \in Livings : t.user[l] # v
      BY <3>7, SessionAssumption DEF Owned
    <3>11. \A v \in Users : t.splayer[v] # Nil /\ t.player[v] # Nil
             => t.player[v] \in Livings /\ ForceLevel[t.player[v]] = 0 /\ ForceLevel[t.splayer[v]] > 0
      BY <3>7 DEF Owned
    <3> QED BY <3>8, <3>9, <3>10, <3>11 DEF Owned
  <2>5. CASE u # Nil
    <3> DEFINE t1 == Return(s, u, x)
               t2 == Return(t1, du, demon)
               t3 == [t2 EXCEPT !.snooper = [t2.snooper EXCEPT ![du] = Nil]]
               t4 == SetUser(t3, x, u)
    <3>0. /\ u \in s.uobj /\ u \in Users /\ s.splayer[u] = x /\ u # du
          /\ \A l \in Livings : s.user[l] # u
      <4>1. u \in s.uobj /\ u \in Users /\ s.splayer[u] = x
        BY <2>5 DEF Evicted, Sound, States, Existing
      <4>2. s.player[u] = Nil
        BY <2>1, <2>2, <4>1 DEF Owned
      <4> QED BY <2>1, <2>2, <4>1, <4>2 DEF Owned
    <3>1. t = SetUser(t4, demon, du)
      BY <2>3, <2>5
    <3>2. Routed(s, t1, u, Nil, x)
      BY <3>0, ReturnSound
    <3> HIDE DEF t1
    <3>3. Sound(t1) /\ demon \in t1.body \cup Npcs /\ du \in t1.uobj
      BY <3>2, <2>1 DEF Routed, SameWorld
    <3>4. Routed(t1, t2, du, Nil, demon)
      BY <3>3, ReturnSound
    <3> HIDE DEF t2
    <3>5. Sound(t2)
      BY <3>4 DEF Routed
    <3>6. /\ Sound(t3) /\ SameWorld(t2, t3)
          /\ t3.user = t2.user /\ t3.player = t2.player /\ t3.splayer = t2.splayer
      <4>1. Sound(t3) /\ SameWorld(t2, t3)
        BY <3>5, <2>1, SnooperSound
      <4>2. t3.user = t2.user /\ t3.player = t2.player /\ t3.splayer = t2.splayer
        BY <3>5 DEF Sound, States
      <4> QED BY <4>1, <4>2
    <3> HIDE DEF t3
    <3>7. /\ t3.player = [[s.player EXCEPT ![u] = x] EXCEPT ![du] = demon]
          /\ t3.splayer = [[s.splayer EXCEPT ![u] = Nil] EXCEPT ![du] = Nil]
          /\ t3.user = s.user
      BY <3>2, <3>4, <3>6 DEF Routed
    <3>8. t3.player[u] = x /\ t3.player[du] = demon
      BY <3>0, <3>7, <2>1 DEF Sound, States
    <3>9. u \in t3.uobj /\ x # Login
      BY <2>1, <3>0, <3>2, <3>4, <3>6, SessionAssumption DEF Routed, SameWorld
    <3>10. Assigned(t3, t4, x, u) /\ Sound(t4)
      BY <2>1, <3>6, <3>8, <3>9, SetUserAssigns, SetUserSound
    <3> HIDE DEF t4
    <3>11. Assigned(t4, t, demon, du)
      <4>1. t4.player[du] = demon
        BY <3>8, <3>10 DEF Assigned
      <4> QED BY <4>1, <2>1, <3>1, <3>10, SetUserAssigns
    <3>12. /\ t.user = [[s.user EXCEPT ![x] = u] EXCEPT ![demon] = du]
           /\ t.player = t3.player /\ t.splayer = t3.splayer
      BY <3>7, <3>10, <3>11 DEF Assigned
    <3>13. /\ t.user[x] = u /\ t.user[demon] = du /\ t.player[u] = x /\ t.player[du] = demon
           /\ t.splayer[u] = Nil /\ t.splayer[du] = Nil
           /\ \A v \in Users \ {u, du} : t.player[v] = s.player[v] /\ t.splayer[v] = s.splayer[v]
      BY <2>1, <2>2, <3>0, <3>7, <3>12 DEF Sound, States
    <3>14. \A l \in Livings \ {x, demon} : t.user[l] = s.user[l] /\ s.user[l] \notin {u, du}
      BY <2>1, <3>0, <3>12 DEF Sound, States, Owned
    <3>15. \A l \in Livings : s.user[l] # Nil => s.user[l] \in Users
      BY DEF Sound, States
    <3>16. \A l \in Livings : t.user[l] # Nil => t.player[t.user[l]] \in {l, Nil}
      BY <3>13, <3>14, <3>15 DEF Owned
    <3>17. \A l, m \in Livings : t.user[l] # Nil /\ t.user[l] = t.user[m] => l = m
      BY <3>0, <3>13, <3>14 DEF Owned
    <3>18. \A v \in Users : t.splayer[v] # Nil /\ t.player[v] = Nil
             => ForceLevel[t.splayer[v]] = 0 /\ \A l \in Livings : t.user[l] # v
      BY <3>13, <3>14 DEF Owned
    <3>19. \A v \in Users : t.splayer[v] # Nil /\ t.player[v] # Nil
             => t.player[v] \in Livings /\ ForceLevel[t.player[v]] = 0 /\ ForceLevel[t.splayer[v]] > 0
      BY <3>13 DEF Owned
    <3> QED BY <3>16, <3>17, <3>18, <3>19 DEF Owned
  <2> QED BY <2>4, <2>5
<1> QED BY <1>1, <1>2

\* Who can possess takes a living that cannot: a connection of its own is left without a body.
LEMMA PossessionOwned ==
  ASSUME NEW s, Sound(s), Owned(s), OnlyPowerless, NEW w \in s.body \cup Npcs,
         NEW by \in s.body \cup Npcs, s.user[by] # Nil
  PROVE  Owned(Possession(s, w, by))
<1> DEFINE du == s.user[by]
           wu == s.user[w]
           t  == Possession(s, w, by)
           old == s.player[du]
<1>1. /\ w \in Livings /\ by \in Livings /\ w # Login /\ w # Nil /\ by # Nil
      /\ du \in s.uobj /\ du \in Users /\ old \in {by, Nil} /\ old # Login
      /\ wu \in s.uobj \cup {Nil}
      /\ (wu # Nil => s.player[wu] \in {w, Nil} /\ wu \in Users /\ s.player[wu] # Login)
  BY SessionAssumption DEF Sound, States, Existing, Livings, Owned
<1>2. MayForce(by, w) =>
        /\ w # by /\ ForceLevel[w] = 0 /\ ForceLevel[by] > 0
        /\ (wu # Nil => wu # du)
        /\ \A l \in Livings \ {by} : s.user[l] # du
  <2> SUFFICES ASSUME MayForce(by, w)
               PROVE  /\ w # by /\ ForceLevel[w] = 0 /\ ForceLevel[by] > 0
                      /\ (wu # Nil => wu # du)
                      /\ \A l \in Livings \ {by} : s.user[l] # du
    OBVIOUS
  <2>1. ForceLevel[w] = 0 /\ ForceLevel[w] < ForceLevel[by] /\ ForceLevel[by] \in Nat
    BY <1>1, SessionAssumption DEF OnlyPowerless, MayForce
  <2>2. w # by
    BY <2>1
  <2>3. \A l \in Livings \ {by} : s.user[l] # du
    BY <1>1 DEF Owned
  <2> QED BY <1>1, <2>1, <2>2, <2>3
<1>3. CASE t = s
  BY <1>3
<1>4. CASE MayForce(by, w) /\ wu = Nil
  <2> DEFINE t1 == SwitchPlayer(s, du, w)
             t2 == SetUser(t1, w, du)
  <2>1. t = SetUser(t2, by, Nil)
    BY <1>4 DEF Possession
  <2> HIDE DEF t
  <2>2. Routed(s, t1, du, old, w)
    BY <1>1, SwitchSound
  <2> HIDE DEF t1
  <2>3. Sound(t1) /\ du \in t1.uobj /\ t1.player[du] = w
    BY <1>1, <2>2 DEF Routed, SameWorld, Sound, States
  <2>4. Assigned(t1, t2, w, du) /\ Sound(t2)
    BY <1>1, <2>3, SetUserAssigns, SetUserSound
  <2> HIDE DEF t2
  <2>5. Assigned(t2, t, by, Nil)
    BY <1>1, <2>1, <2>4, SetUserAssigns
  <2>6. /\ t.user = [[s.user EXCEPT ![w] = du] EXCEPT ![by] = Nil]
        /\ t.player = [s.player EXCEPT ![du] = w]
        /\ t.splayer = [s.splayer EXCEPT ![du] = old]
    BY <2>2, <2>4, <2>5 DEF Routed, Assigned
  <2> HIDE DEF old
  <2>7. /\ t.user[w] = du /\ t.user[by] = Nil /\ t.player[du] = w /\ t.splayer[du] = old
        /\ \A l \in Livings \ {w, by} : t.user[l] = s.user[l] /\ s.user[l] # du
        /\ \A v \in Users \ {du} : t.player[v] = s.player[v] /\ t.splayer[v] = s.splayer[v]
        /\ \A l \in Livings : s.user[l] # Nil => s.user[l] \in Users
    BY <1>1, <1>2, <1>4, <2>6 DEF Sound, States
  <2>8. \A l \in Livings : t.user[l] # Nil => t.player[t.user[l]] \in {l, Nil}
    BY <2>7 DEF Owned
  <2>9. \A l, m \in Livings : t.user[l] # Nil /\ t.user[l] = t.user[m] => l = m
    BY <2>7 DEF Owned
  <2>10. \A v \in Users : t.splayer[v] # Nil /\ t.player[v] = Nil
           => ForceLevel[t.splayer[v]] = 0 /\ \A l \in Livings : t.user[l] # v
    BY <1>1, <2>7, SessionAssumption DEF Owned
  <2>11. \A v \in Users : t.splayer[v] # Nil /\ t.player[v] # Nil
           => t.player[v] \in Livings /\ ForceLevel[t.player[v]] = 0 /\ ForceLevel[t.splayer[v]] > 0
    BY <1>1, <1>2, <1>4, <2>7 DEF Owned
  <2> QED BY <2>8, <2>9, <2>10, <2>11 DEF Owned, t
<1>5. CASE MayForce(by, w) /\ wu # Nil /\ ~(s.splayer[wu] # Nil \/ s.snooper[wu] = du)
  <2> DEFINE t1 == SwitchPlayer(s, wu, Nil)
             t2 == SwitchPlayer(t1, du, w)
             t3 == [t2 EXCEPT !.snooper = [t2.snooper EXCEPT ![du] = wu]]
             t4 == SetUser(t3, w, du)
             own == s.player[wu]
  <2>1. t = SetUser(t4, by, Nil)
    BY <1>5 DEF Possession
  <2> HIDE DEF t
  <2>2. Routed(s, t1, wu, own, Nil) /\ wu # du
    BY <1>1, <1>2, <1>5, SwitchSound
  <2> HIDE DEF t1
  <2>3. /\ Sound(t1) /\ du \in t1.uobj /\ w \in t1.body \cup Npcs
        /\ t1.player[du] = old
    BY <1>1, <1>5, <2>2 DEF Routed, SameWorld, Sound, States
  <2>4. Routed(t1, t2, du, old, w)
    BY <1>1, <2>3, SwitchSound
  <2> HIDE DEF t2
  <2>5. Sound(t2) /\ wu \in t2.uobj /\ du \in t2.uobj /\ t2.player[du] = w
    BY <1>1, <1>5, <2>2, <2>3, <2>4 DEF Routed, SameWorld, Sound, States
  <2>6. /\ Sound(t3) /\ du \in t3.uobj /\ t3.player[du] = w
        /\ t3.user = t2.user /\ t3.player = t2.player /\ t3.splayer = t2.splayer
    <3>1. Sound(t3) /\ SameWorld(t2, t3)
      BY <1>1, <2>5, SnooperSound
    <3>2. t3.user = t2.user /\ t3.player = t2.player /\ t3.splayer = t2.splayer
      BY <2>5 DEF Sound, States
    <3> HIDE DEF t3
    <3> QED BY <2>5, <3>1, <3>2 DEF SameWorld
  <2> HIDE DEF t3
  <2>7. Assigned(t3, t4, w, du) /\ Sound(t4)
    BY <1>1, <2>6, SetUserAssigns, SetUserSound
  <2> HIDE DEF t4
  <2>8. Assigned(t4, t, by, Nil)
    BY <1>1, <2>1, <2>7, SetUserAssigns
  <2>9. /\ t.user = [[s.user EXCEPT ![w] = du] EXCEPT ![by] = Nil]
        /\ t.player = [[s.player EXCEPT ![wu] = Nil] EXCEPT ![du] = w]
        /\ t.splayer = [[s.splayer EXCEPT ![wu] = own] EXCEPT ![du] = old]
    BY <2>2, <2>4, <2>6, <2>7, <2>8 DEF Routed, Assigned
  <2>10. wu \in Users /\ own \in {w, Nil}
    BY <1>1, <1>5
  <2> HIDE DEF old, own
  <2>11. /\ t.user[w] = du /\ t.user[by] = Nil
         /\ t.player[du] = w /\ t.splayer[du] = old
         /\ t.player[wu] = Nil /\ t.splayer[wu] = own
         /\ \A v \in Users \ {du, wu} : t.player[v] = s.player[v] /\ t.splayer[v] = s.splayer[v]
         /\ \A l \in Livings : s.user[l] # Nil => s.user[l] \in Users
    BY <1>1, <1>2, <1>5, <2>2, <2>9, <2>10 DEF Sound, States
  <2>12. \A l \in Livings \ {w, by} : t.user[l] = s.user[l] /\ s.user[l] \notin {du, wu}
    BY <1>1, <1>5, <2>9 DEF Sound, States, Owned
  <2>13. \A l \in Livings : t.user[l] # Nil => t.player[t.user[l]] \in {l, Nil}
    BY <2>11, <2>12 DEF Owned
  <2>14. \A l, m \in Livings : t.user[l] # Nil /\ t.user[l] = t.user[m] => l = m
    BY <2>11, <2>12 DEF Owned
  <2>15. \A v \in Users : t.splayer[v] # Nil /\ t.player[v] = Nil
           => ForceLevel[t.splayer[v]] = 0 /\ \A l \in Livings : t.user[l] # v
    <3> SUFFICES ASSUME NEW v \in Users, t.splayer[v] # Nil, t.player[v] = Nil
                 PROVE  ForceLevel[t.splayer[v]] = 0 /\ \A l \in Livings : t.user[l] # v
      OBVIOUS
    <3>1. v # du
      BY <1>1, <2>11
    <3>2. CASE v = wu
      <4>1. ForceLevel[t.splayer[v]] = 0
        BY <1>2, <1>5, <2>10, <2>11, <3>2
      <4>2. \A l \in Livings : t.user[l] # v
        BY <2>2, <2>11, <2>12, <3>2, SessionAssumption
      <4> QED BY <4>1, <4>2
    <3>3. CASE v # wu
      <4>1. s.splayer[v] # Nil /\ s.player[v] = Nil /\ t.splayer[v] = s.splayer[v]
        BY <2>11, <3>1, <3>3
      <4>2. ForceLevel[s.splayer[v]] = 0 /\ \A l \in Livings : s.user[l] # v
        BY <4>1 DEF Owned
      <4> QED BY <2>11, <2>12, <3>1, <4>1, <4>2, SessionAssumption
    <3> QED BY <3>2, <3>3
  <2>16. \A v \in Users : t.splayer[v] # Nil /\ t.player[v] # Nil
           => t.player[v] \in Livings /\ ForceLevel[t.player[v]] = 0 /\ ForceLevel[t.splayer[v]] > 0
    BY <1>1, <1>2, <1>5, <2>11 DEF Owned
  <2> QED BY <2>13, <2>14, <2>15, <2>16 DEF Owned, t
<1> QED BY <1>3, <1>4, <1>5 DEF Possession

LEMMA SetLinkdeadOwned ==
  ASSUME NEW s, Sound(s), Owned(s), OnlyPowerless, NEW b, b \in Players => b \in s.body,
         NEW t \in SetLinkdead(s, b)
  PROVE  Owned(t)
<1>1. CASE t = s
  BY <1>1
<1>2. CASE b \in Npcs /\ t # s
  <2>1. PICK d \in Players : t = [s EXCEPT !.haunts = [s.haunts EXCEPT ![d] = b]]
    BY <1>2 DEF SetLinkdead
  <2>2. SameRoutes(s, t)
    BY <2>1 DEF Sound, States, SameRoutes
  <2> QED BY <2>2, OwnedSame
<1>3. CASE b \in Players \ Npcs /\ b \notin s.stone \cup s.delay /\ t # s
  <2> DEFINE r == [s EXCEPT !.delay = s.delay \cup {b}]
             du == s.user[b]
  <2>1. Sound(r) /\ SameRoutes(s, r) /\ r.body = s.body
    BY <1>3 DEF Sound, States, Existing, NoStray, SameRoutes
  <2>2. t = r \/ (du # Nil /\ s.splayer[du] # Nil /\ t \in BreakPossession(r, b, s.splayer[du]))
    BY <1>3 DEF SetLinkdead
  <2> HIDE DEF r
  <2>3. Owned(r)
    BY <2>1, OwnedSame
  <2>4. du # Nil /\ s.splayer[du] # Nil => s.splayer[du] \in Livings
    BY <1>3 DEF Sound, States, Livings
  <2>5. b \in r.body \cup Npcs
    BY <1>3, <2>1
  <2> QED BY <2>1, <2>2, <2>3, <2>4, <2>5, BreakOwned
<1> QED BY <1>1, <1>2, <1>3, SessionAssumption DEF SetLinkdead

\* Breaking possessions leaves no connection without somebody to play.
LEMMA SetUserPlays ==
  ASSUME NEW s \in States, NEW b \in Livings, NEW u \in Users \cup {Nil}
  PROVE  SetUser(s, b, u) \in States /\ SetUser(s, b, u).player = s.player
BY DEF SetUser, States

LEMMA ReturnPlays ==
  ASSUME NEW s \in States, NEW u \in Users, NEW b \in Livings
  PROVE  /\ Return(s, u, b) \in States
         /\ \A v \in Users : s.player[v] # Nil => Return(s, u, b).player[v] # Nil
BY SessionAssumption DEF Return, States

LEMMA BreakPlays ==
  ASSUME NEW s \in States, NEW x \in Livings, NEW a, NEW t \in BreakPossession(s, x, a)
  PROVE  \A v \in Users : s.player[v] # Nil => t.player[v] # Nil
<1> DEFINE du == s.user[x]
           demon == s.splayer[du]
<1>1. CASE ~CanBreak(s, x, a)
  BY <1>1 DEF BreakPossession
<1>2. CASE CanBreak(s, x, a)
  <2>1. du \in Users /\ demon \in Livings
    BY <1>2 DEF CanBreak, States
  <2>2. PICK u \in Evicted(s, x) :
          t = IF u = Nil
              THEN SetUser(SetUser(Return(s, du, demon), demon, du), x, Nil)
              ELSE LET r == Return(Return(s, u, x), du, demon) IN
                   SetUser(SetUser([r EXCEPT !.snooper = [r.snooper EXCEPT ![du] = Nil]], x, u),
                           demon, du)
    BY <1>2 DEF BreakPossession
  <2> HIDE DEF du, demon
  <2>3. CASE u = Nil
    <3> DEFINE t1 == Return(s, du, demon)
               t2 == SetUser(t1, demon, du)
    <3>1. t = SetUser(t2, x, Nil)
      BY <2>2, <2>3
    <3>2. t1 \in States /\ \A v \in Users : s.player[v] # Nil => t1.player[v] # Nil
      BY <2>1, ReturnPlays
    <3> HIDE DEF t1
    <3>3. t2 \in States /\ t2.player = t1.player
      BY <2>1, <3>2, SetUserPlays
    <3> HIDE DEF t2
    <3>4. t.player = t2.player
      BY <3>1, <3>3, SetUserPlays
    <3> QED BY <3>2, <3>3, <3>4
  <2>4. CASE u # Nil
    <3> DEFINE t1 == Return(s, u, x)
               t2 == Return(t1, du, demon)
               t3 == [t2 EXCEPT !.snooper = [t2.snooper EXCEPT ![du] = Nil]]
               t4 == SetUser(t3, x, u)
    <3>1. t = SetUser(t4, demon, du)
      BY <2>2, <2>4
    <3>2. u \in Users
      BY <2>4 DEF Evicted, States
    <3>3. t1 \in States /\ \A v \in Users : s.player[v] # Nil => t1.player[v] # Nil
      BY <3>2, ReturnPlays
    <3> HIDE DEF t1
    <3>4. t2 \in States /\ \A v \in Users : t1.player[v] # Nil => t2.player[v] # Nil
      BY <2>1, <3>3, ReturnPlays
    <3> HIDE DEF t2
    <3>5. t3 \in States /\ t3.player = t2.player
      BY <3>4 DEF States
    <3> HIDE DEF t3
    <3>6. t4 \in States /\ t4.player = t3.player
      BY <3>2, <3>5, SetUserPlays
    <3> HIDE DEF t4
    <3>7. t.player = t4.player
      BY <2>1, <3>1, <3>6, SetUserPlays
    <3> QED BY <3>3, <3>4, <3>5, <3>6, <3>7
  <2> QED BY <2>3, <2>4
<1> QED BY <1>1, <1>2

LEMMA SetLinkdeadPlays ==
  ASSUME NEW s, Sound(s), NEW b, NEW t \in SetLinkdead(s, b)
  PROVE  \A v \in Users : s.player[v] # Nil => t.player[v] # Nil
<1>1. CASE b \in Players
  <2> DEFINE r == [s EXCEPT !.delay = s.delay \cup {b}]
  <2>1. r \in States /\ r.player = s.player /\ b \in Livings
    BY <1>1 DEF Sound, States, Livings
  <2>2. t = s \/ t = r \/ \E a : t \in BreakPossession(r, b, a)
    BY <1>1, SessionAssumption DEF SetLinkdead
  <2> HIDE DEF r
  <2> QED BY <2>1, <2>2, BreakPlays
<1>2. CASE b \notin Players
  BY <1>2 DEF SetLinkdead, Sound, States
<1> QED BY <1>1, <1>2

\* The end of close() of u, whoever u plays by then: s is Owned but for that.
LEMMA CloseOwnOwned ==
  ASSUME NEW s, Sound(s), NEW q, Sound(q), Owned(q), NEW u \in Users,
         s.user = q.user, s.splayer = q.splayer,
         \A v \in Users \ {u} : s.player[v] = q.player[v],
         s.player[u] # Nil,
         s.player[u] \in Players => \A a \in Livings : ~MayForce(a, s.player[u]),
         NEW t \in CloseOwn(s, u)
  PROVE  Owned(t)
<1> DEFINE b == s.player[u]
           r == [s EXCEPT !.list = s.list \ {b}]
<1>1. PICK x \in SetLinkdead(r, b) : t = DestructUser(x, u)
  BY DEF CloseOwn
<1>2. Sound(r) /\ SameRoutes(s, r)
  BY DEF Sound, States, Existing, NoStray, SameRoutes
<1>3. b \in Players => b \in r.body
  BY DEF Sound, States, Existing
<1> HIDE DEF r
<1>4. SameRoutes(r, x)
  <2>1. ASSUME b \in Players, NEW a \in Livings, NEW y, SameRoutes(r, y), x \in BreakPossession(y, b, a)
        PROVE  SameRoutes(r, x)
    BY <2>1 DEF BreakPossession, CanBreak
  <2>2. \/ b \in Players /\ \E a \in Livings : x \in BreakPossession([r EXCEPT !.delay = r.delay \cup {b}], b, a)
        \/ SameRoutes(r, x)
    <3>1. \A v \in Users : r.splayer[v] # Nil => r.splayer[v] \in Livings
      BY <1>2 DEF Sound, States
    <3>2. \A l \in Livings : r.user[l] # Nil => r.user[l] \in Users
      BY <1>2 DEF Sound, States
    <3>3. b \in Players => b \in Livings
      BY DEF Livings
    <3> QED BY <1>1, <1>2, <3>1, <3>2, <3>3 DEF SetLinkdead, Sound, States, SameRoutes
  <2>3. SameRoutes(r, [r EXCEPT !.delay = r.delay \cup {b}])
    BY <1>2 DEF Sound, States, SameRoutes
  <2> QED BY <2>1, <2>2, <2>3
<1>5. Sound(x) /\ x.user = q.user /\ x.splayer = q.splayer /\ x.player = s.player
  BY <1>1, <1>2, <1>3, <1>4, SetLinkdeadSound DEF SameRoutes
<1>6. SameRoutes(DestructUser(q, u), t)
  <2>1. [x.player EXCEPT ![u] = Nil] = [q.player EXCEPT ![u] = Nil]
    BY <1>5 DEF Sound, States
  <2>2. DestructUser(q, u).player = [q.player EXCEPT ![u] = Nil] /\ t.player = [x.player EXCEPT ![u] = Nil]
    BY <1>1, <1>5 DEF DestructUser, Sound, States
  <2>3. DestructUser(q, u).splayer = t.splayer /\ DestructUser(q, u).user = t.user
    BY <1>1, <1>5 DEF DestructUser, Sound, States
  <2> QED BY <2>1, <2>2, <2>3 DEF SameRoutes
<1> QED BY <1>6, DestructUserOwned, OwnedSame

LEMMA CloseOwned ==
  ASSUME NEW s, Sound(s), Owned(s), OnlyPowerless, NEW u \in s.uobj, NEW t \in Close(s, u)
  PROVE  Owned(t)
<1>0. u \in Users
  BY DEF Sound, States
<1>1. CASE s.splayer[u] = Nil /\ s.player[u] = Nil
  BY <1>0, <1>1, DestructUserOwned DEF Close
<1>2. CASE s.splayer[u] = Nil /\ s.player[u] # Nil
  <2> DEFINE b == s.player[u]
             r == [s EXCEPT !.list = s.list \ {b}]
  <2>1. PICK x \in SetLinkdead(r, b) : t = DestructUser(x, u)
    BY <1>2 DEF Close, CloseOwn
  <2>2. Sound(r) /\ SameRoutes(s, r)
    BY DEF Sound, States, Existing, NoStray, SameRoutes
  <2>3. b \in Players => b \in r.body
    BY <1>0 DEF Sound, States, Existing
  <2> HIDE DEF r, b
  <2>4. Owned(r)
    BY <2>2, OwnedSame
  <2>5. Sound(x) /\ Owned(x)
    BY <2>1, <2>2, <2>3, <2>4, SetLinkdeadSound, SetLinkdeadOwned
  <2> QED BY <1>0, <2>1, <2>5, DestructUserOwned
<1>3. CASE s.splayer[u] # Nil /\ s.player[u] = Nil
  BY <1>3 DEF Close
<1>4. CASE s.splayer[u] # Nil /\ s.player[u] # Nil
  <2>1. PICK q \in SetLinkdead(s, s.player[u]) :
          t \in CloseOwn([q EXCEPT !.player = [q.player EXCEPT ![u] = q.splayer[u]]], u)
    BY <1>4 DEF Close
  <2> DEFINE r == [q EXCEPT !.player = [q.player EXCEPT ![u] = q.splayer[u]]]
  <2>2. s.player[u] \in Players => s.player[u] \in s.body
    BY <1>0 DEF Sound, States, Existing
  <2>3. Sound(q) /\ Owned(q)
    BY <2>1, <2>2, SetLinkdeadSound, SetLinkdeadOwned
  <2>4. r \in States
    BY <2>3, <1>0 DEF Sound, States
  <2>5. Existing(r)
    BY <2>3, <1>0 DEF Sound, States, Existing
  <2>6. NoStray(r)
    BY <2>3, <1>0, SessionAssumption DEF Sound, States, NoStray, Livings
  <2>7. Sound(r)
    BY <2>4, <2>5, <2>6 DEF Sound
  <2>8. /\ r.user = q.user /\ r.splayer = q.splayer /\ r.player[u] = q.splayer[u]
        /\ \A v \in Users \ {u} : r.player[v] = q.player[v]
    BY <1>0, <2>3 DEF Sound, States
  <2> HIDE DEF r
  <2>9. t \in CloseOwn(r, u)
    BY <2>1 DEF r
  <2>10. CASE q.splayer[u] = Nil
    <3>1. t = r
      BY <2>8, <2>9, <2>10 DEF CloseOwn
    <3>2. Owned(r)
      <4>1. \A l \in Livings : q.user[l] # Nil => q.user[l] \in Users
        BY <2>3 DEF Sound, States
      <4>2. \A l \in Livings : r.user[l] # Nil => r.player[r.user[l]] \in {l, Nil}
        BY <2>3, <2>8, <2>10, <4>1 DEF Owned
      <4>3. \A v \in Users : r.splayer[v] # Nil => v # u
        BY <2>8, <2>10
      <4>4. /\ \A v \in Users : r.splayer[v] # Nil /\ r.player[v] = Nil
                 => ForceLevel[r.splayer[v]] = 0 /\ \A l \in Livings : r.user[l] # v
            /\ \A v \in Users : r.splayer[v] # Nil /\ r.player[v] # Nil
                 => r.player[v] \in Livings /\ ForceLevel[r.player[v]] = 0 /\ ForceLevel[r.splayer[v]] > 0
        BY <2>3, <2>8, <4>3 DEF Owned
      <4> QED BY <2>3, <2>8, <4>2, <4>4 DEF Owned
    <3> QED BY <3>1, <3>2
  <2>11. CASE q.splayer[u] # Nil
    <3>1. r.player[u] # Nil
      BY <2>8, <2>11
    <3>2. q.player[u] # Nil
      BY <1>0, <1>4, <2>1, <2>2, SetLinkdeadPlays
    <3>3. ForceLevel[r.player[u]] > 0
      BY <1>0, <2>3, <2>8, <2>11, <3>2 DEF Owned
    <3>4. ASSUME r.player[u] \in Players, NEW a \in Livings PROVE ~MayForce(a, r.player[u])
      BY <3>3, <3>4 DEF OnlyPowerless, Livings
    <3> QED BY <1>0, <2>3, <2>7, <2>8, <2>9, <3>1, <3>4, CloseOwnOwned
  <2> QED BY <2>10, <2>11
<1> QED BY <1>1, <1>2, <1>3, <1>4
LEMMA ExecOwned ==
  ASSUME NEW s, Sound(s), Owned(s), NEW u \in s.uobj, s.player[u] = Login, NEW p \in s.body
  PROVE  Owned(Exec(s, u, p))
<1> DEFINE r == IF s.user[p] = Nil THEN s ELSE DestructUser(s, s.user[p])
           q == [r EXCEPT !.player = [r.player EXCEPT ![u] = p]]
           t == Exec(s, u, p)
<1>1. /\ u \in Users /\ p \in Livings /\ p \in Players /\ p # Nil
      /\ s.user[p] \in Users \cup {Nil} /\ s.user[p] # u
  BY SessionAssumption DEF Sound, States, NoStray, Livings
<1>2. Sound(r) /\ Owned(r) /\ r.player[u] = Login
  <2>1. CASE s.user[p] = Nil
    BY <2>1
  <2>2. CASE s.user[p] # Nil
    <3>1. r = DestructUser(s, s.user[p])
      BY <2>2
    <3>2. Sound(r) /\ Owned(r)
      BY <1>1, <2>2, <3>1, DestructUserSound, DestructUserOwned
    <3>3. r.player[u] = Login
      BY <1>1, <3>1 DEF DestructUser, Sound, States
    <3> QED BY <3>2, <3>3
  <2> QED BY <2>1, <2>2
<1>3. t = SetUser(q, p, u)
  BY DEF Exec
<1> HIDE DEF r, t
<1>4. q.player[u] = p
  BY <1>1, <1>2 DEF Sound, States
<1>5. t = [q EXCEPT !.user = [q.user EXCEPT ![p] = u]]
  BY <1>3, <1>4 DEF SetUser
<1>6. /\ t.user = [r.user EXCEPT ![p] = u] /\ t.player = [r.player EXCEPT ![u] = p]
      /\ t.splayer = r.splayer
  BY <1>2, <1>5 DEF Sound, States
<1>7. /\ t.user[p] = u /\ t.player[u] = p
      /\ \A l \in Livings \ {p} : t.user[l] = r.user[l]
      /\ \A v \in Users \ {u} : t.player[v] = r.player[v]
  BY <1>1, <1>2, <1>6 DEF Sound, States
<1>8. \A l \in Livings : r.user[l] # Nil => r.user[l] \in Users \ {u}
  BY <1>2 DEF Sound, States, NoStray
<1>9. r.splayer[u] = Nil /\ p # Nil
  BY <1>1, <1>2, SessionAssumption DEF Owned
<1>10. \A l \in Livings : t.user[l] # Nil => t.player[t.user[l]] \in {l, Nil}
  BY <1>2, <1>7, <1>8 DEF Owned
<1>11. \A l, m \in Livings : t.user[l] # Nil /\ t.user[l] = t.user[m] => l = m
  BY <1>2, <1>7, <1>8 DEF Owned
<1>12. \A v \in Users : t.splayer[v] # Nil /\ t.player[v] = Nil
         => ForceLevel[t.splayer[v]] = 0 /\ \A l \in Livings : t.user[l] # v
  BY <1>2, <1>6, <1>7, <1>9 DEF Owned
<1>13. \A v \in Users : t.splayer[v] # Nil /\ t.player[v] # Nil
         => t.player[v] \in Livings /\ ForceLevel[t.player[v]] = 0 /\ ForceLevel[t.splayer[v]] > 0
  BY <1>2, <1>6, <1>7, <1>9 DEF Owned
<1> QED BY <1>10, <1>11, <1>12, <1>13 DEF Owned, t

LEMMA HauntOwned ==
  ASSUME NEW s, Sound(s), Owned(s), OnlyPowerless, NEW p \in s.body, s.user[p] # Nil
  PROVE  Owned(Haunt(s, p))
<1>1. CASE s.haunts[p] = Nil
  BY <1>1 DEF Haunt
<1>2. CASE s.haunts[p] # Nil
  <2>1. s.haunts[p] \in Npcs
    BY <1>2 DEF Sound, States
  <2> QED BY <1>2, <2>1, PossessionOwned DEF Haunt
<1> QED BY <1>1, <1>2

LEMMA QuitOfOwned ==
  ASSUME NEW s, Sound(s), Owned(s), OnlyPowerless, NEW b \in s.body, NEW t \in QuitOf(s, b)
  PROVE  Owned(t)
<1> DEFINE u == s.user[b]
<1>1. /\ b \in Players /\ b \in Livings /\ u \in s.uobj \cup {Nil} /\ (u # Nil => u \in Users)
  BY DEF Sound, States, Existing, Livings
<1>2. ~CanBreak(s, b, b)
  BY <1>1, SessionAssumption DEF CanBreak, MayForce
<1>3. CASE /\ IsCoder(b)
           /\ t = DestructBody(IF u # Nil /\ s.player[u] = b THEN DestructUser(s, u) ELSE s, b)
  <2>1. ForceLevel[b] # 0
    BY <1>1, <1>3, SessionAssumption DEF IsCoder
  <2> QED BY <1>1, <1>3, <2>1, DestructUserSound, DestructUserOwned, DestructBodyOwned
<1>4. CASE t = s
  BY <1>4
<1>5. CASE u # Nil /\ t \in Close(s, u)
  BY <1>1, <1>5, CloseOwned
<1> QED BY <1>2, <1>3, <1>4, <1>5 DEF QuitOf

LEMMA SnoopByOwned ==
  ASSUME NEW s, Sound(s), Owned(s), NEW a, NEW by, NEW on
  PROVE  Owned(SnoopBy(s, a, by, on))
<1>1. SameRoutes(s, SnoopBy(s, a, by, on))
  BY DEF SnoopBy, SameRoutes, Sound, States
<1> QED BY <1>1, OwnedSame

LEMMA EndsInOwned ==
  ASSUME NEW s, Sound(s), Owned(s), Becomes(s)
  PROVE  Owned(Now)'
<1>1. Now' = s
  BY DEF Now, Becomes, Sound, States
<1>2. Owned(Now)' <=> Owned(Now')
  BY DEF Owned, Now
<1> QED BY <1>1, <1>2

LEMMA InitOwned == Init => Owned(Now)
BY SessionAssumption DEF Init, Now, Owned

\* The actions that end in an owned state and move no statue.
LEMMA TaskOwned ==
  ASSUME SessionInd, Owned(Now), OnlyPowerless, NEW u \in Users,
         \/ LoginEnds(u) \/ LoseLink(u) \/ Quit(u)
         \/ \E p \in Players : EnterNew(u, p)
         \/ \E w \in Victims : PossessCmd(u, w) \/ BreakCmd(u, w)
         \/ \E by, on \in Players : Snoop(u, by, on)
  PROVE  Owned(Now)'
<1>0. Sound(Now) /\ Owned(Now)
  BY DEF SessionInd
<1>1. ASSUME LoginEnds(u) PROVE Owned(Now)'
  <2>1. PICK s : s = DestructUser(Now, u) /\ EndsIn(s)
    BY <1>1 DEF LoginEnds
  <2>2. Sound(s) /\ Owned(s)
    BY <1>0, <2>1, DestructUserSound, DestructUserOwned
  <2> QED BY <2>1, <2>2, EndsInOwned DEF EndsIn
<1>2. ASSUME LoseLink(u) PROVE Owned(Now)'
  <2> DEFINE r == [Now EXCEPT !.conn = conn \ {u}]
  <2>1. PICK s \in Close(r, u) : EndsIn(s)
    BY <1>2 DEF LoseLink
  <2>2. Sound(r) /\ u \in r.uobj
    BY <1>0, <1>2 DEF LoseLink, Now, Sound, States, Existing, NoStray
  <2>3. SameRoutes(Now, r)
    BY DEF SameRoutes, Now
  <2> HIDE DEF r
  <2>4. Sound(s) /\ Owned(s)
    BY <1>0, <2>1, <2>2, <2>3, OwnedSame, CloseSound, CloseOwned
  <2> QED BY <2>1, <2>4, EndsInOwned DEF EndsIn
<1>3. ASSUME Quit(u) PROVE Owned(Now)'
  <2>1. PICK b \in Players : Acts(u, b) /\ \E s \in QuitOf(Now, b) : EndsIn(s)
    BY <1>3 DEF Quit
  <2>2. b \in Now.body
    BY <1>0, <2>1 DEF Acts, Now, Sound, Existing
  <2>3. PICK s \in QuitOf(Now, b) : EndsIn(s)
    BY <2>1
  <2>4. Sound(s) /\ Owned(s)
    BY <1>0, <2>2, <2>3, QuitOfSound, QuitOfOwned
  <2> QED BY <2>3, <2>4, EndsInOwned DEF EndsIn
<1>4. ASSUME NEW p \in Players, EnterNew(u, p) PROVE Owned(Now)'
  <2> DEFINE r == [Now EXCEPT !.body = body \cup {p}, !.list = list \cup {p}]
  <2>1. PICK s : s = Exec(r, u, p) /\ EndsIn(s)
    BY <1>4 DEF EnterNew
  <2>2. r \in States /\ p \in r.body /\ r.player[u] = Login
    BY <1>0, <1>4 DEF EnterNew, Now, Sound, States
  <2>3. Existing(r)
    BY <1>0 DEF Now, Sound, Existing
  <2>4. NoStray(r) /\ u \in r.uobj
    BY <1>0, <1>4, SessionAssumption DEF EnterNew, Now, Sound, Existing, NoStray
  <2>5. SameRoutes(Now, r)
    BY DEF SameRoutes, Now
  <2> HIDE DEF r
  <2>6. Sound(r) /\ Owned(r)
    BY <1>0, <2>2, <2>3, <2>4, <2>5, OwnedSame DEF Sound
  <2>7. Sound(s) /\ Owned(s)
    BY <2>1, <2>2, <2>4, <2>6, ExecSound, ExecOwned
  <2> QED BY <2>1, <2>7, EndsInOwned DEF EndsIn
<1>5. ASSUME NEW w \in Victims, PossessCmd(u, w) PROVE Owned(Now)'
  <2>1. PICK by \in Players : /\ Acts(u, by) /\ user[by] # Nil
                              /\ w \in Npcs \cup (body \ stone)
                              /\ EndsIn(Possession(Now, w, by))
    BY <1>5 DEF PossessCmd
  <2>2. PICK s : s = Possession(Now, w, by) /\ EndsIn(s)
    BY <2>1
  <2>3. by \in Now.body /\ w \in Now.body \cup Npcs /\ Now.user[by] # Nil
    BY <1>0, <2>1 DEF Acts, Now, Sound, Existing
  <2>4. Sound(s) /\ Owned(s)
    BY <1>0, <2>2, <2>3, PossessionSound, PossessionOwned
  <2> QED BY <2>2, <2>4, EndsInOwned DEF EndsIn
<1>6. ASSUME NEW w \in Victims, BreakCmd(u, w) PROVE Owned(Now)'
  <2>1. PICK by \in Admins : /\ CanBreak(Now, w, by)
                             /\ \E s \in BreakPossession(Now, w, by) : EndsIn(s)
    BY <1>6 DEF BreakCmd
  <2>2. PICK s \in BreakPossession(Now, w, by) : EndsIn(s)
    BY <2>1
  <2>3. w \in Now.body \cup Npcs /\ by \in Livings
    BY <1>0, <2>1, SessionAssumption DEF CanBreak, Sound, NoStray, Livings
  <2>4. Sound(s) /\ Owned(s)
    BY <1>0, <2>2, <2>3, BreakSound, BreakOwned
  <2> QED BY <2>2, <2>4, EndsInOwned DEF EndsIn
<1>7. ASSUME NEW by \in Players, NEW on \in Players, Snoop(u, by, on) PROVE Owned(Now)'
  <2>1. PICK a \in Players : EndsIn(SnoopBy(Now, a, by, on))
    BY <1>7 DEF Snoop
  <2>2. PICK s : s = SnoopBy(Now, a, by, on) /\ EndsIn(s)
    BY <2>1
  <2>3. Now.user[by] # Nil /\ Now.user[on] # Nil /\ by \in Livings /\ on \in Livings
    BY <1>0, <1>7, SessionAssumption DEF Snoop, Now, Sound, States, Livings
  <2>4. Sound(s) /\ Owned(s)
    BY <1>0, <2>2, <2>3, SnoopBySound, SnoopByOwned
  <2> QED BY <2>2, <2>4, EndsInOwned DEF EndsIn
<1> QED BY <1>1, <1>2, <1>3, <1>4, <1>5, <1>6, <1>7

LEMMA ConnectOwned ==
  ASSUME SessionInd, Owned(Now), NEW u \in Users, Connect(u)
  PROVE  Owned(Now)'
<1>1. u \notin uobj /\ splayer[u] = Nil /\ \A l \in Livings : user[l] # u
  BY SessionAssumption DEF SessionInd, Sound, Existing, Now, Connect
<1>2. /\ user' = user /\ splayer' = splayer /\ player'[u] = Login
      /\ \A v \in Users \ {u} : player'[v] = player[v]
      /\ \A l \in Livings : user[l] # Nil => user[l] \in Users
  BY DEF Connect, SessionInd, Sound, States, Now
<1>3. Login # Nil
  BY SessionAssumption
<1>4. Now'.user = user /\ Now'.splayer = splayer /\ Now'.player = player'
  BY <1>2 DEF Now
<1>5. Owned(Now')
  <2>1. \A l \in Livings : user[l] # Nil => player'[user[l]] \in {l, Nil}
    BY <1>1, <1>2 DEF Owned, Now
  <2>2. \A v \in Users : splayer[v] # Nil => v # u
    BY <1>1
  <2>3. \A v \in Users : splayer[v] # Nil /\ player'[v] = Nil
          => ForceLevel[splayer[v]] = 0 /\ \A l \in Livings : user[l] # v
    BY <1>2, <2>2 DEF Owned, Now
  <2>4. \A v \in Users : splayer[v] # Nil /\ player'[v] # Nil
          => player'[v] \in Livings /\ ForceLevel[player'[v]] = 0 /\ ForceLevel[splayer[v]] > 0
    BY <1>2, <2>2 DEF Owned, Now
  <2>5. \A l, m \in Livings : user[l] # Nil /\ user[l] = user[m] => l = m
    BY DEF Owned, Now
  <2> QED BY <1>4, <2>1, <2>3, <2>4, <2>5 DEF Owned
<1> QED BY <1>5 DEF Owned, Now

LEMMA EnterOldOwned ==
  ASSUME SessionInd, Owned(Now), OnlyPowerless, NEW u \in Users, NEW p \in Players, EnterOld(u, p)
  PROVE  Owned(Now)'
<1> DEFINE r == [Now EXCEPT !.list = list \cup {p}]
<1>1. PICK s : s = Exec(r, u, p)
  OBVIOUS
<1>2. /\ Sound(r) /\ r.player[u] = Login /\ p \in r.body /\ u \in r.uobj
      /\ SameRoutes(Now, r)
  BY SessionAssumption
  DEF SessionInd, EnterOld, Now, Sound, States, Existing, NoStray, SameRoutes
<1>3. \/ EndsIn(Haunt(s, p))
      \/ EndsIn(s)
      \/ Becomes(Haunt([s EXCEPT !.stone = s.stone \ {p}], p))
  BY <1>1 DEF EnterOld
<1> HIDE DEF r
<1>4. Sound(s) /\ s.body = r.body /\ s.user[p] # Nil /\ Owned(s)
  BY <1>1, <1>2, OwnedSame, ExecSound, ExecOwned
<1>5. CASE EndsIn(Haunt(s, p))
  <2>1. PICK t : t = Haunt(s, p) /\ EndsIn(t)
    BY <1>5
  <2>2. Sound(t) /\ Owned(t)
    BY <1>2, <1>4, <2>1, HauntSound, HauntOwned
  <2> QED BY <2>1, <2>2, EndsInOwned DEF EndsIn
<1>6. CASE EndsIn(s)
  BY <1>4, <1>6, EndsInOwned DEF EndsIn
<1>7. CASE Becomes(Haunt([s EXCEPT !.stone = s.stone \ {p}], p))
  <2>1. PICK q : q = [s EXCEPT !.stone = s.stone \ {p}]
    OBVIOUS
  <2>2. Sound(q) /\ p \in q.body /\ q.user[p] # Nil /\ SameRoutes(s, q)
    BY <1>2, <1>4, <2>1 DEF Sound, States, Existing, NoStray, SameRoutes
  <2>3. PICK t : t = Haunt(q, p) /\ Becomes(t)
    BY <1>7, <2>1
  <2>4. Sound(t) /\ Owned(t)
    BY <1>4, <2>2, <2>3, OwnedSame, HauntSound, HauntOwned
  <2> QED BY <2>3, <2>4, EndsInOwned
<1> QED BY <1>3, <1>5, <1>6, <1>7

LEMMA SessionStepOwned ==
  OnlyPowerless /\ SessionInd /\ Owned(Now) /\ [Next]_vars => Owned(Now)'
<1> SUFFICES ASSUME OnlyPowerless, SessionInd, Owned(Now), [Next]_vars
             PROVE  Owned(Now)'
  OBVIOUS
<1>1. ASSUME UNCHANGED <<player, splayer, user>> PROVE Owned(Now)'
  BY <1>1 DEF Owned, Now
<1>2. CASE UNCHANGED vars
  BY <1>1, <1>2 DEF vars
<1>3. CASE Next
  <2>1. ASSUME NEW u \in Users,
               \/ Connect(u) \/ LoginEnds(u) \/ LoseLink(u) \/ Quit(u)
               \/ \E p \in Players : EnterNew(u, p) \/ EnterOld(u, p)
               \/ \E w \in Victims : PossessCmd(u, w) \/ BreakCmd(u, w)
               \/ \E by, on \in Players : Snoop(u, by, on)
        PROVE  Owned(Now)'
    BY <2>1, ConnectOwned, TaskOwned, EnterOldOwned
  <2>2. ASSUME NEW b \in Players, DelayLinkdead(b) \/ MoveStatue(b) PROVE Owned(Now)'
    BY <1>1, <2>2 DEF DelayLinkdead, MoveStatue
  <2> QED BY <1>3, <2>1, <2>2 DEF Next
<1> QED BY <1>2, <1>3

\* As long as whoever can be possessed cannot possess, a player is shown what happens by a
\* connection that sends its input to the player, or to nobody while another acts through the
\* player (set_user()): through logins, exec(), possession, its end and lost links.
THEOREM SessionRoutedToOwn == OnlyPowerless /\ Spec => []RoutedToOwn
<1>1. Owned(Now) => RoutedToOwn
  BY DEF Owned, Now, RoutedToOwn, Livings
<1> SUFFICES ASSUME OnlyPowerless PROVE Spec => []RoutedToOwn
  OBVIOUS
<1>2. SessionInd /\ Owned(Now) /\ [Next]_vars => Owned(Now)'
  BY SessionStepOwned
<1> QED BY <1>1, <1>2, InitOwned, SessionAlwaysInd, PTL DEF Spec
=============================================================================
