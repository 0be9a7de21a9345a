-------------------------- MODULE InventoryProofs ---------------------------
(***************************************************************************)
(* Proofs about Inventory, for any objects of any sizes and any places.    *)
(*                                                                         *)
(* An operator that stands for a call keeps Sorted, which adds to the type *)
(* and to Rooted that livings are in rooms or nowhere, and that a heap     *)
(* which is gone has no units.  The first is what keeps moves from closing *)
(* a circle: a player puts things only into what is his or lies about.     *)
(* Then comes what a call does to the books: Off is by how much they are   *)
(* wrong, which update_internal() of a place changes for that place only.  *)
(***************************************************************************)
EXTENDS Inventory, SetInduction

States ==
  [env : [Objs -> Places \cup {Nil}], inv : [Places -> SUBSET Objs], att : [Places -> SUBSET Objs],
   weight : [Conts -> Int], volume : [Conts -> Int], size : [Heaps -> Nat],
   live : SUBSET Objs, dying : SUBSET Objs]

\* Where things are is known twice; they are attached to belts only.
Placed(s) ==
  /\ \A p \in Places : s.inv[p] \subseteq s.live /\ s.att[p] \subseteq s.live
  /\ \A p \in Places : s.inv[p] \cap s.att[p] = {}
  /\ \A p \in Places, o \in Objs : s.env[o] = p <=> o \in s.inv[p] \cup s.att[p]
  /\ \A c \in Conts : s.att[c] = {}

\* A heap without units is gone, or will be.
Counted(s) ==
  /\ s.dying \subseteq s.live \cap Heaps
  /\ \A h \in Heaps : h \notin s.live => s.size[h] = 0
  /\ \A h \in s.live \cap Heaps : s.size[h] = 0 => h \in s.dying

Uncarried(s) == \A l \in Livings : s.env[l] \in Rooms \cup {Nil}

RootedIn(s) == \A D \in SUBSET (Conts \cup Belts) : D = {} \/ \E o \in D : s.env[o] \notin D

Sorted(s) == s \in States /\ Placed(s) /\ Counted(s) /\ Uncarried(s) /\ RootedIn(s)

\* Everything but the books of weight and volume, and the units.
SamePlaces(s, t) == t.env = s.env /\ t.inv = s.inv /\ t.att = s.att /\ t.live = s.live

OnlyBooks(s, t) == SamePlaces(s, t) /\ t.size = s.size /\ t.dying = s.dying

\* What a move may aim at without closing a circle.
Near(s, d) == d \in Rooms \cup Livings \/ (d \in Objs /\ s.env[d] \in Rooms \cup Livings \cup {Nil})

-----------------------------------------------------------------------------
LEMMA Apart ==
  /\ Objs \cap Rooms = {} /\ Nil \notin Rooms \cup Objs /\ Gone \notin Rooms \cup Objs /\ Nil # Gone
  /\ Heaps \cap (Livings \cup Places) = {} /\ Livings \cap (Bags \cup Belts) = {}
  /\ Attachable \cap (Belts \cup Livings \cup Heaps) = {} /\ Attachable \subseteq Objs
  /\ Livings \subseteq Conts /\ Bags \subseteq Conts /\ Belts \subseteq Objs /\ Heaps \subseteq Objs
  /\ Conts \subseteq Objs /\ Conts \subseteq Places /\ Livings \subseteq Objs
  /\ Conts \cup Belts \subseteq Objs /\ Here \in Rooms /\ Rooms \subseteq Places /\ IsFiniteSet(Objs)
  /\ Places \subseteq Rooms \cup Objs /\ Belts \subseteq Places /\ Belts \cap Conts = {}
BY InventoryAssumption DEF Objs, Conts, Places

LEMMA Weighed ==
  ASSUME NEW s \in States, NEW o \in Objs
  PROVE  QueryWeight(s, o) \in Int /\ QueryVolume(s, o) \in Int
<1>1. OwnWeight[o] \in Nat /\ OwnVolume[o] \in Nat
  BY InventoryAssumption
<1>2. CASE o \in Heaps
  <2>1. s.size[o] \in Nat
    BY <1>2 DEF States
  <2>2. OwnWeight[o] * s.size[o] \in Int /\ OwnVolume[o] * s.size[o] \in Int
    BY <1>1, <2>1
  <2> QED BY <1>2, <2>2 DEF QueryWeight, QueryVolume
<1>3. CASE o \notin Heaps
  <2>1. o \in Conts => s.weight[o] \in Int /\ s.volume[o] \in Int /\ MaxVolume[o] \in Nat
    BY InventoryAssumption DEF States
  <2>2. o \in Rigid => o \in Conts
    BY InventoryAssumption DEF Conts
  <2> QED BY <1>1, <1>3, <2>1, <2>2 DEF QueryWeight, QueryVolume
<1> QED BY <1>2, <1>3

\* Books may say what they like.
LEMMA Rebooked ==
  ASSUME NEW s, Sorted(s), NEW W \in [Conts -> Int], NEW V \in [Conts -> Int]
  PROVE  \A t : t = [s EXCEPT !.weight = W, !.volume = V] => Sorted(t) /\ OnlyBooks(s, t)
<1> DEFINE t == [s EXCEPT !.weight = W, !.volume = V]
<1>1. s \in States
  BY DEF Sorted
<1>2. /\ t \in States /\ SamePlaces(s, t) /\ t.size = s.size /\ t.dying = s.dying
      /\ t.weight = W /\ t.volume = V
  BY <1>1 DEF States, SamePlaces
<1> HIDE DEF t
<1>3. Placed(t) /\ Counted(t) /\ Uncarried(t) /\ RootedIn(t)
  BY <1>2 DEF Sorted, SamePlaces, Placed, Counted, Uncarried, RootedIn
<1> QED BY <1>2, <1>3 DEF Sorted, OnlyBooks, t

\* update_internal() of anything.
LEMMA BookKeeps ==
  ASSUME NEW s, Sorted(s), NEW c, NEW w \in Int, NEW v \in Int
  PROVE  Sorted(Book(s, c, w, v)) /\ OnlyBooks(s, Book(s, c, w, v))
<1> DEFINE all == Enclosing(s, c)
           inRigid(x) == \E r \in (Rigid \cap all) \ {x} : x \in Enclosing(s, r)
           W == [x \in Conts |-> s.weight[x] + IF x \in all THEN w ELSE 0]
           V == [x \in Conts |-> s.volume[x] + IF x \in all /\ ~inRigid(x) THEN v ELSE 0]
<1>1. \A x \in Conts : s.weight[x] \in Int /\ s.volume[x] \in Int
  BY DEF Sorted, States
<1>2. Book(s, c, w, v) = [s EXCEPT !.weight = W, !.volume = V]
  BY DEF Book
<1>3. W \in [Conts -> Int]
  <2> HIDE DEF all
  <2> QED BY <1>1
<1>4. V \in [Conts -> Int]
  <2> HIDE DEF all, inRigid
  <2> QED BY <1>1
<1> HIDE DEF W, V
<1> QED BY <1>2, <1>3, <1>4, Rebooked

\* What moves, but a living, to a place that is not in it closes no circle.
LEMMA Rehung ==
  ASSUME NEW s, Sorted(s), NEW o \in s.live, NEW d \in Places, o \notin Livings, Near(s, d), d # o,
         NEW t \in States, Placed(t), t.env = [s.env EXCEPT ![o] = d], t.size = s.size,
         t.dying = s.dying, t.live = s.live
  PROVE  Sorted(t)
<1> DEFINE E == [s.env EXCEPT ![o] = d]
<1>1. s \in States /\ o \in Objs
  BY DEF Sorted, States
<1>4. \A x \in Objs : E[x] = IF x = o THEN d ELSE s.env[x]
  BY <1>1 DEF States
<1> HIDE DEF E
<1>5. t.env = E
  BY DEF E
<1>7. Counted(t)
  BY DEF Sorted, Counted
<1>8. Uncarried(t)
  BY <1>4, <1>5, Apart DEF Sorted, Uncarried
<1>9. RootedIn(t)
  <2> SUFFICES ASSUME NEW D \in SUBSET (Conts \cup Belts), D # {} PROVE \E x \in D : E[x] \notin D
    BY <1>5 DEF RootedIn
  <2>1. D \subseteq Objs /\ D \cap Rooms = {} /\ Nil \notin D
    BY Apart
  <2>2. \A l \in Livings : l \in Objs /\ E[l] = s.env[l] /\ E[l] \notin D
    BY <1>4, <2>1, Apart DEF Sorted, Uncarried
  <2>3. CASE o \notin D
    <3>1. PICK x \in D : s.env[x] \notin D
      BY DEF Sorted, RootedIn
    <3> QED BY <1>4, <2>1, <2>3, <3>1
  <2>4. CASE o \in D /\ d \notin D
    BY <1>1, <1>4, <2>4
  <2>5. CASE o \in D /\ d \in D
    <3>1. d \in Objs /\ E[d] = s.env[d] /\ d \notin Rooms
      BY <1>4, <2>1, <2>5
    <3>2. CASE d \in Livings
      BY <2>2, <2>5, <3>2
    <3>3. CASE s.env[d] \in Rooms \cup {Nil}
      BY <2>1, <2>5, <3>1, <3>3
    <3>4. CASE s.env[d] \in Livings
      BY <2>2, <2>5, <3>1, <3>4
    <3> QED BY <3>1, <3>2, <3>3, <3>4 DEF Near
  <2> QED BY <2>3, <2>4, <2>5
<1> QED BY <1>7, <1>8, <1>9 DEF Sorted

\* move_object() of what exists, to a place that is not in it.
LEMMA MoveObjectKeeps1 ==
  ASSUME NEW s, Sorted(s), NEW o \in s.live, NEW d \in Places, o \notin Livings, Near(s, d),
         d # o, d # s.env[o]
  PROVE  LET t == MoveObject(s, o, d) IN
         /\ Sorted(t) /\ t.size = s.size /\ t.dying = s.dying /\ t.live = s.live
         /\ t.env = [s.env EXCEPT ![o] = d]
<1> DEFINE t == MoveObject(s, o, d)
           I == [p \in Places |-> IF p = d THEN s.inv[p] \cup {o}
                                  ELSE IF p = s.env[o] THEN s.inv[p] \ {o} ELSE s.inv[p]]
           A == [p \in Places |-> IF p = s.env[o] THEN s.att[p] \ {o} ELSE s.att[p]]
           E == [s.env EXCEPT ![o] = d]
<1>1. s \in States /\ o \in Objs
  BY DEF Sorted, States
<1>2. I \in [Places -> SUBSET Objs] /\ A \in [Places -> SUBSET Objs] /\ E \in [Objs -> Places \cup {Nil}]
  BY <1>1 DEF States
<1>3. t = [s EXCEPT !.env = E, !.inv = I, !.att = A]
  BY <1>1 DEF MoveObject, TakenOut, States
<1>4. /\ \A p \in Places : I[p] = IF p = d THEN s.inv[p] \cup {o}
                                  ELSE IF p = s.env[o] THEN s.inv[p] \ {o} ELSE s.inv[p]
      /\ \A p \in Places : A[p] = IF p = s.env[o] THEN s.att[p] \ {o} ELSE s.att[p]
      /\ \A x \in Objs : E[x] = IF x = o THEN d ELSE s.env[x]
  BY <1>1 DEF States
<1> HIDE DEF I, A, E, t
<1>5. /\ t \in States /\ t.env = E /\ t.inv = I /\ t.att = A /\ t.size = s.size
      /\ t.dying = s.dying /\ t.live = s.live
  BY <1>1, <1>2, <1>3 DEF States
<1>6. Placed(t)
  <2>1. /\ \A p \in Places : s.inv[p] \subseteq s.live /\ s.att[p] \subseteq s.live
        /\ \A p \in Places : s.inv[p] \cap s.att[p] = {}
        /\ \A p \in Places, x \in Objs : s.env[x] = p <=> x \in s.inv[p] \cup s.att[p]
    BY DEF Sorted, Placed
  <2>2. ASSUME NEW p \in Places
        PROVE  /\ I[p] \subseteq s.live /\ A[p] \subseteq s.live /\ I[p] \cap A[p] = {}
               /\ \A x \in Objs : E[x] = p <=> x \in I[p] \cup A[p]
    <3>1. CASE p = d
      <4>1. I[p] = s.inv[p] \cup {o} /\ A[p] = s.att[p] /\ o \notin s.att[p]
        BY <1>1, <1>4, <2>1, <3>1
      <4>2. \A x \in Objs : E[x] = p <=> x = o \/ s.env[x] = p
        BY <1>4, <3>1
      <4> QED BY <2>1, <4>1, <4>2
    <3>2. CASE p # d /\ p = s.env[o]
      <4>1. I[p] = s.inv[p] \ {o} /\ A[p] = s.att[p] \ {o}
        BY <1>4, <3>2
      <4>2. \A x \in Objs : E[x] = p <=> x # o /\ s.env[x] = p
        BY <1>4, <3>2
      <4> QED BY <2>1, <4>1, <4>2
    <3>3. CASE p # d /\ p # s.env[o]
      <4>1. I[p] = s.inv[p] /\ A[p] = s.att[p]
        BY <1>4, <3>3
      <4>2. \A x \in Objs : E[x] = p <=> s.env[x] = p
        BY <1>4, <3>3
      <4> QED BY <2>1, <4>1, <4>2
    <3> QED BY <3>1, <3>2, <3>3
  <2>3. \A c \in Conts : A[c] = {}
    BY <1>4, Apart DEF Sorted, Placed
  <2> QED BY <1>5, <2>2, <2>3 DEF Placed
<1> QED BY <1>5, <1>6, Rehung DEF t, E

LEMMA MoveObjectKeeps0 ==
  ASSUME NEW s, Sorted(s), NEW o \in s.live, NEW d \in Places, o \notin Livings, Near(s, d)
  PROVE  LET t == MoveObject(s, o, d) IN
         Sorted(t) /\ t.size = s.size /\ t.dying = s.dying /\ t.live = s.live
<1>1. CASE d \in {o, s.env[o]}
  BY <1>1 DEF MoveObject
<1>2. CASE d \notin {o, s.env[o]}
  BY <1>2, MoveObjectKeeps1
<1> QED BY <1>1, <1>2

\* What is in the objects of D, and they themselves.
Inside(s, D) == D \cup UNION {s.inv[p] : p \in D \cap Places}

\* What is found by looking into things over and over again are objects; of an object that
\* is no place, or an empty one, it is that object.
LEMMA ContentsAre ==
  ASSUME NEW s \in States, NEW o \in Objs
  PROVE  /\ Contents(s, o) \subseteq Objs
         /\ (o \notin Places \/ s.inv[o] = {}) => Contents(s, o) = {o}
<1> DEFINE N == Cardinality(Objs)
           F == [D \in SUBSET Objs |-> Inside(s, D)]
           within == CHOOSE f : f = [k \in 0 .. N |->
                       IF k = 0 THEN {o}
                       ELSE UNION {D \cup UNION {s.inv[p] : p \in D \cap Places} : D \in {f[k - 1]}}]
<1>1. Contents(s, o) = within[N]
  BY DEF Contents
<1>2. N \in Nat
  BY Apart, FS_CardinalityType
<1>3. F \in [SUBSET Objs -> SUBSET Objs]
  BY DEF Inside, States
<1> HIDE DEF N, F
<1>4. PICK g \in [0 .. N -> SUBSET Objs] : Iterated(g, F, {o}, N)
  <2>1. {o} \in SUBSET Objs
    OBVIOUS
  <2> QED BY <1>2, <1>3, <2>1, Iterates
<1>5. \A k \in 0 .. N : k # 0 => k \in 1 .. N /\ k - 1 \in 0 .. N
  BY <1>2
<1>6. \A k \in 1 .. N : g[k] = Inside(s, g[k - 1])
  <2> SUFFICES ASSUME NEW k \in 1 .. N PROVE F[g[k - 1]] = Inside(s, g[k - 1])
    BY <1>4 DEF Iterated
  <2>1. k - 1 \in 0 .. N
    BY <1>2
  <2>2. g[k - 1] \in SUBSET Objs
    BY <2>1
  <2> QED BY <2>2 DEF F
<1>7. g = [k \in 0 .. N |->
             IF k = 0 THEN {o}
             ELSE UNION {D \cup UNION {s.inv[p] : p \in D \cap Places} : D \in {g[k - 1]}}]
  <2>1. \A k : UNION {D \cup UNION {s.inv[p] : p \in D \cap Places} : D \in {g[k - 1]}} = Inside(s, g[k - 1])
    BY DEF Inside
  <2>2. \A k \in 0 .. N : g[k] = IF k = 0 THEN {o} ELSE Inside(s, g[k - 1])
    BY <1>4, <1>5, <1>6 DEF Iterated
  <2>3. \A k \in 0 .. N : g[k] =
             IF k = 0 THEN {o}
             ELSE UNION {D \cup UNION {s.inv[p] : p \in D \cap Places} : D \in {g[k - 1]}}
    BY <2>1, <2>2
  <2> QED BY <2>3
<1>8. within = [k \in 0 .. N |->
             IF k = 0 THEN {o}
             ELSE UNION {D \cup UNION {s.inv[p] : p \in D \cap Places} : D \in {within[k - 1]}}]
  BY <1>7
<1> HIDE DEF within
<1>9. /\ within[0] = {o}
      /\ \A k \in 0 .. N : k + 1 \in 0 .. N => within[k + 1] = Inside(s, within[k])
  <2>1. \A k \in 0 .. N : within[k] =
             IF k = 0 THEN {o}
             ELSE UNION {D \cup UNION {s.inv[p] : p \in D \cap Places} : D \in {within[k - 1]}}
    BY <1>8
  <2>2. \A k : UNION {D \cup UNION {s.inv[p] : p \in D \cap Places} : D \in {within[k]}} = Inside(s, within[k])
    BY DEF Inside
  <2>3. 0 \in 0 .. N /\ \A k \in 0 .. N : k + 1 # 0 /\ (k + 1) - 1 = k
    BY <1>2
  <2> QED BY <2>1, <2>2, <2>3
<1> DEFINE Good(k) == within[k] \subseteq Objs /\ ((o \notin Places \/ s.inv[o] = {}) => within[k] = {o})
           A == {k \in Nat : k \in 0 .. N => Good(k)}
<1>10. 0 \in A
  BY <1>9
<1>11. ASSUME NEW k \in Nat, k \in A PROVE k + 1 \in A
  <2> SUFFICES ASSUME k + 1 \in 0 .. N PROVE Good(k + 1)
    OBVIOUS
  <2> HIDE DEF A, Good
  <2>1. k \in 0 .. N
    BY <1>2
  <2>2. Good(k)
    BY <1>11, <2>1, Zenon DEF A
  <2>3. within[k + 1] = Inside(s, within[k])
    BY <1>9, <2>1
  <2>4. \A p \in Places : s.inv[p] \subseteq Objs
    BY DEF States
  <2> QED BY <2>2, <2>3, <2>4 DEF Inside, Good
<1> HIDE DEF A, Good
<1>12. N \in A
  BY <1>2, <1>10, <1>11, CountedUp
<1>13. N \in 0 .. N
  BY <1>2
<1>14. Good(N)
  BY <1>12, <1>13, Zenon DEF A
<1> QED BY <1>1, <1>14 DEF Good

\* destruct_object() of any objects.
LEMMA DestructedKeeps ==
  ASSUME NEW s, Sorted(s), NEW D
  PROVE  Sorted(Destructed(s, D))
<1> DEFINE t == Destructed(s, D)
           E == [o \in Objs |-> IF o \in D \/ s.env[o] \in D THEN Nil ELSE s.env[o]]
           I == [p \in Places |-> IF p \in D THEN {} ELSE s.inv[p] \ D]
           A == [p \in Places |-> IF p \in D THEN {} ELSE s.att[p] \ D]
           S == [h \in Heaps |-> IF h \in D THEN 0 ELSE s.size[h]]
<1>1. s \in States
  BY DEF Sorted
<1>2. /\ I \in [Places -> SUBSET Objs] /\ A \in [Places -> SUBSET Objs]
      /\ E \in [Objs -> Places \cup {Nil}] /\ S \in [Heaps -> Nat]
  BY <1>1 DEF States
<1>3. t = [s EXCEPT !.live = s.live \ D, !.env = E, !.inv = I, !.att = A, !.size = S,
                    !.dying = s.dying \ D]
  BY DEF Destructed
<1>4. /\ \A o \in Objs : E[o] = IF o \in D \/ s.env[o] \in D THEN Nil ELSE s.env[o]
      /\ \A p \in Places : I[p] = IF p \in D THEN {} ELSE s.inv[p] \ D
      /\ \A p \in Places : A[p] = IF p \in D THEN {} ELSE s.att[p] \ D
      /\ \A h \in Heaps : S[h] = IF h \in D THEN 0 ELSE s.size[h]
  OBVIOUS
<1> HIDE DEF E, I, A, S, t
<1>5. /\ t \in States /\ t.env = E /\ t.inv = I /\ t.att = A /\ t.size = S
      /\ t.live = s.live \ D /\ t.dying = s.dying \ D
  BY <1>1, <1>2, <1>3 DEF States
<1>6. Placed(t)
  <2> SUFFICES ASSUME NEW p \in Places
        PROVE  /\ I[p] \subseteq s.live \ D /\ A[p] \subseteq s.live \ D /\ I[p] \cap A[p] = {}
               /\ \A x \in Objs : E[x] = p <=> x \in I[p] \cup A[p]
    <3>1. \A c \in Conts : c \in Places /\ s.att[c] = {}
      BY Apart DEF Sorted, Placed
    <3>2. \A c \in Conts : A[c] = {}
      BY <1>4, <3>1
    <3> QED BY <1>5, <3>2 DEF Placed
  <2>1. /\ s.inv[p] \subseteq s.live /\ s.att[p] \subseteq s.live /\ s.inv[p] \cap s.att[p] = {}
        /\ \A x \in Objs : s.env[x] = p <=> x \in s.inv[p] \cup s.att[p]
    BY DEF Sorted, Placed
  <2>2. p # Nil
    BY Apart
  <2>3. CASE p \in D
    <3>1. I[p] = {} /\ A[p] = {} /\ \A x \in Objs : E[x] # p
      BY <1>4, <2>2, <2>3
    <3> QED BY <3>1
  <2>4. CASE p \notin D
    <3>1. I[p] = s.inv[p] \ D /\ A[p] = s.att[p] \ D
      BY <1>4, <2>4
    <3>2. \A x \in Objs : E[x] = p <=> x \notin D /\ s.env[x] = p
      BY <1>4, <2>2, <2>4
    <3> QED BY <2>1, <3>1, <3>2
  <2> QED BY <2>3, <2>4
<1>7. Counted(t)
  <2>1. t.dying \subseteq t.live \cap Heaps
    BY <1>5 DEF Sorted, Counted
  <2>2. \A h \in Heaps : h \notin t.live => t.size[h] = 0
    BY <1>4, <1>5 DEF Sorted, Counted
  <2>3. \A h \in t.live \cap Heaps : t.size[h] = 0 => h \in t.dying
    BY <1>4, <1>5 DEF Sorted, Counted
  <2> QED BY <2>1, <2>2, <2>3 DEF Counted
<1>8. Uncarried(t)
  BY <1>4, <1>5, Apart DEF Sorted, Uncarried
<1>9. RootedIn(t)
  <2> SUFFICES ASSUME NEW G \in SUBSET (Conts \cup Belts), G # {} PROVE \E x \in G : E[x] \notin G
    BY <1>5 DEF RootedIn
  <2>1. PICK x \in G : s.env[x] \notin G
    BY DEF Sorted, RootedIn
  <2>2. x \in Objs /\ Nil \notin G
    BY Apart
  <2> QED BY <1>4, <2>1, <2>2
<1> QED BY <1>5, <1>6, <1>7, <1>8, <1>9 DEF Sorted, t

\* One object takes itself off the books t of what it is in.
TakeOff(s, x, t) == Book(t, s.env[x], -QueryWeight(s, x), -QueryVolume(s, x))

\* The books when all of D have done so, one after the other.
TakenOff(s, D) == CHOOSE it : it = [d \in SUBSET D |->
  IF d = {} THEN s ELSE TakeOff(s, AnyOf(d), it[d \ {AnyOf(d)}])]

LEMMA TakenOffKeeps ==
  ASSUME NEW s, Sorted(s), NEW D \in SUBSET Objs
  PROVE  Sorted(TakenOff(s, D)[D]) /\ \A x : D = {x} => TakenOff(s, D)[D] = TakeOff(s, x, s)
<1> DEFINE T == {t \in States : Sorted(t)}
           F == [p \in D \X T |-> TakeOff(s, p[1], p[2])]
           it == TakenOff(s, D)
<1>1. \A x \in D, t \in T : TakeOff(s, x, t) \in T
  <2> SUFFICES ASSUME NEW x \in D, NEW t \in T PROVE TakeOff(s, x, t) \in T
    OBVIOUS
  <2>1. s \in States /\ x \in Objs
    BY DEF Sorted
  <2>2. QueryWeight(s, x) \in Int /\ QueryVolume(s, x) \in Int
    BY <2>1, Weighed
  <2>3. -QueryWeight(s, x) \in Int /\ -QueryVolume(s, x) \in Int
    BY <2>2
  <2>4. Sorted(TakeOff(s, x, t))
    BY <2>3, BookKeeps DEF TakeOff
  <2> QED BY <2>4 DEF Sorted
<1>2. s \in T
  BY DEF Sorted
<1> HIDE DEF T
<1>3. F \in [D \X T -> T] /\ \A x \in D, t \in T : F[<<x, t>>] = TakeOff(s, x, t)
  BY <1>1
<1> HIDE DEF F
<1>4. IsFiniteSet(D)
  BY Apart, FS_Subset
<1>5. PICK g \in [SUBSET D -> T] : Folded(g, D, F, s)
  BY <1>2, <1>3, <1>4, FoldExists
<1>6. \A d \in SUBSET D : d # {} => AnyOf(d) \in D /\ d \ {AnyOf(d)} \in SUBSET D /\ d \ {AnyOf(d)} # d
  BY DEF AnyOf
<1>7. \A d \in SUBSET D : g[d] = IF d = {} THEN s ELSE TakeOff(s, AnyOf(d), g[d \ {AnyOf(d)}])
  BY <1>3, <1>5, <1>6 DEF Folded
<1>8. g = [d \in SUBSET D |-> IF d = {} THEN s ELSE TakeOff(s, AnyOf(d), g[d \ {AnyOf(d)}])]
  BY <1>7
<1>9. it = [d \in SUBSET D |-> IF d = {} THEN s ELSE TakeOff(s, AnyOf(d), it[d \ {AnyOf(d)}])]
  BY <1>8 DEF TakenOff
<1> HIDE DEF it
<1>10. \A d \in SUBSET D : it[d] = IF d = {} THEN s ELSE TakeOff(s, AnyOf(d), it[d \ {AnyOf(d)}])
  BY <1>9
<1> DEFINE A == {d \in SUBSET D : it[d] \in T}
<1>11. ASSUME NEW d \in SUBSET D, \A U \in SUBSET d : U # d => U \in A PROVE d \in A
  <2>1. CASE d = {}
    BY <1>2, <1>10, <2>1
  <2>2. CASE d # {}
    <3>1. it[d \ {AnyOf(d)}] \in T
      BY <1>6, <1>11, <2>2
    <3> QED BY <1>1, <1>6, <1>10, <2>2, <3>1
  <2> QED BY <2>1, <2>2
<1> HIDE DEF A
<1>12. SUBSET D \subseteq A
  BY <1>4, <1>11, Shrinking
<1>13. Sorted(it[D])
  BY <1>12 DEF A, T
<1>14. \A x : D = {x} => it[D] = TakeOff(s, x, s)
  <2> SUFFICES ASSUME NEW x, D = {x} PROVE it[D] = TakeOff(s, x, s)
    OBVIOUS
  <2>1. AnyOf(D) = x /\ D \ {x} = {} /\ D # {}
    BY DEF AnyOf
  <2>2. it[D] = TakeOff(s, AnyOf(D), it[D \ {AnyOf(D)}]) /\ it[{}] = s
    BY <1>10, <2>1
  <2> QED BY <2>1, <2>2
<1> QED BY <1>13, <1>14 DEF it

\* remove_object().
LEMMA RemoveObjectKeeps ==
  ASSUME NEW s, Sorted(s), NEW o \in Objs
  PROVE  /\ Sorted(RemoveObject(s, o))
         /\ o \in Heaps => RemoveObject(s, o).size = [s.size EXCEPT ![o] = 0]
<1> DEFINE D == Contents(s, o)
           t == TakenOff(s, D)[D]
           u == [s EXCEPT !.weight = t.weight, !.volume = t.volume]
<1>1. s \in States
  BY DEF Sorted
<1>2. D \subseteq Objs /\ (o \notin Places => D = {o})
  BY <1>1, ContentsAre
<1> HIDE DEF D
<1>3. Sorted(t)
  BY <1>2, TakenOffKeeps
<1>4. RemoveObject(s, o) = Destructed(u, D)
  BY DEF RemoveObject, FoldSet, MapThenFoldSet, TakeOff, TakenOff, AnyOf, D
<1> HIDE DEF t
<1>5. t.weight \in [Conts -> Int] /\ t.volume \in [Conts -> Int]
  BY <1>3 DEF Sorted, States
<1>6. Sorted(u) /\ OnlyBooks(s, u)
  BY <1>5, Rebooked
<1> HIDE DEF u
<1>7. Destructed(u, D).size = [h \in Heaps |-> IF h \in D THEN 0 ELSE u.size[h]]
  BY <1>6 DEF Destructed, Sorted, States
<1>8. ASSUME o \in Heaps PROVE Destructed(u, D).size = [s.size EXCEPT ![o] = 0]
  <2>1. D = {o} /\ u.size = s.size /\ s.size \in [Heaps -> Nat]
    BY <1>1, <1>2, <1>6, <1>8, Apart DEF OnlyBooks, States
  <2> QED BY <1>7, <2>1
<1> QED BY <1>4, <1>6, <1>8, DestructedKeeps

\* set_heap_size() of a heap that exists.
LEMMA SetSizeKeeps ==
  ASSUME NEW s, Sorted(s), NEW h \in s.live \cap Heaps, NEW n \in Nat
  PROVE  LET t == SetSize(s, h, n) IN
         /\ Sorted(t) /\ SamePlaces(s, t) /\ t.size = [s.size EXCEPT ![h] = n]
<1> DEFINE t == SetSize(s, h, n)
<1>1. s \in States /\ h \in Heaps /\ h \in s.live /\ s.size[h] \in Nat /\ h \in Objs
  BY DEF Sorted, States
<1>2. CASE n <= 0
  <2>1. n = 0 /\ t = [s EXCEPT !.size = [s.size EXCEPT ![h] = 0], !.dying = s.dying \cup {h}]
    BY <1>2 DEF SetSize
  <2> DEFINE S == [s.size EXCEPT ![h] = 0]
             Y == s.dying \cup {h}
  <2>5. S \in [Heaps -> Nat] /\ Y \in SUBSET Objs
    BY <1>1 DEF States
  <2>6. t = [s EXCEPT !.size = S, !.dying = Y]
    BY <2>1
  <2> HIDE DEF S, Y, t
  <2>7. t \in States /\ SamePlaces(s, t) /\ t.size = S /\ t.dying = Y
    BY <1>1, <2>5, <2>6 DEF States, SamePlaces
  <2>2. /\ t \in States /\ SamePlaces(s, t) /\ t.size = [s.size EXCEPT ![h] = n]
        /\ t.dying = s.dying \cup {h}
    BY <2>1, <2>7 DEF S, Y
  <2>3. Placed(t) /\ Uncarried(t) /\ RootedIn(t)
    BY <2>2 DEF Sorted, SamePlaces, Placed, Uncarried, RootedIn
  <2>4. Counted(t)
    <3>1. \A x \in Heaps : t.size[x] = IF x = h THEN 0 ELSE s.size[x]
      BY <1>1, <2>1, <2>2 DEF States
    <3>2. t.live = s.live
      BY <2>2 DEF SamePlaces
    <3> QED BY <1>1, <2>2, <3>1, <3>2 DEF Sorted, Counted
  <2> QED BY <2>2, <2>3, <2>4 DEF Sorted, t
<1>3. CASE n > 0
  <2> DEFINE b == Book(s, s.env[h], OwnWeight[h] * (n - s.size[h]), OwnVolume[h] * (n - s.size[h]))
  <2>1. /\ OwnWeight[h] * (n - s.size[h]) \in Int
        /\ OwnVolume[h] * (n - s.size[h]) \in Int
    <3>1. OwnWeight[h] \in Nat /\ OwnVolume[h] \in Nat /\ n - s.size[h] \in Int
      BY <1>1, InventoryAssumption
    <3> QED BY <3>1
  <2>2. Sorted(b) /\ OnlyBooks(s, b)
    BY <2>1, BookKeeps
  <2>3. t = [b EXCEPT !.size = [b.size EXCEPT ![h] = n]]
    BY <1>3 DEF SetSize
  <2> HIDE DEF b, t
  <2>4. b \in States /\ b.size = s.size
    BY <2>2 DEF Sorted, OnlyBooks
  <2>5. t \in States /\ SamePlaces(b, t) /\ t.size = [s.size EXCEPT ![h] = n] /\ t.dying = b.dying
    BY <1>1, <2>3, <2>4 DEF States, SamePlaces
  <2>6. SamePlaces(s, t)
    BY <2>2, <2>5 DEF OnlyBooks, SamePlaces
  <2>7. Placed(t) /\ Uncarried(t) /\ RootedIn(t)
    BY <2>2, <2>5 DEF Sorted, SamePlaces, Placed, Uncarried, RootedIn
  <2>8. Counted(t)
    <3>1. \A x \in Heaps : t.size[x] = IF x = h THEN n ELSE b.size[x]
      BY <1>1, <2>4, <2>5 DEF States
    <3>2. t.live = b.live /\ h \in b.live
      BY <1>1, <2>2, <2>5 DEF SamePlaces, OnlyBooks
    <3> QED BY <1>1, <1>3, <2>2, <2>5, <3>1, <3>2 DEF Sorted, Counted
  <2> QED BY <2>5, <2>6, <2>7, <2>8 DEF Sorted, t
<1> QED BY <1>2, <1>3

\* attach_object() of what is in something, to a belt.
LEMMA AttachKeeps ==
  ASSUME NEW s, Sorted(s), NEW o \in s.live, NEW d \in Belts, o \notin Livings, Near(s, d),
         d # o, d # s.env[o]
  PROVE  Sorted(AttachObject(s, o, d))
<1> DEFINE t == AttachObject(s, o, d)
           I == [p \in Places |-> IF p = s.env[o] THEN s.inv[p] \ {o} ELSE s.inv[p]]
           A == [p \in Places |-> IF p = d THEN s.att[p] \cup {o}
                                  ELSE IF p = s.env[o] THEN s.att[p] \ {o} ELSE s.att[p]]
           E == [s.env EXCEPT ![o] = d]
<1>1. s \in States /\ o \in Objs /\ d \in Places
  BY Apart DEF Sorted, States
<1>2. I \in [Places -> SUBSET Objs] /\ A \in [Places -> SUBSET Objs] /\ E \in [Objs -> Places \cup {Nil}]
  BY <1>1 DEF States
<1>3. t = [s EXCEPT !.env = E, !.inv = I, !.att = A]
  BY <1>1 DEF AttachObject, TakenOut, States
<1>4. /\ \A p \in Places : A[p] = IF p = d THEN s.att[p] \cup {o}
                                  ELSE IF p = s.env[o] THEN s.att[p] \ {o} ELSE s.att[p]
      /\ \A p \in Places : I[p] = IF p = s.env[o] THEN s.inv[p] \ {o} ELSE s.inv[p]
      /\ \A x \in Objs : E[x] = IF x = o THEN d ELSE s.env[x]
  BY <1>1 DEF States
<1> HIDE DEF I, A, E, t
<1>5. /\ t \in States /\ t.env = E /\ t.inv = I /\ t.att = A /\ t.size = s.size
      /\ t.dying = s.dying /\ t.live = s.live
  BY <1>1, <1>2, <1>3 DEF States
<1>6. Placed(t)
  <2>1. /\ \A p \in Places : s.inv[p] \subseteq s.live /\ s.att[p] \subseteq s.live
        /\ \A p \in Places : s.inv[p] \cap s.att[p] = {}
        /\ \A p \in Places, x \in Objs : s.env[x] = p <=> x \in s.inv[p] \cup s.att[p]
    BY DEF Sorted, Placed
  <2>2. ASSUME NEW p \in Places
        PROVE  /\ I[p] \subseteq s.live /\ A[p] \subseteq s.live /\ I[p] \cap A[p] = {}
               /\ \A x \in Objs : E[x] = p <=> x \in I[p] \cup A[p]
    <3>1. CASE p = d
      <4>1. A[p] = s.att[p] \cup {o} /\ I[p] = s.inv[p] /\ o \notin s.inv[p]
        BY <1>1, <1>4, <2>1, <3>1
      <4>2. \A x \in Objs : E[x] = p <=> x = o \/ s.env[x] = p
        BY <1>4, <3>1
      <4> QED BY <2>1, <4>1, <4>2
    <3>2. CASE p # d /\ p = s.env[o]
      <4>1. I[p] = s.inv[p] \ {o} /\ A[p] = s.att[p] \ {o}
        BY <1>4, <3>2
      <4>2. \A x \in Objs : E[x] = p <=> x # o /\ s.env[x] = p
        BY <1>4, <3>2
      <4> QED BY <2>1, <4>1, <4>2
    <3>3. CASE p # d /\ p # s.env[o]
      <4>1. I[p] = s.inv[p] /\ A[p] = s.att[p]
        BY <1>4, <3>3
      <4>2. \A x \in Objs : E[x] = p <=> s.env[x] = p
        BY <1>4, <3>3
      <4> QED BY <2>1, <4>1, <4>2
    <3> QED BY <3>1, <3>2, <3>3
  <2>3. \A c \in Conts : A[c] = {}
    <3>1. \A c \in Conts : c \in Places /\ c # d /\ s.att[c] = {}
      BY Apart DEF Sorted, Placed
    <3> QED BY <1>4, <3>1
  <2> QED BY <1>5, <2>2, <2>3 DEF Placed
<1> QED BY <1>1, <1>5, <1>6, Rehung DEF t, E

\* Booking what a thing weighs now, in one state, in the books of another.
LEMMA BookAs ==
  ASSUME NEW s, Sorted(s), NEW t \in States, NEW o \in Objs, NEW c
  PROVE  /\ Sorted(Book(s, c, QueryWeight(t, o), QueryVolume(t, o)))
         /\ OnlyBooks(s, Book(s, c, QueryWeight(t, o), QueryVolume(t, o)))
         /\ Sorted(Book(s, c, -QueryWeight(t, o), -QueryVolume(t, o)))
         /\ OnlyBooks(s, Book(s, c, -QueryWeight(t, o), -QueryVolume(t, o)))
         /\ Sorted(Book(s, c, QueryWeight(t, o), 0))
<1>1. QueryWeight(t, o) \in Int /\ QueryVolume(t, o) \in Int
  BY Weighed
<1>2. -QueryWeight(t, o) \in Int /\ -QueryVolume(t, o) \in Int /\ 0 \in Int
  BY <1>1
<1> QED BY <1>1, <1>2, BookKeeps

\* move_now() without listeners.
LEMMA MoveQuietlyKeeps ==
  ASSUME NEW s, Sorted(s), NEW o \in s.live, NEW d \in Places, o \notin Livings, Near(s, d)
  PROVE  /\ Sorted(MoveQuietly(s, o, d)) /\ MoveQuietly(s, o, d).size = s.size
<1> DEFINE t == MoveObject(s, o, d)
           b == Book(t, s.env[o], -QueryWeight(t, o), -QueryVolume(t, o))
           e == Book(b, d, QueryWeight(t, o), QueryVolume(t, o))
<1>1. Sorted(t) /\ t.size = s.size
  BY MoveObjectKeeps0
<1>2. o \in Objs /\ t \in States
  BY <1>1 DEF Sorted, States
<1>3. MoveQuietly(s, o, d) = e
  BY DEF MoveQuietly
<1> HIDE DEF t
<1>4. Sorted(b) /\ OnlyBooks(t, b)
  BY <1>1, <1>2, BookAs
<1> HIDE DEF b
<1>5. Sorted(e) /\ OnlyBooks(b, e)
  BY <1>2, <1>4, BookAs
<1> HIDE DEF e
<1> QED BY <1>1, <1>3, <1>4, <1>5 DEF OnlyBooks

\* move_now(), whatever the listeners do.
LEMMA MoveNowKeeps ==
  ASSUME NEW s, Sorted(s), NEW o \in s.live, NEW d \in Places, o \notin Livings, Near(s, d),
         NEW r \in {Nil, Gone} \cup Rooms
  PROVE  \A n \in MoveNow(s, o, d, r) : Sorted(n) /\ (r = Nil => n.size = s.size)
<1> DEFINE t == MoveObject(s, o, d)
           u == CASE r = Nil -> t
                  [] r = Gone -> RemoveObject(t, o)
                  [] OTHER -> MoveQuietly(t, o, r)
           b == Book(u, s.env[o], -QueryWeight(u, o), -QueryVolume(u, o))
           e == Book(b, d, QueryWeight(u, o), QueryVolume(u, o))
<1>1. Sorted(t) /\ t.size = s.size /\ t.live = s.live
  BY MoveObjectKeeps0
<1>2. o \in Objs
  BY DEF Sorted, States
<1>3. MoveNow(s, o, d, r) = {e}
  BY DEF MoveNow
<1> HIDE DEF t
<1>4. Sorted(u) /\ (r = Nil => u.size = s.size)
  <2>1. CASE r = Nil
    <3>1. u = t
      BY <2>1, Apart
    <3> QED BY <1>1, <3>1
  <2>2. CASE r = Gone
    <3>1. u = RemoveObject(t, o) /\ r # Nil
      BY <2>2, Apart
    <3>2. Sorted(RemoveObject(t, o))
      BY <1>1, <1>2, RemoveObjectKeeps
    <3> HIDE DEF u
    <3> QED BY <3>1, <3>2
  <2>3. CASE r \in Rooms
    <3>1. r # Nil /\ r # Gone /\ r \in Places /\ Near(t, r)
      BY <2>3, Apart DEF Near
    <3>2. Sorted(MoveQuietly(t, o, r))
      BY <1>1, <3>1, MoveQuietlyKeeps
    <3>3. u = MoveQuietly(t, o, r)
      BY <3>1
    <3> QED BY <3>1, <3>2, <3>3
  <2> HIDE DEF u
  <2> QED BY <2>1, <2>2, <2>3
<1> HIDE DEF u
<1>5. u \in States
  BY <1>4 DEF Sorted
<1>6. Sorted(b) /\ OnlyBooks(u, b)
  BY <1>2, <1>4, <1>5, BookAs
<1> HIDE DEF b
<1>7. Sorted(e) /\ OnlyBooks(b, e)
  BY <1>2, <1>5, <1>6, BookAs
<1> HIDE DEF e
<1> QED BY <1>3, <1>4, <1>6, <1>7 DEF OnlyBooks

-----------------------------------------------------------------------------
\* Of a heap for which there is room, move_heap() takes a unit at least and no more than
\* there are.
LEMMA PortionRight ==
  ASSUME NEW s, Sorted(s), NEW h \in s.live \cap Heaps, NEW d \in Rooms \cup Conts,
         NEW k \in 1 .. s.size[h], HeapFits(s, h, d)
  PROVE  Portion(s, h, d, k) \in 1 .. s.size[h]
<1> DEFINE rw == WeightLeft(s, d)
           rv == VolumeLeft(s, d)
           ow == OwnWeight[h]
           ov == OwnVolume[h]
           m  == s.size[h]
           sw == IF rw < QueryWeight(s, h) THEN rw \div ow ELSE 0
           sv == IF rv < QueryVolume(s, h) THEN rv \div ov ELSE 0
           n  == IF d \in Rooms THEN k
                 ELSE IF sw # 0 /\ (sw < sv \/ sv = 0) THEN sw
                 ELSE IF sv # 0 THEN sv ELSE k
<1>1. Portion(s, h, d, k) = IF n < m THEN n ELSE m
  BY DEF Portion
<1>2. s \in States /\ m \in Nat /\ k \in 1 .. m /\ h \in Objs /\ h \in Heaps
  BY Apart DEF Sorted, States
<1>3. ow \in Nat /\ ov \in Nat
  BY <1>2, InventoryAssumption
<1>4. QueryWeight(s, h) = ow * m /\ QueryVolume(s, h) = ov * m
  BY <1>2 DEF QueryWeight, QueryVolume
<1>5. d \notin Rooms =>
        /\ d \in Conts /\ rw \in Int /\ rv \in Int
        /\ rw >= ow * m \/ rw >= ow
        /\ rv >= ov * m \/ rv >= ov
  <2> SUFFICES ASSUME d \notin Rooms
               PROVE  /\ d \in Conts /\ rw \in Int /\ rv \in Int
                      /\ rw >= ow * m \/ rw >= ow
                      /\ rv >= ov * m \/ rv >= ov
    OBVIOUS
  <2>1. d \in Conts /\ d \in Objs
    BY Apart
  <2>2. MaxWeight[d] \in Int /\ MaxVolume[d] \in Int /\ OwnVolume[d] \in Int /\ s.volume[d] \in Int
    BY <1>2, <2>1, InventoryAssumption DEF States
  <2>3. rw \in Int
    BY <1>2, <2>1, <2>2, Weighed DEF WeightLeft
  <2>4. rv \in Int
    BY <2>2 DEF VolumeLeft
  <2> QED BY <1>4, <2>1, <2>3, <2>4 DEF HeapFits
<1>6. d \notin Rooms => sw \in Nat
  <2> SUFFICES ASSUME d \notin Rooms, rw < ow * m PROVE rw \div ow \in Nat
    BY <1>4
  <2> HIDE DEF rw, ow, m
  <2>1. ow * m \in Int /\ rw \in Int /\ (ow = 0 => ow * m = 0)
    BY <1>2, <1>3, <1>5
  <2>2. rw >= ow
    BY <1>3, <1>5, <2>1
  <2>3. ow # 0
    BY <1>3, <2>1, <2>2
  <2> QED BY <1>3, <2>1, <2>2, <2>3
<1>7. d \notin Rooms => sv \in Nat
  <2> SUFFICES ASSUME d \notin Rooms, rv < ov * m PROVE rv \div ov \in Nat
    BY <1>4
  <2> HIDE DEF rv, ov, m
  <2>1. ov * m \in Int /\ rv \in Int /\ (ov = 0 => ov * m = 0)
    BY <1>2, <1>3, <1>5
  <2>2. rv >= ov
    BY <1>3, <1>5, <2>1
  <2>3. ov # 0
    BY <1>3, <2>1, <2>2
  <2> QED BY <1>3, <2>1, <2>2, <2>3
<1> HIDE DEF sw, sv, m
<1>8. n \in Nat /\ n >= 1
  BY <1>2, <1>6, <1>7
<1> HIDE DEF n
<1> QED BY <1>1, <1>2, <1>8 DEF m

UnitsIn(s) == SumFunction(s.size)

LEMMA UnitsChange ==
  ASSUME NEW f \in [Heaps -> Nat], NEW h \in Heaps, NEW n \in Nat
  PROVE  /\ SumFunction(f) \in Int /\ SumFunction([f EXCEPT ![h] = n]) \in Int
         /\ [f EXCEPT ![h] = n] \in [Heaps -> Nat]
         /\ SumFunction([f EXCEPT ![h] = n]) = SumFunction(f) + n - f[h]
<1>1. IsFiniteSet(Heaps)
  BY Apart, FS_Subset
<1>2. f \in [Heaps -> Int] /\ n \in Int
  OBVIOUS
<1>3. [f EXCEPT ![h] = n] \in [Heaps -> Nat]
  OBVIOUS
<1> QED BY <1>1, <1>2, <1>3, SumChanges

\* s with c as a new heap of n units.
WithHeap(s, c, n) == [s EXCEPT !.live = s.live \cup {c}, !.size = [s.size EXCEPT ![c] = n]]

\* A new heap is nowhere.
LEMMA NewHeap ==
  ASSUME NEW s, Sorted(s), NEW c \in Heaps \ s.live, NEW n \in Nat \ {0}
  PROVE  /\ Sorted(WithHeap(s, c, n)) /\ WithHeap(s, c, n).env = s.env
         /\ c \in WithHeap(s, c, n).live /\ WithHeap(s, c, n).size = [s.size EXCEPT ![c] = n]
         /\ UnitsIn(WithHeap(s, c, n)) = UnitsIn(s) + n
<1> DEFINE L == s.live \cup {c}
           S == [s.size EXCEPT ![c] = n]
           u == [s EXCEPT !.live = L, !.size = S]
<1>1. s \in States /\ c \in Heaps /\ c \in Objs /\ s.size \in [Heaps -> Nat]
  BY Apart DEF Sorted, States
<1>2. S \in [Heaps -> Nat] /\ L \in SUBSET Objs
  BY <1>1 DEF States
<1>3. \A h \in Heaps : S[h] = IF h = c THEN n ELSE s.size[h]
  BY <1>1
<1>4. s.size[c] = 0 /\ UnitsIn(s) \in Int /\ SumFunction(S) = UnitsIn(s) + n
  <2>1. s.size[c] = 0
    BY DEF Sorted, Counted
  <2>2. SumFunction(s.size) \in Int /\ SumFunction(S) = SumFunction(s.size) + n - s.size[c]
    BY <1>1, UnitsChange
  <2> HIDE DEF S
  <2> QED BY <2>1, <2>2 DEF UnitsIn
<1> HIDE DEF L, S
<1>5. /\ u \in States /\ u.env = s.env /\ u.inv = s.inv /\ u.att = s.att /\ u.size = S /\ u.live = L
      /\ u.dying = s.dying
  BY <1>1, <1>2 DEF States
<1> HIDE DEF u
<1>6. Placed(u)
  BY <1>5 DEF Sorted, Placed, L
<1>7. Counted(u)
  BY <1>3, <1>5 DEF Sorted, Counted, L
<1>8. Uncarried(u) /\ RootedIn(u)
  BY <1>5 DEF Sorted, Uncarried, RootedIn
<1>9. WithHeap(s, c, n) = u
  BY DEF WithHeap, u, L, S
<1> QED BY <1>4, <1>5, <1>6, <1>7, <1>8, <1>9 DEF Sorted, UnitsIn, L, S

\* The state t after a move of units in the state s.
Shifted(s, t) == Sorted(t) /\ UnitsIn(t) = UnitsIn(s)

LEMMA MergeWholeKeeps ==
  ASSUME NEW s, Sorted(s), NEW h \in s.live \cap Heaps, NEW d \in Rooms \cup Conts, Near(s, d),
         NEW q \in (s.inv[d] \cap Heaps) \ {h}, s.size[h] # 0
  PROVE  \A t \in MergeWhole(s, h, q, d) : Shifted(s, t)
<1> DEFINE n == s.size[h] + s.size[q]
           a == SetSize(s, h, n)
           b == MoveObject(a, h, d)
           e == RemoveObject(b, q)
<1>1. /\ s \in States /\ s.size \in [Heaps -> Nat] /\ d \in Places /\ q \in Heaps /\ q \in Objs
      /\ h \in Heaps /\ h # q /\ h \notin Livings /\ n \in Nat
  BY Apart DEF Sorted, States, Places
<1>2. MergeWhole(s, h, q, d) = {e}
  BY DEF MergeWhole
<1>3. SumFunction([[s.size EXCEPT ![h] = n] EXCEPT ![q] = 0]) = SumFunction(s.size)
  <2> DEFINE f == s.size
             g == [f EXCEPT ![h] = n]
             x == f[h]
             y == f[q]
  <2>1. f \in [Heaps -> Nat] /\ x \in Nat /\ y \in Nat /\ n = x + y /\ g[q] = y
    BY <1>1
  <2> HIDE DEF n
  <2>2. /\ SumFunction(f) \in Int /\ SumFunction(g) \in Int /\ g \in [Heaps -> Nat]
        /\ SumFunction(g) = SumFunction(f) + n - x
    BY <1>1, <2>1, UnitsChange
  <2> HIDE DEF f, g, x, y
  <2>3. SumFunction([g EXCEPT ![q] = 0]) = SumFunction(g) + 0 - y
    <3>1. 0 \in Nat
      OBVIOUS
    <3>2. SumFunction([g EXCEPT ![q] = 0]) = SumFunction(g) + 0 - g[q]
      BY <1>1, <2>2, <3>1, UnitsChange, Zenon
    <3> QED BY <2>1, <3>2, Zenon
  <2>4. SumFunction([g EXCEPT ![q] = 0]) = SumFunction(f)
    BY <2>1, <2>2, <2>3
  <2> QED BY <2>4 DEF f, g
<1> HIDE DEF n
<1>4. Sorted(a) /\ SamePlaces(s, a) /\ a.size = [s.size EXCEPT ![h] = n]
  BY <1>1, SetSizeKeeps
<1> HIDE DEF a
<1>5. Sorted(b) /\ b.size = a.size
  <2>1. Near(a, d) /\ h \in a.live
    BY <1>4 DEF Near, SamePlaces
  <2> QED BY <1>1, <1>4, <2>1, MoveObjectKeeps0
<1> HIDE DEF b
<1>6. Sorted(e) /\ e.size = [b.size EXCEPT ![q] = 0]
  BY <1>1, <1>5, RemoveObjectKeeps
<1> HIDE DEF e
<1> QED BY <1>2, <1>3, <1>4, <1>5, <1>6 DEF Shifted, UnitsIn

LEMMA MergePartKeeps ==
  ASSUME NEW s, Sorted(s), NEW h \in s.live \cap Heaps, NEW d \in Rooms \cup Conts,
         NEW q \in (s.inv[d] \cap Heaps) \ {h}, NEW n \in 1 .. s.size[h]
  PROVE  \A t \in MergePart(s, h, q, n) : Shifted(s, t)
<1> DEFINE f == s.size
           x == f[h]
           y == f[q]
           a == SetSize(s, q, y + n)
           e == SetSize(a, h, x - n)
           g == [f EXCEPT ![q] = y + n]
<1>1. /\ s \in States /\ f \in [Heaps -> Nat] /\ q \in Heaps /\ h \in Heaps /\ h # q
      /\ q \in s.live /\ x \in Nat /\ y \in Nat
  BY Apart DEF Sorted, States, Places, Placed
<1>2. n \in Nat /\ y + n \in Nat /\ x - n \in Nat /\ MergePart(s, h, q, n) = {e}
  BY <1>1 DEF MergePart
<1>3. Sorted(a) /\ SamePlaces(s, a) /\ a.size = g
  <2> HIDE DEF x, y
  <2> QED BY <1>1, <1>2, SetSizeKeeps
<1>4. g[h] = x /\ g[q] = y + n
  BY <1>1
<1> HIDE DEF a
<1>5. Sorted(e) /\ e.size = [g EXCEPT ![h] = x - n]
  <2>1. h \in a.live \cap Heaps
    BY <1>1, <1>3 DEF SamePlaces
  <2> HIDE DEF g, x, y
  <2> QED BY <1>2, <1>3, <2>1, SetSizeKeeps
<1>6. /\ SumFunction(f) \in Int /\ SumFunction(g) \in Int /\ g \in [Heaps -> Nat]
      /\ SumFunction(g) = SumFunction(f) + (y + n) - y
  <2> HIDE DEF f
  <2> QED BY <1>1, <1>2, UnitsChange
<1> HIDE DEF f, g, x, y, e
<1>7. SumFunction([g EXCEPT ![h] = x - n]) = SumFunction(g) + (x - n) - x
  <2>1. SumFunction([g EXCEPT ![h] = x - n]) = SumFunction(g) + (x - n) - g[h]
    BY <1>1, <1>2, <1>6, UnitsChange, Zenon
  <2> QED BY <1>4, <2>1, Zenon
<1>8. SumFunction([g EXCEPT ![h] = x - n]) = SumFunction(f)
  BY <1>1, <1>2, <1>6, <1>7
<1> QED BY <1>2, <1>5, <1>8 DEF Shifted, UnitsIn, f

LEMMA CloneKeeps ==
  ASSUME NEW s, Sorted(s), NEW h \in s.live \cap Heaps, NEW d \in Rooms \cup Conts, Near(s, d),
         NEW n \in 1 .. s.size[h]
  PROVE  \A t \in Clone(s, h, d, n) : Shifted(s, t)
<1> DEFINE f == s.size
           x == f[h]
           a == SetSize(s, h, x - n)
           e(c) == MoveObject(WithHeap(a, c, n), c, d)
<1>1. s \in States /\ f \in [Heaps -> Nat] /\ h \in Heaps /\ x \in Nat /\ d \in Places
  BY Apart DEF Sorted, States, Places
<1>2. n \in Nat \ {0} /\ x - n \in Nat
  BY <1>1
<1>3. Clone(s, h, d, n) = {e(c) : c \in Heaps \ s.live}
  BY DEF Clone, WithHeap
<1>4. Sorted(a) /\ SamePlaces(s, a) /\ a.size = [f EXCEPT ![h] = x - n]
  <2> HIDE DEF x
  <2> QED BY <1>1, <1>2, SetSizeKeeps
<1>5. SumFunction(f) \in Int /\ UnitsIn(a) = SumFunction(f) + (x - n) - x
  <2> HIDE DEF f, a
  <2> QED BY <1>1, <1>2, <1>4, UnitsChange DEF UnitsIn
<1> SUFFICES ASSUME NEW c \in Heaps \ s.live PROVE Shifted(s, e(c))
  BY <1>3
<1> HIDE DEF a, f, x
<1> DEFINE bc == WithHeap(a, c, n)
           ec == MoveObject(bc, c, d)
<1>6. c \in Heaps \ a.live
  BY <1>4 DEF SamePlaces
<1>7. ec = e(c) /\ Sorted(bc) /\ bc.env = a.env /\ c \in bc.live /\ UnitsIn(bc) = UnitsIn(a) + n
  <2>1. ec = e(c)
    OBVIOUS
  <2>2. n \in Nat \ {0} /\ Sorted(a)
    BY <1>2, <1>4
  <2> HIDE DEF e, ec
  <2>3. Sorted(bc) /\ bc.env = a.env /\ c \in bc.live /\ UnitsIn(bc) = UnitsIn(a) + n
    BY <1>6, <2>2, NewHeap
  <2> QED BY <2>1, <2>3
<1> HIDE DEF bc, e
<1>8. Sorted(ec) /\ ec.size = bc.size
  <2>1. Near(bc, d) /\ c \notin Livings
    BY <1>4, <1>7, Apart DEF Near, SamePlaces
  <2> QED BY <1>1, <1>7, <2>1, MoveObjectKeeps0
<1>9. UnitsIn(bc) = SumFunction(f)
  BY <1>1, <1>2, <1>5, <1>7
<1> QED BY <1>7, <1>8, <1>9 DEF Shifted, UnitsIn, f

\* move_heap().
LEMMA MoveHeapKeeps ==
  ASSUME NEW s, Sorted(s), NEW h \in s.live \cap Heaps, NEW d \in Rooms \cup Conts, Near(s, d),
         NEW k \in 1 .. s.size[h]
  PROVE  \A t \in MoveHeap(s, h, d, k) : Shifted(s, t)
<1> DEFINE n == Portion(s, h, d, k)
           found == (s.inv[d] \cap Heaps) \ {h}
<1>1. s \in States /\ s.size[h] \in Nat /\ s.size[h] # 0 /\ d \in Places /\ h \notin Livings
  BY Apart DEF Sorted, States, Places
<1>2. CASE ~HeapFits(s, h, d)
  BY <1>2 DEF MoveHeap, Shifted
<1>3. CASE HeapFits(s, h, d)
  <2>1. n \in 1 .. s.size[h]
    BY <1>3, PortionRight
  <2>2. \A t \in MoveHeap(s, h, d, k) :
          \/ \E q \in found : t \in MergeWhole(s, h, q, d) \/ t \in MergePart(s, h, q, n)
          \/ t \in MoveNow(s, h, d, Nil) \/ t \in Clone(s, h, d, n)
    <3> HIDE DEF n
    <3> QED BY <1>3 DEF MoveHeap, n
  <2> HIDE DEF n
  <2>3. \A q \in found : \A t \in MergeWhole(s, h, q, d) : Shifted(s, t)
    BY <1>1, MergeWholeKeeps
  <2>4. \A q \in found : \A t \in MergePart(s, h, q, n) : Shifted(s, t)
    BY <2>1, MergePartKeeps
  <2>5. \A t \in Clone(s, h, d, n) : Shifted(s, t)
    BY <2>1, CloneKeeps
  <2>6. \A t \in MoveNow(s, h, d, Nil) : Shifted(s, t)
    BY <1>1, MoveNowKeeps DEF Shifted, UnitsIn
  <2> HIDE DEF found
  <2> QED BY <2>2, <2>3, <2>4, <2>5, <2>6
<1> QED BY <1>2, <1>3

-----------------------------------------------------------------------------
LEMMA LeavesSorted ==
  ASSUME NEW s, Sorted(s), Leaves(s)
  PROVE  Sorted(Held)' /\ size' = s.size
<1>1. s = [env |-> s.env, inv |-> s.inv, att |-> s.att, weight |-> s.weight,
           volume |-> s.volume, size |-> s.size, live |-> s.live, dying |-> s.dying]
  BY DEF Sorted, States
<1>2. Held' = s
  BY <1>1 DEF Leaves, Held
<1>3. States' = States
  BY DEF States
<1>4. Sorted(Held)'
  BY <1>2, <1>3 DEF Sorted, Placed, Counted, Uncarried, RootedIn
<1> QED BY <1>4 DEF Leaves

\* What Sorted says of the variables.
LEMMA SortedMeans ==
  ASSUME Sorted(Held)
  PROVE  /\ Held \in States /\ live \subseteq Objs
         /\ Held.env = env /\ Held.inv = inv /\ Held.att = att /\ Held.size = size /\ Held.live = live
         /\ size \in [Heaps -> Nat]
         /\ \A p \in Places : inv[p] \subseteq live /\ att[p] \subseteq live
         /\ \A p \in Places, o \in Objs : env[o] = p <=> o \in inv[p] \cup att[p]
         /\ \A l \in Livings : env[l] \in Rooms \cup {Nil}
         /\ \A p \in Livings : inv[p] \cap Livings = {}
<1>1. /\ Held.env = env /\ Held.inv = inv /\ Held.att = att /\ Held.size = size
      /\ Held.live = live /\ Held \in States
  BY DEF Held, Sorted
<1>2. live \subseteq Objs /\ size \in [Heaps -> Nat]
  BY <1>1 DEF States
<1>3. /\ \A p \in Places : inv[p] \subseteq live /\ att[p] \subseteq live
      /\ \A p \in Places, o \in Objs : env[o] = p <=> o \in inv[p] \cup att[p]
      /\ \A l \in Livings : env[l] \in Rooms \cup {Nil}
  BY <1>1 DEF Sorted, Placed, Uncarried
<1>4. \A p \in Livings : p \in Places /\ p \notin Rooms \cup {Nil} /\ p \in Objs
  BY Apart
<1>5. \A p \in Livings : inv[p] \cap Livings = {}
  BY <1>3, <1>4
<1> QED BY <1>1, <1>2, <1>3, <1>5

LEMMA SortedTyped == Sorted(Held) => InventoryTypeOK /\ Rooted
<1> SUFFICES ASSUME Sorted(Held) PROVE InventoryTypeOK /\ Rooted
  OBVIOUS
<1>1. /\ env \in [Objs -> Places \cup {Nil}] /\ weight \in [Conts -> Int] /\ volume \in [Conts -> Int]
      /\ inv \in [Places -> SUBSET Objs] /\ att \in [Places -> SUBSET Objs]
  BY DEF Sorted, States, Held
<1>2. \A p \in Places : inv[p] \in SUBSET live /\ att[p] \in SUBSET live
  BY SortedMeans
<1>3. inv \in [Places -> SUBSET live] /\ att \in [Places -> SUBSET live]
  BY <1>1, <1>2
<1>4. /\ dying \subseteq live \cap Heaps /\ \A h \in live \cap Heaps : size[h] = 0 => h \in dying
      /\ \A p \in Places : inv[p] \cap att[p] = {}
  BY DEF Sorted, Counted, Placed, Held
<1>5. InventoryTypeOK
  BY <1>1, <1>3, <1>4, SortedMeans DEF InventoryTypeOK
<1>6. Rooted
  BY SortedMeans DEF Rooted, Sorted, RootedIn
<1> QED BY <1>5, <1>6

LEMMA InitSorted == InventoryInit => Sorted(Held)
<1> SUFFICES ASSUME InventoryInit PROVE Sorted(Held)
  OBVIOUS
<1>1. /\ Held.env = [o \in Objs |-> IF o \in Heaps THEN Nil ELSE Here]
      /\ Held.inv = [p \in Places |-> IF p = Here THEN Objs \ Heaps ELSE {}]
      /\ Held.att = [p \in Places |-> {}] /\ Held.live = Objs \ Heaps
      /\ Held.size = [h \in Heaps |-> 0] /\ Held.dying = {}
      /\ Held.weight = [c \in Conts |-> 0] /\ Held.volume = [c \in Conts |-> 0]
  BY DEF InventoryInit, Held
<1>2. Here \in Places /\ Here # Nil
  BY Apart
<1>3. Held \in States
  <2>1. /\ env \in [Objs -> Places \cup {Nil}] /\ inv \in [Places -> SUBSET Objs]
        /\ att \in [Places -> SUBSET Objs]
    BY <1>2 DEF InventoryInit
  <2>2. /\ weight \in [Conts -> Int] /\ volume \in [Conts -> Int] /\ size \in [Heaps -> Nat]
        /\ live \in SUBSET Objs /\ dying \in SUBSET Objs
    BY DEF InventoryInit
  <2> QED BY <2>1, <2>2 DEF Held, States
<1>4. Placed(Held)
  <2>1. \A p \in Places : Held.att[p] = {} /\ Held.inv[p] = IF p = Here THEN Objs \ Heaps ELSE {}
    BY <1>1
  <2>2. \A o \in Objs : Held.env[o] = IF o \in Heaps THEN Nil ELSE Here
    BY <1>1
  <2>3. Nil \notin Places /\ Conts \subseteq Places
    BY Apart
  <2> QED BY <1>1, <1>2, <2>1, <2>2, <2>3 DEF Placed
<1>5. Counted(Held)
  BY <1>1 DEF Counted
<1>6. \A o \in Objs : Held.env[o] \in Rooms \cup {Nil}
  BY <1>1, Apart
<1>7. Uncarried(Held)
  BY <1>6, Apart DEF Uncarried
<1>8. RootedIn(Held)
  <2> SUFFICES ASSUME NEW D \in SUBSET (Conts \cup Belts), NEW o \in D PROVE Held.env[o] \notin D
    BY DEF RootedIn
  <2>1. D \subseteq Objs
    BY Apart
  <2>2. Held.env[o] \in Rooms \cup {Nil}
    BY <1>6, <2>1
  <2> QED BY <2>1, <2>2, Apart
<1> QED BY <1>3, <1>4, <1>5, <1>7, <1>8 DEF Sorted

\* move() of a thing or of units of a heap, whatever the listeners do.
LEMMA MoveCmdKeeps ==
  ASSUME Sorted(Held), NEW o \in live, o \notin Livings, NEW d \in Rooms \cup Conts, Near(Held, d),
         NEW k, o \in Heaps => k \in 1 .. size[o], NEW r \in Listening(o), MoveCmd(o, d, k, r)
  PROVE  Sorted(Held)' /\ (o \in Heaps => Units' = Units)
<1>1. d \in Places /\ Held.live = live /\ Held.size = size
  BY SortedMeans, Apart DEF Places
<1>2. CASE o \in Heaps
  <2>1. PICK s \in MoveHeap(Held, o, d, k) : Leaves(s)
    BY <1>2 DEF MoveCmd
  <2>2. o \in Held.live \cap Heaps /\ k \in 1 .. Held.size[o]
    BY <1>1, <1>2
  <2>3. Shifted(Held, s)
    BY <2>2, MoveHeapKeeps
  <2>4. Sorted(Held)' /\ size' = s.size
    BY <2>1, <2>3, LeavesSorted DEF Shifted
  <2> QED BY <1>1, <2>3, <2>4 DEF Shifted, UnitsIn, Units
<1>3. CASE o \notin Heaps
  <2>1. r \in {Nil, Gone} \cup Rooms
    BY <1>3 DEF Listening
  <2>2. PICK s : Leaves(s) /\ (s = Held \/ s \in MoveNow(Held, o, d, r))
    BY <1>3 DEF MoveCmd
  <2>3. Sorted(s)
    BY <1>1, <2>1, <2>2, MoveNowKeeps
  <2> QED BY <1>3, <2>2, <2>3, LeavesSorted
<1> QED BY <1>2, <1>3

\* The commands that move things.
LEMMA MovingKeeps ==
  ASSUME Sorted(Held), NEW o, Moving(o)
  PROVE  Sorted(Held)' /\ (o \in Heaps => Units' = Units)
<1>1. PICK p \in Livings, k \in IF o \in Heaps THEN 1 .. size[o] ELSE {1}, r \in Listening(o) :
        \/ \E c \in Places : Get(p, o, c, k, r)
        \/ \E c \in Bags : Put(p, o, c, k, r)
        \/ Drop(p, o, k, r)
  BY DEF Moving
<1>2. o \in Heaps => k \in 1 .. size[o]
  BY <1>1
<1>3. p \in Places /\ p \in Conts /\ Here \in Rooms /\ Here \in Places
  BY Apart
<1>4. CASE \E c \in Places : Get(p, o, c, k, r)
  <2>1. PICK c \in Places : Get(p, o, c, k, r)
    BY <1>4
  <2>2. o \in live /\ o \notin Livings /\ MoveCmd(o, p, k, r)
    BY <2>1, SortedMeans DEF Get
  <2>3. Near(Held, p)
    BY DEF Near
  <2> QED BY <1>2, <1>3, <2>2, <2>3, MoveCmdKeeps
<1>5. CASE \E c \in Bags : Put(p, o, c, k, r)
  <2>1. PICK c \in Bags : Put(p, o, c, k, r)
    BY <1>5
  <2>2. o \in live /\ o \notin Livings /\ MoveCmd(o, c, k, r) /\ c \in inv[p] \cup inv[Here]
    BY <1>3, <2>1, SortedMeans DEF Put, InReach
  <2>3. c \in Objs /\ c \in Conts
    BY Apart
  <2>4. Held.env[c] \in {p, Here}
    BY <1>3, <2>2, <2>3, SortedMeans
  <2>5. Near(Held, c)
    BY <1>3, <2>3, <2>4 DEF Near
  <2> QED BY <1>2, <2>2, <2>3, <2>5, MoveCmdKeeps
<1>6. CASE Drop(p, o, k, r)
  <2>1. o \in live /\ o \notin Livings /\ MoveCmd(o, Here, k, r)
    BY <1>3, <1>6, SortedMeans DEF Drop
  <2>2. Near(Held, Here)
    BY <1>3 DEF Near
  <2> QED BY <1>2, <1>3, <2>1, <2>2, MoveCmdKeeps
<1> QED BY <1>1, <1>4, <1>5, <1>6

LEMMA AttachingKeeps ==
  ASSUME Sorted(Held), NEW p \in Livings, NEW o \in Attachable, NEW c \in Belts, Attach(p, o, c)
  PROVE  Sorted(Held)'
<1> DEFINE s == AttachObject(Held, o, c)
           b == Book(s, p, -QueryWeight(s, o), -QueryVolume(s, o))
           e == Book(b, c, QueryWeight(s, o), 0)
<1>1. Leaves(e) /\ o \in inv[p] /\ (c \in inv[p] \/ c \in inv[Here])
  BY DEF Attach, InReach
<1>2. p \in Places /\ c \in Places /\ o \in Objs /\ c \in Objs /\ Here \in Places /\ Here \in Rooms
  BY Apart
<1>3. o \in Held.live /\ o \notin Livings /\ c # o /\ Held.env[o] = p /\ c # p
  BY <1>1, <1>2, SortedMeans, Apart
<1>4. Near(Held, c)
  <2>1. Held.env[c] \in {p, Here}
    BY <1>1, <1>2, SortedMeans
  <2> QED BY <1>2, <2>1 DEF Near
<1>5. Sorted(s)
  BY <1>2, <1>3, <1>4, AttachKeeps
<1> HIDE DEF s
<1>6. s \in States
  BY <1>5 DEF Sorted
<1>7. Sorted(b)
  BY <1>2, <1>5, <1>6, BookAs
<1> HIDE DEF b
<1>8. Sorted(e)
  BY <1>2, <1>6, <1>7, BookAs
<1> HIDE DEF e
<1> QED BY <1>1, <1>8, LeavesSorted

LEMMA MakeCoinsKeeps ==
  ASSUME Sorted(Held), NEW h \in Heaps, NEW d \in Rooms \cup Livings, NEW n \in 1 .. MaxUnits,
         MakeCoins(h, d, n)
  PROVE  Sorted(Held)'
<1> DEFINE s == WithHeap(Held, h, n)
<1>1. PICK t \in MoveHeap(s, h, d, n) : Leaves(t)
  BY SortedMeans DEF MakeCoins, WithHeap
<1>2. n \in Nat \ {0}
  BY InventoryAssumption
<1>3. h \in Heaps \ Held.live
  BY SortedMeans DEF MakeCoins
<1>4. Sorted(s) /\ h \in s.live /\ s.size = [Held.size EXCEPT ![h] = n]
  BY <1>2, <1>3, NewHeap
<1> HIDE DEF s
<1>5. s.size[h] = n
  BY <1>4, SortedMeans
<1>6. d \in Rooms \cup Conts /\ Near(s, d) /\ n \in 1 .. s.size[h]
  BY <1>2, <1>5, Apart DEF Near
<1>7. Shifted(s, t)
  BY <1>1, <1>4, <1>6, MoveHeapKeeps
<1> QED BY <1>1, <1>7, LeavesSorted DEF Shifted

LEMMA UseUpKeeps ==
  ASSUME Sorted(Held), NEW p \in Livings, NEW h \in Heaps, NEW k \in Nat, UseUp(p, h, k)
  PROVE  Sorted(Held)'
<1> DEFINE n == size[h] - k
           s == SetSize(Held, h, n)
<1>1. Leaves(s) /\ h \in inv[p] /\ k <= size[h]
  BY DEF UseUp
<1>2. p \in Places
  BY Apart
<1>3. h \in Held.live \cap Heaps /\ n \in Nat
  BY <1>1, <1>2, SortedMeans
<1> HIDE DEF n
<1>4. Sorted(s)
  BY <1>3, SetSizeKeeps
<1> HIDE DEF s
<1> QED BY <1>1, <1>4, LeavesSorted

LEMMA RemovalKeeps ==
  ASSUME Sorted(Held), NEW o \in Objs, Leaves(RemoveObject(Held, o))
  PROVE  Sorted(Held)'
<1> DEFINE s == RemoveObject(Held, o)
<1>1. Sorted(s) /\ Leaves(s)
  BY RemoveObjectKeeps
<1> HIDE DEF s
<1> QED BY <1>1, LeavesSorted

LEMMA NextSorted ==
  ASSUME Sorted(Held), [Next]_iVars
  PROVE  Sorted(Held)'
<1>1. ASSUME NEW o \in live, Moving(o) PROVE Sorted(Held)'
  BY <1>1, MovingKeeps
<1>2. ASSUME NEW p \in Livings, NEW o \in Attachable, NEW c \in Belts, Attach(p, o, c)
      PROVE  Sorted(Held)'
  BY <1>2, AttachingKeeps
<1>3. ASSUME NEW h \in Heaps, NEW k \in 1 .. MaxUnits, NEW d \in Rooms \cup Livings, MakeCoins(h, d, k)
      PROVE  Sorted(Held)'
  BY <1>3, MakeCoinsKeeps
<1>4. ASSUME NEW h \in Heaps, NEW k \in 1 .. MaxUnits, NEW p \in Livings, UseUp(p, h, k)
      PROVE  Sorted(Held)'
  <2>1. k \in Nat
    BY InventoryAssumption
  <2> QED BY <1>4, <2>1, UseUpKeeps
<1>5. ASSUME NEW h \in Heaps, RemoveEmpty(h) PROVE Sorted(Held)'
  BY <1>5, RemovalKeeps, Apart DEF RemoveEmpty
<1>6. ASSUME NEW o \in Objs, Destroy(o) PROVE Sorted(Held)'
  BY <1>6, RemovalKeeps DEF Destroy
<1>7. CASE UNCHANGED iVars
  <2>1. Held' = Held /\ States' = States
    BY <1>7 DEF iVars, Held, States
  <2> QED BY <2>1 DEF Sorted, Placed, Counted, Uncarried, RootedIn
<1> QED BY <1>1, <1>2, <1>3, <1>4, <1>5, <1>6, <1>7 DEF Next

LEMMA AlwaysSorted == Spec => []Sorted(Held)
BY InitSorted, NextSorted, PTL DEF Spec

\* Whatever players and listeners do, a place has exactly the objects in it or attached to it
\* that are there, what is gone is nowhere, and an empty heap has its call_out.
THEOREM InventoryTypeCorrect == Spec => []InventoryTypeOK
BY AlwaysSorted, SortedTyped, PTL

\* Nothing gets into itself, at any depth (move_object(), attach_object()).
THEOREM InventoryRooted == Spec => []Rooted
BY AlwaysSorted, SortedTyped, PTL

\* However heaps are split and merged by moves, their units stay as many (move_heap()).
THEOREM MovesAlwaysKeepUnits == Spec => MovesKeepUnits
<1>1. ASSUME Sorted(Held), [Next]_iVars
      PROVE  [Units' # Units => ~\E h \in Heaps : Moving(h)]_iVars
  BY <1>1, MovingKeeps
<1> QED BY <1>1, AlwaysSorted, PTL DEF Spec, MovesKeepUnits

-----------------------------------------------------------------------------
\* How deep things can be in each other.
Deepest == Cardinality(Objs)

\* What is met on the way outwards from c.
Outwards(s, c) == CHOOSE f : f = [k \in 0 .. Deepest |->
  IF k = 0 THEN c ELSE IF f[k - 1] \in Conts THEN s.env[f[k - 1]] ELSE Nil]

\* f goes outwards from c.
GoesOut(f, s, c) ==
  /\ f[0] = c
  /\ \A k \in 0 .. Deepest : k + 1 \in 0 .. Deepest =>
       f[k + 1] = IF f[k] \in Conts THEN s.env[f[k]] ELSE Nil

LEMMA OutwardsGoes ==
  ASSUME NEW s \in States, NEW c \in Places \cup {Nil}
  PROVE  /\ GoesOut(Outwards(s, c), s, c)
         /\ Enclosing(s, c) = {Outwards(s, c)[k] : k \in 0 .. Deepest} \cap Conts
<1> DEFINE D == Places \cup {Nil}
           F == [x \in D |-> IF x \in Conts THEN s.env[x] ELSE Nil]
           up == Outwards(s, c)
<1>1. Deepest \in Nat
  BY Apart, FS_CardinalityType DEF Deepest
<1>2. F \in [D -> D] /\ \A x \in D : F[x] = IF x \in Conts THEN s.env[x] ELSE Nil
  BY Apart DEF States
<1> HIDE DEF F
<1>3. PICK g \in [0 .. Deepest -> D] : Iterated(g, F, c, Deepest)
  BY <1>1, <1>2, Iterates
<1>4. \A k \in 0 .. Deepest : k # 0 => k \in 1 .. Deepest /\ k - 1 \in 0 .. Deepest
  BY <1>1
<1>5. \A k \in 0 .. Deepest : g[k] = IF k = 0 THEN c ELSE IF g[k - 1] \in Conts THEN s.env[g[k - 1]] ELSE Nil
  BY <1>2, <1>3, <1>4 DEF Iterated
<1>6. g = [k \in 0 .. Deepest |-> IF k = 0 THEN c ELSE IF g[k - 1] \in Conts THEN s.env[g[k - 1]] ELSE Nil]
  BY <1>5
<1>7. up = [k \in 0 .. Deepest |-> IF k = 0 THEN c ELSE IF up[k - 1] \in Conts THEN s.env[up[k - 1]] ELSE Nil]
  BY <1>6 DEF Outwards
<1>8. Enclosing(s, c) = {up[k] : k \in 0 .. Deepest} \cap Conts
  BY DEF Enclosing, Outwards, Deepest
<1> HIDE DEF up
<1>9. GoesOut(up, s, c)
  <2>1. 0 \in 0 .. Deepest /\ \A k \in 0 .. Deepest : k + 1 # 0 /\ (k + 1) - 1 = k
    BY <1>1
  <2>2. \A k \in 0 .. Deepest :
          up[k] = IF k = 0 THEN c ELSE IF up[k - 1] \in Conts THEN s.env[up[k - 1]] ELSE Nil
    BY <1>7
  <2> QED BY <2>1, <2>2 DEF GoesOut
<1> QED BY <1>8, <1>9 DEF up

\* Whoever is in containers only meets containers only, and never one twice.
LEMMA NeverTwice ==
  ASSUME NEW s, RootedIn(s), NEW f, NEW c, GoesOut(f, s, c), NEW j \in 0 .. Deepest, f[j] \in Conts
  PROVE  \A i \in 0 .. j : f[i] \in Conts /\ (i # j => f[i] # f[j])
<1>0. Deepest \in Nat /\ Nil \notin Conts
  BY Apart, FS_CardinalityType DEF Deepest
<1> DEFINE A == {m \in Nat : m <= j => f[j - m] \in Conts}
<1>1. 0 \in A
  <2>1. j - 0 = j
    BY <1>0
  <2> QED BY <2>1
<1>2. ASSUME NEW m \in Nat, m \in A PROVE m + 1 \in A
  <2> SUFFICES ASSUME m + 1 <= j PROVE f[j - (m + 1)] \in Conts
    OBVIOUS
  <2> DEFINE k == j - (m + 1)
  <2>1. k \in 0 .. Deepest /\ k + 1 \in 0 .. Deepest /\ k + 1 = j - m /\ m <= j
    BY <1>0
  <2>2. f[j - m] \in Conts
    BY <1>2, <2>1
  <2> HIDE DEF k
  <2>3. f[k] \in Conts
    BY <1>0, <2>1, <2>2 DEF GoesOut
  <2> QED BY <2>3 DEF k
<1> HIDE DEF A
<1>3. Nat \subseteq A
  BY <1>1, <1>2, CountedUp
<1>4. \A i \in 0 .. j : f[i] \in Conts
  <2> SUFFICES ASSUME NEW i \in 0 .. j PROVE f[i] \in Conts
    OBVIOUS
  <2>1. j - i \in Nat /\ j - i <= j /\ j - (j - i) = i
    BY <1>0
  <2> QED BY <1>3, <2>1 DEF A
<1>5. ASSUME NEW i \in 0 .. j, i # j, f[i] = f[j] PROVE FALSE
  <2> DEFINE D == {f[k] : k \in i .. j - 1}
  <2>1. i \in i .. j - 1 /\ \A k \in i .. j - 1 : k \in 0 .. j /\ k + 1 \in 0 .. j
    BY <1>0, <1>5
  <2>2. D \subseteq Conts /\ D # {}
    BY <1>4, <2>1
  <2>3. PICK x \in D : s.env[x] \notin D
    BY <2>2 DEF RootedIn
  <2>4. PICK k \in i .. j - 1 : x = f[k]
    BY <2>3
  <2>5. k \in 0 .. Deepest /\ k + 1 \in 0 .. Deepest /\ (k + 1 \in i .. j - 1 \/ k + 1 = j)
    BY <1>0
  <2>6. s.env[x] = f[k + 1]
    BY <1>4, <2>1, <2>4, <2>5 DEF GoesOut
  <2> QED BY <1>5, <2>1, <2>3, <2>5, <2>6
<1> QED BY <1>4, <1>5

\* So the way ends.
LEMMA WayEnds ==
  ASSUME NEW s, RootedIn(s), NEW f, NEW c, GoesOut(f, s, c)
  PROVE  f[Deepest] \notin Conts
<1> SUFFICES ASSUME f[Deepest] \in Conts PROVE FALSE
  OBVIOUS
<1>0. Deepest \in Nat /\ IsFiniteSet(Objs) /\ Conts \subseteq Objs
  BY Apart, FS_CardinalityType DEF Deepest
<1> DEFINE S == 0 .. Deepest
           g == [k \in S |-> f[k]]
<1>1. \A j \in S : f[j] \in Conts
  BY <1>0, NeverTwice
<1>2. \A i, j \in S : i < j => f[i] # f[j]
  <2> SUFFICES ASSUME NEW i \in S, NEW j \in S, i < j PROVE f[i] # f[j]
    OBVIOUS
  <2>1. i \in 0 .. j /\ i # j
    BY <1>0
  <2> QED BY <1>1, <2>1, NeverTwice
<1>3. g \in [S -> Objs] /\ \A i, j \in S : g[i] = g[j] => i = j
  <2>1. \A i, j \in S : i = j \/ i < j \/ j < i
    BY <1>0
  <2> HIDE DEF S
  <2> QED BY <1>0, <1>1, <1>2, <2>1
<1>4. IsFiniteSet(S) /\ Cardinality(S) = Deepest + 1
  BY <1>0, FS_Interval
<1> HIDE DEF S, g
<1>5. Cardinality(Objs) \in Nat /\ Cardinality(Objs) < Cardinality(S)
  BY <1>0, <1>4 DEF Deepest
<1>6. \E i, j \in S : i # j /\ g[i] = g[j]
  BY <1>0, <1>3, <1>4, <1>5, FS_PigeonHole, Zenon
<1> QED BY <1>3, <1>6

-----------------------------------------------------------------------------
\* Around c are c itself and what is around what c is in, which does not have c again.
LEMMA EnclosingStep ==
  ASSUME NEW s, Sorted(s), NEW c \in Places \cup {Nil}
  PROVE  /\ Enclosing(s, c) \subseteq Conts
         /\ c \notin Conts => Enclosing(s, c) = {}
         /\ c \in Conts => /\ Enclosing(s, c) = {c} \cup Enclosing(s, s.env[c])
                           /\ c \notin Enclosing(s, s.env[c])
<1> DEFINE f == Outwards(s, c)
           p == s.env[c]
           g == Outwards(s, p)
<1>0. Deepest \in Nat /\ s \in States /\ RootedIn(s) /\ 0 \in 0 .. Deepest
  BY Apart, FS_CardinalityType DEF Deepest, Sorted
<1>1. GoesOut(f, s, c) /\ Enclosing(s, c) = {f[k] : k \in 0 .. Deepest} \cap Conts
  BY <1>0, OutwardsGoes
<1> HIDE DEF f
<1>2. ASSUME c \notin Conts PROVE Enclosing(s, c) = {}
  <2>1. f[0] = c
    BY <1>1 DEF GoesOut
  <2>2. \A k \in 0 .. Deepest : 0 \in 0 .. k
    BY <1>0
  <2> QED BY <1>0, <1>1, <1>2, <2>1, <2>2, NeverTwice
<1>3. ASSUME c \in Conts
      PROVE  Enclosing(s, c) = {c} \cup Enclosing(s, p) /\ c \notin Enclosing(s, p)
  <2>1. p \in Places \cup {Nil}
    BY <1>0, <1>3, Apart DEF States
  <2>2. GoesOut(g, s, p) /\ Enclosing(s, p) = {g[k] : k \in 0 .. Deepest} \cap Conts
    BY <1>0, <2>1, OutwardsGoes
  <2> HIDE DEF g
  <2> DEFINE A == {k \in Nat : k + 1 <= Deepest => f[k + 1] = g[k]}
  <2>3. f[0] = c /\ g[0] = p
    BY <1>1, <2>2 DEF GoesOut
  <2>4. 0 \in A
    <3>1. ASSUME 0 + 1 <= Deepest PROVE f[0 + 1] = g[0]
      <4>1. 0 + 1 \in 0 .. Deepest
        BY <1>0, <3>1
      <4>2. f[0 + 1] = IF f[0] \in Conts THEN s.env[f[0]] ELSE Nil
        BY <1>0, <1>1, <4>1 DEF GoesOut
      <4> QED BY <1>3, <2>3, <4>2
    <3> QED BY <3>1
  <2>5. ASSUME NEW k \in Nat, k \in A PROVE k + 1 \in A
    <3> SUFFICES ASSUME (k + 1) + 1 <= Deepest PROVE f[(k + 1) + 1] = g[k + 1]
      OBVIOUS
    <3>1. k \in 0 .. Deepest /\ k + 1 \in 0 .. Deepest /\ (k + 1) + 1 \in 0 .. Deepest /\ k + 1 <= Deepest
      BY <1>0
    <3>2. f[k + 1] = g[k]
      BY <2>5, <3>1
    <3>3. f[(k + 1) + 1] = IF f[k + 1] \in Conts THEN s.env[f[k + 1]] ELSE Nil
      BY <1>1, <3>1 DEF GoesOut
    <3>4. g[k + 1] = IF g[k] \in Conts THEN s.env[g[k]] ELSE Nil
      BY <2>2, <3>1 DEF GoesOut
    <3> QED BY <3>2, <3>3, <3>4
  <2> HIDE DEF A
  <2>6. Nat \subseteq A
    BY <2>4, <2>5, CountedUp
  <2>7. \A k \in 0 .. Deepest : k + 1 \in 0 .. Deepest => f[k + 1] = g[k]
    <3> SUFFICES ASSUME NEW k \in 0 .. Deepest, k + 1 \in 0 .. Deepest PROVE f[k + 1] = g[k]
      OBVIOUS
    <3>1. k \in A /\ k + 1 <= Deepest
      BY <1>0, <2>6
    <3> QED BY <3>1 DEF A
  <2>8. g[Deepest] \notin Conts
    BY <1>0, <2>2, WayEnds
  <2>9. \A k \in 0 .. Deepest : g[k] \in Conts => k + 1 \in 0 .. Deepest /\ f[k + 1] = g[k]
    <3> SUFFICES ASSUME NEW k \in 0 .. Deepest, g[k] \in Conts PROVE k + 1 \in 0 .. Deepest
      BY <2>7
    <3>1. k # Deepest
      BY <2>8
    <3> QED BY <1>0, <3>1
  <2>10. \A k \in 0 .. Deepest : k = 0 \/ \E i \in 0 .. Deepest : k = i + 1 /\ f[k] = g[i]
    <3> SUFFICES ASSUME NEW k \in 0 .. Deepest, k # 0 PROVE \E i \in 0 .. Deepest : k = i + 1 /\ f[k] = g[i]
      OBVIOUS
    <3>1. k - 1 \in 0 .. Deepest /\ k = (k - 1) + 1
      BY <1>0
    <3> QED BY <2>7, <3>1
  <2>11. Enclosing(s, c) = {c} \cup Enclosing(s, p)
    BY <1>0, <1>1, <1>3, <2>2, <2>3, <2>9, <2>10
  <2>12. ASSUME c \in Enclosing(s, p) PROVE FALSE
    <3>1. PICK k \in 0 .. Deepest : g[k] = c
      BY <2>2, <2>12
    <3>2. k + 1 \in 0 .. Deepest /\ f[k + 1] = f[0] /\ f[k + 1] \in Conts
      BY <1>3, <2>3, <2>9, <3>1
    <3>3. 0 \in 0 .. k + 1 /\ 0 # k + 1
      BY <1>0
    <3> QED BY <1>0, <1>1, <3>2, <3>3, NeverTwice
  <2> QED BY <2>11, <2>12
<1> QED BY <1>1, <1>2, <1>3

\* What holds of a container if it holds of the one it is in, if any, holds of all.
LEMMA FromOutside ==
  ASSUME NEW s, Sorted(s), NEW A, \A c \in Conts : (s.env[c] \in Conts => s.env[c] \in A) => c \in A
  PROVE  Conts \subseteq A
<1> DEFINE D == Conts \ A
<1> SUFFICES ASSUME D # {} PROVE FALSE
  OBVIOUS
<1>1. D \in SUBSET (Conts \cup Belts)
  OBVIOUS
<1>2. PICK o \in D : s.env[o] \notin D
  BY <1>1 DEF Sorted, RootedIn
<1> QED BY <1>2

\* The containers around c are in every set that goes on outwards from c.
LEMMA EnclosingWithin ==
  ASSUME NEW s, Sorted(s), NEW Z, \A x \in Z : s.env[x] \in Conts => s.env[x] \in Z
  PROVE  \A c \in (Places \cup {Nil}) \cap Z : Enclosing(s, c) \subseteq Z
<1> DEFINE A == {c \in Conts : c \in Z => Enclosing(s, c) \subseteq Z}
<1>1. ASSUME NEW c \in Conts, s.env[c] \in Conts => s.env[c] \in A PROVE c \in A
  <2> SUFFICES ASSUME c \in Z PROVE Enclosing(s, c) \subseteq Z
    OBVIOUS
  <2>1. c \in Places \cup {Nil} /\ s.env[c] \in Places \cup {Nil}
    BY Apart DEF Sorted, States
  <2>2. Enclosing(s, c) = {c} \cup Enclosing(s, s.env[c])
    BY <2>1, EnclosingStep
  <2>3. s.env[c] \notin Conts => Enclosing(s, s.env[c]) = {}
    BY <2>1, EnclosingStep
  <2> QED BY <1>1, <2>2, <2>3
<1> HIDE DEF A
<1>2. Conts \subseteq A
  BY <1>1, FromOutside
<1> QED BY <1>2, EnclosingStep DEF A

\* What is around something that is around c, is around c.
LEMMA EnclosingOn ==
  ASSUME NEW s, Sorted(s)
  PROVE  \A c \in Places \cup {Nil} : \A r \in Enclosing(s, c) : Enclosing(s, r) \subseteq Enclosing(s, c)
<1> DEFINE A == {c \in Conts : \A x \in Enclosing(s, c) : s.env[x] \in Conts => s.env[x] \in Enclosing(s, c)}
<1>1. ASSUME NEW c \in Conts, s.env[c] \in Conts => s.env[c] \in A PROVE c \in A
  <2>1. c \in Places \cup {Nil} /\ s.env[c] \in Places \cup {Nil}
    BY Apart DEF Sorted, States
  <2>2. Enclosing(s, c) = {c} \cup Enclosing(s, s.env[c])
    BY <2>1, EnclosingStep
  <2>3. s.env[c] \notin Conts => Enclosing(s, s.env[c]) = {}
    BY <2>1, EnclosingStep
  <2>4. s.env[c] \in Conts => s.env[c] \in Enclosing(s, s.env[c])
    BY <2>1, EnclosingStep
  <2> QED BY <1>1, <2>2, <2>3, <2>4
<1> HIDE DEF A
<1>2. Conts \subseteq A
  BY <1>1, FromOutside
<1> SUFFICES ASSUME NEW c \in Places \cup {Nil}, NEW r \in Enclosing(s, c)
             PROVE  Enclosing(s, r) \subseteq Enclosing(s, c)
  OBVIOUS
<1>3. c \in Conts /\ r \in Conts /\ r \in Places
  BY EnclosingStep, Apart
<1>4. \A x \in Enclosing(s, c) : s.env[x] \in Conts => s.env[x] \in Enclosing(s, c)
  BY <1>2, <1>3 DEF A
<1> QED BY <1>3, <1>4, EnclosingWithin

\* The containers around c that notice the volume of what is put into c.
Noticing(s, c) == {x \in Enclosing(s, c) : ~\E r \in (Rigid \cap Enclosing(s, c)) \ {x} : x \in Enclosing(s, r)}

LEMMA NoticingStep ==
  ASSUME NEW s, Sorted(s), NEW c \in Conts
  PROVE  Noticing(s, c) = {c} \cup IF c \in Rigid THEN {} ELSE Noticing(s, s.env[c])
<1> DEFINE p == s.env[c]
<1>1. c \in Places \cup {Nil} /\ p \in Places \cup {Nil}
  BY Apart DEF Sorted, States
<1>2. Enclosing(s, c) = {c} \cup Enclosing(s, p) /\ c \notin Enclosing(s, p)
  BY <1>1, EnclosingStep
<1>3. \A r \in Enclosing(s, p) : Enclosing(s, r) \subseteq Enclosing(s, p)
  BY <1>1, EnclosingOn
<1> HIDE DEF p
<1>4. c \in Noticing(s, c)
  BY <1>2, <1>3 DEF Noticing
<1>5. ASSUME NEW x \in Enclosing(s, p), c \in Rigid PROVE x \notin Noticing(s, c)
  BY <1>2, <1>5 DEF Noticing
<1>6. ASSUME NEW x \in Enclosing(s, p), c \notin Rigid
      PROVE  x \in Noticing(s, c) <=> x \in Noticing(s, p)
  BY <1>2, <1>6 DEF Noticing
<1>7. Noticing(s, c) \subseteq {c} \cup Enclosing(s, p) /\ Noticing(s, p) \subseteq Enclosing(s, p)
  BY <1>2 DEF Noticing
<1> QED BY <1>4, <1>5, <1>6, <1>7 DEF p

\* If G goes on from every container, but those of R, to what that is in: then each container
\* that G gets to has one of G in it, but R, and no other container has.
GoesOn(G, R, s) ==
  /\ \A c \in Conts : G[c] = {c} \cup IF c \in R \/ s.env[c] \notin Conts THEN {} ELSE G[s.env[c]]
  /\ \A c \in Conts : s.env[c] \in Conts => c \notin G[s.env[c]]

\* x has one of T in it if it is one of U, but c, and none otherwise.
HasOne(s, x, T, U, c) ==
  IF x \in U /\ x # c THEN \E y : T \cap s.inv[x] = {y} ELSE T \cap s.inv[x] = {}

LEMMA OneInside ==
  ASSUME NEW s, Sorted(s), NEW R, NEW G, GoesOn(G, R, s)
  PROVE  \A c \in Conts, x \in Conts : HasOne(s, x, G[c] \ R, G[c], c)
<1> DEFINE P(c) == \A x \in Conts : IF x \in G[c] /\ x # c THEN \E y : (G[c] \ R) \cap s.inv[x] = {y}
                                                           ELSE (G[c] \ R) \cap s.inv[x] = {}
           A == {c \in Conts : P(c)}
<1>1. ASSUME NEW c \in Conts, s.env[c] \in Conts => s.env[c] \in A PROVE P(c)
  <2> SUFFICES ASSUME NEW x \in Conts
               PROVE  IF x \in G[c] /\ x # c THEN \E y : (G[c] \ R) \cap s.inv[x] = {y}
                                             ELSE (G[c] \ R) \cap s.inv[x] = {}
    OBVIOUS
  <2>1. c \in s.inv[x] <=> s.env[c] = x
    BY Apart DEF Sorted, Placed
  <2>2. CASE c \in R \/ s.env[c] \notin Conts
    <3>1. G[c] = {c}
      BY <2>2 DEF GoesOn
    <3> QED BY <2>1, <2>2, <3>1
  <2>3. CASE c \notin R /\ s.env[c] \in Conts
    <3> DEFINE p == s.env[c]
    <3>1. G[c] = {c} \cup G[p] /\ c \notin G[p] /\ P(p) /\ p \in G[p]
      BY <1>1, <2>3 DEF GoesOn
    <3>2. IF x \in G[p] /\ x # p THEN \E y : (G[p] \ R) \cap s.inv[x] = {y} ELSE (G[p] \ R) \cap s.inv[x] = {}
      BY <3>1
    <3> HIDE DEF p
    <3>3. (G[c] \ R) \cap s.inv[x] = IF x = p THEN {c} \cup ((G[p] \ R) \cap s.inv[x]) ELSE (G[p] \ R) \cap s.inv[x]
      BY <2>1, <2>3, <3>1 DEF p
    <3>4. CASE x = p
      BY <3>1, <3>2, <3>3, <3>4
    <3>5. CASE x # p
      BY <3>1, <3>2, <3>3, <3>5
    <3> QED BY <3>4, <3>5
  <2> QED BY <2>2, <2>3
<1>2. Conts \subseteq A
  <2>1. \A c \in Conts : (s.env[c] \in Conts => s.env[c] \in A) => c \in A
    <3> HIDE DEF P
    <3> QED BY <1>1
  <2> HIDE DEF A
  <2> QED BY <2>1, FromOutside
<1> HIDE DEF P
<1>3. \A c \in Conts : P(c)
  BY <1>2
<1> QED BY <1>3 DEF P, HasOne

-----------------------------------------------------------------------------
\* How far the books of x are off in the state s.
OffWeight(s, x) == s.weight[x] - SumFunction([o \in s.inv[x] \cup s.att[x] |-> QueryWeight(s, o)])
OffVolume(s, x) == s.volume[x] - SumFunction([o \in s.inv[x] |-> QueryVolume(s, o)])

\* The weight and the volume of what is in x.
Load(s, x) == SumFunction([o \in s.inv[x] |-> QueryWeight(s, o)])
Bulk(s, x) == SumFunction([o \in s.inv[x] |-> QueryVolume(s, o)])

LEMMA OffIs ==
  ASSUME NEW s, Sorted(s), NEW x \in Conts
  PROVE  /\ OffWeight(s, x) = s.weight[x] - Load(s, x) /\ OffVolume(s, x) = s.volume[x] - Bulk(s, x)
         /\ Load(s, x) \in Int /\ Bulk(s, x) \in Int /\ s.weight[x] \in Int /\ s.volume[x] \in Int
         /\ IsFiniteSet(s.inv[x]) /\ s.inv[x] \subseteq Objs
         /\ [o \in s.inv[x] |-> QueryWeight(s, o)] \in [s.inv[x] -> Int]
         /\ [o \in s.inv[x] |-> QueryVolume(s, o)] \in [s.inv[x] -> Int]
<1>1. s \in States /\ x \in Places /\ s.att[x] = {}
  BY Apart DEF Sorted, Placed
<1>2. s.inv[x] \subseteq Objs /\ s.weight[x] \in Int /\ s.volume[x] \in Int
  BY <1>1 DEF States
<1>3. IsFiniteSet(s.inv[x])
  BY <1>2, Apart, FS_Subset
<1>4. /\ [o \in s.inv[x] |-> QueryWeight(s, o)] \in [s.inv[x] -> Int]
      /\ [o \in s.inv[x] |-> QueryVolume(s, o)] \in [s.inv[x] -> Int]
  BY <1>1, <1>2, Weighed
<1>5. Load(s, x) \in Int /\ Bulk(s, x) \in Int
  BY <1>3, <1>4, SumTyped DEF Load, Bulk
<1>6. s.inv[x] \cup s.att[x] = s.inv[x]
  BY <1>1
<1>7. OffWeight(s, x) = s.weight[x] - Load(s, x) /\ OffVolume(s, x) = s.volume[x] - Bulk(s, x)
  BY <1>6 DEF OffWeight, OffVolume, Load, Bulk
<1> QED BY <1>2, <1>3, <1>4, <1>5, <1>7

\* What update_internal() does to the books.
LEMMA Booked ==
  ASSUME NEW s, Sorted(s), NEW c \in Places \cup {Nil}, NEW w \in Int, NEW v \in Int
  PROVE  LET b == Book(s, c, w, v) IN
         /\ \A x \in Conts : b.weight[x] = s.weight[x] + IF x \in Enclosing(s, c) THEN w ELSE 0
         /\ \A x \in Conts : b.volume[x] = s.volume[x] + IF x \in Noticing(s, c) THEN v ELSE 0
         /\ \A o \in Objs : QueryWeight(b, o) = QueryWeight(s, o) + IF o \in Enclosing(s, c) THEN w ELSE 0
         /\ \A o \in Objs : QueryVolume(b, o) = QueryVolume(s, o) + IF o \in Noticing(s, c) \ Rigid THEN v ELSE 0
<1> DEFINE b == Book(s, c, w, v)
<1>1. s \in States /\ Enclosing(s, c) \subseteq Conts /\ Noticing(s, c) \subseteq Enclosing(s, c)
  BY EnclosingStep DEF Sorted, Noticing
<1>2. /\ b.weight = [x \in Conts |-> s.weight[x] + IF x \in Enclosing(s, c) THEN w ELSE 0]
      /\ b.volume = [x \in Conts |-> s.volume[x] + IF x \in Noticing(s, c) THEN v ELSE 0]
  <2>1. \A x \in Conts : x \in Noticing(s, c) <=>
          x \in Enclosing(s, c) /\ ~\E r \in (Rigid \cap Enclosing(s, c)) \ {x} : x \in Enclosing(s, r)
    BY DEF Noticing
  <2> QED BY <1>1, <2>1 DEF Book, States
<1>3. b.size = s.size
  BY BookKeeps DEF OnlyBooks
<1> HIDE DEF b
<1>4. \A x \in Conts : s.weight[x] \in Int /\ s.volume[x] \in Int
  BY <1>1 DEF States
<1>5. \A x \in Conts : b.weight[x] = s.weight[x] + IF x \in Enclosing(s, c) THEN w ELSE 0
  BY <1>2
<1>6. \A x \in Conts : b.volume[x] = s.volume[x] + IF x \in Noticing(s, c) THEN v ELSE 0
  BY <1>2
<1>7. ASSUME NEW o \in Objs
      PROVE  /\ QueryWeight(b, o) = QueryWeight(s, o) + IF o \in Enclosing(s, c) THEN w ELSE 0
             /\ QueryVolume(b, o) = QueryVolume(s, o) + IF o \in Noticing(s, c) \ Rigid THEN v ELSE 0
  <2>1. QueryWeight(s, o) \in Int /\ QueryVolume(s, o) \in Int /\ OwnWeight[o] \in Nat /\ OwnVolume[o] \in Nat
    BY <1>1, Weighed, InventoryAssumption
  <2>2. Heaps \cap Conts = {} /\ Rigid \subseteq Conts
    BY InventoryAssumption DEF Conts
  <2>3. CASE o \in Conts
    <3>1. /\ QueryWeight(b, o) = OwnWeight[o] + b.weight[o] /\ QueryWeight(s, o) = OwnWeight[o] + s.weight[o]
          /\ QueryVolume(b, o) = (IF o \in Rigid THEN MaxVolume[o] ELSE OwnVolume[o] + b.volume[o])
          /\ QueryVolume(s, o) = (IF o \in Rigid THEN MaxVolume[o] ELSE OwnVolume[o] + s.volume[o])
      BY <2>2, <2>3 DEF QueryWeight, QueryVolume
    <3> QED BY <1>4, <1>5, <1>6, <2>1, <2>3, <3>1
  <2>4. CASE o \notin Conts
    <3>1. QueryWeight(b, o) = QueryWeight(s, o) /\ QueryVolume(b, o) = QueryVolume(s, o)
      BY <1>3, <2>2, <2>4 DEF QueryWeight, QueryVolume
    <3> QED BY <1>1, <2>1, <2>4, <3>1
  <2> QED BY <2>3, <2>4
<1> QED BY <1>5, <1>6, <1>7 DEF b

\* If at most one of S has n more, so has the sum.
AtMostOne(T, S) == T \cap S = {} \/ \E y : T \cap S = {y}

LEMMA OneMore ==
  ASSUME NEW S, IsFiniteSet(S), NEW f \in [S -> Int], NEW g, NEW T, NEW n \in Int,
         g = [o \in S |-> f[o] + IF o \in T THEN n ELSE 0],
         AtMostOne(T, S)
  PROVE  SumFunction(f) \in Int /\ SumFunction(g) = SumFunction(f) + IF T \cap S = {} THEN 0 ELSE n
<1>1. SumFunction(f) \in Int
  BY SumTyped, Zenon
<1>2. CASE T \cap S # {}
  <2>1. PICK y : T \cap S = {y}
    BY <1>2 DEF AtMostOne
  <2>2. y \in S /\ f[y] \in Int /\ f[y] + n \in Int
    BY <2>1
  <2>3. g = [f EXCEPT ![y] = f[y] + n]
    BY <2>1
  <2>4. SumFunction([f EXCEPT ![y] = f[y] + n]) = SumFunction(f) + (f[y] + n) - f[y]
    BY <2>2, SumChanges
  <2> DEFINE a == SumFunction(f)
             m == f[y]
  <2>5. SumFunction(g) = a + (m + n) - m
    BY <2>3, <2>4
  <2>6. a \in Int /\ m \in Int
    BY <1>1, <2>2
  <2> HIDE DEF a, m
  <2>7. a + (m + n) - m = a + n
    BY <2>6
  <2> QED BY <1>1, <1>2, <2>5, <2>7 DEF a
<1>3. CASE T \cap S = {}
  <2>1. g = f
    BY <1>3
  <2> QED BY <1>1, <1>3, <2>1
<1> QED BY <1>2, <1>3

\* update_internal() of c is about c only: the books of what is around c, and what they say
\* of each other, go on agreeing as they did.
LEMMA BookOff ==
  ASSUME NEW s, Sorted(s), NEW c \in Places \cup {Nil}, NEW w \in Int, NEW v \in Int, NEW x \in Conts
  PROVE  /\ OffWeight(Book(s, c, w, v), x) = OffWeight(s, x) + IF x = c THEN w ELSE 0
         /\ OffVolume(Book(s, c, w, v), x) = OffVolume(s, x) + IF x = c THEN v ELSE 0
         /\ OffWeight(s, x) \in Int /\ OffVolume(s, x) \in Int
<1> DEFINE b == Book(s, c, w, v)
           E == [y \in Conts |-> Enclosing(s, y)]
           F == [y \in Conts |-> Noticing(s, y)]
           f == [o \in s.inv[x] |-> QueryWeight(s, o)]
           g == [o \in s.inv[x] |-> QueryVolume(s, o)]
<1>1. Sorted(b) /\ b.inv = s.inv
  BY BookKeeps DEF OnlyBooks, SamePlaces
<1>2. /\ b.weight[x] = s.weight[x] + IF x \in Enclosing(s, c) THEN w ELSE 0
      /\ b.volume[x] = s.volume[x] + IF x \in Noticing(s, c) THEN v ELSE 0
      /\ \A o \in Objs : QueryWeight(b, o) = QueryWeight(s, o) + IF o \in Enclosing(s, c) THEN w ELSE 0
      /\ \A o \in Objs : QueryVolume(b, o) = QueryVolume(s, o) + IF o \in Noticing(s, c) \ Rigid THEN v ELSE 0
  BY Booked
<1> HIDE DEF b
<1>3. c \in Conts => c \in Enclosing(s, c) /\ c \in Noticing(s, c)
  BY EnclosingStep, NoticingStep
<1>4. c \notin Conts => Enclosing(s, c) = {} /\ Noticing(s, c) = {}
  BY EnclosingStep DEF Noticing
<1>5. /\ HasOne(s, x, Enclosing(s, c), Enclosing(s, c), c)
      /\ HasOne(s, x, Noticing(s, c) \ Rigid, Noticing(s, c), c)
  <2>1. CASE c \notin Conts
    BY <1>4, <2>1 DEF HasOne
  <2>2. CASE c \in Conts
    <3>1. \A y \in Conts : y \in Places \cup {Nil} /\ s.env[y] \in Places \cup {Nil}
      BY Apart DEF Sorted, States
    <3>2. \A y \in Conts : E[y] = {y} \cup (IF y \in {} \/ s.env[y] \notin Conts THEN {} ELSE E[s.env[y]])
      BY <3>1, EnclosingStep
    <3>3. \A y \in Conts : s.env[y] \in Conts => y \notin E[s.env[y]]
      BY <3>1, EnclosingStep
    <3>4. \A y \in Conts : F[y] = {y} \cup (IF y \in Rigid \/ s.env[y] \notin Conts THEN {} ELSE F[s.env[y]])
      <4>1. \A y \in Conts : s.env[y] \notin Conts => Noticing(s, s.env[y]) = {}
        BY <3>1, EnclosingStep DEF Noticing
      <4> QED BY <4>1, NoticingStep
    <3>5. \A y \in Conts : s.env[y] \in Conts => y \notin F[s.env[y]]
      <4>1. \A y : Noticing(s, y) \subseteq Enclosing(s, y)
        BY DEF Noticing
      <4> QED BY <3>3, <4>1
    <3>6. E[c] = Enclosing(s, c) /\ F[c] = Noticing(s, c)
      BY <2>2
    <3> HIDE DEF E, F
    <3>7. HasOne(s, x, E[c] \ {}, E[c], c)
      <4>1. GoesOn(E, {}, s)
        BY <3>2, <3>3 DEF GoesOn
      <4> QED BY <2>2, <4>1, OneInside
    <3>8. HasOne(s, x, F[c] \ Rigid, F[c], c)
      <4>1. GoesOn(F, Rigid, s)
        BY <3>4, <3>5 DEF GoesOn
      <4> QED BY <2>2, <4>1, OneInside
    <3>9. E[c] \ {} = E[c]
      OBVIOUS
    <3> QED BY <3>6, <3>7, <3>8, <3>9
  <2> QED BY <2>1, <2>2
<1>6. /\ IsFiniteSet(s.inv[x]) /\ f \in [s.inv[x] -> Int] /\ g \in [s.inv[x] -> Int] /\ s.inv[x] \subseteq Objs
      /\ Load(s, x) \in Int /\ Bulk(s, x) \in Int /\ s.weight[x] \in Int /\ s.volume[x] \in Int
      /\ OffWeight(s, x) = s.weight[x] - Load(s, x) /\ OffVolume(s, x) = s.volume[x] - Bulk(s, x)
  BY OffIs
<1>7. Load(s, x) = SumFunction(f) /\ Bulk(s, x) = SumFunction(g)
  BY DEF Load, Bulk
<1>8. Load(b, x) = Load(s, x) + IF x \in Enclosing(s, c) /\ x # c THEN w ELSE 0
  <2> DEFINE h == [o \in s.inv[x] |-> f[o] + IF o \in Enclosing(s, c) THEN w ELSE 0]
  <2>1. [o \in b.inv[x] |-> QueryWeight(b, o)] = h
    BY <1>1, <1>2, <1>6
  <2> HIDE DEF f
  <2> DEFINE T == Enclosing(s, c)
  <2>2. h = [o \in s.inv[x] |-> f[o] + IF o \in T THEN w ELSE 0]
    OBVIOUS
  <2> HIDE DEF h
  <2>3. AtMostOne(T, s.inv[x])
    BY <1>5 DEF HasOne, AtMostOne
  <2>4. x \in T /\ x # c <=> T \cap s.inv[x] # {}
    BY <1>5 DEF HasOne
  <2> HIDE DEF T
  <2>5. SumFunction(h) = SumFunction(f) + IF T \cap s.inv[x] = {} THEN 0 ELSE w
    BY <1>6, <2>2, <2>3, OneMore
  <2>6. SumFunction(h) = SumFunction(f) + IF x \in T /\ x # c THEN w ELSE 0
    BY <2>4, <2>5
  <2> QED BY <1>7, <2>1, <2>6 DEF Load, T
<1>9. Bulk(b, x) = Bulk(s, x) + IF x \in Noticing(s, c) /\ x # c THEN v ELSE 0
  <2> DEFINE h == [o \in s.inv[x] |-> g[o] + IF o \in Noticing(s, c) \ Rigid THEN v ELSE 0]
  <2>1. [o \in b.inv[x] |-> QueryVolume(b, o)] = h
    BY <1>1, <1>2, <1>6
  <2> HIDE DEF g
  <2> DEFINE T == Noticing(s, c) \ Rigid
  <2>2. h = [o \in s.inv[x] |-> g[o] + IF o \in T THEN v ELSE 0]
    OBVIOUS
  <2> HIDE DEF h
  <2>3. AtMostOne(T, s.inv[x])
    BY <1>5 DEF HasOne, AtMostOne
  <2>4. x \in Noticing(s, c) /\ x # c <=> T \cap s.inv[x] # {}
    BY <1>5 DEF HasOne
  <2> HIDE DEF T
  <2>5. SumFunction(h) = SumFunction(g) + IF T \cap s.inv[x] = {} THEN 0 ELSE v
    BY <1>6, <2>2, <2>3, OneMore
  <2>6. SumFunction(h) = SumFunction(g) + IF x \in Noticing(s, c) /\ x # c THEN v ELSE 0
    BY <2>4, <2>5
  <2> QED BY <1>7, <2>1, <2>6 DEF Bulk
<1>10. OffWeight(b, x) = b.weight[x] - Load(b, x) /\ OffVolume(b, x) = b.volume[x] - Bulk(b, x)
  BY <1>1, OffIs
<1>11. OffWeight(s, x) \in Int /\ OffVolume(s, x) \in Int
  BY <1>6
<1>12. OffWeight(b, x) = OffWeight(s, x) + IF x = c THEN w ELSE 0
  BY <1>2, <1>3, <1>6, <1>8, <1>10
<1>13. OffVolume(b, x) = OffVolume(s, x) + IF x = c THEN v ELSE 0
  BY <1>2, <1>3, <1>6, <1>9, <1>10
<1> QED BY <1>11, <1>12, <1>13 DEF b

-----------------------------------------------------------------------------
\* Things of one weight and volume weigh the same in two states with the same books.
LEMMA WeighsAsMuch ==
  ASSUME NEW s, NEW t, t.weight = s.weight, t.volume = s.volume, t.size = s.size, NEW o
  PROVE  QueryWeight(t, o) = QueryWeight(s, o) /\ QueryVolume(t, o) = QueryVolume(s, o)
BY DEF QueryWeight, QueryVolume

\* What is not in x at first weighs on it more, then, by just itself.
LEMMA OneComes ==
  ASSUME NEW s, Sorted(s), NEW t, Sorted(t), NEW x \in Conts, NEW o \in Objs,
         t.weight = s.weight, t.volume = s.volume, t.size = s.size,
         o \notin s.inv[x], t.inv[x] = s.inv[x] \cup {o}
  PROVE  /\ OffWeight(t, x) = OffWeight(s, x) - QueryWeight(s, o)
         /\ OffVolume(t, x) = OffVolume(s, x) - QueryVolume(s, o)
<1> DEFINE f == [y \in s.inv[x] |-> QueryWeight(s, y)]
           g == [y \in s.inv[x] |-> QueryVolume(s, y)]
           ft == [y \in t.inv[x] |-> QueryWeight(t, y)]
           gt == [y \in t.inv[x] |-> QueryVolume(t, y)]
<1>1. \A y : QueryWeight(t, y) = QueryWeight(s, y) /\ QueryVolume(t, y) = QueryVolume(s, y)
  BY WeighsAsMuch
<1>2. /\ OffWeight(s, x) = s.weight[x] - Load(s, x) /\ OffVolume(s, x) = s.volume[x] - Bulk(s, x)
      /\ Load(s, x) \in Int /\ Bulk(s, x) \in Int /\ s.weight[x] \in Int /\ s.volume[x] \in Int
      /\ IsFiniteSet(s.inv[x]) /\ f \in [s.inv[x] -> Int] /\ g \in [s.inv[x] -> Int]
  BY OffIs
<1>3. /\ OffWeight(t, x) = t.weight[x] - Load(t, x) /\ OffVolume(t, x) = t.volume[x] - Bulk(t, x)
      /\ Load(t, x) \in Int /\ Bulk(t, x) \in Int
      /\ IsFiniteSet(t.inv[x]) /\ ft \in [t.inv[x] -> Int] /\ gt \in [t.inv[x] -> Int]
  BY OffIs
<1>4. o \in t.inv[x] /\ s.inv[x] = t.inv[x] \ {o}
  OBVIOUS
<1>5. ft[o] = QueryWeight(s, o) /\ gt[o] = QueryVolume(s, o)
  BY <1>1, <1>4
<1>6. (\A y \in s.inv[x] : f[y] = ft[y]) /\ (\A y \in s.inv[x] : g[y] = gt[y])
  BY <1>1
<1>7. Load(s, x) = SumFunction(f) /\ Bulk(s, x) = SumFunction(g) /\ Load(t, x) = SumFunction(ft) /\ Bulk(t, x) = SumFunction(gt)
  BY DEF Load, Bulk
<1>8. QueryWeight(s, o) \in Int /\ QueryVolume(s, o) \in Int
  BY Weighed DEF Sorted
<1> HIDE DEF f, g, ft, gt
<1>9. SumFunction(ft) = SumFunction(f) + ft[o]
  BY <1>2, <1>3, <1>4, <1>6, SumWithout
<1>10. SumFunction(gt) = SumFunction(g) + gt[o]
  <2>1. /\ IsFiniteSet(t.inv[x]) /\ gt \in [t.inv[x] -> Int] /\ g \in [s.inv[x] -> Int]
        /\ \A y \in s.inv[x] : g[y] = gt[y]
    BY <1>2, <1>3, <1>6
  <2> QED BY <1>4, <2>1, SumWithout
<1> QED BY <1>2, <1>3, <1>5, <1>7, <1>8, <1>9, <1>10

\* Nothing changes where nothing comes or goes.
LEMMA NoneComes ==
  ASSUME NEW s, Sorted(s), NEW t, Sorted(t), NEW x \in Conts,
         t.weight = s.weight, t.volume = s.volume, t.size = s.size, t.inv[x] = s.inv[x]
  PROVE  OffWeight(t, x) = OffWeight(s, x) /\ OffVolume(t, x) = OffVolume(s, x)
<1>1. \A y : QueryWeight(t, y) = QueryWeight(s, y) /\ QueryVolume(t, y) = QueryVolume(s, y)
  BY WeighsAsMuch
<1>2. Load(t, x) = Load(s, x) /\ Bulk(t, x) = Bulk(s, x)
  BY <1>1 DEF Load, Bulk
<1> QED BY <1>2, OffIs

\* The places and the books that a move without books leaves.
LEMMA MovedOff ==
  ASSUME NEW s, Sorted(s), NEW o \in s.live, NEW d \in Places, o \notin Livings, Near(s, d), d # o,
         s.env[o] \in Places => o \in s.inv[s.env[o]], NEW x \in Conts
  PROVE  LET t == MoveObject(s, o, d)
             w == QueryWeight(s, o)
             v == QueryVolume(s, o)
         IN  /\ OffWeight(t, x) = OffWeight(s, x) + (IF x = s.env[o] THEN w ELSE 0) - (IF x = d THEN w ELSE 0)
             /\ OffVolume(t, x) = OffVolume(s, x) + (IF x = s.env[o] THEN v ELSE 0) - (IF x = d THEN v ELSE 0)
<1> DEFINE t == MoveObject(s, o, d)
           w == QueryWeight(s, o)
           v == QueryVolume(s, o)
<1>1. Sorted(t) /\ s \in States /\ o \in Objs /\ x \in Places
  BY MoveObjectKeeps0, Apart DEF Sorted, States
<1>2. w \in Int /\ v \in Int /\ OffWeight(s, x) \in Int /\ OffVolume(s, x) \in Int
  <2>1. Nil \in Places \cup {Nil} /\ 0 \in Int
    OBVIOUS
  <2> QED BY <1>1, <2>1, Weighed, BookOff
<1>3. CASE d = s.env[o]
  <2>1. t = s
    BY <1>3 DEF MoveObject
  <2> QED BY <1>2, <1>3, <2>1
<1>4. CASE d # s.env[o]
  <2>1. /\ t.weight = s.weight /\ t.volume = s.volume /\ t.size = s.size
        /\ t.inv[x] = IF x = d THEN s.inv[x] \cup {o} ELSE IF x = s.env[o] THEN s.inv[x] \ {o} ELSE s.inv[x]
    BY <1>1, <1>4 DEF MoveObject, TakenOut, States
  <2> HIDE DEF t
  <2>2. x = d => o \notin s.inv[x]
    BY <1>1, <1>4 DEF Sorted, Placed
  <2>3. CASE x = d
    <3>1. OffWeight(t, x) = OffWeight(s, x) - w /\ OffVolume(t, x) = OffVolume(s, x) - v
      BY <1>1, <2>1, <2>2, <2>3, OneComes
    <3> QED BY <1>2, <1>4, <2>3, <3>1 DEF t
  <2>4. CASE x # d /\ x = s.env[o]
    <3>1. o \in s.inv[x] /\ o \notin t.inv[x] /\ s.inv[x] = t.inv[x] \cup {o}
      BY <1>1, <2>1, <2>4
    <3>2. OffWeight(s, x) = OffWeight(t, x) - QueryWeight(t, o) /\ OffVolume(s, x) = OffVolume(t, x) - QueryVolume(t, o)
      BY <1>1, <2>1, <3>1, OneComes
    <3>3. QueryWeight(t, o) = w /\ QueryVolume(t, o) = v
      BY <2>1, WeighsAsMuch
    <3>4. OffWeight(t, x) \in Int /\ OffVolume(t, x) \in Int
      <4>1. Nil \in Places \cup {Nil} /\ 0 \in Int
        OBVIOUS
      <4> QED BY <1>1, <4>1, BookOff
    <3> HIDE DEF w, v
    <3> QED BY <1>2, <2>4, <3>2, <3>3, <3>4 DEF t, w, v
  <2>5. CASE x # d /\ x # s.env[o]
    <3>1. OffWeight(t, x) = OffWeight(s, x) /\ OffVolume(t, x) = OffVolume(s, x)
      BY <1>1, <2>1, <2>5, NoneComes
    <3> QED BY <1>2, <2>5, <3>1 DEF t
  <2> QED BY <2>3, <2>4, <2>5
<1> QED BY <1>3, <1>4

LEMMA SameAround ==
  ASSUME NEW s, NEW t, t.env = s.env, NEW c
  PROVE  Enclosing(t, c) = Enclosing(s, c)
BY DEF Enclosing

\* What is not around a place weighs the same after update_internal() of the place.
LEMMA WeighsOn ==
  ASSUME NEW s, Sorted(s), NEW c \in Places \cup {Nil}, NEW w \in Int, NEW v \in Int, NEW o \in Objs,
         o \notin Enclosing(s, c)
  PROVE  /\ QueryWeight(Book(s, c, w, v), o) = QueryWeight(s, o)
         /\ QueryVolume(Book(s, c, w, v), o) = QueryVolume(s, o)
         /\ o \notin Enclosing(Book(s, c, w, v), c)
<1>1. QueryWeight(s, o) \in Int /\ QueryVolume(s, o) \in Int
  BY Weighed DEF Sorted
<1>2. o \notin Noticing(s, c)
  BY DEF Noticing
<1>3. Book(s, c, w, v).env = s.env
  BY BookKeeps DEF OnlyBooks, SamePlaces
<1> QED BY <1>1, <1>2, <1>3, Booked DEF Enclosing

\* What does not contain c is not around c, and so is not around it after it was moved.
LEMMA NotAround ==
  ASSUME NEW s, Sorted(s), NEW o \in s.live, NEW d \in Places, o \notin Livings, Near(s, d), d # o
  PROVE  LET t == MoveObject(s, o, d) IN
         /\ o \notin Enclosing(t, d) /\ o \notin Enclosing(t, s.env[o])
         /\ t.env[o] = d /\ t.weight = s.weight /\ t.volume = s.volume /\ t.size = s.size
         /\ t.live = s.live /\ Sorted(t) /\ o \in Objs /\ s.env[o] \in Places \cup {Nil}
<1> DEFINE t == MoveObject(s, o, d)
           p == s.env[o]
           Z == Enclosing(s, p)
<1>1. Sorted(t) /\ s \in States /\ o \in Objs /\ t.size = s.size /\ t.live = s.live
  BY MoveObjectKeeps0 DEF Sorted, States
<1>2. t.env = [s.env EXCEPT ![o] = d] /\ t.weight = s.weight /\ t.volume = s.volume
  <2>1. CASE d = s.env[o]
    BY <1>1, <2>1 DEF MoveObject, States
  <2>2. CASE d # s.env[o]
    BY <1>1, <2>2 DEF MoveObject, TakenOut, States
  <2> QED BY <2>1, <2>2
<1>3. t.env[o] = d /\ p \in Places \cup {Nil} /\ \A x \in Objs \ {o} : t.env[x] = s.env[x]
  BY <1>1, <1>2 DEF States
<1> HIDE DEF t
<1>4. o \notin Enclosing(t, d)
  BY <1>1, <1>3, EnclosingStep, Apart
<1>5. o \notin Enclosing(t, p)
  <2>1. Z \subseteq Conts /\ o \notin Z
    <3>1. o \in Conts => o \in Places \cup {Nil}
      BY Apart
    <3> QED BY <1>3, <3>1, EnclosingStep
  <2>2. \A x \in Z : s.env[x] \in Conts => s.env[x] \in Z
    <3> SUFFICES ASSUME NEW x \in Z, s.env[x] \in Conts PROVE s.env[x] \in Z
      OBVIOUS
    <3>1. x \in Conts /\ x \in Places \cup {Nil} /\ s.env[x] \in Places \cup {Nil}
      BY <2>1, Apart
    <3>2. s.env[x] \in Enclosing(s, x)
      BY <3>1, EnclosingStep
    <3>3. Enclosing(s, x) \subseteq Enclosing(s, p)
      BY <1>3, EnclosingOn
    <3> QED BY <3>2, <3>3
  <2>3. \A x \in Z : t.env[x] = s.env[x]
    BY <1>3, <2>1, Apart
  <2>4. CASE p \in Conts
    <3>1. p \in Z
      BY <1>3, <2>4, EnclosingStep
    <3> HIDE DEF Z
    <3>2. Enclosing(t, p) \subseteq Z
      BY <1>1, <1>3, <2>2, <2>3, <3>1, EnclosingWithin
    <3> QED BY <2>1, <3>2
  <2>5. CASE p \notin Conts
    BY <1>1, <1>3, <2>5, EnclosingStep
  <2> QED BY <2>4, <2>5
<1> QED BY <1>1, <1>2, <1>3, <1>4, <1>5 DEF t

OneTold(s, t, c, w, v) ==
  \A x \in Conts :
    /\ OffWeight(t, x) = OffWeight(s, x) + IF x = c THEN w ELSE 0
    /\ OffVolume(t, x) = OffVolume(s, x) + IF x = c THEN v ELSE 0
    /\ OffWeight(s, x) \in Int /\ OffVolume(s, x) \in Int

LEMMA BookTold ==
  ASSUME NEW s, Sorted(s), NEW c \in Places \cup {Nil}, NEW w \in Int, NEW v \in Int
  PROVE  OneTold(s, Book(s, c, w, v), c, w, v)
BY BookOff DEF OneTold

\* The books after o was told to two places, first to one that it left, then to one where it is.
Told(u, e, p, d, w, v) ==
  /\ Sorted(e) /\ OnlyBooks(u, e)
  /\ \A x \in Conts :
       /\ OffWeight(e, x) = OffWeight(u, x) - (IF x = p THEN w ELSE 0) + (IF x = d THEN w ELSE 0)
       /\ OffVolume(e, x) = OffVolume(u, x) - (IF x = p THEN v ELSE 0) + (IF x = d THEN v ELSE 0)
       /\ OffWeight(u, x) \in Int /\ OffVolume(u, x) \in Int

LEMMA BothTold ==
  ASSUME NEW u, Sorted(u), NEW p \in Places \cup {Nil}, NEW d \in Places \cup {Nil}, NEW w \in Int, NEW v \in Int
  PROVE  Told(u, Book(Book(u, p, -w, -v), d, w, v), p, d, w, v)
<1> DEFINE m == -w
           n == -v
           b == Book(u, p, m, n)
           e == Book(b, d, w, v)
<1>1. m \in Int /\ n \in Int /\ (\A i \in Int : i + m = i - w) /\ \A i \in Int : i + n = i - v
  OBVIOUS
<1> HIDE DEF m, n
<1>2. Sorted(b) /\ OnlyBooks(u, b)
  BY <1>1, BookKeeps
<1>3. \A x \in Conts :
        /\ OffWeight(b, x) = OffWeight(u, x) + (IF x = p THEN m ELSE 0)
        /\ OffVolume(b, x) = OffVolume(u, x) + (IF x = p THEN n ELSE 0)
        /\ OffWeight(u, x) \in Int /\ OffVolume(u, x) \in Int
  <2>1. OneTold(u, b, p, m, n)
    BY <1>1, BookTold
  <2> QED BY <2>1 DEF OneTold
<1> HIDE DEF b
<1>4. Sorted(e) /\ OnlyBooks(b, e)
  BY <1>2, BookKeeps
<1>5. \A x \in Conts :
        /\ OffWeight(e, x) = OffWeight(b, x) + (IF x = d THEN w ELSE 0)
        /\ OffVolume(e, x) = OffVolume(b, x) + (IF x = d THEN v ELSE 0)
  <2>1. OneTold(b, e, d, w, v)
    BY <1>2, BookTold
  <2> QED BY <2>1 DEF OneTold
<1> HIDE DEF e
<1>6. OnlyBooks(u, e)
  BY <1>2, <1>4 DEF OnlyBooks, SamePlaces
<1>7. ASSUME NEW x \in Conts
      PROVE  /\ OffWeight(e, x) = OffWeight(u, x) - (IF x = p THEN w ELSE 0) + (IF x = d THEN w ELSE 0)
             /\ OffVolume(e, x) = OffVolume(u, x) - (IF x = p THEN v ELSE 0) + (IF x = d THEN v ELSE 0)
  BY <1>1, <1>3, <1>5
<1>8. Told(u, e, p, d, w, v)
  BY <1>3, <1>4, <1>6, <1>7 DEF Told
<1> QED BY <1>8 DEF e, b, m, n

\* The books say of x what they said, and o weighs what it did.
SameOff(s, t, o) ==
  /\ Sorted(t) /\ \A x \in Conts : OffWeight(t, x) = OffWeight(s, x) /\ OffVolume(t, x) = OffVolume(s, x)
  /\ QueryWeight(t, o) = QueryWeight(s, o) /\ QueryVolume(t, o) = QueryVolume(s, o)

\* move_now() without listeners keeps the books.
LEMMA MoveQuietlyOff ==
  ASSUME NEW s, Sorted(s), NEW o \in s.live, NEW d \in Places, o \notin Livings, Near(s, d), d # o,
         s.env[o] \in Places => o \in s.inv[s.env[o]]
  PROVE  SameOff(s, MoveQuietly(s, o, d), o)
<1> DEFINE t == MoveObject(s, o, d)
           w == QueryWeight(t, o)
           v == QueryVolume(t, o)
           p == s.env[o]
           b == Book(t, p, -w, -v)
           e == Book(b, d, w, v)
<1>1. /\ o \notin Enclosing(t, d) /\ o \notin Enclosing(t, p) /\ t.weight = s.weight /\ t.volume = s.volume
      /\ t.size = s.size /\ Sorted(t) /\ o \in Objs /\ p \in Places \cup {Nil}
  BY NotAround
<1>2. \A x \in Conts :
        /\ OffWeight(t, x) = OffWeight(s, x) + (IF x = p THEN QueryWeight(s, o) ELSE 0)
                                             - (IF x = d THEN QueryWeight(s, o) ELSE 0)
        /\ OffVolume(t, x) = OffVolume(s, x) + (IF x = p THEN QueryVolume(s, o) ELSE 0)
                                             - (IF x = d THEN QueryVolume(s, o) ELSE 0)
  BY MovedOff
<1>3. MoveQuietly(s, o, d) = e
  BY DEF MoveQuietly
<1> HIDE DEF t, p
<1>4. w = QueryWeight(s, o) /\ v = QueryVolume(s, o) /\ w \in Int /\ v \in Int /\ -w \in Int /\ -v \in Int
  <2>1. w = QueryWeight(s, o) /\ v = QueryVolume(s, o)
    BY <1>1, WeighsAsMuch
  <2>2. w \in Int /\ v \in Int
    BY <1>1, Weighed DEF Sorted
  <2> HIDE DEF w, v
  <2> QED BY <2>1, <2>2
<1> HIDE DEF w, v
<1>5. Told(t, e, p, d, w, v)
  <2>1. d \in Places \cup {Nil}
    OBVIOUS
  <2> QED BY <1>1, <1>4, <2>1, BothTold
<1>6. Sorted(b) /\ b.env = t.env /\ QueryWeight(b, o) = w /\ QueryVolume(b, o) = v
  BY <1>1, <1>4, BookKeeps, WeighsOn DEF OnlyBooks, SamePlaces, w, v
<1>7. o \notin Enclosing(b, d)
  BY <1>1, <1>6, SameAround
<1> HIDE DEF b
<1>8. Sorted(e) /\ QueryWeight(e, o) = w /\ QueryVolume(e, o) = v
  BY <1>1, <1>4, <1>6, <1>7, BookKeeps, WeighsOn
<1> HIDE DEF e
<1>9. ASSUME NEW x \in Conts PROVE OffWeight(e, x) = OffWeight(s, x) /\ OffVolume(e, x) = OffVolume(s, x)
  <2>1. OffWeight(s, x) \in Int /\ OffVolume(s, x) \in Int
    BY <1>1, <1>4, BookOff
  <2> QED BY <1>2, <1>4, <1>5, <2>1 DEF Told
<1> QED BY <1>3, <1>4, <1>8, <1>9 DEF SameOff

\* remove_object() of what has nothing in it.
LEMMA RemoveOne ==
  ASSUME NEW s, Sorted(s), NEW o \in Objs, o \notin Places \/ s.inv[o] = {}
  PROVE  RemoveObject(s, o) = Destructed(Book(s, s.env[o], -QueryWeight(s, o), -QueryVolume(s, o)), {o})
<1> DEFINE D == Contents(s, o)
           t == TakenOff(s, D)[D]
           b == TakeOff(s, o, s)
<1>1. s \in States
  BY DEF Sorted
<1>2. D \subseteq Objs /\ D = {o}
  BY <1>1, ContentsAre
<1> HIDE DEF D
<1>3. t = b
  BY <1>2, TakenOffKeeps
<1>4. RemoveObject(s, o) = Destructed([s EXCEPT !.weight = t.weight, !.volume = t.volume], D)
  BY DEF RemoveObject, FoldSet, MapThenFoldSet, TakeOff, TakenOff, AnyOf, D
<1> HIDE DEF t
<1>5. Sorted(b) /\ OnlyBooks(s, b)
  BY <1>1, BookAs DEF TakeOff
<1>6. Book(s, s.env[o], -QueryWeight(s, o), -QueryVolume(s, o)) = b
  BY DEF TakeOff
<1> HIDE DEF b
<1>7. [s EXCEPT !.weight = b.weight, !.volume = b.volume] = b
  BY <1>1, <1>5 DEF Sorted, States, OnlyBooks, SamePlaces
<1> QED BY <1>2, <1>3, <1>4, <1>6, <1>7

\* The books after a thing is gone that was in p.
LEMMA DestructedOff ==
  ASSUME NEW b, Sorted(b), NEW o \in Objs, o \notin Heaps, o \notin Places \/ b.inv[o] = {},
         NEW p \in Places, o \in b.inv[p], NEW x \in Conts
  PROVE  LET t == Destructed(b, {o}) IN
         /\ Sorted(t)
         /\ OffWeight(t, x) = OffWeight(b, x) + IF x = p THEN QueryWeight(b, o) ELSE 0
         /\ OffVolume(t, x) = OffVolume(b, x) + IF x = p THEN QueryVolume(b, o) ELSE 0
         /\ QueryWeight(t, o) = QueryWeight(b, o) /\ QueryVolume(t, o) = QueryVolume(b, o)
<1> DEFINE t == Destructed(b, {o})
           w == QueryWeight(b, o)
           v == QueryVolume(b, o)
<1>1. Sorted(t) /\ b \in States /\ x \in Places
  BY DestructedKeeps, Apart DEF Sorted
<1>2. /\ t.weight = b.weight /\ t.volume = b.volume
      /\ t.size = [h \in Heaps |-> IF h \in {o} THEN 0 ELSE b.size[h]]
      /\ t.inv[x] = IF x \in {o} THEN {} ELSE b.inv[x] \ {o}
  BY <1>1 DEF Destructed, States
<1>3. t.size = b.size
  BY <1>1, <1>2 DEF States
<1> HIDE DEF t
<1>4. w \in Int /\ v \in Int /\ OffWeight(b, x) \in Int /\ OffVolume(b, x) \in Int
         /\ OffWeight(t, x) \in Int /\ OffVolume(t, x) \in Int
  <2>1. Nil \in Places \cup {Nil} /\ 0 \in Int
    OBVIOUS
  <2> QED BY <1>1, <2>1, Weighed, BookOff
<1>5. QueryWeight(t, o) = w /\ QueryVolume(t, o) = v
  BY <1>2, <1>3, WeighsAsMuch
<1>6. p # o /\ (x # p => o \notin b.inv[x])
  BY <1>1 DEF Sorted, Placed
<1>7. CASE x = p
  <2>1. o \notin t.inv[x] /\ b.inv[x] = t.inv[x] \cup {o}
    BY <1>2, <1>6, <1>7
  <2>2. b.weight = t.weight /\ b.volume = t.volume /\ b.size = t.size
    BY <1>2, <1>3
  <2>3. OffWeight(b, x) = OffWeight(t, x) - QueryWeight(t, o) /\ OffVolume(b, x) = OffVolume(t, x) - QueryVolume(t, o)
    BY <1>1, <2>1, <2>2, OneComes
  <2> HIDE DEF w, v
  <2> QED BY <1>1, <1>4, <1>5, <1>7, <2>3 DEF t, w, v
<1>8. CASE x # p
  <2>1. t.inv[x] = b.inv[x]
    BY <1>1, <1>2, <1>6, <1>8
  <2>2. OffWeight(t, x) = OffWeight(b, x) /\ OffVolume(t, x) = OffVolume(b, x)
    BY <1>1, <1>2, <1>3, <2>1, NoneComes
  <2> QED BY <1>1, <1>4, <1>5, <1>8, <2>2 DEF t
<1> QED BY <1>7, <1>8

\* A thing that goes takes itself off the books.
LEMMA RemoveOff ==
  ASSUME NEW s, Sorted(s), NEW o \in Objs, o \notin Heaps, o \notin Places \/ s.inv[o] = {},
         s.env[o] \in Places, o \in s.inv[s.env[o]]
  PROVE  SameOff(s, RemoveObject(s, o), o)
<1> DEFINE p == s.env[o]
           w == QueryWeight(s, o)
           v == QueryVolume(s, o)
           m == -w
           n == -v
           b == Book(s, p, m, n)
           t == Destructed(b, {o})
<1>1. RemoveObject(s, o) = t
  BY RemoveOne
<1>2. w \in Int /\ v \in Int /\ m \in Int /\ n \in Int
  <2>1. w \in Int /\ v \in Int
    BY Weighed DEF Sorted
  <2> HIDE DEF w, v
  <2> QED BY <2>1
<1>3. p \in Places /\ p \in Places \cup {Nil} /\ o \notin Enclosing(s, p)
  <2>1. o \in Conts => o \in Places \cup {Nil}
    BY Apart
  <2>2. Enclosing(s, p) \subseteq Conts
    BY EnclosingStep
  <2> QED BY <2>1, <2>2, EnclosingStep
<1>4. (\A i \in Int : (i + m) + w = i) /\ \A i \in Int : (i + n) + v = i
  <2> HIDE DEF w, v
  <2> QED BY <1>2
<1> HIDE DEF m, n
<1>5. Sorted(b) /\ b.inv = s.inv /\ QueryWeight(b, o) = w /\ QueryVolume(b, o) = v
  BY <1>2, <1>3, BookKeeps, WeighsOn DEF OnlyBooks, SamePlaces
<1>6. OneTold(s, b, p, m, n)
  BY <1>2, <1>3, BookTold
<1> HIDE DEF b
<1>7. o \in b.inv[p] /\ (o \notin Places \/ b.inv[o] = {})
  BY <1>5
<1> HIDE DEF p
<1>8. \A x \in Conts :
        /\ Sorted(t)
        /\ OffWeight(t, x) = OffWeight(b, x) + IF x = p THEN QueryWeight(b, o) ELSE 0
        /\ OffVolume(t, x) = OffVolume(b, x) + IF x = p THEN QueryVolume(b, o) ELSE 0
        /\ QueryWeight(t, o) = QueryWeight(b, o) /\ QueryVolume(t, o) = QueryVolume(b, o)
  BY <1>3, <1>5, <1>7, DestructedOff
<1>9. Sorted(t)
  BY <1>5, DestructedKeeps
<1>10. QueryWeight(t, o) = w /\ QueryVolume(t, o) = v
  <2>1. t.weight = b.weight /\ t.volume = b.volume /\ t.size = b.size
    <3>1. t.weight = b.weight /\ t.volume = b.volume /\ t.size = [h \in Heaps |-> IF h \in {o} THEN 0 ELSE b.size[h]]
      BY <1>5 DEF Destructed, Sorted, States
    <3>2. b.size \in [Heaps -> Nat]
      BY <1>5 DEF Sorted, States
    <3> QED BY <3>1, <3>2
  <2> QED BY <1>5, <2>1, WeighsAsMuch
<1> HIDE DEF t
<1>11. \A x \in Conts : OffWeight(t, x) = OffWeight(s, x) /\ OffVolume(t, x) = OffVolume(s, x)
  <2> SUFFICES ASSUME NEW x \in Conts PROVE OffWeight(t, x) = OffWeight(s, x) /\ OffVolume(t, x) = OffVolume(s, x)
    OBVIOUS
  <2>1. /\ OffWeight(b, x) = OffWeight(s, x) + IF x = p THEN m ELSE 0
        /\ OffVolume(b, x) = OffVolume(s, x) + IF x = p THEN n ELSE 0
        /\ OffWeight(s, x) \in Int /\ OffVolume(s, x) \in Int
    BY <1>6 DEF OneTold
  <2>2. /\ OffWeight(t, x) = OffWeight(b, x) + IF x = p THEN w ELSE 0
        /\ OffVolume(t, x) = OffVolume(b, x) + IF x = p THEN v ELSE 0
    BY <1>5, <1>8
  <2> HIDE DEF w, v
  <2> QED BY <1>4, <2>1, <2>2
<1> QED BY <1>1, <1>9, <1>10, <1>11 DEF SameOff

\* What is moved is in what it went to.
LEMMA MovedStays ==
  ASSUME NEW s, Sorted(s), NEW o \in s.live, NEW d \in Places, d # o, s.env[o] = d => o \in s.inv[d]
  PROVE  o \in MoveObject(s, o, d).inv[d]
<1>1. s \in States
  BY DEF Sorted
<1>2. CASE d = s.env[o]
  BY <1>2 DEF MoveObject
<1>3. CASE d # s.env[o]
  BY <1>1, <1>3 DEF MoveObject, TakenOut, States
<1> QED BY <1>2, <1>3

\* What is not a place, or an empty one, stays so when it is moved.
LEMMA MovedIs ==
  ASSUME NEW s, Sorted(s), NEW o \in s.live, NEW d \in Places, d # o, o \notin Places \/ s.inv[o] = {}
  PROVE  o \notin Places \/ MoveObject(s, o, d).inv[o] = {}
<1>1. s \in States /\ o \in Objs
  BY DEF Sorted, States
<1>2. CASE d = s.env[o]
  BY <1>2 DEF MoveObject
<1>3. CASE d # s.env[o]
  BY <1>1, <1>3 DEF MoveObject, TakenOut, States
<1> QED BY <1>2, <1>3

\* The books of all containers say after the move what they said before.
EvenOff(s, t) == \A x \in Conts : OffWeight(t, x) = OffWeight(s, x) /\ OffVolume(t, x) = OffVolume(s, x)

\* What the listeners do to what lies in d already keeps the books, and its weight.
LEMMA ListenersOff ==
  ASSUME NEW t, Sorted(t), NEW o \in t.live, o \notin Livings, o \notin Heaps, NEW d \in Places,
         t.env[o] = d, o \in t.inv[d], NEW r \in {Nil, Gone} \cup Rooms,
         r = Gone => o \notin Places \/ t.inv[o] = {}
  PROVE  LET u == CASE r = Nil -> t
                    [] r = Gone -> RemoveObject(t, o)
                    [] OTHER -> MoveQuietly(t, o, r)
         IN  SameOff(t, u, o)
<1> DEFINE u == CASE r = Nil -> t
                  [] r = Gone -> RemoveObject(t, o)
                  [] OTHER -> MoveQuietly(t, o, r)
<1>1. o \in Objs
  BY DEF Sorted, States
<1>2. r = Nil => SameOff(t, u, o)
  <2>1. SameOff(t, t, o)
    BY DEF SameOff
  <2>2. r = Nil => u = t
    BY Apart
  <2> HIDE DEF u
  <2> QED BY <2>1, <2>2
<1>3. r = Gone => SameOff(t, u, o)
  <2>1. r = Gone => u = RemoveObject(t, o)
    BY Apart
  <2>2. r = Gone => SameOff(t, RemoveObject(t, o), o)
    BY <1>1, RemoveOff
  <2> HIDE DEF u
  <2> QED BY <2>1, <2>2
<1>4. ASSUME r \in Rooms, r # Nil, r # Gone PROVE SameOff(t, u, o)
  <2>1. u = MoveQuietly(t, o, r)
    BY <1>4
  <2>2. r \in Places /\ r # o /\ Near(t, r)
    BY <1>1, <1>4, Apart DEF Near
  <2> HIDE DEF u
  <2>3. SameOff(t, MoveQuietly(t, o, r), o)
    BY <2>2, MoveQuietlyOff
  <2> QED BY <2>1, <2>3
<1> HIDE DEF u
<1>5. SameOff(t, u, o)
  BY <1>2, <1>3, <1>4
<1> QED BY <1>5 DEF u

\* move_now() keeps the books, whatever the listeners do: they put right what was wrong only
\* because of where the object is now, and the two calls at the end what was wrong because it
\* was moved.
LEMMA MoveNowOff ==
  ASSUME NEW s, Sorted(s), NEW o \in s.live, o \notin Livings, o \notin Heaps,
         NEW d \in Places, Near(s, d), d # o, s.env[o] \in Places, o \in s.inv[s.env[o]],
         NEW r \in {Nil, Gone} \cup Rooms, r = Gone => o \notin Places \/ s.inv[o] = {}
  PROVE  \A n \in MoveNow(s, o, d, r) : EvenOff(s, n)
<1> DEFINE t == MoveObject(s, o, d)
           from == s.env[o]
           u == CASE r = Nil -> t
                  [] r = Gone -> RemoveObject(t, o)
                  [] OTHER -> MoveQuietly(t, o, r)
           w == QueryWeight(u, o)
           v == QueryVolume(u, o)
           e == Book(Book(u, from, -w, -v), d, w, v)
<1>1. MoveNow(s, o, d, r) = {e}
  BY DEF MoveNow
<1>2. /\ t.env[o] = d /\ t.weight = s.weight /\ t.volume = s.volume /\ t.size = s.size
      /\ o \in t.live /\ Sorted(t) /\ o \in Objs
  BY NotAround
<1>3. o \in t.inv[d]
  BY <1>2, MovedStays
<1>4. r = Gone => o \notin Places \/ t.inv[o] = {}
  BY MovedIs
<1>5. \A x \in Conts :
        /\ OffWeight(t, x) = OffWeight(s, x) + (IF x = from THEN QueryWeight(s, o) ELSE 0)
                                             - (IF x = d THEN QueryWeight(s, o) ELSE 0)
        /\ OffVolume(t, x) = OffVolume(s, x) + (IF x = from THEN QueryVolume(s, o) ELSE 0)
                                             - (IF x = d THEN QueryVolume(s, o) ELSE 0)
  BY MovedOff
<1> HIDE DEF t
<1>6. SameOff(t, u, o)
  BY <1>2, <1>3, <1>4, ListenersOff
<1> HIDE DEF u
<1>7. w = QueryWeight(s, o) /\ v = QueryVolume(s, o) /\ w \in Int /\ v \in Int /\ Sorted(u)
  <2>1. QueryWeight(t, o) = QueryWeight(s, o) /\ QueryVolume(t, o) = QueryVolume(s, o)
    BY <1>2, WeighsAsMuch
  <2>2. QueryWeight(s, o) \in Int /\ QueryVolume(s, o) \in Int
    BY <1>2, Weighed DEF Sorted
  <2> QED BY <1>6, <2>1, <2>2 DEF SameOff
<1> HIDE DEF w, v
<1>8. Told(u, e, from, d, w, v)
  <2>1. d \in Places \cup {Nil} /\ from \in Places \cup {Nil}
    OBVIOUS
  <2> HIDE DEF from
  <2> QED BY <1>7, <2>1, BothTold
<1> HIDE DEF e, from
<1>9. ASSUME NEW x \in Conts PROVE OffWeight(e, x) = OffWeight(s, x) /\ OffVolume(e, x) = OffVolume(s, x)
  <2>1. OffWeight(s, x) \in Int /\ OffVolume(s, x) \in Int
    <3>1. Nil \in Places \cup {Nil} /\ 0 \in Int
      OBVIOUS
    <3> QED BY <3>1, BookOff
  <2>2. OffWeight(u, x) = OffWeight(t, x) /\ OffVolume(u, x) = OffVolume(t, x)
    BY <1>6 DEF SameOff
  <2>3. /\ OffWeight(e, x) = OffWeight(u, x) - (IF x = from THEN w ELSE 0) + (IF x = d THEN w ELSE 0)
        /\ OffVolume(e, x) = OffVolume(u, x) - (IF x = from THEN v ELSE 0) + (IF x = d THEN v ELSE 0)
    BY <1>8 DEF Told
  <2>4. /\ OffWeight(t, x) = OffWeight(s, x) + (IF x = from THEN w ELSE 0) - (IF x = d THEN w ELSE 0)
        /\ OffVolume(t, x) = OffVolume(s, x) + (IF x = from THEN v ELSE 0) - (IF x = d THEN v ELSE 0)
    BY <1>5, <1>7
  <2> QED BY <1>7, <2>1, <2>2, <2>3, <2>4
<1>10. EvenOff(s, e)
  BY <1>9 DEF EvenOff
<1> QED BY <1>1, <1>10

LEMMA ThingsAre ==
  ASSUME NEW o \in Things \cup Bags
  PROVE  o \in Objs /\ o \notin Heaps /\ o \notin Livings /\ (o \in Things => o \notin Places)
BY InventoryAssumption DEF Objs, Conts, Places

LEMMA OffTheBooks ==
  ASSUME NEW s, Sorted(s), Leaves(s), EvenOff(Held, s), NEW c \in Conts
  PROVE  WeightOff(c)' = WeightOff(c) /\ VolumeOff(c)' = VolumeOff(c)
<1>1. s = [env |-> s.env, inv |-> s.inv, att |-> s.att, weight |-> s.weight,
           volume |-> s.volume, size |-> s.size, live |-> s.live, dying |-> s.dying]
  BY DEF Sorted, States
<1>2. Held' = s
  BY <1>1 DEF Leaves, Held
<1>3. /\ Held.weight = weight /\ Held.volume = volume /\ Held.inv = inv /\ Held.att = att
      /\ s.weight = weight' /\ s.volume = volume' /\ s.inv = inv' /\ s.att = att'
  BY DEF Leaves, Held
<1>4. WeightOff(c) = OffWeight(Held, c) /\ VolumeOff(c) = OffVolume(Held, c)
  BY <1>3 DEF WeightOff, VolumeOff, OffWeight, OffVolume
<1>5. WeightOff(c)' = OffWeight(s, c) /\ VolumeOff(c)' = OffVolume(s, c)
  BY <1>2, <1>3 DEF WeightOff, VolumeOff, OffWeight, OffVolume
<1> QED BY <1>4, <1>5 DEF EvenOff

LEMMA MoveCmdOff ==
  ASSUME Sorted(Held), NEW o \in Things \cup Bags, o \in live, NEW d \in Rooms \cup Conts, Near(Held, d),
         d # o, env[o] \in Places, o \in inv[env[o]], NEW k, NEW r \in Listening(o), MoveCmd(o, d, k, r),
         NEW c \in Conts
  PROVE  WeightOff(c)' = WeightOff(c) /\ VolumeOff(c)' = VolumeOff(c)
<1>1. d \in Places /\ Held.live = live /\ Held.env = env /\ Held.inv = inv
  BY SortedMeans, Apart DEF Places
<1>2. o \in Objs /\ o \notin Heaps /\ o \notin Livings /\ (o \in Things => o \notin Places)
  BY ThingsAre
<1>3. r \in {Nil, Gone} \cup Rooms /\ (r = Gone => o \notin Places \/ inv[o] = {})
  BY <1>2, Apart DEF Listening
<1>4. PICK s : Leaves(s) /\ (s = Held \/ s \in MoveNow(Held, o, d, r))
  BY <1>2 DEF MoveCmd
<1>5. Sorted(s)
  BY <1>1, <1>2, <1>3, <1>4, MoveNowKeeps
<1>6. EvenOff(Held, s)
  <2>1. CASE s = Held
    BY <2>1 DEF EvenOff
  <2>2. CASE s \in MoveNow(Held, o, d, r)
    BY <1>1, <1>2, <1>3, <2>2, MoveNowOff
  <2> QED BY <1>4, <2>1, <2>2
<1> QED BY <1>4, <1>5, <1>6, OffTheBooks

\* The commands that move what is neither a heap nor attached.
LEMMA MovingOff ==
  ASSUME Sorted(Held), NEW o \in (Things \cup Bags) \ UNION {att[p] : p \in Places}, Moving(o), NEW x \in Conts
  PROVE  WeightOff(x)' = WeightOff(x) /\ VolumeOff(x)' = VolumeOff(x)
<1>1. PICK p \in Livings, k \in IF o \in Heaps THEN 1 .. size[o] ELSE {1}, r \in Listening(o) :
        \/ \E c \in Places : Get(p, o, c, k, r)
        \/ \E c \in Bags : Put(p, o, c, k, r)
        \/ Drop(p, o, k, r)
  BY DEF Moving
<1>2. o \in Objs /\ o \notin Livings /\ \A c \in Places : o \notin att[c]
  BY ThingsAre
<1>3. p \in Places /\ p \in Conts /\ p \in Rooms \cup Conts /\ Here \in Rooms \cup Conts /\ Here \in Places
      /\ Here \in Rooms /\ Here # o /\ p # o
  BY <1>2, Apart
<1>4. \A c \in Places : o \in inv[c] => o \in live /\ env[o] \in Places /\ o \in inv[env[o]]
  BY <1>2, SortedMeans
<1>5. CASE \E c \in Places : Get(p, o, c, k, r)
  <2>1. PICK c \in Places : Get(p, o, c, k, r)
    BY <1>5
  <2>2. o \in inv[c] /\ MoveCmd(o, p, k, r)
    BY <1>2, <2>1 DEF Get
  <2>3. Near(Held, p)
    BY DEF Near
  <2> QED BY <1>3, <1>4, <2>2, <2>3, MoveCmdOff
<1>6. CASE \E c \in Bags : Put(p, o, c, k, r)
  <2>1. PICK c \in Bags : Put(p, o, c, k, r)
    BY <1>6
  <2>2. o \in inv[p] /\ MoveCmd(o, c, k, r) /\ c # o /\ c \in inv[p] \cup inv[Here]
    BY <2>1 DEF Put, InReach
  <2>3. c \in Objs /\ c \in Conts
    BY Apart
  <2>4. Held.env[c] \in {p, Here}
    BY <1>3, <2>2, <2>3, SortedMeans
  <2>5. Near(Held, c)
    BY <1>3, <2>3, <2>4 DEF Near
  <2> QED BY <1>3, <1>4, <2>2, <2>3, <2>5, MoveCmdOff
<1>7. CASE Drop(p, o, k, r)
  <2>1. o \in inv[p] /\ MoveCmd(o, Here, k, r)
    BY <1>7 DEF Drop
  <2>2. Near(Held, Here)
    BY <1>3 DEF Near
  <2> QED BY <1>3, <1>4, <2>1, <2>2, MoveCmdOff
<1> QED BY <1>1, <1>5, <1>6, <1>7

\* Whatever is moved, but a heap or what is attached, the books of every container are off by
\* what they were off before, even if a listener moves it on or removes it in the middle
\* (move_now()).
THEOREM BooksAlwaysKept == Spec => BooksKept
<1> DEFINE Kept == (\E c \in Conts \cap live : WeightOff(c)' # WeightOff(c) \/ VolumeOff(c)' # VolumeOff(c)) =>
                     ~\E o \in (Things \cup Bags) \ UNION {att[p] : p \in Places} : Moving(o)
<1>1. ASSUME Sorted(Held), [Next]_iVars
      PROVE  [Kept]_iVars
  BY <1>1, MovingOff
<1> QED BY <1>1, AlwaysSorted, PTL DEF Spec, BooksKept
=============================================================================
