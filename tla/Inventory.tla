----------------------------- MODULE Inventory -----------------------------
(***************************************************************************)
(* What is where, and what it weighs.                                      *)
(*                                                                         *)
(* An object knows what it is in (environment, base/object.c); a room, a   *)
(* living, a container or a belt knows what is in it or attached to it     *)
(* (system/inventory.c).  Containers and livings do not add up what they   *)
(* carry: they keep books (cont_cur_weight, cont_cur_volume of             *)
(* base/container.c) that every move, split, merge and removal has to      *)
(* correct by calls of update_internal().  Heaps (base/heap.c) are objects *)
(* that stand for several units: moving a part of one clones it, and       *)
(* moving it to another of its kind merges the two.                        *)
(*                                                                         *)
(* An operator on a state s that stands for a call yields the state after  *)
(* the call, or the set of those it may leave.  Every action is one task.  *)
(***************************************************************************)
EXTENDS Integers, FiniteSets, FiniteSetsExt

CONSTANTS
  Rooms,       \* rooms: they keep no books of weight and volume
  Here,        \* the room the players are in
  Livings,     \* players
  Bags,        \* containers that can be carried
  Belts,       \* objects with attach slots; they are no containers
  Things,      \* other objects
  Heaps,       \* heap objects, all of one kind; one that is gone may be used again
  Nil,         \* the LPC value nil
  Gone,        \* stands for a listener that removes what was moved
  OwnWeight,   \* obj_weight, of a heap that of a unit
  OwnVolume,   \* obj_volume, the same
  MaxWeight,   \* cont_max_weight
  MaxVolume,   \* cont_max_volume
  Rigid,       \* containers with the property CONT_RIGID
  Attachable,  \* objects with the property OBJ_ATTACH_SIZE
  MaxUnits     \* bound: units of all heaps together

Conts == Livings \cup Bags
Places == Rooms \cup Conts \cup Belts
Objs == Conts \cup Belts \cup Things \cup Heaps

ASSUME InventoryAssumption ==
  /\ IsFiniteSet(Objs) /\ Here \in Rooms
  /\ Livings \cap (Bags \cup Belts \cup Things \cup Heaps) = {}
  /\ Bags \cap (Belts \cup Things \cup Heaps) = {}
  /\ Belts \cap (Things \cup Heaps) = {} /\ Things \cap Heaps = {}
  /\ Rooms \cap Objs = {} /\ {Nil, Gone} \cap (Rooms \cup Objs) = {} /\ Nil # Gone
  /\ OwnWeight \in [Objs -> Nat] /\ OwnVolume \in [Objs -> Nat]
  /\ MaxWeight \in [Conts -> Nat] /\ MaxVolume \in [Conts -> Nat]
  /\ Rigid \subseteq Bags /\ Attachable \subseteq Bags \cup Things
  /\ MaxUnits \in Nat

VARIABLES
  env,     \* environment of every object
  inv,     \* what is in a place: liv_inv, obj_inv and heap_inv together
  att,     \* what is attached to it: attach_inv
  weight,  \* cont_cur_weight
  volume,  \* cont_cur_volume
  size,    \* heap_size
  live,    \* the objects that exist
  dying    \* heaps with a pending call_out of remove_object()

iVars == <<env, inv, att, weight, volume, size, live, dying>>

Held == [env |-> env, inv |-> inv, att |-> att, weight |-> weight, volume |-> volume,
         size |-> size, live |-> live, dying |-> dying]

\* The task leaves the state s.
Leaves(s) ==
  /\ env' = s.env /\ inv' = s.inv /\ att' = s.att
  /\ weight' = s.weight /\ volume' = s.volume
  /\ size' = s.size /\ live' = s.live /\ dying' = s.dying

(***************************************************************************)
(* Weight and volume.                                                      *)
(***************************************************************************)

QueryWeight(s, o) ==
  IF o \in Heaps THEN OwnWeight[o] * s.size[o]
  ELSE OwnWeight[o] + (IF o \in Conts THEN s.weight[o] ELSE 0)

QueryVolume(s, o) ==
  IF o \in Heaps THEN OwnVolume[o] * s.size[o]
  ELSE IF o \in Rigid THEN MaxVolume[o]
  ELSE OwnVolume[o] + (IF o \in Conts THEN s.volume[o] ELSE 0)

WeightLeft(s, c) == MaxWeight[c] - QueryWeight(s, c)
VolumeLeft(s, c) == MaxVolume[c] - (OwnVolume[c] + s.volume[c])

\* The containers update_internal() passes through, from c outwards.
Enclosing(s, c) ==
  LET up[k \in 0 .. Cardinality(Objs)] ==
        IF k = 0 THEN c ELSE IF up[k - 1] \in Conts THEN s.env[up[k - 1]] ELSE Nil
  IN  {up[k] : k \in 0 .. Cardinality(Objs)} \cap Conts

\* update_internal() of c, and of what c is in; volume does not get out of a
\* rigid container.  Whatever is not a container does not have the function.
Book(s, c, w, v) ==
  LET all == Enclosing(s, c)
      inRigid(x) == \E r \in (Rigid \cap all) \ {x} : x \in Enclosing(s, r)
  IN  [s EXCEPT !.weight = [x \in Conts |-> s.weight[x] + IF x \in all THEN w ELSE 0],
                !.volume = [x \in Conts |-> s.volume[x] +
                             IF x \in all /\ ~inRigid(x) THEN v ELSE 0]]

(***************************************************************************)
(* Moving and removing.                                                    *)
(***************************************************************************)

\* _F_rm_inv() of the environment, if there is one.
TakenOut(s, o) ==
  [s EXCEPT !.inv = [p \in Places |-> IF p = s.env[o] THEN s.inv[p] \ {o} ELSE s.inv[p]],
            !.att = [p \in Places |-> IF p = s.env[o] THEN s.att[p] \ {o} ELSE s.att[p]]]

\* Mutant: an object that was attached stays on the list of attached objects.
MoveObjectKeeps(s, o, d) ==
  IF d \in {o, s.env[o]} THEN s
  ELSE [s EXCEPT !.inv = [p \in Places |-> IF p = s.env[o] THEN s.inv[p] \ {o}
                                           ELSE s.inv[p] \cup (IF p = d THEN {o} ELSE {})],
                 !.env = [s.env EXCEPT ![o] = d]]

\* move_object(); into itself is an error.
MoveObject(s, o, d) ==
  IF d \in {o, s.env[o]} THEN s
  ELSE LET t == TakenOut(s, o) IN
       [t EXCEPT !.env = [t.env EXCEPT ![o] = d],
                 !.inv = [t.inv EXCEPT ![d] = t.inv[d] \cup {o}]]

AttachObject(s, o, d) ==
  LET t == TakenOut(s, o) IN
  [t EXCEPT !.env = [t.env EXCEPT ![o] = d],
            !.att = [t.att EXCEPT ![d] = t.att[d] \cup {o}]]

\* destruct_object(): what is in a destructed object, or attached to it, is
\* nowhere.
Destructed(s, D) ==
  [s EXCEPT !.live  = s.live \ D,
            !.env   = [o \in Objs |-> IF o \in D \/ s.env[o] \in D THEN Nil ELSE s.env[o]],
            !.inv   = [p \in Places |-> IF p \in D THEN {} ELSE s.inv[p] \ D],
            !.att   = [p \in Places |-> IF p \in D THEN {} ELSE s.att[p] \ D],
            !.size  = [h \in Heaps |-> IF h \in D THEN 0 ELSE s.size[h]],
            !.dying = s.dying \ D]

\* What remove_object() of o removes: o and everything in it, at any depth, but
\* nothing attached.
Contents(s, o) ==
  LET within[k \in 0 .. Cardinality(Objs)] ==
        IF k = 0 THEN {o}
        ELSE UNION {D \cup UNION {s.inv[p] : p \in D \cap Places} : D \in {within[k - 1]}}
  IN  within[Cardinality(Objs)]

\* remove_object(): each object takes itself off the books of what it is in,
\* and is destructed after its contents have done the same.
RemoveObject(s, o) ==
  LET D == Contents(s, o)
      off(x, t) == Book(t, s.env[x], -QueryWeight(s, x), -QueryVolume(s, x))
      t == FoldSet(off, s, D)
  IN  Destructed([s EXCEPT !.weight = t.weight, !.volume = t.volume], D)

\* Mutant: the new place is told first, and about what is left by then.
MoveNowLate(s, o, d, then) ==
  LET from == s.env[o]
      t == Book(MoveObject(s, o, d), d, QueryWeight(s, o), QueryVolume(s, o))
  IN  IF then = Nil THEN {Book(t, from, -QueryWeight(t, o), -QueryVolume(t, o))}
      ELSE {Book(MoveObject(t, o, then), from, -QueryWeight(t, o), -QueryVolume(t, o))}

\* move_now() without listeners.
MoveQuietly(s, o, d) ==
  LET t == MoveObject(s, o, d) IN
  Book(Book(t, s.env[o], -QueryWeight(t, o), -QueryVolume(t, o)),
       d, QueryWeight(t, o), QueryVolume(t, o))

\* move_now(): the listeners of the events are called while the object is there
\* already and the books still say that it is not.  One of them may move it on
\* to another room, or remove it.
MoveNow(s, o, d, then) ==
  LET from == s.env[o]
      t == MoveObject(s, o, d)
      u == CASE then = Nil -> t
             [] then = Gone -> RemoveObject(t, o)
             [] OTHER -> MoveQuietly(t, o, then)
  IN  {Book(Book(u, from, -QueryWeight(u, o), -QueryVolume(u, o)),
            d, QueryWeight(u, o), QueryVolume(u, o))}

\* What listeners may do to an object that is moved.
Listening(o) ==
  IF o \in Heaps THEN {Nil}
  ELSE {Nil} \cup Rooms \cup (IF o \in Things \/ inv[o] = {} THEN {Gone} ELSE {})

\* move() of anything but a heap; moving inside an object changes nothing.
MoveFits(s, o, d) ==
  \/ d \in Rooms
  \/ d \in Conts /\ o \notin Livings
     /\ QueryWeight(s, o) <= WeightLeft(s, d) /\ QueryVolume(s, o) <= VolumeLeft(s, d)

(***************************************************************************)
(* Heaps.                                                                  *)
(***************************************************************************)

\* set_heap_size(): an empty heap is kept until the task is over, and removed
\* by a call_out.
SetSize(s, h, n) ==
  IF n <= 0 THEN [s EXCEPT !.size = [s.size EXCEPT ![h] = 0], !.dying = s.dying \cup {h}]
  ELSE LET t == Book(s, s.env[h], OwnWeight[h] * (n - s.size[h]),
                     OwnVolume[h] * (n - s.size[h]))
       IN  [t EXCEPT !.size = [t.size EXCEPT ![h] = n]]

\* The units move_heap() moves of h when k were asked for: as many as fit, if not
\* all of h does.
Portion(s, h, d, k) ==
  LET rw == WeightLeft(s, d)
      rv == VolumeLeft(s, d)
      sw == IF rw < QueryWeight(s, h) THEN rw \div OwnWeight[h] ELSE 0
      sv == IF rv < QueryVolume(s, h) THEN rv \div OwnVolume[h] ELSE 0
      n  == IF d \in Rooms THEN k
            ELSE IF sw # 0 /\ (sw < sv \/ sv = 0) THEN sw
            ELSE IF sv # 0 THEN sv ELSE k
  IN  IF n < s.size[h] THEN n ELSE s.size[h]

\* At least a unit fits; it is not looked at whether weight and volume agree.
HeapFits(s, h, d) ==
  \/ d \in Rooms
  \/ /\ d \in Conts
     /\ WeightLeft(s, d) >= QueryWeight(s, h) \/ WeightLeft(s, d) >= OwnWeight[h]
     /\ VolumeLeft(s, d) >= QueryVolume(s, h) \/ VolumeLeft(s, d) >= OwnVolume[h]

\* Mutant: the heap that is merged with keeps its units.
MergeWholeTwice(s, h, q, d) == {MoveObject(SetSize(s, h, s.size[h] + s.size[q]), h, d)}

\* All of h goes to d, where q is.
MergeWhole(s, h, q, d) ==
  {RemoveObject(MoveObject(SetSize(s, h, s.size[h] + s.size[q]), h, d), q)}

\* n units of h go to q.
MergePart(s, h, q, n) == {SetSize(SetSize(s, q, s.size[q] + n), h, s.size[h] - n)}

\* n units of h go to d as a heap of their own, a new clone; moving it does not
\* change any books.
Clone(s, h, d, n) ==
  {MoveObject([t EXCEPT !.live = t.live \cup {c}, !.size = [t.size EXCEPT ![c] = n]], c, d) :
     c \in Heaps \ s.live, t \in {SetSize(s, h, s.size[h] - n)}}

\* move_heap() of k units of h, with the heap that heap_search_equal() finds at
\* d; in a room heaps that lie apart are not equal.
MoveHeap(s, h, d, k) ==
  LET n == Portion(s, h, d, k)
      found == (s.inv[d] \cap Heaps) \ {h}
      merged == UNION {IF n = s.size[h] THEN MergeWhole(s, h, q, d)
                       ELSE MergePart(s, h, q, n) : q \in found}
      alone == IF n = s.size[h] THEN MoveNow(s, h, d, Nil) ELSE Clone(s, h, d, n)
  IN  IF ~HeapFits(s, h, d) THEN {s}
      ELSE merged \cup (IF found = {} \/ d \in Rooms THEN alone ELSE {})

(***************************************************************************)
(* The tasks.                                                              *)
(***************************************************************************)

Units == SumFunction(size)

\* Everything lies in the room; there are no heaps yet.
InventoryInit ==
  /\ live = Objs \ Heaps
  /\ env = [o \in Objs |-> IF o \in Heaps THEN Nil ELSE Here]
  /\ inv = [p \in Places |-> IF p = Here THEN Objs \ Heaps ELSE {}]
  /\ att = [p \in Places |-> {}]
  /\ weight = [c \in Conts |-> 0] /\ volume = [c \in Conts |-> 0]
  /\ size = [h \in Heaps |-> 0]
  /\ dying = {}

\* What a player finds to put things into or take them from.
InReach(p) == inv[p] \cup (inv[Here] \ Livings)

\* move() of o, of k units if it is a heap, with listeners that may do r.
MoveCmd(o, d, k, r) ==
  \E s \in (IF o \in Heaps THEN MoveHeap(Held, o, d, k)
            ELSE IF MoveFits(Held, o, d) THEN MoveNow(Held, o, d, r) ELSE {Held}) :
    Leaves(s)

\* The command 'get', from the room, out of a container or off a hook.
Get(p, o, c, k, r) ==
  /\ c \in {Here} \cup (InReach(p) \cap Places)
  /\ o \in (inv[c] \cup att[c]) \ Livings
  /\ MoveCmd(o, p, k, r)

\* The command 'drop'.
Drop(p, o, k, r) == o \in inv[p] /\ MoveCmd(o, Here, k, r)

\* Mutant: what the container is in is not looked at.
PutDeep(p, o, c, k, r) ==
  /\ o \in inv[p] /\ c \in (Contents(Held, p) \cap Bags) \ {o}
  /\ MoveCmd(o, c, k, r)

\* The command 'put'.
Put(p, o, c, k, r) ==
  /\ o \in inv[p] /\ c \in (InReach(p) \cap Bags) \ {o}
  /\ MoveCmd(o, c, k, r)

\* The command 'attach'.  What is attached adds no volume; a belt keeps no
\* books.
Attach(p, o, c) ==
  /\ o \in inv[p] \cap Attachable /\ c \in InReach(p) \cap Belts
  /\ LET s == AttachObject(Held, o, c) IN
     Leaves(Book(Book(s, p, -QueryWeight(s, o), -QueryVolume(s, o)), c, QueryWeight(s, o), 0))

\* make_coins(): a new heap is moved to d; if it does not fit it is nowhere.
MakeCoins(h, d, n) ==
  /\ h \notin live /\ d \in Rooms \cup Livings /\ Units + n <= MaxUnits
  /\ \E s \in MoveHeap([Held EXCEPT !.live = live \cup {h},
                                    !.size = [size EXCEPT ![h] = n]], h, d, n) : Leaves(s)

\* k units are used up: eaten, paid, worked into something.
UseUp(p, h, k) ==
  /\ h \in inv[p] \cap Heaps /\ k <= size[h]
  /\ Leaves(SetSize(Held, h, size[h] - k))

\* The call_out of set_heap_size().
RemoveEmpty(h) == h \in dying /\ Leaves(RemoveObject(Held, h))

\* Code removes an object for good: burnt, broken, sold.
Destroy(o) == o \in live \ Livings /\ Leaves(RemoveObject(Held, o))

\* The commands that move o; units are asked for of a heap.
Moving(o) ==
  \E p \in Livings, k \in IF o \in Heaps THEN 1 .. size[o] ELSE {1}, r \in Listening(o) :
    \/ \E c \in Places : Get(p, o, c, k, r)
    \/ \E c \in Bags : Put(p, o, c, k, r)
    \/ Drop(p, o, k, r)

Next ==
  \/ \E o \in live : Moving(o)
  \/ \E p \in Livings, o \in Attachable, c \in Belts : Attach(p, o, c)
  \/ \E h \in Heaps, k \in 1 .. MaxUnits :
       \/ \E d \in Rooms \cup Livings : MakeCoins(h, d, k)
       \/ \E p \in Livings : UseUp(p, h, k)
  \/ \E h \in Heaps : RemoveEmpty(h)
  \/ \E o \in Objs : Destroy(o)

Spec == InventoryInit /\ [][Next]_iVars

(***************************************************************************)
(* Properties.                                                             *)
(***************************************************************************)

\* An object that exists is in a place exactly if the place has it in its
\* inventory or among what is attached, and never both; what does not exist is
\* nowhere.  A heap without units has its call_out (set_heap_size()).
InventoryTypeOK ==
  /\ env \in [Objs -> Places \cup {Nil}] /\ live \subseteq Objs
  /\ inv \in [Places -> SUBSET live] /\ att \in [Places -> SUBSET live]
  /\ \A p \in Places, o \in Objs : env[o] = p <=> o \in inv[p] \cup att[p]
  /\ \A p \in Places : inv[p] \cap att[p] = {}
  /\ weight \in [Conts -> Int] /\ volume \in [Conts -> Int]
  /\ size \in [Heaps -> Nat] /\ dying \subseteq live \cap Heaps
  /\ \A h \in live \cap Heaps : size[h] = 0 => h \in dying

\* Nothing is in itself or hangs on itself, at any depth, so that
\* update_internal() and the removal of contents come to an end: of any objects
\* one is outside all others (put(), attach(), move_object()).
Rooted ==
  \A D \in SUBSET (Conts \cup Belts) : D = {} \/ \E o \in D : env[o] \notin D

\* Moving heaps neither makes nor loses units, however they are split and merged
\* (move_heap()).
MovesKeepUnits == [][Units' # Units => ~\E h \in Heaps : Moving(h)]_iVars

\* What the books of a container are off.
WeightOff(c) ==
  weight[c] - SumFunction([o \in inv[c] \cup att[c] |-> QueryWeight(Held, o)])
VolumeOff(c) == volume[c] - SumFunction([o \in inv[c] |-> QueryVolume(Held, o)])

\* Moving an object that is neither a heap nor attached to anything keeps the
\* books right, of every container around where it comes from and where it goes,
\* even if a listener moves it on or removes it in the middle (move_now()).
BooksKept ==
  [][(\E c \in Conts \cap live : WeightOff(c)' # WeightOff(c) \/ VolumeOff(c)' # VolumeOff(c)) =>
       ~\E o \in (Things \cup Bags) \ UNION {att[p] : p \in Places} : Moving(o)]_iVars

\* query_internal_weight() returns the weight of the items in the container.
BooksRight == \A c \in Conts \cap live : WeightOff(c) = 0
=============================================================================
