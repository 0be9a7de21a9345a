------------------------- MODULE ObjectChainProofs -------------------------
(***************************************************************************)
(* The two references of neighbours agree in every reachable state of      *)
(* ObjectChain, for any objects and even across reloads of the driver      *)
(* object.  TwoWay is not inductive alone: inserting behind the last       *)
(* object keeps it only because nothing follows that object (EndIsEnd) and *)
(* the new object is not linked yet (DeadUnlinked).  On top of it, the     *)
(* garbage collector that walks the chain takes nothing that is used, and  *)
(* the chain implements the list of objects of ObjectList.                 *)
(***************************************************************************)
EXTENDS Garbage, SetInduction, SequenceTheorems, FunctionTheorems

LinkInv(c, alive) ==
  /\ c \in ChainType
  /\ \A a, b \in Objs : c.next[a] = b <=> c.prev[b] = a
  /\ c.dprev # Nil => c.next[c.dprev] = Nil
  /\ \A o \in Objs \ alive : c.prev[o] = Nil /\ c.next[o] = Nil
  /\ \A o \in Objs : c.prev[o] \in alive \cup {Nil} /\ c.next[o] \in alive \cup {Nil}
  /\ c.dprev \in alive \cup {Nil}
  /\ c.dnext \in alive \cup {Nil}

\* do_insert() of an object that is not linked yet keeps the chain in order.
LEMMA InsertKeeps ==
  ASSUME NEW c, NEW alive \in SUBSET Objs, LinkInv(c, alive),
         NEW o \in Objs \ alive
  PROVE  LinkInv(DoInsert(c, o), alive \cup {o})
<1> USE ChainAssumption
<1> DEFINE d == DoInsert(c, o)
<1>1. /\ c.prev \in [Objs -> Objs \cup {Nil}]
      /\ c.next \in [Objs -> Objs \cup {Nil}]
      /\ c.dprev \in alive \cup {Nil}
      /\ c.dnext \in alive \cup {Nil}
  BY DEF LinkInv, ChainType
<1>2. d \in ChainType
  BY <1>1 DEF DoInsert, ChainType
<1>3. d.dprev = o /\ d.dnext = c.dnext
  BY DEF DoInsert
<1>4. CASE c.dprev = Nil
  <2>1. d.prev = c.prev /\ d.next = c.next
    BY <1>4 DEF DoInsert
  <2> HIDE DEF d
  <2> QED BY <1>1, <1>2, <1>3, <2>1 DEF LinkInv, d
<1>5. CASE c.dprev # Nil
  <2>1. /\ d.prev = [c.prev EXCEPT ![o] = c.dprev]
        /\ d.next = [c.next EXCEPT ![c.dprev] = o]
    BY <1>5 DEF DoInsert
  <2> HIDE DEF d
  <2>2. c.dprev \in Objs /\ c.dprev # o /\ c.next[c.dprev] = Nil
    BY <1>1, <1>5 DEF LinkInv
  <2>3. c.prev[o] = Nil /\ c.next[o] = Nil
    BY DEF LinkInv
  <2>4. \A a, b \in Objs : d.next[a] = b <=> d.prev[b] = a
    BY <1>1, <2>1, <2>2, <2>3 DEF LinkInv
  <2>5. d.next[d.dprev] = Nil
    BY <1>1, <1>3, <2>1, <2>2, <2>3
  <2>6. \A p \in Objs \ (alive \cup {o}) : d.prev[p] = Nil /\ d.next[p] = Nil
    BY <1>1, <1>5, <2>1, <2>2 DEF LinkInv
  <2>7. \A p \in Objs : /\ d.prev[p] \in alive \cup {o} \cup {Nil}
                        /\ d.next[p] \in alive \cup {o} \cup {Nil}
    BY <1>1, <2>1 DEF LinkInv
  <2>8. d.dprev \in alive \cup {o} \cup {Nil} /\ d.dnext \in alive \cup {o} \cup {Nil}
    BY <1>1, <1>3
  <2> QED BY <1>2, <2>4, <2>5, <2>6, <2>7, <2>8 DEF LinkInv, d
<1> QED BY <1>4, <1>5

\* Unlinking an object and destructing it keeps the chain in order.
LEMMA DeleteKeeps ==
  ASSUME NEW c, NEW alive \in SUBSET Objs, LinkInv(c, alive), NEW o \in alive
  PROVE  LinkInv(Forget(DoDelete(c, o), o), alive \ {o})
<1> USE ChainAssumption
<1> DEFINE m == DoDelete(c, o)
           d == Forget(m, o)
<1>1. /\ c.prev \in [Objs -> Objs \cup {Nil}]
      /\ c.next \in [Objs -> Objs \cup {Nil}]
      /\ c.dprev \in alive \cup {Nil}
      /\ c.dnext \in alive \cup {Nil}
  BY DEF LinkInv, ChainType
<1>2. /\ d.prev = [p \in Objs |-> IF p = o \/ m.prev[p] = o THEN Nil ELSE m.prev[p]]
      /\ d.next = [p \in Objs |-> IF p = o \/ m.next[p] = o THEN Nil ELSE m.next[p]]
      /\ d.dprev = (IF m.dprev = o THEN Nil ELSE m.dprev)
      /\ d.dnext = (IF m.dnext = o THEN Nil ELSE m.dnext)
      /\ d = [prev |-> d.prev, next |-> d.next, dprev |-> d.dprev, dnext |-> d.dnext]
  BY DEF Forget
<1> HIDE DEF d
<1>3. CASE IsMiddle(c, o)
  <2>1. /\ m.next = [c.next EXCEPT ![c.prev[o]] = c.next[o]]
        /\ m.prev = [c.prev EXCEPT ![c.next[o]] = c.prev[o]]
        /\ m.dprev = c.dprev /\ m.dnext = c.dnext
    BY <1>3 DEF DoDelete, Bridged
  <2> HIDE DEF m
  <2>2. c.prev[o] \in Objs /\ c.next[o] \in Objs /\ c.dprev # o
    BY <1>1, <1>3 DEF IsMiddle
  <2>3. /\ d.prev \in [Objs -> Objs \cup {Nil}]
        /\ d.next \in [Objs -> Objs \cup {Nil}]
        /\ d.dprev \in (alive \ {o}) \cup {Nil}
        /\ d.dnext \in (alive \ {o}) \cup {Nil}
    BY <1>1, <1>2, <2>1, <2>2
  <2>4. ASSUME NEW a \in Objs, NEW b \in Objs
        PROVE  d.next[a] = b <=> d.prev[b] = a
    BY <1>1, <1>2, <2>1, <2>2 DEF LinkInv
  <2>5. d.dprev # Nil => d.next[d.dprev] = Nil
    BY <1>1, <1>2, <2>1, <2>2 DEF LinkInv
  <2>6. \A p \in Objs \ (alive \ {o}) : d.prev[p] = Nil /\ d.next[p] = Nil
    BY <1>1, <1>2, <2>1, <2>2 DEF LinkInv
  <2>7. \A p \in Objs : /\ d.prev[p] \in (alive \ {o}) \cup {Nil}
                        /\ d.next[p] \in (alive \ {o}) \cup {Nil}
    BY <1>1, <1>2, <2>1, <2>2 DEF LinkInv
  <2>8. d \in ChainType
    BY <1>2, <2>3 DEF ChainType
  <2> QED BY <2>3, <2>4, <2>5, <2>6, <2>7, <2>8 DEF LinkInv, d, m
<1>4. CASE ~IsMiddle(c, o)
  <2>1. /\ m.next = c.next /\ m.prev = c.prev /\ m.dnext = c.dnext
        /\ m.dprev = (IF c.dprev = o THEN c.prev[o] ELSE c.dprev)
    BY <1>4 DEF DoDelete
  <2> HIDE DEF m
  <2>2. c.prev[o] \in alive \cup {Nil}
    BY DEF LinkInv
  <2>3. /\ d.prev \in [Objs -> Objs \cup {Nil}]
        /\ d.next \in [Objs -> Objs \cup {Nil}]
        /\ d.dprev \in (alive \ {o}) \cup {Nil}
        /\ d.dnext \in (alive \ {o}) \cup {Nil}
    BY <1>1, <1>2, <2>1, <2>2
  <2>4. ASSUME NEW a \in Objs, NEW b \in Objs
        PROVE  d.next[a] = b <=> d.prev[b] = a
    BY <1>1, <1>2, <2>1 DEF LinkInv
  <2>5. d.dprev # Nil => d.next[d.dprev] = Nil
    BY <1>1, <1>2, <2>1, <2>2 DEF LinkInv
  <2>6. \A p \in Objs \ (alive \ {o}) : d.prev[p] = Nil /\ d.next[p] = Nil
    BY <1>1, <1>2, <2>1 DEF LinkInv
  <2>7. \A p \in Objs : /\ d.prev[p] \in (alive \ {o}) \cup {Nil}
                        /\ d.next[p] \in (alive \ {o}) \cup {Nil}
    BY <1>1, <1>2, <2>1 DEF LinkInv
  <2>8. d \in ChainType
    BY <1>2, <2>3 DEF ChainType
  <2> QED BY <2>3, <2>4, <2>5, <2>6, <2>7, <2>8 DEF LinkInv, d, m
<1> QED BY <1>3, <1>4 DEF d, m

\* A driver object that looks for the end of the chain changes no link.
LEMMA AnchorKeeps ==
  ASSUME NEW c, live \subseteq Objs, LinkInv(c, live), AutoObj \in live,
         NEW d \in Anchored(c)
  PROVE  LinkInv(d, live)
<1> USE ChainAssumption
<1>1. CASE c.dprev # Nil
  BY <1>1 DEF Anchored
<1>2. CASE c.dprev = Nil
  <2>1. PICK t \in live : c.next[t] = Nil /\ d = [c EXCEPT !.dnext = AutoObj, !.dprev = t]
    BY <1>2 DEF Anchored
  <2>2. /\ d.prev = c.prev /\ d.next = c.next /\ d.dprev = t /\ d.dnext = AutoObj
        /\ d \in ChainType
    BY <2>1 DEF LinkInv, ChainType
  <2> QED BY <2>1, <2>2 DEF LinkInv
<1> QED BY <1>1, <1>2

ChainIndInv ==
  /\ live \subseteq used /\ used \subseteq Objs
  /\ count \in 0 .. SwapChunk /\ swaps \in Nat
  /\ AutoObj \in live
  /\ LinkInv(chain, live)

LEMMA ChainInitInd == ChainInit => ChainIndInv
BY ChainAssumption
   DEF ChainInit, ChainIndInv, LinkInv, ChainType, Unlinked

LEMMA ChainStepInd == ChainIndInv /\ [ChainNext]_chainVars => ChainIndInv'
<1> USE ChainAssumption
<1> SUFFICES ASSUME ChainIndInv, [ChainNext]_chainVars PROVE ChainIndInv'
  OBVIOUS
<1>0. /\ LinkInv(chain, live) /\ AutoObj \in live
      /\ live \subseteq used /\ used \subseteq Objs /\ live \in SUBSET Objs
      /\ count \in 0 .. SwapChunk /\ swaps \in Nat
  BY DEF ChainIndInv
<1> DEFINE Goal == /\ LinkInv(chain', live') /\ AutoObj \in live'
                    /\ live' \subseteq used' /\ used' \subseteq Objs
                    /\ count' \in 0 .. SwapChunk /\ swaps' \in Nat
<1>1. ASSUME NEW m \in Masters, Preload(m) PROVE Goal
  BY <1>0, <1>1 DEF Preload, Created, LinkInv
<1>2. ASSUME NEW m \in Masters, CallObject(m) PROVE Goal
  <2>1. PICK c \in Anchored(chain) : chain' = IF m \in live THEN c ELSE DoInsert(c, m)
    BY <1>2 DEF CallObject
  <2>2. LinkInv(c, live)
    BY <1>0, AnchorKeeps
  <2>3. live' = live \cup {m} /\ used' = used \cup {m} /\ UNCHANGED <<count, swaps>>
    BY <1>2 DEF CallObject, Created
  <2>4. LinkInv(chain', live')
    <3>1. CASE m \in live
      <4>1. live' = live
        BY <2>3, <3>1
      <4> QED BY <2>1, <2>2, <3>1, <4>1
    <3>2. CASE m \notin live
      <4>1. m \in Objs \ live
        BY <3>2
      <4> QED BY <1>0, <2>1, <2>2, <2>3, <3>2, <4>1, InsertKeeps
    <3> QED BY <3>1, <3>2
  <2> QED BY <1>0, <2>3, <2>4
<1>3. ASSUME NEW o \in Clones, CloneByName(o) PROVE Goal
  <2> DEFINE m == MasterOf[o]
  <2>1. PICK c \in Anchored(chain) :
          chain' = DoInsert(IF m \in live THEN c ELSE DoInsert(c, m), o)
    BY <1>3 DEF CloneByName
  <2>2. LinkInv(c, live)
    BY <1>0, AnchorKeeps
  <2>3. /\ live' = live \cup {m, o} /\ used' = used \cup {m, o}
        /\ UNCHANGED <<count, swaps>> /\ o \notin used
    BY <1>3 DEF CloneByName, Created
  <2>4. m \in Masters /\ o \in Objs \ live /\ o # m
    BY <1>0, <2>3 DEF Clones
  <2> HIDE DEF m
  <2>5. LinkInv(chain', live')
    <3>1. CASE m \in live
      <4>1. LinkInv(DoInsert(c, o), live \cup {o})
        BY <1>0, <2>2, <2>4, InsertKeeps
      <4>2. live' = live \cup {o}
        BY <2>3, <3>1
      <4> QED BY <2>1, <3>1, <4>1, <4>2
    <3>2. CASE m \notin live
      <4>1. LinkInv(DoInsert(c, m), live \cup {m})
        BY <1>0, <2>2, <2>4, <3>2, InsertKeeps
      <4>2. live \cup {m} \in SUBSET Objs /\ o \in Objs \ (live \cup {m})
        BY <1>0, <2>4
      <4>3. LinkInv(DoInsert(DoInsert(c, m), o), live \cup {m} \cup {o})
        BY <4>1, <4>2, InsertKeeps
      <4>4. live' = live \cup {m} \cup {o}
        BY <2>3
      <4> QED BY <2>1, <3>2, <4>3, <4>4
    <3> QED BY <3>1, <3>2
  <2> QED BY <1>0, <2>3, <2>4, <2>5
<1>4. ASSUME NEW o \in Clones, CloneByObject(o) PROVE Goal
  <2>1. /\ chain' = DoInsert(chain, o) /\ live' = live \cup {o} /\ used' = used \cup {o}
        /\ UNCHANGED <<count, swaps>> /\ o \in Objs \ live
    BY <1>0, <1>4 DEF CloneByObject, Created, Clones
  <2>2. LinkInv(chain', live')
    BY <1>0, <2>1, InsertKeeps
  <2> QED BY <1>0, <2>1, <2>2
<1>5. ASSUME NEW o \in Objs, Destruct(o) PROVE Goal
  <2>1. /\ chain' = Forget(DoDelete(chain, o), o) /\ live' = live \ {o}
        /\ o \in live \ {AutoObj} /\ used' = used
    BY <1>5 DEF Destruct
  <2>2. LinkInv(chain', live')
    BY <1>0, <2>1, DeleteKeeps
  <2>3. count' \in 0 .. SwapChunk /\ swaps' \in Nat
    BY ChainAssumption, <1>0, <1>5 DEF Destruct, NextCount
  <2> QED BY <1>0, <2>1, <2>2, <2>3
<1>6. ASSUME Swapper PROVE Goal
  BY <1>0, <1>6 DEF Swapper
<1>7. ASSUME DriverReload PROVE Goal
  <2>1. /\ chain' = [chain EXCEPT !.dprev = Nil, !.dnext = Nil] /\ chain \in ChainType
        /\ UNCHANGED <<live, used>> /\ count' = 0 /\ swaps' = 0
    BY <1>0, <1>7 DEF DriverReload, LinkInv
  <2>2. /\ chain'.prev = chain.prev /\ chain'.next = chain.next
        /\ chain'.dprev = Nil /\ chain'.dnext = Nil /\ chain' \in ChainType
    BY <2>1 DEF ChainType
  <2>3. LinkInv(chain', live')
    BY <1>0, <2>1, <2>2 DEF LinkInv
  <2> QED BY <1>0, <2>1, <2>3
<1>8. ASSUME UNCHANGED chainVars PROVE Goal
  BY <1>0, <1>8 DEF chainVars
<1>9. Goal
  BY <1>1, <1>2, <1>3, <1>4, <1>5, <1>6, <1>7, <1>8, Zenon DEF ChainNext
<1> QED BY <1>9 DEF ChainIndInv

LEMMA ChainAlwaysInd == ChainSpec => []ChainIndInv
BY ChainInitInd, ChainStepInd, PTL DEF ChainSpec

\* The variables of the driver object and of the objects keep their types, and
\* no link names an object that does not exist.
THEOREM ChainTypeCorrect == ChainSpec => []ChainTypeOK
<1>1. ChainIndInv => ChainTypeOK
  BY DEF ChainIndInv, LinkInv, ChainTypeOK, DeadUnlinked
<1> QED BY <1>1, ChainAlwaysInd, PTL

\* For any objects, created, destructed and reloaded in any order, next and
\* prev describe the same chain, and no object is ever linked behind the one
\* do_insert() appends to (do_insert() and do_delete() of driver.c).
THEOREM ChainLinked == ChainSpec => []ChainInv
<1>1. ChainIndInv => ChainInv
  BY DEF ChainIndInv, LinkInv, ChainInv, TwoWay, EndIsEnd
<1> QED BY <1>1, ChainAlwaysInd, PTL

(***************************************************************************)
(* Proofs about Garbage, for any objects, rooms and livings, and however   *)
(* many objects a run looks at.  While a run destructs what it removes, no *)
(* player is among that or in it, and nobody in a room with a file.        *)
(***************************************************************************)

\* Those a run may not take.
Spared ==
  /\ \A p \in Players : p \notin doomed /\ env[p] \notin doomed
  /\ \A l \in Livings : env[l] \in Saved => l \notin doomed /\ env[l] \notin doomed

GarbageInd ==
  /\ ChainIndInv
  /\ env \in [Objs -> live \cup {Start, Nil}]
  /\ \A o \in Objs \ live : env[o] = Nil
  /\ \A r \in Rooms : env[r] = Nil
  /\ cursor \in live \cup {Nil} /\ n \in live \cup {Nil}
  /\ left \in 0 .. GarbageObjects /\ phase \in {"look", "advance"}
  /\ doomed \subseteq live
  /\ left > 0 /\ phase = "look" => doomed = {} /\ cursor # Nil
  /\ left > 0 => Spared

-----------------------------------------------------------------------------
\* What is in the objects of D, and they themselves, but no players.
WithThings(e, D) == D \cup {o \in Objs \ Players : e[o] \in D}

\* What goes with r is r itself, or in something that goes with it.
LEMMA WithinSound ==
  ASSUME NEW e, NEW r \in Objs
  PROVE  /\ r \in Within(e, r) /\ Within(e, r) \subseteq Objs
         /\ \A o \in Within(e, r) : o = r \/ (o \notin Players /\ e[o] \in Within(e, r))
<1> DEFINE N == Cardinality(Objs)
           F == [D \in SUBSET Objs |-> WithThings(e, D)]
           within == CHOOSE f : f = [k \in 0 .. N |->
                       IF k = 0 THEN {r}
                       ELSE UNION {D \cup {o \in Objs \ Players : e[o] \in D} : D \in {f[k - 1]}}]
<1>1. Within(e, r) = within[N]
  BY DEF Within
<1>2. N \in Nat
  BY ChainAssumption, FS_CardinalityType
<1>3. F \in [SUBSET Objs -> SUBSET Objs] /\ \A D \in SUBSET Objs : F[D] = WithThings(e, D)
  BY DEF WithThings
<1> HIDE DEF N, F
<1>4. PICK g \in [0 .. N -> SUBSET Objs] : Iterated(g, F, {r}, N)
  <2>1. {r} \in SUBSET Objs
    OBVIOUS
  <2> QED BY <1>2, <1>3, <2>1, Iterates
<1>5. \A k \in 0 .. N : k # 0 => k \in 1 .. N /\ k - 1 \in 0 .. N
  BY <1>2
<1>6. \A k \in 0 .. N : g[k] = IF k = 0 THEN {r} ELSE WithThings(e, g[k - 1])
  BY <1>3, <1>4, <1>5 DEF Iterated
<1>7. \A D0 : UNION {D \cup {o \in Objs \ Players : e[o] \in D} : D \in {D0}} = WithThings(e, D0)
  BY DEF WithThings
<1>8. g = [k \in 0 .. N |->
             IF k = 0 THEN {r}
             ELSE UNION {D \cup {o \in Objs \ Players : e[o] \in D} : D \in {g[k - 1]}}]
  <2>1. \A k \in 0 .. N : g[k] =
             IF k = 0 THEN {r}
             ELSE UNION {D \cup {o \in Objs \ Players : e[o] \in D} : D \in {g[k - 1]}}
    BY <1>6, <1>7
  <2> QED BY <2>1
<1>9. within = [k \in 0 .. N |->
             IF k = 0 THEN {r}
             ELSE UNION {D \cup {o \in Objs \ Players : e[o] \in D} : D \in {within[k - 1]}}]
  BY <1>8
<1> HIDE DEF within
<1>10. \A k \in 0 .. N : within[k] = IF k = 0 THEN {r} ELSE WithThings(e, within[k - 1])
  <2>1. \A k \in 0 .. N : within[k] =
             IF k = 0 THEN {r}
             ELSE UNION {D \cup {o \in Objs \ Players : e[o] \in D} : D \in {within[k - 1]}}
    BY <1>9
  <2> QED BY <1>7, <2>1
<1> DEFINE Sound(D) == /\ r \in D /\ D \subseteq Objs
                       /\ \A o \in D : o = r \/ (o \notin Players /\ e[o] \in D)
           A == {k \in Nat : k \in 0 .. N => Sound(within[k])}
<1>11. 0 \in A
  <2>1. 0 \in 0 .. N /\ within[0] = {r}
    BY <1>2, <1>10
  <2> QED BY <2>1
<1>12. ASSUME NEW k \in Nat, k \in A PROVE k + 1 \in A
  <2> SUFFICES ASSUME k + 1 \in 0 .. N PROVE Sound(within[k + 1])
    OBVIOUS
  <2>1. k \in 0 .. N /\ k + 1 # 0 /\ (k + 1) - 1 = k
    BY <1>2
  <2>2. Sound(within[k])
    BY <1>12, <2>1
  <2>3. within[k + 1] = WithThings(e, within[k])
    BY <1>10, <2>1
  <2> QED BY <2>2, <2>3 DEF WithThings
<1> HIDE DEF A, Sound
<1>13. Nat \subseteq A
  BY <1>11, <1>12, CountedUp
<1>14. N \in A /\ N \in 0 .. N
  BY <1>2, <1>13
<1>15. Sound(within[N])
  BY <1>14 DEF A
<1> QED BY <1>1, <1>15 DEF Sound

\* An object that exists goes only with objects that exist, and no room goes with
\* another object.
LEMMA WithinLives ==
  ASSUME GarbageInd, NEW r \in live
  PROVE  /\ Within(env, r) \subseteq live
         /\ \A q \in Rooms \cap Within(env, r) : q = r
<1>1. live \subseteq Objs /\ Nil \notin Objs /\ Rooms \subseteq Objs
  BY ChainAssumption, GarbageAssumption DEF GarbageInd, ChainIndInv, Clones
<1>2. \A o \in Within(env, r) : o = r \/ env[o] \in Objs
  BY <1>1, WithinSound
<1>3. Within(env, r) \subseteq Objs
  BY <1>1, WithinSound
<1>4. \A o \in Objs : env[o] # Nil => o \in live
  BY DEF GarbageInd
<1>5. \A q \in Rooms : env[q] = Nil
  BY DEF GarbageInd
<1> QED BY <1>1, <1>2, <1>3, <1>4, <1>5

\* remove_object() leaves everything somewhere that exists.
LEMMA RemoveObjectTypes ==
  ASSUME GarbageInd, NEW r \in live, RemoveObject(r)
  PROVE  /\ doomed' \subseteq live
         /\ env' \in [Objs -> live \cup {Start, Nil}]
         /\ \A o \in Objs \ live : env'[o] = Nil
         /\ \A q \in Rooms : env'[q] = Nil
<1>1. doomed' = Within(env, r) /\ Within(env, r) \subseteq live /\ live \subseteq Objs
  BY WithinLives DEF RemoveObject, GarbageInd, ChainIndInv
<1>2. env' = [o \in Objs |-> IF o \in Players \ {r} /\ env[o] \in Within(env, r) THEN Start ELSE env[o]]
  BY DEF RemoveObject
<1>3. env \in [Objs -> live \cup {Start, Nil}] /\ (\A o \in Objs \ live : env[o] = Nil) /\ \A q \in Rooms : env[q] = Nil
  BY DEF GarbageInd
<1>4. Rooms \subseteq Objs /\ Rooms \cap Players = {} /\ Nil \notin Objs
  BY ChainAssumption, GarbageAssumption DEF Clones
<1> QED BY <1>1, <1>2, <1>3, <1>4

\* What a run removes is a room with a file that nobody is in, or not one.
LEMMA LookSpares ==
  ASSUME GarbageInd, NEW r \in live, CheckRoom(r) \/ CheckLiving(r), RemoveObject(r)
  PROVE  /\ Spared'
         /\ \A p \in Players : env'[p] \in {env[p], Start}
         /\ \A l \in Livings : env[l] \in Saved => env'[l] = env[l]
<1> DEFINE W == Within(env, r)
<1>1. doomed' = W /\ W \subseteq Objs /\ (\A o \in W : o = r \/ (o \notin Players /\ env[o] \in W))
      /\ \A q \in Rooms \cap W : q = r
  BY WithinSound, WithinLives DEF RemoveObject, GarbageInd, ChainIndInv
<1>2. env' = [o \in Objs |-> IF o \in Players \ {r} /\ env[o] \in W THEN Start ELSE env[o]]
  BY DEF RemoveObject
<1>3. /\ Livings \subseteq Objs /\ Players \subseteq Livings /\ Saved \subseteq Rooms /\ Rooms \subseteq Objs
      /\ Start \notin Objs /\ Nil \notin Objs
      /\ Rooms \cap Livings = {} /\ Npcs \cap Players = {}
  BY ChainAssumption, GarbageAssumption DEF Clones, Livings
<1>4. r \notin Players
  BY <1>3 DEF CheckRoom, CheckLiving
<1> HIDE DEF W
<1>5. \A p \in Players : p \notin W /\ env'[p] \notin W /\ env'[p] \in {env[p], Start}
  BY <1>1, <1>2, <1>3, <1>4
<1>6. ASSUME NEW l \in Livings, env[l] \in Saved PROVE env[l] \notin W /\ l \notin W
  <2>1. env[l] \notin W
    <3> SUFFICES ASSUME env[l] \in W PROVE FALSE
      OBVIOUS
    <3>1. env[l] = r /\ r \in Saved
      BY <1>1, <1>3, <1>6
    <3>2. ~CheckLiving(r)
      BY <1>3, <3>1 DEF CheckLiving, Livings
    <3>3. ~CheckRoom(r)
      BY <1>6, <3>1 DEF CheckRoom
    <3> QED BY <3>2, <3>3
  <2>2. l # r
    <3> SUFFICES ASSUME l = r PROVE FALSE
      OBVIOUS
    <3>1. CheckLiving(r)
      BY <1>3 DEF CheckRoom
    <3> QED BY <1>3, <1>6, <3>1 DEF CheckLiving
  <2> QED BY <1>1, <2>1, <2>2
<1>7. \A l \in Livings : env'[l] \in Saved => env'[l] = env[l]
  BY <1>2, <1>3
<1>8. \A l \in Livings : env[l] \in Saved => env'[l] = env[l]
  BY <1>2, <1>3, <1>6
<1>9. \A l \in Livings : env'[l] \in Saved => l \notin doomed' /\ env'[l] \notin doomed'
  BY <1>1, <1>6, <1>7
<1> QED BY <1>1, <1>5, <1>8, <1>9 DEF Spared

-----------------------------------------------------------------------------
\* What PlayersSurvive and OccupiedRoomsStay say of a step.
UsedAreKept ==
  left > 0 =>
    /\ \A p \in Players \cap live : p \in live' /\ env'[p] \in {env[p], Start}
    /\ \A l \in Livings \cap live : env[l] \in Saved => l \in live' /\ env[l] \in live' /\ env'[l] = env[l]

LEMMA Still ==
  ASSUME GarbageInd, live' = live, env' = env
  PROVE  UsedAreKept
<1>1. \A l \in Livings \cap live : env[l] \in Saved => env[l] \in live
  BY ChainAssumption, GarbageAssumption DEF GarbageInd, Clones, ChainIndInv
<1> QED BY <1>1 DEF UsedAreKept

LEMMA DestructNextStep ==
  ASSUME GarbageInd, DestructNext
  PROVE  GarbageInd' /\ UsedAreKept
<1>1. PICK o \in doomed : /\ Destruct(o) /\ doomed' = doomed \ {o}
                          /\ env' = [x \in Objs |-> IF x = o \/ env[x] = o THEN Nil ELSE env[x]]
                          /\ cursor' = IF cursor = o THEN Nil ELSE cursor
                          /\ n' = IF n = o THEN Nil ELSE n
                          /\ UNCHANGED <<left, phase>>
  BY DEF DestructNext
<1>2. live' = live \ {o} /\ o \in live /\ live \subseteq Objs /\ Nil \notin Objs
  BY <1>1, ChainAssumption DEF Destruct, GarbageInd, ChainIndInv
<1>3. ChainIndInv'
  BY <1>1, <1>2, ChainStepInd DEF GarbageInd, ChainNext
<1>4. /\ env \in [Objs -> live \cup {Start, Nil}] /\ (\A x \in Objs \ live : env[x] = Nil)
      /\ (\A r \in Rooms : env[r] = Nil) /\ Rooms \subseteq Objs
      /\ doomed \subseteq live /\ left \in 0 .. GarbageObjects /\ phase \in {"look", "advance"}
      /\ cursor \in live \cup {Nil} /\ n \in live \cup {Nil}
  BY GarbageAssumption DEF GarbageInd, Clones
<1>5. env' \in [Objs -> live' \cup {Start, Nil}] /\ (\A x \in Objs \ live' : env'[x] = Nil)
      /\ \A r \in Rooms : env'[r] = Nil
  BY <1>1, <1>2, <1>4
<1>6. Livings \subseteq Objs /\ Players \subseteq Livings /\ Saved \subseteq Objs /\ Start \notin Objs
  BY GarbageAssumption DEF Clones, Livings
<1>7. ASSUME left > 0
      PROVE  /\ \A p \in Players : p # o /\ env'[p] = env[p]
             /\ \A l \in Livings : env[l] \in Saved => l # o /\ env[l] # o /\ env'[l] = env[l]
  BY <1>1, <1>6, <1>7 DEF GarbageInd, Spared
<1>8. \A l \in Livings : env'[l] \in Saved => env'[l] = env[l]
  BY <1>1, <1>2, <1>6
<1>9. left > 0 => Spared'
  <2> SUFFICES ASSUME left > 0 PROVE Spared'
    OBVIOUS
  <2>1. Spared
    BY DEF GarbageInd
  <2> QED BY <1>1, <1>6, <1>7, <1>8, <2>1 DEF Spared
<1>10. left > 0 => phase = "advance"
  BY <1>1, <1>4 DEF GarbageInd
<1>11. GarbageInd'
  BY <1>1, <1>2, <1>3, <1>4, <1>5, <1>9, <1>10 DEF GarbageInd
<1>12. UsedAreKept
  <2> SUFFICES ASSUME left > 0 PROVE UsedAreKept
    BY DEF UsedAreKept
  <2>1. \A l \in Livings : env[l] \in Saved => env[l] \in live
    BY <1>2, <1>4, <1>6, ChainAssumption
  <2> QED BY <1>2, <1>6, <1>7, <2>1 DEF UsedAreKept
<1> QED BY <1>11, <1>12

LEMMA RunStep ==
  ASSUME GarbageInd, StartRun \/ Look \/ Advance
  PROVE  GarbageInd' /\ UsedAreKept
<1>1. /\ LinkInv(chain, live) /\ live \subseteq Objs /\ Nil \notin Objs
      /\ GarbageObjects \in Nat \ {0}
      /\ left \in 0 .. GarbageObjects /\ n \in live \cup {Nil} /\ cursor \in live \cup {Nil}
      /\ doomed \subseteq live
  BY ChainAssumption, GarbageAssumption DEF GarbageInd, ChainIndInv
<1>2. UNCHANGED chainVars => ChainIndInv'
  BY ChainStepInd DEF GarbageInd
<1>3. UNCHANGED chainVars => live' = live
  BY DEF chainVars
<1>4. CASE StartRun
  <2>1. /\ left = 0 /\ doomed = {} /\ left' = GarbageObjects /\ phase' = "look" /\ cursor' # Nil
        /\ cursor' \in live \cup {Nil} /\ UNCHANGED <<chainVars, env, n, doomed>>
    BY <1>1, <1>4 DEF StartRun, Idle, LinkInv
  <2>2. Spared'
    BY <2>1 DEF Spared
  <2> QED BY <1>1, <1>2, <1>3, <2>1, <2>2, Still DEF GarbageInd
<1>5. CASE Look
  <2>1. /\ left > 0 /\ phase = "look" /\ n' = chain.next[cursor] /\ phase' = "advance"
        /\ UNCHANGED <<chainVars, cursor, left>>
    BY <1>5 DEF Look
  <2>2. cursor \in live /\ doomed = {}
    BY <1>1, <2>1 DEF GarbageInd
  <2>3. n' \in live \cup {Nil}
    BY <1>1, <2>1, <2>2 DEF LinkInv
  <2>4. CASE CheckRoom(cursor) \/ CheckLiving(cursor)
    <3>1. RemoveObject(cursor)
      BY <1>5, <2>4 DEF Look
    <3>2. /\ Spared'
          /\ \A p \in Players : env'[p] \in {env[p], Start}
          /\ \A l \in Livings : env[l] \in Saved => env'[l] = env[l]
      BY <2>2, <2>4, <3>1, LookSpares
    <3>3. /\ doomed' \subseteq live
          /\ env' \in [Objs -> live \cup {Start, Nil}]
          /\ \A o \in Objs \ live : env'[o] = Nil
          /\ \A q \in Rooms : env'[q] = Nil
      BY <2>2, <3>1, RemoveObjectTypes
    <3>4. GarbageInd'
      BY <1>1, <1>2, <1>3, <2>1, <2>3, <3>2, <3>3 DEF GarbageInd
    <3>5. \A l \in Livings \cap live : env[l] \in Saved => env[l] \in live
      BY <1>1, GarbageAssumption DEF GarbageInd, Clones
    <3> QED BY <1>3, <2>1, <3>2, <3>4, <3>5 DEF UsedAreKept
  <2>5. CASE ~(CheckRoom(cursor) \/ CheckLiving(cursor))
    <3>1. UNCHANGED <<env, doomed>>
      BY <1>5, <2>5 DEF Look
    <3>2. Spared'
      BY <2>1, <3>1 DEF GarbageInd, Spared
    <3> QED BY <1>1, <1>2, <1>3, <2>1, <2>3, <3>1, <3>2, Still DEF GarbageInd
  <2> QED BY <2>4, <2>5
<1>6. CASE Advance
  <2>1. /\ left > 0 /\ doomed = {} /\ cursor' = n /\ left' = (IF n = Nil THEN 0 ELSE left - 1)
        /\ phase' = "look" /\ n' = Nil /\ UNCHANGED <<chainVars, env, doomed>>
    BY <1>6 DEF Advance
  <2>2. Spared' /\ left' \in 0 .. GarbageObjects /\ (left' > 0 => cursor' # Nil)
    BY <1>1, <2>1 DEF Spared
  <2> QED BY <1>1, <1>2, <1>3, <2>1, <2>2, Still DEF GarbageInd
<1> QED BY <1>4, <1>5, <1>6

\* Between two runs.
LEMMA IdleStep ==
  ASSUME GarbageInd, \/ Create \/ SwapOut
                     \/ \E r \in Clones : Remove(r)
                     \/ \E o \in Clones : \E to \in Clones \cup {Start} : Move(o, to)
  PROVE  GarbageInd' /\ UsedAreKept
<1>1. left = 0
  BY DEF Create, SwapOut, Remove, Move, Idle
<1>2. /\ live \subseteq Objs /\ Nil \notin Objs /\ Rooms \subseteq Objs /\ Start \notin Objs
      /\ env \in [Objs -> live \cup {Start, Nil}] /\ (\A o \in Objs \ live : env[o] = Nil)
      /\ (\A r \in Rooms : env[r] = Nil) /\ doomed \subseteq live
      /\ cursor \in live \cup {Nil} /\ n \in live \cup {Nil}
      /\ left \in 0 .. GarbageObjects /\ phase \in {"look", "advance"}
  BY ChainAssumption, GarbageAssumption DEF GarbageInd, ChainIndInv, Clones
<1>3. CASE Create \/ SwapOut
  <2>1. ChainIndInv'
    BY <1>3, ChainStepInd DEF GarbageInd, ChainNext, Create, SwapOut
  <2>2. live \subseteq live' /\ live' \subseteq Objs
    BY <1>3, <2>1 DEF Create, SwapOut, Preload, CallObject, CloneByName, CloneByObject, Created, Swapper, ChainIndInv
  <2>3. UNCHANGED <<env, cursor, left, phase, n, doomed>>
    BY <1>3 DEF Create, SwapOut
  <2> QED BY <1>1, <1>2, <2>1, <2>2, <2>3 DEF GarbageInd, UsedAreKept
<1>4. ASSUME NEW r \in Clones, Remove(r) PROVE GarbageInd' /\ UsedAreKept
  <2>1. r \in live /\ RemoveObject(r) /\ UNCHANGED <<chainVars, cursor, left, phase, n>>
    BY <1>4 DEF Remove
  <2>2. ChainIndInv' /\ live' = live
    BY <2>1, ChainStepInd DEF GarbageInd, chainVars
  <2> QED BY <1>1, <1>2, <2>1, <2>2, RemoveObjectTypes DEF GarbageInd, UsedAreKept
<1>5. ASSUME NEW o \in Clones, NEW to \in Clones \cup {Start}, Move(o, to) PROVE GarbageInd' /\ UsedAreKept
  <2>1. /\ o \in live /\ o \notin Rooms /\ to \in live \cup {Start} /\ env' = [env EXCEPT ![o] = to]
        /\ UNCHANGED <<chainVars, cursor, left, phase, n, doomed>>
    BY <1>5 DEF Move
  <2>2. ChainIndInv' /\ live' = live
    BY <2>1, ChainStepInd DEF GarbageInd, chainVars
  <2> QED BY <1>1, <1>2, <2>1, <2>2 DEF GarbageInd, UsedAreKept
<1> QED BY <1>3, <1>4, <1>5

LEMMA GarbageStart == GInit => GarbageInd
<1> SUFFICES ASSUME GInit PROVE GarbageInd
  OBVIOUS
<1>1. ChainIndInv
  BY ChainInitInd DEF GInit
<1>2. Rooms \subseteq Objs /\ GarbageObjects \in Nat
  BY GarbageAssumption DEF Clones
<1> QED BY <1>1, <1>2 DEF GInit, GarbageInd

LEMMA GarbageStep == GarbageInd /\ [GNext]_gVars => GarbageInd' /\ UsedAreKept
<1> SUFFICES ASSUME GarbageInd, [GNext]_gVars PROVE GarbageInd' /\ UsedAreKept
  OBVIOUS
<1>1. CASE UNCHANGED gVars
  <2>1. ChainIndInv' /\ live' = live /\ UNCHANGED <<env, cursor, left, phase, n, doomed>>
    BY <1>1, ChainStepInd DEF GarbageInd, gVars, chainVars
  <2>2. left > 0 => Spared'
    BY <2>1 DEF GarbageInd, Spared
  <2> QED BY <2>1, <2>2, Still DEF GarbageInd
<1>2. CASE GNext
  BY <1>2, DestructNextStep, RunStep, IdleStep DEF GNext, Collect
<1> QED BY <1>1, <1>2

\* The cursor, the successor that a round read, and where everything is, name objects that
\* exist, though a round destructs what it looks at and all that is in it (run_garbage()).
THEOREM GarbageTypeCorrect == GSpec => []GTypeOK
<1>1. GarbageInd => GTypeOK
  BY DEF GarbageInd, ChainIndInv, LinkInv, GTypeOK, ChainTypeOK, DeadUnlinked, ChainInv, TwoWay, EndIsEnd
<1> QED BY <1>1, GarbageStart, GarbageStep, PTL DEF GSpec

\* The collector takes nothing that somebody is using: no player, and nobody and no room
\* with a file that somebody is in (recursive_rm(), check_room()).
THEOREM GarbageKeepsUsed == GSpec => UsedIsKept
<1>1. UsedAreKept => [left > 0 => \A p \in Players \cap live : p \in live' /\ env'[p] \in {env[p], Start}]_gVars
  BY DEF UsedAreKept
<1>2. UsedAreKept => [left > 0 => \A l \in Livings \cap live :
                         env[l] \in Saved => l \in live' /\ env[l] \in live' /\ env'[l] = env[l]]_gVars
  BY DEF UsedAreKept
<1> QED BY <1>1, <1>2, GarbageStart, GarbageStep, PTL DEF GSpec, UsedIsKept, PlayersSurvive, OccupiedRoomsStay

(***************************************************************************)
(* The chain implements the list of objects.                               *)
(***************************************************************************)

\* Following next from the auto object meets the objects of s, and no others have a next.
Follows(c, s) ==
  /\ s \in Seq(Objs)
  /\ IsInjective(s)
  /\ \A j \in 1 .. Len(s) - 1 : c.next[s[j]] = s[j + 1]
  /\ \A o \in Objs : (\A j \in 1 .. Len(s) - 1 : s[j] # o) => c.next[o] = Nil
  /\ IF s = <<>> THEN c.dprev = Nil /\ c.dnext = Nil
     ELSE s[1] = AutoObj /\ c.dnext = AutoObj /\ c.dprev = s[Len(s)]

Members(s) == {s[j] : j \in 1 .. Len(s)}

\* From the i-th place on.
From(s, i) == {s[j] : j \in i .. Len(s)}

\* Distinct objects are as many as their places.
LEMMA PlacesCounted ==
  ASSUME NEW s \in Seq(Objs), IsInjective(s), NEW i \in 1 .. Len(s) + 1
  PROVE  Cardinality(From(s, i)) = Len(s) + 1 - i
<1> DEFINE f == [j \in i .. Len(s) |-> s[j]]
<1>1. Len(s) \in Nat /\ DOMAIN s = 1 .. Len(s)
  OBVIOUS
<1>2. f \in [i .. Len(s) -> From(s, i)] /\ \A t \in From(s, i) : \E j \in i .. Len(s) : f[j] = t
  BY DEF From
<1>3. \A a, b \in i .. Len(s) : f[a] = f[b] => a = b
  BY <1>1 DEF IsInjective
<1> HIDE DEF f
<1>4. ExistsBijection(i .. Len(s), From(s, i))
  BY <1>2, <1>3, Fun_IsBij DEF ExistsBijection
<1>5. IsFiniteSet(i .. Len(s)) /\ Cardinality(i .. Len(s)) = Len(s) + 1 - i
  <2>1. i \in Int /\ Len(s) \in Int /\ (i > Len(s) => i = Len(s) + 1)
    BY <1>1
  <2>2. IsFiniteSet(i .. Len(s)) /\ Cardinality(i .. Len(s)) = IF i > Len(s) THEN 0 ELSE Len(s) - i + 1
    BY <2>1, FS_Interval
  <2> QED BY <2>1, <2>2
<1> QED BY <1>4, <1>5, FS_Bijection

\* What one step of the walk adds.
Onward(c, D) == D \cup ({c.next[p] : p \in D} \ {Nil})

\* Whatever takes the steps of the walk ends where Ahead does.
LEMMA AheadIs ==
  ASSUME NEW c, NEW o, NEW g, g = [k \in 0 .. Cardinality(Objs) |-> g[k]],
         g[0] = {o} \ {Nil},
         \A k \in 1 .. Cardinality(Objs) : g[k] = Onward(c, g[k - 1])
  PROVE  Ahead(c, o) = g[Cardinality(Objs)]
<1> DEFINE N == Cardinality(Objs)
           reach == CHOOSE f : f = [k \in 0 .. N |->
                      IF k = 0 THEN {o} \ {Nil}
                      ELSE UNION {r \cup ({c.next[p] : p \in r} \ {Nil}) : r \in {f[k - 1]}}]
<1>1. Ahead(c, o) = reach[N]
  BY DEF Ahead
<1>2. N \in Nat
  BY ChainAssumption, FS_CardinalityType
<1>3. \A D0 : UNION {r \cup ({c.next[p] : p \in r} \ {Nil}) : r \in {D0}} = Onward(c, D0)
  BY DEF Onward
<1>4. g = [k \in 0 .. N |-> g[k]] /\ g[0] = {o} \ {Nil} /\ \A k \in 1 .. N : g[k] = Onward(c, g[k - 1])
  OBVIOUS
<1> HIDE DEF N
<1>5. g = [k \in 0 .. N |->
             IF k = 0 THEN {o} \ {Nil}
             ELSE UNION {r \cup ({c.next[p] : p \in r} \ {Nil}) : r \in {g[k - 1]}}]
  <2>1. \A k \in 0 .. N : g[k] =
             IF k = 0 THEN {o} \ {Nil}
             ELSE UNION {r \cup ({c.next[p] : p \in r} \ {Nil}) : r \in {g[k - 1]}}
    <3> SUFFICES ASSUME NEW k \in 0 .. N
                 PROVE  g[k] = IF k = 0 THEN {o} \ {Nil}
                               ELSE UNION {r \cup ({c.next[p] : p \in r} \ {Nil}) : r \in {g[k - 1]}}
      OBVIOUS
    <3>1. k = 0 \/ k \in 1 .. N
      BY <1>2
    <3> QED BY <1>3, <1>4, <3>1
  <2> QED BY <1>4, <2>1
<1>6. reach = [k \in 0 .. N |->
             IF k = 0 THEN {o} \ {Nil}
             ELSE UNION {r \cup ({c.next[p] : p \in r} \ {Nil}) : r \in {reach[k - 1]}}]
  BY <1>5
<1> HIDE DEF reach
<1>7. \A k \in 0 .. N : reach[k] = IF k = 0 THEN {o} \ {Nil} ELSE Onward(c, reach[k - 1])
  <2>1. \A k \in 0 .. N : reach[k] =
             IF k = 0 THEN {o} \ {Nil}
             ELSE UNION {r \cup ({c.next[p] : p \in r} \ {Nil}) : r \in {reach[k - 1]}}
    BY <1>6
  <2> QED BY <1>3, <2>1
<1> DEFINE A == {k \in Nat : k <= N => reach[k] = g[k]}
<1>8. 0 \in A
  <2>1. 0 \in 0 .. N
    BY <1>2
  <2>2. reach[0] = g[0]
    BY <1>4, <1>7, <2>1
  <2> QED BY <2>2
<1>9. ASSUME NEW k \in Nat, k \in A PROVE k + 1 \in A
  <2> SUFFICES ASSUME k + 1 <= N PROVE reach[k + 1] = g[k + 1]
    OBVIOUS
  <2>1. reach[k] = g[k] /\ k + 1 \in 1 .. N /\ k + 1 \in 0 .. N /\ k + 1 - 1 = k /\ k + 1 # 0
    BY <1>2, <1>9
  <2>2. g[k + 1] = Onward(c, g[k + 1 - 1]) /\ reach[k + 1] = Onward(c, reach[k + 1 - 1])
    <3> DEFINE m == k + 1
    <3>1. m \in 1 .. N /\ m \in 0 .. N /\ m # 0
      BY <2>1
    <3> HIDE DEF m
    <3>2. g[m] = Onward(c, g[m - 1]) /\ reach[m] = Onward(c, reach[m - 1])
      BY <1>4, <1>7, <3>1
    <3> QED BY <3>2 DEF m
  <2> QED BY <2>1, <2>2
<1> HIDE DEF A
<1>10. Nat \subseteq A
  BY <1>8, <1>9, CountedUp
<1> QED BY <1>1, <1>2, <1>10 DEF A, N

\* From an object of the chain the walk reaches those behind it.
LEMMA AheadOf ==
  ASSUME NEW c, NEW s, Follows(c, s), NEW i \in 1 .. Len(s)
  PROVE  Ahead(c, s[i]) = From(s, i)
<1> DEFINE N == Cardinality(Objs)
           g == [k \in 0 .. N |-> {s[j] : j \in {m \in i .. Len(s) : m <= i + k}}]
<1>1. s \in Seq(Objs) /\ Len(s) \in Nat /\ IsInjective(s) /\ DOMAIN s = 1 .. Len(s) /\ Nil \notin Objs
  BY ChainAssumption DEF Follows
<1>2. N \in Nat /\ Len(s) <= N
  <2>1. Cardinality(From(s, 1)) = Len(s)
    BY <1>1, PlacesCounted
  <2>2. From(s, 1) \in SUBSET Objs
    BY <1>1 DEF From
  <2> QED BY <2>1, <2>2, ChainAssumption, FS_Subset, FS_CardinalityType
<1> HIDE DEF N
<1>3. \A k \in 0 .. N : g[k] = {s[j] : j \in {m \in i .. Len(s) : m <= i + k}}
  OBVIOUS
<1>4. g = [k \in 0 .. N |-> g[k]]
  OBVIOUS
<1> HIDE DEF g
<1>5. g[0] = {s[i]} \ {Nil}
  <2>1. 0 \in 0 .. N
    BY <1>2
  <2>2. {m \in i .. Len(s) : m <= i + 0} = {i}
    BY <1>1
  <2>3. s[i] # Nil
    BY <1>1
  <2> QED BY <1>3, <2>1, <2>2, <2>3
<1>6. ASSUME NEW k \in 1 .. N PROVE g[k] = Onward(c, g[k - 1])
  <2>1. k - 1 \in 0 .. N /\ k \in 0 .. N
    BY <1>2
  <2>2. g[k - 1] = {s[j] : j \in {m \in i .. Len(s) : m <= i + k - 1}}
    BY <1>1, <1>2, <1>3, <2>1
  <2>3. g[k] = {s[j] : j \in {m \in i .. Len(s) : m <= i + k}}
    BY <1>3, <2>1
  <2>4. \A j \in 1 .. Len(s) : c.next[s[j]] = IF j < Len(s) THEN s[j + 1] ELSE Nil
    <3> SUFFICES ASSUME NEW j \in 1 .. Len(s) PROVE c.next[s[j]] = IF j < Len(s) THEN s[j + 1] ELSE Nil
      OBVIOUS
    <3>1. CASE j < Len(s)
      <4>1. j \in 1 .. Len(s) - 1
        BY <1>1, <3>1
      <4> QED BY <3>1, <4>1 DEF Follows
    <3>2. CASE ~(j < Len(s))
      <4>0. j = Len(s)
        <5>1. j \in Nat /\ j <= Len(s)
          BY <1>1
        <5>2. Len(s) \in Nat
          BY <1>1
        <5> QED BY <3>2, <5>1, <5>2
      <4>1. j = Len(s) /\ s[j] \in Objs
        BY <1>1, <4>0
      <4>2. \A m \in 1 .. Len(s) - 1 : s[m] # s[j]
        BY <1>1, <4>1 DEF IsInjective
      <4> QED BY <3>2, <4>1, <4>2 DEF Follows
    <3> QED BY <3>1, <3>2
  <2>5. ASSUME NEW x \in g[k] PROVE x \in Onward(c, g[k - 1])
    <3>1. PICK j \in i .. Len(s) : j <= i + k /\ x = s[j]
      BY <2>3
    <3>2. CASE j <= i + k - 1
      BY <2>2, <3>1, <3>2 DEF Onward
    <3>3. CASE ~(j <= i + k - 1)
      <4>1. j - 1 \in i .. Len(s) /\ j - 1 <= i + k - 1 /\ j - 1 \in 1 .. Len(s) /\ j - 1 < Len(s) /\ j - 1 + 1 = j
        BY <1>1, <2>1, <3>1, <3>3
      <4>2. s[j - 1] \in g[k - 1]
        BY <2>2, <4>1
      <4>3. c.next[s[j - 1]] = x
        BY <2>4, <3>1, <4>1
      <4>4. x # Nil
        BY <1>1, <3>1
      <4> QED BY <4>2, <4>3, <4>4 DEF Onward
    <3> QED BY <3>2, <3>3
  <2>6. ASSUME NEW x \in Onward(c, g[k - 1]) PROVE x \in g[k]
    <3>1. CASE x \in g[k - 1]
      BY <1>1, <1>2, <2>2, <2>3, <3>1
    <3>2. CASE x \notin g[k - 1]
      <4>1. PICK p \in g[k - 1] : x = c.next[p] /\ x # Nil
        BY <3>2 DEF Onward
      <4>2. PICK j \in i .. Len(s) : j <= i + k - 1 /\ p = s[j]
        BY <2>2, <4>1
      <4>3. j < Len(s) /\ x = s[j + 1]
        BY <2>4, <4>1, <4>2
      <4>4. j + 1 \in i .. Len(s) /\ j + 1 <= i + k
        BY <1>1, <2>1, <4>2, <4>3
      <4> QED BY <2>3, <4>3, <4>4
    <3> QED BY <3>1, <3>2
  <2> QED BY <2>5, <2>6
<1>7. Ahead(c, s[i]) = g[N]
  <2>1. \A k \in 1 .. N : g[k] = Onward(c, g[k - 1])
    BY <1>6
  <2> DEFINE o == s[i]
  <2>2. /\ g = [k \in 0 .. Cardinality(Objs) |-> g[k]] /\ g[0] = {o} \ {Nil}
        /\ \A k \in 1 .. Cardinality(Objs) : g[k] = Onward(c, g[k - 1])
    BY <1>4, <1>5, <2>1 DEF N
  <2> HIDE DEF o
  <2>3. Ahead(c, o) = g[Cardinality(Objs)]
    BY <2>2, AheadIs
  <2> QED BY <2>3 DEF N, o
<1>8. {m \in i .. Len(s) : m <= i + N} = i .. Len(s)
  BY <1>1, <1>2
<1>9. N \in 0 .. N
  BY <1>2
<1> QED BY <1>3, <1>7, <1>8, <1>9 DEF From

LEMMA AheadOfNothing ==
  ASSUME NEW c PROVE Ahead(c, Nil) = {}
<1> DEFINE N == Cardinality(Objs)
           g == [k \in 0 .. N |-> {}]
<1>1. N \in Nat
  BY ChainAssumption, FS_CardinalityType
<1> HIDE DEF N
<1>2. \A k \in 0 .. N : g[k] = {}
  OBVIOUS
<1>3. g = [k \in 0 .. N |-> g[k]]
  OBVIOUS
<1> HIDE DEF g
<1>4. g[0] = {Nil} \ {Nil} /\ g[N] = {}
  BY <1>1, <1>2
<1>5. \A k \in 1 .. N : g[k] = Onward(c, g[k - 1])
  <2> SUFFICES ASSUME NEW k \in 1 .. N PROVE g[k] = Onward(c, g[k - 1])
    OBVIOUS
  <2>1. k - 1 \in 0 .. N /\ k \in 0 .. N
    BY <1>1
  <2> QED BY <1>2, <2>1 DEF Onward
<1> QED BY <1>3, <1>4, <1>5, AheadIs DEF N

\* The sequence that the chain follows is the one it lists.
LEMMA FollowedIsListed ==
  ASSUME NEW c, NEW s, Follows(c, s)
  PROVE  InOrder(c) = s
<1> DEFINE all == Ahead(c, c.dnext)
           size == Cardinality(all)
           rest == [o \in all |-> Cardinality(Ahead(c, o))]
           t == [i \in 1 .. size |-> CHOOSE o \in all : rest[o] = size + 1 - i]
<1>1. InOrder(c) = t
  BY DEF InOrder
<1>2. s \in Seq(Objs) /\ IsInjective(s) /\ Len(s) \in Nat /\ DOMAIN s = 1 .. Len(s)
  BY DEF Follows
<1>3. all = From(s, 1)
  <2>1. CASE s = <<>>
    <3>1. c.dnext = Nil
      BY <2>1 DEF Follows
    <3>2. From(s, 1) = {}
      BY <2>1 DEF From
    <3> QED BY <3>1, <3>2, AheadOfNothing
  <2>2. CASE s # <<>>
    <3>1. c.dnext = s[1] /\ 1 \in 1 .. Len(s)
      BY <1>2, <2>2 DEF Follows
    <3> QED BY <3>1, AheadOf
  <2> QED BY <2>1, <2>2
<1> HIDE DEF all
<1>4. size = Len(s)
  BY <1>2, <1>3, PlacesCounted
<1> HIDE DEF size
<1>5. \A i \in 1 .. Len(s) : s[i] \in all /\ rest[s[i]] = size + 1 - i
  <2> SUFFICES ASSUME NEW i \in 1 .. Len(s) PROVE s[i] \in all /\ rest[s[i]] = size + 1 - i
    OBVIOUS
  <2>1. s[i] \in all
    BY <1>3 DEF From
  <2>2. rest[s[i]] = Cardinality(From(s, i))
    BY <2>1, AheadOf
  <2> QED BY <1>2, <1>4, <2>1, <2>2, PlacesCounted
<1> HIDE DEF rest
<1>6. \A i \in 1 .. Len(s) : t[i] = s[i]
  <2> SUFFICES ASSUME NEW i \in 1 .. Len(s) PROVE t[i] = s[i]
    OBVIOUS
  <2>1. t[i] = CHOOSE o \in all : rest[o] = size + 1 - i
    BY <1>4
  <2>2. \A o \in all : rest[o] = size + 1 - i => o = s[i]
    <3> SUFFICES ASSUME NEW o \in all, rest[o] = size + 1 - i PROVE o = s[i]
      OBVIOUS
    <3>1. PICK j \in 1 .. Len(s) : o = s[j]
      BY <1>3 DEF From
    <3>2. size + 1 - j = size + 1 - i
      BY <1>5, <3>1
    <3> QED BY <1>2, <1>4, <3>1, <3>2
  <2> QED BY <1>5, <2>1, <2>2
<1>7. t = s
  <2>1. DOMAIN t = 1 .. Len(s)
    BY <1>4
  <2>2. s = [i \in 1 .. Len(s) |-> s[i]] /\ t = [i \in 1 .. Len(s) |-> t[i]]
    BY <1>2, <2>1, <1>4
  <2> QED BY <1>6, <2>2
<1> QED BY <1>1, <1>7

\* An object linked in is listed behind all others.
LEMMA InsertFollows ==
  ASSUME NEW c, NEW s, Follows(c, s), s # <<>>, c \in ChainType,
         NEW o \in Objs, o \notin Members(s)
  PROVE  Follows(DoInsert(c, o), Append(s, o))
<1> DEFINE t == Append(s, o)
           d == DoInsert(c, o)
           last == s[Len(s)]
<1>1. s \in Seq(Objs) /\ Len(s) \in Nat \ {0} /\ IsInjective(s) /\ DOMAIN s = 1 .. Len(s) /\ Nil \notin Objs
  BY ChainAssumption DEF Follows
<1>2. /\ t \in Seq(Objs) /\ t # <<>> /\ Len(t) = Len(s) + 1 /\ DOMAIN t = 1 .. Len(s) + 1
      /\ (\A i \in 1 .. Len(s) : t[i] = s[i]) /\ t[Len(s) + 1] = o
  BY <1>1, AppendProperties
<1>3. c.dprev = last /\ last \in Objs /\ s[1] = AutoObj /\ c.dnext = AutoObj /\ c.next \in [Objs -> Objs \cup {Nil}]
  BY <1>1 DEF Follows, ChainType
<1>4. d.next = [c.next EXCEPT ![last] = o] /\ d.dprev = o /\ d.dnext = AutoObj
  BY <1>1, <1>3 DEF DoInsert
<1>5. \A i \in 1 .. Len(s) : s[i] \in Objs /\ s[i] # o
  BY <1>1 DEF Members
<1>6. \A j \in 1 .. Len(s) - 1 : c.next[s[j]] = s[j + 1] /\ s[j] # last
  BY <1>1 DEF Follows, IsInjective
<1> HIDE DEF t, d, last
<1>7. IsInjective(t)
  <2> SUFFICES ASSUME NEW a \in 1 .. Len(s) + 1, NEW b \in 1 .. Len(s) + 1, t[a] = t[b] PROVE a = b
    BY <1>2 DEF IsInjective
  <2>1. (a \in 1 .. Len(s) \/ a = Len(s) + 1) /\ (b \in 1 .. Len(s) \/ b = Len(s) + 1)
    BY <1>1
  <2> QED BY <1>1, <1>2, <1>5, <2>1 DEF IsInjective
<1>8. ASSUME NEW j \in 1 .. Len(t) - 1 PROVE d.next[t[j]] = t[j + 1]
  <2>1. j \in 1 .. Len(s) - 1 \/ j = Len(s)
    <3>1. Len(s) \in Nat /\ j \in 1 .. Len(s)
      BY <1>1, <1>2
    <3> QED BY <3>1
  <2>2. CASE j \in 1 .. Len(s) - 1
    <3>1. t[j] = s[j] /\ t[j + 1] = s[j + 1] /\ s[j] \in Objs
      BY <1>1, <1>2, <1>5, <2>2
    <3> QED BY <1>3, <1>4, <1>6, <2>2, <3>1
  <2>3. CASE j = Len(s)
    <3>1. t[j] = last /\ t[j + 1] = o
      BY <1>1, <1>2, <2>3 DEF last
    <3> QED BY <1>3, <1>4, <3>1
  <2> QED BY <2>1, <2>2, <2>3
<1>9. ASSUME NEW p \in Objs, \A j \in 1 .. Len(t) - 1 : t[j] # p PROVE d.next[p] = Nil
  <2>1. \A j \in 1 .. Len(s) : s[j] # p
    BY <1>1, <1>2, <1>9
  <2>2. p # last
    BY <1>1, <2>1 DEF last
  <2>3. c.next[p] = Nil
    BY <1>1, <2>1 DEF Follows
  <2> QED BY <1>3, <1>4, <2>2, <2>3
<1>10. t[1] = AutoObj /\ d.dprev = t[Len(t)]
  BY <1>1, <1>2, <1>3, <1>4
<1>11. Follows(d, t)
  BY <1>2, <1>4, <1>7, <1>8, <1>9, <1>10 DEF Follows
<1> QED BY <1>11 DEF d, t

\* The driver object lists at least the auto object once it has looked for the end.
LEMMA AnchorFollows ==
  ASSUME NEW c, NEW s, Follows(c, s), c \in ChainType, NEW d \in Anchored(c)
  PROVE  Follows(d, IF s = <<>> THEN <<AutoObj>> ELSE s) /\ d \in ChainType
<1> USE ChainAssumption
<1>1. CASE s # <<>>
  <2>1. c.dprev = s[Len(s)] /\ Len(s) \in Nat /\ Len(s) # 0 /\ s \in Seq(Objs)
    BY <1>1 DEF Follows
  <2>2. c.dprev # Nil
    BY <2>1
  <2> QED BY <1>1, <2>2 DEF Anchored
<1>2. CASE s = <<>>
  <2>1. /\ c.dprev = Nil /\ c.dnext = Nil
        /\ \A p \in Objs : c.next[p] = Nil
    BY <1>2 DEF Follows
  <2>2. PICK t \in live \cap Ahead(c, AutoObj) : d = [c EXCEPT !.dnext = AutoObj, !.dprev = t]
    BY <2>1 DEF Anchored
  <2>3. Ahead(c, AutoObj) = {AutoObj}
    <3> DEFINE N == Cardinality(Objs)
               g == [k \in 0 .. N |-> {AutoObj}]
    <3>1. N \in Nat
      BY FS_CardinalityType
    <3> HIDE DEF N
    <3>2. \A k \in 0 .. N : g[k] = {AutoObj}
      OBVIOUS
    <3>3. g = [k \in 0 .. N |-> g[k]]
      OBVIOUS
    <3> HIDE DEF g
    <3>4. g[0] = {AutoObj} \ {Nil} /\ g[N] = {AutoObj}
      BY <3>1, <3>2
    <3>5. \A k \in 1 .. N : g[k] = Onward(c, g[k - 1])
      <4> SUFFICES ASSUME NEW k \in 1 .. N PROVE g[k] = Onward(c, g[k - 1])
        OBVIOUS
      <4>1. k - 1 \in 0 .. N /\ k \in 0 .. N
        BY <3>1
      <4> QED BY <2>1, <3>2, <4>1 DEF Onward
    <3> DEFINE o == AutoObj
    <3>6. /\ g = [k \in 0 .. Cardinality(Objs) |-> g[k]] /\ g[0] = {o} \ {Nil}
          /\ \A k \in 1 .. Cardinality(Objs) : g[k] = Onward(c, g[k - 1])
      BY <3>3, <3>4, <3>5 DEF N
    <3> HIDE DEF o
    <3>7. Ahead(c, o) = g[Cardinality(Objs)]
      BY <3>6, AheadIs
    <3> QED BY <3>4, <3>7 DEF N, o
  <2>4. t = AutoObj
    BY <2>2, <2>3
  <2>5. d.next = c.next /\ d.dnext = AutoObj /\ d.dprev = AutoObj /\ d \in ChainType
    BY <2>2, <2>4 DEF ChainType
  <2>6. Follows(d, <<AutoObj>>)
    BY <2>1, <2>5 DEF Follows, IsInjective
  <2> QED BY <1>2, <2>5, <2>6
<1> QED BY <1>1, <1>2

\* A sequence without its k-th element.
Without(s, k) == SubSeq(s, 1, k - 1) \o SubSeq(s, k + 1, Len(s))

LEMMA WithoutIs ==
  ASSUME NEW s \in Seq(Objs), NEW k \in 1 .. Len(s)
  PROVE  /\ Without(s, k) \in Seq(Objs) /\ Len(Without(s, k)) = Len(s) - 1
         /\ \A j \in 1 .. Len(s) - 1 : Without(s, k)[j] = IF j < k THEN s[j] ELSE s[j + 1]
<1> DEFINE a == SubSeq(s, 1, k - 1)
           b == SubSeq(s, k + 1, Len(s))
<1>1. Len(s) \in Nat /\ k \in Nat /\ k >= 1 /\ k <= Len(s) /\ \A j \in 1 .. Len(s) : s[j] \in Objs
  OBVIOUS
<1>2. a \in Seq(Objs) /\ Len(a) = k - 1 /\ \A j \in 1 .. k - 1 : a[j] = s[j]
  <2>1. \A j \in 1 .. k - 1 : s[j] \in Objs
    BY <1>1
  <2>2. /\ a \in Seq(Objs) /\ Len(a) = (IF 1 <= k - 1 THEN k - 1 - 1 + 1 ELSE 0)
        /\ \A j \in 1 .. k - 1 - 1 + 1 : a[j] = s[1 + j - 1]
    BY <1>1, <2>1, SubSeqProperties
  <2> QED BY <1>1, <2>2
<1>3. b \in Seq(Objs) /\ Len(b) = Len(s) - k /\ \A j \in 1 .. Len(s) - k : b[j] = s[k + j]
  <2>1. \A j \in k + 1 .. Len(s) : s[j] \in Objs
    BY <1>1
  <2>2. /\ b \in Seq(Objs) /\ Len(b) = (IF k + 1 <= Len(s) THEN Len(s) - (k + 1) + 1 ELSE 0)
        /\ \A j \in 1 .. Len(s) - (k + 1) + 1 : b[j] = s[k + 1 + j - 1]
    BY <1>1, <2>1, SubSeqProperties
  <2> QED BY <1>1, <2>2
<1> HIDE DEF a, b
<1>4. /\ a \o b \in Seq(Objs) /\ Len(a \o b) = Len(a) + Len(b)
      /\ \A j \in 1 .. Len(a) + Len(b) : (a \o b)[j] = IF j <= Len(a) THEN a[j] ELSE b[j - Len(a)]
  BY <1>2, <1>3, ConcatProperties
<1>5. Len(a) + Len(b) = Len(s) - 1
  BY <1>1, <1>2, <1>3
<1>6. ASSUME NEW j \in 1 .. Len(s) - 1 PROVE (a \o b)[j] = IF j < k THEN s[j] ELSE s[j + 1]
  <2>1. (a \o b)[j] = IF j <= Len(a) THEN a[j] ELSE b[j - Len(a)]
    BY <1>4, <1>5
  <2>2. CASE j < k
    BY <1>1, <1>2, <2>1, <2>2
  <2>3. CASE ~(j < k)
    <3>1. j - Len(a) \in 1 .. Len(s) - k /\ k + (j - Len(a)) = j + 1 /\ ~(j <= Len(a))
      BY <1>1, <1>2, <2>3
    <3> QED BY <1>3, <2>1, <2>3, <3>1
  <2> QED BY <2>2, <2>3
<1> QED BY <1>4, <1>5, <1>6 DEF Without, a, b

\* Where next leads, and where prev leads back.
LEMMA LinksFollowed ==
  ASSUME NEW c, NEW alive, LinkInv(c, alive), NEW s, Follows(c, s)
  PROVE  /\ \A j \in 1 .. Len(s) : c.next[s[j]] = IF j < Len(s) THEN s[j + 1] ELSE Nil
         /\ \A p \in Objs \ Members(s) : c.next[p] = Nil /\ c.prev[p] = Nil
         /\ \A j \in 2 .. Len(s) : c.prev[s[j]] = s[j - 1]
<1>1. s \in Seq(Objs) /\ Len(s) \in Nat /\ IsInjective(s) /\ DOMAIN s = 1 .. Len(s) /\ Nil \notin Objs
      /\ \A j \in 1 .. Len(s) : s[j] \in Objs
  BY ChainAssumption DEF Follows
<1>2. c.prev \in [Objs -> Objs \cup {Nil}] /\ \A a, b \in Objs : c.next[a] = b <=> c.prev[b] = a
  BY DEF LinkInv, ChainType
<1>3. ASSUME NEW j \in 1 .. Len(s) PROVE c.next[s[j]] = IF j < Len(s) THEN s[j + 1] ELSE Nil
  <2>0. Len(s) \in Nat
    BY <1>1
  <2>1. j \in 1 .. Len(s) - 1 \/ j = Len(s)
    BY <2>0
  <2>2. CASE j \in 1 .. Len(s) - 1
    BY <2>0, <2>2 DEF Follows
  <2>3. CASE j = Len(s)
    <3>1. \A m \in 1 .. Len(s) - 1 : s[m] # s[j]
      BY <1>1, <2>3 DEF IsInjective
    <3> QED BY <1>1, <2>3, <3>1 DEF Follows
  <2> QED BY <2>1, <2>2, <2>3
<1>4. ASSUME NEW p \in Objs \ Members(s) PROVE c.next[p] = Nil
  <2>1. \A m \in 1 .. Len(s) - 1 : s[m] # p
    BY <1>1 DEF Members
  <2> QED BY <2>1 DEF Follows
<1>5. ASSUME NEW j \in 2 .. Len(s) PROVE c.prev[s[j]] = s[j - 1]
  <2>1. j - 1 \in 1 .. Len(s) /\ j - 1 < Len(s) /\ j \in 1 .. Len(s) /\ j - 1 + 1 = j
    BY <1>1
  <2> QED BY <1>1, <1>2, <1>3, <2>1
<1>6. ASSUME NEW p \in Objs \ Members(s) PROVE c.prev[p] = Nil
  <2> SUFFICES ASSUME c.prev[p] # Nil PROVE FALSE
    OBVIOUS
  <2>1. PICK a \in Objs : c.next[a] = p
    BY <1>2
  <2>2. PICK j \in 1 .. Len(s) : a = s[j]
    BY <1>1, <1>4, <2>1 DEF Members
  <2>3. p = s[j + 1] /\ j + 1 \in 1 .. Len(s)
    BY <1>1, <1>3, <2>1, <2>2
  <2> QED BY <2>3 DEF Members
<1> QED BY <1>3, <1>4, <1>5, <1>6

\* Destructing an object that is not listed leaves the list as it is.
LEMMA UnlistedFollows ==
  ASSUME NEW c, NEW alive, LinkInv(c, alive), NEW s, Follows(c, s),
         NEW o \in Objs \ {AutoObj}, o \notin Members(s)
  PROVE  Follows(Forget(DoDelete(c, o), o), s)
<1> DEFINE m == DoDelete(c, o)
           d == Forget(m, o)
<1>1. s \in Seq(Objs) /\ Len(s) \in Nat /\ (s # <<>> => Len(s) # 0) /\ Nil \notin Objs
      /\ \A j \in 1 .. Len(s) : s[j] \in Objs /\ s[j] # o
  BY ChainAssumption DEF Follows, Members
<1>2. c.next[o] = Nil /\ c.prev[o] = Nil
  BY LinksFollowed
<1>3. c.dprev # o /\ c.dnext # o
  BY <1>1 DEF Follows
<1>4. m.next = c.next /\ m.dnext = c.dnext /\ m.dprev = c.dprev
  BY <1>2, <1>3 DEF DoDelete, IsMiddle
<1>5. /\ d.next = [p \in Objs |-> IF p = o \/ m.next[p] = o THEN Nil ELSE m.next[p]]
      /\ d.dprev = (IF m.dprev = o THEN Nil ELSE m.dprev)
      /\ d.dnext = (IF m.dnext = o THEN Nil ELSE m.dnext)
  BY DEF Forget
<1> HIDE DEF m, d
<1>6. \A p \in Objs : c.next[p] # o
  <2> SUFFICES ASSUME NEW p \in Objs, c.next[p] = o PROVE FALSE
    OBVIOUS
  <2>1. c.prev[o] = p
    BY DEF LinkInv
  <2> QED BY <1>1, <1>2, <2>1
<1>7. \A p \in Objs : d.next[p] = c.next[p]
  BY <1>2, <1>4, <1>5, <1>6
<1>8. d.dprev = c.dprev /\ d.dnext = c.dnext
  BY <1>3, <1>4, <1>5
<1>9. \A j \in 1 .. Len(s) - 1 : s[j] \in Objs
  BY <1>1
<1>10. Follows(d, s)
  BY <1>7, <1>8, <1>9 DEF Follows
<1> QED BY <1>10 DEF d, m

\* Destructing a listed object takes it out of the list and moves no other.
LEMMA DestructFollows ==
  ASSUME NEW c, NEW alive, LinkInv(c, alive), NEW s, Follows(c, s),
         NEW k \in 1 .. Len(s), s[k] # AutoObj
  PROVE  Follows(Forget(DoDelete(c, s[k]), s[k]), Without(s, k))
<1> DEFINE o == s[k]
           m == DoDelete(c, o)
           d == Forget(m, o)
           t == Without(s, k)
           size == Len(s)
<1>1. s \in Seq(Objs) /\ size \in Nat /\ k \in 1 .. size /\ DOMAIN s = 1 .. size /\ Nil \notin Objs
      /\ s # <<>> /\ \A j \in 1 .. size : s[j] \in Objs
  BY ChainAssumption DEF Follows
<1>2. s[1] = AutoObj /\ c.dnext = AutoObj /\ c.dprev = s[size]
  BY <1>1 DEF Follows
<1>3. \A a, b \in 1 .. size : s[a] = s[b] => a = b
  BY <1>1 DEF Follows, IsInjective
<1>4. t \in Seq(Objs) /\ Len(t) = size - 1 /\ \A j \in 1 .. size - 1 : t[j] = IF j < k THEN s[j] ELSE s[j + 1]
  BY <1>1, WithoutIs
<1>5. /\ \A j \in 1 .. size : c.next[s[j]] = IF j < size THEN s[j + 1] ELSE Nil
      /\ \A p \in Objs \ Members(s) : c.next[p] = Nil
      /\ \A j \in 2 .. size : c.prev[s[j]] = s[j - 1]
  BY LinksFollowed
<1>6. c.next \in [Objs -> Objs \cup {Nil}] /\ c.prev \in [Objs -> Objs \cup {Nil}]
  BY DEF LinkInv, ChainType
<1>7. o = s[k] /\ o # AutoObj /\ o \in Objs /\ m = DoDelete(c, o)
  BY <1>1
<1>8. /\ d.next = [p \in Objs |-> IF p = o \/ m.next[p] = o THEN Nil ELSE m.next[p]]
      /\ d.dprev = (IF m.dprev = o THEN Nil ELSE m.dprev)
      /\ d.dnext = (IF m.dnext = o THEN Nil ELSE m.dnext)
  BY DEF Forget
<1>9. \A p \in Members(s) : \E j \in 1 .. size : p = s[j]
  BY DEF Members
<1> HIDE DEF o, m, d, t, size
<1>10. k \in 2 .. size /\ c.prev[o] = s[k - 1] /\ k - 1 \in 1 .. size /\ s[k - 1] # o
  <2>1. k # 1
    BY <1>2, <1>7
  <2>2. k \in 2 .. size /\ k - 1 \in 1 .. size /\ k - 1 # k
    BY <1>1, <2>1
  <2> QED BY <1>1, <1>3, <1>5, <1>7, <2>2
\* Either way the predecessor leads past it, and the end is the predecessor if it was last.
<1>11. /\ \A p \in Objs : d.next[p] = IF p = o THEN Nil ELSE IF p = s[k - 1] THEN c.next[o] ELSE c.next[p]
       /\ d.dprev = IF k = size THEN s[k - 1] ELSE c.dprev
       /\ d.dnext = AutoObj
  <2>1. c.next[o] = IF k < size THEN s[k + 1] ELSE Nil
    BY <1>1, <1>5, <1>7
  <2>2. s[k - 1] \in Objs /\ c.next[s[k - 1]] = o
    <3>1. k - 1 < size /\ k - 1 + 1 = k
      BY <1>1, <1>10
    <3> QED BY <1>1, <1>5, <1>7, <1>10, <3>1
  <2>3. \A p \in Objs : c.next[p] = o <=> p = s[k - 1]
    BY <1>7, <1>10, <2>2 DEF LinkInv
  <2>4. c.next[o] # o
    BY <1>7, <1>10, <2>3
  <2>5. c.dprev = o <=> k = size
    <3>1. size \in 1 .. size
      BY <1>1
    <3> QED BY <1>1, <1>2, <1>3, <1>7, <3>1
  <2>6. CASE k = size
    <3>1. m.next = c.next /\ m.dprev = s[k - 1] /\ m.dnext = c.dnext
      BY <1>7, <1>10, <2>5, <2>6 DEF DoDelete, IsMiddle
    <3>2. c.next[o] = Nil
      BY <1>1, <2>1, <2>6
    <3> QED BY <1>2, <1>7, <1>8, <1>10, <2>3, <2>6, <3>1, <3>2
  <2>7. CASE k # size
    <3>1. k < size /\ k + 1 \in 1 .. size
      BY <1>1, <2>7
    <3>2. c.next[o] = s[k + 1] /\ s[k + 1] \in Objs /\ s[k + 1] # Nil
      BY <1>1, <2>1, <3>1
    <3>3. IsMiddle(c, o)
      BY <1>1, <1>10, <2>2, <2>5, <2>7, <3>2 DEF IsMiddle
    <3>4. /\ m.next = [c.next EXCEPT ![s[k - 1]] = c.next[o]]
          /\ m.dprev = c.dprev /\ m.dnext = c.dnext
      BY <1>7, <1>10, <3>3 DEF DoDelete, Bridged
    <3>5. \A p \in Objs : m.next[p] = IF p = s[k - 1] THEN c.next[o] ELSE c.next[p]
      BY <1>6, <3>4
    <3>6. \A p \in Objs : m.next[p] # o
      BY <2>3, <2>4, <3>5
    <3>7. \A p \in Objs : d.next[p] = IF p = o THEN Nil ELSE m.next[p]
      BY <1>8, <3>6
    <3>8. d.dprev = c.dprev /\ d.dnext = AutoObj
      BY <1>2, <1>7, <1>8, <2>5, <2>7, <3>4
    <3> QED BY <2>7, <3>5, <3>7, <3>8
  <2> QED BY <2>6, <2>7
<1>12. IsInjective(t)
  <2> SUFFICES ASSUME NEW a \in 1 .. size - 1, NEW b \in 1 .. size - 1, t[a] = t[b] PROVE a = b
    BY <1>4 DEF IsInjective
  <2> DEFINE Old(j) == IF j < k THEN j ELSE j + 1
  <2>1. Old(a) \in 1 .. size /\ Old(b) \in 1 .. size
    BY <1>1
  <2>2. t[a] = s[Old(a)] /\ t[b] = s[Old(b)]
    BY <1>4
  <2>3. Old(a) = Old(b)
    BY <1>3, <2>1, <2>2
  <2> QED BY <1>1, <2>3
<1>13. ASSUME NEW j \in 1 .. size - 2 PROVE d.next[t[j]] = t[j + 1]
  <2>1. j \in 1 .. size - 1 /\ j + 1 \in 1 .. size - 1 /\ size \in Nat /\ k \in 1 .. size
    BY <1>1
  <2>2. CASE j < k - 1
    <3>1. t[j] = s[j] /\ t[j + 1] = s[j + 1] /\ j \in 1 .. size /\ j < size
      BY <1>4, <2>1, <2>2
    <3>2. s[j] # o /\ s[j] # s[k - 1]
      <4>1. j # k /\ j # k - 1
        BY <2>1, <2>2
      <4> QED BY <1>1, <1>3, <1>7, <1>10, <3>1, <4>1
    <3> QED BY <1>1, <1>5, <1>11, <3>1, <3>2
  <2>3. CASE j = k - 1
    <3>1. t[j] = s[k - 1] /\ t[j + 1] = s[k + 1] /\ k < size
      <4>1. j < k /\ ~(j + 1 < k) /\ j + 1 + 1 = k + 1 /\ k < size
        BY <2>1, <2>3
      <4> QED BY <1>4, <2>1, <2>3, <4>1
    <3>2. c.next[o] = s[k + 1]
      BY <1>1, <1>5, <1>7, <3>1
    <3> QED BY <1>1, <1>10, <1>11, <3>1, <3>2
  <2>4. CASE j > k - 1
    <3>1. t[j] = s[j + 1] /\ t[j + 1] = s[j + 1 + 1] /\ j + 1 \in 1 .. size /\ j + 1 < size
      <4>1. ~(j < k) /\ ~(j + 1 < k)
        BY <2>1, <2>4
      <4> QED BY <1>4, <2>1, <4>1
    <3>2. s[j + 1] # o /\ s[j + 1] # s[k - 1]
      <4>1. j + 1 # k /\ j + 1 # k - 1
        BY <2>1, <2>4
      <4> QED BY <1>1, <1>3, <1>7, <1>10, <3>1, <4>1
    <3>3. c.next[s[j + 1]] = s[j + 1 + 1]
      BY <1>5, <3>1
    <3> QED BY <1>1, <1>11, <3>1, <3>2, <3>3
  <2>5. j < k - 1 \/ j = k - 1 \/ j > k - 1
    BY <2>1
  <2> QED BY <2>2, <2>3, <2>4, <2>5
<1>14. ASSUME NEW p \in Objs, \A j \in 1 .. size - 2 : t[j] # p PROVE d.next[p] = Nil
  <2>1. CASE p = o
    BY <1>11, <2>1
  <2>2. CASE p = s[k - 1]
    <3>1. k = size
      <4> SUFFICES ASSUME k # size PROVE FALSE
        OBVIOUS
      <4>1. k - 1 \in 1 .. size - 2 /\ k - 1 \in 1 .. size - 1 /\ k - 1 < k
        BY <1>1, <1>10
      <4>2. t[k - 1] = s[k - 1]
        BY <1>4, <4>1
      <4> QED BY <1>14, <2>2, <4>1, <4>2
    <3>2. c.next[o] = Nil
      BY <1>1, <1>5, <1>7, <3>1
    <3> QED BY <1>10, <1>11, <2>2, <3>2
  <2>3. CASE p # o /\ p # s[k - 1] /\ p \in Members(s)
    <3>1. PICK i \in 1 .. size : p = s[i]
      BY <1>9, <2>3
    <3>2. i # k /\ i # k - 1 /\ i \in Nat /\ size \in Nat /\ k \in 1 .. size
      BY <1>1, <1>7, <2>3, <3>1
    <3>3. i = size
      <4> SUFFICES ASSUME i # size PROVE FALSE
        OBVIOUS
      <4>1. CASE i < k
        <5>1. i \in 1 .. size - 2 /\ i \in 1 .. size - 1
          BY <3>2, <4>1
        <5> QED BY <1>4, <1>14, <3>1, <4>1, <5>1
      <4>2. CASE ~(i < k)
        <5>1. i - 1 \in 1 .. size - 2 /\ i - 1 \in 1 .. size - 1 /\ ~(i - 1 < k) /\ i - 1 + 1 = i
          BY <1>10, <3>2, <4>2
        <5>2. t[i - 1] = s[i]
          BY <1>4, <5>1
        <5> QED BY <1>14, <3>1, <5>1, <5>2
      <4> QED BY <4>1, <4>2
    <3>4. c.next[p] = Nil
      BY <1>1, <1>5, <3>1, <3>3
    <3> QED BY <1>11, <2>3, <3>4
  <2>4. CASE p # o /\ p # s[k - 1] /\ p \notin Members(s)
    BY <1>5, <1>11, <2>4
  <2> QED BY <2>1, <2>2, <2>3, <2>4
<1>15. t # <<>> /\ t[1] = AutoObj /\ d.dprev = t[Len(t)]
  <2>1. size \in Nat /\ size >= 2 /\ 1 \in 1 .. size - 1 /\ size - 1 \in 1 .. size - 1 /\ 1 < k
    BY <1>1, <1>10
  <2>2. t[1] = s[1]
    BY <1>4, <2>1
  <2>3. t[size - 1] = IF k = size THEN s[k - 1] ELSE s[size]
    <3>1. t[size - 1] = IF size - 1 < k THEN s[size - 1] ELSE s[size - 1 + 1]
      BY <1>4, <2>1
    <3>2. (size - 1 < k <=> k = size) /\ size - 1 + 1 = size
      BY <1>1
    <3> QED BY <3>1, <3>2
  <2>4. t # <<>>
    BY <1>4, <2>1
  <2> QED BY <1>2, <1>4, <1>11, <2>2, <2>3, <2>4
<1>16. Len(t) - 1 = size - 2
  BY <1>1, <1>4
<1>17. Follows(d, t)
  BY <1>4, <1>11, <1>12, <1>13, <1>14, <1>15, <1>16 DEF Follows
<1> QED BY <1>17 DEF d, m, t, o

(***************************************************************************)
(* The steps.  Only a driver object that is never reloaded keeps the list. *)
(***************************************************************************)

ListInd ==
  /\ ChainIndInv
  /\ Follows(chain, Listed)
  /\ Members(Listed) \subseteq live
  /\ used \cap Clones # {} => Listed # <<>>

\* t is s with objects entered behind it, some of which may be new: S become T.
Grown(s, t, S, T) ==
  /\ Len(s) <= Len(t)
  /\ \A j \in 1 .. Len(s) : t[j] = s[j]
  /\ \A j \in Len(s) + 1 .. Len(t) : t[j] \notin S \/ (s = <<>> /\ j = 1 /\ t[j] = AutoObj)
  /\ T = S \cup Members(t)

LEMMA GrownEnters ==
  ASSUME NEW c, NEW d, NEW s, NEW t, Follows(c, s), Follows(d, t), NEW S, NEW T, Grown(s, t, S, T)
  PROVE  /\ t = s \o SubSeq(t, Len(s) + 1, Len(t))
         /\ IsInjective(SubSeq(t, Len(s) + 1, Len(t)))
         /\ \A i \in DOMAIN SubSeq(t, Len(s) + 1, Len(t)) :
              \/ SubSeq(t, Len(s) + 1, Len(t))[i] \notin S
              \/ s = <<>> /\ i = 1 /\ SubSeq(t, Len(s) + 1, Len(t))[i] = AutoObj
         /\ Members(s) \subseteq S =>
              T = S \cup {SubSeq(t, Len(s) + 1, Len(t))[i] : i \in DOMAIN SubSeq(t, Len(s) + 1, Len(t))}
<1> DEFINE b == SubSeq(t, Len(s) + 1, Len(t))
           l == Len(s)
           m == Len(t)
<1>1. /\ s \in Seq(Objs) /\ t \in Seq(Objs) /\ l \in Nat /\ m \in Nat /\ l <= m
      /\ \A j \in 1 .. m : t[j] \in Objs
  BY DEF Follows, Grown
<1>2. \A j, k \in 1 .. m : t[j] = t[k] => j = k
  BY DEF Follows, IsInjective
<1>3. b \in Seq(Objs) /\ Len(b) = m - l /\ DOMAIN b = 1 .. m - l /\ \A j \in 1 .. m - l : b[j] = t[l + j]
  <2>1. \A j \in l + 1 .. m : t[j] \in Objs
    BY <1>1
  <2>2. /\ b \in Seq(Objs) /\ Len(b) = (IF l + 1 <= m THEN m - (l + 1) + 1 ELSE 0)
        /\ \A j \in 1 .. m - (l + 1) + 1 : b[j] = t[l + 1 + j - 1]
    BY <1>1, <2>1, SubSeqProperties
  <2> QED BY <1>1, <2>2
<1>4. /\ \A j \in 1 .. l : t[j] = s[j]
      /\ \A j \in l + 1 .. m : t[j] \notin S \/ (s = <<>> /\ j = 1 /\ t[j] = AutoObj)
      /\ T = S \cup Members(t)
  BY DEF Grown
<1>5. Members(s) = {s[j] : j \in 1 .. l} /\ Members(t) = {t[j] : j \in 1 .. m}
  BY DEF Members
<1>6. s = <<>> => l = 0
  OBVIOUS
<1> HIDE DEF b, l, m
<1>7. t = s \o b
  <2>1. /\ s \o b \in Seq(Objs) /\ Len(s \o b) = l + Len(b)
        /\ \A j \in 1 .. l + Len(b) : (s \o b)[j] = IF j <= l THEN s[j] ELSE b[j - l]
    BY <1>1, <1>3, ConcatProperties DEF l
  <2>2. l + Len(b) = m
    BY <1>1, <1>3
  <2>3. ASSUME NEW j \in 1 .. m PROVE t[j] = (s \o b)[j]
    <3>1. CASE j <= l
      BY <1>1, <1>4, <2>1, <2>2, <3>1
    <3>2. CASE ~(j <= l)
      <4>1. j - l \in 1 .. m - l /\ l + (j - l) = j
        BY <1>1, <3>2
      <4> QED BY <1>3, <2>1, <2>2, <3>2, <4>1
    <3> QED BY <3>1, <3>2
  <2> QED BY <1>1, <2>1, <2>2, <2>3, SeqEqual DEF m
<1>8. ASSUME NEW j \in 1 .. m - l, NEW k \in 1 .. m - l, b[j] = b[k] PROVE j = k
  <2>1. l + j \in 1 .. m /\ l + k \in 1 .. m /\ t[l + j] = t[l + k]
    BY <1>1, <1>3, <1>8
  <2>2. l + j = l + k
    BY <1>2, <2>1
  <2> QED BY <1>1, <2>2
<1>9. ASSUME NEW i \in 1 .. m - l
      PROVE  b[i] \notin S \/ (s = <<>> /\ i = 1 /\ b[i] = AutoObj)
  <2>1. l + i \in l + 1 .. m /\ b[i] = t[l + i]
    BY <1>1, <1>3
  <2>2. t[l + i] \notin S \/ (s = <<>> /\ l + i = 1 /\ t[l + i] = AutoObj)
    BY <1>4, <2>1
  <2> QED BY <1>6, <2>1, <2>2
<1>10. ASSUME Members(s) \subseteq S PROVE T = S \cup {b[i] : i \in 1 .. m - l}
  <2>1. ASSUME NEW x \in Members(t) PROVE x \in S \cup {b[i] : i \in 1 .. m - l}
    <3>1. PICK j \in 1 .. m : x = t[j]
      BY <1>5
    <3>2. CASE j <= l
      <4>1. j \in 1 .. l
        BY <1>1, <3>2
      <4> QED BY <1>4, <1>5, <1>10, <3>1, <4>1
    <3>3. CASE ~(j <= l)
      <4>1. j - l \in 1 .. m - l /\ l + (j - l) = j
        BY <1>1, <3>3
      <4> QED BY <1>3, <3>1, <4>1
    <3> QED BY <3>2, <3>3
  <2>2. ASSUME NEW i \in 1 .. m - l PROVE b[i] \in Members(t)
    <3>1. l + i \in 1 .. m /\ b[i] = t[l + i]
      BY <1>1, <1>3
    <3> QED BY <1>5, <3>1
  <2> QED BY <1>4, <2>1, <2>2
<1> QED BY <1>3, <1>7, <1>8, <1>9, <1>10 DEF b, l, m, IsInjective

\* One more object.
LEMMA GrowsByOne ==
  ASSUME NEW c, NEW d, NEW s, NEW t, Follows(c, s), Follows(d, t), NEW S, NEW T, Grown(s, t, S, T),
         NEW o \in Objs, o \notin T
  PROVE  Grown(s, Append(t, o), S, T \cup {o})
<1> DEFINE l == Len(s)
           m == Len(t)
           u == Append(t, o)
<1>1. s \in Seq(Objs) /\ t \in Seq(Objs) /\ l \in Nat /\ m \in Nat
  BY DEF Follows
<1>2. Len(u) = m + 1 /\ (\A j \in 1 .. m : u[j] = t[j]) /\ u[m + 1] = o
  BY <1>1, AppendProperties
<1>3. /\ l <= m
      /\ \A j \in 1 .. l : t[j] = s[j]
      /\ \A j \in l + 1 .. m : t[j] \notin S \/ (s = <<>> /\ j = 1 /\ t[j] = AutoObj)
      /\ T = S \cup Members(t)
  BY DEF Grown
<1>4. Members(t) = {t[j] : j \in 1 .. m} /\ Members(u) = {u[j] : j \in 1 .. m + 1}
  BY <1>2 DEF Members
<1> HIDE DEF u, l, m
<1>5. Members(u) = Members(t) \cup {o}
  <2>1. \A x \in Members(u) : x \in Members(t) \cup {o}
    BY <1>1, <1>2, <1>4
  <2>2. \A x \in Members(t) : x \in Members(u)
    <3> SUFFICES ASSUME NEW j \in 1 .. m PROVE t[j] \in Members(u)
      BY <1>4
    <3>1. j \in 1 .. m + 1
      BY <1>1
    <3> QED BY <1>2, <1>4, <3>1
  <2>3. m + 1 \in 1 .. m + 1
    BY <1>1
  <2> QED BY <1>2, <1>4, <2>1, <2>2, <2>3
<1>6. \A j \in 1 .. l : u[j] = s[j]
  BY <1>1, <1>2, <1>3
<1>7. ASSUME NEW j \in l + 1 .. m + 1 PROVE u[j] \notin S \/ (s = <<>> /\ j = 1 /\ u[j] = AutoObj)
  <2>1. j \in l + 1 .. m \/ j = m + 1
    BY <1>1
  <2>2. CASE j \in l + 1 .. m
    <3>1. u[j] = t[j]
      BY <1>1, <1>2, <2>2
    <3> QED BY <1>3, <2>2, <3>1
  <2>3. CASE j = m + 1
    BY <1>2, <1>3, <2>3
  <2> QED BY <2>1, <2>2, <2>3
<1>8. l <= m + 1
  BY <1>1, <1>3
<1> QED BY <1>2, <1>3, <1>5, <1>6, <1>7, <1>8 DEF Grown, u, l, m

\* While objects are entered: t is listed by now, S became T.
Entering(c, s, t, S, T) == Follows(c, t) /\ c \in ChainType /\ t # <<>> /\ Grown(s, t, S, T)

LEMMA EnterOne ==
  ASSUME NEW b, NEW s, Follows(b, s), NEW c, NEW t, NEW S, NEW T, Entering(c, s, t, S, T),
         NEW o \in Objs, o \notin T
  PROVE  Entering(DoInsert(c, o), s, Append(t, o), S, T \cup {o})
<1>1. Follows(c, t) /\ c \in ChainType /\ t # <<>> /\ Grown(s, t, S, T) /\ t \in Seq(Objs)
  BY DEF Entering, Follows
<1>2. o \notin Members(t)
  BY <1>1 DEF Grown
<1>3. Follows(DoInsert(c, o), Append(t, o))
  BY <1>1, <1>2, InsertFollows
<1>4. Grown(s, Append(t, o), S, T \cup {o})
  BY <1>1, <1>3, GrowsByOne
<1>5. DoInsert(c, o) \in ChainType
  BY <1>1 DEF DoInsert, ChainType
<1>6. Append(t, o) # <<>>
  BY <1>1, AppendProperties
<1> QED BY <1>1, <1>3, <1>4, <1>5, <1>6 DEF Entering

\* call_object() begins with at least the auto object listed.
LEMMA EnterAuto ==
  ASSUME ListInd, NEW c \in Anchored(chain)
  PROVE  Entering(c, Listed, IF Listed = <<>> THEN <<AutoObj>> ELSE Listed, live, live)
<1> DEFINE s == Listed
           t == IF s = <<>> THEN <<AutoObj>> ELSE s
<1>1. Follows(chain, s) /\ Members(s) \subseteq live /\ chain \in ChainType /\ AutoObj \in live
  BY DEF ListInd, ChainIndInv, LinkInv
<1> HIDE DEF s
<1>2. Follows(c, t) /\ c \in ChainType
  BY <1>1, AnchorFollows
<1>3. s \in Seq(Objs)
  BY <1>1 DEF Follows
<1>4. CASE s = <<>>
  <2>1. t = <<AutoObj>>
    BY <1>4
  <2>2. Members(t) = {AutoObj} /\ Len(t) = 1 /\ Len(s) = 0 /\ t[1] = AutoObj /\ t # <<>>
    BY <1>4, <2>1 DEF Members
  <2> HIDE DEF t
  <2>3. Grown(s, t, live, live)
    BY <1>1, <1>4, <2>2 DEF Grown
  <2> QED BY <1>2, <2>2, <2>3 DEF Entering, s, t
<1>5. CASE s # <<>>
  <2>1. t = s /\ Len(s) \in Nat
    BY <1>3, <1>5
  <2> HIDE DEF t
  <2>2. Grown(s, t, live, live)
    BY <1>1, <2>1 DEF Grown
  <2> QED BY <1>2, <1>5, <2>1, <2>2 DEF Entering, s, t
<1> QED BY <1>4, <1>5

\* Then the list takes that step.
LEMMA Entered ==
  ASSUME ListInd, ChainIndInv', NEW t, Entering(chain', Listed, t, live, live')
  PROVE  ListInd' /\ List!Enter
<1> DEFINE s == Listed
           b == SubSeq(t, Len(s) + 1, Len(t))
<1>1. Follows(chain, s) /\ Members(s) \subseteq live /\ Follows(chain', t) /\ t # <<>> /\ Grown(s, t, live, live')
  BY DEF ListInd, Entering
<1>2. Listed' = t
  BY <1>1, FollowedIsListed DEF Listed
<1> HIDE DEF s
<1>3. /\ t = s \o b /\ IsInjective(b)
      /\ \A i \in DOMAIN b : b[i] \notin live \/ (s = <<>> /\ i = 1 /\ b[i] = AutoObj)
      /\ live' = live \cup {b[i] : i \in DOMAIN b}
  BY <1>1, GrownEnters
<1>4. ListInd'
  BY <1>1, <1>2 DEF ListInd, Grown
<1>5. List!Enter
  <2>1. b = SubSeq(Listed', Len(Listed) + 1, Len(Listed'))
    BY <1>2 DEF s
  <2> HIDE DEF b
  <2>2. /\ Listed' = Listed \o b /\ IsInjective(b)
        /\ \A i \in DOMAIN b : b[i] \notin live \/ (Listed = <<>> /\ i = 1 /\ b[i] = AutoObj)
        /\ live' = live \cup {b[i] : i \in DOMAIN b}
    BY <1>2, <1>3 DEF s
  <2>3. List!IsInjective(b)
    BY <2>2 DEF List!IsInjective, IsInjective
  <2>4. b \in {SubSeq(Listed', Len(Listed) + 1, Len(Listed'))}
    BY <2>1
  <2> HIDE DEF Listed
  <2> QED BY <2>2, <2>3, <2>4 DEF List!Enter
<1> QED BY <1>4, <1>5

LEMMA ListStart == ChainInit => ListInd /\ List!ListInit
<1> SUFFICES ASSUME ChainInit PROVE ListInd /\ List!ListInit
  OBVIOUS
<1>1. ChainIndInv
  BY ChainInitInd
<1>2. Follows(chain, <<>>)
  BY ChainAssumption DEF ChainInit, Follows, Unlinked, IsInjective
<1>3. Listed = <<>>
  BY <1>2, FollowedIsListed DEF Listed
<1>4. Members(<<>>) = {}
  BY DEF Members
<1>5. used \cap Clones = {} /\ live = {AutoObj}
  BY ChainAssumption DEF ChainInit, Clones
<1> QED BY <1>1, <1>2, <1>3, <1>4, <1>5 DEF ListInd, List!ListInit

LEMMA ListStep ==
  ASSUME ~MayReload, ListInd, [ChainNext]_chainVars
  PROVE  ListInd' /\ [List!ListNext]_(List!listVars)
<1> USE ChainAssumption
<1>0. /\ ChainIndInv /\ ChainIndInv' /\ LinkInv(chain, live) /\ chain \in ChainType /\ AutoObj \in live
      /\ live \subseteq used /\ used \subseteq Objs
      /\ Follows(chain, Listed) /\ Members(Listed) \subseteq live
      /\ used \cap Clones # {} => Listed # <<>>
  BY ChainStepInd DEF ListInd, ChainIndInv, LinkInv
<1> DEFINE Goal == ListInd' /\ [List!ListNext]_(List!listVars)
<1>1. ASSUME NEW m \in Masters, Preload(m) PROVE Goal
  <2>1. /\ m \in Objs \ live /\ live' = live \cup {m} /\ used' = used \cup {m} /\ chain' = chain
        /\ used' \cap Clones = used \cap Clones
    BY <1>0, <1>1 DEF Preload, Created, Clones
  <2>2. Listed' = Listed
    BY <2>1 DEF Listed
  <2>3. ListInd'
    BY <1>0, <2>1, <2>2 DEF ListInd
  <2>4. List!Appear(m)
    BY <2>1, <2>2 DEF List!Appear
  <2> QED BY <2>1, <2>3, <2>4 DEF List!ListNext
<1>2. ASSUME NEW m \in Masters, CallObject(m) PROVE Goal
  <2>1. PICK c \in Anchored(chain) : chain' = IF m \in live THEN c ELSE DoInsert(c, m)
    BY <1>2 DEF CallObject
  <2>2. live' = live \cup {m} /\ m \in Objs
    BY <1>2 DEF CallObject, Created
  <2>3. PICK t : Entering(c, Listed, t, live, live)
    BY EnterAuto
  <2>4. \E u : Entering(chain', Listed, u, live, live')
    <3>1. CASE m \in live
      <4>1. live' = live /\ chain' = c
        BY <2>1, <2>2, <3>1
      <4> QED BY <2>3, <4>1
    <3>2. CASE m \notin live
      BY <1>0, <2>1, <2>2, <2>3, <3>2, EnterOne
    <3> QED BY <3>1, <3>2
  <2> QED BY <1>0, <2>4, Entered DEF List!ListNext
<1>3. ASSUME NEW o \in Clones, CloneByName(o) PROVE Goal
  <2> DEFINE m == MasterOf[o]
  <2>1. PICK c \in Anchored(chain) :
          chain' = DoInsert(IF m \in live THEN c ELSE DoInsert(c, m), o)
    BY <1>3 DEF CloneByName
  <2>2. live' = live \cup {m, o} /\ o \notin used
    BY <1>3 DEF CloneByName, Created
  <2>3. m \in Masters /\ m \in Objs /\ o \in Objs \ live /\ o # m
    BY <1>0, <2>2 DEF Clones
  <2> HIDE DEF m
  <2>4. PICK t : Entering(c, Listed, t, live, live)
    BY EnterAuto
  <2> DEFINE d == IF m \in live THEN c ELSE DoInsert(c, m)
  <2>5. PICK u : Entering(d, Listed, u, live, live \cup {m})
    <3>1. CASE m \in live
      <4>1. live \cup {m} = live /\ d = c
        BY <3>1
      <4> QED BY <2>4, <4>1
    <3>2. CASE m \notin live
      BY <1>0, <2>3, <2>4, <3>2, EnterOne
    <3> QED BY <3>1, <3>2
  <2>6. chain' = DoInsert(d, o)
    BY <2>1
  <2> HIDE DEF d
  <2>7. o \notin live \cup {m} /\ live' = live \cup {m} \cup {o}
    BY <2>2, <2>3
  <2>8. Entering(chain', Listed, Append(u, o), live, live')
    BY <1>0, <2>3, <2>5, <2>6, <2>7, EnterOne
  <2> QED BY <1>0, <2>8, Entered DEF List!ListNext
<1>4. ASSUME NEW o \in Clones, CloneByObject(o) PROVE Goal
  <2>1. /\ chain' = DoInsert(chain, o) /\ live' = live \cup {o}
        /\ o \in Objs /\ o \notin live /\ used \cap Clones # {}
    BY <1>0, <1>4 DEF CloneByObject, Created, Clones
  <2>2. Listed # <<>>
    BY <1>0, <2>1
  <2>3. Listed \in Seq(Objs) /\ Len(Listed) \in Nat
    BY <1>0 DEF Follows
  <2>4. Grown(Listed, Listed, live, live)
    BY <1>0, <2>3 DEF Grown
  <2>5. Entering(chain, Listed, Listed, live, live)
    BY <1>0, <2>2, <2>4 DEF Entering
  <2>6. Entering(chain', Listed, Append(Listed, o), live, live')
    BY <1>0, <2>1, <2>5, EnterOne
  <2> QED BY <1>0, <2>6, Entered DEF List!ListNext
<1>5. ASSUME NEW o \in Objs, Destruct(o) PROVE Goal
  <2>1. /\ chain' = Forget(DoDelete(chain, o), o) /\ live' = live \ {o}
        /\ o \in live \ {AutoObj} /\ used' = used
    BY <1>5 DEF Destruct
  <2>2. Listed \in Seq(Objs) /\ DOMAIN Listed = 1 .. Len(Listed) /\ IsInjective(Listed)
    BY <1>0 DEF Follows
  <2>3. CASE o \notin Members(Listed)
    <3>1. Follows(chain', Listed)
      BY <1>0, <2>1, <2>3, UnlistedFollows
    <3>2. Listed' = Listed
      BY <3>1, FollowedIsListed DEF Listed
    <3>3. ListInd'
      BY <1>0, <2>1, <2>3, <3>1, <3>2 DEF ListInd
    <3>4. \A i \in DOMAIN Listed : Listed[i] # o
      BY <2>2, <2>3 DEF Members
    <3>5. List!Leave(o)
      BY <2>1, <3>2, <3>4 DEF List!Leave
    <3> QED BY <3>3, <3>5 DEF List!ListNext
  <2>4. CASE o \in Members(Listed)
    <3>1. PICK k \in 1 .. Len(Listed) : Listed[k] = o
      BY <2>4 DEF Members
    <3>2. Follows(chain', Without(Listed, k))
      BY <1>0, <2>1, <3>1, DestructFollows
    <3>3. Listed' = Without(Listed, k)
      BY <3>2, FollowedIsListed DEF Listed
    <3>4. List!Leave(o)
      BY <2>1, <2>2, <3>1, <3>3 DEF List!Leave, Without
    <3>5. Members(Without(Listed, k)) \subseteq live \ {o}
      <4> DEFINE s == Listed
                 w == Without(s, k)
      <4>0. s \in Seq(Objs) /\ k \in 1 .. Len(s) /\ Len(s) \in Nat
        BY <2>2
      <4> HIDE DEF s
      <4>1. Len(s) \in Nat /\ Len(w) = Len(s) - 1 /\ \A j \in 1 .. Len(s) - 1 : w[j] = IF j < k THEN s[j] ELSE s[j + 1]
        BY <4>0, WithoutIs
      <4>2. s[k] = o /\ k \in 1 .. Len(s) /\ (\A i \in 1 .. Len(s) : s[i] = s[k] => i = k)
            /\ \A i \in 1 .. Len(s) : s[i] \in live
        BY <1>0, <2>2, <3>1 DEF IsInjective, Members, s
      <4> HIDE DEF w
      <4>3. ASSUME NEW j \in 1 .. Len(s) - 1 PROVE w[j] \in live \ {o}
        <5>1. CASE j < k
          <6>1. j \in 1 .. Len(s) /\ j # k
            BY <4>1, <5>1
          <6> QED BY <4>1, <4>2, <5>1, <6>1
        <5>2. CASE ~(j < k)
          <6>1. j + 1 \in 1 .. Len(s) /\ j + 1 # k
            BY <4>1, <4>2, <5>2
          <6> QED BY <4>1, <4>2, <5>2, <6>1
        <5> QED BY <5>1, <5>2
      <4> QED BY <4>1, <4>3 DEF Members, w, s
    <3>6. Without(Listed, k) # <<>>
      <4>1. Without(Listed, k) \in Seq(Objs) /\ Len(Without(Listed, k)) = Len(Listed) - 1
        BY <2>2, WithoutIs
      <4>2. Len(Listed) # 1
        <5> SUFFICES ASSUME Len(Listed) = 1 PROVE FALSE
          OBVIOUS
        <5>1. k = 1 /\ Listed # <<>>
          BY <3>1
        <5> QED BY <1>0, <2>1, <3>1, <5>1 DEF Follows
      <4> QED BY <4>1, <4>2
    <3>7. ListInd'
      BY <1>0, <2>1, <3>2, <3>3, <3>5, <3>6 DEF ListInd
    <3> QED BY <3>4, <3>7 DEF List!ListNext
  <2> QED BY <2>3, <2>4
<1>6. ASSUME UNCHANGED <<chain, live, used>> PROVE Goal
  <2>1. Listed' = Listed /\ live' = live /\ used' = used /\ chain' = chain
    BY <1>6 DEF Listed
  <2> QED BY <1>0, <2>1 DEF ListInd, List!listVars
<1>7. ASSUME Swapper \/ DriverReload \/ UNCHANGED chainVars PROVE Goal
  BY <1>6, <1>7 DEF Swapper, DriverReload, chainVars
<1>8. Goal
  BY <1>1, <1>2, <1>3, <1>4, <1>5, <1>7, Zenon DEF ChainNext
<1> QED BY <1>8

\* As long as the driver object is not reloaded, the links it sets are a list: what is
\* compiled or cloned is entered behind all that was entered before, and what is
\* destructed leaves it without moving or losing another, for any objects (do_insert(),
\* do_delete() and the start of call_object()).
THEOREM ChainImplementsList == ASSUME ~MayReload PROVE ChainSpec => ImplementsList
<1>1. ListInd /\ [ChainNext]_chainVars => ListInd' /\ [List!ListNext]_(List!listVars)
  BY ListStep
<1> QED BY <1>1, ListStart, PTL DEF ChainSpec, ImplementsList, List!ListSpec

\* What the collector does to the chain is what anybody may do: each of its steps is one
\* of the chain, or leaves it alone.
LEMMA GarbageChains == GSpec => ChainSpec
<1>1. GInit => ChainInit
  BY DEF GInit
<1>2. GTypeOK /\ [GNext]_gVars => [ChainNext]_chainVars
  <2>1. ASSUME GTypeOK, Collect PROVE ChainNext \/ UNCHANGED chainVars
    <3>1. CASE StartRun \/ Look \/ Advance
      BY <3>1 DEF StartRun, Look, Advance
    <3>2. CASE DestructNext
      <4>1. PICK o \in doomed : Destruct(o)
        BY <3>2, Zenon DEF DestructNext
      <4>2. o \in Objs
        BY <2>1, <4>1 DEF GTypeOK, ChainTypeOK
      <4> QED BY <4>1, <4>2 DEF ChainNext
    <3> QED BY <2>1, <3>1, <3>2 DEF Collect
  <2>2. Create => ChainNext
    BY DEF Create, ChainNext
  <2>3. SwapOut => ChainNext
    BY DEF SwapOut, ChainNext
  <2> QED BY <2>1, <2>2, <2>3 DEF GNext, gVars, Remove, Move
<1> QED BY <1>1, <1>2, GarbageTypeCorrect, PTL DEF GSpec, ChainSpec

\* Also under the collector's hands the links are a list of the objects that exist, which
\* the walk along it relies on: it removes rooms with all that is in them from the middle
\* of the chain, between two of its steps others add objects, and none is lost or doubled.
THEOREM GarbageImplementsList == ASSUME ~MayReload PROVE GSpec => ImplementsList
  BY GarbageChains, ChainImplementsList
=============================================================================
