---------------------------- MODULE ObjectChain ----------------------------
(***************************************************************************)
(* The chain of all objects of the mudlib.  Every object carries two       *)
(* private references, prev and next, that only the driver object may set  *)
(* (kernel/lib/auto.c); the driver object keeps the two ends of the chain  *)
(* and links objects in when they are compiled or cloned and out when they *)
(* are destructed (kernel/sys/driver.c, kernel/lib/simfun.c).              *)
(*                                                                         *)
(* A reference to a destructed object is nil from then on, in every        *)
(* object: that is the virtual machine's doing and is part of Forget.      *)
(***************************************************************************)
EXTENDS Naturals, Sequences, FiniteSets

CONSTANTS
  Objs,       \* all objects that are ever created
  Masters,    \* those that are compiled from a file; the others are clones
  MasterOf,   \* the master each clone is cloned from
  AutoObj,       \* the auto object, compiled before everything else
  Nil,        \* the LPC value nil
  SwapChunk,  \* _SWAPCHUNK
  MayReload   \* whether the driver object itself may be destructed and reloaded

ASSUME ChainAssumption ==
  /\ IsFiniteSet(Objs)
  /\ Masters \subseteq Objs
  /\ AutoObj \in Masters
  /\ Nil \notin Objs
  /\ MasterOf \in [Objs \ Masters -> Masters]
  /\ SwapChunk \in Nat
  /\ MayReload \in BOOLEAN

VARIABLES
  chain,    \* the references: see ChainType
  live,     \* the objects that exist
  used,     \* the objects that exist or have existed (an object is created once)
  count,    \* creation_count of the driver object
  swaps     \* pending call_outs of swapper()

chainVars == <<chain, live, used, count, swaps>>

Clones == Objs \ Masters

(* prev and next are the objects' own; dprev and dnext the driver object's: *)
(* its prev is the last object of the chain, its next the first.            *)
ChainType == [prev : [Objs -> Objs \cup {Nil}], next : [Objs -> Objs \cup {Nil}],
              dprev : Objs \cup {Nil}, dnext : Objs \cup {Nil}]

Unlinked == [o \in Objs |-> Nil]

(***************************************************************************)
(* Linking and unlinking.                                                  *)
(***************************************************************************)

\* Mutant: the driver object keeps its old end of the chain.
DoInsertEndStays(c, o) ==
  [prev  |-> IF c.dprev = Nil THEN c.prev ELSE [c.prev EXCEPT ![o] = c.dprev],
   next  |-> IF c.dprev = Nil THEN c.next ELSE [c.next EXCEPT ![c.dprev] = o],
   dprev |-> IF c.dprev = Nil THEN o ELSE c.dprev,
   dnext |-> c.dnext]

\* do_insert(): link o behind the last object.
DoInsert(c, o) ==
  [prev  |-> IF c.dprev = Nil THEN c.prev ELSE [c.prev EXCEPT ![o] = c.dprev],
   next  |-> IF c.dprev = Nil THEN c.next ELSE [c.next EXCEPT ![c.dprev] = o],
   dprev |-> o,
   dnext |-> c.dnext]

IsMiddle(c, o) == c.dprev # o /\ c.prev[o] # Nil /\ c.next[o] # Nil

\* The predecessor and the successor of o linked to each other.
Bridged(c, o) ==
  [prev  |-> [c.prev EXCEPT ![c.next[o]] = c.prev[o]],
   next  |-> [c.next EXCEPT ![c.prev[o]] = c.next[o]],
   dprev |-> c.dprev,
   dnext |-> c.dnext]

\* Mutant: the predecessor is relinked, the successor is not.
DoDeleteHalf(c, o) ==
  IF c.dprev = o THEN [c EXCEPT !.dprev = c.prev[o]]
  ELSE IF IsMiddle(c, o) THEN [c EXCEPT !.next[c.prev[o]] = c.next[o]]
  ELSE c

\* do_delete(): unlink o.  The last object only moves the driver's end; an
\* object that lacks one of its references is left to Forget.
DoDelete(c, o) ==
  IF IsMiddle(c, o) THEN Bridged(c, o)
  ELSE [prev |-> c.prev, next |-> c.next, dnext |-> c.dnext,
        dprev |-> IF c.dprev = o THEN c.prev[o] ELSE c.dprev]

\* Every reference to a destructed object becomes nil, and its own are gone.
Forget(c, o) ==
  LET Gone(f) == [p \in Objs |-> IF p = o \/ f[p] = o THEN Nil ELSE f[p]]
  IN  [prev |-> Gone(c.prev), next |-> Gone(c.next),
       dprev |-> IF c.dprev = o THEN Nil ELSE c.dprev,
       dnext |-> IF c.dnext = o THEN Nil ELSE c.dnext]

\* The objects that can be reached from o by following next.
Ahead(c, o) ==
  LET reach[n \in 0 .. Cardinality(Objs)] ==
        IF n = 0 THEN {o} \ {Nil}
        ELSE UNION {r \cup ({c.next[p] : p \in r} \ {Nil}) : r \in {reach[n - 1]}}
  IN  reach[Cardinality(Objs)]

\* The start of call_object(): a driver object without an end of the chain
\* takes the auto object for its beginning and looks for the last object (the
\* objects it meets exist, as references always do).
Anchored(c) ==
  IF c.dprev # Nil THEN {c}
  ELSE {[c EXCEPT !.dnext = AutoObj, !.dprev = t] :
          t \in {p \in live \cap Ahead(c, AutoObj) : c.next[p] = Nil}}

(***************************************************************************)
(* Operations.                                                             *)
(***************************************************************************)

ChainInit ==
  /\ chain = [prev |-> Unlinked, next |-> Unlinked, dprev |-> Nil, dnext |-> Nil]
  /\ live = {AutoObj}
  /\ used = {AutoObj}
  /\ count = 0
  /\ swaps = 0

Created(S) == live' = live \cup S /\ used' = used \cup S

\* initialize() compiles the preloaded files with the driver's own
\* compile_object(), which does not enter them into the chain.
Preload(m) ==
  /\ m \in Masters \ used
  /\ Created({m})
  /\ UNCHANGED <<chain, count, swaps>>

\* call_object(): find an object by its file name, or compile it.
CallObject(m) ==
  /\ m \in Masters
  /\ m \in live \/ m \notin used
  /\ \E c \in Anchored(chain) : chain' = IF m \in live THEN c ELSE DoInsert(c, m)
  /\ Created({m})
  /\ UNCHANGED <<count, swaps>>

\* clone_object() with a file name, and telnet_connect() and binary_connect():
\* call_object() finds or compiles the master, then the clone is linked in.
CloneByName(o) ==
  /\ o \in Clones \ used
  /\ LET m == MasterOf[o] IN
     /\ m \in live \/ m \notin used
     /\ \E c \in Anchored(chain) :
          chain' = DoInsert(IF m \in live THEN c ELSE DoInsert(c, m), o)
     /\ Created({m, o})
  /\ UNCHANGED <<count, swaps>>

\* clone_object() with the master object itself: call_object() is not called.
\* Only code that a connected coder loads clones this way, and a connection
\* object is itself a clone made by name.
CloneByObject(o) ==
  /\ o \in Clones \ used
  /\ used \cap Clones # {}
  /\ MasterOf[o] \in live
  /\ chain' = DoInsert(chain, o)
  /\ Created({o})
  /\ UNCHANGED <<count, swaps>>

\* Mutant: creation_count is compared before it is incremented.
NextCountLate(k) == IF k > SwapChunk THEN 0 ELSE k + 1

\* ++creation_count, back to 0 when it schedules a swapout.
NextCount(k) == IF k + 1 > SwapChunk THEN 0 ELSE k + 1

\* do_destruct_object(); unlinking an object from the middle of the chain
\* counts towards the next swapout.
Destruct(o) ==
  /\ o \in live \ {AutoObj}
  /\ chain' = Forget(DoDelete(chain, o), o)
  /\ live' = live \ {o}
  /\ IF ~IsMiddle(chain, o) THEN UNCHANGED <<count, swaps>>
     ELSE /\ count' = NextCount(count)
          /\ swaps' = IF count + 1 > SwapChunk THEN swaps + 1 ELSE swaps
  /\ UNCHANGED used

\* swapper(): the call_out fires and the virtual machine swaps objects out.
Swapper ==
  /\ swaps > 0
  /\ swaps' = swaps - 1
  /\ UNCHANGED <<chain, live, used, count>>

\* The driver object is destructed and compiled anew: its variables are nil.
DriverReload ==
  /\ MayReload
  /\ chain' = [chain EXCEPT !.dprev = Nil, !.dnext = Nil]
  /\ count' = 0
  /\ swaps' = 0
  /\ UNCHANGED <<live, used>>

ChainNext ==
  \/ \E m \in Masters : Preload(m) \/ CallObject(m)
  \/ \E o \in Clones : CloneByName(o) \/ CloneByObject(o)
  \/ \E o \in Objs : Destruct(o)
  \/ Swapper
  \/ DriverReload

ChainSpec == ChainInit /\ [][ChainNext]_chainVars

(***************************************************************************)
(* What the chain is for.                                                  *)
(***************************************************************************)

\* Objects that do not exist take no part in the chain.
DeadUnlinked ==
  /\ \A o \in Objs \ live : chain.prev[o] = Nil /\ chain.next[o] = Nil
  /\ \A o \in Objs : chain.prev[o] \in live \cup {Nil}
                   /\ chain.next[o] \in live \cup {Nil}
  /\ chain.dprev \in live \cup {Nil}
  /\ chain.dnext \in live \cup {Nil}

\* The state of the chain has the types the declarations in driver.c and
\* auto.c give it, and names existing objects only.
ChainTypeOK ==
  /\ chain \in ChainType
  /\ live \subseteq used
  /\ used \subseteq Objs
  /\ count \in 0 .. SwapChunk
  /\ swaps \in Nat
  /\ DeadUnlinked

\* The two references of every pair of neighbours agree, whatever order
\* objects are created and destructed in and even if the driver object is
\* reloaded in between: the garbage collector's walk along next and the
\* unlinking by prev see the same chain (do_insert(), do_delete()).
TwoWay ==
  \A a, b \in Objs : chain.next[a] = b <=> chain.prev[b] = a

\* Nothing follows the object the driver object takes for the last one, so
\* the next insertion loses no object behind it.
EndIsEnd == chain.dprev # Nil => chain.next[chain.dprev] = Nil

\* Both, which is what the next insertion and removal rely on.
ChainInv == TwoWay /\ EndIsEnd

\* The objects of a chain in order, as the garbage collector meets them.
InOrder(c) ==
  LET all  == Ahead(c, c.dnext)
      n    == Cardinality(all)
      rest == [o \in all |-> Cardinality(Ahead(c, o))]
  IN  [i \in 1 .. n |-> CHOOSE o \in all : rest[o] = n + 1 - i]
Listed == InOrder(chain)

\* The chain of references implements the list of objects: an object that is
\* entered stays listed, behind all earlier ones, until it is destructed
\* (do_insert(), do_delete()).
List == INSTANCE ObjectList WITH list <- Listed, live <- live
ImplementsList == List!ListSpec
=============================================================================
