------------------------------ MODULE FindWay -------------------------------
(***************************************************************************)
(* How an npc finds its way around what blocks a room: brain_find_way() of *)
(* base/brain/findway.c.  The edges of what blocks cut the room into a     *)
(* mesh of fields; distances spread from the target over the fields that   *)
(* are free, in rounds; then the way descends from the npc to the target.  *)
(* The npc and its target are in one room, more than a step from each      *)
(* other, and what blocks stays where it is meanwhile.  The arrays of      *)
(* fields to do have as many places as there are fields; whatever goes     *)
(* beyond, or takes a direction that is none, is an error that ends it.    *)
(***************************************************************************)
EXTENDS Integers, Sequences, SequencesExt, FiniteSets, FiniteSetsExt

CONSTANTS RoomSize,   \* How far the room reaches to the east and to the north, from <<0, 0>>.
          BlockSets,  \* The sets of what blocks: where it begins, and how far it reaches.
          Spots       \* Where the npc and its target may be.

ASSUME WayAssumption ==
  /\ RoomSize \in [1 .. 2 -> Nat \ {0}]
  /\ \A B \in BlockSets :
       IsFiniteSet(B) /\ \A b \in B : b.co \in [1 .. 2 -> Int] /\ b.range \in [1 .. 2 -> Nat]
  /\ Spots \subseteq [1 .. 2 -> Int]
  /\ \A p \in Spots : \A d \in 1 .. 2 : p[d] \in 0 .. RoomSize[d] - 1

VARIABLES
  blockers, me_co, ob_co,
  edges,   \* The mesh: x and y, sorted.
  dist,    \* map[i][j][0]: -1 for a field that is blocked.
  todo,    \* The fields whose distance fell in the last round, as far as they are left,
  newtodo, \* and in this one.
  togo,    \* The stations, first one first.
  finding  \* "mesh", "search", "begin", "walk"; then "found", "near", "none", "lost", or "error".

wayVars == <<blockers, me_co, ob_co, edges, dist, todo, newtodo, togo, finding>>

maximum == RoomSize[1] + RoomSize[2]
Far(a, b) == Max({a - b, b - a})

\* dx and dy.
Directions == <<<<0, -1>>, <<1, -1>>, <<1, 0>>, <<1, 1>>, <<0, 1>>, <<-1, 1>>, <<-1, 0>>, <<-1, -1>>>>
AllRound == [k \in 1 .. 8 |-> k]

-----------------------------------------------------------------------------
Sorted(S) == [i \in 1 .. Cardinality(S) |-> CHOOSE a \in S : Cardinality({b \in S : b < a}) = i - 1]

EdgesOf(B, d) ==
  Sorted({0, RoomSize[d]} \cup {b.co[d] : b \in B} \cup {b.co[d] + b.range[d] : b \in B})

Fields(e) == (1 .. Len(e[1]) - 1) \X (1 .. Len(e[2]) - 1)
Beside(f, k) == <<f[1] + Directions[k][1], f[2] + Directions[k][2]>>
Adjacent(f, g) == f # g /\ \A d \in 1 .. 2 : Far(f[d], g[d]) < 2

\* The field a place is in.
FieldOf(e, p) == [d \in 1 .. 2 |-> Max({i \in 1 .. Len(e[d]) - 1 : e[d][i] <= p[d] \/ i = 1})]

HalfOf(e, f, d) == (e[d][f[d] + 1] - e[d][f[d]]) \div 2
Centre(e, f) == [d \in 1 .. 2 |-> e[d][f[d]] + HalfOf(e, f, d)]

\* map[i][j][1].
Half(e, f) == Max({HalfOf(e, f, 1), HalfOf(e, f, 2)})
Blocked(e, f) ==
  \E b \in blockers : \A d \in 1 .. 2 :
    b.co[d] < Centre(e, f)[d] /\ Centre(e, f)[d] < b.co[d] + b.range[d]
Reach(e, f, p) == Max({Far(Centre(e, f)[d], p[d]) : d \in 1 .. 2})

Target == FieldOf(edges, ob_co)
Own == FieldOf(edges, me_co)

-----------------------------------------------------------------------------
WayInit ==
  /\ blockers \in BlockSets /\ me_co \in Spots /\ ob_co \in Spots
  /\ edges = <<EdgesOf(blockers, 1), EdgesOf(blockers, 2)>>
  /\ dist = <<>> /\ todo = <<>> /\ newtodo = <<>> /\ togo = <<>>
  /\ finding = "mesh"

\* Nothing is searched for if the room is not cut both ways, or the target is near, as it is
\* where nothing blocks; else the fields around the target get their distance from it.
Mesh ==
  /\ finding = "mesh"
  /\ IF blockers # {} /\ (Len(edges[1]) = 2 \/ Len(edges[2]) = 2)
     THEN finding' = "none" /\ UNCHANGED <<dist, todo>>
     ELSE IF Own = Target \/ Adjacent(Own, Target)
     THEN finding' = "near" /\ UNCHANGED <<dist, todo>>
     ELSE LET free == {f \in Fields(edges) \ {Target} : ~Blocked(edges, f)}
          IN  /\ dist' = [f \in Fields(edges) |->
                            IF f = Target THEN 0
                            ELSE IF f \notin free THEN -1
                            ELSE IF Adjacent(f, Target) THEN Reach(edges, f, ob_co) ELSE maximum]
              /\ todo' = FoldLeft(LAMBDA t, k : IF Beside(Target, k) \in free THEN Append(t, Beside(Target, k))
                                               ELSE t,
                                  <<>>, AllRound)
              /\ finding' = "search"
  /\ UNCHANGED <<blockers, me_co, ob_co, edges, newtodo, togo>>

\* Mutant: the way across the field itself is not counted.
RelaxedShort(s, f, g) ==
  LET d == s.dist[f] + Half(edges, g)
  IN  IF g \in Fields(edges) /\ d < s.dist[g]
      THEN [dist |-> [s.dist EXCEPT ![g] = d], newtodo |-> Append(s.newtodo, g)] ELSE s

\* One neighbour g of a field f, if it is in the mesh.
Relaxed(s, f, g) ==
  LET d == Half(edges, f) + s.dist[f] + Half(edges, g)
  IN  IF g \in Fields(edges) /\ d < s.dist[g]
      THEN [dist |-> [s.dist EXCEPT ![g] = d], newtodo |-> Append(s.newtodo, g)] ELSE s

\* The next field of a round of the search.  Its neighbours whose distances fall are to do
\* in the next round, once more if they were already: they may be too many for the array.
Search ==
  /\ finding = "search" /\ todo # <<>>
  /\ LET f == todo[1]
         s == FoldLeft(LAMBDA t, k : Relaxed(t, f, Beside(f, k)),
                       [dist |-> dist, newtodo |-> newtodo], AllRound)
     IN  /\ newtodo' = s.newtodo
         /\ IF Len(s.newtodo) > Cardinality(Fields(edges))
            THEN finding' = "error" /\ UNCHANGED <<dist, todo>>
            ELSE dist' = s.dist /\ todo' = Tail(todo) /\ UNCHANGED finding
  /\ UNCHANGED <<blockers, me_co, ob_co, edges, togo>>

\* The end of a round.
EndRound ==
  /\ finding = "search" /\ todo = <<>>
  /\ todo' = newtodo /\ newtodo' = <<>>
  /\ finding' = IF newtodo = <<>> THEN "begin" ELSE "search"
  /\ UNCHANGED <<blockers, me_co, ob_co, edges, dist, togo>>

\* The directions from f to fields that are not blocked, with values below a limit.
Lower(f, value, limit) ==
  {k \in 1 .. 8 : Beside(f, k) \in Fields(edges) /\ dist[Beside(f, k)] >= 0 /\ value[Beside(f, k)] < limit}

\* The field with the least value, in the first direction of some.
Best(f, value, lower) ==
  Beside(f, Min({k \in lower : \A j \in lower : value[Beside(f, k)] <= value[Beside(f, j)]}))

\* The first station.  There is no test for whether one was found: dx[-1] is an error.
Begin ==
  /\ finding = "begin"
  /\ LET value == [g \in Fields(edges) |-> Reach(edges, g, me_co) + dist[g]]
         lower == Lower(Own, value, maximum)
         best == Best(Own, value, lower)
     IN  IF lower = {}
         THEN finding' = "error" /\ UNCHANGED <<dist, togo>>
         ELSE /\ togo' = <<best>> /\ finding' = "walk"
              /\ dist' = [dist EXCEPT ![Own] = value[best]]
  /\ UNCHANGED <<blockers, me_co, ob_co, edges, todo, newtodo>>

\* The next one, or the target.
Walk ==
  /\ finding = "walk"
  /\ LET f == Last(togo)
         lower == Lower(f, dist, dist[f])
         best == Best(f, dist, lower)
     IN  IF lower = {} THEN finding' = "lost" /\ UNCHANGED togo
         ELSE IF dist[best] = 0 THEN finding' = "found" /\ UNCHANGED togo
         ELSE togo' = Append(togo, best) /\ UNCHANGED finding
  /\ UNCHANGED <<blockers, me_co, ob_co, edges, dist, todo, newtodo>>

WayNext == Mesh \/ Search \/ EndRound \/ Begin \/ Walk

WaySpec == WayInit /\ [][WayNext]_wayVars

-----------------------------------------------------------------------------
(* Properties *)

Free == {f \in Fields(edges) \ {Target} : ~Blocked(edges, f)}

\* The distances are the least there are: none can fall any more, and each is that of a
\* way to the target, which starts at a field beside it.
Settled ==
  \A f \in Free :
    LET over == {Half(edges, f) + dist[g] + Half(edges, g) : g \in {h \in Free : Adjacent(f, h)}}
        last == IF Adjacent(f, Target) THEN Reach(edges, f, ob_co) ELSE maximum
    IN  dist[f] = Min(over \cup {last})

\* From a settled map the way leads over free, adjacent fields from the npc to the target,
\* and begins where it is shortest; there is an error only if there is no way shorter than
\* the room is wide and long, or if distances fell in one round oftener than there are
\* fields; and it gets stuck only where a field is narrower than 2.
WayLeads ==
  /\ finding = "begin" => Settled
  /\ finding = "lost" => \E f \in Free : Half(edges, f) = 0
  /\ finding = "found" =>
       /\ ToSet(togo) \subseteq Free
       /\ Adjacent(Own, togo[1]) /\ Adjacent(Last(togo), Target)
       /\ \A i \in 1 .. Len(togo) - 1 : Adjacent(togo[i], togo[i+1])
       /\ \A f \in Free : Adjacent(Own, f) =>
            dist[togo[1]] + Reach(edges, togo[1], me_co) <= dist[f] + Reach(edges, f, me_co)
  /\ finding = "error" =>
       \/ Len(newtodo) > Cardinality(Fields(edges))
       \/ \A f \in Free : Adjacent(Own, f) => dist[f] + Reach(edges, f, me_co) >= maximum

\* brain_find_way() returns -1 or the number of stations.
AlwaysAnswers == finding # "error"
=============================================================================
