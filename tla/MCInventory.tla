---------------------------- MODULE MCInventory ----------------------------
(***************************************************************************)
(* Instances of Inventory for TLC: one player with a sack, a purse that    *)
(* can be hung on a belt, a pouch and heaps of coins.                      *)
(***************************************************************************)
EXTENDS Inventory, TLC

CONSTANTS hall, hero, sack, purse, belt, pouch, c1, c2

One == [o \in Objs |-> IF o \in Livings THEN 2 ELSE 1]
MCMaxWeight == [c \in Conts |-> IF c = hero THEN 7 ELSE 3]
MCMaxVolume == [c \in Conts |-> IF c = hero THEN 7 ELSE 3]

\* Heaps are alike.
HeapSymmetry == Permutations({c1, c2})

\* The books of all containers together are off by no more than this.
MaxDrift == 1
Abs(n) == IF n < 0 THEN -n ELSE n
DriftBound == MapThenSumSet(LAMBDA c : Abs(WeightOff(c)) + Abs(VolumeOff(c)),
                             Conts \cap live) <= MaxDrift
=============================================================================
