--------------------------- MODULE MCObjectChain ---------------------------
(***************************************************************************)
(* An instance of ObjectChain for TLC: the auto object, two further        *)
(* masters, and clones of them, each created once.                         *)
(***************************************************************************)
EXTENDS ObjectChain

CONSTANTS auto, m1, m2, c1, c2, c3, c4

AllObjs == {auto, m1, m2, c1, c2, c3, c4}
MCMasters == {auto, m1, m2}
CloneOf == [o \in AllObjs \ MCMasters |-> IF o \in {c1, c2} THEN m1 ELSE m2]

\* At most this many swapper() call_outs are pending at once.
SwapBound == swaps <= 2
=============================================================================
