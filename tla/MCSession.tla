----------------------------- MODULE MCSession -----------------------------
(***************************************************************************)
(* Small instances of Session: a mortal, a coder and an administrator.     *)
(***************************************************************************)
EXTENDS Session

CONSTANTS u1, u2, u3, mortal, coder, admin, npc

\* Levels without the administrator, and with him.
ForceTwo == [l \in {mortal, coder, npc} |-> IF l = coder THEN 1 ELSE 0]
ForceAll == [l \in {mortal, coder, admin, npc} |-> CASE l = admin -> 2 [] l = coder -> 1 [] OTHER -> 0]
=============================================================================
