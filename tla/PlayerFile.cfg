CONSTANTS
  u1 = u1  u2 = u2  o1 = o1  o2 = o2  o3 = o3
  Conns <- TwoConns
  Objs <- ThreeObjs
  Nil = Nil
  Ranks = {TRUE, FALSE}
  MaxProgress = 2
SPECIFICATION FileSpec
CONSTRAINT CodersPart
SYMMETRY Alike
INVARIANTS FileTypeOK SaveKept OneOfAMortal
PROPERTY NeverOlder
CHECK_DEADLOCK FALSE
