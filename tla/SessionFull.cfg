SPECIFICATION Spec
CHECK_DEADLOCK FALSE
CONSTANTS
  u1 = u1
  u2 = u2
  u3 = u3
  mortal = mortal
  coder = coder
  admin = admin
  npc = npc
  Login = login
  Nil = nil
  Users = {u1, u2, u3}
  Players = {mortal, coder}
  Npcs = {npc}
  ForceLevel <- ForceTwo
  Admins = {coder}
  Victims = {mortal, npc}
  SnoopUsed = TRUE
  RoomsLost = TRUE
  MaxCrumble = 1
INVARIANT SessionTypeOK
INVARIANT RoutedToOwn
