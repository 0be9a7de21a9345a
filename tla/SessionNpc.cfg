SPECIFICATION TimedSpec
CONSTANTS
  u1 = u1
  u2 = u2
  u3 = u3
  mortal = mortal
  coder = coder
  admin = admin
  npc = npc
  Login = login
  Nil = nil
  Users = {u1, u2, u3}
  Players = {mortal, coder}
  Npcs = {npc}
  ForceLevel <- ForceTwo
  Admins = {}
  Victims = {npc}
  SnoopUsed = FALSE
  RoomsLost = FALSE
  MaxCrumble = 2
INVARIANT PlayersReached
INVARIANT LinksMatch
PROPERTY LinkdeathSettles
