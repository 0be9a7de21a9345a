SPECIFICATION GSpec
CONSTANTS
  auto = auto
  master = master
  room = room
  den = den
  orc = orc
  hero = hero
  Nil = Nil
  Start = Start
  AutoObj = auto
  Objs <- RoomObjs
  Masters <- MCMasters
  MasterOf <- RoomMasterOf
  Rooms <- BothRooms
  Saved <- MCSaved
  Npcs <- MCNpcs
  Players <- MCPlayers
  SwapChunk = 1
  MayReload = FALSE
  GarbageObjects = 2
INVARIANTS GTypeOK
PROPERTIES UsedIsKept OrphansGo ImplementsList
CHECK_DEADLOCK FALSE
