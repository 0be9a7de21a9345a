SPECIFICATION Spec
CONSTANTS
  hall = hall
  hero = hero
  sack = sack
  purse = purse
  belt = belt
  pouch = pouch
  c1 = c1
  c2 = c2
  Nil = nil
  Gone = gone
  Rooms = {hall}
  Here = hall
  Livings = {hero}
  Bags = {sack, purse, pouch}
  Belts = {belt}
  Things = {}
  Heaps = {c1, c2}
  OwnWeight <- One
  OwnVolume <- One
  MaxWeight <- MCMaxWeight
  MaxVolume <- MCMaxVolume
  Rigid = {sack}
  Attachable = {purse}
  MaxUnits = 2
CONSTRAINT DriftBound
SYMMETRY HeapSymmetry
CHECK_DEADLOCK FALSE
INVARIANTS InventoryTypeOK Rooted
PROPERTIES MovesKeepUnits BooksKept
