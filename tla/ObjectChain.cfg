SPECIFICATION ChainSpec
CONSTANTS
  auto = auto
  m1 = m1
  m2 = m2
  c1 = c1
  c2 = c2
  c3 = c3
  c4 = c4
  Nil = Nil
  AutoObj = auto
  Objs <- AllObjs
  Masters <- MCMasters
  MasterOf <- CloneOf
  SwapChunk = 1
  MayReload = TRUE
CONSTRAINT SwapBound
CHECK_DEADLOCK FALSE
INVARIANTS ChainTypeOK ChainInv
