SPECIFICATION PartsSpec
CONSTANTS
  Delays = {0, 1, 2}
  QueueLength = 2
  AskFails = FALSE
  MaxTyped = 4
  arm = arm
  hand = hand
  head = head
  Slots = {arm, hand, head}
  Branch <- HandOnArm
  Severe = 2
  MaxBeats = 3
  Fractures = FALSE
  Listeners = {a, b}
  Funcs = {f, g}
  Nobody = nobody
  MaxDepth = 1
  t1 = t1
  t2 = t2
  t3 = t3
  t4 = t4
  t5 = t5
  Things = {t1, t2, t3, t4, t5}
  LoginRoom = loginroom
  Nowhere = nowhere
  Inventories <- FewInventories
  MaxChanges = 1
  foot = foot
  shirt = shirt
  mail = mail
  sword = sword
  Tools = {shirt, mail, sword}
  Limbs = {arm, hand, foot}
  Hands = {hand, foot}
  None = none
  Connected <- HandOfArm
  Covers <- Dresses
  Layer <- MailOver
  Thin = {mail}
  HandsFor <- TwoHands
  HandRoom = 2
  Customers = {c1}
  NoBuyer = nobuyer
  Values <- CoinValues
  Worth = 4
  Most = 2
  KeeperRoom = 1
  Coins <- FourOfTwo
  BuyTrade = {70, 101}
  SellTrade = {150}
  MaxGoods = 4
  MaxMoney = 12
  MaxDrops = 1
  Livings = {p, q, n}
  Npcs = {n}
  Calm = {q}
  Walkers = {p}
  Rooms = {r1, r2}
  Noone = noone
  MaxRounds = 2
  MaxLapses = 1
  MaxFallen = 1
  Readers = {rd1, rd2}
  NoReader = noreader
  MaxMails = 1
  gateIn = gateIn
  gateOut = gateOut
  hallIn = hallIn
  hallOut = hallOut
  Halves = {gateIn, gateOut, hallIn, hallOut}
  OtherHalf <- BothSides
  Keyed = {gateIn, gateOut, hallIn}
  FreshStatus <- GateLocked
  Patients = {pa, pb}
  Dust = dust
  MaxTimers = 2
  RoomSize <- TwelveSquare
  BlockSets <- OnePost
  Spots <- Corners
  Charms = {s1, s2, s3}
  NoCharm = nocharm
  MaxCode = 5
CHECK_DEADLOCK FALSE
INVARIANT AlwaysAnswers
