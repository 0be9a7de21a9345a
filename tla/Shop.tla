-------------------------------- MODULE Shop --------------------------------
(***************************************************************************)
(* A shop and the money of its customers: base/town/shop.c with            *)
(* system/money.c and the commands give and accept.  The price falls with  *)
(* the stock; what is bought goes into the hands of the keeper, who offers *)
(* it to the customer, and to the ground after a while.  Goods are of one  *)
(* kind and not told apart; who trades is near enough, and seen.  A        *)
(* customer may go in between, and what refers to him turns nil.           *)
(***************************************************************************)
EXTENDS Integers, FiniteSetsExt, SequencesExt

CONSTANTS Customers,
          NoBuyer,     \* nil, as a buyer.
          Values,      \* COIN_VALUES, by the type of coin.
          Worth,       \* query_value() of the goods.
          Most,        \* OFFER_MAX
          KeeperRoom,  \* Goods that the keeper can carry.
          Coins,       \* What a customer starts with: heaps [type, size].
          BuyTrade,    \* Modifiers that buy_trade() yields: more than 100 is ridiculous.
          SellTrade,   \* Those of sell_trade().
          MaxGoods,    \* Bound: goods in the shop and around.
          MaxMoney,    \* Bound: money of a customer; not what keeps NoProfit.
          MaxDrops     \* Bound: pending call_outs of drop_bought_stuff() for a buyer.

ASSUME ShopAssumption ==
  /\ Most \in Nat \ {0} /\ Worth \in Nat /\ KeeperRoom \in Nat /\ MaxGoods \in Nat
  /\ MaxMoney \in Nat /\ MaxDrops \in Nat
  /\ IsFiniteSet(Customers) /\ NoBuyer \notin Customers
  /\ Values \in Seq(Nat \ {0}) /\ Len(Values) > 1 /\ Values[Len(Values)] = 1
  /\ Coins \in Seq([type : DOMAIN Values, size : Nat \ {0}])
  /\ \A i, j \in DOMAIN Coins : Coins[i].type = Coins[j].type => i = j
  /\ BuyTrade \subseteq 70..200 /\ SellTrade \subseteq 25..150

VARIABLES purse,     \* The heaps of coins of each customer, newest first.
          count,     \* OFFER_COUNT
          traders,   \* Customers who shall leave the shop.
          keeper,    \* "here", "out" or "dead"
          held,      \* Goods in the keeper's hands, by OBJ_BUYER, which may be gone.
          floor,     \* Goods in the shop room.
          has,       \* Goods that customers hold.
          offered,   \* OBJ_OFFERED_ITEMS of the keeper: how many to whom.
          drops,     \* Pending call_outs of drop_bought_stuff(), by their argument.
          worth,     \* History: what each customer should have after all payments.
          several    \* History: somebody bought several things at once.

shopVars == <<purse, count, traders, keeper, held, floor, has, offered, drops, worth, several>>

Total(p) == FoldLeft(LAMBDA sum, h : sum + Values[h.type] * h.size, 0, p)
Sum(f) == MapThenSumSet(LAMBDA c : f[c], DOMAIN f)
Buyers == Customers \cup {NoBuyer}
NoOffer == [to |-> {}, n |-> 0]

-----------------------------------------------------------------------------
\* money.c: how coins are given, and taken with change.

\* make_coins(): a new heap comes on top unless it merges with one of its type.
MakeCoins(p, t, n) ==
  IF n = 0 THEN p
  ELSE IF \E i \in DOMAIN p : p[i].type = t
       THEN [i \in DOMAIN p |-> IF p[i].type = t THEN [p[i] EXCEPT !.size = @ + n] ELSE p[i]]
       ELSE <<[type |-> t, size |-> n]>> \o p

\* change(n) for n > 0: as many of the best coins as there may be; never orbs.
GiveOf(s, t) == [left |-> s.left % Values[t], p |-> MakeCoins(s.p, t, s.left \div Values[t])]
Give(p, n) == FoldLeft(GiveOf, [left |-> n, p |-> p], [i \in 1..Len(Values) - 1 |-> i + 1]).p

\* Mutant: the change is forgotten.
TakeNoChange(p, n) ==
  LET Pay(s, h) ==
        LET used == Min({h.size, (s.left + Values[h.type] - 1) \div Values[h.type]})
        IN  [left |-> Max({0, s.left - used * Values[h.type]}),
             p |-> IF used = h.size THEN s.p ELSE Append(s.p, [h EXCEPT !.size = @ - used])]
  IN  FoldLeft(Pay, [left |-> n, p |-> <<>>], p).p

\* change(-n): heap by heap until n is paid, the last coin with change; if it is not
\* enough, all that there is.
TakeOf(s, h) ==
  LET val  == Values[h.type]
      used == Min({h.size, (s.left + val - 1) \div val})
  IN  [left |-> Max({0, s.left - used * val}),
       back |-> s.back + Max({0, used * val - s.left}),
       p |-> IF used = h.size THEN s.p ELSE Append(s.p, [h EXCEPT !.size = @ - used])]
Take(p, n) ==
  LET paid == FoldLeft(TakeOf, [left |-> n, back |-> 0, p |-> <<>>], p)
  IN  Give(paid.p, paid.back)

Change(p, n) == IF n < 0 THEN Take(p, -n) ELSE Give(p, n)

-----------------------------------------------------------------------------
\* Prices of shop.c; integers are truncated towards 0.
Truncated(a, b) == IF a < 0 THEN -((-a) \div b) ELSE a \div b
Percent(price, modifier) == Truncated(price * modifier, 100)

\* calc_price()
Cube(n) == n * n * n
CalcPrice(n) == Truncated(Worth * (Cube(Most) + Cube(Most - n)), Cube(Most)) + 1

\* With and without LIVE_TRADING.
BuyPrices == {CalcPrice(count)} \cup {Percent(CalcPrice(count), m) + 1 : m \in {m \in BuyTrade : m <= 100}}

\* Mutant: goods are bought for what they are sold for.
SellPriceFull(n, m) == Percent(CalcPrice(n), m)
SellPrice(n, m) == Percent(Percent(CalcPrice(n), 45), m)

-----------------------------------------------------------------------------
ShopInit ==
  /\ purse = [c \in Customers |-> Coins] /\ worth = [c \in Customers |-> Total(Coins)]
  /\ count \in 0..Min({Most, MaxGoods}) /\ traders = {} /\ keeper = "here" /\ several = FALSE
  /\ held = [b \in Buyers |-> 0] /\ floor = 0 /\ has = [c \in Customers |-> 0]
  /\ offered = NoOffer /\ drops = [b \in Buyers |-> 0]

Pays(c, n) ==
  /\ purse' = [purse EXCEPT ![c] = Change(@, -n)]
  /\ worth' = [worth EXCEPT ![c] = @ - n]

\* Mutant: nobody is sent for what the keeper keeps.
CarriedForEver(c, n) ==
  /\ held' = [held EXCEPT ![c] = @ + n] /\ offered' = [to |-> {c}, n |-> n] /\ UNCHANGED drops

\* The keeper gives what is in his hands, and has a call_out to drop it.
CarriedTo(c, n) ==
  /\ held' = [held EXCEPT ![c] = @ + n]
  /\ offered' = [to |-> {c}, n |-> n] /\ drops' = [drops EXCEPT ![c] = @ + 1]

\* buy_cmd(): the money has to be enough for all, and is taken for one.
Buy(c, num) ==
  /\ keeper = "here" /\ c \notin traders /\ num <= count /\ drops[c] < MaxDrops
  /\ \E price \in BuyPrices : Total(purse[c]) >= num * price /\ Pays(c, price)
  /\ LET n == Min({num, KeeperRoom - Sum(held)})
     IN  /\ floor' = floor + num - n
         /\ IF n > 0 THEN CarriedTo(c, n) ELSE UNCHANGED <<held, offered, drops>>
  /\ count' = count - num /\ several' = (several \/ num > 1)
  /\ UNCHANGED <<traders, keeper, has>>

\* An offer of the customer that is ridiculous.
Ridiculous(c) ==
  /\ keeper = "here" /\ c \notin traders /\ count > 0 /\ \E m \in BuyTrade : m > 100
  /\ traders' = traders \cup {c}
  /\ UNCHANGED <<purse, count, keeper, held, floor, has, offered, drops, worth, several>>

\* sell_cmd(): one thing after the other; what is worthless is left.
SellOne(s, m) ==
  LET price == SellPrice(s.count + 1, m)
  IN  IF price = 0 THEN s ELSE [count |-> s.count + 1, gained |-> s.gained + price]

\* There are as many modifiers as goods.
Sell(c, modifiers) ==
  LET sold == FoldLeft(SellOne, [count |-> count, gained |-> 0], modifiers)
  IN  /\ keeper = "here" /\ c \notin traders /\ Len(modifiers) <= has[c]
      /\ count' = sold.count /\ has' = [has EXCEPT ![c] = @ - (sold.count - count)]
      /\ worth[c] + sold.gained <= MaxMoney /\ Pays(c, -sold.gained)
      /\ UNCHANGED <<traders, keeper, held, floor, offered, drops, several>>

\* E_shop_move(): after an hour there is more.
Produce(n) ==
  /\ keeper = "here" /\ count < n /\ n + floor + Sum(held) + Sum(has) <= MaxGoods
  /\ count' = n
  /\ UNCHANGED <<purse, traders, keeper, held, floor, has, offered, drops, worth, several>>

\* accept: offered goods are moved from wherever they are by now.
Accept(c) ==
  /\ c \in offered.to /\ keeper = "here"
  /\ \E h \in [Buyers -> 0..offered.n], f \in 0..floor :
       /\ \A b \in Buyers : h[b] <= held[b]
       /\ Sum(h) + f \in 1..offered.n
       /\ held' = [b \in Buyers |-> held[b] - h[b]] /\ floor' = floor - f
       /\ has' = [has EXCEPT ![c] = @ + Sum(h) + f]
  /\ offered' = NoOffer
  /\ UNCHANGED <<purse, count, traders, keeper, drops, worth, several>>

\* An offer holds for 20 seconds.
OfferLapses ==
  /\ offered # NoOffer /\ offered' = NoOffer
  /\ UNCHANGED <<purse, count, traders, keeper, held, floor, has, drops, worth, several>>

\* Mutant: what was bought by somebody who is gone is forgotten.
DropOfThose(b) ==
  /\ drops[b] > 0 /\ drops' = [drops EXCEPT ![b] = @ - 1]
  /\ IF keeper = "dead" \/ b = NoBuyer THEN UNCHANGED <<held, floor>>
     ELSE held' = [held EXCEPT ![b] = 0] /\ floor' = floor + held[b]
  /\ UNCHANGED <<purse, count, traders, keeper, has, offered, worth, several>>

\* drop_bought_stuff(): all that was bought by the customer, not only then; with nil,
\* what was bought by anybody who is gone.
DropBoughtStuff(b) ==
  /\ drops[b] > 0 /\ drops' = [drops EXCEPT ![b] = @ - 1]
  /\ IF keeper = "dead" THEN UNCHANGED <<held, floor>>
     ELSE held' = [held EXCEPT ![b] = 0] /\ floor' = floor + held[b]
  /\ UNCHANGED <<purse, count, traders, keeper, has, offered, worth, several>>

TakeUp(c) ==
  /\ floor > 0 /\ floor' = floor - 1 /\ has' = [has EXCEPT ![c] = @ + 1]
  /\ UNCHANGED <<purse, count, traders, keeper, held, offered, drops, worth, several>>

\* A customer quits: in properties, arguments and keys he is nil from now on.  His
\* money and goods stay his, for he may come back, as another object.
CustomerGoes(c) ==
  LET Turned(f) == [f EXCEPT ![NoBuyer] = @ + f[c], ![c] = 0]
  IN  /\ drops[NoBuyer] + drops[c] <= MaxDrops
      /\ held' = Turned(held) /\ drops' = Turned(drops)
      /\ traders' = traders \ {c} /\ offered' = IF c \in offered.to THEN NoOffer ELSE offered
      /\ UNCHANGED <<purse, count, keeper, floor, has, worth, several>>

\* The keeper leaves the shop, comes back, or dies.
KeeperMoves(to) ==
  /\ keeper # "dead" /\ keeper' = to
  /\ UNCHANGED <<purse, count, traders, held, floor, has, offered, drops, worth, several>>

ShopNext ==
  \/ \E c \in Customers : Ridiculous(c) \/ Accept(c) \/ TakeUp(c) \/ CustomerGoes(c)
  \/ \E b \in Buyers : DropBoughtStuff(b)
  \/ \E c \in Customers, num \in 1..Most : Buy(c, num)
  \/ \E c \in Customers, n \in 1..2 : \E modifiers \in [1..n -> SellTrade \cup {100}] : Sell(c, modifiers)
  \/ \E n \in 1..Most : Produce(n)
  \/ \E to \in {"here", "out", "dead"} : KeeperMoves(to)
  \/ OfferLapses

ShopSpec == ShopInit /\ [][ShopNext]_shopVars

-----------------------------------------------------------------------------
(* Properties *)

\* Paying and being paid moves exactly the price, whatever coins the purse holds and
\* however often change was given before (money.c:57-126); nobody goes below nothing.
PursesRight == \A c \in Customers : Total(purse[c]) = worth[c] /\ worth[c] >= 0

\* "Keeper offers a price so selling and buying of the same item repeatedly gives no
\* profit" (shop.c:672): the customers together, who brought no goods, never have more
\* money than they brought, in any order of purchases, sales and production.
NoProfitEver == Sum(worth) <= Cardinality(Customers) * Total(Coins)

\* Every purse holds what its owner had, less what was paid, and as long as all buy one
\* thing at a time that is never more than was brought.
NoProfit == PursesRight /\ (several \/ NoProfitEver)

\* Whatever the keeper took into his hands for a customer is going to leave them: there
\* is a call_out of drop_bought_stuff() that finds it, though other purchases replaced
\* the offer, an earlier call_out dropped what was bought before, or the customer quit
\* (shop.c:567-597 compare nil with nil then); unless the keeper dies.
GoodsLeave == \A b \in Buyers : held[b] > 0 => drops[b] > 0 \/ keeper = "dead"
=============================================================================
