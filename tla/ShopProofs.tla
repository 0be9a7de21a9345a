----------------------------- MODULE ShopProofs -----------------------------
(***************************************************************************)
(* Proofs about Shop, for any customers, any coins of theirs, any goods,   *)
(* and any skill in trading that buy_trade() and sell_trade() may yield.   *)
(*                                                                         *)
(* First what prices are, what a purse holds after coins were put into it  *)
(* or taken out, and what the goods around could still bring; then that no *)
(* step brings the customers more than they brought, and that the keeper   *)
(* keeps nothing for good.                                                 *)
(***************************************************************************)
EXTENDS Shop, SetInduction, SequenceTheorems, TLAPS

(* Prices. *)

\* Division.
LEMMA Divided ==
  ASSUME NEW a \in Int, NEW b \in Nat \ {0}
  PROVE  a \div b \in Int /\ a % b \in Nat /\ a % b < b /\ a = b * (a \div b) + (a % b)
OBVIOUS

LEMMA DividedUp ==
  ASSUME NEW a \in Int, NEW b \in Int, a <= b, NEW c \in Nat \ {0}
  PROVE  a \div c <= b \div c
OBVIOUS

LEMMA TimesUp ==
  ASSUME NEW a \in Int, NEW b \in Int, a <= b, NEW c \in Nat
  PROVE  a * c <= b * c /\ c * a <= c * b
OBVIOUS

LEMMA CubeUp ==
  ASSUME NEW a \in Int, NEW b \in Int, a <= b
  PROVE  Cube(a) \in Int /\ Cube(b) \in Int /\ Cube(a) <= Cube(b)
<1> DEFINE d == b - a
           sq == a * a + a * b + b * b
<1>1. d \in Nat /\ sq \in Int
  OBVIOUS
<1>2. a * a \in Nat /\ b * b \in Nat /\ (a + b) * (a + b) \in Nat
  OBVIOUS
<1>3. 2 * sq = a * a + b * b + (a + b) * (a + b)
  OBVIOUS
<1>4. sq \in Nat
  <2> DEFINE x == a * a
             y == b * b
             z == (a + b) * (a + b)
  <2>1. x \in Nat /\ y \in Nat /\ z \in Nat /\ 2 * sq = x + y + z
    BY <1>2, <1>3
  <2> HIDE DEF x, y, z, sq
  <2> QED BY <1>1, <2>1
<1>5. Cube(b) - Cube(a) = d * sq
  BY DEF Cube
<1>6. Cube(a) \in Int /\ Cube(b) \in Int
  BY DEF Cube
<1> HIDE DEF d, sq
<1>7. d * sq \in Nat
  BY <1>1, <1>4
<1> QED BY <1>5, <1>6, <1>7

\* Stocks for which the shop still asks something.
Stocks == 0 .. 2 * Most

LEMMA MostIs == Most \in Nat /\ Most >= 1 /\ Worth \in Nat /\ Cube(Most) \in Nat \ {0}
<1>1. Most \in Nat /\ Most >= 1 /\ Worth \in Nat
  BY ShopAssumption
<1>2. Cube(1) = 1
  BY DEF Cube
<1>3. Cube(1) <= Cube(Most) /\ Cube(Most) \in Int
  BY <1>1, CubeUp
<1> QED BY <1>1, <1>2, <1>3

\* What a price is made of.
LEMMA Demand ==
  ASSUME NEW k \in Stocks
  PROVE  /\ Worth * (Cube(Most) + Cube(Most - k)) \in Nat
         /\ CalcPrice(k) = ((Worth * (Cube(Most) + Cube(Most - k))) \div Cube(Most)) + 1
<1> DEFINE m3 == Cube(Most)
           c3 == Cube(Most - k)
<1>1. Most \in Nat /\ Worth \in Nat /\ m3 \in Nat \ {0}
  BY MostIs
<1>2. Most - k \in Int /\ -Most \in Int /\ -Most <= Most - k
  BY <1>1 DEF Stocks
<1>3. Cube(-Most) = -m3
  BY <1>1 DEF Cube
<1>4. c3 \in Int /\ -m3 <= c3
  BY <1>2, <1>3, CubeUp
<1> HIDE DEF m3, c3
<1>5. m3 + c3 \in Nat
  BY <1>1, <1>4
<1>6. Worth * (m3 + c3) \in Nat
  BY <1>1, <1>5
<1>7. CalcPrice(k) = Truncated(Worth * (m3 + c3), m3) + 1
  BY DEF CalcPrice, m3, c3
<1>8. CalcPrice(k) = ((Worth * (m3 + c3)) \div m3) + 1
  BY <1>6, <1>7 DEF Truncated
<1> QED BY <1>6, <1>8 DEF m3, c3

\* A price is never nothing.
LEMMA PriceIs ==
  ASSUME NEW k \in Stocks PROVE CalcPrice(k) \in Nat /\ CalcPrice(k) >= 1
<1> DEFINE x == Worth * (Cube(Most) + Cube(Most - k))
           m3 == Cube(Most)
<1>1. x \in Nat /\ CalcPrice(k) = (x \div m3) + 1 /\ m3 \in Nat \ {0}
  BY Demand, MostIs
<1> HIDE DEF x, m3
<1>2. x \div m3 \in Nat
  BY <1>1
<1> QED BY <1>1, <1>2

\* More in stock is cheaper.
LEMMA PriceFalls ==
  ASSUME NEW a \in Stocks, NEW b \in Stocks, a <= b
  PROVE  CalcPrice(b) <= CalcPrice(a)
<1> DEFINE m3 == Cube(Most)
           ca == Cube(Most - a)
           cb == Cube(Most - b)
<1>1. Most \in Nat /\ Worth \in Nat /\ m3 \in Nat \ {0}
  BY MostIs
<1>2. Most - a \in Int /\ Most - b \in Int /\ Most - b <= Most - a
  BY <1>1 DEF Stocks
<1>3. ca \in Int /\ cb \in Int /\ cb <= ca
  BY <1>2, CubeUp
<1>4. /\ Worth * (m3 + ca) \in Nat /\ CalcPrice(a) = ((Worth * (m3 + ca)) \div m3) + 1
      /\ Worth * (m3 + cb) \in Nat /\ CalcPrice(b) = ((Worth * (m3 + cb)) \div m3) + 1
  BY Demand
<1> HIDE DEF m3, ca, cb
<1>5. m3 + cb <= m3 + ca /\ m3 + cb \in Int /\ m3 + ca \in Int
  BY <1>1, <1>3
<1>6. Worth * (m3 + cb) <= Worth * (m3 + ca)
  BY <1>1, <1>5, TimesUp
<1> DEFINE x == Worth * (m3 + ca)
           y == Worth * (m3 + cb)
<1>7. x \in Nat /\ y \in Nat /\ y <= x /\ CalcPrice(a) = (x \div m3) + 1 /\ CalcPrice(b) = (y \div m3) + 1
  BY <1>4, <1>6
<1> HIDE DEF x, y
<1>8. x \div m3 \in Int /\ y \div m3 \in Int /\ y \div m3 <= x \div m3
  BY <1>1, <1>7, DividedUp, Divided
<1> QED BY <1>7, <1>8

\* The shop asks nothing more, but for the rounding, when it has twice what it wants.
LEMMA PriceOfTooMuch == CalcPrice(2 * Most) = 1
<1> DEFINE m3 == Cube(Most)
<1>1. Most \in Nat /\ Worth \in Nat /\ m3 \in Nat \ {0}
  BY MostIs
<1>2. Cube(Most - 2 * Most) = -m3
  <2>1. Most - 2 * Most = -Most
    BY <1>1
  <2>2. Cube(-Most) = -m3
    BY <1>1 DEF Cube
  <2> QED BY <2>1, <2>2
<1>3. 2 * Most \in Stocks
  BY <1>1 DEF Stocks
<1>4. CalcPrice(2 * Most) = ((Worth * (m3 + Cube(Most - 2 * Most))) \div m3) + 1
  BY <1>3, Demand
<1> HIDE DEF m3
<1>5. m3 + -m3 = 0 /\ Worth * 0 = 0 /\ 0 \div m3 = 0
  BY <1>1
<1>6. Worth * (m3 + -m3) = 0
  BY <1>5
<1> QED BY <1>2, <1>4, <1>5, <1>6

\* The most that anybody is paid.
Dearest(k) == IF k \in Stocks THEN (((CalcPrice(k) * 45) \div 100) * 150) \div 100 ELSE 0

LEMMA DearestIs ==
  /\ \A k \in Nat : Dearest(k) \in Nat
  /\ \A a, b \in Nat : a <= b => Dearest(b) <= Dearest(a)
<1>1. ASSUME NEW p \in Nat PROVE (((p * 45) \div 100) * 150) \div 100 \in Nat
  OBVIOUS
<1>2. ASSUME NEW p \in Nat, NEW q \in Nat, q <= p
      PROVE  (((q * 45) \div 100) * 150) \div 100 <= (((p * 45) \div 100) * 150) \div 100
  <2> DEFINE x == (p * 45) \div 100
             y == (q * 45) \div 100
  <2>1. x \in Int /\ y \in Int /\ y <= x
    <3>1. p * 45 \in Int /\ q * 45 \in Int /\ q * 45 <= p * 45
      BY <1>2
    <3> QED BY <3>1
  <2> HIDE DEF x, y
  <2>2. x * 150 \in Int /\ y * 150 \in Int /\ y * 150 <= x * 150
    BY <2>1
  <2>3. (y * 150) \div 100 <= (x * 150) \div 100
    <3> DEFINE v == x * 150
               w == y * 150
    <3>1. v \in Int /\ w \in Int /\ w <= v
      BY <2>2
    <3> HIDE DEF v, w
    <3>2. w \div 100 <= v \div 100
      BY <3>1
    <3> QED BY <3>2 DEF v, w
  <2> QED BY <2>3 DEF x, y
<1>3. \A k \in Nat : Dearest(k) \in Nat
  BY <1>1, PriceIs DEF Dearest
<1>4. ASSUME NEW a \in Nat, NEW b \in Nat, a <= b PROVE Dearest(b) <= Dearest(a)
  <2>1. CASE b \in Stocks
    <3>1. a \in Stocks
      BY <1>4, <2>1, MostIs DEF Stocks
    <3>2. CalcPrice(b) <= CalcPrice(a) /\ CalcPrice(a) \in Nat /\ CalcPrice(b) \in Nat
      BY <1>4, <2>1, <3>1, PriceFalls, PriceIs
    <3> QED BY <1>2, <2>1, <3>1, <3>2 DEF Dearest
  <2>2. CASE b \notin Stocks
    BY <1>3, <2>2 DEF Dearest
  <2> QED BY <2>1, <2>2
<1> QED BY <1>3, <1>4

\* "Selling may give 50% more and buying may be 30% cheaper": nothing is sold for more
\* than it is bought for.
LEMMA BuyerPays ==
  ASSUME count \in Stocks, NEW price \in BuyPrices
  PROVE  price \in Nat /\ Dearest(count) <= price
<1> DEFINE p == CalcPrice(count)
<1>1. p \in Nat /\ BuyTrade \subseteq 70 .. 200
  BY PriceIs, ShopAssumption
<1>2. Dearest(count) = (((p * 45) \div 100) * 150) \div 100
  BY DEF Dearest
<1>3. price = p \/ \E m \in BuyTrade : price = Percent(p, m) + 1
  BY DEF BuyPrices
<1> HIDE DEF p
<1>4. (((p * 45) \div 100) * 150) \div 100 <= p
  BY <1>1
<1>5. ASSUME NEW m \in BuyTrade PROVE Percent(p, m) \in Nat /\ (((p * 45) \div 100) * 150) \div 100 <= Percent(p, m) + 1
  <2>1. m \in 70 .. 200
    BY <1>1
  <2> DEFINE x == p * m
             y == p * 70
  <2>2. x \in Nat /\ y \in Nat /\ y <= x
    BY <1>1, <2>1
  <2>3. Percent(p, m) = x \div 100
    BY <2>2 DEF Percent, Truncated
  <2>4. (((p * 45) \div 100) * 150) \div 100 <= y \div 100
    BY <1>1
  <2> HIDE DEF x, y
  <2>5. y \div 100 <= x \div 100 /\ x \div 100 \in Nat /\ y \div 100 \in Nat
    BY <2>2
  <2> DEFINE z == (((p * 45) \div 100) * 150) \div 100
  <2>6. z \in Nat
    BY <1>1
  <2> HIDE DEF z
  <2> QED BY <2>3, <2>4, <2>5, <2>6 DEF z
<1> QED BY <1>1, <1>2, <1>3, <1>4, <1>5

\* Nobody is paid more, and too much of it is not taken.
LEMMA SellerGets ==
  ASSUME NEW k \in Nat, k + 1 <= 2 * Most, NEW m \in SellTrade \cup {100}
  PROVE  /\ SellPrice(k + 1, m) \in Nat /\ SellPrice(k + 1, m) <= Dearest(k + 1)
         /\ SellPrice(k + 1, m) # 0 => k + 1 < 2 * Most
<1> DEFINE p == CalcPrice(k + 1)
<1>1. k + 1 \in Stocks /\ Most \in Nat
  BY MostIs DEF Stocks
<1>2. p \in Nat /\ m \in 25 .. 150
  BY <1>1, PriceIs, ShopAssumption
<1>3. Dearest(k + 1) = (((p * 45) \div 100) * 150) \div 100
  BY <1>1 DEF Dearest
<1>4. SellPrice(k + 1, m) = Percent(Percent(p, 45), m)
  BY DEF SellPrice
<1>5. k + 1 = 2 * Most => p = 1
  BY PriceOfTooMuch
<1> HIDE DEF p
<1> DEFINE q == (p * 45) \div 100
           x == q * m
           y == q * 150
<1>6. q \in Nat /\ Percent(p, 45) = q
  BY <1>2 DEF Percent, Truncated
<1> HIDE DEF q
<1>7. x \in Nat /\ y \in Nat /\ x <= y /\ (q = 0 => x = 0)
  BY <1>2, <1>6
<1>8. Percent(q, m) = x \div 100
  BY <1>7 DEF Percent, Truncated
<1> HIDE DEF x
<1>9. x \div 100 <= y \div 100 /\ x \div 100 \in Nat /\ (x = 0 => x \div 100 = 0)
  <2> HIDE DEF y
  <2> QED BY <1>7
<1>10. p = 1 => q = 0
  BY DEF q
<1>11. SellPrice(k + 1, m) = x \div 100
  BY <1>4, <1>6, <1>8
<1>12. Dearest(k + 1) = y \div 100
  BY <1>3 DEF q
<1>13. SellPrice(k + 1, m) # 0 => k + 1 # 2 * Most
  BY <1>5, <1>7, <1>9, <1>10, <1>11
<1>14. k + 1 \in Int /\ 2 * Most \in Int
  BY <1>1
<1> QED BY <1>9, <1>11, <1>12, <1>13, <1>14

-----------------------------------------------------------------------------
(* Purses. *)

\* What can be in a purse.
Heap == [type : DOMAIN Values, size : Nat]
Sorted(p) == \A i, j \in DOMAIN p : p[i].type = p[j].type => i = j
Purses == {p \in Seq(Heap) : Sorted(p)}
Val(h) == Values[h.type] * h.size
Vals(p) == [i \in 1 .. Len(p) |-> Val(p[i])]

LEMMA CoinsWorth ==
  /\ Len(Values) \in Nat /\ Len(Values) > 1 /\ DOMAIN Values = 1 .. Len(Values)
  /\ \A t \in DOMAIN Values : Values[t] \in Nat \ {0}
  /\ Values[Len(Values)] = 1
  /\ \A h \in Heap : Val(h) \in Nat
<1>1. Values \in Seq(Nat \ {0})
  BY ShopAssumption
<1>2. Len(Values) \in Nat /\ DOMAIN Values = 1 .. Len(Values) /\ \A t \in DOMAIN Values : Values[t] \in Nat \ {0}
  BY <1>1
<1>3. ASSUME NEW h \in Heap PROVE Val(h) \in Nat
  <2>1. Values[h.type] \in Nat /\ h.size \in Nat
    BY <1>2 DEF Heap
  <2> QED BY <2>1 DEF Val
<1> QED BY <1>2, <1>3, ShopAssumption

LEMMA ValsTyped ==
  ASSUME NEW p \in Seq(Heap)
  PROVE  /\ Len(p) \in Nat /\ DOMAIN p = 1 .. Len(p) /\ \A i \in 1 .. Len(p) : p[i] \in Heap
         /\ \A i \in 1 .. Len(p) : Vals(p)[i] = Val(p[i]) /\ Vals(p)[i] \in Nat
<1>1. Len(p) \in Nat /\ DOMAIN p = 1 .. Len(p) /\ \A i \in 1 .. Len(p) : p[i] \in Heap
  OBVIOUS
<1>2. \A i \in 1 .. Len(p) : Vals(p)[i] = Val(p[i])
  BY DEF Vals
<1> QED BY <1>1, <1>2, CoinsWorth

TotalsOf(p) == CHOOSE it : it = [s \in SUBSET DOMAIN p |->
  IF s = {} THEN 0 ELSE it[s \ {Max(s)}] + Values[p[Max(s)].type] * p[Max(s)].size]

\* Total() adds up what the heaps are worth.
LEMMA TotalUp ==
  ASSUME NEW p \in Seq(Heap)
  PROVE  \E f : AddsUp(f, Vals(p), Len(p)) /\ Total(p) = f[Len(p)]
<1> DEFINE n == Len(p)
           S == 1 .. n
           it == TotalsOf(p)
           F == [x \in S \X Int |-> x[2] + Val(p[x[1]])]
<1>1. n \in Nat /\ DOMAIN p = S /\ \A i \in S : Vals(p)[i] = Val(p[i]) /\ Val(p[i]) \in Int
  BY ValsTyped
<1>2. F \in [S \X Int -> Int] /\ \A i \in S, x \in Int : F[<<i, x>>] = x + Val(p[i])
  BY <1>1
<1>3. \A s \in SUBSET S : s # {} => Max(s) \in S /\ s \ {Max(s)} \in SUBSET S
  BY <1>1, LastOf
<1>4. Total(p) = it[DOMAIN p]
  BY Zenon DEF Total, FoldLeft, MapThenFoldSet, TotalsOf
<1>5. S = 1 .. n
  OBVIOUS
<1> HIDE DEF F, S
<1>6. PICK g \in [SUBSET S -> Int] : FoldedLeft(g, S, F, 0)
  <2>1. 0 \in Int
    OBVIOUS
  <2> QED BY <1>1, <1>2, <1>5, <2>1, FoldLeftExists, Zenon
<1>7. \A s \in SUBSET S : g[s] = IF s = {} THEN 0 ELSE g[s \ {Max(s)}] + Val(p[Max(s)])
  BY <1>2, <1>3, <1>6 DEF FoldedLeft
<1>8. g = [s \in SUBSET S |-> IF s = {} THEN 0 ELSE g[s \ {Max(s)}] + Val(p[Max(s)])]
  BY <1>7
<1>9. it = [s \in SUBSET S |-> IF s = {} THEN 0 ELSE it[s \ {Max(s)}] + Val(p[Max(s)])]
  BY <1>1, <1>8, Zenon DEF TotalsOf, Val
<1> HIDE DEF it
<1>10. \A s \in SUBSET S : it[s] = IF s = {} THEN 0 ELSE it[s \ {Max(s)}] + Val(p[Max(s)])
  BY <1>9
<1> DEFINE f == [i \in 0 .. n |-> it[1 .. i]]
<1>11. f[0] = 0 /\ f[n] = it[S]
  <2>1. 1 .. 0 = {} /\ {} \in SUBSET S /\ 0 \in 0 .. n /\ n \in 0 .. n
    BY <1>1
  <2>2. it[{}] = 0
    BY <1>10, <2>1
  <2> QED BY <1>5, <2>1, <2>2
<1>12. ASSUME NEW i \in 1 .. n PROVE f[i] = f[i - 1] + Vals(p)[i]
  <2> DEFINE P == 1 .. i
             Q == 1 .. (i - 1)
  <2>1. i \in 0 .. n /\ i - 1 \in 0 .. n /\ i \in Nat \ {0} /\ i \in S /\ P \in SUBSET S
    BY <1>1, <1>5
  <2>2. P # {} /\ Max(P) = i /\ P \ {Max(P)} = Q
    BY <2>1, Prefix
  <2>3. f[i] = it[P] /\ f[i - 1] = it[Q]
    BY <2>1
  <2> HIDE DEF P, Q, f
  <2> QED BY <1>1, <1>10, <2>1, <2>2, <2>3
<1> HIDE DEF f
<1>13. AddsUp(f, Vals(p), n)
  BY <1>11, <1>12 DEF AddsUp
<1> QED BY <1>1, <1>4, <1>11, <1>13

\* Whatever adds up the heaps ends with what Total() yields.
LEMMA TotalIs ==
  ASSUME NEW p \in Seq(Heap), NEW f, AddsUp(f, Vals(p), Len(p))
  PROVE  /\ Total(p) = f[Len(p)] /\ Total(p) \in Nat
         /\ \A i \in 0 .. Len(p) : f[i] \in Nat
<1> DEFINE n == Len(p)
           v == Vals(p)
<1>1. n \in Nat /\ \A i \in 1 .. n : v[i] \in Nat /\ v[i] \in Int
  BY ValsTyped
<1>2. PICK g : AddsUp(g, v, n) /\ Total(p) = g[n]
  BY TotalUp
<1>3. AddsUp(f, v, n)
  OBVIOUS
<1> HIDE DEF n, v
<1> DEFINE A == {i \in Nat : i <= n => f[i] = g[i] /\ f[i] \in Nat}
<1>4. 0 \in A
  BY <1>2, <1>3 DEF AddsUp
<1>5. ASSUME NEW i \in Nat, i \in A PROVE i + 1 \in A
  <2>1. SUFFICES ASSUME i + 1 <= n PROVE f[i + 1] = g[i + 1] /\ f[i + 1] \in Nat
    OBVIOUS
  <2>2. i <= n /\ i + 1 \in 1 .. n /\ (i + 1) - 1 = i
    BY <1>1, <2>1
  <2>3. f[i] = g[i] /\ f[i] \in Nat /\ v[i + 1] \in Nat
    BY <1>1, <1>5, <2>2
  <2>4. f[i + 1] = f[i] + v[i + 1] /\ g[i + 1] = g[i] + v[i + 1]
    BY <1>2, <1>3, <2>2 DEF AddsUp
  <2> QED BY <2>3, <2>4
<1> HIDE DEF A
<1>6. Nat \subseteq A
  BY <1>4, <1>5, CountedUp
<1>7. \A i \in 0 .. n : f[i] = g[i] /\ f[i] \in Nat
  BY <1>1, <1>6 DEF A
<1> QED BY <1>1, <1>2, <1>7 DEF n

LEMMA TotalOfNone == Total(<<>>) = 0
<1>1. <<>> \in Seq(Heap) /\ Len(<<>>) = 0
  OBVIOUS
<1>2. PICK f : AddsUp(f, Vals(<<>>), Len(<<>>)) /\ Total(<<>>) = f[Len(<<>>)]
  BY <1>1, TotalUp
<1> QED BY <1>1, <1>2 DEF AddsUp

\* A heap behind or on top of the others adds what it is worth.
LEMMA TotalAppend ==
  ASSUME NEW p \in Seq(Heap), NEW h \in Heap
  PROVE  Total(Append(p, h)) = Total(p) + Val(h)
<1> DEFINE q == Append(p, h)
           n == Len(p)
<1>1. q \in Seq(Heap) /\ Len(q) = n + 1 /\ n \in Nat /\ q[n + 1] = h /\ \A i \in 1 .. n : q[i] = p[i]
  OBVIOUS
<1> HIDE DEF q
<1>2. PICK f : AddsUp(f, Vals(p), n) /\ Total(p) = f[n]
  BY TotalUp
<1>3. PICK g : AddsUp(g, Vals(q), n + 1) /\ Total(q) = g[n + 1]
  BY <1>1, TotalUp
<1> HIDE DEF n
<1>4. AddsUp(g, Vals(p), n)
  <2>1. \A i \in 1 .. n : i \in 1 .. n + 1
    BY <1>1
  <2>2. \A i \in 1 .. n : Vals(q)[i] = Vals(p)[i]
    BY <1>1, <2>1, ValsTyped DEF n
  <2> QED BY <1>3, <2>1, <2>2 DEF AddsUp
<1>5. Total(p) = g[n]
  BY <1>4, TotalIs DEF n
<1>6. g[n + 1] = g[n] + Vals(q)[n + 1]
  <2>1. n + 1 \in 1 .. n + 1 /\ (n + 1) - 1 = n
    BY <1>1
  <2> QED BY <1>3, <2>1 DEF AddsUp
<1>7. Vals(q)[n + 1] = Val(h)
  <2>1. n + 1 \in 1 .. Len(q)
    BY <1>1
  <2> QED BY <1>1, <2>1, ValsTyped
<1> QED BY <1>3, <1>5, <1>6, <1>7 DEF q

LEMMA TotalOnTop ==
  ASSUME NEW p \in Seq(Heap), NEW h \in Heap
  PROVE  Total(<<h>> \o p) = Total(p) + Val(h)
<1> DEFINE q == <<h>> \o p
           n == Len(p)
           m == n + 1
           e == Val(h)
<1>1. q \in Seq(Heap) /\ Len(q) = m /\ n \in Nat /\ q[1] = h /\ \A i \in 1 .. n : q[1 + i] = p[i]
  OBVIOUS
<1> HIDE DEF q
<1>2. PICK f : AddsUp(f, Vals(p), n) /\ Total(p) = f[n]
  BY TotalUp
<1>3. PICK g : AddsUp(g, Vals(q), m) /\ Total(q) = g[m]
  BY <1>1, TotalUp
<1>4. /\ \A i \in 1 .. n : Vals(p)[i] = Val(p[i]) /\ Vals(p)[i] \in Int
      /\ \A i \in 1 .. m : Vals(q)[i] = Val(q[i]) /\ Vals(q)[i] \in Int
  <2>1. \A i \in 1 .. n : Vals(p)[i] = Val(p[i]) /\ Vals(p)[i] \in Nat
    BY ValsTyped
  <2>2. \A i \in 1 .. m : Vals(q)[i] = Val(q[i]) /\ Vals(q)[i] \in Nat
    BY <1>1, ValsTyped
  <2> QED BY <2>1, <2>2
<1>5. m \in Nat /\ m = n + 1 /\ 1 \in 1 .. m
  BY <1>1
<1>6. e \in Int
  <2>1. e \in Nat
    BY CoinsWorth
  <2> QED BY <2>1
<1>7. g[1] = f[0] + e
  <2>1. g[1] = g[0] + Vals(q)[1] /\ 1 - 1 = 0
    BY <1>3, <1>5 DEF AddsUp
  <2>2. Vals(q)[1] = e /\ g[0] = 0 /\ f[0] = 0
    BY <1>1, <1>2, <1>3, <1>4, <1>5 DEF AddsUp
  <2> QED BY <1>6, <2>1, <2>2
<1>8. Alike(f, Vals(p), n, 0, g, Vals(q), m, 1, e)
  <2>1. Adding(f, Vals(p), n) /\ Adding(g, Vals(q), m)
    BY <1>1, <1>2, <1>3, <1>4, <1>5 DEF Adding
  <2>2. \A i \in 1 .. n - 0 : i \in 1 .. n /\ 1 + i \in 1 .. m /\ 0 + i = i
    BY <1>5
  <2>3. \A i \in 1 .. n - 0 : Vals(q)[1 + i] = Vals(p)[0 + i]
    BY <1>1, <1>4, <2>2
  <2>4. 0 \in 0 .. n /\ 1 \in 0 .. m /\ n - 0 = m - 1
    BY <1>5
  <2> QED BY <1>6, <1>7, <2>1, <2>3, <2>4 DEF Alike
<1>9. g[m] = f[n] + e
  BY <1>8, AddsUpAway
<1> QED BY <1>2, <1>3, <1>9 DEF e, q

\* So do coins that merge with a heap.
LEMMA TotalMerged ==
  ASSUME NEW p \in Seq(Heap), NEW q \in Seq(Heap), NEW k \in 1 .. Len(p), NEW e \in Int,
         Len(q) = Len(p), \A i \in 1 .. Len(p) : i # k => q[i] = p[i], Val(q[k]) = Val(p[k]) + e
  PROVE  Total(q) = Total(p) + e
<1> DEFINE n == Len(p)
           j == k - 1
<1>1. n \in Nat /\ j \in Nat /\ k \in 1 .. n /\ j + 1 = k /\ j \in 0 .. n
  OBVIOUS
<1>2. PICK f : AddsUp(f, Vals(p), n) /\ Total(p) = f[n]
  BY TotalUp
<1>3. PICK g : AddsUp(g, Vals(q), n) /\ Total(q) = g[n]
  BY TotalUp
<1>4. \A i \in 1 .. n : /\ Vals(p)[i] = Val(p[i]) /\ Vals(p)[i] \in Int
                        /\ Vals(q)[i] = Val(q[i]) /\ Vals(q)[i] \in Int
  <2>1. \A i \in 1 .. n : Vals(p)[i] = Val(p[i]) /\ Vals(p)[i] \in Nat
    BY ValsTyped
  <2>2. \A i \in 1 .. n : Vals(q)[i] = Val(q[i]) /\ Vals(q)[i] \in Nat
    BY ValsTyped
  <2> QED BY <2>1, <2>2
<1> HIDE DEF n, j
<1>5. \A i \in 1 .. n : i # k => Vals(q)[i] = Vals(p)[i]
  BY <1>4 DEF n
<1>6. Vals(q)[k] = Vals(p)[k] + e
  BY <1>1, <1>4
<1>7. g[j] = f[j] /\ f[j] \in Int
  <2>1. \A i \in 1 .. j : i \in 1 .. n /\ i # k
    BY <1>1
  <2>2. Adding(f, Vals(p), j) /\ Adding(g, Vals(q), j)
    BY <1>1, <1>2, <1>3, <1>4, <2>1 DEF Adding, AddsUp
  <2>3. g[0] = f[0] + 0 /\ 0 \in Int /\ 0 \in 0 .. j /\ j - 0 = j - 0
    BY <1>1, <1>2, <1>3 DEF AddsUp
  <2>4. \A i \in 1 .. j - 0 : Vals(q)[0 + i] = Vals(p)[0 + i]
    <3>1. \A i \in 1 .. j - 0 : i \in 1 .. j /\ 0 + i = i
      BY <1>1
    <3> QED BY <1>5, <2>1, <3>1
  <2>5. Alike(f, Vals(p), j, 0, g, Vals(q), j, 0, 0)
    BY <2>2, <2>3, <2>4 DEF Alike
  <2>6. g[j] = f[j] + 0 /\ f[j] \in Int
    BY <2>5, AddsUpAway
  <2> QED BY <2>6
<1>8. g[k] = f[k] + e
  <2>1. k - 1 = j
    BY DEF j
  <2>2. f[k] = f[j] + Vals(p)[k] /\ g[k] = g[j] + Vals(q)[k]
    BY <1>1, <1>2, <1>3, <2>1 DEF AddsUp
  <2> DEFINE x == Vals(p)[k]
             y == f[j]
  <2>3. x \in Int /\ y \in Int
    BY <1>1, <1>4, <1>7
  <2>4. f[k] = y + x /\ g[k] = y + (x + e)
    BY <1>6, <1>7, <2>2
  <2> HIDE DEF x, y
  <2> QED BY <2>3, <2>4
<1>9. Alike(f, Vals(p), n, k, g, Vals(q), n, k, e)
  <2>1. Adding(f, Vals(p), n) /\ Adding(g, Vals(q), n)
    BY <1>1, <1>2, <1>3, <1>4 DEF Adding
  <2>2. k \in 0 .. n /\ n - k = n - k
    BY <1>1
  <2>3. \A i \in 1 .. n - k : k + i \in 1 .. n /\ k + i # k
    BY <1>1
  <2>4. \A i \in 1 .. n - k : Vals(q)[k + i] = Vals(p)[k + i]
    BY <1>5, <2>3
  <2> QED BY <1>8, <2>1, <2>2, <2>4 DEF Alike
<1>10. g[n] = f[n] + e
  BY <1>9, AddsUpAway
<1> QED BY <1>2, <1>3, <1>10

\* Coins that are made are in the purse, and it holds heaps of different coins as before.
LEMMA MakeCoinsRight ==
  ASSUME NEW p \in Purses, NEW t \in DOMAIN Values, NEW n \in Nat
  PROVE  /\ MakeCoins(p, t, n) \in Purses
         /\ Total(MakeCoins(p, t, n)) = Total(p) + Values[t] * n
<1> DEFINE q == MakeCoins(p, t, n)
           e == Values[t] * n
<1>1. p \in Seq(Heap) /\ Sorted(p) /\ Len(p) \in Nat /\ DOMAIN p = 1 .. Len(p)
      /\ \A i \in DOMAIN p : p[i] \in Heap /\ p[i].type \in DOMAIN Values /\ p[i].size \in Nat
  <2>1. p \in Seq(Heap) /\ Sorted(p)
    BY DEF Purses
  <2> QED BY <2>1, ValsTyped DEF Heap
<1>2. Values[t] \in Nat /\ e \in Nat /\ e \in Int
  <2>1. Values[t] \in Nat
    BY CoinsWorth
  <2> QED BY <2>1
<1>3. CASE n = 0
  <2>1. q = p /\ e = 0
    BY <1>2, <1>3 DEF MakeCoins
  <2>2. Total(p) \in Nat
    <3>1. PICK f : AddsUp(f, Vals(p), Len(p))
      BY <1>1, TotalUp
    <3> QED BY <1>1, <3>1, TotalIs
  <2> QED BY <2>1, <2>2
<1>4. CASE n # 0 /\ \E i \in DOMAIN p : p[i].type = t
  <2>1. PICK k \in DOMAIN p : p[k].type = t
    BY <1>4
  <2>2. q = [i \in DOMAIN p |-> IF p[i].type = t THEN [p[i] EXCEPT !.size = @ + n] ELSE p[i]]
    BY <1>4 DEF MakeCoins
  <2>3. \A i \in DOMAIN p : i # k => p[i].type # t
    BY <1>1, <2>1 DEF Sorted
  <2>4. /\ DOMAIN q = DOMAIN p /\ q[k] = [p[k] EXCEPT !.size = @ + n]
        /\ \A i \in DOMAIN p : i # k => q[i] = p[i]
    BY <2>1, <2>2, <2>3
  <2>5. q[k] \in Heap /\ q[k].type = t /\ q[k].size = p[k].size + n
    BY <1>1, <2>1, <2>4 DEF Heap
  <2> HIDE DEF q
  <2>6. \A i \in DOMAIN p : q[i] \in Heap /\ q[i].type = p[i].type
    BY <1>1, <2>1, <2>4, <2>5
  <2>7. q \in Seq(Heap) /\ Len(q) = Len(p)
    <3>1. q = [i \in 1 .. Len(p) |-> q[i]]
      BY <1>1, <2>2, <2>4
    <3> QED BY <1>1, <2>6, <3>1
  <2>8. Sorted(q)
    BY <1>1, <2>4, <2>6 DEF Sorted
  <2>9. Val(q[k]) = Val(p[k]) + e
    <3> DEFINE a == Values[t]
               b == p[k].size
    <3>1. a \in Nat /\ b \in Nat
      BY <1>1, <1>2, <2>1
    <3>2. Val(q[k]) = a * (b + n) /\ Val(p[k]) = a * b /\ e = a * n
      BY <2>1, <2>5 DEF Val
    <3> HIDE DEF a, b, e
    <3>3. a * (b + n) = a * b + a * n
      BY <3>1
    <3> QED BY <3>2, <3>3
  <2> HIDE DEF e
  <2>10. Total(q) = Total(p) + e
    BY <1>1, <1>2, <2>1, <2>4, <2>7, <2>9, TotalMerged
  <2> QED BY <2>7, <2>8, <2>10 DEF Purses, q, e
<1>5. CASE n # 0 /\ ~\E i \in DOMAIN p : p[i].type = t
  <2> DEFINE h == [type |-> t, size |-> n]
  <2>1. q = <<h>> \o p
    BY <1>5 DEF MakeCoins
  <2>2. h \in Heap /\ h.type = t /\ Val(h) = e
    BY DEF Heap, Val
  <2> HIDE DEF h, q
  <2>3. q \in Seq(Heap) /\ Len(q) = 1 + Len(p) /\ q[1] = h /\ \A i \in DOMAIN p : q[i + 1] = p[i]
    BY <1>1, <2>1, <2>2
  <2>4. Sorted(q)
    <3>1. \A i \in DOMAIN q : i = 1 \/ (i - 1 \in DOMAIN p /\ (i - 1) + 1 = i)
      BY <1>1, <2>3
    <3>2. \A i \in DOMAIN q : i # 1 => i - 1 \in DOMAIN p /\ q[i] = p[i - 1] /\ i \in Int
      BY <1>1, <2>3, <3>1
    <3>3. ASSUME NEW i \in DOMAIN q, NEW j \in DOMAIN q, q[i].type = q[j].type PROVE i = j
      <4>1. CASE i = 1 \/ j = 1
        BY <1>5, <2>2, <2>3, <3>2, <3>3, <4>1
      <4>2. CASE i # 1 /\ j # 1
        <5>1. i - 1 = j - 1 /\ i \in Int /\ j \in Int
          BY <1>1, <3>2, <3>3, <4>2 DEF Sorted
        <5> QED BY <5>1
      <4> QED BY <4>1, <4>2
    <3> QED BY <3>3 DEF Sorted
  <2>5. Total(q) = Total(p) + e
    BY <1>1, <2>1, <2>2, TotalOnTop
  <2> QED BY <2>3, <2>4, <2>5 DEF Purses, q
<1> QED BY <1>3, <1>4, <1>5

LEMMA TotalIsNat == \A p \in Seq(Heap) : Total(p) \in Nat
<1> SUFFICES ASSUME NEW p \in Seq(Heap) PROVE Total(p) \in Nat
  OBVIOUS
<1>1. PICK f : AddsUp(f, Vals(p), Len(p))
  BY TotalUp
<1> QED BY <1>1, TotalIs

\* While coins are given, with the rest that is left to give.
Givings == [left : Nat, p : Purses]

\* What was left to give is in the purse now or still left.
GivenRight(s, t, r) == /\ r \in Givings /\ Total(r.p) + r.left = Total(s.p) + s.left
                       /\ Values[t] = 1 => r.left = 0

LEMMA GiveOfRight ==
  ASSUME NEW s \in Givings, NEW t \in DOMAIN Values
  PROVE  GivenRight(s, t, GiveOf(s, t))
<1> DEFINE v == Values[t]
           n == s.left
           a == n \div v
           b == n % v
           q == MakeCoins(s.p, t, a)
<1>1. v \in Nat \ {0} /\ n \in Nat /\ s.p \in Purses /\ s.p \in Seq(Heap)
  BY CoinsWorth DEF Givings, Purses
<1>2. GiveOf(s, t) = [left |-> b, p |-> q]
  BY DEF GiveOf
<1> HIDE DEF n, v
<1>3. a \in Nat /\ b \in Nat /\ n = v * (a) + (b) /\ (v = 1 => b = 0)
  <2>1. a \in Int /\ b \in Nat /\ n = v * (a) + (b)
    BY <1>1, Divided
  <2>2. a \in Nat /\ (v = 1 => b = 0)
    BY <1>1
  <2> QED BY <2>1, <2>2
<1> HIDE DEF a, b
<1>4. q \in Purses /\ Total(q) = Total(s.p) + Values[t] * a
  BY <1>1, <1>3, MakeCoinsRight
<1> HIDE DEF q
<1>5. Total(s.p) \in Nat
  BY <1>1, TotalIsNat
<1>6. GiveOf(s, t) \in Givings
  BY <1>2, <1>3, <1>4 DEF Givings
<1> DEFINE x == Total(s.p)
           y == v * a
<1>7. x \in Nat /\ y \in Nat /\ Total(q) = x + y /\ n = y + b
  BY <1>1, <1>3, <1>4, <1>5 DEF v
<1> HIDE DEF x, y
<1>8. Total(q) + b = x + n
  BY <1>3, <1>7
<1> QED BY <1>2, <1>3, <1>6, <1>8 DEF x, n, v, GivenRight

GivingsOf(b, seq) == CHOOSE it : it = [s \in SUBSET DOMAIN seq |->
  IF s = {} THEN b ELSE GiveOf(it[s \ {Max(s)}], seq[Max(s)])]

\* Who is given n has n more.
LEMMA GiveRight ==
  ASSUME NEW p0 \in Purses, NEW n0 \in Nat
  PROVE  Give(p0, n0) \in Purses /\ Total(Give(p0, n0)) = Total(p0) + n0
<1> DEFINE n == Len(Values) - 1
           seq == [i \in 1 .. n |-> i + 1]
           S == 1 .. n
           D == Givings
           b == [left |-> n0, p |-> p0]
           it == GivingsOf(b, seq)
           F == [x \in S \X D |-> GiveOf(x[2], seq[x[1]])]
<1>1. /\ n \in Nat /\ n # 0 /\ DOMAIN seq = S /\ S = 1 .. n
      /\ \A i \in S : seq[i] \in DOMAIN Values
      /\ Values[seq[n]] = 1
  <2>1. Len(Values) \in Nat /\ Len(Values) > 1 /\ DOMAIN Values = 1 .. Len(Values) /\ Values[Len(Values)] = 1
    BY CoinsWorth
  <2>2. n \in 1 .. n /\ n + 1 = Len(Values)
    BY <2>1
  <2>3. seq[n] = Len(Values)
    BY <2>2
  <2> QED BY <2>1, <2>3
<1>2. b \in D /\ b.left = n0 /\ b.p = p0
  BY DEF Givings
<1>3. Give(p0, n0) = it[DOMAIN seq].p
  BY Zenon DEF Give, FoldLeft, MapThenFoldSet, GivingsOf
<1> HIDE DEF seq, n, b
<1>4. \A i \in S, s \in D : GivenRight(s, seq[i], GiveOf(s, seq[i]))
  BY <1>1, GiveOfRight
<1>5. F \in [S \X D -> D] /\ \A i \in S, s \in D : F[<<i, s>>] = GiveOf(s, seq[i])
  <2>1. \A i \in S, s \in D : GiveOf(s, seq[i]) \in D
    BY <1>4 DEF GivenRight
  <2> HIDE DEF S, D
  <2> QED BY <2>1
<1>6. \A s \in SUBSET S : s # {} => Max(s) \in S /\ s \ {Max(s)} \in SUBSET S
  BY <1>1, LastOf
<1> HIDE DEF F, S, D
<1>7. PICK g \in [SUBSET S -> D] : FoldedLeft(g, S, F, b)
  BY <1>1, <1>2, <1>5, FoldLeftExists, Zenon
<1>8. \A s \in SUBSET S : g[s] = IF s = {} THEN b ELSE GiveOf(g[s \ {Max(s)}], seq[Max(s)])
  BY <1>5, <1>6, <1>7 DEF FoldedLeft
<1>9. g = [s \in SUBSET S |-> IF s = {} THEN b ELSE GiveOf(g[s \ {Max(s)}], seq[Max(s)])]
  BY <1>8
<1>10. it = [s \in SUBSET S |-> IF s = {} THEN b ELSE GiveOf(it[s \ {Max(s)}], seq[Max(s)])]
  BY <1>1, <1>9, Zenon DEF GivingsOf
<1> HIDE DEF it
<1>11. \A s \in SUBSET S : it[s] = IF s = {} THEN b ELSE GiveOf(it[s \ {Max(s)}], seq[Max(s)])
  BY <1>10
<1>12. it[{}] = b
  BY <1>11
<1>13. \A i \in 1 .. n : it[1 .. i] = GiveOf(it[1 .. (i - 1)], seq[i])
  <2> SUFFICES ASSUME NEW i \in 1 .. n PROVE it[1 .. i] = GiveOf(it[1 .. (i - 1)], seq[i])
    OBVIOUS
  <2>1. i \in Nat \ {0} /\ 1 .. i \in SUBSET S
    BY <1>1
  <2> QED BY <1>11, <2>1, Prefix
<1> DEFINE Fit(i) == /\ it[1 .. i] \in D /\ Total(it[1 .. i].p) + it[1 .. i].left = Total(p0) + n0
                     /\ i = n => it[1 .. i].left = 0
           A == {i \in Nat : i <= n => Fit(i)}
<1>14. 0 \in A
  <2>1. 1 .. 0 = {}
    OBVIOUS
  <2> QED BY <1>1, <1>2, <1>12, <2>1
<1>15. ASSUME NEW i \in Nat, i \in A PROVE i + 1 \in A
  <2>1. SUFFICES ASSUME i + 1 <= n PROVE Fit(i + 1)
    OBVIOUS
  <2>2. i <= n /\ i + 1 \in 1 .. n /\ (i + 1) - 1 = i /\ i + 1 \in S
    BY <1>1, <2>1
  <2>3. it[1 .. (i + 1)] = GiveOf(it[1 .. i], seq[i + 1])
    BY <1>13, <2>2
  <2>4. it[1 .. i] \in D /\ Total(it[1 .. i].p) + it[1 .. i].left = Total(p0) + n0
    BY <1>15, <2>2
  <2> DEFINE P == it[1 .. i]
             Q == it[1 .. (i + 1)]
  <2> HIDE DEF P, Q
  <2>5. Q = GiveOf(P, seq[i + 1]) /\ P \in D /\ Total(P.p) + P.left = Total(p0) + n0
    BY <2>3, <2>4 DEF P, Q
  <2>6. Q \in D /\ Total(Q.p) + Q.left = Total(p0) + n0 /\ (Values[seq[i + 1]] = 1 => Q.left = 0)
    <3> DEFINE j == i + 1
    <3>1. j \in S /\ Q = GiveOf(P, seq[j])
      BY <2>2, <2>5
    <3> HIDE DEF j
    <3>2. GivenRight(P, seq[j], Q)
      BY <1>4, <2>5, <3>1
    <3>3. Q \in D /\ Total(Q.p) + Q.left = Total(P.p) + P.left /\ (Values[seq[j]] = 1 => Q.left = 0)
      BY <3>2 DEF GivenRight, D
    <3> QED BY <2>5, <3>3 DEF j
  <2> QED BY <1>1, <2>6 DEF Q
<1> HIDE DEF A, Fit
<1>16. Nat \subseteq A
  BY <1>14, <1>15, CountedUp
<1>17. Fit(n)
  <2>1. n <= n
    BY <1>1
  <2> QED BY <1>1, <1>16, <2>1 DEF A
<1> DEFINE R == it[S]
<1>18. R \in Givings /\ Total(R.p) + R.left = Total(p0) + n0 /\ R.left = 0
  BY <1>1, <1>17 DEF Fit, D
<1> HIDE DEF R
<1>19. R.p \in Purses /\ R.p \in Seq(Heap)
  BY <1>18 DEF Givings, Purses
<1>20. Total(R.p) \in Nat
  BY <1>19, TotalIsNat
<1>21. Give(p0, n0) = R.p
  BY <1>1, <1>3 DEF R
<1> QED BY <1>18, <1>19, <1>20, <1>21

LEMMA OfTwo ==
  ASSUME NEW a \in Int, NEW b \in Int
  PROVE  /\ Min({a, b}) = IF a <= b THEN a ELSE b
         /\ Max({a, b}) = IF a >= b THEN a ELSE b
<1>1. CASE a <= b
  BY <1>1 DEF Min, Max
<1>2. CASE ~(a <= b)
  BY <1>2 DEF Min, Max
<1> QED BY <1>1, <1>2

\* As many coins of a heap as it takes, if it has so many.
LEMMA Used ==
  ASSUME NEW left \in Nat, NEW val \in Nat \ {0}, NEW size \in Nat,
         NEW used, used = Min({size, (left + val - 1) \div val})
  PROVE  /\ used \in Nat /\ used <= size /\ used * val \in Nat
         /\ used = size \/ used * val >= left
<1> DEFINE k == (left + val - 1) \div val
           r == (left + val - 1) % val
<1>1. left + val - 1 \in Nat
  OBVIOUS
<1>2. k \in Int /\ r \in Nat /\ r < val /\ left + val - 1 = val * (k) + (r)
  BY <1>1, Divided
<1>3. k \in Nat
  BY <1>1
<1> HIDE DEF k, r
<1>4. used = IF size <= k THEN size ELSE k
  BY <1>2, OfTwo DEF k
<1>5. used \in Nat /\ used <= size
  BY <1>3, <1>4
<1>6. used * val \in Nat
  BY <1>5
<1>7. used = size \/ used = k
  BY <1>4
<1> DEFINE x == val * (k)
<1>8. x \in Nat /\ left + val - 1 = x + r /\ k * val = x
  BY <1>2, <1>3
<1> HIDE DEF x
<1>9. x >= left
  BY <1>2, <1>8
<1> QED BY <1>5, <1>6, <1>7, <1>8, <1>9

\* While money is taken: what is left to take, the change, and the heaps that remain.
Takings == [left : Nat, back : Nat, p : Seq(Heap)]

TakenRight(s, h, r) ==
  /\ r \in Takings
  /\ Total(r.p) + r.back - r.left = (Total(s.p) + s.back - s.left) + Val(h)
  /\ r.left > 0 => s.left > 0 /\ r.back = s.back /\ r.p = s.p
  /\ r.p = s.p \/ \E rest \in Heap : rest.type = h.type /\ r.p = Append(s.p, rest)

LEMMA TakeOfRight ==
  ASSUME NEW s \in Takings, NEW h \in Heap
  PROVE  TakenRight(s, h, TakeOf(s, h))
<1> DEFINE val  == Values[h.type]
           size == h.size
           left == s.left
           used == Min({size, (left + val - 1) \div val})
           paid == used * val
           r == TakeOf(s, h)
           rest == [h EXCEPT !.size = @ - used]
           more == Max({0, paid - left})
           still == Max({0, left - paid})
<1>1. r = [left |-> still, back |-> s.back + more,
           p |-> IF used = size THEN s.p ELSE Append(s.p, rest)]
  BY DEF TakeOf
<1>2. val \in Nat \ {0} /\ size \in Nat /\ left \in Nat /\ s.back \in Nat /\ s.p \in Seq(Heap)
  BY CoinsWorth DEF Takings, Heap
<1> HIDE DEF val, size, left
<1>3. used \in Nat /\ used <= size /\ paid \in Nat /\ (used = size \/ paid >= left)
  BY <1>2, Used
<1> HIDE DEF used, r
<1> DEFINE d == size - used
           x == val * d
<1>4. d \in Nat /\ x \in Nat
  <2>1. d \in Nat
    BY <1>2, <1>3
  <2> HIDE DEF d
  <2> QED BY <1>2, <2>1
<1>5. Val(h) = x + paid
  <2>1. Val(h) = val * size
    BY DEF Val, val, size
  <2>2. size = d + used
    BY <1>2, <1>3
  <2> HIDE DEF d
  <2>3. val * (d + used) = val * d + used * val
    BY <1>2, <1>3, <1>4
  <2> QED BY <2>1, <2>2, <2>3
<1>6. rest \in Heap /\ rest.type = h.type /\ Val(rest) = x
  <2>1. rest.type = h.type /\ rest.size = d /\ rest \in Heap
    BY <1>4 DEF Heap, size
  <2> HIDE DEF d, rest
  <2> QED BY <2>1 DEF Val, val
<1> HIDE DEF rest, x, paid
<1>7. x \in Nat /\ paid \in Nat /\ (used = size => x = 0)
  <2>1. used = size => d = 0
    BY <1>2, <1>3
  <2> HIDE DEF d
  <2>2. val * 0 = 0
    BY <1>2
  <2> QED BY <1>3, <1>4, <2>1, <2>2 DEF x
<1> HIDE DEF d
<1>8. /\ more \in Nat /\ still \in Nat /\ more - still = paid - left
      /\ still > 0 => more = 0 /\ left > 0 /\ ~(paid >= left)
  <2> DEFINE a == paid - left
             b == left - paid
  <2>1. a \in Int /\ b \in Int /\ b = 0 - a /\ a = paid - left
    BY <1>2, <1>7
  <2> HIDE DEF a, b
  <2>2. more = Max({0, a}) /\ still = Max({0, b}) /\ 0 \in Int
    BY DEF a, b
  <2> HIDE DEF more, still
  <2>3. more = (IF 0 >= a THEN 0 ELSE a) /\ still = (IF 0 >= b THEN 0 ELSE b)
    BY <2>1, <2>2, OfTwo
  <2>4. left \in Nat /\ paid \in Nat
    BY <1>2, <1>7
  <2>5. CASE a >= 0
    <3>1. still = 0 /\ more = a
      BY <2>1, <2>3, <2>5
    <3> QED BY <2>1, <2>5, <3>1
  <2>6. CASE ~(a >= 0)
    <3>1. more = 0 /\ still = b
      BY <2>1, <2>3, <2>6
    <3> QED BY <2>1, <2>4, <2>6, <3>1
  <2> QED BY <2>5, <2>6
<1> HIDE DEF more, still
<1> DEFINE q == IF used = size THEN s.p ELSE Append(s.p, rest)
<1>9. /\ q \in Seq(Heap) /\ Total(q) = Total(s.p) + x
      /\ q = s.p \/ q = Append(s.p, rest)
      /\ still > 0 => q = s.p
  <2>1. CASE used = size
    <3>1. q = s.p /\ x = 0 /\ Total(s.p) \in Nat
      BY <1>2, <1>7, <2>1, TotalIsNat
    <3> HIDE DEF q
    <3> QED BY <1>2, <1>7, <3>1
  <2>2. CASE used # size
    <3>1. q = Append(s.p, rest) /\ still = 0
      BY <1>3, <1>8, <2>2
    <3>2. q \in Seq(Heap) /\ Total(q) = Total(s.p) + Val(rest)
      BY <1>2, <1>6, <3>1, TotalAppend
    <3> HIDE DEF q
    <3> QED BY <1>6, <1>8, <3>1, <3>2
  <2> HIDE DEF q
  <2> QED BY <2>1, <2>2
<1>10. r.left = still /\ r.back = s.back + more /\ r.p = q /\ r \in Takings
  <2>1. r = [left |-> still, back |-> s.back + more, p |-> q]
    BY <1>1
  <2> HIDE DEF q
  <2> QED BY <1>2, <1>8, <1>9, <2>1 DEF Takings
<1> HIDE DEF q
<1>11. Total(r.p) + r.back - r.left = (Total(s.p) + s.back - s.left) + Val(h)
  <2> DEFINE y == Total(s.p)
             z == s.back
  <2>1. y \in Nat /\ z \in Nat
    BY <1>2, TotalIsNat
  <2>2. Total(r.p) = y + x /\ r.back = z + more /\ r.left = still
    BY <1>9, <1>10
  <2> HIDE DEF y, z
  <2>3. (y + x) + (z + more) - still = (y + z - left) + (x + paid)
    BY <1>2, <1>7, <1>8, <2>1
  <2> QED BY <1>5, <2>2, <2>3 DEF y, z, left
<1>12. r.left > 0 => s.left > 0 /\ r.back = s.back /\ r.p = s.p
  BY <1>2, <1>8, <1>9, <1>10 DEF left
<1>13. r.p = s.p \/ \E a \in Heap : a.type = h.type /\ r.p = Append(s.p, a)
  BY <1>6, <1>9, <1>10
<1> QED BY <1>10, <1>11, <1>12, <1>13 DEF TakenRight, r

TakingsOf(b, p) == CHOOSE it : it = [s \in SUBSET DOMAIN p |->
  IF s = {} THEN b ELSE TakeOf(it[s \ {Max(s)}], p[Max(s)])]

\* What is left has different coins, all of which were in the first i heaps.
KeptApart(q, p, i) == Sorted(q) /\ \A j \in DOMAIN q : \E k \in 1 .. i : q[j].type = p[k].type

LEMMA KeptApartGrows ==
  ASSUME NEW p \in Purses, NEW i \in Nat, i + 1 <= Len(p), NEW q \in Seq(Heap), KeptApart(q, p, i)
  PROVE  /\ KeptApart(q, p, i + 1)
         /\ \A rest \in Heap : rest.type = p[i + 1].type => KeptApart(Append(q, rest), p, i + 1)
<1>1. p \in Seq(Heap) /\ Sorted(p) /\ DOMAIN p = 1 .. Len(p) /\ Len(p) \in Nat
  BY DEF Purses
<1>2. \A k \in 1 .. i : k \in 1 .. i + 1 /\ k \in DOMAIN p /\ k # i + 1
  BY <1>1
<1>3. i + 1 \in 1 .. i + 1 /\ i + 1 \in DOMAIN p
  BY <1>1
<1>4. KeptApart(q, p, i + 1)
  BY <1>2 DEF KeptApart
<1>5. ASSUME NEW rest \in Heap, rest.type = p[i + 1].type PROVE KeptApart(Append(q, rest), p, i + 1)
  <2> DEFINE r == Append(q, rest)
             m == Len(q) + 1
  <2>1. /\ DOMAIN r = 1 .. m /\ m \in Nat /\ r[m] = rest
        /\ \A j \in 1 .. m : j # m => j \in DOMAIN q /\ r[j] = q[j]
    OBVIOUS
  <2> HIDE DEF r, m
  <2>2. \A j \in DOMAIN q : q[j].type # p[i + 1].type
    BY <1>1, <1>2, <1>3 DEF KeptApart, Sorted
  <2>3. Sorted(r)
    <3> SUFFICES ASSUME NEW j \in 1 .. m, NEW l \in 1 .. m, r[j].type = r[l].type PROVE j = l
      BY <2>1 DEF Sorted
    <3>1. CASE j # m /\ l # m
      BY <2>1, <3>1 DEF KeptApart, Sorted
    <3>2. CASE j = m \/ l = m
      BY <1>5, <2>1, <2>2, <3>2
    <3> QED BY <3>1, <3>2
  <2>4. \A j \in DOMAIN r : \E k \in 1 .. i + 1 : r[j].type = p[k].type
    BY <1>2, <1>3, <1>5, <2>1 DEF KeptApart
  <2> QED BY <2>3, <2>4 DEF KeptApart, r
<1> QED BY <1>4, <1>5

\* Who has enough pays the price.
LEMMA TakeRight ==
  ASSUME NEW p0 \in Purses, NEW n0 \in Nat, n0 <= Total(p0)
  PROVE  Take(p0, n0) \in Purses /\ Total(Take(p0, n0)) = Total(p0) - n0
<1> DEFINE n == Len(p0)
           S == 1 .. n
           D == Takings
           b == [left |-> n0, back |-> 0, p |-> <<>>]
           it == TakingsOf(b, p0)
           F == [x \in S \X D |-> TakeOf(x[2], p0[x[1]])]
<1>1. /\ p0 \in Seq(Heap) /\ n \in Nat /\ DOMAIN p0 = S /\ S = 1 .. n
      /\ \A i \in S : p0[i] \in Heap
  BY DEF Purses
<1>2. b \in D /\ b.left = n0 /\ b.p = <<>> /\ b.back = 0
  BY DEF Takings
<1>3. Take(p0, n0) = Give(it[DOMAIN p0].p, it[DOMAIN p0].back)
  BY Zenon DEF Take, FoldLeft, MapThenFoldSet, TakingsOf
<1> HIDE DEF n, b
<1>4. \A i \in S, s \in D : TakenRight(s, p0[i], TakeOf(s, p0[i]))
  BY <1>1, TakeOfRight
<1>5. F \in [S \X D -> D] /\ \A i \in S, s \in D : F[<<i, s>>] = TakeOf(s, p0[i])
  <2>1. \A i \in S, s \in D : TakeOf(s, p0[i]) \in D
    BY <1>4 DEF TakenRight
  <2> HIDE DEF S, D
  <2> QED BY <2>1
<1>6. \A s \in SUBSET S : s # {} => Max(s) \in S /\ s \ {Max(s)} \in SUBSET S
  BY <1>1, LastOf
<1> HIDE DEF F, S, D
<1>7. PICK g \in [SUBSET S -> D] : FoldedLeft(g, S, F, b)
  BY <1>1, <1>2, <1>5, FoldLeftExists, Zenon
<1>8. \A s \in SUBSET S : g[s] = IF s = {} THEN b ELSE TakeOf(g[s \ {Max(s)}], p0[Max(s)])
  BY <1>5, <1>6, <1>7 DEF FoldedLeft
<1>9. g = [s \in SUBSET S |-> IF s = {} THEN b ELSE TakeOf(g[s \ {Max(s)}], p0[Max(s)])]
  BY <1>8
<1>10. it = [s \in SUBSET S |-> IF s = {} THEN b ELSE TakeOf(it[s \ {Max(s)}], p0[Max(s)])]
  BY <1>1, <1>9, Zenon DEF TakingsOf
<1> HIDE DEF it
<1>11. \A s \in SUBSET S : it[s] = IF s = {} THEN b ELSE TakeOf(it[s \ {Max(s)}], p0[Max(s)])
  BY <1>10
<1>12. it[{}] = b
  BY <1>11
<1>13. \A i \in 1 .. n : it[1 .. i] = TakeOf(it[1 .. (i - 1)], p0[i])
  <2> SUFFICES ASSUME NEW i \in 1 .. n PROVE it[1 .. i] = TakeOf(it[1 .. (i - 1)], p0[i])
    OBVIOUS
  <2>1. i \in Nat \ {0} /\ 1 .. i \in SUBSET S
    BY <1>1
  <2> QED BY <1>11, <2>1, Prefix
<1>14. PICK f : AddsUp(f, Vals(p0), n) /\ Total(p0) = f[n]
  BY <1>1, TotalUp DEF n
<1>15. \A i \in 0 .. n : f[i] \in Nat
  BY <1>1, <1>14, TotalIs DEF n
<1> DEFINE Fit(i, P) ==
             /\ P \in Takings /\ Total(P.p) + P.back - P.left = f[i] - n0
             /\ P.left > 0 => P.back = 0 /\ P.p = <<>>
             /\ KeptApart(P.p, p0, i)
           A == {i \in Nat : i <= n => Fit(i, it[1 .. i])}
<1>16. 0 \in A
  <2>1. 1 .. 0 = {}
    OBVIOUS
  <2>2. f[0] = 0
    BY <1>14 DEF AddsUp
  <2>3. KeptApart(<<>>, p0, 0)
    BY DEF KeptApart, Sorted
  <2>4. Fit(0, b)
    BY <1>2, <2>2, <2>3, TotalOfNone DEF D
  <2> HIDE DEF Fit
  <2> QED BY <1>12, <2>1, <2>4
<1>17. ASSUME NEW i \in Nat, i \in A PROVE i + 1 \in A
  <2>1. SUFFICES ASSUME i + 1 <= n PROVE Fit(i + 1, it[1 .. (i + 1)])
    OBVIOUS
  <2> DEFINE P == it[1 .. i]
             Q == it[1 .. (i + 1)]
             j == i + 1
             h == p0[i + 1]
  <2>2. i <= n /\ j \in 1 .. n /\ j - 1 = i /\ j \in S /\ i \in 0 .. n
    BY <1>1, <2>1
  <2>3. Q = TakeOf(P, h)
    BY <1>13, <2>2
  <2>4. Fit(i, P)
    BY <1>17, <2>2
  <2> HIDE DEF P, Q, A
  <2>5. h \in Heap /\ TakenRight(P, h, Q)
    BY <1>1, <1>4, <2>2, <2>3, <2>4 DEF D
  <2>6. f[j] = f[i] + Val(h)
    <3>1. f[j] = f[i] + Vals(p0)[j]
      BY <1>14, <2>2 DEF AddsUp
    <3>2. Vals(p0)[j] = Val(h)
      BY <1>1, <2>2, ValsTyped DEF n
    <3> QED BY <3>1, <3>2
  <2> HIDE DEF j, h
  <2>7. /\ Q \in Takings
        /\ Total(Q.p) + Q.back - Q.left = (Total(P.p) + P.back - P.left) + Val(h)
        /\ Q.left > 0 => P.left > 0 /\ Q.back = P.back /\ Q.p = P.p
        /\ Q.p = P.p \/ \E rest \in Heap : rest.type = h.type /\ Q.p = Append(P.p, rest)
    BY <2>5 DEF TakenRight
  <2>8. Q.left > 0 => Q.back = 0 /\ Q.p = <<>>
    BY <2>4, <2>7
  <2>9. Total(Q.p) + Q.back - Q.left = f[j] - n0
    <3>1. Val(h) \in Nat /\ f[i] \in Nat
      BY <1>15, <2>2, <2>5, CoinsWorth
    <3>2. Total(Q.p) + Q.back - Q.left = (f[i] - n0) + Val(h)
      BY <2>4, <2>7
    <3> DEFINE y == f[i]
               z == Val(h)
    <3>3. y \in Nat /\ z \in Nat /\ f[j] = y + z /\ Total(Q.p) + Q.back - Q.left = (y - n0) + z
      BY <2>6, <3>1, <3>2
    <3> HIDE DEF y, z
    <3>4. (y - n0) + z = (y + z) - n0
      BY <3>3
    <3> QED BY <3>3, <3>4
  <2>10. KeptApart(Q.p, p0, j)
    <3>1. P.p \in Seq(Heap) /\ KeptApart(P.p, p0, i) /\ i + 1 <= Len(p0)
      BY <2>1, <2>4 DEF n, Takings
    <3>2. /\ KeptApart(P.p, p0, i + 1)
          /\ \A rest \in Heap : rest.type = p0[i + 1].type => KeptApart(Append(P.p, rest), p0, i + 1)
      BY <3>1, KeptApartGrows
    <3> QED BY <2>7, <3>2 DEF j, h
  <2>11. Fit(j, Q)
    BY <2>7, <2>8, <2>9, <2>10
  <2> HIDE DEF Fit
  <2> QED BY <2>11 DEF j, Q
<1> HIDE DEF A
<1>18. Nat \subseteq A
  BY <1>16, <1>17, CountedUp
<1> DEFINE R == it[S]
<1>19. Fit(n, R)
  <2> HIDE DEF Fit
  <2>1. n <= n
    BY <1>1
  <2> QED BY <1>1, <1>18, <2>1 DEF A
<1>20. Take(p0, n0) = Give(R.p, R.back)
  BY <1>1, <1>3
<1> HIDE DEF R
<1>21. R.p \in Purses /\ R.back \in Nat /\ R.left \in Nat /\ R.p \in Seq(Heap)
  BY <1>19 DEF Takings, KeptApart, Purses
<1>22. Total(R.p) \in Nat
  BY <1>21, TotalIsNat
<1>23. R.left = 0
  <2> SUFFICES ASSUME R.left > 0 PROVE FALSE
    BY <1>21
  <2>1. R.back = 0 /\ Total(R.p) = 0
    BY <1>19, TotalOfNone
  <2>2. f[n] \in Nat /\ n0 <= f[n]
    BY <1>1, <1>14, <1>15
  <2>3. 0 + 0 - R.left = f[n] - n0
    BY <1>19, <2>1
  <2> QED BY <1>21, <2>2, <2>3
<1>24. Give(R.p, R.back) \in Purses /\ Total(Give(R.p, R.back)) = Total(R.p) + R.back
  BY <1>21, GiveRight
<1>25. Total(R.p) + R.back - 0 = f[n] - n0
  BY <1>19, <1>23
<1>26. Total(R.p) + R.back = Total(p0) - n0
  BY <1>14, <1>21, <1>22, <1>25
<1> QED BY <1>20, <1>24, <1>26

\* change(): what is in the purse is what it was, and the amount.
LEMMA ChangeRight ==
  ASSUME NEW p \in Purses, NEW n \in Int, Total(p) + n >= 0
  PROVE  Change(p, n) \in Purses /\ Total(Change(p, n)) = Total(p) + n
<1>1. Total(p) \in Nat
  BY TotalIsNat DEF Purses
<1>2. CASE n < 0
  <2>1. -n \in Nat /\ -n <= Total(p)
    BY <1>1, <1>2
  <2> DEFINE m == -n
  <2>2. m \in Nat /\ m <= Total(p) /\ n = 0 - m
    BY <2>1
  <2>3. Change(p, n) = Take(p, m)
    BY <1>2 DEF Change
  <2> HIDE DEF m
  <2>4. Take(p, m) \in Purses /\ Total(Take(p, m)) = Total(p) - m
    BY <2>2, TakeRight
  <2> QED BY <1>1, <2>2, <2>3, <2>4
<1>3. CASE ~(n < 0)
  <2>1. n \in Nat
    BY <1>3
  <2> QED BY <1>3, <2>1, GiveRight DEF Change
<1> QED BY <1>2, <1>3

-----------------------------------------------------------------------------
(* Sums over the customers, and over all buyers, and what the shop pays at most. *)

\* Those for whom there are sums.
Traders == {Customers, Buyers}

LEMMA TradersFinite == \A S \in Traders : IsFiniteSet(S)
<1>1. IsFiniteSet(Customers)
  BY ShopAssumption
<1>2. IsFiniteSet(Buyers)
  BY <1>1, FS_AddElement DEF Buyers
<1> QED BY <1>1, <1>2 DEF Traders

LEMMA BothTrade == Customers \in Traders /\ Buyers \in Traders /\ Customers \subseteq Buyers /\ NoBuyer \in Buyers
  BY DEF Traders, Buyers

\* Sum() is the sum of a function.
LEMMA SumIs ==
  ASSUME NEW S \in Traders, NEW f \in [S -> Int] PROVE Sum(f) = SumFunction(f)
<1>1. DOMAIN f = S
  OBVIOUS
<1>2. Sum(f) = SumsOf(f, S)[S]
  BY <1>1, Zenon DEF Sum, MapThenSumSet, MapThenFoldSet, SumsOf, AnyOf
<1>3. AreSums(SumsOf(f, S), f, S)
  BY TradersFinite, SumsAdd, Zenon
<1> QED BY <1>2, <1>3 DEF AreSums

LEMMA SumOfNats ==
  ASSUME NEW S \in Traders, NEW f \in [S -> Nat]
  PROVE  f \in [S -> Int] /\ Sum(f) \in Nat /\ \A c \in S : f[c] \in Nat /\ f[c] <= Sum(f)
<1>1. IsFiniteSet(S) /\ f \in [S -> Int]
  BY TradersFinite
<1>2. SumFunction(f) \in Nat /\ \A c \in S : f[c] <= SumFunction(f)
  BY <1>1, SumAtLeast
<1> QED BY <1>1, <1>2, SumIs

LEMMA SumWith ==
  ASSUME NEW S \in Traders, NEW f \in [S -> Int], NEW c \in S, NEW n \in Int
  PROVE  Sum([f EXCEPT ![c] = n]) = Sum(f) + n - f[c] /\ Sum(f) \in Int
<1>1. IsFiniteSet(S)
  BY TradersFinite
<1> DEFINE g == [f EXCEPT ![c] = n]
<1>2. /\ SumFunction(f) \in Int /\ SumFunction(g) \in Int
      /\ SumFunction(g) = SumFunction(f) + n - f[c]
  BY <1>1, SumChanges
<1>3. g \in [S -> Int]
  OBVIOUS
<1> HIDE DEF g
<1> QED BY <1>2, <1>3, SumIs DEF g

LEMMA SumOfEqual ==
  ASSUME NEW S \in Traders, NEW n \in Int PROVE Sum([c \in S |-> n]) = Cardinality(S) * n
<1> DEFINE f == [c \in S |-> n]
<1>1. IsFiniteSet(S) /\ f = [c \in S |-> n] /\ f \in [S -> Int]
  BY TradersFinite
<1> HIDE DEF f
<1>2. SumFunction(f) = Cardinality(S) * n
  BY <1>1, SumConstant
<1> QED BY <1>1, <1>2, SumIs DEF f

-----------------------------------------------------------------------------
\* What the shop pays at most until n are in stock.
Offers == [k \in 1 .. MaxGoods |-> Dearest(k)]
Paid == CHOOSE f \in [0 .. MaxGoods -> Int] : AddsUp(f, Offers, MaxGoods)

LEMMA PaidIs ==
  /\ MaxGoods \in Nat /\ \A n \in 0 .. MaxGoods : Paid[n] \in Int
  /\ \A n \in 1 .. MaxGoods : Dearest(n) \in Nat /\ Paid[n] = Paid[n - 1] + Dearest(n)
<1>1. MaxGoods \in Nat /\ \A k \in 1 .. MaxGoods : Offers[k] = Dearest(k) /\ Offers[k] \in Nat
  <2>1. MaxGoods \in Nat /\ \A k \in 1 .. MaxGoods : k \in Nat
    BY ShopAssumption
  <2> QED BY <2>1, DearestIs DEF Offers
<1>2. \E f \in [0 .. MaxGoods -> Int] : AddsUp(f, Offers, MaxGoods)
  <2>1. \A k \in 1 .. MaxGoods : Offers[k] \in Int
    BY <1>1
  <2> QED BY <1>1, <2>1, AddsUpExists
<1>3. Paid \in [0 .. MaxGoods -> Int] /\ AddsUp(Paid, Offers, MaxGoods)
  BY <1>2 DEF Paid
<1> QED BY <1>1, <1>3 DEF AddsUp

LEMMA PaidGrows ==
  ASSUME NEW a \in Nat, NEW g \in Nat, a + g <= MaxGoods
  PROVE  Paid[a] \in Int /\ Paid[a + g] \in Int /\ Paid[a] <= Paid[a + g]
<1> DEFINE A == {i \in Nat : a + i <= MaxGoods => Paid[a] <= Paid[a + i] /\ Paid[a + i] \in Int /\ Paid[a] \in Int}
<1>1. 0 \in A
  <2>1. a + 0 = a /\ (a <= MaxGoods => a \in 0 .. MaxGoods)
    OBVIOUS
  <2> QED BY <2>1, PaidIs
<1>2. ASSUME NEW i \in Nat, i \in A PROVE i + 1 \in A
  <2>1. SUFFICES ASSUME a + (i + 1) <= MaxGoods
                 PROVE  Paid[a] <= Paid[a + (i + 1)] /\ Paid[a + (i + 1)] \in Int /\ Paid[a] \in Int
    OBVIOUS
  <2> DEFINE k == a + (i + 1)
  <2>2. k \in 1 .. MaxGoods /\ k - 1 = a + i /\ a + i <= MaxGoods
    BY <2>1, PaidIs
  <2> HIDE DEF k
  <2>3. Paid[k] = Paid[a + i] + Dearest(k) /\ Dearest(k) \in Nat
    BY <2>2, PaidIs
  <2>4. Paid[a] <= Paid[a + i] /\ Paid[a + i] \in Int /\ Paid[a] \in Int
    BY <1>2, <2>2
  <2>5. Paid[a] <= Paid[k] /\ Paid[k] \in Int
    BY <2>3, <2>4
  <2> QED BY <2>4, <2>5 DEF k
<1> HIDE DEF A
<1>3. Nat \subseteq A
  BY <1>1, <1>2, CountedUp
<1> QED BY <1>3 DEF A

\* The more there are in stock the less is paid for the next g.
LEMMA PaidFalls ==
  ASSUME NEW a \in Nat, NEW b \in Nat, a <= b, NEW g \in Nat, b + g <= MaxGoods
  PROVE  Paid[b + g] - Paid[b] <= Paid[a + g] - Paid[a]
<1> DEFINE A == {i \in Nat : b + i <= MaxGoods => Paid[b + i] - Paid[b] <= Paid[a + i] - Paid[a]}
<1>1. 0 \in A
  <2>1. a + 0 = a /\ b + 0 = b /\ (b <= MaxGoods => a \in 0 .. MaxGoods /\ b \in 0 .. MaxGoods)
    BY PaidIs
  <2> DEFINE x == Paid[a]
             y == Paid[b]
  <2>2. b <= MaxGoods => x \in Int /\ y \in Int
    BY <2>1, PaidIs
  <2> HIDE DEF x, y
  <2>3. b <= MaxGoods => y - y <= x - x
    BY <2>2
  <2> QED BY <2>1, <2>3 DEF x, y
<1>2. ASSUME NEW i \in Nat, i \in A PROVE i + 1 \in A
  <2>1. SUFFICES ASSUME b + (i + 1) <= MaxGoods
                 PROVE  Paid[b + (i + 1)] - Paid[b] <= Paid[a + (i + 1)] - Paid[a]
    OBVIOUS
  <2> DEFINE k == a + (i + 1)
             l == b + (i + 1)
  <2>2. /\ k \in 1 .. MaxGoods /\ k - 1 = a + i /\ a + i \in 0 .. MaxGoods /\ a \in 0 .. MaxGoods
        /\ l \in 1 .. MaxGoods /\ l - 1 = b + i /\ b + i \in 0 .. MaxGoods /\ b \in 0 .. MaxGoods
        /\ k <= l /\ k \in Nat /\ l \in Nat /\ b + i <= MaxGoods
    BY <2>1, PaidIs
  <2> HIDE DEF k, l
  <2>3. /\ Paid[k] = Paid[a + i] + Dearest(k) /\ Dearest(k) \in Nat
        /\ Paid[l] = Paid[b + i] + Dearest(l) /\ Dearest(l) \in Nat
    BY <2>2, PaidIs
  <2>4. Dearest(l) <= Dearest(k)
    BY <2>2, DearestIs
  <2>5. Paid[b + i] - Paid[b] <= Paid[a + i] - Paid[a]
    BY <1>2, <2>2
  <2>6. Paid[a] \in Int /\ Paid[b] \in Int /\ Paid[a + i] \in Int /\ Paid[b + i] \in Int
    BY <2>2, PaidIs
  <2>7. Paid[l] - Paid[b] <= Paid[k] - Paid[a]
    BY <2>3, <2>4, <2>5, <2>6
  <2> QED BY <2>7 DEF k, l
<1> HIDE DEF A
<1>3. Nat \subseteq A
  BY <1>1, <1>2, CountedUp
<1> QED BY <1>3 DEF A

-----------------------------------------------------------------------------
\* What has been sold when i goods were offered, from a stock of n on.
Sold(n, i, s) ==
  /\ s \in [count : Nat, gained : Nat]
  /\ n <= s.count /\ s.count <= n + i /\ s.count < 2 * Most
  /\ s.gained <= Paid[s.count] - Paid[n]

LEMMA SellOneRight ==
  ASSUME NEW n \in Nat, NEW i \in Nat, n + i + 1 <= MaxGoods, NEW s, Sold(n, i, s),
         NEW m \in SellTrade \cup {100}
  PROVE  Sold(n, i + 1, SellOne(s, m))
<1> DEFINE k == s.count
           g == s.gained
           price == SellPrice(k + 1, m)
<1>1. k \in Nat /\ g \in Nat /\ n <= k /\ k <= n + i /\ k < 2 * Most /\ g <= Paid[k] - Paid[n] /\ Most \in Nat
  BY MostIs DEF Sold
<1>2. SellOne(s, m) = IF price = 0 THEN s ELSE [count |-> k + 1, gained |-> g + price]
  BY DEF SellOne
<1> HIDE DEF k, g
<1>3. k + 1 <= 2 * Most
  BY <1>1
<1>4. price \in Nat /\ price <= Dearest(k + 1) /\ (price # 0 => k + 1 < 2 * Most)
  BY <1>1, <1>3, SellerGets
<1> HIDE DEF price
<1>5. CASE price = 0
  <2>1. k <= n + (i + 1)
    BY <1>1
  <2> QED BY <1>2, <1>5, <2>1 DEF Sold, k
<1>6. CASE price # 0
  <2> DEFINE l == k + 1
             r == [count |-> l, gained |-> g + price]
  <2>1. l \in 1 .. MaxGoods /\ l - 1 = k /\ k \in 0 .. MaxGoods /\ n \in 0 .. MaxGoods /\ l <= n + (i + 1) /\ n <= l
    BY <1>1, PaidIs
  <2>2. price <= Dearest(l) /\ l < 2 * Most
    BY <1>4, <1>6
  <2> HIDE DEF l
  <2>3. Paid[l] = Paid[k] + Dearest(l) /\ Paid[k] \in Int /\ Paid[n] \in Int /\ Dearest(l) \in Nat
    BY <2>1, PaidIs
  <2>4. g + price <= Paid[l] - Paid[n] /\ g + price \in Nat /\ l \in Nat
    BY <1>1, <1>4, <2>1, <2>2, <2>3
  <2>5. Sold(n, i + 1, r)
    BY <2>1, <2>2, <2>4 DEF Sold
  <2> QED BY <1>2, <1>6, <2>5 DEF l
<1> QED BY <1>5, <1>6

SalesOf(b, modifiers) == CHOOSE it : it = [s \in SUBSET DOMAIN modifiers |->
  IF s = {} THEN b ELSE SellOne(it[s \ {Max(s)}], modifiers[Max(s)])]

LEMMA SellOneTyped ==
  ASSUME NEW s \in [count : Nat, gained : Int], NEW m \in SellTrade \cup {100}
  PROVE  SellOne(s, m) \in [count : Nat, gained : Int]
<1> DEFINE k == s.count + 1
           a == Worth * (Cube(Most) + Cube(Most - k))
           p == CalcPrice(k)
           q == Percent(p, 45)
           price == Percent(q, m)
<1>1. ASSUME NEW x \in Int, NEW y \in Nat \ {0} PROVE Truncated(x, y) \in Int
  BY DEF Truncated
<1>2. ASSUME NEW x \in Int, NEW y \in Int PROVE Percent(x, y) \in Int
  <2>1. x * y \in Int /\ 100 \in Nat \ {0}
    OBVIOUS
  <2> QED BY <1>1, <2>1 DEF Percent
<1>3. k \in Nat /\ Most \in Int /\ Worth \in Int /\ m \in Int /\ Cube(Most) \in Nat \ {0}
  <2>1. m \in 25 .. 150
    BY ShopAssumption
  <2> QED BY <2>1, MostIs
<1>4. a \in Int
  <2>1. Cube(Most) \in Int /\ Cube(Most - k) \in Int
    BY <1>3 DEF Cube
  <2> QED BY <1>3, <2>1
<1>5. p \in Int
  <2>1. p = Truncated(a, Cube(Most)) + 1
    BY DEF CalcPrice
  <2> HIDE DEF a, p
  <2>2. Truncated(a, Cube(Most)) \in Int
    BY <1>1, <1>3, <1>4
  <2> QED BY <2>1, <2>2
<1> HIDE DEF p
<1>6. q \in Int
  BY <1>2, <1>5
<1> HIDE DEF q
<1>7. price \in Int
  BY <1>2, <1>3, <1>6
<1>8. SellPrice(k, m) = price
  BY DEF SellPrice, q, p
<1> HIDE DEF price
<1>9. SellOne(s, m) = IF price = 0 THEN s ELSE [count |-> k, gained |-> s.gained + price]
  BY <1>8 DEF SellOne
<1> HIDE DEF k
<1> QED BY <1>3, <1>7, <1>9

\* Who sells gets no more than what the shop pays at most.
LEMMA SellRight ==
  ASSUME NEW k \in Nat, k < 2 * Most, NEW n \in Nat, k + n <= MaxGoods,
         NEW modifiers \in [1 .. n -> SellTrade \cup {100}]
  PROVE  Sold(k, n, FoldLeft(SellOne, [count |-> k, gained |-> 0], modifiers))
<1> DEFINE S == 1 .. n
           D == [count : Nat, gained : Int]
           b == [count |-> k, gained |-> 0]
           it == SalesOf(b, modifiers)
           r == FoldLeft(SellOne, [count |-> k, gained |-> 0], modifiers)
           F == [x \in S \X D |-> SellOne(x[2], modifiers[x[1]])]
<1>1. DOMAIN modifiers = S /\ S = 1 .. n /\ \A i \in S : modifiers[i] \in SellTrade \cup {100}
  OBVIOUS
<1>2. b \in D /\ Sold(k, 0, b)
  <2>1. k \in 0 .. MaxGoods /\ k <= k + 0
    BY PaidIs
  <2> DEFINE x == Paid[k]
  <2>2. x \in Int
    BY <2>1, PaidIs
  <2> HIDE DEF x
  <2>3. 0 <= x - x
    BY <2>2
  <2> QED BY <2>1, <2>3 DEF Sold, x
<1>3. r = it[DOMAIN modifiers]
  BY Zenon DEF FoldLeft, MapThenFoldSet, SalesOf
<1> HIDE DEF r
<1>4. F \in [S \X D -> D] /\ \A i \in S, s \in D : F[<<i, s>>] = SellOne(s, modifiers[i])
  <2>1. \A i \in S, s \in D : SellOne(s, modifiers[i]) \in D
    BY <1>1, SellOneTyped
  <2> HIDE DEF S, D
  <2> QED BY <2>1
<1>5. \A s \in SUBSET S : s # {} => Max(s) \in S /\ s \ {Max(s)} \in SUBSET S
  BY <1>1, LastOf
<1> HIDE DEF F, S, D, b
<1>6. PICK g \in [SUBSET S -> D] : FoldedLeft(g, S, F, b)
  BY <1>1, <1>2, <1>4, FoldLeftExists, Zenon
<1>7. \A s \in SUBSET S : g[s] = IF s = {} THEN b ELSE SellOne(g[s \ {Max(s)}], modifiers[Max(s)])
  BY <1>4, <1>5, <1>6 DEF FoldedLeft
<1>8. g = [s \in SUBSET S |-> IF s = {} THEN b ELSE SellOne(g[s \ {Max(s)}], modifiers[Max(s)])]
  BY <1>7
<1>9. it = [s \in SUBSET S |-> IF s = {} THEN b ELSE SellOne(it[s \ {Max(s)}], modifiers[Max(s)])]
  <2>1. DOMAIN modifiers = S
    BY <1>1
  <2> QED BY <1>8, <2>1, Zenon DEF SalesOf
<1> HIDE DEF it
<1>10. \A s \in SUBSET S : it[s] = IF s = {} THEN b ELSE SellOne(it[s \ {Max(s)}], modifiers[Max(s)])
  BY <1>9
<1>11. it[{}] = b
  BY <1>10
<1>12. \A i \in 1 .. n : it[1 .. i] = SellOne(it[1 .. (i - 1)], modifiers[i])
  <2> SUFFICES ASSUME NEW i \in 1 .. n PROVE it[1 .. i] = SellOne(it[1 .. (i - 1)], modifiers[i])
    OBVIOUS
  <2>1. i \in Nat \ {0} /\ 1 .. i \in SUBSET S
    BY <1>1
  <2> QED BY <1>10, <2>1, Prefix
<1> DEFINE A == {i \in Nat : i <= n => Sold(k, i, it[1 .. i])}
<1>13. 0 \in A
  <2>1. 1 .. 0 = {}
    OBVIOUS
  <2> QED BY <1>2, <1>11, <2>1
<1>14. ASSUME NEW i \in Nat, i \in A PROVE i + 1 \in A
  <2>1. SUFFICES ASSUME i + 1 <= n PROVE Sold(k, i + 1, it[1 .. (i + 1)])
    OBVIOUS
  <2>2. i <= n /\ i + 1 \in 1 .. n /\ (i + 1) - 1 = i /\ i + 1 \in S /\ k + i + 1 <= MaxGoods
    BY <1>1, <2>1, PaidIs
  <2> DEFINE P == it[1 .. i]
             Q == it[1 .. (i + 1)]
             m == modifiers[i + 1]
  <2>3. Q = SellOne(P, m)
    BY <1>12, <2>2
  <2>4. Sold(k, i, P)
    BY <1>14, <2>2
  <2>5. m \in SellTrade \cup {100}
    BY <1>1, <2>2
  <2> HIDE DEF P, Q, m
  <2>6. Sold(k, i + 1, Q)
    BY <2>2, <2>3, <2>4, <2>5, SellOneRight
  <2> QED BY <2>6 DEF Q
<1> HIDE DEF A
<1>15. Nat \subseteq A
  BY <1>13, <1>14, CountedUp
<1>16. Sold(k, n, it[1 .. n])
  BY <1>15 DEF A
<1>17. it[1 .. n] = r
  BY <1>1, <1>3
<1> QED BY <1>16, <1>17 DEF r

-----------------------------------------------------------------------------
(* The inductive invariant. *)

\* All that could be sold.
Goods == Sum(held) + floor + Sum(has)

\* What is held and had, what is in the purses.
ShopTyped ==
  /\ purse \in [Customers -> Purses] /\ worth \in [Customers -> Nat]
  /\ \A c \in Customers : Total(purse[c]) = worth[c]
  /\ held \in [Buyers -> Nat] /\ has \in [Customers -> Nat] /\ floor \in Nat
  /\ Sum(held) <= KeeperRoom
  /\ offered.n \in Nat /\ count \in Nat /\ count < 2 * Most /\ count + Goods <= MaxGoods

\* The customers never have more than they brought, even if they sold all there is.
AtBest == Sum(worth) + (Paid[count + Goods] - Paid[count]) <= Cardinality(Customers) * Total(Coins)

ShopInv == ShopTyped /\ (several \/ AtBest)

LEMMA Brought == Coins \in Purses /\ Total(Coins) \in Nat /\ Cardinality(Customers) \in Nat
<1>1. /\ Coins \in Seq([type : DOMAIN Values, size : Nat \ {0}])
      /\ \A i, j \in DOMAIN Coins : Coins[i].type = Coins[j].type => i = j
      /\ IsFiniteSet(Customers)
  BY ShopAssumption
<1>2. Coins \in Seq(Heap)
  <2>1. \A h \in [type : DOMAIN Values, size : Nat \ {0}] : h \in Heap
    BY DEF Heap
  <2> DEFINE T == [type : DOMAIN Values, size : Nat \ {0}]
  <2>2. /\ Len(Coins) \in Nat /\ Coins = [i \in 1 .. Len(Coins) |-> Coins[i]]
        /\ \A i \in 1 .. Len(Coins) : Coins[i] \in T
    <3>1. Coins \in Seq(T)
      BY <1>1
    <3> HIDE DEF T
    <3> QED BY <3>1
  <2>3. \A i \in 1 .. Len(Coins) : Coins[i] \in Heap
    BY <2>1, <2>2
  <2> QED BY <2>2, <2>3
<1>3. Coins \in Purses
  BY <1>1, <1>2 DEF Purses, Sorted
<1> QED BY <1>1, <1>2, <1>3, TotalIsNat, FS_CardinalityType

LEMMA ShopInvMeans == ShopInv => NoProfit
<1> SUFFICES ASSUME ShopInv PROVE NoProfit
  OBVIOUS
<1>1. PursesRight
  BY DEF ShopInv, ShopTyped, PursesRight
<1>2. Goods \in Nat
  BY SumOfNats, BothTrade DEF ShopInv, ShopTyped, Goods
<1>3. ASSUME AtBest PROVE NoProfitEver
  <2> DEFINE b == Cardinality(Customers) * Total(Coins)
             w == Sum(worth)
             x == Paid[count + Goods]
             y == Paid[count]
  <2>1. count \in Nat /\ count + Goods <= MaxGoods /\ w \in Nat
    BY SumOfNats, BothTrade DEF ShopInv, ShopTyped
  <2>2. x \in Int /\ y \in Int /\ y <= x
    BY <1>2, <2>1, PaidGrows
  <2>3. b \in Int
    BY Brought
  <2>4. w + (x - y) <= b
    BY <1>3 DEF AtBest
  <2> HIDE DEF b, w, x, y
  <2>5. w <= b
    BY <2>1, <2>2, <2>3, <2>4
  <2> QED BY <2>5 DEF NoProfitEver, b, w
<1> QED BY <1>1, <1>3 DEF ShopInv, NoProfit

LEMMA ShopStarts == ShopInit => ShopInv
<1> SUFFICES ASSUME ShopInit PROVE ShopInv
  OBVIOUS
<1>1. Coins \in Purses /\ Total(Coins) \in Nat /\ Cardinality(Customers) \in Nat /\ KeeperRoom \in Nat
  BY Brought, ShopAssumption
<1>2. purse \in [Customers -> Purses] /\ worth \in [Customers -> Nat]
      /\ \A c \in Customers : Total(purse[c]) = worth[c]
  BY <1>1 DEF ShopInit
<1>3. held \in [Buyers -> Nat] /\ has \in [Customers -> Nat] /\ floor \in Nat /\ offered.n \in Nat
  BY DEF ShopInit, NoOffer
<1>4. Sum(held) = 0 /\ Sum(has) = 0 /\ Goods = 0
  <2>1. held = [b \in Buyers |-> 0] /\ has = [c \in Customers |-> 0] /\ 0 \in Int /\ floor = 0
    BY DEF ShopInit
  <2>2. Cardinality(Customers) * 0 = 0 /\ Cardinality(Buyers) * 0 = 0
    BY <1>1, TradersFinite, BothTrade, FS_CardinalityType
  <2>3. Sum(held) = 0 /\ Sum(has) = 0
    BY <2>1, <2>2, SumOfEqual, BothTrade
  <2> QED BY <2>1, <2>3 DEF Goods
<1>5. count \in Nat /\ count <= MaxGoods /\ count < 2 * Most
  <2>1. Most \in Nat /\ Most >= 1 /\ MaxGoods \in Nat /\ Most \in Int /\ MaxGoods \in Int
    BY MostIs, PaidIs
  <2>2. Min({Most, MaxGoods}) = IF Most <= MaxGoods THEN Most ELSE MaxGoods
    BY <2>1, OfTwo
  <2>3. count \in 0 .. Min({Most, MaxGoods})
    BY DEF ShopInit
  <2> QED BY <2>1, <2>2, <2>3
<1>6. ShopTyped
  BY <1>1, <1>2, <1>3, <1>4, <1>5 DEF ShopTyped
<1>7. AtBest
  <2>1. worth = [c \in Customers |-> Total(Coins)] /\ Total(Coins) \in Int
    BY <1>1 DEF ShopInit
  <2> DEFINE b == Cardinality(Customers) * Total(Coins)
             x == Paid[count]
  <2>2. Sum(worth) = b /\ b \in Int
    <3> DEFINE t == Total(Coins)
    <3>1. worth = [c \in Customers |-> t] /\ t \in Int
      BY <2>1
    <3> HIDE DEF t
    <3>2. Sum(worth) = Cardinality(Customers) * t
      BY <3>1, SumOfEqual, BothTrade
    <3>3. Cardinality(Customers) * t \in Int
      BY <1>1, <3>1
    <3> QED BY <3>2, <3>3 DEF t
  <2>3. x \in Int /\ count + Goods = count
    BY <1>4, <1>5, PaidIs
  <2> HIDE DEF b, x
  <2>4. b + (x - x) <= b
    BY <2>2, <2>3
  <2> QED BY <2>2, <2>3, <2>4 DEF AtBest, b, x
<1> QED BY <1>6, <1>7 DEF ShopInv

\* Goods that only change hands.
LEMMA OnlyMoved ==
  ASSUME ShopInv, UNCHANGED <<purse, worth, count, several>>,
         held' \in [Buyers -> Nat], has' \in [Customers -> Nat], floor' \in Nat, offered'.n \in Nat,
         Sum(held') <= Sum(held), Goods' = Goods
  PROVE  ShopInv'
<1>1. Sum(held)' = Sum(held') /\ Sum(worth)' = Sum(worth)
  <2>1. Sum(held)' = Sum(held') /\ Sum(worth)' = Sum(worth')
    OBVIOUS
  <2> QED BY <2>1
<1>2. Sum(held') <= KeeperRoom
  <2>1. Sum(held) \in Nat /\ Sum(held') \in Nat /\ KeeperRoom \in Nat /\ Sum(held) <= KeeperRoom
    BY SumOfNats, BothTrade, ShopAssumption DEF ShopInv, ShopTyped
  <2> QED BY <2>1
<1>3. ShopTyped'
  BY <1>1, <1>2 DEF ShopInv, ShopTyped
<1>4. AtBest => AtBest'
  BY <1>1 DEF AtBest
<1> QED BY <1>3, <1>4 DEF ShopInv

LEMMA GoodsAre ==
  ASSUME ShopInv
  PROVE  /\ Sum(held) \in Nat /\ Sum(has) \in Nat /\ floor \in Nat /\ Goods \in Nat
         /\ Goods = Sum(held) + floor + Sum(has) /\ Goods' = Sum(held') + floor' + Sum(has')
         /\ Sum(worth) \in Nat /\ Sum(worth)' = Sum(worth')
         /\ \A b \in Buyers : held[b] \in Nat /\ held[b] <= Sum(held)
         /\ \A c \in Customers : has[c] \in Nat /\ has[c] <= Sum(has)
<1>1. /\ held \in [Buyers -> Nat] /\ has \in [Customers -> Nat] /\ floor \in Nat /\ worth \in [Customers -> Nat]
  BY DEF ShopInv, ShopTyped
<1>2. /\ Sum(held) \in Nat /\ \A b \in Buyers : held[b] \in Nat /\ held[b] <= Sum(held)
  BY <1>1, SumOfNats, BothTrade
<1>3. /\ Sum(has) \in Nat /\ \A c \in Customers : has[c] \in Nat /\ has[c] <= Sum(has)
  BY <1>1, SumOfNats, BothTrade
<1>4. Sum(worth) \in Nat
  BY <1>1, SumOfNats, BothTrade
<1>5. Goods = Sum(held) + floor + Sum(has) /\ Goods' = Sum(held') + floor' + Sum(has')
  BY DEF Goods
<1>6. Sum(worth)' = Sum(worth')
  OBVIOUS
<1>7. Goods \in Nat
  BY <1>1, <1>2, <1>3, <1>5
<1> QED BY <1>1, <1>2, <1>3, <1>4, <1>5, <1>6, <1>7

LEMMA NothingMoved ==
  ASSUME ShopInv, UNCHANGED <<purse, worth, count, several, held, floor, has>>, offered'.n \in Nat
  PROVE  ShopInv'
<1>1. held' \in [Buyers -> Nat] /\ has' \in [Customers -> Nat] /\ floor' \in Nat
  BY DEF ShopInv, ShopTyped
<1>2. Sum(held') <= Sum(held)
  BY GoodsAre
<1>3. Goods' = Goods
  BY DEF Goods
<1> QED BY <1>1, <1>2, <1>3, OnlyMoved

\* One function of the customers with n more for one of them, and one of all buyers.
LEMMA CustomersWithMore ==
  ASSUME NEW f \in [Customers -> Nat], NEW c \in Customers, NEW n \in Int, NEW g,
         g = [f EXCEPT ![c] = @ + n], f[c] + n >= 0
  PROVE  g \in [Customers -> Nat] /\ Sum(g) = Sum(f) + n /\ Sum(f) \in Nat
<1> DEFINE m == f[c] + n
<1>1. f \in [Customers -> Int] /\ m \in Int /\ m \in Nat /\ f[c] \in Nat
  OBVIOUS
<1>2. g = [f EXCEPT ![c] = m]
  OBVIOUS
<1>3. Sum(f) \in Nat
  BY SumOfNats, BothTrade
<1>4. m - f[c] = n /\ m = f[c] + n
  BY <1>1
<1> HIDE DEF m
<1>5. Sum([f EXCEPT ![c] = m]) = Sum(f) + m - f[c]
  BY <1>1, SumWith, BothTrade
<1>6. g \in [Customers -> Nat]
  BY <1>1, <1>2
<1> QED BY <1>1, <1>2, <1>3, <1>4, <1>5, <1>6

LEMMA BuyersWithMore ==
  ASSUME NEW f \in [Buyers -> Nat], NEW c \in Buyers, NEW n \in Int, NEW g,
         g = [f EXCEPT ![c] = @ + n], f[c] + n >= 0
  PROVE  g \in [Buyers -> Nat] /\ Sum(g) = Sum(f) + n /\ Sum(f) \in Nat
<1> DEFINE m == f[c] + n
<1>1. f \in [Buyers -> Int] /\ m \in Int /\ m \in Nat /\ f[c] \in Nat
  OBVIOUS
<1>2. g = [f EXCEPT ![c] = m]
  OBVIOUS
<1>3. Sum(f) \in Nat
  BY SumOfNats, BothTrade
<1>4. m - f[c] = n /\ m = f[c] + n
  BY <1>1
<1> HIDE DEF m
<1>5. Sum([f EXCEPT ![c] = m]) = Sum(f) + m - f[c]
  BY <1>1, SumWith, BothTrade
<1>6. g \in [Buyers -> Nat]
  BY <1>1, <1>2
<1> QED BY <1>1, <1>2, <1>3, <1>4, <1>5, <1>6

LEMMA TakeUpRight == ASSUME ShopInv, NEW c \in Customers, TakeUp(c) PROVE ShopInv'
<1>1. has \in [Customers -> Nat] /\ held \in [Buyers -> Nat] /\ floor \in Nat /\ offered.n \in Nat
  BY DEF ShopInv, ShopTyped
<1>2. /\ floor > 0 /\ floor' = floor - 1 /\ has' = [has EXCEPT ![c] = @ + 1]
      /\ UNCHANGED <<purse, count, held, offered, worth, several>>
  BY DEF TakeUp
<1>3. has' \in [Customers -> Nat] /\ Sum(has') = Sum(has) + 1
  <2>1. 1 \in Int /\ has[c] + 1 >= 0
    BY <1>1
  <2> QED BY <1>1, <1>2, <2>1, CustomersWithMore
<1>4. Goods' = Goods /\ Sum(held') <= Sum(held)
  BY <1>2, <1>3, GoodsAre
<1>5. floor' \in Nat
  BY <1>1, <1>2
<1> QED BY <1>1, <1>2, <1>3, <1>4, <1>5, OnlyMoved

LEMMA DropRight == ASSUME ShopInv, NEW b \in Buyers, DropBoughtStuff(b) PROVE ShopInv'
<1>1. has \in [Customers -> Nat] /\ held \in [Buyers -> Nat] /\ floor \in Nat /\ offered.n \in Nat
  BY DEF ShopInv, ShopTyped
<1>2. UNCHANGED <<purse, count, has, offered, worth, several>>
  BY DEF DropBoughtStuff
<1>3. CASE keeper = "dead"
  <2>1. UNCHANGED <<held, floor>>
    BY <1>3 DEF DropBoughtStuff
  <2> QED BY <1>1, <1>2, <2>1, NothingMoved
<1>4. CASE keeper # "dead"
  <2> DEFINE n == held[b]
  <2>1. held' = [held EXCEPT ![b] = 0] /\ floor' = floor + n
    BY <1>4 DEF DropBoughtStuff
  <2>2. Sum([held EXCEPT ![b] = 0]) = Sum(held) + 0 - held[b]
    <3>1. held \in [Buyers -> Int] /\ 0 \in Int
      BY <1>1
    <3> QED BY <3>1, SumWith, BothTrade
  <2>3. n \in Nat /\ Sum(held) \in Nat
    BY GoodsAre
  <2> HIDE DEF n
  <2>4. Sum(held') = Sum(held) - n
    BY <2>1, <2>2, <2>3 DEF n
  <2>5. Goods' = Goods /\ Sum(held') <= Sum(held)
    BY <1>2, <2>1, <2>3, <2>4, GoodsAre
  <2>6. held' \in [Buyers -> Nat] /\ floor' \in Nat
    BY <1>1, <2>1, <2>3
  <2> QED BY <1>1, <1>2, <2>5, <2>6, OnlyMoved
<1> QED BY <1>3, <1>4

\* What is held for whoever goes is held for nobody then.
LEMMA CustomerGoesRight == ASSUME ShopInv, NEW c \in Customers, CustomerGoes(c) PROVE ShopInv'
<1>1. /\ has \in [Customers -> Nat] /\ held \in [Buyers -> Nat] /\ floor \in Nat /\ offered.n \in Nat
      /\ c \in Buyers /\ NoBuyer \in Buyers /\ NoBuyer # c /\ held[c] \in Nat
  BY ShopAssumption DEF ShopInv, ShopTyped, Buyers
<1>2. /\ held' = [held EXCEPT ![NoBuyer] = @ + held[c], ![c] = 0]
      /\ offered' = (IF c \in offered.to THEN NoOffer ELSE offered)
      /\ UNCHANGED <<purse, count, floor, has, worth, several>>
  BY DEF CustomerGoes
<1> DEFINE n == held[c]
           more == [held EXCEPT ![NoBuyer] = @ + n]
<1>3. n \in Int /\ held[NoBuyer] + n >= 0 /\ n \in Nat
  BY <1>1
<1> HIDE DEF n
<1>4. more \in [Buyers -> Nat] /\ Sum(more) = Sum(held) + n /\ Sum(held) \in Nat
  BY <1>1, <1>3, BuyersWithMore
<1>5. held' = [more EXCEPT ![c] = 0] /\ more[c] = n
  BY <1>1, <1>2 DEF n
<1> HIDE DEF more
<1>6. Sum([more EXCEPT ![c] = 0]) = Sum(more) + 0 - more[c]
  <2>1. more \in [Buyers -> Int] /\ 0 \in Int /\ Buyers \in Traders
    BY <1>4, BothTrade
  <2> QED BY <1>1, <2>1, SumWith, BothTrade
<1>7. held' \in [Buyers -> Nat] /\ Sum(held') = Sum(held)
  <2>1. Sum(held') = Sum(more) + 0 - more[c]
    BY <1>5, <1>6
  <2>2. Sum(held') = Sum(held)
    BY <1>3, <1>4, <1>5, <2>1
  <2>3. held' \in [Buyers -> Nat]
    BY <1>4, <1>5
  <2> QED BY <2>2, <2>3
<1>8. Goods' = Goods /\ Sum(held') <= Sum(held)
  BY <1>2, <1>7, GoodsAre
<1>9. offered'.n \in Nat
  BY <1>1, <1>2 DEF NoOffer
<1> QED BY <1>1, <1>2, <1>7, <1>8, <1>9, OnlyMoved

LEMMA AcceptRight == ASSUME ShopInv, NEW c \in Customers, Accept(c) PROVE ShopInv'
<1>1. has \in [Customers -> Nat] /\ held \in [Buyers -> Nat] /\ floor \in Nat /\ offered.n \in Nat
  BY DEF ShopInv, ShopTyped
<1>2. UNCHANGED <<purse, count, worth, several>> /\ offered' = NoOffer
  BY DEF Accept
<1>3. PICK h \in [Buyers -> 0 .. offered.n], f \in 0 .. floor :
        /\ \A d \in Buyers : h[d] <= held[d]
        /\ held' = [d \in Buyers |-> held[d] - h[d]] /\ floor' = floor - f
        /\ has' = [has EXCEPT ![c] = @ + Sum(h) + f]
  BY DEF Accept
<1>4. h \in [Buyers -> Nat] /\ f \in Nat /\ f <= floor
  BY <1>1, <1>3
<1>5. h \in [Buyers -> Int] /\ held \in [Buyers -> Int] /\ Sum(h) \in Nat
  BY <1>1, <1>4, SumOfNats, BothTrade
<1>6. held' \in [Buyers -> Nat] /\ \A d \in Buyers : held'[d] = held[d] - h[d]
  BY <1>1, <1>3, <1>4
<1>7. Sum(held') = Sum(held) - Sum(h)
  <2>1. IsFiniteSet(Buyers) /\ held' \in [Buyers -> Int]
    BY <1>6, TradersFinite, BothTrade
  <2>2. SumFunction(held') = SumFunction(held) - SumFunction(h)
    BY <1>5, <1>6, <2>1, SumsSubtract
  <2> QED BY <1>5, <2>1, <2>2, SumIs, BothTrade
<1> DEFINE n == Sum(h) + f
<1>8. n \in Int /\ n >= 0 /\ n = Sum(h) + f
  BY <1>4, <1>5
<1>9. has' = [has EXCEPT ![c] = @ + n] /\ has[c] + n >= 0
  <2>1. has[c] \in Nat
    BY <1>1
  <2> DEFINE m == has[c] + Sum(h) + f
  <2>2. has' = [has EXCEPT ![c] = m]
    BY <1>3
  <2> HIDE DEF n
  <2>3. m = has[c] + n /\ has[c] + n >= 0
    BY <1>4, <1>5, <1>8, <2>1
  <2> HIDE DEF m
  <2>4. has' = [has EXCEPT ![c] = has[c] + n]
    BY <2>2, <2>3
  <2> QED BY <2>3, <2>4
<1> HIDE DEF n
<1>10. has' \in [Customers -> Nat] /\ Sum(has') = Sum(has) + n
  <2>1. has \in [Customers -> Nat] /\ n \in Int
    BY <1>1, <1>8
  <2> QED BY <1>9, <2>1, CustomersWithMore
<1>11. Goods' = Goods /\ Sum(held') <= Sum(held)
  BY <1>3, <1>4, <1>5, <1>7, <1>8, <1>10, GoodsAre
<1>12. floor' \in Nat /\ offered'.n \in Nat
  BY <1>1, <1>2, <1>3, <1>4 DEF NoOffer
<1> QED BY <1>2, <1>6, <1>10, <1>11, <1>12, OnlyMoved

LEMMA ProduceRight == ASSUME ShopInv, NEW n \in 1 .. Most, Produce(n) PROVE ShopInv'
<1>1. /\ count < n /\ n + floor + Sum(held) + Sum(has) <= MaxGoods /\ count' = n
      /\ UNCHANGED <<purse, held, floor, has, offered, worth, several>>
  BY DEF Produce
<1>2. Most \in Nat /\ Most >= 1 /\ count \in Nat /\ MaxGoods \in Nat
  BY MostIs, PaidIs DEF ShopInv, ShopTyped
<1>3. Goods' = Goods /\ Sum(held)' = Sum(held) /\ Sum(worth)' = Sum(worth)
  BY <1>1 DEF Goods
<1> DEFINE g == Goods
<1>4. g \in Nat /\ n + g <= MaxGoods /\ n \in Nat /\ n < 2 * Most /\ count <= n
  BY <1>1, <1>2, GoodsAre
<1>5. ShopTyped'
  BY <1>1, <1>3, <1>4 DEF ShopInv, ShopTyped
<1>6. ASSUME AtBest PROVE AtBest'
  <2> DEFINE x == Paid[n + g] - Paid[n]
             y == Paid[count + g] - Paid[count]
             w == Sum(worth)
             b == Cardinality(Customers) * Total(Coins)
  <2>1. x <= y
    BY <1>2, <1>4, PaidFalls
  <2>2. x \in Int /\ y \in Int
    <3>1. n \in 0 .. MaxGoods /\ n + g \in 0 .. MaxGoods /\ count \in 0 .. MaxGoods /\ count + g \in 0 .. MaxGoods
      BY <1>2, <1>4
    <3> QED BY <3>1, PaidIs
  <2>3. w \in Int /\ b \in Int
    <3>1. b \in Nat
      BY Brought
    <3> QED BY <3>1, GoodsAre
  <2>4. w + y <= b
    BY <1>6 DEF AtBest
  <2> HIDE DEF x, y, w, b
  <2>5. w + x <= b
    BY <2>1, <2>2, <2>3, <2>4
  <2>6. (count + Goods)' = n + g /\ count' = n /\ Sum(worth)' = w
    BY <1>1, <1>3 DEF w
  <2> QED BY <2>5, <2>6 DEF AtBest, b, x
<1> QED BY <1>1, <1>5, <1>6 DEF ShopInv

\* Purses that are paid and pay.
Booked == /\ purse \in [Customers -> Purses] /\ worth \in [Customers -> Nat]
          /\ \A c \in Customers : Total(purse[c]) = worth[c]

\* Who can afford it pays, and nobody else.
LEMMA PaysRight ==
  ASSUME Booked, NEW c \in Customers, NEW n \in Int, Pays(c, n), worth[c] - n >= 0
  PROVE  Booked' /\ Sum(worth') = Sum(worth) - n /\ Sum(worth) \in Nat
<1>1. /\ purse' = [purse EXCEPT ![c] = Change(purse[c], -n)] /\ worth' = [worth EXCEPT ![c] = worth[c] - n]
  BY DEF Pays
<1> DEFINE m == -n
           q == Change(purse[c], m)
<1>2. m \in Int /\ worth[c] + m >= 0 /\ worth[c] - n = worth[c] + m /\ Sum(worth) \in Nat
  <2>1. worth[c] \in Nat
    BY DEF Booked
  <2>2. Sum(worth) \in Nat
    BY SumOfNats, BothTrade DEF Booked
  <2> QED BY <2>1, <2>2
<1> HIDE DEF m
<1>3. purse[c] \in Purses /\ Total(purse[c]) = worth[c]
  BY DEF Booked
<1>4. q \in Purses /\ Total(q) = worth[c] + m
  <2>1. Total(purse[c]) + m >= 0
    BY <1>2, <1>3
  <2> QED BY <1>2, <1>3, <2>1, ChangeRight
<1>5. purse' = [purse EXCEPT ![c] = q]
  BY <1>1 DEF m
<1> HIDE DEF q
<1>6. purse' \in [Customers -> Purses] /\ purse'[c] = q /\ \A d \in Customers : d # c => purse'[d] = purse[d]
  BY <1>4, <1>5 DEF Booked
<1>7. worth' = [worth EXCEPT ![c] = @ + m]
  BY <1>1, <1>2
<1>8. worth' \in [Customers -> Nat] /\ Sum(worth') = Sum(worth) + m
  BY <1>2, <1>7, CustomersWithMore DEF Booked
<1>9. worth'[c] = worth[c] + m /\ \A d \in Customers : d # c => worth'[d] = worth[d]
  BY <1>7 DEF Booked
<1>10. \A d \in Customers : Total(purse'[d]) = worth'[d]
  BY <1>4, <1>6, <1>9 DEF Booked
<1>11. Booked'
  <2>1. \A d \in Customers : Total(purse[d])' = Total(purse'[d])
    OBVIOUS
  <2> QED BY <1>6, <1>8, <1>10, <2>1 DEF Booked
<1>12. Sum(worth) + m = Sum(worth) - n
  BY <1>2 DEF m
<1> QED BY <1>2, <1>8, <1>11, <1>12

LEMMA BuyRight == ASSUME ShopInv, NEW c \in Customers, NEW num \in 1 .. Most, Buy(c, num) PROVE ShopInv'
<1> DEFINE room == KeeperRoom - Sum(held)
           n == Min({num, room})
<1>1. PICK price \in BuyPrices : Total(purse[c]) >= num * price /\ Pays(c, price)
  BY DEF Buy
<1>2. /\ num <= count /\ floor' = floor + num - n /\ count' = count - num /\ several' = (several \/ num > 1)
      /\ IF n > 0 THEN CarriedTo(c, n) ELSE UNCHANGED <<held, offered, drops>>
      /\ UNCHANGED has
  BY DEF Buy
<1>3. /\ count \in Nat /\ count < 2 * Most /\ count + Goods <= MaxGoods /\ offered.n \in Nat
      /\ Sum(held) <= KeeperRoom /\ KeeperRoom \in Nat /\ Booked /\ held \in [Buyers -> Nat]
      /\ has \in [Customers -> Nat] /\ Most \in Nat
  BY ShopAssumption, MostIs DEF ShopInv, ShopTyped, Booked
<1>4. room \in Nat /\ num \in Nat /\ num >= 1
  BY <1>3, GoodsAre
<1>5. n \in Nat /\ n <= num /\ n <= room
  <2>1. room \in Int /\ num \in Int
    BY <1>4
  <2> HIDE DEF room
  <2>2. n = IF num <= room THEN num ELSE room
    BY <2>1, OfTwo
  <2> QED BY <1>4, <2>2
<1> HIDE DEF n
<1>6. price \in Nat /\ Dearest(count) <= price
  <2>1. count \in Stocks
    BY <1>3 DEF Stocks
  <2> QED BY <2>1, BuyerPays
<1>7. worth[c] - price >= 0
  <2> DEFINE w == worth[c]
             x == num * price
             y == (num - 1) * price
  <2>1. w \in Nat /\ w >= x
    BY <1>1, <1>3 DEF Booked
  <2>2. y \in Nat
    <3>1. num - 1 \in Nat
      BY <1>4
    <3> QED BY <1>6, <3>1
  <2>3. x = price + y
    BY <1>4, <1>6
  <2> HIDE DEF w, x, y
  <2>4. w - price >= 0
    BY <1>6, <2>1, <2>2, <2>3
  <2> QED BY <2>4 DEF w
<1>8. Booked' /\ Sum(worth') = Sum(worth) - price
  BY <1>1, <1>3, <1>6, <1>7, PaysRight
<1>9. held' \in [Buyers -> Nat] /\ Sum(held') = Sum(held) + n /\ offered'.n \in Nat
  <2>1. CASE n > 0
    <3>1. held' = [held EXCEPT ![c] = @ + n] /\ offered' = [to |-> {c}, n |-> n]
      BY <1>2, <2>1 DEF CarriedTo
    <3>2. held[c] + n >= 0 /\ n \in Int /\ c \in Buyers
      BY <1>3, <1>5, BothTrade
    <3>3. held' \in [Buyers -> Nat] /\ Sum(held') = Sum(held) + n
      BY <1>3, <3>1, <3>2, BuyersWithMore, BothTrade
    <3> QED BY <1>5, <3>1, <3>3
  <2>2. CASE ~(n > 0)
    <3>1. n = 0 /\ held' = held /\ offered' = offered
      BY <1>2, <1>5, <2>2
    <3>2. Sum(held) \in Nat
      BY GoodsAre
    <3> QED BY <1>3, <3>1, <3>2
  <2> QED BY <2>1, <2>2
<1> DEFINE g == Goods
<1>10. /\ Goods' = g + num /\ g \in Nat /\ floor' \in Nat /\ Sum(held)' = Sum(held') /\ Sum(held') <= KeeperRoom
       /\ Sum(worth)' = Sum(worth') /\ has' \in [Customers -> Nat]
  <2>1. Sum(held)' = Sum(held')
    OBVIOUS
  <2>2. Goods' = Sum(held') + floor' + Sum(has')
    BY GoodsAre
  <2>3. Goods' = g + num /\ floor' \in Nat
    BY <1>2, <1>4, <1>5, <1>9, <2>2, GoodsAre
  <2>4. Sum(held') <= KeeperRoom
    BY <1>3, <1>4, <1>5, <1>9, GoodsAre
  <2> QED BY <1>2, <1>3, <2>1, <2>3, <2>4, GoodsAre
<1> HIDE DEF g
<1>11. count' \in Nat /\ count' < 2 * Most /\ count' + Goods' = count + g
  BY <1>2, <1>3, <1>4, <1>10
<1>12. ShopTyped'
  <2>1. (count + Goods)' <= MaxGoods
    BY <1>3, <1>11 DEF g
  <2> QED BY <1>8, <1>9, <1>10, <1>11, <2>1 DEF ShopTyped, Booked
<1>13. ASSUME ~several' PROVE AtBest'
  <2>1. ~several /\ num = 1
    <3>1. several' = (several \/ num > 1)
      BY <1>2
    <3>2. ~several /\ ~(num > 1)
      BY <1>13, <3>1, Zenon
    <3> QED BY <1>4, <3>2
  <2> DEFINE k == count - 1
             x == Paid[count + g]
             y == Paid[count]
             z == Paid[k]
             w == Sum(worth)
             b == Cardinality(Customers) * Total(Coins)
             d == Dearest(count)
  <2>2. count \in 1 .. MaxGoods /\ k \in 0 .. MaxGoods /\ count + g \in 0 .. MaxGoods
    BY <1>2, <1>3, <1>10, <2>1, PaidIs DEF g
  <2>3. y = z + d /\ x \in Int /\ y \in Int /\ z \in Int /\ d \in Nat
    BY <2>2, PaidIs
  <2>4. w + (x - y) <= b
    BY <2>1 DEF ShopInv, AtBest, g
  <2>5. w \in Int /\ b \in Int
    <3>1. b \in Nat
      BY Brought
    <3> QED BY <3>1, GoodsAre
  <2>6. d <= price
    BY <1>6
  <2>7. count' = k /\ count' + Goods' = count + g /\ Sum(worth)' = w - price
    BY <1>2, <1>8, <1>10, <1>11, <2>1
  <2> HIDE DEF k, x, y, z, w, b, d
  <2>8. (w - price) + (x - z) <= b
    BY <1>6, <2>3, <2>4, <2>5, <2>6
  <2>9. Paid[(count + Goods)'] = x /\ Paid[count'] = z
    BY <2>7 DEF x, z
  <2>10. b' = b
    BY DEF b
  <2> QED BY <2>7, <2>8, <2>9 DEF AtBest, b
<1> QED BY <1>12, <1>13 DEF ShopInv

LEMMA SaleRight ==
  ASSUME ShopInv, NEW c \in Customers, NEW n \in 1 .. 2, NEW modifiers \in [1 .. n -> SellTrade \cup {100}],
         Sell(c, modifiers)
  PROVE  ShopInv'
<1> DEFINE s == FoldLeft(SellOne, [count |-> count, gained |-> 0], modifiers)
           e == s.gained
           l == s.count
<1>1. /\ Len(modifiers) <= has[c] /\ count' = l /\ has' = [has EXCEPT ![c] = @ - (l - count)]
      /\ Pays(c, -e) /\ UNCHANGED <<held, floor, offered, several>>
  BY DEF Sell
<1>2. /\ count \in Nat /\ count < 2 * Most /\ count + Goods <= MaxGoods /\ offered.n \in Nat
      /\ Sum(held) <= KeeperRoom /\ Booked /\ held \in [Buyers -> Nat]
      /\ has \in [Customers -> Nat] /\ Most \in Nat /\ floor \in Nat
  BY MostIs DEF ShopInv, ShopTyped, Booked
<1>3. n \in Nat /\ Len(modifiers) = n /\ n <= has[c] /\ n <= Goods /\ count + n <= MaxGoods
  <2>1. n \in Nat /\ Len(modifiers) = n
    OBVIOUS
  <2>2. has[c] \in Nat /\ has[c] <= Sum(has) /\ Sum(has) <= Goods /\ Goods \in Nat /\ Sum(has) \in Nat
    BY GoodsAre
  <2>3. n <= has[c]
    BY <1>1, <2>1
  <2> QED BY <1>2, <2>1, <2>2, <2>3, PaidIs
<1>4. Sold(count, n, s)
  BY <1>2, <1>3, SellRight
<1> HIDE DEF s
<1>5. e \in Nat /\ l \in Nat /\ count <= l /\ l <= count + n /\ l < 2 * Most /\ e <= Paid[l] - Paid[count]
  BY <1>4 DEF Sold
<1> HIDE DEF e, l
<1> DEFINE g == Goods
           d == l - count
<1>6. Booked' /\ Sum(worth') = Sum(worth) + e /\ Sum(worth) \in Nat
  <2> DEFINE m == -e
  <2>1. m \in Int /\ worth[c] - m >= 0 /\ Pays(c, m)
    <3>1. worth[c] \in Nat
      BY <1>2 DEF Booked
    <3> QED BY <1>1, <1>5, <3>1
  <2>2. m = 0 - e
    BY <1>5
  <2> HIDE DEF m
  <2>3. Booked' /\ Sum(worth') = Sum(worth) - m /\ Sum(worth) \in Nat
    BY <1>2, <2>1, PaysRight
  <2> QED BY <1>5, <2>2, <2>3
<1>7. d \in Nat /\ d <= n /\ count + d = l
  BY <1>2, <1>5
<1>8. has' \in [Customers -> Nat] /\ Sum(has') = Sum(has) - d
  <2> DEFINE m == 0 - d
  <2>1. has[c] \in Nat /\ m \in Int /\ has[c] + m >= 0
    BY <1>2, <1>3, <1>7
  <2>2. has' = [has EXCEPT ![c] = @ + m]
    <3> DEFINE v == has[c] - (l - count)
    <3>1. v = has[c] + m
      BY <1>2, <1>5, <2>1
    <3>2. has' = [has EXCEPT ![c] = v]
      BY <1>1
    <3> HIDE DEF v, m
    <3> QED BY <3>1, <3>2
  <2>3. m = 0 - d
    OBVIOUS
  <2> HIDE DEF m
  <2>4. has' \in [Customers -> Nat] /\ Sum(has') = Sum(has) + m /\ Sum(has) \in Nat
    BY <1>2, <2>1, <2>2, CustomersWithMore
  <2> QED BY <1>7, <2>3, <2>4
<1>9. Goods' = g - d /\ g \in Nat /\ d <= g /\ count + g <= MaxGoods
  <2>1. g \in Nat /\ count + g <= MaxGoods /\ n <= g
    BY <1>2, <1>3, GoodsAre
  <2>2. /\ g = Sum(held) + floor + Sum(has) /\ Goods' = Sum(held') + floor' + Sum(has')
        /\ Sum(held) \in Nat /\ floor \in Nat /\ Sum(has) \in Nat
    BY GoodsAre
  <2>3. Goods' = Sum(held) + floor + (Sum(has) - d)
    BY <1>1, <1>8, <2>2
  <2> HIDE DEF g, d
  <2>4. Goods' = g - d
    BY <1>7, <2>2, <2>3
  <2> QED BY <1>3, <1>7, <2>1, <2>4
<1>10. Sum(held)' = Sum(held) /\ Sum(worth)' = Sum(worth')
  BY <1>1
<1> HIDE DEF g, d
<1>11. count' + Goods' = count + g /\ count' = l
  BY <1>1, <1>2, <1>7, <1>9
<1>12. ShopTyped'
  <2>1. (count + Goods)' <= MaxGoods
    BY <1>9, <1>11
  <2> QED BY <1>1, <1>2, <1>5, <1>6, <1>8, <1>10, <2>1 DEF ShopTyped, Booked
<1>13. ASSUME AtBest PROVE AtBest'
  <2> DEFINE x == Paid[count + g]
             y == Paid[count]
             z == Paid[l]
             w == Sum(worth)
             b == Cardinality(Customers) * Total(Coins)
  <2>1. x \in Int /\ y \in Int /\ z \in Int
    <3>1. count \in 0 .. MaxGoods /\ count + g \in 0 .. MaxGoods /\ l \in 0 .. MaxGoods
      BY <1>2, <1>5, <1>7, <1>9, PaidIs
    <3> QED BY <3>1, PaidIs
  <2>2. w + (x - y) <= b
    BY <1>13 DEF AtBest, g
  <2>3. w \in Int /\ b \in Int
    <3>1. b \in Nat
      BY Brought
    <3> QED BY <3>1, GoodsAre
  <2>4. e <= z - y /\ Sum(worth)' = w + e
    BY <1>5, <1>6, <1>10
  <2>5. Paid[(count + Goods)'] = x /\ Paid[count'] = z
    BY <1>11
  <2> HIDE DEF x, y, z, w, b
  <2>6. (w + e) + (x - z) <= b
    BY <1>5, <2>1, <2>2, <2>3, <2>4
  <2> QED BY <2>4, <2>5, <2>6 DEF AtBest, b
<1> QED BY <1>1, <1>12, <1>13 DEF ShopInv

\* No step brings more than was brought.
LEMMA ShopSteps == ShopInv /\ [ShopNext]_shopVars => ShopInv'
<1> SUFFICES ASSUME ShopInv, [ShopNext]_shopVars PROVE ShopInv'
  OBVIOUS
<1>1. ASSUME NEW c \in Customers, Ridiculous(c) PROVE ShopInv'
  <2>1. UNCHANGED <<purse, worth, count, several, held, floor, has, offered>> /\ offered.n \in Nat
    BY <1>1 DEF Ridiculous, ShopInv, ShopTyped
  <2> QED BY <2>1, NothingMoved
<1>2. ASSUME NEW to, KeeperMoves(to) PROVE ShopInv'
  <2>1. UNCHANGED <<purse, worth, count, several, held, floor, has, offered>> /\ offered.n \in Nat
    BY <1>2 DEF KeeperMoves, ShopInv, ShopTyped
  <2> QED BY <2>1, NothingMoved
<1>3. CASE OfferLapses
  <2>1. UNCHANGED <<purse, worth, count, several, held, floor, has>> /\ offered'.n \in Nat
    BY <1>3 DEF OfferLapses, NoOffer
  <2> QED BY <2>1, NothingMoved
<1>4. CASE UNCHANGED shopVars
  <2>1. UNCHANGED <<purse, worth, count, several, held, floor, has, offered>> /\ offered.n \in Nat
    BY <1>4 DEF shopVars, ShopInv, ShopTyped
  <2> QED BY <2>1, NothingMoved
<1>5. ASSUME NEW c \in Customers, Accept(c) \/ TakeUp(c) \/ CustomerGoes(c) PROVE ShopInv'
  BY <1>5, AcceptRight, TakeUpRight, CustomerGoesRight
<1>9. ASSUME NEW b \in Buyers, DropBoughtStuff(b) PROVE ShopInv'
  BY <1>9, DropRight
<1>6. ASSUME NEW c \in Customers, NEW num \in 1 .. Most, Buy(c, num) PROVE ShopInv'
  BY <1>6, BuyRight
<1>7. ASSUME NEW n \in 1 .. Most, Produce(n) PROVE ShopInv'
  BY <1>7, ProduceRight
<1>8. ASSUME NEW c \in Customers, NEW n \in 1 .. 2, NEW modifiers \in [1 .. n -> SellTrade \cup {100}],
             Sell(c, modifiers)
      PROVE  ShopInv'
  BY <1>8, SaleRight
<1> QED BY <1>1, <1>2, <1>3, <1>4, <1>5, <1>6, <1>7, <1>8, <1>9, Zenon DEF ShopNext

\* Whatever is bought, sold and produced in whatever order, by however many customers and
\* with whatever skill in trading: the purses hold exactly what was not paid, and trade
\* one by one brings nobody money that was not brought (shop.c, money.c).
THEOREM NothingToGain == ShopSpec => []NoProfit
<1>1. ShopInit => ShopInv
  BY ShopStarts
<1>2. ShopInv /\ [ShopNext]_shopVars => ShopInv'
  BY ShopSteps
<1>3. ShopInv => NoProfit
  BY ShopInvMeans
<1> QED BY <1>1, <1>2, <1>3, PTL DEF ShopSpec
-----------------------------------------------------------------------------
(* What the keeper holds. *)

\* There is a call_out for whatever is held.
LeaveInv == drops \in [Buyers -> Nat] /\ GoodsLeave

LEMMA BuyLeaves == ASSUME ShopInv, LeaveInv, NEW c \in Customers, NEW num, Buy(c, num) PROVE LeaveInv'
<1>1. held \in [Buyers -> Nat] /\ drops \in [Buyers -> Nat] /\ c \in Buyers /\ UNCHANGED keeper
      /\ \A b \in Buyers : held[b] > 0 => drops[b] > 0 \/ keeper = "dead"
  BY BothTrade DEF ShopInv, ShopTyped, LeaveInv, GoodsLeave, Buy
<1>2. \/ UNCHANGED <<held, drops>>
      \/ \E n : held' = [held EXCEPT ![c] = @ + n] /\ drops' = [drops EXCEPT ![c] = @ + 1]
  BY DEF Buy, CarriedTo
<1> QED BY <1>1, <1>2 DEF LeaveInv, GoodsLeave

LEMMA AcceptLeaves == ASSUME ShopInv, LeaveInv, NEW c \in Customers, Accept(c) PROVE LeaveInv'
<1>1. held \in [Buyers -> Nat] /\ drops \in [Buyers -> Nat] /\ UNCHANGED <<keeper, drops>>
      /\ \A b \in Buyers : held[b] > 0 => drops[b] > 0 \/ keeper = "dead"
  BY DEF ShopInv, ShopTyped, LeaveInv, GoodsLeave, Accept
<1>2. \A b \in Buyers : held'[b] > 0 => held[b] > 0
  BY <1>1 DEF Accept
<1> QED BY <1>1, <1>2 DEF LeaveInv, GoodsLeave

LEMMA DropLeaves == ASSUME ShopInv, LeaveInv, NEW b \in Buyers, DropBoughtStuff(b) PROVE LeaveInv'
<1>1. held \in [Buyers -> Nat] /\ drops \in [Buyers -> Nat] /\ UNCHANGED keeper
      /\ \A d \in Buyers : held[d] > 0 => drops[d] > 0 \/ keeper = "dead"
  BY DEF ShopInv, ShopTyped, LeaveInv, GoodsLeave, DropBoughtStuff
<1>2. drops[b] > 0 /\ drops' = [drops EXCEPT ![b] = @ - 1]
      /\ (keeper = "dead" \/ held' = [held EXCEPT ![b] = 0])
  BY DEF DropBoughtStuff
<1> QED BY <1>1, <1>2 DEF LeaveInv, GoodsLeave

LEMMA CustomerGoesLeaves == ASSUME ShopInv, LeaveInv, NEW c \in Customers, CustomerGoes(c) PROVE LeaveInv'
<1>1. held \in [Buyers -> Nat] /\ drops \in [Buyers -> Nat] /\ c \in Buyers /\ NoBuyer \in Buyers /\ NoBuyer # c
      /\ \A b \in Buyers : held[b] > 0 => drops[b] > 0 \/ keeper = "dead"
  BY BothTrade, ShopAssumption DEF ShopInv, ShopTyped, LeaveInv, GoodsLeave
<1>2. /\ held' = [held EXCEPT ![NoBuyer] = @ + held[c], ![c] = 0]
      /\ drops' = [drops EXCEPT ![NoBuyer] = @ + drops[c], ![c] = 0]
      /\ UNCHANGED keeper
  BY DEF CustomerGoes
<1> QED BY <1>1, <1>2 DEF LeaveInv, GoodsLeave

LEMMA LeaveSteps == ShopInv /\ LeaveInv /\ [ShopNext]_shopVars => LeaveInv'
<1> SUFFICES ASSUME ShopInv, LeaveInv, [ShopNext]_shopVars PROVE LeaveInv'
  OBVIOUS
<1>1. ASSUME UNCHANGED <<held, drops, keeper>> PROVE LeaveInv'
  BY <1>1 DEF LeaveInv, GoodsLeave
<1>2. ASSUME NEW to, KeeperMoves(to) PROVE LeaveInv'
  BY <1>2 DEF KeeperMoves, LeaveInv, GoodsLeave
<1>3. ASSUME NEW c \in Customers, Ridiculous(c) \/ TakeUp(c) PROVE LeaveInv'
  BY <1>1, <1>3 DEF Ridiculous, TakeUp
<1>4. ASSUME OfferLapses \/ UNCHANGED shopVars PROVE LeaveInv'
  BY <1>1, <1>4 DEF OfferLapses, shopVars
<1>5. ASSUME NEW n, Produce(n) PROVE LeaveInv'
  BY <1>1, <1>5 DEF Produce
<1>6. ASSUME NEW c \in Customers, NEW modifiers, Sell(c, modifiers) PROVE LeaveInv'
  BY <1>1, <1>6 DEF Sell
<1>7. ASSUME NEW c \in Customers, NEW num, Buy(c, num) PROVE LeaveInv'
  BY <1>7, BuyLeaves
<1>8. ASSUME NEW c \in Customers, Accept(c) \/ CustomerGoes(c) PROVE LeaveInv'
  BY <1>8, AcceptLeaves, CustomerGoesLeaves
<1>9. ASSUME NEW b \in Buyers, DropBoughtStuff(b) PROVE LeaveInv'
  BY <1>9, DropLeaves
<1> QED BY <1>2, <1>3, <1>4, <1>5, <1>6, <1>7, <1>8, <1>9, Zenon DEF ShopNext

\* Whatever the keeper holds for anybody, for several customers at once or for one who
\* has quit, a call_out is pending that takes it out of his hands, unless he is dead
\* (shop.c:567-597).
THEOREM GoodsAlwaysLeave == ShopSpec => []GoodsLeave
<1>1. ShopInit => ShopInv /\ LeaveInv
  <2>1. ShopInit => LeaveInv
    BY DEF ShopInit, LeaveInv, GoodsLeave
  <2> QED BY <2>1, ShopStarts
<1>2. ShopInv /\ LeaveInv /\ [ShopNext]_shopVars => (ShopInv /\ LeaveInv)'
  BY ShopSteps, LeaveSteps
<1>3. LeaveInv => GoodsLeave
  BY DEF LeaveInv
<1> QED BY <1>1, <1>2, <1>3, PTL DEF ShopSpec
=============================================================================
