------------------------- MODULE InvestorLedgerProofs -------------------------
(***************************************************************************)
(* Proofs about InvestorLedger: shares and fees always add up, and what    *)
(* investors and the manager are shown to own is covered by the equity.    *)
(*                                                                         *)
(* The invariant is BookOK, Backed and PayoutsBacked: the price, times the *)
(* shares, is never more than the equity, except while redeemers wait for  *)
(* their money, when the price is kept up for those who stay; then it is   *)
(* what is owed to them that the equity, and the cash and the venue, cover.*)
(* The first parts are about the numbers of the ledger's formulas, which   *)
(* all round down; then there is one lemma per operation on a book, and    *)
(* one per step.                                                           *)
(***************************************************************************)
EXTENDS InvestorLedger, SequenceTheorems, SumTheorems, TLAPS

--------------------------------------------------------------------------------
(* Divisions and sums. *)

\* A quotient is the largest number that times the divisor fits.
LEMMA FloorOf ==
    ASSUME NEW a \in Int, NEW d \in Nat \ {0}
    PROVE  a \div d \in Int /\ d * (a \div d) <= a /\ a < d * (a \div d) + d
OBVIOUS

\* Products with a positive number keep the order.
LEMMA TimesMore ==
    ASSUME NEW d \in Nat \ {0}, NEW a \in Int, NEW b \in Int, a < b
    PROVE  d * a + d <= d * b
<1>1. PICK k \in Nat : b = a + 1 + k
    <2>1. b - a - 1 \in Nat /\ b = a + 1 + (b - a - 1)
        OBVIOUS
    <2>2. QED BY <2>1
<1>2. d * b = d * a + d + d * k
    BY <1>1
<1>3. d * k \in Nat /\ d * a \in Int
    BY <1>1
<1>4. QED BY <1>2, <1>3

\* What fits is not more than the quotient, and what does not fit is not less.
LEMMA FloorBounds ==
    ASSUME NEW a \in Int, NEW d \in Nat \ {0}, NEW k \in Int
    PROVE  (a <= d * k => a \div d <= k) /\ (d * k <= a => k <= a \div d)
<1> DEFINE q == a \div d
<1>1. q \in Int /\ d * q <= a /\ a < d * q + d
    BY FloorOf
<1> HIDE DEF q
<1>2. d * q \in Int /\ d * k \in Int
    BY <1>1
<1>3. ASSUME k < q PROVE d * k + d <= d * q
    BY <1>1, <1>3, TimesMore
<1>4. ASSUME q < k PROVE d * q + d <= d * k
    BY <1>1, <1>4, TimesMore
<1>5. QED BY <1>1, <1>2, <1>3, <1>4 DEF q

\* Natural numbers have natural quotients.
LEMMA FloorNat ==
    ASSUME NEW a \in Nat, NEW d \in Nat \ {0}
    PROVE  a \div d \in Nat
<1>1. 0 <= a \div d
    BY FloorBounds, d * 0 = 0
<1>2. QED BY <1>1, FloorOf

\* Products keep the order.
LEMMA ProductsKeepOrder ==
    ASSUME NEW d \in Nat, NEW a \in Int, NEW b \in Int, a <= b
    PROVE  d * a <= d * b
<1>1. PICK k \in Nat : b = a + k
    <2>1. b - a \in Nat /\ b = a + (b - a)
        OBVIOUS
    <2>2. QED BY <2>1
<1>2. d * b = d * a + d * k /\ d * k \in Nat /\ d * a \in Int
    BY <1>1
<1>3. QED BY <1>2

\* And can be read off.
LEMMA ProductsShowOrder ==
    ASSUME NEW d \in Nat \ {0}, NEW a \in Int, NEW b \in Int, d * a <= d * b
    PROVE  a <= b
<1> SUFFICES ASSUME b < a PROVE FALSE
    OBVIOUS
<1>1. d * b + d <= d * a /\ d * a \in Int /\ d * b \in Int
    BY TimesMore
<1>2. QED BY <1>1

\* Truncation is the quotient of a natural number, and always an integer.
LEMMA QuotientType ==
    ASSUME NEW a \in Int, NEW d \in Nat \ {0}
    PROVE  Quotient(a, d) \in Int /\ (a \in Nat => Quotient(a, d) = a \div d /\ Quotient(a, d) \in Nat)
<1>1. a \div d \in Int /\ -a \in Int /\ (-a) \div d \in Int
    BY FloorOf
<1>2. a \in Nat => a \div d \in Nat
    BY FloorNat
<1>3. QED BY <1>1, <1>2 DEF Quotient

\* h is p divided in proportion to f.
InParts(h, f, S, p, T) == \A x \in S : f[x] \in Nat /\ h[x] = (f[x] * p) \div T
\* Parts of p in proportion, rounded down, are not more than p.
LEMMA PartsFit ==
    ASSUME NEW S, IsFiniteSet(S), NEW f, NEW h, NEW p \in Nat, NEW T \in Nat \ {0},
           SumFunctionOnSet(f, S) <= T, InParts(h, f, S, p, T)
    PROVE  SumFunctionOnSet(h, S) <= p /\ SumFunctionOnSet(h, S) \in Nat /\ \A x \in S : h[x] \in Nat
<1> USE DEF InParts
<1>1. \A x \in S : h[x] \in Nat /\ T * h[x] <= p * f[x]
    <2> TAKE x \in S
    <2>1. f[x] \in Nat /\ h[x] = (f[x] * p) \div T
        OBVIOUS
    <2>2. f[x] * p \in Nat /\ f[x] * p = p * f[x]
        BY <2>1
    <2>3. h[x] \in Nat
        BY <2>1, <2>2, FloorNat
    <2>4. T * h[x] <= f[x] * p
        BY <2>1, <2>2, FloorOf
    <2>5. QED BY <2>2, <2>3, <2>4
<1>2. SumFunctionOnSet(h, S) \in Nat
    BY <1>1, SumGrows
<1>3. T * SumFunctionOnSet(h, S) <= p * SumFunctionOnSet(f, S)
    <2>1. \A x \in S : f[x] \in Int /\ h[x] \in Int /\ T * h[x] <= p * f[x]
        BY <1>1
    <2>2. QED BY <2>1, SumScaled
<1>4. SumFunctionOnSet(f, S) \in Int
    BY SumInt
<1>5. p * SumFunctionOnSet(f, S) <= p * T
    BY <1>4, ProductsKeepOrder
<1>6. T * SumFunctionOnSet(h, S) <= T * p
    <2>1. p * T = T * p /\ T * p \in Int /\ T * SumFunctionOnSet(h, S) \in Int /\ p * SumFunctionOnSet(f, S) \in Int
        BY <1>2, <1>4
    <2>2. QED BY <2>1, <1>3, <1>5
<1>7. SumFunctionOnSet(h, S) <= p
    BY <1>2, <1>6, ProductsShowOrder
<1>8. QED BY <1>1, <1>2, <1>7

\* Smaller terms add up to less.
LEMMA SumBelow ==
    ASSUME NEW S, IsFiniteSet(S), NEW f, NEW h, \A x \in S : f[x] \in Int /\ h[x] \in Int /\ h[x] <= f[x]
    PROVE  SumFunctionOnSet(h, S) <= SumFunctionOnSet(f, S)
<1>1. \A x \in S : f[x] \in Int /\ h[x] \in Int /\ 1 * h[x] <= 1 * f[x]
    OBVIOUS
<1>2. 1 * SumFunctionOnSet(h, S) <= 1 * SumFunctionOnSet(f, S)
    BY <1>1, SumScaled
<1>3. SumFunctionOnSet(h, S) \in Int /\ SumFunctionOnSet(f, S) \in Int
    BY SumInt
<1>4. QED BY <1>2, <1>3

--------------------------------------------------------------------------------
(* Fees. *)

\* The fee on a lot never burns more shares than the lot has, and what it burns is worth the
\* fee: the fee is at most the whole profit, and the profit is worth less than the lot.
LEMMA FeeIsInTheLot ==
    ASSUME NEW units \in Nat, NEW nav \in Nat \ {0}, NEW hwm \in Nat, hwm < nav,
           NEW cost \in Nat, NEW rate \in 0 .. RateCap
    PROVE  LET burn == BurnOf(Profit(units, nav, hwm, cost), rate, nav) IN
              burn \in Nat /\ burn <= units
<1> DEFINE gain == (units * (nav - hwm)) \div Scale
           profit == Profit(units, nav, hwm, cost)
           fee == (profit * rate) \div RateScale
           burn == (fee * Scale) \div nav
<1>1. Scale \in Nat \ {0} /\ RateScale \in Nat \ {0} /\ rate \in Nat /\ rate <= RateScale
    BY ScaleAssumption
<1>2. gain \in Nat /\ Scale * gain <= units * nav
    <2>1. nav - hwm \in Nat /\ nav - hwm <= nav
        OBVIOUS
    <2>2. units * (nav - hwm) \in Nat /\ units * (nav - hwm) <= units * nav /\ units * nav \in Nat
        BY <2>1, ProductsKeepOrder
    <2>3. gain \in Nat /\ Scale * gain <= units * (nav - hwm)
        BY <1>1, <2>2, FloorOf, FloorNat
    <2> HIDE DEF gain
    <2>4. Scale * gain \in Nat
        BY <1>1, <2>3
    <2>5. QED BY <2>2, <2>3, <2>4
<1> HIDE DEF gain
<1>3. profit \in Nat /\ profit <= gain
    <2>1. profit = IF gain > cost THEN gain - cost ELSE 0
        BY DEF Profit, gain
    <2> HIDE DEF profit
    <2>2. QED BY <2>1, <1>2
<1> HIDE DEF profit
<1>4. fee \in Nat /\ fee <= gain
    <2>1. profit * rate \in Nat /\ profit * rate <= profit * RateScale /\ profit * RateScale = RateScale * profit
        BY <1>1, <1>3, ProductsKeepOrder
    <2>2. fee \in Nat
        BY <1>1, <2>1, FloorNat
    <2>3. fee <= profit
        BY <1>1, <1>3, <2>1, FloorBounds
    <2> HIDE DEF fee
    <2>4. QED BY <1>2, <1>3, <2>2, <2>3
<1> HIDE DEF fee
<1>5. fee * Scale \in Nat /\ fee * Scale <= nav * units
    <2>1. Scale * fee <= Scale * gain
        BY <1>1, <1>2, <1>4, ProductsKeepOrder
    <2>2. fee * Scale = Scale * fee /\ fee * Scale \in Nat /\ Scale * gain \in Nat /\ units * nav = nav * units
        BY <1>1, <1>2, <1>4
    <2>3. nav * units \in Nat
        OBVIOUS
    <2>4. QED BY <1>2, <2>1, <2>2, <2>3
<1>6. burn \in Nat /\ burn <= units
    BY <1>5, FloorNat, FloorBounds
<1>7. QED BY <1>6 DEF BurnOf, burn, fee, profit

\* Also where closing gained, so that its cost is negative, the fee burns something or nothing.
LEMMA FeeIsNat ==
    ASSUME NEW units \in Nat, NEW nav \in Nat \ {0}, NEW hwm \in Nat, hwm < nav,
           NEW cost \in Int, NEW rate \in 0 .. RateCap
    PROVE  BurnOf(Profit(units, nav, hwm, cost), rate, nav) \in Nat
<1> DEFINE gain == (units * (nav - hwm)) \div Scale
           profit == Profit(units, nav, hwm, cost)
           fee == (profit * rate) \div RateScale
<1>1. Scale \in Nat \ {0} /\ RateScale \in Nat \ {0} /\ rate \in Nat
    BY ScaleAssumption
<1>2. gain \in Nat
    <2>1. nav - hwm \in Nat
        OBVIOUS
    <2>2. units * (nav - hwm) \in Nat
        BY <2>1
    <2>3. QED BY <1>1, <2>2, FloorNat
<1> HIDE DEF gain
<1>3. profit \in Nat
    <2>1. profit = IF gain > cost THEN gain - cost ELSE 0
        BY DEF Profit, gain
    <2> HIDE DEF profit
    <2>2. QED BY <2>1, <1>2
<1> HIDE DEF profit
<1>4. fee \in Nat
    <2>1. profit * rate \in Nat
        BY <1>1, <1>3
    <2>2. QED BY <1>1, <2>1, FloorNat
<1> HIDE DEF fee
<1>5. fee * Scale \in Nat
    BY <1>1, <1>4
<1>6. (fee * Scale) \div nav \in Nat
    BY <1>5, FloorNat
<1>7. QED BY <1>6 DEF BurnOf, fee, profit

\* The fee is not more than the burned shares are worth.
LEMMA FeeIsBurned ==
    ASSUME NEW burn \in Nat, NEW nav \in Nat
    PROVE  FeeOf(burn, nav) \in Nat /\ Scale * FeeOf(burn, nav) <= nav * burn
<1>1. burn * nav \in Nat /\ burn * nav = nav * burn /\ Scale \in Nat \ {0}
    BY ScaleAssumption
<1>2. QED BY <1>1, FloorOf, FloorNat DEF FeeOf

--------------------------------------------------------------------------------
(* Lots. *)

Lot == [units : Nat, hwm : Nat]
UnitsIn(lots) == SumFunctionOnSet([n \in DOMAIN lots |-> lots[n].units], DOMAIN lots)

\* What there is to know about a list of lots.
LEMMA LotsShape ==
    ASSUME NEW lots \in Seq(Lot)
    PROVE  /\ Len(lots) \in Nat /\ DOMAIN lots = 1 .. Len(lots) /\ IsFiniteSet(DOMAIN lots)
           /\ \A n \in DOMAIN lots : lots[n] \in Lot /\ lots[n].units \in Nat /\ lots[n].hwm \in Nat
           /\ UnitsIn(lots) \in Nat
<1>1. Len(lots) \in Nat /\ DOMAIN lots = 1 .. Len(lots)
    BY LenProperties
<1>2. IsFiniteSet(DOMAIN lots)
    BY <1>1, FS_Interval
<1>3. \A n \in DOMAIN lots : lots[n] \in Lot
    BY <1>1, ElementOfSeq
<1>4. \A n \in DOMAIN lots : lots[n].units \in Nat /\ lots[n].hwm \in Nat
    BY <1>3 DEF Lot
<1> DEFINE f == [n \in DOMAIN lots |-> lots[n].units]
           D == DOMAIN lots
<1>5. D \in SUBSET D /\ \A n \in D : f[n] \in Nat
    BY <1>4
<1>6. IsFiniteSet(D)
    BY <1>2
<1> HIDE DEF f, D
<1>7. SumFunctionOnSet(f, D) \in Nat
    BY <1>5, <1>6, SumGrows
<1>8. QED BY <1>1, <1>2, <1>3, <1>4, <1>7 DEF UnitsIn, f, D

\* A list is rewritten lot by lot.
LEMMA LotsRewritten ==
    ASSUME NEW lots \in Seq(Lot), NEW f \in [DOMAIN lots -> Lot]
    PROVE  f \in Seq(Lot) /\ DOMAIN f = DOMAIN lots
<1>1. Len(lots) \in Nat /\ DOMAIN lots = 1 .. Len(lots)
    BY LenProperties
<1>2. f \in [1 .. Len(lots) -> Lot]
    BY <1>1
<1>3. f \in UNION {[1 .. n -> Lot] : n \in Nat}
    BY <1>1, <1>2
<1>4. QED BY <1>1, <1>3, SeqDef

\* What lots lose, the list loses.
LEMMA LotsLose ==
    ASSUME NEW lots \in Seq(Lot), NEW f \in [DOMAIN lots -> Lot], NEW lost,
           \A n \in DOMAIN lots : lost[n] \in Int /\ f[n].units = lots[n].units - lost[n]
    PROVE  UnitsIn(f) = UnitsIn(lots) - SumFunctionOnSet(lost, DOMAIN lots)
<1> DEFINE D == DOMAIN lots
           g == [n \in D |-> lots[n].units]
           h == [n \in D |-> f[n].units]
<1>1. IsFiniteSet(D) /\ DOMAIN f = D /\ \A n \in D : lots[n].units \in Nat
    BY LotsShape, LotsRewritten
<1>2. \A n \in D : g[n] \in Int /\ lost[n] \in Int /\ h[n] = g[n] - lost[n]
    BY <1>1
<1> HIDE DEF D, g, h
<1>3. SumFunctionOnSet(h, D) = SumFunctionOnSet(g, D) - SumFunctionOnSet(lost, D)
    BY <1>1, <1>2, SumDifference
<1>4. UnitsIn(f) = SumFunctionOnSet(h, D) /\ UnitsIn(lots) = SumFunctionOnSet(g, D)
    BY <1>1 DEF UnitsIn, g, h, D
<1>5. QED BY <1>3, <1>4 DEF D

\* A new lot is added.
LEMMA LotAdded ==
    ASSUME NEW lots \in Seq(Lot), NEW lot \in Lot
    PROVE  Append(lots, lot) \in Seq(Lot) /\ UnitsIn(Append(lots, lot)) = UnitsIn(lots) + lot.units
<1> DEFINE more == Append(lots, lot)
           c == Len(lots) + 1
           D == DOMAIN lots
           E == DOMAIN more
           f == [n \in D |-> lots[n].units]
           h == [n \in E |-> more[n].units]
<1>1. /\ more \in Seq(Lot) /\ Len(more) = Len(lots) + 1
      /\ \A n \in 1 .. Len(lots) : more[n] = lots[n]
      /\ more[Len(lots) + 1] = lot
    BY AppendProperties
<1>2. Len(lots) \in Nat /\ D = 1 .. Len(lots) /\ IsFiniteSet(D)
    BY LotsShape
<1>3. E = 1 .. Len(lots) + 1 /\ \A n \in E : more[n].units \in Nat
    BY <1>1, LotsShape
<1> HIDE DEF more
<1>4. c \notin D /\ E = D \cup {c}
    BY <1>2, <1>3
<1>5. \A n \in E : h[n] \in Int
    BY <1>3
<1>6. \A n \in D : f[n] = h[n]
    BY <1>1, <1>2, <1>3
<1>7. h[c] = lot.units
    BY <1>1, <1>2, <1>3
<1>8. IsFiniteSet(D)
    BY <1>2
<1> HIDE DEF D, E, f, h, c
<1>9. SumFunctionOnSet(h, E) = SumFunctionOnSet(f, D) + h[c]
    <2>1. SumFunctionOnSet(f, D) = SumFunctionOnSet(h, D) /\ SumFunctionOnSet(f, D) \in Int
        <3>1. \A n \in D : f[n] \in Int
            BY <1>4, <1>5, <1>6
        <3>2. QED BY <3>1, <1>6, <1>8, SumSame, SumInt
    <2>2. SumFunctionOnSet(h, D \cup {c}) = h[c] + SumFunctionOnSet(h, D)
        BY <1>4, <1>5, <1>8, SumAdd
    <2>3. h[c] \in Int
        BY <1>4, <1>5
    <2>4. QED BY <2>1, <2>2, <2>3, <1>4
<1>10. UnitsIn(lots) = SumFunctionOnSet(f, D) /\ UnitsIn(more) = SumFunctionOnSet(h, E)
    BY DEF UnitsIn, f, h, D, E
<1>11. QED BY <1>1, <1>7, <1>9, <1>10 DEF more

\* What one more lot gives is what it has, or what is still missing.
LEMMA GiveNext ==
    ASSUME NEW kept \in Nat, NEW before \in Nat, NEW left \in Nat
    PROVE  Smaller(kept, Larger(0, left - before)) + Smaller(left, before) = Smaller(left, kept + before)
BY DEF Smaller, Larger

\* What rounding left is taken from the first lots, all of it and from nobody more than he has.
LEMMA TheFirstGive ==
    ASSUME NEW n \in Nat, NEW kept, DOMAIN kept = 1 .. n, \A k \in 1 .. n : kept[k] \in Nat,
           NEW left \in Nat, left <= SumFunctionOnSet(kept, 1 .. n)
    PROVE  LET rest == FromTheFirst(kept, left) IN
              /\ DOMAIN rest = 1 .. n
              /\ \A k \in 1 .. n : rest[k] \in Nat /\ rest[k] <= kept[k]
              /\ SumFunctionOnSet(rest, 1 .. n) = left
<1> DEFINE rest == FromTheFirst(kept, left)
           T == {m \in Nat : m <= n => SumFunctionOnSet(rest, 1 .. m) = Smaller(left, SumFunctionOnSet(kept, 1 .. m))}
<1>1. /\ DOMAIN rest = 1 .. n
      /\ \A k \in 1 .. n : rest[k] = Smaller(kept[k], Larger(0, left - SumFunctionOnSet(kept, 1 .. k - 1)))
    BY DEF FromTheFirst
<1> HIDE DEF rest
<1>2. \A m \in Nat : m <= n => SumFunctionOnSet(kept, 1 .. m) \in Nat
    <2> TAKE m \in Nat
    <2> HAVE m <= n
    <2>1. IsFiniteSet(1 .. n) /\ 1 .. m \in SUBSET (1 .. n)
        BY FS_Interval
    <2>2. QED BY <2>1, SumGrows
<1>3. \A k \in 1 .. n : rest[k] \in Nat /\ rest[k] <= kept[k]
    <2> TAKE k \in 1 .. n
    <2>1. SumFunctionOnSet(kept, 1 .. k - 1) \in Nat
        BY <1>2
    <2>2. QED BY <2>1, <1>1 DEF Smaller, Larger
<1>4. 0 \in T
    <2>1. 1 .. 0 = {}
        OBVIOUS
    <2>2. QED BY <2>1, SumEmpty DEF Smaller
<1>5. ASSUME NEW m \in T PROVE m + 1 \in T
    <2>1. m \in Nat /\ m + 1 \in Nat
        OBVIOUS
    <2>2. SUFFICES ASSUME m + 1 <= n
                   PROVE  SumFunctionOnSet(rest, 1 .. m + 1) = Smaller(left, SumFunctionOnSet(kept, 1 .. m + 1))
        BY <2>1
    <2>3. SumFunctionOnSet(rest, 1 .. m) = Smaller(left, SumFunctionOnSet(kept, 1 .. m))
        BY <2>1, <2>2
    <2> HIDE DEF T
    <2> DEFINE c == m + 1
               D == 1 .. m
               E == 1 .. m + 1
    <2>4. IsFiniteSet(D) /\ c \notin D /\ E = D \cup {c} /\ c \in 1 .. n /\ E \subseteq 1 .. n /\ c - 1 = m
        <3>1. IsFiniteSet(D)
            BY <2>1, FS_Interval
        <3>2. c \notin D /\ c \in 1 .. n /\ E \subseteq 1 .. n /\ c - 1 = m
            BY <2>1, <2>2
        <3>3. E = D \cup {c}
            BY <2>1
        <3>4. QED BY <3>1, <3>2, <3>3
    <2>5. \A k \in D \cup {c} : rest[k] \in Int /\ kept[k] \in Int
        BY <2>4, <1>3
    <2>6. rest[c] = Smaller(kept[c], Larger(0, left - SumFunctionOnSet(kept, D))) /\ kept[c] \in Nat
        BY <2>4, <1>1
    <2>7. SumFunctionOnSet(kept, D) \in Nat
        BY <2>1, <2>2, <1>2
    <2> HIDE DEF c, D, E
    <2>8. /\ SumFunctionOnSet(rest, E) = rest[c] + SumFunctionOnSet(rest, D)
          /\ SumFunctionOnSet(kept, E) = kept[c] + SumFunctionOnSet(kept, D)
        BY <2>4, <2>5, SumAdd
    <2>9. SumFunctionOnSet(rest, D) = Smaller(left, SumFunctionOnSet(kept, D))
        BY <2>3 DEF D
    <2>10. SumFunctionOnSet(rest, E) = Smaller(left, SumFunctionOnSet(kept, E))
        <3> DEFINE a == kept[c]
                   d == SumFunctionOnSet(kept, D)
        <3>1. a \in Nat /\ d \in Nat /\ rest[c] = Smaller(a, Larger(0, left - d))
            BY <2>6, <2>7
        <3>2. /\ SumFunctionOnSet(rest, E) = rest[c] + SumFunctionOnSet(rest, D)
              /\ SumFunctionOnSet(kept, E) = a + d /\ SumFunctionOnSet(rest, D) = Smaller(left, d)
            BY <2>8, <2>9
        <3> HIDE DEF a, d
        <3>3. Smaller(a, Larger(0, left - d)) + Smaller(left, d) = Smaller(left, a + d)
            BY <3>1, GiveNext
        <3>4. QED BY <3>1, <3>2, <3>3
    <2>11. QED BY <2>10 DEF E
<1>6. T = Nat
    <2>1. T \in SUBSET Nat
        OBVIOUS
    <2> HIDE DEF T
    <2>2. QED BY <1>4, <1>5, <2>1, InductionOnNaturals
<1>7. SumFunctionOnSet(rest, 1 .. n) = left
    <2>1. n \in T
        BY <1>6
    <2>2. SumFunctionOnSet(kept, 1 .. n) \in Nat
        BY <1>2
    <2>3. QED BY <2>1, <2>2 DEF Smaller
<1>8. QED BY <1>1, <1>3, <1>7 DEF rest

\* burnWithdrawal() takes exactly what was requested, and from no lot more than it has.
LEMMA BurnTakesAll ==
    ASSUME NEW lots \in Seq(Lot), UnitsIn(lots) # 0, NEW requested \in 0 .. UnitsIn(lots)
    PROVE  LET burned == Burned(lots, UnitsIn(lots), requested) IN
              /\ \A n \in DOMAIN lots :
                    /\ burned.share[n] \in Nat /\ burned.rest[n] \in Nat
                    /\ burned.share[n] + burned.rest[n] <= lots[n].units
              /\ SumFunctionOnSet([n \in DOMAIN lots |-> burned.share[n] + burned.rest[n]], DOMAIN lots) = requested
<1> DEFINE old == UnitsIn(lots)
           N == Len(lots)
           D == DOMAIN lots
           units == [n \in D |-> lots[n].units]
           share == InProportion(lots, old, requested)
           kept == [n \in D |-> lots[n].units - share[n]]
           left == requested - SumFunctionOnSet(share, DOMAIN share)
           rest == FromTheFirst(kept, left)
           given == [n \in D |-> share[n] + rest[n]]
<1>1. N \in Nat /\ D = 1 .. N /\ IsFiniteSet(D) /\ old \in Nat \ {0} /\ \A n \in D : lots[n].units \in Nat
    BY LotsShape
<1>2. DOMAIN share = D /\ \A n \in D : share[n] = (lots[n].units * requested) \div old
    BY DEF InProportion
<1>3. SumFunctionOnSet(units, D) = old
    BY DEF UnitsIn
<1>4. Burned(lots, UnitsIn(lots), requested) = [share |-> share, rest |-> rest]
    BY DEF Burned
<1> HIDE DEF share, D, N, old
<1>5. SumFunctionOnSet(share, D) <= requested /\ SumFunctionOnSet(share, D) \in Nat /\ \A n \in D : share[n] \in Nat
    <2>1. InParts(share, units, D, requested, old)
        BY <1>1, <1>2 DEF InParts
    <2>2. requested \in Nat /\ SumFunctionOnSet(units, D) <= old
        BY <1>1, <1>3
    <2> HIDE DEF units
    <2>3. QED BY <1>1, <2>1, <2>2, PartsFit
<1>6. \A n \in D : share[n] <= lots[n].units
    <2> TAKE n \in D
    <2>1. lots[n].units * requested \in Nat /\ requested \in Nat /\ requested <= old
        BY <1>1 DEF old
    <2>2. lots[n].units * requested <= lots[n].units * old /\ lots[n].units * old = old * lots[n].units
        BY <1>1, <2>1, ProductsKeepOrder
    <2>3. QED BY <1>1, <1>2, <2>1, <2>2, FloorBounds
<1>7. \A n \in D : kept[n] = units[n] - share[n] /\ units[n] \in Int /\ share[n] \in Int /\ kept[n] \in Nat
    BY <1>1, <1>5, <1>6
<1>8. SumFunctionOnSet(kept, D) = old - SumFunctionOnSet(share, D)
    <2> HIDE DEF units, kept
    <2>1. QED BY <1>1, <1>3, <1>7, SumDifference
<1>9. left \in Nat /\ left <= SumFunctionOnSet(kept, D)
    <2>1. requested \in Nat /\ requested <= old
        BY <1>1 DEF old
    <2>2. QED BY <2>1, <1>1, <1>2, <1>5, <1>8
<1>10. /\ DOMAIN rest = D /\ \A n \in D : rest[n] \in Nat /\ rest[n] <= kept[n]
       /\ SumFunctionOnSet(rest, D) = left
    <2>1. DOMAIN kept = 1 .. N /\ \A k \in 1 .. N : kept[k] \in Nat
        BY <1>1, <1>7
    <2>2. left <= SumFunctionOnSet(kept, 1 .. N)
        BY <1>1, <1>9
    <2> HIDE DEF kept, left
    <2>3. QED BY <1>1, <1>9, <2>1, <2>2, TheFirstGive
<1>11. \A n \in D : share[n] \in Nat /\ rest[n] \in Nat /\ share[n] + rest[n] <= lots[n].units
    <2> TAKE n \in D
    <2>1. kept[n] = lots[n].units - share[n] /\ lots[n].units \in Nat /\ share[n] \in Nat
        BY <1>1, <1>5
    <2> HIDE DEF kept, rest
    <2>2. QED BY <2>1, <1>10
<1>12. SumFunctionOnSet(given, D) = requested
    <2>1. \A n \in D : given[n] \in Int /\ share[n] \in Int /\ rest[n] = given[n] - share[n]
        <3> TAKE n \in D
        <3>1. given[n] = share[n] + rest[n] /\ share[n] \in Nat /\ rest[n] \in Nat
            BY <1>11
        <3> HIDE DEF given, rest
        <3>2. QED BY <3>1
    <2>2. SumFunctionOnSet(rest, D) = SumFunctionOnSet(given, D) - SumFunctionOnSet(share, D)
        <3> HIDE DEF given, rest
        <3>1. QED BY <1>1, <2>1, SumDifference
    <2>3. SumFunctionOnSet(given, D) \in Int
        <3> HIDE DEF given
        <3>1. QED BY <1>1, <2>1, SumInt
    <2>4. SumFunctionOnSet(rest, D) = requested - SumFunctionOnSet(share, D)
        BY <1>2, <1>10
    <2> HIDE DEF given, rest
    <2>5. QED BY <2>2, <2>3, <2>4, <1>5
<1>13. QED BY <1>4, <1>11, <1>12 DEF D

--------------------------------------------------------------------------------
(* What is always so of a book. *)

BookFields == {"rate", "cash", "equity", "units", "nav", "due", "peak", "status", "investors", "withdrawals",
               "settlement", "mark", "events", "halfMinted", "feePaid"}
Shape(b) == DOMAIN b = BookFields

InvestorOK(p) ==
    /\ DOMAIN p = {"pending", "units", "lots", "deposited", "paid", "fees"}
    /\ p.pending \in Nat /\ p.units \in Nat /\ p.fees \in Nat
    /\ p.lots \in Seq(Lot) /\ UnitsIn(p.lots) = p.units
InvestorsOK(I) == DOMAIN I = Investors /\ \A i \in Investors : InvestorOK(I[i])

UnitsOwned(I) == SumFunctionOnSet([i \in Investors |-> I[i].units], Investors)
FeesCharged(I) == SumFunctionOnSet([i \in Investors |-> I[i].fees], Investors)

WithdrawalOK(x) ==
    /\ DOMAIN x = {"status", "wallet", "kind", "units", "amount", "debit", "credit"}
    /\ x.units \in Nat /\ x.amount \in Nat /\ (x.status # "none" => x.wallet \in Investors)
WithdrawalsOK(W) == DOMAIN W = Withdrawals /\ \A w \in Withdrawals : WithdrawalOK(W[w])

\* What open requests of an investor ask for.
Asked(W, i, kind) == {w \in Withdrawals : W[w].wallet = i /\ W[w].kind = kind /\ W[w].status \in Open}
UnitsAsked(W, i) == SumFunctionOnSet([w \in Withdrawals |-> W[w].units], Asked(W, i, "UNITS"))
CashAsked(W, i) == SumFunctionOnSet([w \in Withdrawals |-> W[w].amount], Asked(W, i, "PENDING"))
Covered(I, W) == \A i \in Investors : UnitsAsked(W, i) <= I[i].units /\ CashAsked(W, i) <= I[i].pending

\* A settlement is of redemptions, and once it has a price it has a payout for each.
SettlementOK(s, W) ==
    /\ DOMAIN s = {"ids", "units", "cost", "nav", "payouts"}
    /\ s.ids \subseteq Withdrawals /\ s.units \in Nat /\ s.cost \in Int /\ s.nav \in Int
    /\ s # NoSettlement => s.ids # {}
    /\ \A w \in s.ids : W[w].kind = "UNITS" /\ W[w].status \in {"SETTLING", "PAID"}
    /\ s.payouts = <<>> => \A w \in s.ids : W[w].status = "SETTLING"
    /\ s.payouts # <<>> => DOMAIN s.payouts = s.ids /\ \A w \in s.ids : s.payouts[w] \in Nat

NumbersOK(b) ==
    /\ b.rate \in 0 .. RateCap /\ b.cash \in Int /\ b.equity \in Int /\ b.units \in Nat /\ b.nav \in Int
    /\ b.due \in Nat /\ b.feePaid \in Nat /\ b.halfMinted \in BOOLEAN
    /\ b.units = 0 => b.nav >= 0
BookOK(b) ==
    /\ Shape(b) /\ NumbersOK(b)
    /\ InvestorsOK(b.investors) /\ WithdrawalsOK(b.withdrawals)
    /\ SettlementOK(b.settlement, b.withdrawals) /\ Covered(b.investors, b.withdrawals)
    /\ UnitsOwned(b.investors) = b.units /\ FeesCharged(b.investors) = b.due + b.feePaid

\* The shares at their price are not worth more than the equity.
Holds(b) == b.nav >= 0 /\ b.units * b.nav <= b.equity * Scale

\* While a redemption is under way the price is kept up for those who stay, so that the equity
\* need not cover all shares at it; it does when everybody is paid.  What is owed it covers
\* all along, and the cash and the venue do.
Settled(b) == b.settlement = NoSettlement \/ (Priced(b) /\ Unpaid(b) = {})
Backed(b) == Settled(b) /\ b.halfMinted = FALSE => Holds(b)
Owed(b) == SumFunctionOnSet(b.settlement.payouts, Unpaid(b))
PayoutsBacked(b, v) == Priced(b) => Owed(b) <= b.equity /\ Owed(b) <= Larger(0, b.cash + v - b.due)

InOrder ==
    /\ BookOK(book) /\ venue \in Nat
    /\ Backed(book) /\ PayoutsBacked(book, venue)

\* There are finitely many investors and withdrawals.
LEMMA ManyAreFinite == IsFiniteSet(Investors) /\ IsFiniteSet(Withdrawals)
<1>1. ASSUME NEW S, NEW s \in Seq(S), ToSet(s) = S PROVE IsFiniteSet(S)
    <2> DEFINE D == DOMAIN s
    <2>0. s \in [D -> S]
        BY LenProperties
    <2>1. Len(s) \in Nat /\ D = 1 .. Len(s)
        BY LenProperties
    <2>2. IsFiniteSet(D)
        <3>1. IsFiniteSet(1 .. Len(s))
            BY <2>1, FS_Interval
        <3>2. QED BY <3>1, <2>1
    <2>3. \A x \in S : \E k \in D : s[k] = x
        BY <1>1 DEF ToSet
    <2> HIDE DEF D
    <2>4. s \in Surjection(D, S)
        BY <2>0, <2>3 DEF Surjection
    <2>5. QED BY <2>2, <2>4, FS_Surjection
<1>2. QED BY <1>1, OrderAssumption, WithdrawalOrderAssumption

--------------------------------------------------------------------------------
(* What changes of a book leave alone. *)

\* Only prices, cash and the journal differ.
Keeps(b, c) ==
    /\ Shape(c)
    /\ c.rate = b.rate /\ c.units = b.units /\ c.due = b.due /\ c.feePaid = b.feePaid
    /\ c.halfMinted = b.halfMinted /\ c.investors = b.investors /\ c.withdrawals = b.withdrawals
    /\ c.settlement = b.settlement
\* Only the journal differs.
Same(b, c) == Keeps(b, c) /\ c.cash = b.cash /\ c.equity = b.equity /\ c.nav = b.nav

\* Recording events, and values, writes the journal.
LEMMA RecordingKeeps ==
    ASSUME NEW b, Shape(b), NEW events
    PROVE  Same(b, RecordedAll(b, events)) /\ Same(b, LedgerValue(b))
<1>1. Same(b, RecordedAll(b, events))
    BY DEF Same, Keeps, Shape, BookFields, RecordedAll
<1>2. Same(b, LedgerValue(b))
    <2>1. CASE b.mark # <<>>
        BY <2>1 DEF Same, Keeps, Shape, BookFields, LedgerValue
    <2>2. CASE b.mark = <<>>
        <3>1. LedgerValue(b) = RecordedAll(b, <<[kind |-> "VALUE", amount |-> b.equity]>>)
            BY <2>2 DEF LedgerValue, Recorded
        <3>2. QED BY <3>1 DEF Same, Keeps, Shape, BookFields, RecordedAll
    <2>3. QED BY <2>1, <2>2
<1>3. QED BY <1>1, <1>2

\* Marking a book writes its price and its equity.
LEMMA MarkingKeeps ==
    ASSUME NEW b, Shape(b), NEW equity, NEW assess
    PROVE  LET c == MarkBook(b, equity, assess) IN
              /\ Keeps(b, c) /\ c.cash = b.cash /\ c.equity = equity
              /\ c.nav = IF b.units # 0 THEN PricePerUnit(equity, b.units) ELSE b.nav
BY DEF Keeps, Shape, BookFields, MarkBook, LedgerMark

\* Whether there is a price, who is unpaid and what is owed is told by the owners' side.
LEMMA KeptFacts ==
    ASSUME NEW b, NEW c, Keeps(b, c)
    PROVE  /\ Priced(c) <=> Priced(b)
           /\ Unpaid(c) = Unpaid(b) /\ Owed(c) = Owed(b)
           /\ Settled(c) <=> Settled(b)
BY DEF Keeps, Priced, Unpaid, Owed, Settled

\* A book whose owners' side is kept stays in order.
LEMMA KeptIsOK ==
    ASSUME NEW b, BookOK(b), NEW c, Keeps(b, c), c.cash \in Int, c.equity \in Int, c.nav \in Int,
           b.units = 0 => c.nav >= 0
    PROVE  BookOK(c)
<1>1. /\ c.rate = b.rate /\ c.units = b.units /\ c.due = b.due /\ c.feePaid = b.feePaid
      /\ c.halfMinted = b.halfMinted
    BY DEF Keeps
<1>2. NumbersOK(c)
    BY <1>1 DEF BookOK, NumbersOK
<1>3. QED BY <1>1, <1>2 DEF BookOK, Keeps

\* And all the more one that only has more in its journal.
LEMMA SameIsOK ==
    ASSUME NEW b, BookOK(b), NEW c, Same(b, c), NEW v
    PROVE  /\ BookOK(c)
           /\ Backed(b) => Backed(c)
           /\ PayoutsBacked(b, v) => PayoutsBacked(c, v)
           /\ Holds(b) => Holds(c)
<1>1. Keeps(b, c) /\ c.cash = b.cash /\ c.equity = b.equity /\ c.nav = b.nav
    BY DEF Same
<1>2. b.cash \in Int /\ b.equity \in Int /\ b.nav \in Int /\ (b.units = 0 => b.nav >= 0)
    BY DEF BookOK, NumbersOK
<1>3. BookOK(c)
    BY <1>1, <1>2, KeptIsOK
<1>4. c.units = b.units /\ c.due = b.due /\ c.halfMinted = b.halfMinted
    BY <1>1 DEF Keeps
<1>5. Holds(b) <=> Holds(c)
    BY <1>1, <1>4 DEF Holds
<1>6. QED BY <1>1, <1>3, <1>4, <1>5, KeptFacts DEF Backed, PayoutsBacked

--------------------------------------------------------------------------------
(* What open requests ask for, request by request. *)

UnitsBy(x, i) == IF x.wallet = i /\ x.kind = "UNITS" /\ x.status \in Open THEN x.units ELSE 0
CashBy(x, i) == IF x.wallet = i /\ x.kind = "PENDING" /\ x.status \in Open THEN x.amount ELSE 0

\* The model's sums are these.
LEMMA ReservedIsAsked ==
    ASSUME NEW b, NEW i
    PROVE  ReservedUnits(b, i) = UnitsAsked(b.withdrawals, i) /\ ReservedCash(b, i) = CashAsked(b.withdrawals, i)
BY DEF ReservedUnits, ReservedCash, OpenOf, UnitsAsked, CashAsked, Asked

\* Both can be added up over all withdrawals.
LEMMA AskedOfAll ==
    ASSUME NEW W, WithdrawalsOK(W), NEW i
    PROVE  /\ UnitsAsked(W, i) = SumFunctionOnSet([w \in Withdrawals |-> UnitsBy(W[w], i)], Withdrawals)
           /\ CashAsked(W, i) = SumFunctionOnSet([w \in Withdrawals |-> CashBy(W[w], i)], Withdrawals)
           /\ UnitsAsked(W, i) \in Nat /\ CashAsked(W, i) \in Nat
           /\ \A w \in Withdrawals : UnitsBy(W[w], i) \in Nat /\ CashBy(W[w], i) \in Nat
<1> DEFINE P == Asked(W, i, "UNITS")
           Q == Asked(W, i, "PENDING")
           f == [w \in Withdrawals |-> W[w].units]
           g == [w \in Withdrawals |-> W[w].amount]
           h == [w \in Withdrawals |-> UnitsBy(W[w], i)]
           k == [w \in Withdrawals |-> CashBy(W[w], i)]
<1>1. \A w \in Withdrawals : W[w].units \in Nat /\ W[w].amount \in Nat
    BY DEF WithdrawalsOK, WithdrawalOK
<1>2. \A w \in Withdrawals : /\ UnitsBy(W[w], i) = IF w \in P THEN W[w].units ELSE 0
                             /\ CashBy(W[w], i) = IF w \in Q THEN W[w].amount ELSE 0
    BY DEF UnitsBy, CashBy, Asked
<1>3. P \in SUBSET Withdrawals /\ Q \in SUBSET Withdrawals
    BY DEF Asked
<1> HIDE DEF P, Q
<1>4. /\ \A w \in P : f[w] \in Int
      /\ \A w \in Q : g[w] \in Int
    BY <1>1, <1>3
<1>5. /\ \A w \in Withdrawals : h[w] = IF w \in P THEN f[w] ELSE 0
      /\ \A w \in Withdrawals : k[w] = IF w \in Q THEN g[w] ELSE 0
    BY <1>2
<1>6. \A w \in Withdrawals : h[w] \in Nat /\ k[w] \in Nat
    BY <1>1, <1>5
<1>7. \A w \in Withdrawals : UnitsBy(W[w], i) \in Nat /\ CashBy(W[w], i) \in Nat
    BY <1>6
<1>8. UnitsAsked(W, i) = SumFunctionOnSet(f, P) /\ CashAsked(W, i) = SumFunctionOnSet(g, Q)
    BY DEF UnitsAsked, CashAsked, P, Q
<1> HIDE DEF f, g, h, k
<1>9. SumFunctionOnSet(f, P) = SumFunctionOnSet(h, Withdrawals)
    BY <1>3, <1>4, <1>5, SumOfSome, ManyAreFinite
<1>10. SumFunctionOnSet(g, Q) = SumFunctionOnSet(k, Withdrawals)
    BY <1>3, <1>4, <1>5, SumOfSome, ManyAreFinite
<1>11. SumFunctionOnSet(h, Withdrawals) \in Nat /\ SumFunctionOnSet(k, Withdrawals) \in Nat
    BY <1>6, SumGrows, ManyAreFinite
<1>12. QED BY <1>7, <1>8, <1>9, <1>10, <1>11 DEF h, k

\* Requests that ask for the same.
LEMMA AskForTheSame ==
    ASSUME NEW W, WithdrawalsOK(W), NEW V, WithdrawalsOK(V), NEW i,
           \A w \in Withdrawals : UnitsBy(V[w], i) = UnitsBy(W[w], i) /\ CashBy(V[w], i) = CashBy(W[w], i)
    PROVE  UnitsAsked(V, i) = UnitsAsked(W, i) /\ CashAsked(V, i) = CashAsked(W, i)
<1> DEFINE f == [w \in Withdrawals |-> UnitsBy(W[w], i)]
           h == [w \in Withdrawals |-> UnitsBy(V[w], i)]
           g == [w \in Withdrawals |-> CashBy(W[w], i)]
           k == [w \in Withdrawals |-> CashBy(V[w], i)]
<1>1. f = h /\ g = k
    OBVIOUS
<1>2. /\ UnitsAsked(W, i) = SumFunctionOnSet(f, Withdrawals) /\ UnitsAsked(V, i) = SumFunctionOnSet(h, Withdrawals)
      /\ CashAsked(W, i) = SumFunctionOnSet(g, Withdrawals) /\ CashAsked(V, i) = SumFunctionOnSet(k, Withdrawals)
    BY AskedOfAll
<1> HIDE DEF f, g, h, k
<1>3. QED BY <1>1, <1>2

\* V is W but for one request.
OnlyAt(W, V, w) == DOMAIN V = Withdrawals /\ \A u \in Withdrawals \ {w} : V[u] = W[u]
\* One request changes.
LEMMA OneAsksOtherwise ==
    ASSUME NEW W, WithdrawalsOK(W), NEW w \in Withdrawals, NEW V, OnlyAt(W, V, w), WithdrawalOK(V[w]), NEW i
    PROVE  /\ WithdrawalsOK(V)
           /\ UnitsAsked(V, i) = UnitsAsked(W, i) - UnitsBy(W[w], i) + UnitsBy(V[w], i)
           /\ CashAsked(V, i) = CashAsked(W, i) - CashBy(W[w], i) + CashBy(V[w], i)
<1> DEFINE f == [u \in Withdrawals |-> UnitsBy(W[u], i)]
           h == [u \in Withdrawals |-> UnitsBy(V[u], i)]
           g == [u \in Withdrawals |-> CashBy(W[u], i)]
           k == [u \in Withdrawals |-> CashBy(V[u], i)]
<1>1. WithdrawalsOK(V) /\ \A u \in Withdrawals \ {w} : V[u] = W[u]
    BY DEF WithdrawalsOK, OnlyAt
<1>2. /\ \A u \in Withdrawals : UnitsBy(W[u], i) \in Nat /\ CashBy(W[u], i) \in Nat
      /\ \A u \in Withdrawals : UnitsBy(V[u], i) \in Nat /\ CashBy(V[u], i) \in Nat
    BY <1>1, AskedOfAll
<1>3. /\ \A u \in Withdrawals : f[u] \in Int /\ h[u] \in Int
      /\ \A u \in Withdrawals : g[u] \in Int /\ k[u] \in Int
    BY <1>2
<1>4. /\ \A u \in Withdrawals \ {w} : f[u] = h[u]
      /\ \A u \in Withdrawals \ {w} : g[u] = k[u]
    BY <1>1
<1>5. f[w] = UnitsBy(W[w], i) /\ h[w] = UnitsBy(V[w], i) /\ g[w] = CashBy(W[w], i) /\ k[w] = CashBy(V[w], i)
    OBVIOUS
<1>6. /\ UnitsAsked(W, i) = SumFunctionOnSet(f, Withdrawals) /\ UnitsAsked(V, i) = SumFunctionOnSet(h, Withdrawals)
      /\ CashAsked(W, i) = SumFunctionOnSet(g, Withdrawals) /\ CashAsked(V, i) = SumFunctionOnSet(k, Withdrawals)
    BY <1>1, AskedOfAll
<1> HIDE DEF f, g, h, k
<1>7. SumFunctionOnSet(h, Withdrawals) = SumFunctionOnSet(f, Withdrawals) - f[w] + h[w]
    BY <1>3, <1>4, SumChange, ManyAreFinite
<1>8. SumFunctionOnSet(k, Withdrawals) = SumFunctionOnSet(g, Withdrawals) - g[w] + k[w]
    BY <1>3, <1>4, SumChange, ManyAreFinite
<1>9. QED BY <1>1, <1>5, <1>6, <1>7, <1>8

--------------------------------------------------------------------------------
(* Observing a book. *)

\* A price that was computed holds.
LEMMA PriceHolds ==
    ASSUME NEW equity \in Nat, NEW units \in Nat \ {0}
    PROVE  PricePerUnit(equity, units) \in Nat /\ units * PricePerUnit(equity, units) <= equity * Scale
<1>1. equity * Scale \in Nat
    BY ScaleAssumption
<1>2. QED BY <1>1, FloorOf, FloorNat DEF PricePerUnit

\* Marking with what the book has.
LEMMA MarkedIsOK ==
    ASSUME NEW b, BookOK(b), NEW equity \in Nat, NEW assess
    PROVE  LET c == MarkBook(b, equity, assess) IN BookOK(c) /\ Holds(c) /\ c.nav \in Nat
<1>1. PICK c : c = MarkBook(b, equity, assess)
    OBVIOUS
<1>2. Shape(b) /\ b.cash \in Int /\ b.units \in Nat /\ b.nav \in Int /\ (b.units = 0 => b.nav >= 0)
    BY DEF BookOK, NumbersOK
<1>3. /\ Keeps(b, c) /\ c.cash = b.cash /\ c.equity = equity
      /\ c.nav = IF b.units # 0 THEN PricePerUnit(equity, b.units) ELSE b.nav
    BY <1>1, <1>2, MarkingKeeps
<1>4. c.nav \in Nat /\ b.units * c.nav <= equity * Scale
    <2>1. CASE b.units # 0
        BY <2>1, <1>2, <1>3, PriceHolds
    <2>2. CASE b.units = 0
        <3>1. c.nav \in Nat /\ 0 * c.nav = 0 /\ equity * Scale \in Nat
            BY <2>2, <1>2, <1>3, ScaleAssumption
        <3>2. QED BY <2>2, <3>1
    <2>3. QED BY <2>1, <2>2
<1>5. BookOK(c)
    BY <1>2, <1>3, <1>4, KeptIsOK
<1>6. c.units = b.units
    BY <1>3 DEF Keeps
<1>7. Holds(c)
    BY <1>3, <1>4, <1>6 DEF Holds
<1>8. QED BY <1>1, <1>4, <1>5, <1>7

\* What a redemption cost is a number, and none when nobody is unpaid.
LEMMA ReservedCostType ==
    ASSUME NEW b, BookOK(b)
    PROVE  ReservedCost(b) \in Int /\ (Settled(b) => ReservedCost(b) = 0)
<1>1. SettlementOK(b.settlement, b.withdrawals) /\ WithdrawalsOK(b.withdrawals)
    BY DEF BookOK
<1>2. CASE b.settlement = NoSettlement
    BY <1>2 DEF ReservedCost
<1>3. CASE b.settlement # NoSettlement /\ ~Priced(b)
    BY <1>1, <1>3 DEF ReservedCost, SettlementOK, Settled
<1>4. CASE Priced(b)
    <2> DEFINE f == [w \in Withdrawals |-> Quotient(b.withdrawals[w].units * b.settlement.nav, Scale)
                                           - b.settlement.payouts[w]]
               U == Unpaid(b)
    <2>1. ReservedCost(b) = SumFunctionOnSet(f, U)
        BY <1>4 DEF ReservedCost, Priced
    <2>2. U \subseteq Withdrawals /\ U \subseteq b.settlement.ids
        BY <1>1 DEF Unpaid, SettlementOK
    <2>3. \A w \in U : f[w] \in Int
        <3> TAKE w \in U
        <3>1. b.withdrawals[w].units \in Nat /\ b.settlement.nav \in Int /\ b.settlement.payouts[w] \in Nat
            BY <1>1, <1>4, <2>2 DEF Priced, SettlementOK, WithdrawalsOK, WithdrawalOK
        <3>2. b.withdrawals[w].units * b.settlement.nav \in Int
            BY <3>1
        <3>3. Quotient(b.withdrawals[w].units * b.settlement.nav, Scale) \in Int
            BY <3>2, QuotientType, ScaleAssumption
        <3>4. QED BY <2>2, <3>1, <3>3
    <2>4. IsFiniteSet(U)
        BY <2>2, ManyAreFinite, FS_Subset
    <2>5. Settled(b) => U = {}
        BY <1>4 DEF Settled, Priced
    <2> HIDE DEF f, U
    <2>6. QED BY <2>1, <2>3, <2>4, <2>5, SumInt, SumEmpty
<1>5. QED BY <1>2, <1>3, <1>4 DEF Priced

\* observeBook(): the equity is what is there, and the price holds when nobody is unpaid.
LEMMA ObservedIsOK ==
    ASSUME NEW b, BookOK(b), NEW v \in Int, NEW assess
    PROVE  LET c == Observed(b, v, assess) IN
              /\ BookOK(c) /\ Keeps(b, c)
              /\ c.cash = b.cash /\ c.equity = Larger(0, b.cash + v - b.due) /\ c.nav \in Nat
              /\ Settled(b) => Holds(c)
              /\ Backed(c)
              /\ PayoutsBacked(b, v) => PayoutsBacked(c, v)
<1>1. b.cash \in Int /\ b.due \in Nat /\ ReservedCost(b) \in Int /\ Shape(b) /\ b.units \in Nat
    BY ReservedCostType DEF BookOK, NumbersOK
<1>2. PICK actual \in Int : actual = b.cash + v - b.due
    BY <1>1
<1>3. PICK basis \in Nat : basis = Larger(0, actual + ReservedCost(b))
    BY <1>1 DEF Larger
<1>4. PICK here \in Nat : here = Larger(0, actual)
    BY DEF Larger
<1>5. PICK m : m = MarkBook(b, basis, assess)
    OBVIOUS
<1>6. PICK d : d = [m EXCEPT !.equity = here]
    OBVIOUS
<1>7. PICK c : c = LedgerValue(d)
    OBVIOUS
<1>8. c = Observed(b, v, assess)
    BY <1>2, <1>3, <1>4, <1>5, <1>6, <1>7 DEF Observed, MarkVenueEquity
<1>9. Keeps(b, m) /\ m.cash = b.cash /\ m.equity = basis
    BY <1>1, <1>5, MarkingKeeps
<1>10. BookOK(m) /\ Holds(m) /\ m.nav \in Nat
    BY <1>5, MarkedIsOK
<1>11. Keeps(b, d) /\ d.cash = b.cash /\ d.equity = here /\ d.nav = m.nav
    BY <1>6, <1>9 DEF Keeps, Shape, BookFields
<1>12. Same(d, c)
    BY <1>7, <1>11, RecordingKeeps DEF Keeps
<1>13. BookOK(d)
    BY <1>1, <1>10, <1>11, KeptIsOK
<1>14. BookOK(c)
    BY <1>12, <1>13, SameIsOK
<1>15. Keeps(b, c) /\ c.cash = b.cash /\ c.equity = here /\ c.nav = m.nav
    BY <1>11, <1>12 DEF Same, Keeps
<1>16. Settled(b) => Holds(c)
    <2> SUFFICES ASSUME Settled(b) PROVE Holds(c)
        OBVIOUS
    <2>1. basis = here
        BY <1>3, <1>4, ReservedCostType
    <2>2. c.units = m.units
        BY <1>9, <1>15 DEF Keeps
    <2>3. QED BY <2>1, <2>2, <1>9, <1>10, <1>15 DEF Holds
<1>17. Backed(c)
    BY <1>15, <1>16, KeptFacts DEF Backed
<1>18. PayoutsBacked(b, v) => PayoutsBacked(c, v)
    <2>1. c.due = b.due /\ here = Larger(0, b.cash + v - b.due)
        BY <1>2, <1>4, <1>15 DEF Keeps
    <2>2. QED BY <2>1, <1>15, KeptFacts DEF PayoutsBacked
<1>19. QED BY <1>2, <1>4, <1>8, <1>10, <1>14, <1>15, <1>16, <1>17, <1>18

--------------------------------------------------------------------------------
(* Steps that change one investor or one request. *)

\* One investor changes.
LEMMA OneInvestorChanges ==
    ASSUME NEW I, InvestorsOK(I), NEW i \in Investors, NEW J, DOMAIN J = Investors, InvestorOK(J[i]),
           \A k \in Investors \ {i} : J[k] = I[k]
    PROVE  /\ InvestorsOK(J)
           /\ UnitsOwned(J) = UnitsOwned(I) - I[i].units + J[i].units
           /\ FeesCharged(J) = FeesCharged(I) - I[i].fees + J[i].fees
<1> DEFINE f == [k \in Investors |-> I[k].units]
           h == [k \in Investors |-> J[k].units]
           g == [k \in Investors |-> I[k].fees]
           m == [k \in Investors |-> J[k].fees]
<1>1. InvestorsOK(J)
    BY DEF InvestorsOK
<1>2. \A k \in Investors : /\ I[k].units \in Nat /\ J[k].units \in Nat
                           /\ I[k].fees \in Nat /\ J[k].fees \in Nat
    BY <1>1 DEF InvestorsOK, InvestorOK
<1>3. /\ \A k \in Investors : f[k] \in Int /\ h[k] \in Int
      /\ \A k \in Investors : g[k] \in Int /\ m[k] \in Int
    BY <1>2
<1>4. /\ \A k \in Investors \ {i} : f[k] = h[k]
      /\ \A k \in Investors \ {i} : g[k] = m[k]
    OBVIOUS
<1>5. f[i] = I[i].units /\ h[i] = J[i].units /\ g[i] = I[i].fees /\ m[i] = J[i].fees
    OBVIOUS
<1>6. /\ UnitsOwned(I) = SumFunctionOnSet(f, Investors) /\ UnitsOwned(J) = SumFunctionOnSet(h, Investors)
      /\ FeesCharged(I) = SumFunctionOnSet(g, Investors) /\ FeesCharged(J) = SumFunctionOnSet(m, Investors)
    BY DEF UnitsOwned, FeesCharged
<1> HIDE DEF f, g, h, m
<1>7. SumFunctionOnSet(h, Investors) = SumFunctionOnSet(f, Investors) - f[i] + h[i]
    BY <1>3, <1>4, SumChange, ManyAreFinite
<1>8. SumFunctionOnSet(m, Investors) = SumFunctionOnSet(g, Investors) - g[i] + m[i]
    BY <1>3, <1>4, SumChange, ManyAreFinite
<1>9. QED BY <1>1, <1>5, <1>6, <1>7, <1>8

\* The numbers, the settlement and who of it is unpaid are the same.
SamePrices(b, c) ==
    /\ c.cash = b.cash /\ c.equity = b.equity /\ c.nav = b.nav /\ c.units = b.units /\ c.due = b.due
    /\ c.halfMinted = b.halfMinted /\ c.settlement = b.settlement /\ Unpaid(c) = Unpaid(b)
\* So is what backs them.
LEMMA PricesAreBacked ==
    ASSUME NEW b, NEW c, SamePrices(b, c), NEW v
    PROVE  (Backed(b) => Backed(c)) /\ (PayoutsBacked(b, v) => PayoutsBacked(c, v))
<1>1. (Priced(c) <=> Priced(b)) /\ Owed(c) = Owed(b) /\ (Settled(c) <=> Settled(b)) /\ (Holds(c) <=> Holds(b))
    BY DEF SamePrices, Priced, Owed, Settled, Holds
<1>2. QED BY <1>1 DEF SamePrices, Backed, PayoutsBacked

\* Money is allocated.
LEMMA AllocationIsOK ==
    ASSUME NEW b, BookOK(b), NEW i \in Investors, NEW amount \in Nat,
           NEW c, Same([b EXCEPT !.investors[i].pending = @ + amount, !.investors[i].deposited = @ + amount], c)
    PROVE  BookOK(c) /\ SamePrices(b, c)
<1> DEFINE I == b.investors
           J == c.investors
<1>1. Shape(b) /\ InvestorsOK(I) /\ InvestorOK(I[i])
    BY DEF BookOK, InvestorsOK
<1>2. /\ DOMAIN J = Investors /\ \A k \in Investors \ {i} : J[k] = I[k]
      /\ DOMAIN J[i] = DOMAIN I[i] /\ J[i].pending = I[i].pending + amount
      /\ J[i].units = I[i].units /\ J[i].fees = I[i].fees /\ J[i].lots = I[i].lots
    BY <1>1 DEF Same, Keeps, Shape, BookFields, InvestorsOK, InvestorOK
<1>3. InvestorOK(J[i])
    BY <1>1, <1>2 DEF InvestorOK
<1>4. /\ Shape(c) /\ c.cash = b.cash /\ c.equity = b.equity /\ c.nav = b.nav /\ c.units = b.units /\ c.due = b.due
      /\ c.halfMinted = b.halfMinted /\ c.settlement = b.settlement /\ c.withdrawals = b.withdrawals
      /\ c.rate = b.rate /\ c.feePaid = b.feePaid
    BY <1>1 DEF Same, Keeps, Shape, BookFields
<1>5. SamePrices(b, c)
    BY <1>4 DEF SamePrices, Unpaid
<1> HIDE DEF J
<1>6. InvestorsOK(J) /\ UnitsOwned(J) = UnitsOwned(I) /\ FeesCharged(J) = FeesCharged(I)
    <2>1. /\ InvestorsOK(J)
          /\ UnitsOwned(J) = UnitsOwned(I) - I[i].units + J[i].units
          /\ FeesCharged(J) = FeesCharged(I) - I[i].fees + J[i].fees
        BY <1>1, <1>2, <1>3, OneInvestorChanges
    <2>2. UnitsOwned(I) \in Int /\ FeesCharged(I) \in Int /\ I[i].units \in Int /\ I[i].fees \in Int
        BY <1>1 DEF BookOK, NumbersOK, InvestorOK
    <2>3. QED BY <2>1, <2>2, <1>2
<1>7. Covered(J, b.withdrawals)
    <2> SUFFICES ASSUME NEW k \in Investors
                 PROVE  UnitsAsked(b.withdrawals, k) <= J[k].units /\ CashAsked(b.withdrawals, k) <= J[k].pending
        BY DEF Covered
    <2>1. /\ UnitsAsked(b.withdrawals, k) <= I[k].units /\ CashAsked(b.withdrawals, k) <= I[k].pending
          /\ CashAsked(b.withdrawals, k) \in Nat /\ I[k].pending \in Nat
        BY AskedOfAll DEF BookOK, Covered, InvestorsOK, InvestorOK
    <2>2. J[k].units = I[k].units /\ I[k].pending <= J[k].pending /\ J[k].pending \in Int
        BY <1>2, <2>1
    <2>3. QED BY <2>1, <2>2
<1>8. NumbersOK(c)
    BY <1>4 DEF BookOK, NumbersOK
<1>9. QED BY <1>4, <1>5, <1>6, <1>7, <1>8 DEF BookOK, J

\* All but the investors, the requests and the journal.
SameNumbers(b, c) ==
    /\ Shape(c)
    /\ c.rate = b.rate /\ c.cash = b.cash /\ c.equity = b.equity /\ c.nav = b.nav /\ c.units = b.units
    /\ c.due = b.due /\ c.feePaid = b.feePaid /\ c.halfMinted = b.halfMinted /\ c.settlement = b.settlement
\* One request changes that is not part of a settlement.
LEMMA OneRequestChanges ==
    ASSUME NEW b, BookOK(b), NEW w \in Withdrawals, w \notin b.settlement.ids,
           NEW c, SameNumbers(b, c), OnlyAt(b.withdrawals, c.withdrawals, w), WithdrawalOK(c.withdrawals[w]),
           InvestorsOK(c.investors),
           UnitsOwned(c.investors) = UnitsOwned(b.investors), FeesCharged(c.investors) = FeesCharged(b.investors),
           \A i \in Investors :
              /\ UnitsAsked(b.withdrawals, i) - UnitsBy(b.withdrawals[w], i) + UnitsBy(c.withdrawals[w], i)
                 <= c.investors[i].units
              /\ CashAsked(b.withdrawals, i) - CashBy(b.withdrawals[w], i) + CashBy(c.withdrawals[w], i)
                 <= c.investors[i].pending
    PROVE  BookOK(c) /\ SamePrices(b, c)
<1> DEFINE W == b.withdrawals
           V == c.withdrawals
<1>1. WithdrawalsOK(W) /\ SettlementOK(b.settlement, W)
    BY DEF BookOK
<1>2. WithdrawalsOK(V) /\ Covered(c.investors, V)
    <2>1. \A i \in Investors :
              /\ WithdrawalsOK(V)
              /\ UnitsAsked(V, i) = UnitsAsked(W, i) - UnitsBy(W[w], i) + UnitsBy(V[w], i)
              /\ CashAsked(V, i) = CashAsked(W, i) - CashBy(W[w], i) + CashBy(V[w], i)
        BY <1>1, OneAsksOtherwise
    <2>2. WithdrawalsOK(V)
        BY <1>1 DEF WithdrawalsOK, OnlyAt
    <2>3. QED BY <2>1, <2>2 DEF Covered
<1>3. \A u \in b.settlement.ids : V[u] = W[u]
    BY <1>1 DEF OnlyAt, SettlementOK
<1>4. SettlementOK(c.settlement, V)
    <2>1. c.settlement = b.settlement
        BY DEF SameNumbers
    <2>2. SettlementOK(b.settlement, V)
        BY <1>1, <1>3 DEF SettlementOK
    <2>3. QED BY <2>1, <2>2
<1>5. Unpaid(c) = Unpaid(b)
    BY <1>3 DEF Unpaid, SameNumbers
<1>6. SamePrices(b, c)
    BY <1>5 DEF SamePrices, SameNumbers
<1>7. NumbersOK(c) /\ Shape(c) /\ UnitsOwned(c.investors) = c.units /\ FeesCharged(c.investors) = c.due + c.feePaid
    BY DEF BookOK, NumbersOK, SameNumbers
<1>8. QED BY <1>2, <1>4, <1>6, <1>7 DEF BookOK

\* A request that has not been made, was cancelled or was paid asks for nothing.
LEMMA ClosedAskNothing ==
    ASSUME NEW x, x.status \notin Open, NEW i
    PROVE  UnitsBy(x, i) = 0 /\ CashBy(x, i) = 0
BY DEF UnitsBy, CashBy

\* What is asked for is a part of what is there.
LEMMA AskedIsCovered ==
    ASSUME NEW b, BookOK(b), NEW i \in Investors, NEW w \in Withdrawals
    PROVE  LET W == b.withdrawals IN
              /\ UnitsAsked(W, i) \in Nat /\ CashAsked(W, i) \in Nat
              /\ UnitsBy(W[w], i) \in Nat /\ CashBy(W[w], i) \in Nat
              /\ UnitsAsked(W, i) <= b.investors[i].units /\ CashAsked(W, i) <= b.investors[i].pending
              /\ InvestorOK(b.investors[i]) /\ b.investors[i].units \in Nat /\ b.investors[i].pending \in Nat
              /\ b.investors[i].fees \in Nat
<1>1. WithdrawalsOK(b.withdrawals) /\ InvestorOK(b.investors[i]) /\ Covered(b.investors, b.withdrawals)
    BY DEF BookOK, InvestorsOK
<1>2. QED BY <1>1, AskedOfAll DEF Covered, InvestorOK

\* Something is asked back: shares, or money that did not become shares.
LEMMA RequestIsOK ==
    ASSUME NEW b, BookOK(b), NEW w \in Withdrawals, b.withdrawals[w].status = "none", NEW i \in Investors,
           NEW kind \in {"UNITS", "PENDING"}, NEW value \in Nat,
           kind = "UNITS" => value + ReservedUnits(b, i) <= b.investors[i].units,
           kind = "PENDING" => value + ReservedCash(b, i) <= b.investors[i].pending,
           NEW c, c = [b EXCEPT !.withdrawals[w] =
                         [NoWithdrawal EXCEPT !.status = "REQUESTED", !.wallet = i, !.kind = kind,
                            !.units = IF kind = "UNITS" THEN value ELSE 0,
                            !.amount = IF kind = "PENDING" THEN value ELSE 0]]
    PROVE  BookOK(c) /\ SamePrices(b, c)
<1> DEFINE W == b.withdrawals
<1>1. PICK x : x = [NoWithdrawal EXCEPT !.status = "REQUESTED", !.wallet = i, !.kind = kind,
                      !.units = IF kind = "UNITS" THEN value ELSE 0, !.amount = IF kind = "PENDING" THEN value ELSE 0]
    OBVIOUS
<1>2. /\ DOMAIN x = {"status", "wallet", "kind", "units", "amount", "debit", "credit"}
      /\ x.status = "REQUESTED" /\ x.wallet = i /\ x.kind = kind
      /\ x.units = (IF kind = "UNITS" THEN value ELSE 0) /\ x.amount = (IF kind = "PENDING" THEN value ELSE 0)
    BY <1>1 DEF NoWithdrawal
<1>3. WithdrawalOK(x)
    BY <1>2 DEF WithdrawalOK
<1>4. Shape(b) /\ InvestorsOK(b.investors) /\ SettlementOK(b.settlement, W) /\ DOMAIN W = Withdrawals
    BY DEF BookOK, WithdrawalsOK
<1>5. SameNumbers(b, c) /\ OnlyAt(W, c.withdrawals, w) /\ c.withdrawals[w] = x /\ c.investors = b.investors
    BY <1>1, <1>4 DEF SameNumbers, Shape, BookFields, OnlyAt
<1>6. w \notin b.settlement.ids
    BY <1>4 DEF SettlementOK
<1>7. \A k \in Investors : /\ UnitsAsked(W, k) - UnitsBy(W[w], k) + UnitsBy(x, k) <= b.investors[k].units
                           /\ CashAsked(W, k) - CashBy(W[w], k) + CashBy(x, k) <= b.investors[k].pending
    <2> TAKE k \in Investors
    <2>1. UnitsBy(W[w], k) = 0 /\ CashBy(W[w], k) = 0
        BY ClosedAskNothing DEF Open
    <2>2. /\ UnitsAsked(W, k) \in Nat /\ CashAsked(W, k) \in Nat
          /\ UnitsAsked(W, k) <= b.investors[k].units /\ CashAsked(W, k) <= b.investors[k].pending
          /\ b.investors[k].units \in Nat /\ b.investors[k].pending \in Nat
        BY AskedIsCovered
    <2>3. /\ UnitsBy(x, k) = IF k = i /\ kind = "UNITS" THEN value ELSE 0
          /\ CashBy(x, k) = IF k = i /\ kind = "PENDING" THEN value ELSE 0
        BY <1>2 DEF UnitsBy, CashBy, Open
    <2>4. /\ k = i /\ kind = "UNITS" => value + UnitsAsked(W, k) <= b.investors[k].units
          /\ k = i /\ kind = "PENDING" => value + CashAsked(W, k) <= b.investors[k].pending
        BY ReservedIsAsked
    <2>5. UnitsAsked(W, k) - UnitsBy(W[w], k) + UnitsBy(x, k) <= b.investors[k].units
        <3>1. CASE k = i /\ kind = "UNITS"
            BY <3>1, <2>1, <2>2, <2>3, <2>4
        <3>2. CASE ~ (k = i /\ kind = "UNITS")
            BY <3>2, <2>1, <2>2, <2>3
        <3>3. QED BY <3>1, <3>2
    <2>6. CashAsked(W, k) - CashBy(W[w], k) + CashBy(x, k) <= b.investors[k].pending
        <3>1. CASE k = i /\ kind = "PENDING"
            BY <3>1, <2>1, <2>2, <2>3, <2>4
        <3>2. CASE ~ (k = i /\ kind = "PENDING")
            BY <3>2, <2>1, <2>2, <2>3
        <3>3. QED BY <3>1, <3>2
    <2>7. QED BY <2>5, <2>6
<1>8. QED BY <1>3, <1>4, <1>5, <1>6, <1>7, OneRequestChanges

\* A request is cancelled before its cutoff.
LEMMA CancellationIsOK ==
    ASSUME NEW b, BookOK(b), NEW w \in Withdrawals, b.withdrawals[w].status = "REQUESTED",
           NEW c, c = [b EXCEPT !.withdrawals[w].status = "CANCELLED"]
    PROVE  BookOK(c) /\ SamePrices(b, c)
<1> DEFINE W == b.withdrawals
<1>1. PICK x : x = [W[w] EXCEPT !.status = "CANCELLED"]
    OBVIOUS
<1>2. /\ Shape(b) /\ InvestorsOK(b.investors) /\ SettlementOK(b.settlement, W) /\ WithdrawalOK(W[w])
      /\ DOMAIN W = Withdrawals
    BY DEF BookOK, WithdrawalsOK
<1>3. WithdrawalOK(x) /\ x.status = "CANCELLED"
    BY <1>1, <1>2 DEF WithdrawalOK
<1>4. SameNumbers(b, c) /\ OnlyAt(W, c.withdrawals, w) /\ c.withdrawals[w] = x /\ c.investors = b.investors
    BY <1>1, <1>2 DEF SameNumbers, Shape, BookFields, OnlyAt
<1>5. w \notin b.settlement.ids
    BY <1>2 DEF SettlementOK
<1>6. \A k \in Investors : /\ UnitsAsked(W, k) - UnitsBy(W[w], k) + UnitsBy(x, k) <= b.investors[k].units
                           /\ CashAsked(W, k) - CashBy(W[w], k) + CashBy(x, k) <= b.investors[k].pending
    <2> TAKE k \in Investors
    <2>1. UnitsBy(x, k) = 0 /\ CashBy(x, k) = 0
        BY <1>3, ClosedAskNothing DEF Open
    <2>2. /\ UnitsAsked(W, k) \in Nat /\ CashAsked(W, k) \in Nat
          /\ UnitsBy(W[w], k) \in Nat /\ CashBy(W[w], k) \in Nat
          /\ UnitsAsked(W, k) <= b.investors[k].units /\ CashAsked(W, k) <= b.investors[k].pending
          /\ b.investors[k].units \in Nat /\ b.investors[k].pending \in Nat
        BY AskedIsCovered
    <2>3. QED BY <2>1, <2>2
<1>7. QED BY <1>2, <1>3, <1>4, <1>5, <1>6, OneRequestChanges

\* One field of a request is written.
Write(b, w, f, v) == [b EXCEPT !.withdrawals[w][f] = v]
Written(b, c, w, f, v) ==
    /\ SameNumbers(b, c) /\ c.investors = b.investors /\ OnlyAt(b.withdrawals, c.withdrawals, w)
    /\ DOMAIN c.withdrawals[w] = DOMAIN b.withdrawals[w]
    /\ c.withdrawals[w][f] = v
    /\ \A g \in DOMAIN b.withdrawals[w] : g # f => c.withdrawals[w][g] = b.withdrawals[w][g]
\* Writing one field leaves the others.
LEMMA FieldWritten ==
    ASSUME NEW b, Shape(b), DOMAIN b.withdrawals = Withdrawals, NEW w \in Withdrawals,
           NEW f \in DOMAIN b.withdrawals[w], NEW v
    PROVE  Written(b, Write(b, w, f, v), w, f, v)
<1>1. PICK c : c = Write(b, w, f, v)
    OBVIOUS
<1>2. PICK x : x = [b.withdrawals[w] EXCEPT ![f] = v]
    OBVIOUS
<1>3. c = [b EXCEPT !.withdrawals[w] = x]
    BY <1>1, <1>2 DEF Write
<1>4. c.withdrawals[w] = x /\ OnlyAt(b.withdrawals, c.withdrawals, w)
    BY <1>3 DEF Shape, BookFields, OnlyAt
<1>5. SameNumbers(b, c) /\ c.investors = b.investors
    BY <1>3 DEF SameNumbers, Shape, BookFields
<1>6. QED BY <1>1, <1>2, <1>4, <1>5 DEF Written

\* A request is paid, and nothing else changes.
PaidIn(b, c, w, amount) ==
    /\ SameNumbers(b, c) /\ c.investors = b.investors /\ OnlyAt(b.withdrawals, c.withdrawals, w)
    /\ DOMAIN c.withdrawals[w] = DOMAIN b.withdrawals[w]
    /\ c.withdrawals[w].status = "PAID" /\ c.withdrawals[w].amount = amount
    /\ c.withdrawals[w].units = b.withdrawals[w].units /\ c.withdrawals[w].wallet = b.withdrawals[w].wallet
    /\ c.withdrawals[w].kind = b.withdrawals[w].kind
\* Paid() does just that.
LEMMA PaidShape ==
    ASSUME NEW b, Shape(b), DOMAIN b.withdrawals = Withdrawals, NEW w \in Withdrawals,
           DOMAIN b.withdrawals[w] = {"status", "wallet", "kind", "units", "amount", "debit", "credit"}, NEW amount
    PROVE  PaidIn(b, Paid(b, w, amount), w, amount)
<1>1. PICK c1 : c1 = Write(b, w, "status", "PAID")
    OBVIOUS
<1>2. PICK c2 : c2 = Write(c1, w, "amount", amount)
    OBVIOUS
<1>3. PICK c3 : c3 = Write(c2, w, "debit", TRUE)
    OBVIOUS
<1>4. PICK v : v = (amount # 0)
    OBVIOUS
<1>5. PICK c : c = Write(c3, w, "credit", v)
    OBVIOUS
<1>6. c = Paid(b, w, amount)
    BY <1>1, <1>2, <1>3, <1>4, <1>5 DEF Paid, Write
<1>7. Written(b, c1, w, "status", "PAID")
    BY <1>1, FieldWritten
<1>8. Written(c1, c2, w, "amount", amount)
    <2>1. Shape(c1) /\ DOMAIN c1.withdrawals = Withdrawals /\ "amount" \in DOMAIN c1.withdrawals[w]
        BY <1>7 DEF Written, SameNumbers, OnlyAt
    <2>2. QED BY <2>1, <1>2, FieldWritten
<1>9. Written(c2, c3, w, "debit", TRUE)
    <2>1. Shape(c2) /\ DOMAIN c2.withdrawals = Withdrawals /\ "debit" \in DOMAIN c2.withdrawals[w]
        BY <1>7, <1>8 DEF Written, SameNumbers, OnlyAt
    <2>2. QED BY <2>1, <1>3, FieldWritten
<1>10. Written(c3, c, w, "credit", v)
    <2>1. Shape(c3) /\ DOMAIN c3.withdrawals = Withdrawals /\ "credit" \in DOMAIN c3.withdrawals[w]
        BY <1>7, <1>8, <1>9 DEF Written, SameNumbers, OnlyAt
    <2>2. QED BY <2>1, <1>5, FieldWritten
<1>11. SameNumbers(b, c) /\ c.investors = b.investors
    BY <1>7, <1>8, <1>9, <1>10 DEF Written, SameNumbers
<1>12. OnlyAt(b.withdrawals, c.withdrawals, w)
    BY <1>7, <1>8, <1>9, <1>10 DEF Written, OnlyAt
<1>13. /\ DOMAIN c.withdrawals[w] = DOMAIN b.withdrawals[w]
       /\ c.withdrawals[w].status = "PAID" /\ c.withdrawals[w].amount = amount
       /\ c.withdrawals[w].units = b.withdrawals[w].units /\ c.withdrawals[w].wallet = b.withdrawals[w].wallet
       /\ c.withdrawals[w].kind = b.withdrawals[w].kind
    BY <1>7, <1>8, <1>9, <1>10 DEF Written
<1>14. QED BY <1>6, <1>11, <1>12, <1>13 DEF PaidIn

\* An investor gets back what was pending.
PaidBack(b, i, amount) == [b EXCEPT !.investors[i].pending = @ - amount, !.investors[i].paid = @ + amount]
\* Money that did not become shares is paid back.
LEMMA ReturnIsOK ==
    ASSUME NEW b, BookOK(b), NEW w \in Withdrawals, NEW i \in Investors, NEW amount \in Nat,
           b.withdrawals[w].status = "REQUESTED", b.withdrawals[w].kind = "PENDING",
           b.withdrawals[w].wallet = i, b.withdrawals[w].amount = amount, amount <= b.investors[i].pending,
           NEW d, d = PaidBack(b, i, amount), NEW c, Same(Paid(d, w, amount), c)
    PROVE  BookOK(c) /\ SamePrices(b, c)
<1> DEFINE W == b.withdrawals
           I == b.investors
           J == c.investors
<1>1. /\ Shape(b) /\ InvestorsOK(I) /\ InvestorOK(I[i]) /\ SettlementOK(b.settlement, W) /\ WithdrawalOK(W[w])
      /\ DOMAIN W = Withdrawals
    BY DEF BookOK, WithdrawalsOK, InvestorsOK
<1>2. /\ Shape(d) /\ DOMAIN d.investors = Investors /\ \A k \in Investors \ {i} : d.investors[k] = I[k]
      /\ DOMAIN d.investors[i] = DOMAIN I[i] /\ d.investors[i].pending = I[i].pending - amount
      /\ d.investors[i].units = I[i].units /\ d.investors[i].fees = I[i].fees /\ d.investors[i].lots = I[i].lots
    BY <1>1 DEF PaidBack, Shape, BookFields, InvestorsOK, InvestorOK
<1>3. SameNumbers(b, d) /\ d.withdrawals = W
    BY <1>1 DEF PaidBack, SameNumbers, Shape, BookFields
<1>4. PICK e : e = Paid(d, w, amount)
    OBVIOUS
<1>5. Same(e, c)
    BY <1>4
<1>6. PICK x : x = e.withdrawals[w]
    OBVIOUS
<1>7. /\ SameNumbers(d, e) /\ e.investors = d.investors /\ OnlyAt(W, e.withdrawals, w)
      /\ DOMAIN x = DOMAIN W[w] /\ x.status = "PAID" /\ x.units = W[w].units /\ x.amount = amount
      /\ x.wallet = W[w].wallet
    <2>1. /\ Shape(d) /\ DOMAIN d.withdrawals = Withdrawals
          /\ DOMAIN d.withdrawals[w] = {"status", "wallet", "kind", "units", "amount", "debit", "credit"}
        BY <1>1, <1>2, <1>3 DEF WithdrawalOK
    <2>2. PaidIn(d, e, w, amount)
        BY <2>1, <1>4, PaidShape
    <2>3. QED BY <2>2, <1>3, <1>6 DEF PaidIn
<1>8. WithdrawalOK(x)
    BY <1>1, <1>7 DEF WithdrawalOK
<1>9. SameNumbers(b, e)
    BY <1>3, <1>7 DEF SameNumbers
<1>10. SameNumbers(b, c) /\ J = d.investors /\ OnlyAt(W, c.withdrawals, w) /\ c.withdrawals[w] = x
    BY <1>5, <1>6, <1>7, <1>9 DEF SameNumbers, Same, Keeps
<1> HIDE DEF J
<1>11. I[i].pending \in Nat /\ I[i].units \in Nat /\ I[i].fees \in Nat
    BY <1>1 DEF InvestorOK
<1>12. InvestorOK(J[i])
    BY <1>1, <1>2, <1>10, <1>11 DEF InvestorOK
<1>13. InvestorsOK(J) /\ UnitsOwned(J) = UnitsOwned(I) /\ FeesCharged(J) = FeesCharged(I)
    <2>1. /\ InvestorsOK(J)
          /\ UnitsOwned(J) = UnitsOwned(I) - I[i].units + J[i].units
          /\ FeesCharged(J) = FeesCharged(I) - I[i].fees + J[i].fees
        <3>1. DOMAIN J = Investors /\ \A k \in Investors \ {i} : J[k] = I[k]
            BY <1>2, <1>10
        <3>2. QED BY <3>1, <1>1, <1>12, OneInvestorChanges
    <2>2. UnitsOwned(I) \in Int /\ FeesCharged(I) \in Int
        BY DEF BookOK, NumbersOK
    <2>3. QED BY <2>1, <2>2, <1>2, <1>10, <1>11
<1>14. w \notin b.settlement.ids
    BY <1>1 DEF SettlementOK
<1>15. \A k \in Investors : /\ UnitsAsked(W, k) - UnitsBy(W[w], k) + UnitsBy(x, k) <= J[k].units
                            /\ CashAsked(W, k) - CashBy(W[w], k) + CashBy(x, k) <= J[k].pending
    <2> TAKE k \in Investors
    <2>1. UnitsBy(x, k) = 0 /\ CashBy(x, k) = 0
        BY <1>7, ClosedAskNothing DEF Open
    <2>2. /\ UnitsAsked(W, k) \in Nat /\ CashAsked(W, k) \in Nat
          /\ UnitsBy(W[w], k) \in Nat /\ CashBy(W[w], k) \in Nat
          /\ UnitsAsked(W, k) <= I[k].units /\ CashAsked(W, k) <= I[k].pending
          /\ I[k].units \in Nat /\ I[k].pending \in Nat
        BY AskedIsCovered
    <2>3. CASE k = i
        <3>1. CashBy(W[w], k) = amount
            BY <2>3 DEF CashBy, Open
        <3>2. J[k].units = I[k].units /\ J[k].pending = I[k].pending - amount
            BY <2>3, <1>2, <1>10
        <3>3. QED BY <3>1, <3>2, <2>1, <2>2
    <2>4. CASE k # i
        <3>1. J[k] = I[k]
            BY <2>4, <1>2, <1>10
        <3>2. QED BY <3>1, <2>1, <2>2
    <2>5. QED BY <2>3, <2>4
<1>16. BookOK(c) /\ SamePrices(b, c)
    BY <1>8, <1>10, <1>13, <1>14, <1>15, OneRequestChanges DEF J
<1>17. QED BY <1>16

--------------------------------------------------------------------------------
(* Cash, rates and settlements. *)

\* Without a settlement, or with one that has no price, nobody is owed a payout; and with one
\* that has no price the book need not hold.
LEMMA NothingOwed ==
    ASSUME NEW b, ~Priced(b), NEW v
    PROVE  PayoutsBacked(b, v) /\ (b.settlement # NoSettlement => Backed(b))
BY DEF PayoutsBacked, Backed, Settled

\* Cash is moved to the venue, or back.
LEMMA TransferIsOK ==
    ASSUME NEW b, BookOK(b), NEW delta \in Int, NEW v \in Int
    PROVE  LET c == Transferred(b, delta) IN
              /\ BookOK(c)
              /\ Backed(b) => Backed(c)
              /\ PayoutsBacked(b, v) => PayoutsBacked(c, v - delta)
<1>1. PICK c : c = Transferred(b, delta)
    OBVIOUS
<1>2. PICK d : d = [b EXCEPT !.cash = @ + delta]
    OBVIOUS
<1>3. Shape(b) /\ b.cash \in Int /\ b.due \in Nat /\ b.equity \in Int /\ b.nav \in Int /\ (b.units = 0 => b.nav >= 0)
    BY DEF BookOK, NumbersOK
<1>4. Keeps(b, d) /\ d.cash = b.cash + delta /\ d.equity = b.equity /\ d.nav = b.nav
    BY <1>2, <1>3 DEF Keeps, Shape, BookFields
<1>5. Same(d, c)
    <2>1. Shape(d)
        BY <1>4 DEF Keeps
    <2>2. QED BY <2>1, <1>1, <1>2, RecordingKeeps DEF Transferred, Recorded
<1>6. Keeps(b, c) /\ c.cash = b.cash + delta /\ c.equity = b.equity /\ c.nav = b.nav
    BY <1>4, <1>5 DEF Same, Keeps
<1>7. BookOK(c)
    BY <1>3, <1>6, KeptIsOK
<1>8. c.units = b.units /\ c.due = b.due /\ c.halfMinted = b.halfMinted
    BY <1>6 DEF Keeps
<1>9. Backed(b) => Backed(c)
    BY <1>6, <1>8, KeptFacts DEF Backed, Holds
<1>10. c.cash + (v - delta) - c.due = b.cash + v - b.due
    BY <1>3, <1>6, <1>8
<1>11. PayoutsBacked(b, v) => PayoutsBacked(c, v - delta)
    BY <1>6, <1>10, KeptFacts DEF PayoutsBacked
<1>12. QED BY <1>1, <1>7, <1>9, <1>11

\* The book after payFees().
FeesPaid(b) == [b EXCEPT !.cash = @ - b.due, !.due = 0, !.feePaid = @ + b.due]
\* The fees due are paid.
LEMMA FeePaymentIsOK ==
    ASSUME NEW b, BookOK(b), NEW c, Same(FeesPaid(b), c)
    PROVE  BookOK(c) /\ (Backed(b) => Backed(c)) /\ (Priced(c) <=> Priced(b))
<1>1. PICK d : d = FeesPaid(b)
    OBVIOUS
<1>2. Shape(b) /\ b.cash \in Int /\ b.due \in Nat /\ b.feePaid \in Nat
    BY DEF BookOK, NumbersOK
<1>3. /\ Shape(d) /\ d.cash = b.cash - b.due /\ d.due = 0 /\ d.feePaid = b.feePaid + b.due
      /\ d.rate = b.rate /\ d.equity = b.equity /\ d.units = b.units /\ d.nav = b.nav
      /\ d.halfMinted = b.halfMinted /\ d.investors = b.investors /\ d.withdrawals = b.withdrawals
      /\ d.settlement = b.settlement
    BY <1>1, <1>2 DEF FeesPaid, Shape, BookFields
<1>4. NumbersOK(d)
    BY <1>2, <1>3 DEF BookOK, NumbersOK
<1>5. FeesCharged(d.investors) = d.due + d.feePaid
    BY <1>2, <1>3 DEF BookOK
<1>6. BookOK(d)
    BY <1>3, <1>4, <1>5 DEF BookOK
<1>7. (Backed(b) => Backed(d)) /\ (Priced(d) <=> Priced(b))
    BY <1>3 DEF Backed, Holds, Settled, Priced, Unpaid
<1>8. Same(d, c)
    BY <1>1
<1>9. QED BY <1>6, <1>7, <1>8, SameIsOK, KeptFacts DEF Same

\* The performance fee is changed.
LEMMA RateIsOK ==
    ASSUME NEW b, BookOK(b), NEW rate \in 0 .. RateCap, NEW c, Same([b EXCEPT !.rate = rate], c)
    PROVE  BookOK(c) /\ (Backed(b) => Backed(c)) /\ (Priced(c) <=> Priced(b))
<1>1. PICK d : d = [b EXCEPT !.rate = rate]
    OBVIOUS
<1>2. Shape(b)
    BY DEF BookOK
<1>3. /\ Shape(d) /\ d.cash = b.cash /\ d.due = b.due /\ d.feePaid = b.feePaid
      /\ d.rate = rate /\ d.equity = b.equity /\ d.units = b.units /\ d.nav = b.nav
      /\ d.halfMinted = b.halfMinted /\ d.investors = b.investors /\ d.withdrawals = b.withdrawals
      /\ d.settlement = b.settlement
    BY <1>1, <1>2 DEF Shape, BookFields
<1>4. BookOK(d)
    BY <1>3 DEF BookOK, NumbersOK
<1>5. (Backed(b) => Backed(d)) /\ (Priced(d) <=> Priced(b))
    BY <1>3 DEF Backed, Holds, Settled, Priced, Unpaid
<1>6. Same(d, c)
    BY <1>1
<1>7. QED BY <1>4, <1>5, <1>6, SameIsOK, KeptFacts DEF Same

\* The book with a settlement.
Opened(b, ids, units) ==
    [b EXCEPT !.settlement = [NoSettlement EXCEPT !.ids = ids, !.units = units],
              !.withdrawals = [w \in Withdrawals |-> IF w \in ids THEN [@[w] EXCEPT !.status = "SETTLING"] ELSE @[w]]]
\* Requested redemptions are settled together.
LEMMA OpeningIsOK ==
    ASSUME NEW b, BookOK(b), NEW ids \in SUBSET Withdrawals, ids # {}, NEW units \in Nat,
           \A w \in ids : b.withdrawals[w].status = "REQUESTED" /\ b.withdrawals[w].kind = "UNITS",
           NEW c, c = Opened(b, ids, units)
    PROVE  BookOK(c) /\ ~Priced(c) /\ c.settlement # NoSettlement
<1> DEFINE W == b.withdrawals
           V == c.withdrawals
           s == c.settlement
<1>1. Shape(b) /\ WithdrawalsOK(W)
    BY DEF BookOK
<1>2. /\ Shape(c) /\ c.cash = b.cash /\ c.due = b.due /\ c.feePaid = b.feePaid
      /\ c.rate = b.rate /\ c.equity = b.equity /\ c.units = b.units /\ c.nav = b.nav
      /\ c.halfMinted = b.halfMinted /\ c.investors = b.investors
    BY <1>1 DEF Opened, Shape, BookFields
<1>3. V = [w \in Withdrawals |-> IF w \in ids THEN [W[w] EXCEPT !.status = "SETTLING"] ELSE W[w]]
    BY <1>1 DEF Opened, Shape, BookFields
<1>4. s = [NoSettlement EXCEPT !.ids = ids, !.units = units]
    BY <1>1 DEF Opened, Shape, BookFields
<1> HIDE DEF V, s
<1>5. /\ DOMAIN V = Withdrawals
      /\ \A w \in Withdrawals \ ids : V[w] = W[w]
      /\ \A w \in ids : /\ DOMAIN V[w] = DOMAIN W[w] /\ V[w].status = "SETTLING" /\ V[w].units = W[w].units
                        /\ V[w].amount = W[w].amount /\ V[w].kind = W[w].kind /\ V[w].wallet = W[w].wallet
    BY <1>1, <1>3 DEF WithdrawalsOK, WithdrawalOK
<1>6. WithdrawalsOK(V)
    BY <1>1, <1>5 DEF WithdrawalsOK, WithdrawalOK
<1>7. /\ DOMAIN s = {"ids", "units", "cost", "nav", "payouts"}
      /\ s.ids = ids /\ s.units = units /\ s.cost = 0 /\ s.nav = 0 /\ s.payouts = <<>>
    BY <1>4 DEF NoSettlement
<1>8. s # NoSettlement
    BY <1>7 DEF NoSettlement
<1>9. SettlementOK(s, V)
    BY <1>5, <1>7 DEF SettlementOK
<1>10. Covered(b.investors, V)
    <2> SUFFICES ASSUME NEW i \in Investors
                 PROVE  UnitsAsked(V, i) = UnitsAsked(W, i) /\ CashAsked(V, i) = CashAsked(W, i)
        BY DEF BookOK, Covered
    <2>1. \A w \in Withdrawals : UnitsBy(V[w], i) = UnitsBy(W[w], i) /\ CashBy(V[w], i) = CashBy(W[w], i)
        BY <1>5 DEF UnitsBy, CashBy, Open
    <2>2. QED BY <2>1, <1>1, <1>6, AskForTheSame
<1>11. BookOK(c)
    <2>1. NumbersOK(c)
        BY <1>2 DEF BookOK, NumbersOK
    <2>2. QED BY <2>1, <1>2, <1>6, <1>9, <1>10 DEF BookOK, V, s
<1>12. QED BY <1>7, <1>8, <1>11 DEF Priced, s

\* What closing positions cost is added up.
LEMMA CostIsOK ==
    ASSUME NEW b, BookOK(b), b.settlement # NoSettlement, ~Priced(b), NEW cost \in Int,
           NEW c, c = [b EXCEPT !.settlement.cost = @ + cost]
    PROVE  BookOK(c) /\ ~Priced(c) /\ c.settlement # NoSettlement
<1> DEFINE s == b.settlement
           t == c.settlement
<1>1. Shape(b) /\ SettlementOK(s, b.withdrawals)
    BY DEF BookOK
<1>2. /\ Shape(c) /\ c.cash = b.cash /\ c.due = b.due /\ c.feePaid = b.feePaid
      /\ c.rate = b.rate /\ c.equity = b.equity /\ c.units = b.units /\ c.nav = b.nav
      /\ c.halfMinted = b.halfMinted /\ c.investors = b.investors /\ c.withdrawals = b.withdrawals
    BY <1>1 DEF Shape, BookFields
<1>3. /\ DOMAIN t = DOMAIN s /\ t.ids = s.ids /\ t.units = s.units /\ t.cost = s.cost + cost
      /\ t.nav = s.nav /\ t.payouts = s.payouts
    BY <1>1 DEF Shape, BookFields, SettlementOK
<1> HIDE DEF t
<1>4. t # NoSettlement
    BY <1>1, <1>3 DEF NoSettlement, SettlementOK
<1>5. SettlementOK(t, b.withdrawals)
    BY <1>1, <1>3 DEF SettlementOK
<1>6. BookOK(c)
    <2>1. NumbersOK(c)
        BY <1>2 DEF BookOK, NumbersOK
    <2>2. QED BY <2>1, <1>2, <1>5 DEF BookOK, t
<1>7. QED BY <1>3, <1>4, <1>6 DEF Priced, t

\* A settlement is over when everybody is paid.
LEMMA ClosingIsOK ==
    ASSUME NEW b, BookOK(b), Priced(b), Unpaid(b) = {}, NEW c, c = [b EXCEPT !.settlement = NoSettlement]
    PROVE  BookOK(c) /\ ~Priced(c) /\ (Backed(b) => Backed(c))
<1>1. Shape(b)
    BY DEF BookOK
<1>2. /\ Shape(c) /\ c.cash = b.cash /\ c.due = b.due /\ c.feePaid = b.feePaid
      /\ c.rate = b.rate /\ c.equity = b.equity /\ c.units = b.units /\ c.nav = b.nav
      /\ c.halfMinted = b.halfMinted /\ c.investors = b.investors /\ c.withdrawals = b.withdrawals
      /\ c.settlement = NoSettlement
    BY <1>1 DEF Shape, BookFields
<1>3. SettlementOK(NoSettlement, c.withdrawals)
    BY DEF SettlementOK, NoSettlement
<1>4. BookOK(c)
    <2>1. NumbersOK(c)
        BY <1>2 DEF BookOK, NumbersOK
    <2>2. QED BY <2>1, <1>2, <1>3 DEF BookOK
<1>5. Settled(b)
    BY DEF Settled
<1>6. Backed(b) => Backed(c)
    BY <1>2, <1>5 DEF Backed, Holds
<1>7. ~Priced(c)
    BY <1>2 DEF Priced
<1>8. QED BY <1>4, <1>6, <1>7

\* What is owed is a natural number, and so is each payout.
LEMMA PayoutsType ==
    ASSUME NEW b, BookOK(b), Priced(b)
    PROVE  /\ Owed(b) \in Nat /\ IsFiniteSet(Unpaid(b)) /\ Unpaid(b) \subseteq Withdrawals
           /\ DOMAIN b.settlement.payouts = b.settlement.ids
           /\ \A w \in Unpaid(b) : /\ w \in b.settlement.ids /\ b.settlement.payouts[w] \in Nat
                                   /\ b.withdrawals[w].status = "SETTLING" /\ b.withdrawals[w].kind = "UNITS"
<1> DEFINE U == Unpaid(b)
           f == b.settlement.payouts
<1>1. SettlementOK(b.settlement, b.withdrawals) /\ f # <<>>
    BY DEF BookOK, Priced
<1>2. U \subseteq Withdrawals /\ U \subseteq b.settlement.ids
    BY <1>1 DEF Unpaid, SettlementOK
<1>3. IsFiniteSet(U)
    BY <1>2, ManyAreFinite, FS_Subset
<1>4. \A w \in U : f[w] \in Nat
    BY <1>1, <1>2 DEF SettlementOK
<1>5. \A w \in U : b.withdrawals[w].status = "SETTLING" /\ b.withdrawals[w].kind = "UNITS"
    BY <1>1, <1>2 DEF SettlementOK, Unpaid
<1>6. DOMAIN f = b.settlement.ids
    BY <1>1 DEF SettlementOK
<1>7. Owed(b) = SumFunctionOnSet(f, U) /\ U \in SUBSET U
    BY DEF Owed
<1> HIDE DEF U, f
<1>8. SumFunctionOnSet(f, U) \in Nat
    BY <1>3, <1>4, <1>7, SumGrows
<1>9. QED BY <1>2, <1>3, <1>4, <1>5, <1>6, <1>7, <1>8 DEF U, f

--------------------------------------------------------------------------------
(* Shares are minted. *)

\* What is admitted of an investor, and the shares it buys, cost no more than it.
LEMMA SharesAreWorthIt ==
    ASSUME NEW b, BookOK(b), b.nav \in Nat \ {0}, NEW i \in Investors
    PROVE  /\ Admitted(b, i) \in Nat /\ SharesFor(Admitted(b, i), b.nav) \in Nat
           /\ b.nav * SharesFor(Admitted(b, i), b.nav) <= Scale * Admitted(b, i)
<1>1. PICK a \in Nat : a = Admitted(b, i)
    <2>1. /\ CashAsked(b.withdrawals, i) \in Nat /\ b.investors[i].pending \in Nat
          /\ CashAsked(b.withdrawals, i) <= b.investors[i].pending
        <3>1. WithdrawalsOK(b.withdrawals) /\ InvestorOK(b.investors[i]) /\ Covered(b.investors, b.withdrawals)
            BY DEF BookOK, InvestorsOK
        <3>2. QED BY <3>1, AskedOfAll DEF Covered, InvestorOK
    <2>2. Admitted(b, i) = b.investors[i].pending - CashAsked(b.withdrawals, i)
        BY ReservedIsAsked DEF Admitted
    <2>3. QED BY <2>1, <2>2
<1>2. a * Scale \in Nat /\ a * Scale = Scale * a
    BY ScaleAssumption
<1>3. (a * Scale) \div b.nav \in Nat /\ b.nav * ((a * Scale) \div b.nav) <= a * Scale
    BY <1>2, FloorOf, FloorNat
<1>4. QED BY <1>1, <1>2, <1>3 DEF SharesFor

\* An investor who gets shares has them in a lot, and what was not admitted is what he asked back.
LEMMA OneMints ==
    ASSUME NEW b, BookOK(b), b.nav \in Nat \ {0}, NEW i \in Investors
    PROVE  LET p == MintedInvestor(b, i) IN
              /\ InvestorOK(p) /\ p.fees = b.investors[i].fees
              /\ p.units = b.investors[i].units + SharesFor(Admitted(b, i), b.nav)
              /\ p.pending = CashAsked(b.withdrawals, i)
<1>1. PICK s \in Nat : s = SharesFor(Admitted(b, i), b.nav)
    BY SharesAreWorthIt
<1>2. PICK lot : lot = [units |-> s, hwm |-> b.nav]
    OBVIOUS
<1>3. lot \in Lot /\ lot.units = s
    BY <1>2 DEF Lot
<1>4. PICK q : q = b.investors[i]
    OBVIOUS
<1>5. InvestorOK(q) /\ WithdrawalsOK(b.withdrawals)
    BY <1>4 DEF BookOK, InvestorsOK
<1>6. PICK cash \in Nat : cash = ReservedCash(b, i) /\ cash = CashAsked(b.withdrawals, i)
    BY <1>5, ReservedIsAsked, AskedOfAll
<1>7. PICK lots : lots = Append(q.lots, lot)
    OBVIOUS
<1>8. lots \in Seq(Lot) /\ UnitsIn(lots) = UnitsIn(q.lots) + s
    BY <1>3, <1>5, <1>7, LotAdded DEF InvestorOK
<1>9. PICK p : p = MintedInvestor(b, i)
    OBVIOUS
<1>10. p = [q EXCEPT !.lots = lots, !.units = @ + s, !.pending = cash]
    BY <1>1, <1>2, <1>4, <1>6, <1>7, <1>9 DEF MintedInvestor
<1>11. /\ DOMAIN p = DOMAIN q /\ p.lots = lots /\ p.units = q.units + s /\ p.pending = cash /\ p.fees = q.fees
    BY <1>5, <1>10 DEF InvestorOK
<1>12. InvestorOK(p)
    BY <1>5, <1>8, <1>11 DEF InvestorOK
<1>13. QED BY <1>1, <1>4, <1>6, <1>9, <1>11, <1>12

\* What is admitted, of all who get shares.
AdmittedOfAll(b) == SumFunctionOnSet([i \in Investors |-> Admitted(b, i)], Minted(b))

\* The book after the loop: the cash is not in it yet.
MintedFrom(b, m) ==
    /\ Shape(m)
    /\ m.rate = b.rate /\ m.cash = b.cash /\ m.equity = b.equity /\ m.nav = b.nav /\ m.due = b.due
    /\ m.feePaid = b.feePaid /\ m.halfMinted = b.halfMinted /\ m.settlement = b.settlement
    /\ m.withdrawals = b.withdrawals
    /\ m.units = b.units + SumFunctionOnSet([i \in Investors |-> SharesFor(Admitted(b, i), b.nav)], Minted(b))
    /\ DOMAIN m.investors = Investors
    /\ \A i \in Investors : m.investors[i] = IF i \in Minted(b) THEN MintedInvestor(b, i) ELSE b.investors[i]
\* The loop.
LEMMA MintingShape ==
    ASSUME NEW b, Shape(b), DOMAIN b.investors = Investors
    PROVE  MintedFrom(b, WithMinted(b))
<1>1. PICK m : m = [b EXCEPT
            !.units = @ + SumFunctionOnSet([i \in Investors |-> SharesFor(Admitted(b, i), b.nav)], Minted(b)),
            !.investors = [i \in Investors |-> IF i \in Minted(b) THEN MintedInvestor(b, i) ELSE @[i]]]
    OBVIOUS
<1>2. WithMinted(b) = RecordedAll(m, MintEvents(b))
    BY <1>1 DEF WithMinted
<1>3. MintedFrom(b, m)
    BY <1>1 DEF MintedFrom, Shape, BookFields
<1>4. Shape(m)
    BY <1>3 DEF MintedFrom
<1>5. Same(m, WithMinted(b))
    BY <1>2, <1>4, RecordingKeeps
<1>6. QED BY <1>3, <1>5 DEF MintedFrom, Same, Keeps

\* After it the shares still add up, and the new ones cost no more than what was admitted.
LEMMA MintingIsOK ==
    ASSUME NEW b, BookOK(b), b.nav \in Nat \ {0}, NEW m, MintedFrom(b, m)
    PROVE  /\ BookOK(m) /\ AdmittedOfAll(b) \in Nat
           /\ b.nav * m.units <= b.nav * b.units + Scale * AdmittedOfAll(b)
           /\ Minted(b) = {} => m.units = b.units
<1> DEFINE I == b.investors
           J == m.investors
           P == Minted(b)
           shares == [i \in Investors |-> SharesFor(Admitted(b, i), b.nav)]
           costs == [i \in Investors |-> Admitted(b, i)]
           more == [i \in Investors |-> IF i \in P THEN shares[i] ELSE 0]
           f == [i \in Investors |-> I[i].units]
           h == [i \in Investors |-> J[i].units]
           g == [i \in Investors |-> I[i].fees]
           k == [i \in Investors |-> J[i].fees]
<1>1. IsFiniteSet(Investors) /\ InvestorsOK(I) /\ WithdrawalsOK(b.withdrawals) /\ Covered(I, b.withdrawals)
    BY ManyAreFinite DEF BookOK
<1>2. P \in SUBSET Investors /\ IsFiniteSet(P)
    <2>1. P \in SUBSET Investors
        BY DEF Minted
    <2>2. QED BY <1>1, <2>1, FS_Subset
<1>3. \A i \in Investors : shares[i] \in Nat /\ costs[i] \in Nat /\ b.nav * shares[i] <= Scale * costs[i]
    BY SharesAreWorthIt
<1>4. \A i \in Investors : /\ InvestorOK(J[i]) /\ J[i].fees = I[i].fees
                           /\ J[i].units = I[i].units + more[i]
                           /\ CashAsked(b.withdrawals, i) <= J[i].pending
    <2> TAKE i \in Investors
    <2>1. CASE i \in P
        <3>1. J[i] = MintedInvestor(b, i) /\ more[i] = SharesFor(Admitted(b, i), b.nav)
            BY <2>1 DEF MintedFrom
        <3>2. CashAsked(b.withdrawals, i) \in Nat
            BY <1>1, AskedOfAll
        <3>3. QED BY <3>1, <3>2, OneMints
    <2>2. CASE i \notin P
        <3>1. J[i] = I[i] /\ more[i] = 0
            BY <2>2 DEF MintedFrom
        <3>2. InvestorOK(I[i]) /\ I[i].units \in Nat /\ CashAsked(b.withdrawals, i) <= I[i].pending
            BY <1>1 DEF InvestorsOK, InvestorOK, Covered
        <3>3. QED BY <3>1, <3>2
    <2>3. QED BY <2>1, <2>2
<1>5. InvestorsOK(J)
    BY <1>4 DEF InvestorsOK, MintedFrom
<1>6. \A i \in Investors : /\ I[i].units \in Nat /\ J[i].units \in Nat /\ more[i] \in Nat
                           /\ UnitsAsked(b.withdrawals, i) <= I[i].units
                           /\ UnitsAsked(b.withdrawals, i) \in Nat
    BY <1>1, <1>3, <1>5, AskedOfAll DEF InvestorsOK, InvestorOK, Covered
<1>7. Covered(J, m.withdrawals)
    <2>1. \A i \in Investors : UnitsAsked(b.withdrawals, i) <= J[i].units
        BY <1>4, <1>6
    <2>2. m.withdrawals = b.withdrawals
        BY DEF MintedFrom
    <2>3. QED BY <2>1, <2>2, <1>4 DEF Covered
<1>8. m.units = b.units + SumFunctionOnSet(shares, P)
    BY DEF MintedFrom
<1>9. SumFunctionOnSet(shares, P) = SumFunctionOnSet(more, Investors)
    <2>1. /\ \A i \in P : shares[i] \in Int
          /\ \A i \in Investors : more[i] = IF i \in P THEN shares[i] ELSE 0
        BY <1>2, <1>3
    <2> HIDE DEF P, shares, more
    <2>2. QED BY <1>1, <1>2, <2>1, SumOfSome
<1>10. SumFunctionOnSet(f, Investors) = SumFunctionOnSet(h, Investors) - SumFunctionOnSet(more, Investors)
    <2>1. \A i \in Investors : h[i] \in Int /\ more[i] \in Int /\ f[i] = h[i] - more[i]
        BY <1>4, <1>6
    <2> HIDE DEF f, h, more
    <2>2. QED BY <1>1, <2>1, SumDifference
<1>11. SumFunctionOnSet(g, Investors) = SumFunctionOnSet(k, Investors)
    <2>1. \A i \in Investors : g[i] = k[i]
        BY <1>4
    <2> HIDE DEF g, k
    <2>2. QED BY <1>1, <2>1, SumSame
<1>12. SumFunctionOnSet(shares, P) \in Nat /\ SumFunctionOnSet(costs, P) \in Nat
    <2>1. \A i \in P : shares[i] \in Nat /\ costs[i] \in Nat
        BY <1>2, <1>3
    <2> HIDE DEF P, shares, costs
    <2>2. P \in SUBSET P
        OBVIOUS
    <2>3. QED BY <1>2, <2>1, <2>2, SumGrows
<1>13. b.nav * SumFunctionOnSet(shares, P) <= Scale * SumFunctionOnSet(costs, P)
    <2>1. \A i \in P : shares[i] \in Int /\ costs[i] \in Int /\ b.nav * shares[i] <= Scale * costs[i]
        BY <1>2, <1>3
    <2>2. b.nav \in Int /\ Scale \in Int
        BY ScaleAssumption
    <2> HIDE DEF P, shares, costs
    <2>3. QED BY <1>2, <2>1, <2>2, SumScaled
<1>14. AdmittedOfAll(b) = SumFunctionOnSet(costs, P)
    BY DEF AdmittedOfAll
<1>15. UnitsOwned(I) = SumFunctionOnSet(f, Investors) /\ UnitsOwned(J) = SumFunctionOnSet(h, Investors)
    BY DEF UnitsOwned
<1>16. FeesCharged(J) = FeesCharged(I)
    BY <1>11 DEF FeesCharged
<1>17. P = {} => SumFunctionOnSet(shares, P) = 0
    <2> HIDE DEF shares
    <2>1. QED BY SumEmpty
<1>18. SumFunctionOnSet(h, Investors) \in Int
    <2>1. \A i \in Investors : h[i] \in Int
        BY <1>6
    <2> HIDE DEF h
    <2>2. QED BY <1>1, <2>1, SumInt
<1> HIDE DEF shares, costs, more, f, g, h, k
<1>19. b.units \in Nat /\ UnitsOwned(I) = b.units
    BY DEF BookOK, NumbersOK
<1>20. UnitsOwned(J) = m.units /\ m.units \in Nat
    BY <1>8, <1>9, <1>10, <1>12, <1>15, <1>18, <1>19
<1>21. BookOK(m)
    <2>1. NumbersOK(m)
        BY <1>20 DEF BookOK, NumbersOK, MintedFrom
    <2>2. Shape(m) /\ WithdrawalsOK(m.withdrawals) /\ SettlementOK(m.settlement, m.withdrawals)
        BY DEF BookOK, MintedFrom
    <2>3. FeesCharged(J) = m.due + m.feePaid
        BY <1>16 DEF BookOK, MintedFrom
    <2>4. QED BY <1>5, <1>7, <1>20, <2>1, <2>2, <2>3 DEF BookOK
<1>22. b.nav * m.units = b.nav * b.units + b.nav * SumFunctionOnSet(shares, P)
    BY <1>8, <1>12, <1>19
<1>23. b.nav * m.units <= b.nav * b.units + Scale * AdmittedOfAll(b)
    <2>1. /\ b.nav * b.units \in Int /\ b.nav * SumFunctionOnSet(shares, P) \in Int
          /\ Scale * SumFunctionOnSet(costs, P) \in Int
        BY <1>12, <1>19, ScaleAssumption
    <2>2. QED BY <2>1, <1>13, <1>14, <1>22
<1>24. QED BY <1>8, <1>12, <1>14, <1>17, <1>19, <1>21, <1>23

\* The book when the loop ended early.
HalfMinted(b) == [WithMinted(b) EXCEPT !.halfMinted = @ \/ Minted(b) # {}]
\* A deposit that is too small ends the loop, and what was minted has no cash in the book.
LEMMA HalfMintingIsOK ==
    ASSUME NEW b, BookOK(b), b.nav \in Nat \ {0}, Backed(b), NEW v
    PROVE  LET c == HalfMinted(b) IN
              BookOK(c) /\ Backed(c) /\ (PayoutsBacked(b, v) => PayoutsBacked(c, v))
<1>1. PICK m : m = WithMinted(b)
    OBVIOUS
<1>2. PICK c : c = HalfMinted(b)
    OBVIOUS
<1>3. MintedFrom(b, m)
    BY <1>1, MintingShape DEF BookOK, InvestorsOK
<1>4. BookOK(m) /\ (Minted(b) = {} => m.units = b.units)
    BY <1>3, MintingIsOK
<1>5. PICK half : half = (m.halfMinted \/ Minted(b) # {})
    OBVIOUS
<1>6. half \in BOOLEAN /\ (half = FALSE => b.halfMinted = FALSE /\ Minted(b) = {})
    BY <1>3, <1>5 DEF MintedFrom, BookOK, NumbersOK
<1>7. /\ Shape(c) /\ c.halfMinted = half
      /\ c.rate = m.rate /\ c.cash = m.cash /\ c.equity = m.equity /\ c.nav = m.nav /\ c.due = m.due
      /\ c.feePaid = m.feePaid /\ c.settlement = m.settlement /\ c.units = m.units
      /\ c.withdrawals = m.withdrawals /\ c.investors = m.investors
    BY <1>1, <1>2, <1>3, <1>5 DEF HalfMinted, MintedFrom, Shape, BookFields
<1>8. BookOK(c)
    <2>1. NumbersOK(c)
        BY <1>4, <1>6, <1>7 DEF BookOK, NumbersOK
    <2>2. QED BY <2>1, <1>4, <1>7 DEF BookOK
<1>9. (Priced(c) <=> Priced(b)) /\ Owed(c) = Owed(b) /\ (Settled(c) <=> Settled(b))
    BY <1>3, <1>7 DEF MintedFrom, Priced, Owed, Settled, Unpaid
<1>10. Backed(c)
    <2> SUFFICES ASSUME Settled(c), c.halfMinted = FALSE PROVE Holds(c)
        BY DEF Backed
    <2>1. b.halfMinted = FALSE /\ m.units = b.units
        BY <1>4, <1>6, <1>7
    <2>2. Holds(b)
        BY <2>1, <1>9 DEF Backed
    <2>3. QED BY <2>1, <2>2, <1>3, <1>7 DEF Holds, MintedFrom
<1>11. PayoutsBacked(b, v) => PayoutsBacked(c, v)
    BY <1>3, <1>7, <1>9 DEF PayoutsBacked, MintedFrom
<1>12. QED BY <1>2, <1>8, <1>10, <1>11

\* The book when it did not.
FullyMinted(b) == [WithMinted(b) EXCEPT !.cash = @ + AdmittedOfAll(b), !.equity = @ + AdmittedOfAll(b)]
\* With the cash of all of them the price holds as before.
LEMMA FullMintingIsOK ==
    ASSUME NEW b, BookOK(b), b.nav \in Nat \ {0}, Backed(b), NEW v \in Int
    PROVE  LET c == FullyMinted(b) IN
              BookOK(c) /\ Backed(c) /\ (PayoutsBacked(b, v) => PayoutsBacked(c, v))
<1>1. PICK m : m = WithMinted(b)
    OBVIOUS
<1>2. PICK c : c = FullyMinted(b)
    OBVIOUS
<1>3. MintedFrom(b, m)
    BY <1>1, MintingShape DEF BookOK, InvestorsOK
<1>4. BookOK(m) /\ AdmittedOfAll(b) \in Nat /\ b.nav * m.units <= b.nav * b.units + Scale * AdmittedOfAll(b)
    BY <1>3, MintingIsOK
<1>5. PICK a \in Nat : a = AdmittedOfAll(b)
    BY <1>4
<1>6. c = [m EXCEPT !.cash = @ + a, !.equity = @ + a]
    BY <1>1, <1>2, <1>5 DEF FullyMinted
<1>7. /\ Keeps(m, c) /\ c.cash = m.cash + a /\ c.equity = m.equity + a /\ c.nav = m.nav
    BY <1>3, <1>6 DEF MintedFrom, Keeps, Shape, BookFields
<1>8. m.cash \in Int /\ m.equity \in Int /\ m.nav \in Nat /\ m.units \in Nat /\ b.units \in Nat /\ b.due \in Nat
    BY <1>3, <1>4 DEF BookOK, NumbersOK, MintedFrom
<1>9. BookOK(c)
    BY <1>4, <1>5, <1>7, <1>8, KeptIsOK
<1>10. /\ c.cash = b.cash + a /\ c.equity = b.equity + a /\ c.nav = b.nav /\ c.units = m.units
       /\ c.due = b.due /\ c.halfMinted = b.halfMinted /\ b.cash \in Int /\ b.equity \in Int
    BY <1>3, <1>7, <1>8 DEF MintedFrom, Keeps
<1>11. (Priced(c) <=> Priced(b)) /\ Owed(c) = Owed(b) /\ (Settled(c) <=> Settled(b))
    BY <1>3, <1>7 DEF MintedFrom, Priced, Owed, Settled, Unpaid, Keeps
<1>12. Holds(b) => Holds(c)
    <2> SUFFICES ASSUME b.units * b.nav <= b.equity * Scale PROVE m.units * b.nav <= (b.equity + a) * Scale
        BY <1>10 DEF Holds
    <2>1. Scale \in Nat
        BY ScaleAssumption
    <2>2. (b.equity + a) * Scale = b.equity * Scale + Scale * a
        BY <2>1, <1>10
    <2>3. m.units * b.nav = b.nav * m.units /\ b.units * b.nav = b.nav * b.units
        BY <1>8
    <2>4. b.nav * m.units \in Int /\ b.nav * b.units \in Int /\ b.equity * Scale \in Int /\ Scale * a \in Int
        BY <2>1, <1>8, <1>10
    <2>5. QED BY <2>2, <2>3, <2>4, <1>4, <1>5
<1>13. Backed(c)
    BY <1>10, <1>11, <1>12 DEF Backed
<1>14. PayoutsBacked(b, v) => PayoutsBacked(c, v)
    <2> SUFFICES ASSUME Priced(b), Owed(b) <= b.equity, Owed(b) <= Larger(0, b.cash + v - b.due)
                 PROVE  Owed(b) <= c.equity /\ Owed(b) <= Larger(0, c.cash + v - c.due)
        BY <1>11 DEF PayoutsBacked
    <2>1. Owed(b) \in Int
        BY PayoutsType
    <2>2. QED BY <2>1, <1>8, <1>10 DEF Larger
<1>15. QED BY <1>2, <1>9, <1>13, <1>14

--------------------------------------------------------------------------------
(* Fees are charged. *)

\* An investor's part of a cost is borne by his lots.
LEMMA LotCostType ==
    ASSUME NEW b, NEW i, InvestorOK(b.investors[i]), NEW n \in DOMAIN b.investors[i].lots, NEW exit \in Int
    PROVE  LotCost(b, i, n, exit) \in Int /\ (exit \in Nat => LotCost(b, i, n, exit) \in Nat)
<1>1. PICK p : p = b.investors[i]
    OBVIOUS
<1>2. PICK lot : lot = p.lots[n]
    OBVIOUS
<1>3. p.units \in Nat /\ lot.units \in Nat
    BY <1>1, <1>2, LotsShape DEF InvestorOK
<1>4. PICK a \in Int : a = exit * lot.units /\ (exit \in Nat => a \in Nat)
    <2>1. exit * lot.units \in Int /\ (exit \in Nat => exit * lot.units \in Nat)
        BY <1>3
    <2>2. QED BY <2>1
<1>5. ASSUME p.units # 0 PROVE Quotient(a, p.units) \in Int /\ (a \in Nat => Quotient(a, p.units) \in Nat)
    <2>1. PICK d \in Nat \ {0} : d = p.units
        BY <1>3, <1>5
    <2>2. QED BY <2>1, QuotientType
<1>6. LotCost(b, i, n, exit) = IF p.units = 0 THEN 0 ELSE Quotient(exit * lot.units, p.units)
    BY <1>1, <1>2 DEF LotCost
<1>7. QED BY <1>4, <1>5, <1>6

\* The fee on a lot burns something or nothing, and no more than the lot has when the redemption
\* cost something.
LEMMA LotBurns ==
    ASSUME NEW b, b.nav \in Nat, b.rate \in 0 .. RateCap, NEW i, InvestorOK(b.investors[i]),
           NEW n \in DOMAIN b.investors[i].lots, NEW exit \in Int
    PROVE  /\ LotBurn(b, i, n, exit) \in Nat
           /\ exit \in Nat => LotBurn(b, i, n, exit) <= b.investors[i].lots[n].units
           /\ ~Gains(b, i, n) => LotBurn(b, i, n, exit) = 0
<1>1. PICK lot : lot = b.investors[i].lots[n]
    OBVIOUS
<1>2. lot.units \in Nat /\ lot.hwm \in Nat
    BY <1>1, LotsShape DEF InvestorOK
<1>3. PICK cost \in Int : cost = LotCost(b, i, n, exit) /\ (exit \in Nat => cost \in Nat)
    BY LotCostType
<1>4. CASE Gains(b, i, n)
    <2>1. lot.hwm < b.nav /\ b.nav \in Nat \ {0}
        BY <1>1, <1>2, <1>4 DEF Gains
    <2>2. LotBurn(b, i, n, exit) = BurnOf(Profit(lot.units, b.nav, lot.hwm, cost), b.rate, b.nav)
        BY <1>1, <1>3, <1>4 DEF LotBurn
    <2>3. LotBurn(b, i, n, exit) \in Nat
        BY <1>2, <2>1, <2>2, FeeIsNat
    <2>4. exit \in Nat => LotBurn(b, i, n, exit) <= lot.units
        <3>1. CASE exit \in Nat
            <4>1. cost \in Nat
                BY <1>3, <3>1
            <4>2. BurnOf(Profit(lot.units, b.nav, lot.hwm, cost), b.rate, b.nav) <= lot.units
                BY <1>2, <2>1, <4>1, FeeIsInTheLot
            <4>3. QED BY <2>2, <4>2
        <3>2. QED BY <3>1
    <2>5. QED BY <1>1, <1>4, <2>3, <2>4
<1>5. CASE ~Gains(b, i, n)
    BY <1>1, <1>2, <1>5 DEF LotBurn
<1>6. QED BY <1>4, <1>5

\* The fee on one lot, when it fits, burns what the lot has, and is worth what it burns.
LEMMA LotPays ==
    ASSUME NEW b, b.nav \in Nat, b.rate \in 0 .. RateCap, NEW i, InvestorOK(b.investors[i]),
           NEW n \in DOMAIN b.investors[i].lots, NEW exit \in Int,
           LotBurn(b, i, n, exit) <= b.investors[i].lots[n].units
    PROVE  /\ LotBurn(b, i, n, exit) \in Nat /\ LotBurn(b, i, n, exit) <= b.investors[i].lots[n].units
           /\ LotFee(b, i, n, exit) \in Nat /\ Scale * LotFee(b, i, n, exit) <= b.nav * LotBurn(b, i, n, exit)
           /\ ~Gains(b, i, n) => LotBurn(b, i, n, exit) = 0
<1>1. LotBurn(b, i, n, exit) \in Nat /\ (~Gains(b, i, n) => LotBurn(b, i, n, exit) = 0)
    BY LotBurns
<1>2. LotFee(b, i, n, exit) \in Nat /\ Scale * LotFee(b, i, n, exit) <= b.nav * LotBurn(b, i, n, exit)
    BY <1>1, FeeIsBurned DEF LotFee
<1>3. QED BY <1>1, <1>2

\* The fees on all lots of one investor.
LEMMA InvestorPays ==
    ASSUME NEW b, b.nav \in Nat, b.rate \in 0 .. RateCap, NEW i, InvestorOK(b.investors[i]), NEW exit \in Int,
           \A n \in DOMAIN b.investors[i].lots : LotBurn(b, i, n, exit) <= b.investors[i].lots[n].units
    PROVE  LET p == InvestorFees(b, i, exit) IN
              /\ InvestorOK(p) /\ p.pending = b.investors[i].pending
              /\ BurnOfAll(b, i, exit) \in Nat /\ p.units = b.investors[i].units - BurnOfAll(b, i, exit)
              /\ FeeOfAll(b, i, exit) \in Nat /\ p.fees = b.investors[i].fees + FeeOfAll(b, i, exit)
              /\ Scale * FeeOfAll(b, i, exit) <= b.nav * BurnOfAll(b, i, exit)
<1>1. PICK q : q = b.investors[i]
    OBVIOUS
<1>2. /\ InvestorOK(q) /\ q.lots \in Seq(Lot) /\ q.units \in Nat /\ q.fees \in Nat /\ q.pending \in Nat
      /\ UnitsIn(q.lots) = q.units
    BY <1>1 DEF InvestorOK
<1> DEFINE D == DOMAIN q.lots
           burn == [n \in D |-> LotBurn(b, i, n, exit)]
           fee == [n \in D |-> LotFee(b, i, n, exit)]
           lots == [n \in D |-> IF Gains(b, i, n) THEN [units |-> q.lots[n].units - burn[n], hwm |-> b.nav]
                                ELSE q.lots[n]]
<1>3. IsFiniteSet(D) /\ \A n \in D : q.lots[n] \in Lot /\ q.lots[n].units \in Nat
    BY <1>2, LotsShape
<1>4. \A n \in D : /\ burn[n] \in Nat /\ burn[n] <= q.lots[n].units
                   /\ fee[n] \in Nat /\ Scale * fee[n] <= b.nav * burn[n]
                   /\ ~Gains(b, i, n) => burn[n] = 0
    BY <1>1, LotPays
<1>5. BurnOfAll(b, i, exit) = SumFunctionOnSet(burn, D) /\ FeeOfAll(b, i, exit) = SumFunctionOnSet(fee, D)
    BY <1>1 DEF BurnOfAll, FeeOfAll
<1>6. PICK p : p = InvestorFees(b, i, exit)
    OBVIOUS
<1>7. /\ DOMAIN p = DOMAIN q /\ p.lots = lots /\ p.units = q.units - BurnOfAll(b, i, exit)
      /\ p.fees = q.fees + FeeOfAll(b, i, exit) /\ p.pending = q.pending
    BY <1>1, <1>2, <1>6 DEF InvestorFees, InvestorOK
<1> HIDE DEF burn, fee
<1>8. \A n \in D : q.lots[n].units - burn[n] \in Nat
    BY <1>3, <1>4
<1>9. /\ lots \in [D -> Lot]
      /\ \A n \in D : burn[n] \in Int /\ lots[n].units = q.lots[n].units - burn[n]
    <2>1. ASSUME NEW n \in D
          PROVE  lots[n] \in Lot /\ burn[n] \in Int /\ lots[n].units = q.lots[n].units - burn[n]
        <3>1. CASE Gains(b, i, n)
            <4>1. lots[n] = [units |-> q.lots[n].units - burn[n], hwm |-> b.nav]
                BY <3>1
            <4> HIDE DEF lots, D
            <4>2. lots[n] \in Lot /\ lots[n].units = q.lots[n].units - burn[n]
                BY <4>1, <1>8 DEF Lot
            <4>3. QED BY <4>2, <1>4
        <3>2. CASE ~Gains(b, i, n)
            <4>1. lots[n] = q.lots[n]
                BY <3>2
            <4> HIDE DEF lots, D
            <4>2. burn[n] = 0 /\ q.lots[n].units \in Nat /\ q.lots[n] \in Lot
                BY <3>2, <1>3, <1>4
            <4>3. QED BY <4>1, <4>2
        <3>3. QED BY <3>1, <3>2
    <2>2. QED BY <2>1
<1> HIDE DEF lots
<1>10. lots \in Seq(Lot) /\ UnitsIn(lots) = q.units - SumFunctionOnSet(burn, D)
    <2>1. PICK old \in Seq(Lot) : old = q.lots
        BY <1>2
    <2>2. /\ lots \in [DOMAIN old -> Lot]
          /\ \A n \in DOMAIN old : burn[n] \in Int /\ lots[n].units = old[n].units - burn[n]
        BY <1>9, <2>1
    <2>3. lots \in Seq(Lot)
        BY <2>2, LotsRewritten
    <2>4. UnitsIn(lots) = UnitsIn(old) - SumFunctionOnSet(burn, DOMAIN old)
        BY <2>2, LotsLose
    <2>5. QED BY <1>2, <2>1, <2>3, <2>4
<1>11. SumFunctionOnSet(burn, D) \in Nat /\ SumFunctionOnSet(fee, D) \in Nat
    BY <1>3, <1>4, SumGrows, D \in SUBSET D
<1>12. Scale * SumFunctionOnSet(fee, D) <= b.nav * SumFunctionOnSet(burn, D)
    <2>1. \A n \in D : burn[n] \in Int /\ fee[n] \in Int /\ Scale * fee[n] <= b.nav * burn[n]
        BY <1>4
    <2>2. Scale \in Int /\ b.nav \in Int
        BY ScaleAssumption
    <2>3. QED BY <1>3, <2>1, <2>2, SumScaled
<1>13. UnitsIn(lots) \in Nat
    BY <1>10, LotsShape
<1>14. InvestorOK(p)
    BY <1>2, <1>5, <1>7, <1>10, <1>11, <1>13 DEF InvestorOK
<1>15. QED BY <1>1, <1>5, <1>6, <1>7, <1>11, <1>12, <1>14

\* Requests whose units changed and nothing else.
SameRequests(W, V) ==
    /\ DOMAIN V = Withdrawals
    /\ \A w \in Withdrawals :
          /\ DOMAIN V[w] = DOMAIN W[w] /\ V[w].status = W[w].status /\ V[w].wallet = W[w].wallet
          /\ V[w].kind = W[w].kind /\ V[w].amount = W[w].amount
\* Such a settlement stays in order.
LEMMA SettlementKept ==
    ASSUME NEW W, NEW V, SameRequests(W, V), NEW s, SettlementOK(s, W)
    PROVE  SettlementOK(s, V)
BY DEF SettlementOK, SameRequests

\* A request for a part of an investor's shares becomes one for the same part of what is left.
ScaledFor(x, y, old, new) ==
    /\ y.units \in Nat
    /\ x.kind = "UNITS" /\ x.status \in Open /\ old # 0 => y.units = (x.units * new) \div old
    /\ ~ (x.kind = "UNITS" /\ x.status \in Open /\ old # 0) => y.units = x.units
\* All requests are rewritten so.
LEMMA RequestsScale ==
    ASSUME NEW b, InvestorsOK(b.investors), WithdrawalsOK(b.withdrawals), NEW J, InvestorsOK(J)
    PROVE  LET V == ScaledRequests(b, J) IN
              /\ SameRequests(b.withdrawals, V) /\ WithdrawalsOK(V)
              /\ \A w \in Withdrawals :
                    LET x == b.withdrawals[w] IN ScaledFor(x, V[w], b.investors[x.wallet].units, J[x.wallet].units)
<1>1. PICK V : V = ScaledRequests(b, J)
    OBVIOUS
<1>2. ASSUME NEW w \in Withdrawals
      PROVE  LET x == b.withdrawals[w] IN
                /\ DOMAIN V[w] = DOMAIN x /\ V[w].status = x.status /\ V[w].wallet = x.wallet
                /\ V[w].kind = x.kind /\ V[w].amount = x.amount /\ WithdrawalOK(V[w])
                /\ ScaledFor(x, V[w], b.investors[x.wallet].units, J[x.wallet].units)
    <2>1. PICK x : x = b.withdrawals[w]
        OBVIOUS
    <2>2. WithdrawalOK(x) /\ x.units \in Nat
        BY <2>1 DEF WithdrawalsOK, WithdrawalOK
    <2>3. PICK old : old = b.investors[x.wallet].units
        OBVIOUS
    <2>4. PICK new : new = J[x.wallet].units
        OBVIOUS
    <2>5. V[w] = IF x.kind = "UNITS" /\ x.status \in Open /\ old # 0
                 THEN [x EXCEPT !.units = Quotient(@ * new, old)] ELSE x
        BY <1>1, <2>1, <2>3, <2>4 DEF ScaledRequests
    <2>6. CASE x.kind = "UNITS" /\ x.status \in Open /\ old # 0
        <3>1. x.wallet \in Investors
            BY <2>2, <2>6 DEF WithdrawalOK, Open
        <3>2. old \in Nat \ {0} /\ new \in Nat
            BY <2>3, <2>4, <2>6, <3>1 DEF InvestorsOK, InvestorOK
        <3>3. PICK a \in Nat : a = x.units * new
            BY <2>2, <3>2
        <3>4. PICK q \in Nat : q = Quotient(a, old) /\ q = a \div old
            BY <3>2, QuotientType
        <3>5. V[w] = [x EXCEPT !.units = q]
            BY <2>5, <2>6, <3>3, <3>4
        <3>6. /\ DOMAIN V[w] = DOMAIN x /\ V[w].status = x.status /\ V[w].wallet = x.wallet
              /\ V[w].kind = x.kind /\ V[w].amount = x.amount /\ V[w].units = q
            BY <2>2, <3>5 DEF WithdrawalOK
        <3>7. WithdrawalOK(V[w])
            BY <2>2, <3>6 DEF WithdrawalOK
        <3>8. ScaledFor(x, V[w], old, new)
            BY <2>6, <3>3, <3>4, <3>6 DEF ScaledFor
        <3>9. QED BY <2>1, <2>3, <2>4, <3>6, <3>7, <3>8
    <2>7. CASE ~ (x.kind = "UNITS" /\ x.status \in Open /\ old # 0)
        <3>1. V[w] = x
            BY <2>5, <2>7
        <3>2. ScaledFor(x, V[w], old, new)
            BY <2>2, <2>7, <3>1 DEF ScaledFor
        <3>3. QED BY <2>1, <2>2, <2>3, <2>4, <3>1, <3>2
    <2>8. QED BY <2>6, <2>7
<1>3. DOMAIN V = Withdrawals
    BY <1>1 DEF ScaledRequests
<1>4. SameRequests(b.withdrawals, V) /\ WithdrawalsOK(V)
    BY <1>2, <1>3 DEF SameRequests, WithdrawalsOK
<1>5. QED BY <1>1, <1>2, <1>4

\* What they ask for is there.
LEMMA ScaledIsCovered ==
    ASSUME NEW b, InvestorsOK(b.investors), WithdrawalsOK(b.withdrawals), Covered(b.investors, b.withdrawals),
           NEW J, InvestorsOK(J), \A i \in Investors : J[i].pending = b.investors[i].pending
    PROVE  Covered(J, ScaledRequests(b, J))
<1>1. PICK V : V = ScaledRequests(b, J)
    OBVIOUS
<1>2. PICK W : W = b.withdrawals
    OBVIOUS
<1>3. /\ SameRequests(W, V) /\ WithdrawalsOK(V) /\ WithdrawalsOK(W)
      /\ \A w \in Withdrawals : ScaledFor(W[w], V[w], b.investors[W[w].wallet].units, J[W[w].wallet].units)
    BY <1>1, <1>2, RequestsScale
<1>4. ASSUME NEW i \in Investors PROVE UnitsAsked(V, i) <= J[i].units /\ CashAsked(V, i) <= J[i].pending
    <2> DEFINE f == [w \in Withdrawals |-> UnitsBy(W[w], i)]
               h == [w \in Withdrawals |-> UnitsBy(V[w], i)]
               g == [w \in Withdrawals |-> CashBy(W[w], i)]
               k == [w \in Withdrawals |-> CashBy(V[w], i)]
    <2>1. PICK old \in Nat : old = b.investors[i].units
        BY DEF InvestorsOK, InvestorOK
    <2>2. PICK new \in Nat : new = J[i].units
        BY DEF InvestorsOK, InvestorOK
    <2>3. /\ UnitsAsked(W, i) = SumFunctionOnSet(f, Withdrawals) /\ UnitsAsked(V, i) = SumFunctionOnSet(h, Withdrawals)
          /\ CashAsked(W, i) = SumFunctionOnSet(g, Withdrawals) /\ CashAsked(V, i) = SumFunctionOnSet(k, Withdrawals)
          /\ UnitsAsked(W, i) \in Nat
          /\ \A w \in Withdrawals : UnitsBy(W[w], i) \in Nat /\ UnitsBy(V[w], i) \in Nat
        BY <1>3, AskedOfAll
    <2>4. UnitsAsked(W, i) <= old /\ CashAsked(W, i) <= J[i].pending
        BY <1>2, <2>1 DEF Covered
    <2>5. CashAsked(V, i) = CashAsked(W, i)
        <3>1. \A w \in Withdrawals : CashBy(V[w], i) = CashBy(W[w], i)
            BY <1>3 DEF SameRequests, CashBy
        <3>2. g = k
            BY <3>1
        <3> HIDE DEF g, k
        <3>3. QED BY <2>3, <3>2
    <2>6. UnitsAsked(V, i) <= new
        <3>1. CASE old = 0
            <4>1. \A w \in Withdrawals : UnitsBy(V[w], i) = UnitsBy(W[w], i)
                BY <1>3, <2>1, <3>1 DEF SameRequests, UnitsBy, ScaledFor
            <4>2. f = h
                BY <4>1
            <4> HIDE DEF f, h
            <4>3. QED BY <2>2, <2>3, <2>4, <3>1, <4>2
        <3>2. CASE old # 0
            <4>1. ASSUME NEW w \in Withdrawals
                  PROVE  UnitsBy(V[w], i) = (UnitsBy(W[w], i) * new) \div old
                <5>1. CASE W[w].wallet = i /\ W[w].kind = "UNITS" /\ W[w].status \in Open
                    <6>1. UnitsBy(W[w], i) = W[w].units /\ UnitsBy(V[w], i) = V[w].units
                        BY <1>3, <5>1 DEF SameRequests, UnitsBy
                    <6>2. V[w].units = (W[w].units * new) \div old
                        BY <1>3, <2>1, <2>2, <3>2, <5>1 DEF ScaledFor
                    <6>3. QED BY <6>1, <6>2
                <5>2. CASE ~ (W[w].wallet = i /\ W[w].kind = "UNITS" /\ W[w].status \in Open)
                    <6>1. UnitsBy(W[w], i) = 0 /\ UnitsBy(V[w], i) = 0
                        BY <1>3, <5>2 DEF SameRequests, UnitsBy
                    <6>2. 0 * new = 0 /\ old * 0 = 0 /\ old \in Nat \ {0}
                        BY <3>2
                    <6>3. 0 \div old = 0
                        <7>1. 0 \div old \in Int /\ 0 \div old <= 0 /\ 0 <= 0 \div old
                            BY <6>2, FloorBounds, FloorOf
                        <7>2. QED BY <7>1
                    <6>4. QED BY <6>1, <6>2, <6>3
                <5>3. QED BY <5>1, <5>2
            <4>2. InParts(h, f, Withdrawals, new, old)
                BY <2>3, <4>1 DEF InParts
            <4> HIDE DEF f, h
            <4>3. SumFunctionOnSet(f, Withdrawals) <= old /\ IsFiniteSet(Withdrawals) /\ old \in Nat \ {0}
                BY <2>3, <2>4, <3>2, ManyAreFinite
            <4>4. SumFunctionOnSet(h, Withdrawals) <= new
                BY <4>2, <4>3, PartsFit
            <4>5. QED BY <2>3, <4>4
        <3>3. QED BY <3>1, <3>2
    <2>7. QED BY <2>2, <2>4, <2>5, <2>6
<1>5. QED BY <1>1, <1>4 DEF Covered

\* The book once everybody's fees are taken: the money of them is due, their shares are gone.
ChargedFrom(b, exits, c) ==
    /\ Shape(c)
    /\ c.rate = b.rate /\ c.cash = b.cash /\ c.nav = b.nav /\ c.feePaid = b.feePaid
    /\ c.halfMinted = b.halfMinted /\ c.settlement = b.settlement
    /\ DOMAIN c.investors = Investors
    /\ \A i \in Investors : c.investors[i] = InvestorFees(b, i, exits[i])
    /\ c.withdrawals = ScaledRequests(b, c.investors)
    /\ LET burned == SumFunctionOnSet([i \in Investors |-> BurnOfAll(b, i, exits[i])], Investors)
           fees == SumFunctionOnSet([i \in Investors |-> FeeOfAll(b, i, exits[i])], Investors)
       IN  c.units = b.units - burned /\ c.equity = b.equity - fees /\ c.due = b.due + fees
\* crystallizeFees(), when there is a price.
LEMMA ChargingShape ==
    ASSUME NEW b, Shape(b), b.nav # 0, NEW exits
    PROVE  ChargedFrom(b, exits, CrystallizeFees(b, exits))
<1>1. PICK J : J = [i \in Investors |-> InvestorFees(b, i, exits[i])]
    OBVIOUS
<1>2. PICK burned : burned = SumFunctionOnSet([i \in Investors |-> BurnOfAll(b, i, exits[i])], Investors)
    OBVIOUS
<1>3. PICK fees : fees = SumFunctionOnSet([i \in Investors |-> FeeOfAll(b, i, exits[i])], Investors)
    OBVIOUS
<1>4. PICK d : d = [b EXCEPT !.investors = J, !.withdrawals = ScaledRequests(b, J),
                             !.units = @ - burned, !.equity = @ - fees, !.due = @ + fees]
    OBVIOUS
<1>5. PICK events : CrystallizeFees(b, exits) = RecordedAll(d, events)
    BY <1>1, <1>2, <1>3, <1>4 DEF CrystallizeFees
<1>6. ChargedFrom(b, exits, d)
    BY <1>1, <1>2, <1>3, <1>4 DEF ChargedFrom, Shape, BookFields
<1>7. Same(d, CrystallizeFees(b, exits))
    BY <1>5, <1>6, RecordingKeeps DEF ChargedFrom
<1>8. QED BY <1>6, <1>7 DEF ChargedFrom, Same, Keeps

\* What crystallizing fees leaves alone, and that what it takes from the equity is due.
FeesTaken(b, c) ==
    /\ BookOK(c)
    /\ c.rate = b.rate /\ c.cash = b.cash /\ c.nav = b.nav /\ c.feePaid = b.feePaid
    /\ c.halfMinted = b.halfMinted /\ c.settlement = b.settlement
    /\ SameRequests(b.withdrawals, c.withdrawals)
    /\ c.equity \in Int /\ c.due \in Int /\ c.equity <= b.equity /\ c.equity + c.due = b.equity + b.due
    /\ Holds(b) => Holds(c)
\* Costs, and their absence, overcharge no lot.
LEMMA CostsFit ==
    ASSUME NEW b, BookOK(b), b.nav \in Nat, NEW exits, \A i \in Investors : exits[i] \in Nat
    PROVE  FeesFit(b, exits)
<1>1. b.rate \in 0 .. RateCap /\ \A i \in Investors : InvestorOK(b.investors[i])
    BY DEF BookOK, NumbersOK, InvestorsOK
<1>2. ASSUME NEW i \in Investors, NEW n \in DOMAIN b.investors[i].lots
      PROVE  LotBurn(b, i, n, exits[i]) <= b.investors[i].lots[n].units
    <2>1. exits[i] \in Nat /\ exits[i] \in Int
        OBVIOUS
    <2>2. QED BY <1>1, <2>1, LotBurns
<1>3. QED BY <1>2 DEF FeesFit

\* The shares still add up, and the price holds as before, when no lot is overcharged.
LEMMA ChargingIsOK ==
    ASSUME NEW b, BookOK(b), b.nav \in Nat, NEW exits, \A i \in Investors : exits[i] \in Int, FeesFit(b, exits),
           NEW c, ChargedFrom(b, exits, c)
    PROVE  FeesTaken(b, c)
<1> DEFINE I == b.investors
           J == c.investors
           burn == [i \in Investors |-> BurnOfAll(b, i, exits[i])]
           fee == [i \in Investors |-> FeeOfAll(b, i, exits[i])]
           f == [i \in Investors |-> I[i].units]
           h == [i \in Investors |-> J[i].units]
           g == [i \in Investors |-> I[i].fees]
           k == [i \in Investors |-> J[i].fees]
<1>1. /\ IsFiniteSet(Investors) /\ InvestorsOK(I) /\ WithdrawalsOK(b.withdrawals) /\ Covered(I, b.withdrawals)
      /\ SettlementOK(b.settlement, b.withdrawals)
    BY ManyAreFinite DEF BookOK
<1>2. /\ b.rate \in 0 .. RateCap /\ b.cash \in Int /\ b.equity \in Int /\ b.units \in Nat /\ b.due \in Nat
      /\ b.feePaid \in Nat /\ b.halfMinted \in BOOLEAN
      /\ UnitsOwned(I) = b.units /\ FeesCharged(I) = b.due + b.feePaid
    BY DEF BookOK, NumbersOK
<1>3. \A i \in Investors : /\ InvestorOK(J[i]) /\ J[i].pending = I[i].pending
                           /\ burn[i] \in Nat /\ fee[i] \in Nat /\ Scale * fee[i] <= b.nav * burn[i]
                           /\ J[i].units = I[i].units - burn[i] /\ J[i].fees = I[i].fees + fee[i]
    <2> TAKE i \in Investors
    <2>1. InvestorOK(I[i]) /\ exits[i] \in Int
        BY <1>1 DEF InvestorsOK
    <2>2. J[i] = InvestorFees(b, i, exits[i])
        BY DEF ChargedFrom
    <2>3. \A n \in DOMAIN b.investors[i].lots : LotBurn(b, i, n, exits[i]) <= b.investors[i].lots[n].units
        BY DEF FeesFit
    <2>4. QED BY <1>2, <2>1, <2>2, <2>3, InvestorPays
<1>4. InvestorsOK(J)
    BY <1>3 DEF InvestorsOK, ChargedFrom
<1>5. \A i \in Investors : I[i].units \in Nat /\ J[i].units \in Nat /\ I[i].fees \in Nat /\ J[i].fees \in Nat
    BY <1>1, <1>4 DEF InvestorsOK, InvestorOK
<1>6. UnitsOwned(I) = SumFunctionOnSet(f, Investors) /\ UnitsOwned(J) = SumFunctionOnSet(h, Investors)
    BY DEF UnitsOwned
<1>7. FeesCharged(I) = SumFunctionOnSet(g, Investors) /\ FeesCharged(J) = SumFunctionOnSet(k, Investors)
    BY DEF FeesCharged
<1>8. /\ c.units = b.units - SumFunctionOnSet(burn, Investors)
      /\ c.equity = b.equity - SumFunctionOnSet(fee, Investors)
      /\ c.due = b.due + SumFunctionOnSet(fee, Investors)
    BY DEF ChargedFrom
<1>9. /\ \A i \in Investors : f[i] \in Int /\ burn[i] \in Int /\ h[i] = f[i] - burn[i]
      /\ \A i \in Investors : k[i] \in Int /\ fee[i] \in Int /\ g[i] = k[i] - fee[i]
    BY <1>3, <1>5
<1>10. \A i \in Investors : h[i] \in Nat /\ k[i] \in Nat
    BY <1>5
<1> HIDE DEF burn, fee, f, h, g, k
<1>11. SumFunctionOnSet(h, Investors) = SumFunctionOnSet(f, Investors) - SumFunctionOnSet(burn, Investors)
    BY <1>1, <1>9, SumDifference
<1>12. SumFunctionOnSet(g, Investors) = SumFunctionOnSet(k, Investors) - SumFunctionOnSet(fee, Investors)
    BY <1>1, <1>9, SumDifference
<1>13. Investors \in SUBSET Investors
    OBVIOUS
<1>14. SumFunctionOnSet(burn, Investors) \in Nat /\ SumFunctionOnSet(fee, Investors) \in Nat
    BY <1>1, <1>3, <1>13, SumGrows
<1>15. SumFunctionOnSet(h, Investors) \in Nat /\ SumFunctionOnSet(k, Investors) \in Nat
    BY <1>1, <1>10, <1>13, SumGrows
<1>16. Scale * SumFunctionOnSet(fee, Investors) <= b.nav * SumFunctionOnSet(burn, Investors)
    <2>1. \A i \in Investors : burn[i] \in Int /\ fee[i] \in Int /\ Scale * fee[i] <= b.nav * burn[i]
        BY <1>3
    <2>2. Scale \in Int /\ b.nav \in Int
        BY ScaleAssumption
    <2>3. QED BY <1>1, <2>1, <2>2, SumScaled
<1>17. PICK burned \in Nat : burned = SumFunctionOnSet(burn, Investors)
    BY <1>14
<1>18. PICK fees \in Nat : fees = SumFunctionOnSet(fee, Investors)
    BY <1>14
<1>19. UnitsOwned(J) = c.units /\ FeesCharged(J) = c.due + c.feePaid /\ c.units \in Nat /\ c.due \in Nat
    <2>1. c.feePaid = b.feePaid
        BY DEF ChargedFrom
    <2>2. c.due = b.due + fees /\ c.due \in Nat
        BY <1>2, <1>8, <1>18
    <2>3. UnitsOwned(J) = b.units - burned
        BY <1>2, <1>6, <1>11, <1>17
    <2>4. UnitsOwned(J) = c.units /\ c.units \in Nat
        BY <2>3, <1>6, <1>8, <1>15, <1>17
    <2>5. PICK old \in Nat : old = SumFunctionOnSet(k, Investors)
        BY <1>15
    <2>6. FeesCharged(J) = old /\ b.due + b.feePaid = old - fees
        BY <2>5, <1>2, <1>7, <1>12, <1>18
    <2>7. FeesCharged(J) = c.due + c.feePaid
        BY <2>1, <2>2, <2>5, <2>6, <1>2
    <2>8. QED BY <2>2, <2>4, <2>7
<1>20. /\ c.rate = b.rate /\ c.cash = b.cash /\ c.nav = b.nav /\ c.feePaid = b.feePaid
       /\ c.halfMinted = b.halfMinted /\ c.settlement = b.settlement /\ Shape(c)
    BY DEF ChargedFrom
<1>21. c.withdrawals = ScaledRequests(b, J)
    BY DEF ChargedFrom
<1>22. SameRequests(b.withdrawals, c.withdrawals) /\ WithdrawalsOK(c.withdrawals)
    BY <1>1, <1>4, <1>21, RequestsScale
<1>23. Covered(J, c.withdrawals)
    BY <1>1, <1>3, <1>4, <1>21, ScaledIsCovered
<1>24. SettlementOK(c.settlement, c.withdrawals)
    BY <1>1, <1>20, <1>22, SettlementKept
<1>25. c.equity \in Int /\ c.equity <= b.equity /\ c.equity + c.due = b.equity + b.due
    BY <1>2, <1>8, <1>18
<1>26. BookOK(c)
    <2>1. NumbersOK(c)
        BY <1>2, <1>19, <1>20, <1>25 DEF NumbersOK
    <2>2. QED BY <1>4, <1>19, <1>20, <1>22, <1>23, <1>24, <2>1 DEF BookOK
<1>27. Holds(b) => Holds(c)
    <2> SUFFICES ASSUME b.units * b.nav <= b.equity * Scale
                 PROVE  (b.units - burned) * b.nav <= (b.equity - fees) * Scale
        BY <1>8, <1>17, <1>18, <1>20 DEF Holds
    <2>1. Scale \in Nat
        BY ScaleAssumption
    <2>2. (b.units - burned) * b.nav = b.units * b.nav - b.nav * burned
        BY <1>2
    <2>3. (b.equity - fees) * Scale = b.equity * Scale - Scale * fees
        BY <1>2, <2>1
    <2>4. b.units * b.nav \in Int /\ b.nav * burned \in Int /\ b.equity * Scale \in Int /\ Scale * fees \in Int
        BY <1>2, <2>1
    <2>5. QED BY <2>2, <2>3, <2>4, <1>16, <1>17, <1>18
<1>28. c.due \in Int
    BY <1>19
<1>29. QED BY <1>20, <1>22, <1>25, <1>26, <1>27, <1>28 DEF FeesTaken

\* And so it is when there is no price and nothing is charged.
LEMMA FeesAreOK ==
    ASSUME NEW b, BookOK(b), b.nav \in Nat, NEW exits, \A i \in Investors : exits[i] \in Int,
           b.nav # 0 => FeesFit(b, exits)
    PROVE  FeesTaken(b, CrystallizeFees(b, exits))
<1>1. CASE b.nav # 0
    BY <1>1, ChargingShape, ChargingIsOK DEF BookOK
<1>2. CASE b.nav = 0
    <2>1. CrystallizeFees(b, exits) = b
        BY <1>2 DEF CrystallizeFees
    <2>2. SameRequests(b.withdrawals, b.withdrawals)
        BY DEF SameRequests, BookOK, WithdrawalsOK
    <2>3. b.equity \in Int /\ b.due \in Int
        BY DEF BookOK, NumbersOK
    <2>4. QED BY <2>1, <2>2, <2>3 DEF FeesTaken
<1>3. QED BY <1>1, <1>2

\* Who is unpaid, and whether there is a price, is the same after it.
LEMMA FeesKeepTheSettlement ==
    ASSUME NEW b, BookOK(b), NEW c, FeesTaken(b, c)
    PROVE  /\ (Priced(c) <=> Priced(b)) /\ (Settled(c) <=> Settled(b))
           /\ Backed(b) => Backed(c)
<1>1. SettlementOK(b.settlement, b.withdrawals)
    BY DEF BookOK
<1>2. b.settlement.ids \subseteq Withdrawals /\ c.settlement = b.settlement
    BY <1>1 DEF SettlementOK, FeesTaken
<1>3. Unpaid(c) = Unpaid(b)
    BY <1>2 DEF Unpaid, FeesTaken, SameRequests
<1>4. (Priced(c) <=> Priced(b)) /\ (Settled(c) <=> Settled(b))
    BY <1>2, <1>3 DEF Priced, Settled
<1>5. (Holds(b) => Holds(c)) /\ c.halfMinted = b.halfMinted
    BY DEF FeesTaken
<1>6. QED BY <1>4, <1>5 DEF Backed

--------------------------------------------------------------------------------
(* A redemption is priced. *)

\* The order of the requests tells them apart.
LEMMA PlacesDiffer ==
    ASSUME NEW v \in Withdrawals, NEW w \in Withdrawals, ~Earlier(v, w), ~Earlier(w, v)
    PROVE  v = w
<1> DEFINE D == DOMAIN WithdrawalOrder
           j == Place(WithdrawalOrder, v)
           k == Place(WithdrawalOrder, w)
<1>1. \A x \in Withdrawals : \E n \in D : WithdrawalOrder[n] = x
    BY WithdrawalOrderAssumption DEF ToSet
<1>2. j \in D /\ WithdrawalOrder[j] = v /\ k \in D /\ WithdrawalOrder[k] = w
    BY <1>1 DEF Place
<1>3. D \subseteq Nat
    BY WithdrawalOrderAssumption
<1> HIDE DEF D
<1>4. j \in Nat /\ k \in Nat /\ ~(j < k) /\ ~(k < j)
    BY <1>2, <1>3 DEF Earlier
<1> HIDE DEF j, k
<1>5. j = k
    BY <1>4
<1>6. QED BY <1>2, <1>5

\* What redemptions under way ask for together is there.
LEMMA SettledUnitsFit ==
    ASSUME NEW b, BookOK(b), NEW ids \in SUBSET Withdrawals,
           \A w \in ids : b.withdrawals[w].kind = "UNITS" /\ b.withdrawals[w].status = "SETTLING"
    PROVE  UnitsOf(b, ids) \in Nat /\ UnitsOf(b, ids) <= b.units
<1> DEFINE W == b.withdrawals
           f == [w \in Withdrawals |-> W[w].units]
           o == [w \in Withdrawals |-> W[w].wallet]
           g == [i \in Investors |-> b.investors[i].units]
           h == OwnerSums(f, ids, o, Investors)
<1>1. /\ IsFiniteSet(Investors) /\ IsFiniteSet(Withdrawals) /\ IsFiniteSet(ids)
    BY ManyAreFinite, FS_Subset
<1>2. \A w \in Withdrawals : W[w].units \in Nat /\ (W[w].status # "none" => W[w].wallet \in Investors)
    BY DEF BookOK, WithdrawalsOK, WithdrawalOK
<1>3. \A w \in ids : f[w] \in Int /\ o[w] \in Investors
    BY <1>2
<1>4. \A w \in Withdrawals : f[w] \in Nat
    BY <1>2
<1>5. UnitsOf(b, ids) = SumFunctionOnSet(f, ids)
    BY DEF UnitsOf
<1>6. \A i \in Investors : /\ OwnedBy(ids, o, i) \in SUBSET Asked(W, i, "UNITS")
                           /\ Asked(W, i, "UNITS") \in SUBSET Withdrawals
    BY DEF OwnedBy, Asked, Open
<1>7. \A i \in Investors : /\ UnitsAsked(W, i) = SumFunctionOnSet(f, Asked(W, i, "UNITS"))
                           /\ UnitsAsked(W, i) <= g[i] /\ g[i] \in Nat
    BY DEF UnitsAsked, BookOK, Covered, InvestorsOK, InvestorOK
<1>8. b.units = SumFunctionOnSet(g, Investors)
    BY DEF BookOK, UnitsOwned
<1>9. \A i \in Investors : h[i] = SumFunctionOnSet(f, OwnedBy(ids, o, i))
    BY DEF OwnerSums
<1> HIDE DEF f, g, h, o
<1>10. SumFunctionOnSet(f, ids) = SumFunctionOnSet(h, Investors)
    BY <1>1, <1>3, SumByOwner DEF h
<1>11. ASSUME NEW i \in Investors PROVE h[i] \in Int /\ h[i] <= g[i]
    <2>1. PICK P : P = Asked(W, i, "UNITS")
        OBVIOUS
    <2>2. PICK Q : Q = OwnedBy(ids, o, i)
        OBVIOUS
    <2>3. P \in SUBSET Withdrawals /\ Q \in SUBSET P
        BY <1>6, <2>1, <2>2
    <2>4. IsFiniteSet(P) /\ \A w \in P : f[w] \in Nat
        BY <1>1, <1>4, <2>3, FS_Subset
    <2>5. SumFunctionOnSet(f, Q) \in Nat /\ SumFunctionOnSet(f, Q) <= SumFunctionOnSet(f, P)
        BY <2>3, <2>4, SumGrows
    <2>6. P \in SUBSET P
        OBVIOUS
    <2>7. SumFunctionOnSet(f, P) \in Nat
        BY <2>4, <2>6, SumGrows
    <2>8. QED BY <2>1, <2>2, <2>5, <2>7, <1>7, <1>9
<1>12. \A i \in Investors : g[i] \in Int /\ h[i] \in Int /\ h[i] <= g[i]
    BY <1>7, <1>11
<1>13. SumFunctionOnSet(h, Investors) <= SumFunctionOnSet(g, Investors)
    BY <1>1, <1>12, SumBelow
<1>14. SumFunctionOnSet(f, ids) \in Nat
    BY <1>1, <1>4, SumGrows
<1>15. QED BY <1>5, <1>8, <1>10, <1>13, <1>14

\* Payouts are natural numbers, and not more than what there is to pay out.
LEMMA PayoutsFit ==
    ASSUME NEW b, WithdrawalsOK(b.withdrawals), NEW ids \in SUBSET Withdrawals, NEW payout \in Nat,
           NEW total, total = UnitsOf(b, ids)
    PROVE  LET p == PayoutsOf(ids, b, payout, total) IN
              /\ DOMAIN p = ids /\ \A w \in ids : p[w] \in Nat
              /\ SumFunctionOnSet(p, ids) <= payout
<1> DEFINE f == [w \in Withdrawals |-> b.withdrawals[w].units]
           part == [w \in Withdrawals |-> Quotient(payout * b.withdrawals[w].units, total)]
           others == {w \in ids : \E v \in ids : Earlier(w, v)}
<1>1. PICK p : p = PayoutsOf(ids, b, payout, total)
    OBVIOUS
<1>2. /\ DOMAIN p = ids
      /\ \A w \in ids : p[w] = IF total = 0 /\ others # {} THEN 0
                               ELSE IF w \in others THEN part[w] ELSE payout - SumFunctionOnSet(part, others)
    BY <1>1 DEF PayoutsOf
<1>3. IsFiniteSet(ids) /\ others \in SUBSET ids /\ IsFiniteSet(others) /\ others \in SUBSET Withdrawals
    <2>1. others \in SUBSET ids
        OBVIOUS
    <2>2. QED BY <2>1, ManyAreFinite, FS_Subset
<1>4. \A w \in Withdrawals : f[w] \in Nat
    BY DEF WithdrawalsOK, WithdrawalOK
<1>5. total = SumFunctionOnSet(f, ids)
    BY DEF UnitsOf
<1>6. \A v, w \in ids \ others : v = w
    <2>1. \A v, w \in ids \ others : ~Earlier(v, w) /\ ~Earlier(w, v)
        OBVIOUS
    <2>2. QED BY <2>1, PlacesDiffer
<1>7. ids = others \/ \E w : w \notin others /\ ids = others \cup {w}
    <2>1. CASE ids \ others = {}
        BY <2>1, <1>3
    <2>2. CASE ids \ others # {}
        <3>1. PICK w : w \in ids \ others
            BY <2>2
        <3>2. ids = others \cup {w}
            BY <3>1, <1>3, <1>6
        <3>3. QED BY <3>1, <3>2
    <2>3. QED BY <2>1, <2>2
<1>8. \A w \in Withdrawals : part[w] = Quotient(payout * f[w], total)
    OBVIOUS
<1> HIDE DEF f, part, others
<1>9. total \in Nat /\ SumFunctionOnSet(f, others) <= total
    <2>1. \A w \in ids : f[w] \in Nat
        BY <1>4
    <2>2. ids \in SUBSET ids
        OBVIOUS
    <2>3. QED BY <1>3, <1>5, <2>1, <2>2, SumGrows
<1>10. CASE total = 0 /\ others # {}
    <2>1. \A w \in ids : p[w] = 0
        BY <1>2, <1>10
    <2>2. SumFunctionOnSet(p, ids) <= 0
        <3>1. \A w \in ids : p[w] \in Int /\ p[w] \in Int /\ 1 * p[w] <= 0 * p[w]
            BY <2>1
        <3>2. 1 * SumFunctionOnSet(p, ids) <= 0 * SumFunctionOnSet(p, ids)
            BY <1>3, <3>1, SumScaled
        <3>3. SumFunctionOnSet(p, ids) \in Int
            BY <1>3, <3>1, SumInt
        <3>4. QED BY <3>2, <3>3
    <2>3. SumFunctionOnSet(p, ids) \in Int
        BY <1>3, <2>1, SumInt
    <2>4. QED BY <1>1, <1>2, <2>1, <2>2, <2>3
<1>11. CASE ~ (total = 0 /\ others # {})
    <2>1. /\ SumFunctionOnSet(part, others) \in Nat /\ SumFunctionOnSet(part, others) <= payout
          /\ \A w \in others : part[w] \in Nat
        <3>1. CASE others = {}
            BY <3>1, SumEmpty
        <3>2. CASE others # {}
            <4>1. total \in Nat \ {0}
                BY <3>2, <1>9, <1>11
            <4>2. ASSUME NEW w \in others PROVE f[w] \in Nat /\ part[w] = (f[w] * payout) \div total
                <5>1. f[w] \in Nat /\ part[w] = Quotient(payout * f[w], total)
                    BY <1>3, <1>4, <1>8
                <5>2. PICK a \in Nat : a = f[w] * payout /\ a = payout * f[w]
                    BY <5>1
                <5>3. Quotient(a, total) = a \div total
                    BY <4>1, QuotientType
                <5>4. QED BY <5>1, <5>2, <5>3
            <4>3. InParts(part, f, others, payout, total)
                BY <4>2 DEF InParts
            <4>4. QED BY <1>3, <1>9, <4>1, <4>3, PartsFit
        <3>3. QED BY <3>1, <3>2
    <2>2. PICK rest \in Nat : rest = payout - SumFunctionOnSet(part, others)
        BY <2>1
    <2>3. \A w \in ids : p[w] = IF w \in others THEN part[w] ELSE rest
        BY <1>2, <1>11, <2>2
    <2>4. \A w \in ids : p[w] \in Nat
        BY <2>1, <2>3
    <2>5. SumFunctionOnSet(p, others) = SumFunctionOnSet(part, others)
        <3>1. \A w \in others : p[w] = part[w]
            BY <1>3, <2>3
        <3>2. QED BY <1>3, <3>1, SumSame
    <2>6. SumFunctionOnSet(p, ids) <= payout
        <3>1. CASE ids = others
            BY <3>1, <2>1, <2>5
        <3>2. CASE \E w : w \notin others /\ ids = others \cup {w}
            <4>1. PICK w : w \notin others /\ ids = others \cup {w}
                BY <3>2
            <4>2. \A v \in others \cup {w} : p[v] \in Int
                BY <2>4, <4>1
            <4>3. SumFunctionOnSet(p, others \cup {w}) = p[w] + SumFunctionOnSet(p, others)
                BY <1>3, <4>1, <4>2, SumAdd
            <4>4. p[w] = rest
                BY <2>3, <4>1
            <4>5. QED BY <2>1, <2>2, <2>5, <4>1, <4>3, <4>4
        <3>3. QED BY <1>7, <3>1, <3>2
    <2>7. QED BY <1>1, <1>2, <2>4, <2>6
<1>12. QED BY <1>10, <1>11

\* A part of the shares is not worth more than the equity.
LEMMA PartOfTheEquity ==
    ASSUME NEW b, BookOK(b), Holds(b), b.units # 0, NEW units \in Nat, units <= b.units
    PROVE  b.equity \in Nat /\ (b.equity * units) \div b.units \in Int /\ (b.equity * units) \div b.units <= b.equity
<1>1. b.units \in Nat \ {0} /\ b.equity \in Int /\ b.nav \in Nat /\ Scale \in Nat \ {0}
    BY ScaleAssumption DEF BookOK, NumbersOK, Holds
<1>2. PICK e \in Int : e = b.equity
    BY <1>1
<1>3. PICK u \in Nat \ {0} : u = b.units
    BY <1>1
<1>4. Scale * 0 <= Scale * e
    <2>1. u * b.nav <= e * Scale /\ e * Scale = Scale * e /\ u * b.nav \in Nat /\ Scale * e \in Int /\ Scale * 0 = 0
        BY <1>1, <1>2, <1>3 DEF Holds
    <2>2. QED BY <2>1
<1>5. e \in Nat
    <2>1. 0 <= e
        BY <1>1, <1>4, ProductsShowOrder
    <2>2. QED BY <2>1
<1>6. e * units <= e * u /\ e * u = u * e /\ e * units \in Int
    BY <1>3, <1>5, ProductsKeepOrder
<1>7. PICK a \in Int : a = e * units /\ a <= u * e
    BY <1>6
<1>8. a \div u \in Int /\ a \div u <= e
    BY <1>7, FloorOf, FloorBounds
<1>9. QED BY <1>2, <1>3, <1>5, <1>7, <1>8

\* Everybody's part of a cost is a cost, and of a gain a gain.
LEMMA ExitsType ==
    ASSUME NEW b, BookOK(b), b.settlement.units # 0
    PROVE  \A i \in Investors : ExitsOf(b)[i] \in Int /\ (b.settlement.cost >= 0 => ExitsOf(b)[i] \in Nat)
<1> DEFINE part == [w \in Withdrawals |-> Quotient(b.settlement.cost * b.withdrawals[w].units, b.settlement.units)]
<1>1. PICK cost \in Int : cost = b.settlement.cost
    BY DEF BookOK, SettlementOK
<1>2. PICK d \in Nat \ {0} : d = b.settlement.units
    BY DEF BookOK, SettlementOK
<1>3. \A w \in Withdrawals : part[w] \in Int /\ (cost >= 0 => part[w] \in Nat)
    <2> TAKE w \in Withdrawals
    <2>1. PICK u \in Nat : u = b.withdrawals[w].units
        BY DEF BookOK, WithdrawalsOK, WithdrawalOK
    <2>2. PICK a \in Int : a = cost * u /\ (cost >= 0 => a \in Nat)
        <3>1. cost * u \in Int /\ (cost >= 0 => cost * u \in Nat)
            OBVIOUS
        <3>2. QED BY <3>1
    <2>3. Quotient(a, d) \in Int /\ (a \in Nat => Quotient(a, d) \in Nat)
        BY QuotientType
    <2>4. part[w] = Quotient(a, d)
        BY <1>1, <1>2, <2>1, <2>2
    <2> HIDE DEF part
    <2>5. QED BY <2>2, <2>3, <2>4
<1> HIDE DEF part
<1>4. ASSUME NEW i \in Investors PROVE ExitsOf(b)[i] \in Int /\ (cost >= 0 => ExitsOf(b)[i] \in Nat)
    <2>1. PICK s : s = {w \in b.settlement.ids : b.withdrawals[w].wallet = i}
        OBVIOUS
    <2>2. s \in SUBSET Withdrawals /\ IsFiniteSet(s)
        <3>1. s \in SUBSET Withdrawals
            BY <2>1 DEF BookOK, SettlementOK
        <3>2. QED BY <3>1, ManyAreFinite, FS_Subset
    <2>3. SumFunctionOnSet(part, s) \in Int
        BY <1>3, <2>2, SumInt
    <2>4. cost >= 0 => SumFunctionOnSet(part, s) \in Nat
        <3>1. SUFFICES ASSUME cost >= 0 PROVE SumFunctionOnSet(part, s) \in Nat
            OBVIOUS
        <3>2. \A w \in Withdrawals : part[w] \in Nat
            BY <1>3, <3>1
        <3>3. QED BY <3>2, <2>2, SumGrows, ManyAreFinite
    <2>5. ExitsOf(b)[i] = SumFunctionOnSet(part, s)
        BY <2>1 DEF ExitsOf, part
    <2>6. QED BY <2>3, <2>4, <2>5
<1>5. QED BY <1>1, <1>4

\* A redemption that waits for its price.
Waiting(b) == b.settlement # NoSettlement /\ ~Priced(b)
PricedFrom(b, c) ==
    /\ BookOK(c) /\ Waiting(c)
    /\ c.equity = b.equity /\ c.cash = b.cash /\ c.due = b.due /\ c.units = b.units
    /\ c.settlement.ids = b.settlement.ids /\ c.withdrawals = b.withdrawals
\* It is told at which price, and for how many shares.
LEMMA PricedAtIsOK ==
    ASSUME NEW b, BookOK(b), Waiting(b), NEW units, units \in Nat, NEW nav, nav \in Int,
           NEW c, c = PricedAt(b, units, nav)
    PROVE  PricedFrom(b, c)
<1> DEFINE s == b.settlement
           t == c.settlement
<1>1. Shape(b) /\ SettlementOK(s, b.withdrawals)
    BY DEF BookOK
<1>2. /\ Shape(c) /\ c.cash = b.cash /\ c.due = b.due /\ c.feePaid = b.feePaid
      /\ c.rate = b.rate /\ c.equity = b.equity /\ c.units = b.units /\ c.nav = b.nav
      /\ c.halfMinted = b.halfMinted /\ c.investors = b.investors /\ c.withdrawals = b.withdrawals
    BY <1>1 DEF PricedAt, Shape, BookFields
<1>3. DOMAIN t = DOMAIN s /\ t.ids = s.ids /\ t.units = units /\ t.cost = s.cost /\ t.nav = nav /\ t.payouts = s.payouts
    BY <1>1 DEF PricedAt, Shape, BookFields, SettlementOK
<1> HIDE DEF t
<1>4. t # NoSettlement /\ t.payouts = <<>>
    BY <1>1, <1>3 DEF Waiting, Priced, NoSettlement, SettlementOK
<1>5. SettlementOK(t, b.withdrawals)
    BY <1>1, <1>3 DEF SettlementOK, Waiting
<1>6. BookOK(c)
    <2>1. NumbersOK(c)
        BY <1>2 DEF BookOK, NumbersOK
    <2>2. QED BY <2>1, <1>2, <1>5 DEF BookOK, t
<1>7. QED BY <1>2, <1>3, <1>4, <1>6 DEF PricedFrom, Waiting, Priced, t

\* The book with payouts.
Granted(b, payouts) == [b EXCEPT !.settlement.payouts = payouts]
\* Payouts are set that the equity and the money cover.
LEMMA GrantedIsOK ==
    ASSUME NEW b, BookOK(b), Waiting(b), NEW p, DOMAIN p = b.settlement.ids, \A w \in b.settlement.ids : p[w] \in Nat,
           NEW payout \in Nat, SumFunctionOnSet(p, b.settlement.ids) <= payout, payout <= b.equity,
           NEW v \in Int, payout <= Larger(0, b.cash + v - b.due),
           NEW c, c = Granted(b, p)
    PROVE  BookOK(c) /\ Backed(c) /\ PayoutsBacked(c, v)
<1> DEFINE s == b.settlement
           t == c.settlement
<1>1. Shape(b) /\ SettlementOK(s, b.withdrawals)
    BY DEF BookOK
<1>2. /\ Shape(c) /\ c.cash = b.cash /\ c.due = b.due /\ c.feePaid = b.feePaid
      /\ c.rate = b.rate /\ c.equity = b.equity /\ c.units = b.units /\ c.nav = b.nav
      /\ c.halfMinted = b.halfMinted /\ c.investors = b.investors /\ c.withdrawals = b.withdrawals
    BY <1>1 DEF Granted, Shape, BookFields
<1>3. DOMAIN t = DOMAIN s /\ t.ids = s.ids /\ t.units = s.units /\ t.cost = s.cost /\ t.nav = s.nav /\ t.payouts = p
    BY <1>1 DEF Granted, Shape, BookFields, SettlementOK
<1>4. s.ids # {} /\ \A w \in s.ids : b.withdrawals[w].status = "SETTLING"
    BY <1>1 DEF SettlementOK, Waiting, Priced
<1> HIDE DEF t
<1>5. p # <<>>
    BY <1>4
<1>6. SettlementOK(t, b.withdrawals)
    BY <1>1, <1>3, <1>4, <1>5 DEF SettlementOK
<1>7. t # NoSettlement
    BY <1>3, <1>5 DEF NoSettlement
<1>8. BookOK(c)
    <2>1. NumbersOK(c)
        BY <1>2 DEF BookOK, NumbersOK
    <2>2. QED BY <2>1, <1>2, <1>6 DEF BookOK, t
<1>9. Unpaid(c) = s.ids
    BY <1>2, <1>3, <1>4 DEF Unpaid, t
<1>10. ~Settled(c)
    BY <1>4, <1>7, <1>9 DEF Settled, t
<1>11. Owed(c) <= payout
    BY <1>3, <1>9 DEF Owed, t
<1>12. Owed(c) \in Int
    <2>1. Priced(c)
        BY <1>3, <1>5, <1>7 DEF Priced, t
    <2>2. QED BY <2>1, <1>8, PayoutsType
<1>13. b.equity \in Int /\ b.cash \in Int /\ b.due \in Int
    BY DEF BookOK, NumbersOK
<1>14. PayoutsBacked(c, v)
    BY <1>2, <1>11, <1>12, <1>13 DEF PayoutsBacked, Larger
<1>15. QED BY <1>8, <1>10, <1>14 DEF Backed

\* A redemption that only waits owes nothing, and others' shares need not hold.
LEMMA WaitingIsBacked ==
    ASSUME NEW b, Waiting(b), NEW v
    PROVE  Backed(b) /\ PayoutsBacked(b, v)
BY DEF Waiting, Backed, Settled, PayoutsBacked

\* The payouts together are not more than the redeemed part of the equity without the cost.
LEMMA PricedBookIsOK ==
    ASSUME NEW b, BookOK(b), Waiting(b), NEW v \in Int, ~Overcharging(b, v)
    PROVE  LET c == PricedBook(b, v) IN BookOK(c) /\ Backed(c) /\ PayoutsBacked(c, v)
<1>1. PICK x : x = b.settlement
    OBVIOUS
<1>2. PICK seen : seen = Observed(b, v, FALSE)
    OBVIOUS
<1>3. PICK marked : marked = Grossed(b, seen) /\ marked = MarkBook(seen, seen.equity + x.cost, FALSE)
    BY <1>1 DEF Grossed
<1>4. PICK charged : charged = CrystallizeFees(marked, ExitsOf(b))
    OBVIOUS
<1>5. PICK units : units = UnitsOf(charged, x.ids)
    OBVIOUS
<1>6. PICK priced : priced = PricedAt(charged, units, charged.nav)
    OBVIOUS
<1>7. PICK lowered : lowered = [priced EXCEPT !.equity = @ - x.cost]
    OBVIOUS
<1>8. PICK valued : valued = LedgerValue(lowered)
    OBVIOUS
<1>9. PICK payout : payout = (priced.equity * units) \div priced.units - x.cost
    OBVIOUS
<1>10. PICK p : p = PayoutsOf(x.ids, valued, payout, units)
    OBVIOUS
<1>11. PICK c : c = PricedBook(b, v)
    OBVIOUS
<1>12. c = IF x.units = 0 \/ seen.equity + x.cost < 0 THEN seen
           ELSE IF priced.units = 0 THEN priced
           ELSE IF payout < 0 THEN valued
           ELSE Granted(valued, p)
    BY ZenonT(120), <1>1, <1>2, <1>3, <1>4, <1>5, <1>6, <1>7, <1>8, <1>9, <1>10, <1>11 DEF PricedBook, Granted
<1>13. /\ BookOK(seen) /\ Keeps(b, seen) /\ seen.cash = b.cash /\ seen.equity = Larger(0, b.cash + v - b.due)
    BY <1>2, ObservedIsOK
<1>14. SettlementOK(x, b.withdrawals) /\ x.cost \in Int /\ x.ids \in SUBSET Withdrawals
    BY <1>1 DEF BookOK, SettlementOK
<1>15. seen.settlement = x /\ seen.withdrawals = b.withdrawals /\ seen.due = b.due /\ Waiting(seen)
    BY <1>1, <1>13 DEF Keeps, Waiting, Priced
<1>16. b.cash \in Int /\ b.due \in Nat /\ seen.equity \in Nat
    <2>1. b.cash \in Int /\ b.due \in Nat
        BY DEF BookOK, NumbersOK
    <2>2. QED BY <2>1, <1>13 DEF Larger
<1>17. CASE x.units = 0 \/ seen.equity + x.cost < 0
    BY <1>11, <1>12, <1>13, <1>15, <1>17, WaitingIsBacked
<1>18. CASE ~ (x.units = 0 \/ seen.equity + x.cost < 0)
    <2>1. PICK basis \in Nat : basis = seen.equity + x.cost
        <3>1. PICK e \in Nat : e = seen.equity
            BY <1>16
        <3>2. PICK k \in Int : k = x.cost
            BY <1>14
        <3>3. e + k >= 0
            BY <1>18, <3>1, <3>2
        <3>4. e + k \in Nat
            BY <3>3
        <3>5. QED BY <3>1, <3>2, <3>4
    <2>2. BookOK(marked) /\ Holds(marked) /\ marked.nav \in Nat
        BY <1>3, <1>13, <2>1, MarkedIsOK
    <2>3. Keeps(seen, marked) /\ marked.cash = seen.cash /\ marked.equity = basis
        <3>1. Shape(seen)
            BY <1>13 DEF BookOK
        <3>2. PICK no \in BOOLEAN : no = FALSE
            OBVIOUS
        <3>3. marked = MarkBook(seen, basis, no)
            BY <1>3, <2>1, <3>2
        <3>4. QED BY <3>1, <3>3, MarkingKeeps
    <2>4. (\A i \in Investors : ExitsOf(b)[i] \in Int) /\ (marked.nav # 0 => FeesFit(marked, ExitsOf(b)))
        <3>1. \A i \in Investors : ExitsOf(b)[i] \in Int
            BY <1>1, <1>18, ExitsType
        <3>2. marked.nav # 0 => FeesFit(marked, ExitsOf(b))
            <4>1. Overcharging(b, v) <=> /\ x.units # 0 /\ seen.equity + x.cost >= 0
                                         /\ marked.nav # 0 /\ ~FeesFit(marked, ExitsOf(b))
                BY Zenon, <1>1, <1>2, <1>3 DEF Overcharging
            <4>2. seen.equity + x.cost >= 0
                BY <2>1
            <4>3. QED BY <1>18, <4>1, <4>2
        <3>3. QED BY <3>1, <3>2
    <2>5. FeesTaken(marked, charged)
        BY <1>4, <2>2, <2>4, FeesAreOK
    <2>6. /\ BookOK(charged) /\ Holds(charged) /\ Waiting(charged) /\ charged.settlement = x
          /\ SameRequests(b.withdrawals, charged.withdrawals)
        <3>1. marked.settlement = x /\ marked.withdrawals = b.withdrawals
            BY <1>15, <2>3 DEF Keeps
        <3>2. QED BY <3>1, <1>15, <2>2, <2>5 DEF FeesTaken, Waiting, Priced
    <2>7. /\ charged.cash = b.cash /\ charged.equity \in Int /\ charged.due \in Int
          /\ charged.equity <= basis /\ charged.equity + charged.due = basis + b.due
        <3>1. marked.due = b.due /\ marked.cash = b.cash
            BY <1>13, <1>15, <2>3 DEF Keeps
        <3>2. QED BY <3>1, <2>3, <2>5 DEF FeesTaken
    <2>8. units \in Nat /\ units <= charged.units
        <3>1. \A w \in x.ids : b.withdrawals[w].kind = "UNITS" /\ b.withdrawals[w].status = "SETTLING"
            BY <1>1, <1>14 DEF SettlementOK, Waiting, Priced
        <3>2. \A w \in x.ids : charged.withdrawals[w].kind = "UNITS" /\ charged.withdrawals[w].status = "SETTLING"
            BY <3>1, <1>14, <2>6 DEF SameRequests
        <3>3. QED BY <3>2, <1>5, <1>14, <2>6, SettledUnitsFit
    <2>9. /\ BookOK(priced) /\ Waiting(priced) /\ priced.equity = charged.equity /\ priced.cash = b.cash
          /\ priced.due = charged.due /\ priced.units = charged.units
          /\ priced.settlement.ids = x.ids /\ priced.withdrawals = charged.withdrawals
        <3>1. PICK nav \in Int : nav = charged.nav
            BY <2>6 DEF BookOK, NumbersOK
        <3>2. PricedFrom(charged, priced)
            <4>1. /\ BookOK(charged) /\ Waiting(charged) /\ units \in Nat /\ nav \in Int
                  /\ priced = PricedAt(charged, units, nav)
                BY <3>1, <1>6, <2>6, <2>8
            <4>2. QED BY <4>1, PricedAtIsOK
        <3>3. QED BY <3>2, <2>6, <2>7 DEF PricedFrom
    <2>10. /\ Keeps(priced, lowered) /\ lowered.cash = priced.cash /\ lowered.equity = priced.equity - x.cost
           /\ lowered.nav = priced.nav
        BY <1>7, <2>9 DEF BookOK, Keeps, Shape, BookFields
    <2>11. BookOK(lowered)
        <3>1. /\ priced.cash \in Int /\ priced.equity \in Int /\ priced.nav \in Int
              /\ priced.units = 0 => priced.nav >= 0
            BY <2>9 DEF BookOK, NumbersOK
        <3>2. QED BY <3>1, <1>14, <2>9, <2>10, KeptIsOK
    <2>12. Same(lowered, valued)
        BY <1>8, <2>11, RecordingKeeps DEF BookOK
    <2>13. BookOK(valued)
        BY <2>11, <2>12, SameIsOK
    <2>14. Keeps(priced, valued) /\ valued.cash = b.cash /\ valued.equity = charged.equity - x.cost
        BY <2>9, <2>10, <2>12 DEF Same, Keeps
    <2>15. /\ Waiting(valued) /\ valued.settlement.ids = x.ids /\ valued.withdrawals = charged.withdrawals
           /\ valued.due = charged.due
        BY <2>9, <2>14 DEF Keeps, Waiting, Priced
    <2>16. CASE priced.units = 0
        BY <1>11, <1>12, <1>18, <2>9, <2>16, WaitingIsBacked
    <2>17. CASE priced.units # 0 /\ payout < 0
        BY <1>11, <1>12, <1>18, <2>13, <2>15, <2>17, WaitingIsBacked
    <2>18. CASE priced.units # 0 /\ ~ (payout < 0)
        <3>1. /\ (charged.equity * units) \div charged.units \in Int
              /\ (charged.equity * units) \div charged.units <= charged.equity
            BY <2>6, <2>8, <2>9, <2>18, PartOfTheEquity
        <3>2. PICK q \in Int : /\ q = (charged.equity * units) \div charged.units
                               /\ q <= charged.equity /\ payout = q - x.cost
            BY <3>1, <1>9, <2>9
        <3>3. payout \in Nat /\ payout <= valued.equity
            BY <3>2, <1>14, <2>7, <2>14, <2>18
        <3>4. payout <= Larger(0, valued.cash + v - valued.due)
            <4>1. valued.equity + valued.due = seen.equity + b.due /\ valued.equity <= seen.equity /\ valued.due \in Int
                BY <1>14, <1>16, <2>1, <2>7, <2>14, <2>15
            <4>2. PICK a \in Int : a = b.cash + v - b.due /\ seen.equity = Larger(0, a)
                BY <1>13, <1>16
            <4>3. valued.equity \in Int
                BY <1>14, <2>7, <2>14
            <4>4. PICK fees \in Nat : valued.due = b.due + fees /\ valued.equity = seen.equity - fees
                <5>1. valued.due - b.due \in Nat
                    BY <1>16, <4>1, <4>3
                <5>2. QED BY <5>1, <1>16, <4>1, <4>3
            <4>5. valued.cash + v - valued.due = a - fees
                BY <1>16, <2>14, <4>2, <4>4
            <4>6. payout <= seen.equity - fees
                BY <3>3, <4>4
            <4>7. payout <= Larger(0, a - fees)
                BY <3>3, <4>2, <4>6 DEF Larger
            <4>8. QED BY <4>5, <4>7
        <3>5. units = UnitsOf(valued, x.ids)
            BY <1>5, <2>15 DEF UnitsOf
        <3>6. DOMAIN p = x.ids /\ (\A w \in x.ids : p[w] \in Nat) /\ SumFunctionOnSet(p, x.ids) <= payout
            BY <1>10, <1>14, <2>13, <3>3, <3>5, PayoutsFit DEF BookOK
        <3>7. c = Granted(valued, p)
            BY <1>12, <1>18, <2>18
        <3>8. QED BY <1>11, <2>13, <2>15, <3>3, <3>4, <3>6, <3>7, GrantedIsOK
    <2>19. QED BY <2>16, <2>17, <2>18
<1>19. QED BY <1>17, <1>18

--------------------------------------------------------------------------------
(* Redeemers are paid. *)

\* A redeemer's lots give exactly what he redeems.
LEMMA RedeemedIsOK ==
    ASSUME NEW p, InvestorOK(p), p.units # 0, NEW units \in Nat, units <= p.units, NEW amount,
           NEW q, q = Redeemed(p, units, amount)
    PROVE  /\ InvestorOK(q) /\ q.pending = p.pending /\ q.fees = p.fees
           /\ q.units = p.units - units
<1> DEFINE D == DOMAIN p.lots
<1>1. PICK old \in Seq(Lot) : old = p.lots
    BY DEF InvestorOK
<1>2. p.units \in Nat /\ UnitsIn(old) = p.units /\ UnitsIn(old) # 0
    BY <1>1 DEF InvestorOK
<1>3. PICK burned : burned = Burned(old, UnitsIn(old), units)
    OBVIOUS
<1>4. PICK lost : lost = [n \in DOMAIN old |-> burned.share[n] + burned.rest[n]]
    OBVIOUS
<1>5. /\ \A n \in DOMAIN old : /\ burned.share[n] \in Nat /\ burned.rest[n] \in Nat
                               /\ burned.share[n] + burned.rest[n] <= old[n].units
      /\ SumFunctionOnSet(lost, DOMAIN old) = units
    BY <1>2, <1>3, <1>4, BurnTakesAll
<1>6. PICK lots : lots = Without(old, burned)
    OBVIOUS
<1>7. /\ DOMAIN q = DOMAIN p /\ q.lots = lots /\ q.units = p.units - units /\ q.pending = p.pending /\ q.fees = p.fees
    <2>1. q = [p EXCEPT !.lots = lots, !.units = @ - units, !.paid = @ + amount]
        BY <1>1, <1>2, <1>3, <1>6 DEF Redeemed
    <2>2. DOMAIN p = {"pending", "units", "lots", "deposited", "paid", "fees"}
        BY DEF InvestorOK
    <2>3. QED BY <2>1, <2>2
<1>8. ASSUME NEW n \in DOMAIN old
      PROVE  lots[n] \in Lot /\ lost[n] \in Int /\ lots[n].units = old[n].units - lost[n]
    <2>1. old[n] \in Lot
        BY <1>1, LotsShape
    <2>2. PICK m \in Nat : /\ m = old[n].units - burned.share[n] - burned.rest[n]
                           /\ m = old[n].units - lost[n] /\ lost[n] \in Int
        <3>1. /\ old[n].units \in Nat /\ burned.share[n] \in Nat /\ burned.rest[n] \in Nat
              /\ burned.share[n] + burned.rest[n] <= old[n].units /\ lost[n] = burned.share[n] + burned.rest[n]
            BY <1>4, <1>5, <2>1 DEF Lot
        <3>2. QED BY <3>1
    <2>3. lots[n] = [old[n] EXCEPT !.units = m]
        BY <1>6, <2>2 DEF Without
    <2>4. lots[n] \in Lot /\ lots[n].units = m
        BY <2>1, <2>3 DEF Lot
    <2>5. QED BY <2>2, <2>4
<1>9. lots \in [DOMAIN old -> Lot] /\ \A n \in DOMAIN old : lost[n] \in Int /\ lots[n].units = old[n].units - lost[n]
    BY <1>6, <1>8 DEF Without
<1>10. lots \in Seq(Lot)
    BY <1>9, LotsRewritten
<1>11. UnitsIn(lots) = UnitsIn(old) - SumFunctionOnSet(lost, DOMAIN old)
    BY <1>9, LotsLose
<1>12. UnitsIn(lots) = p.units - units /\ p.units - units \in Nat
    BY <1>2, <1>5, <1>11
<1>13. InvestorOK(q)
    BY <1>7, <1>10, <1>12 DEF InvestorOK
<1>14. QED BY <1>7, <1>13

\* The book after one redeemer is paid, the others as they were.
PaidOut(b, w, amount, c) ==
    LET x == b.withdrawals[w]
        units == b.units - x.units
        equity == b.equity - amount
    IN  /\ Shape(c)
        /\ c.rate = b.rate /\ c.due = b.due /\ c.feePaid = b.feePaid /\ c.halfMinted = b.halfMinted
        /\ c.settlement = b.settlement
        /\ c.units = units /\ c.cash = b.cash - amount /\ c.equity = equity
        /\ c.nav = IF units # 0 THEN PricePerUnit(equity, units)
                   ELSE IF x.units # 0 THEN PricePerUnit(amount, x.units) ELSE b.nav
        /\ DOMAIN c.investors = Investors
        /\ c.investors[x.wallet] = Redeemed(b.investors[x.wallet], x.units, amount)
        /\ \A k \in Investors \ {x.wallet} : c.investors[k] = b.investors[k]
        /\ OnlyAt(b.withdrawals, c.withdrawals, w)
        /\ DOMAIN c.withdrawals[w] = DOMAIN x /\ c.withdrawals[w].status = "PAID"
        /\ c.withdrawals[w].amount = amount /\ c.withdrawals[w].units = x.units
        /\ c.withdrawals[w].wallet = x.wallet /\ c.withdrawals[w].kind = x.kind
\* burnWithdrawal(), and that the withdrawal is paid.
LEMMA PayingShape ==
    ASSUME NEW b, BookOK(b), NEW w \in Withdrawals, b.withdrawals[w].wallet \in Investors, NEW amount
    PROVE  PaidOut(b, w, amount, Paid(BurnWithdrawal(b, w, amount), w, amount))
<1>1. PICK x : x = b.withdrawals[w]
    OBVIOUS
<1>2. PICK i \in Investors : i = x.wallet
    BY <1>1
<1>3. PICK q : q = Redeemed(b.investors[i], x.units, amount)
    OBVIOUS
<1>4. PICK nav : nav = IF b.units - x.units # 0 THEN PricePerUnit(b.equity - amount, b.units - x.units)
                       ELSE IF x.units # 0 THEN PricePerUnit(amount, x.units) ELSE b.nav
    OBVIOUS
<1>5. PICK m : m = [b EXCEPT !.investors[i] = q, !.units = b.units - x.units, !.cash = @ - amount,
                             !.equity = b.equity - amount, !.nav = nav]
    OBVIOUS
<1>6. PICK d : d = BurnWithdrawal(b, w, amount)
    OBVIOUS
<1>7. d = RecordedAll(m, PayEvents(i, b.investors[i], x.units, amount))
    BY <1>1, <1>2, <1>3, <1>4, <1>5, <1>6 DEF BurnWithdrawal
<1>8. Shape(b) /\ DOMAIN b.investors = Investors /\ DOMAIN b.withdrawals = Withdrawals /\ WithdrawalOK(x)
    BY <1>1 DEF BookOK, InvestorsOK, WithdrawalsOK
<1>9. /\ Shape(m) /\ m.rate = b.rate /\ m.due = b.due /\ m.feePaid = b.feePaid /\ m.halfMinted = b.halfMinted
      /\ m.settlement = b.settlement /\ m.withdrawals = b.withdrawals
      /\ m.units = b.units - x.units /\ m.cash = b.cash - amount /\ m.equity = b.equity - amount /\ m.nav = nav
    BY <1>5, <1>8 DEF Shape, BookFields
<1>10. /\ DOMAIN m.investors = Investors /\ m.investors[i] = q
       /\ \A k \in Investors \ {i} : m.investors[k] = b.investors[k]
    BY <1>5, <1>8 DEF Shape, BookFields
<1>11. Same(m, d)
    BY <1>7, <1>9, RecordingKeeps
<1>12. PICK c : c = Paid(d, w, amount)
    OBVIOUS
<1>13. PaidIn(d, c, w, amount)
    <2>1. /\ Shape(d) /\ DOMAIN d.withdrawals = Withdrawals
          /\ DOMAIN d.withdrawals[w] = {"status", "wallet", "kind", "units", "amount", "debit", "credit"}
        BY <1>1, <1>8, <1>9, <1>11 DEF Same, Keeps, WithdrawalOK
    <2>2. QED BY <2>1, <1>12, PaidShape
<1>14. /\ d.rate = b.rate /\ d.due = b.due /\ d.feePaid = b.feePaid /\ d.halfMinted = b.halfMinted
       /\ d.settlement = b.settlement /\ d.withdrawals = b.withdrawals /\ d.investors = m.investors
       /\ d.units = b.units - x.units /\ d.cash = b.cash - amount /\ d.equity = b.equity - amount /\ d.nav = nav
    BY <1>9, <1>11 DEF Same, Keeps
<1>15. /\ Shape(c) /\ c.rate = b.rate /\ c.due = b.due /\ c.feePaid = b.feePaid /\ c.halfMinted = b.halfMinted
       /\ c.settlement = b.settlement
       /\ c.units = b.units - x.units /\ c.cash = b.cash - amount /\ c.equity = b.equity - amount /\ c.nav = nav
       /\ c.investors = m.investors
    BY <1>13, <1>14 DEF PaidIn, SameNumbers
<1>16. /\ OnlyAt(b.withdrawals, c.withdrawals, w)
       /\ DOMAIN c.withdrawals[w] = DOMAIN x /\ c.withdrawals[w].status = "PAID"
       /\ c.withdrawals[w].amount = amount /\ c.withdrawals[w].units = x.units
       /\ c.withdrawals[w].wallet = x.wallet /\ c.withdrawals[w].kind = x.kind
    BY <1>1, <1>13, <1>14 DEF PaidIn
<1>17. PaidOut(b, w, amount, c)
    BY <1>1, <1>2, <1>3, <1>4, <1>10, <1>15, <1>16 DEF PaidOut
<1>18. QED BY <1>6, <1>12, <1>17

\* Nobody owns a negative number of shares.
LEMMA OwnedIsNat ==
    ASSUME NEW I, InvestorsOK(I)
    PROVE  UnitsOwned(I) \in Nat
<1> DEFINE f == [i \in Investors |-> I[i].units]
<1>1. \A i \in Investors : f[i] \in Nat
    BY DEF InvestorsOK, InvestorOK
<1>2. Investors \in SUBSET Investors
    OBVIOUS
<1> HIDE DEF f
<1>3. SumFunctionOnSet(f, Investors) \in Nat
    BY <1>1, <1>2, SumGrows, ManyAreFinite
<1>4. QED BY <1>3 DEF UnitsOwned, f

\* A redeemer who is paid asks for nothing any more, and of what is owed his payout is gone.
LEMMA PaymentIsOK ==
    ASSUME NEW b, BookOK(b), Priced(b), NEW v \in Int, PayoutsBacked(b, v), NEW w \in Unpaid(b),
           NEW amount, amount = b.settlement.payouts[w],
           b.investors[b.withdrawals[w].wallet].units # 0,
           b.withdrawals[w].units <= b.investors[b.withdrawals[w].wallet].units,
           NEW c, PaidOut(b, w, amount, c)
    PROVE  BookOK(c) /\ Backed(c) /\ PayoutsBacked(c, v)
<1> DEFINE W == b.withdrawals
           V == c.withdrawals
           I == b.investors
           J == c.investors
<1>1. /\ InvestorsOK(I) /\ WithdrawalsOK(W) /\ SettlementOK(b.settlement, W) /\ Covered(I, W) /\ NumbersOK(b)
      /\ UnitsOwned(I) = b.units /\ FeesCharged(I) = b.due + b.feePaid
    BY DEF BookOK
<1>2. PICK x : x = W[w]
    OBVIOUS
<1>3. /\ w \in Withdrawals /\ w \in b.settlement.ids /\ x.status = "SETTLING" /\ x.kind = "UNITS" /\ amount \in Nat
      /\ Owed(b) \in Nat /\ IsFiniteSet(Unpaid(b)) /\ \A u \in Unpaid(b) : b.settlement.payouts[u] \in Nat
    BY <1>2, PayoutsType
<1>4. WithdrawalOK(x) /\ x.units \in Nat /\ x.wallet \in Investors
    BY <1>1, <1>2, <1>3 DEF WithdrawalsOK, WithdrawalOK
<1>5. PICK i \in Investors : i = x.wallet
    BY <1>4
<1>6. /\ Shape(c)
      /\ c.rate = b.rate /\ c.due = b.due /\ c.feePaid = b.feePaid /\ c.halfMinted = b.halfMinted
      /\ c.settlement = b.settlement
      /\ c.units = b.units - x.units /\ c.cash = b.cash - amount /\ c.equity = b.equity - amount
      /\ c.nav = IF c.units # 0 THEN PricePerUnit(c.equity, c.units)
                 ELSE IF x.units # 0 THEN PricePerUnit(amount, x.units) ELSE b.nav
    BY <1>2 DEF PaidOut
<1>7. /\ DOMAIN J = Investors
      /\ J[i] = Redeemed(I[i], x.units, amount)
      /\ \A k \in Investors \ {i} : J[k] = I[k]
    BY <1>2, <1>5 DEF PaidOut
<1>8. /\ OnlyAt(W, V, w) /\ DOMAIN V[w] = DOMAIN x /\ V[w].status = "PAID"
      /\ V[w].amount = amount /\ V[w].units = x.units /\ V[w].wallet = x.wallet /\ V[w].kind = x.kind
    BY <1>2 DEF PaidOut
<1>9. InvestorOK(I[i]) /\ I[i].units # 0 /\ x.units <= I[i].units
    BY <1>1, <1>2, <1>5 DEF InvestorsOK
<1>10. InvestorOK(J[i]) /\ J[i].pending = I[i].pending /\ J[i].fees = I[i].fees /\ J[i].units = I[i].units - x.units
    BY <1>4, <1>7, <1>9, RedeemedIsOK
<1> HIDE DEF W, V, I, J
<1>11. /\ InvestorsOK(J)
       /\ UnitsOwned(J) = UnitsOwned(I) - I[i].units + J[i].units
       /\ FeesCharged(J) = FeesCharged(I) - I[i].fees + J[i].fees
    BY <1>1, <1>7, <1>10, OneInvestorChanges
<1>12. /\ b.rate \in 0 .. RateCap /\ b.cash \in Int /\ b.equity \in Int /\ b.units \in Nat /\ b.nav \in Int
       /\ b.due \in Nat /\ b.feePaid \in Nat /\ b.halfMinted \in BOOLEAN /\ (b.units = 0 => b.nav >= 0)
    BY <1>1 DEF NumbersOK
<1>13. UnitsOwned(J) = c.units /\ c.units \in Nat /\ FeesCharged(J) = c.due + c.feePaid
    <2>1. I[i].units \in Nat /\ I[i].fees \in Nat
        BY <1>9 DEF InvestorOK
    <2>2. UnitsOwned(J) = c.units
        BY <2>1, <1>1, <1>4, <1>6, <1>10, <1>11, <1>12
    <2>3. FeesCharged(J) = c.due + c.feePaid
        BY <2>1, <1>1, <1>6, <1>10, <1>11, <1>12
    <2>4. QED BY <2>2, <2>3, <1>11, OwnedIsNat
<1>14. WithdrawalOK(V[w])
    BY <1>3, <1>4, <1>8 DEF WithdrawalOK
<1>15. WithdrawalsOK(V) /\ Covered(J, V)
    <2>1. ASSUME NEW k \in Investors
          PROVE  /\ WithdrawalsOK(V) /\ UnitsAsked(V, k) <= J[k].units /\ CashAsked(V, k) <= J[k].pending
        <3>1. /\ WithdrawalsOK(V)
              /\ UnitsAsked(V, k) = UnitsAsked(W, k) - UnitsBy(W[w], k) + UnitsBy(V[w], k)
              /\ CashAsked(V, k) = CashAsked(W, k) - CashBy(W[w], k) + CashBy(V[w], k)
            BY <1>1, <1>3, <1>8, <1>14, OneAsksOtherwise
        <3>2. UnitsBy(V[w], k) = 0 /\ CashBy(V[w], k) = 0
            BY <1>8, ClosedAskNothing DEF Open
        <3>3. /\ UnitsBy(W[w], k) = (IF k = i THEN x.units ELSE 0) /\ CashBy(W[w], k) = 0
            BY <1>2, <1>3, <1>5 DEF UnitsBy, CashBy, Open
        <3>4. /\ UnitsAsked(W, k) \in Nat /\ CashAsked(W, k) \in Nat
              /\ UnitsAsked(W, k) <= I[k].units /\ CashAsked(W, k) <= I[k].pending
              /\ I[k].units \in Nat /\ I[k].pending \in Nat
            BY <1>1, AskedOfAll DEF Covered, InvestorsOK, InvestorOK
        <3>5. J[k].pending = I[k].pending /\ J[k].units = IF k = i THEN I[k].units - x.units ELSE I[k].units
            BY <1>7, <1>10
        <3>6. CASE k = i
            BY <3>1, <3>2, <3>3, <3>4, <3>5, <3>6, <1>4
        <3>7. CASE k # i
            BY <3>1, <3>2, <3>3, <3>4, <3>5, <3>7
        <3>8. QED BY <3>6, <3>7
    <2>2. WithdrawalsOK(V)
        BY <1>1, <1>8, <1>14 DEF WithdrawalsOK, OnlyAt
    <2>3. QED BY <2>1, <2>2 DEF Covered
<1>16. SettlementOK(c.settlement, V)
    <2>1. \A u \in b.settlement.ids : V[u].kind = "UNITS" /\ V[u].status \in {"SETTLING", "PAID"}
        <3> TAKE u \in b.settlement.ids
        <3>1. u \in Withdrawals /\ W[u].kind = "UNITS" /\ W[u].status \in {"SETTLING", "PAID"}
            BY <1>1 DEF SettlementOK
        <3>2. CASE u = w
            BY <3>2, <1>3, <1>8
        <3>3. CASE u # w
            BY <3>1, <3>3, <1>8 DEF OnlyAt
        <3>4. QED BY <3>2, <3>3
    <2>2. b.settlement.payouts # <<>>
        BY DEF Priced
    <2>3. QED BY <2>1, <2>2, <1>1, <1>6 DEF SettlementOK
<1>17. Unpaid(c) = Unpaid(b) \ {w}
    <2>1. b.settlement.ids \subseteq Withdrawals
        BY <1>1 DEF SettlementOK
    <2>2. \A u \in b.settlement.ids : u # w => V[u] = W[u]
        BY <2>1, <1>8 DEF OnlyAt
    <2>3. V[w].status = "PAID"
        BY <1>8
    <2>4. QED BY <2>2, <2>3, <1>6 DEF Unpaid, V, W
<1>18. Owed(c) = Owed(b) - amount /\ Owed(c) \in Nat
    <2>1. PICK p : p = b.settlement.payouts
        OBVIOUS
    <2>2. PICK U : U = Unpaid(b)
        OBVIOUS
    <2>3. IsFiniteSet(U) /\ w \in U /\ (\A u \in U : p[u] \in Nat) /\ p[w] = amount
        BY <1>3, <2>1, <2>2
    <2>4. Owed(b) = SumFunctionOnSet(p, U) /\ Owed(c) = SumFunctionOnSet(p, U \ {w})
        BY <1>6, <1>17, <2>1, <2>2 DEF Owed
    <2>5. SumFunctionOnSet(p, U) = p[w] + SumFunctionOnSet(p, U \ {w})
        BY <2>3, SumTake
    <2>6. SumFunctionOnSet(p, U \ {w}) \in Nat
        <3>1. U \ {w} \in SUBSET U
            OBVIOUS
        <3>2. QED BY <2>3, <3>1, SumGrows
    <2>7. QED BY <1>3, <2>3, <2>4, <2>5, <2>6
<1>19. c.equity \in Nat /\ c.cash \in Int
    BY <1>3, <1>6, <1>12, <1>18 DEF PayoutsBacked
<1>20. c.nav \in Nat /\ c.units * c.nav <= c.equity * Scale
    <2>1. CASE c.units # 0
        BY <2>1, <1>6, <1>13, <1>19, PriceHolds
    <2>2. CASE c.units = 0
        <3>1. c.nav \in Nat
            <4>1. CASE x.units # 0
                <5>1. PricePerUnit(amount, x.units) \in Nat
                    BY <4>1, <1>3, <1>4, PriceHolds
                <5>2. QED BY <2>2, <4>1, <5>1, <1>6
            <4>2. CASE x.units = 0
                BY <2>2, <4>2, <1>6, <1>12
            <4>3. QED BY <4>1, <4>2
        <3>2. 0 * c.nav = 0 /\ c.equity * Scale \in Nat
            BY <3>1, <1>19, ScaleAssumption
        <3>3. QED BY <2>2, <3>1, <3>2
    <2>3. QED BY <2>1, <2>2
<1>21. BookOK(c)
    <2>1. NumbersOK(c)
        BY <1>6, <1>12, <1>13, <1>19, <1>20 DEF NumbersOK
    <2>2. QED BY <2>1, <1>6, <1>11, <1>13, <1>15, <1>16 DEF BookOK, V, J
<1>22. Backed(c)
    BY <1>20 DEF Backed, Holds
<1>23. PayoutsBacked(c, v)
    <2>1. PICK a \in Int : a = b.cash + v - b.due
        BY <1>12
    <2>2. c.cash + v - c.due = a - amount
        BY <2>1, <1>3, <1>6, <1>12
    <2>3. Owed(b) <= b.equity /\ Owed(b) <= Larger(0, a)
        BY <2>1 DEF PayoutsBacked
    <2>4. Owed(c) <= c.equity
        BY <2>3, <1>3, <1>6, <1>12, <1>18
    <2>5. Owed(c) <= Larger(0, a - amount)
        BY <2>3, <1>3, <1>18 DEF Larger
    <2>6. QED BY <2>2, <2>4, <2>5 DEF PayoutsBacked
<1>24. QED BY <1>21, <1>22, <1>23

--------------------------------------------------------------------------------
(* The operations. *)

\* Zeros add up to zero.
LEMMA SumZero ==
    ASSUME NEW S, IsFiniteSet(S), NEW f, \A x \in S : f[x] = 0
    PROVE  SumFunctionOnSet(f, S) = 0
<1>1. \A x \in S : f[x] \in Int /\ f[x] = f[x] - f[x]
    OBVIOUS
<1>2. SumFunctionOnSet(f, S) = SumFunctionOnSet(f, S) - SumFunctionOnSet(f, S)
    BY <1>1, SumDifference
<1>3. SumFunctionOnSet(f, S) \in Int
    BY <1>1, SumInt
<1>4. QED BY <1>2, <1>3

\* A book in order, with what the venue is worth.
Sound(b, v) == BookOK(b) /\ v \in Nat /\ Backed(b) /\ PayoutsBacked(b, v)

\* Recording one event writes the journal only.
LEMMA RecordedKeeps ==
    ASSUME NEW b, Shape(b), NEW e
    PROVE  Same(b, Recorded(b, e))
BY RecordingKeeps DEF Recorded

\* Before anything is allocated there is nothing.
LEMMA NewBookIsSound == Sound(NewBook, 0)
<1>1. PICK b : b = NewBook
    OBVIOUS
<1>2. /\ Shape(b) /\ b.rate = FirstRate /\ b.cash = 0 /\ b.equity = 0 /\ b.units = 0 /\ b.nav = Scale /\ b.due = 0
      /\ b.feePaid = 0 /\ b.halfMinted = FALSE /\ b.settlement = NoSettlement
      /\ b.investors = [i \in Investors |-> NewInvestor] /\ b.withdrawals = [w \in Withdrawals |-> NoWithdrawal]
    BY <1>1 DEF NewBook, Shape, BookFields
<1>3. NumbersOK(b)
    <2>1. Scale \in Nat /\ FirstRate \in 0 .. RateCap
        BY ScaleAssumption, RatesAssumption
    <2>2. /\ b.rate \in 0 .. RateCap /\ b.cash \in Int /\ b.equity \in Int /\ b.units \in Nat /\ b.nav \in Int
          /\ b.due \in Nat /\ b.feePaid \in Nat /\ b.nav >= 0
        BY <2>1, <1>2
    <2>3. b.halfMinted \in BOOLEAN
        BY <1>2
    <2>4. QED BY <2>2, <2>3 DEF NumbersOK
<1>4. InvestorOK(NewInvestor)
    <2>1. <<>> \in Seq(Lot) /\ DOMAIN <<>> = {}
        BY EmptySeq
    <2>2. UnitsIn(<<>>) = 0
        BY <2>1, SumEmpty DEF UnitsIn
    <2>3. /\ DOMAIN NewInvestor = {"pending", "units", "lots", "deposited", "paid", "fees"}
          /\ NewInvestor.pending = 0 /\ NewInvestor.units = 0 /\ NewInvestor.fees = 0 /\ NewInvestor.lots = <<>>
        BY DEF NewInvestor
    <2>4. QED BY <2>1, <2>2, <2>3 DEF InvestorOK
<1>5. InvestorsOK(b.investors) /\ \A i \in Investors : b.investors[i].units = 0 /\ b.investors[i].fees = 0
    BY <1>2, <1>4 DEF InvestorsOK, NewInvestor
<1>6. WithdrawalsOK(b.withdrawals) /\ \A w \in Withdrawals : b.withdrawals[w].status = "none"
    BY <1>2 DEF WithdrawalsOK, WithdrawalOK, NoWithdrawal
<1>7. SettlementOK(b.settlement, b.withdrawals)
    BY <1>2 DEF SettlementOK, NoSettlement
<1>8. Covered(b.investors, b.withdrawals)
    <2>1. ASSUME NEW i \in Investors
          PROVE  /\ UnitsAsked(b.withdrawals, i) <= b.investors[i].units
                 /\ CashAsked(b.withdrawals, i) <= b.investors[i].pending
        <3>1. Asked(b.withdrawals, i, "UNITS") = {} /\ Asked(b.withdrawals, i, "PENDING") = {}
            BY <1>6 DEF Asked, Open
        <3>2. UnitsAsked(b.withdrawals, i) = 0 /\ CashAsked(b.withdrawals, i) = 0
            BY <3>1, SumEmpty DEF UnitsAsked, CashAsked
        <3>3. b.investors[i].units \in Nat /\ b.investors[i].pending \in Nat
            BY <1>5 DEF InvestorsOK, InvestorOK
        <3>4. QED BY <3>2, <3>3
    <2>2. QED BY <2>1 DEF Covered
<1>9. UnitsOwned(b.investors) = 0 /\ FeesCharged(b.investors) = 0
    <2> DEFINE f == [i \in Investors |-> b.investors[i].units]
               g == [i \in Investors |-> b.investors[i].fees]
    <2>1. /\ \A i \in Investors : f[i] = 0
          /\ \A i \in Investors : g[i] = 0
        BY <1>5
    <2>2. /\ UnitsOwned(b.investors) = SumFunctionOnSet(f, Investors)
          /\ FeesCharged(b.investors) = SumFunctionOnSet(g, Investors)
        BY DEF UnitsOwned, FeesCharged
    <2> HIDE DEF f, g
    <2>3. SumFunctionOnSet(f, Investors) = 0 /\ SumFunctionOnSet(g, Investors) = 0
        BY <2>1, SumZero, ManyAreFinite
    <2>4. QED BY <2>2, <2>3
<1>10. BookOK(b)
    BY <1>2, <1>3, <1>5, <1>6, <1>7, <1>8, <1>9 DEF BookOK
<1>11. Backed(b) /\ PayoutsBacked(b, 0)
    <2>1. ~Priced(b)
        BY <1>2 DEF Priced
    <2>2. Holds(b)
        <3>1. Scale \in Nat /\ 0 * Scale = 0
            BY ScaleAssumption
        <3>2. QED BY <3>1, <1>2 DEF Holds
    <2>3. QED BY <2>1, <2>2, NothingOwed DEF Backed
<1>12. QED BY <1>1, <1>10, <1>11 DEF Sound

\* Proofs are made of the journal.
LEMMA ReplayIsSound ==
    ASSUME NEW b, NEW v, Sound(b, v), NEW c, c = [b EXCEPT !.events = <<>>]
    PROVE  Sound(c, v)
<1>1. Same(b, c)
    BY DEF Sound, BookOK, Same, Keeps, Shape, BookFields
<1>2. QED BY <1>1, SameIsOK DEF Sound

\* The book is marked with what is there.
LEMMA ObservationIsSound ==
    ASSUME NEW b, NEW v, Sound(b, v), NEW assess, NEW c, c = Observed(b, v, assess)
    PROVE  Sound(c, v) /\ Keeps(b, c) /\ c.nav \in Nat
<1>1. BookOK(b) /\ v \in Int
    BY DEF Sound
<1>2. /\ BookOK(c) /\ Keeps(b, c) /\ c.nav \in Nat /\ Backed(c)
      /\ PayoutsBacked(b, v) => PayoutsBacked(c, v)
    BY <1>1, ObservedIsOK
<1>3. QED BY <1>2 DEF Sound

\* allocateCash().
LEMMA AllocatingIsSound ==
    ASSUME NEW b, NEW v, Sound(b, v), NEW i \in Investors, NEW amount \in Nat, NEW e,
           NEW c, c = Recorded([b EXCEPT !.investors[i].pending = @ + amount, !.investors[i].deposited = @ + amount], e)
    PROVE  Sound(c, v)
<1>1. PICK d : d = [b EXCEPT !.investors[i].pending = @ + amount, !.investors[i].deposited = @ + amount]
    OBVIOUS
<1>2. Shape(d)
    BY <1>1 DEF Sound, BookOK, Shape, BookFields
<1>3. Same(d, c)
    BY <1>1, <1>2, RecordedKeeps
<1>4. BookOK(c) /\ SamePrices(b, c)
    BY <1>1, <1>3, AllocationIsOK DEF Sound
<1>5. QED BY <1>4, PricesAreBacked DEF Sound

\* activatePending(), whether it ends early or not.
LEMMA ActivatingIsSound ==
    ASSUME NEW b, NEW v, Sound(b, v), b.nav \in Nat,
           NEW c, \/ c = b
                  \/ b.nav # 0 /\ c = HalfMinted(b)
                  \/ b.nav # 0 /\ c = FullyMinted(b)
    PROVE  Sound(c, v)
<1>1. BookOK(b) /\ Backed(b) /\ PayoutsBacked(b, v) /\ v \in Nat /\ v \in Int
    BY DEF Sound
<1>2. CASE c = b
    BY <1>2
<1>3. CASE b.nav # 0 /\ c = HalfMinted(b)
    <2>1. BookOK(c) /\ Backed(c) /\ (PayoutsBacked(b, v) => PayoutsBacked(c, v))
        BY <1>1, <1>3, HalfMintingIsOK
    <2>2. QED BY <1>1, <2>1 DEF Sound
<1>4. CASE b.nav # 0 /\ c = FullyMinted(b)
    <2>1. BookOK(c) /\ Backed(c) /\ (PayoutsBacked(b, v) => PayoutsBacked(c, v))
        BY <1>1, <1>4, FullMintingIsOK
    <2>2. QED BY <1>1, <2>1 DEF Sound
<1>5. QED BY <1>2, <1>3, <1>4

\* Without a price on a settlement the venue may be worth anything.
LEMMA VenueIsFree ==
    ASSUME NEW b, NEW v, Sound(b, v), ~Priced(b), NEW u \in Nat
    PROVE  Sound(b, u)
BY NothingOwed DEF Sound

\* Performance fees are crystallized without redemptions.
LEMMA ChargingIsSound ==
    ASSUME NEW b, NEW v, Sound(b, v), b.nav \in Nat, b.settlement = NoSettlement,
           NEW c, c = CrystallizeFees(b, NoExits)
    PROVE  Sound(c, v) /\ c.settlement = NoSettlement
<1>1. \A i \in Investors : NoExits[i] \in Nat /\ NoExits[i] \in Int
    BY DEF NoExits
<1>2. FeesTaken(b, c)
    <2>1. BookOK(b)
        BY DEF Sound
    <2>2. FeesFit(b, NoExits)
        BY <1>1, <2>1, CostsFit
    <2>3. QED BY <1>1, <2>1, <2>2, FeesAreOK
<1>3. BookOK(c) /\ c.settlement = NoSettlement
    BY <1>2 DEF FeesTaken
<1>4. Backed(c)
    BY <1>2, FeesKeepTheSettlement DEF Sound
<1>5. ~Priced(c)
    BY <1>3 DEF Priced
<1>6. QED BY <1>3, <1>4, <1>5, NothingOwed DEF Sound

\* The performance fee is another one.
LEMMA RateIsSound ==
    ASSUME NEW b, NEW v, Sound(b, v), b.settlement = NoSettlement, NEW rate \in 0 .. RateCap, NEW e,
           NEW c, c = Recorded([b EXCEPT !.rate = rate], e)
    PROVE  Sound(c, v)
<1>1. PICK d : d = [b EXCEPT !.rate = rate]
    OBVIOUS
<1>2. Shape(d)
    BY <1>1 DEF Sound, BookOK, Shape, BookFields
<1>3. Same(d, c)
    BY <1>1, <1>2, RecordedKeeps
<1>4. BookOK(c) /\ (Backed(b) => Backed(c)) /\ (Priced(c) <=> Priced(b))
    BY <1>1, <1>3, RateIsOK DEF Sound
<1>5. ~Priced(c)
    BY <1>4 DEF Priced
<1>6. QED BY <1>4, <1>5, NothingOwed DEF Sound

\* The manager is paid.
LEMMA FeePaymentIsSound ==
    ASSUME NEW b, NEW v, Sound(b, v), b.settlement = NoSettlement, NEW e,
           NEW c, c = Recorded(FeesPaid(b), e)
    PROVE  Sound(c, v)
<1>1. PICK d : d = FeesPaid(b)
    OBVIOUS
<1>2. Shape(d)
    BY <1>1 DEF Sound, BookOK, Shape, BookFields, FeesPaid
<1>3. Same(d, c)
    BY <1>1, <1>2, RecordedKeeps
<1>4. BookOK(c) /\ (Backed(b) => Backed(c)) /\ (Priced(c) <=> Priced(b))
    BY <1>1, <1>3, FeePaymentIsOK DEF Sound
<1>5. ~Priced(c)
    BY <1>4 DEF Priced
<1>6. QED BY <1>4, <1>5, NothingOwed DEF Sound

\* A request is made, or cancelled.
LEMMA RequestIsSound ==
    ASSUME NEW b, NEW v, Sound(b, v), NEW c, BookOK(c), SamePrices(b, c)
    PROVE  Sound(c, v)
BY PricesAreBacked DEF Sound

\* Money that did not become shares is paid back.
LEMMA ReturnIsSound ==
    ASSUME NEW b, NEW v, Sound(b, v), NEW w \in Withdrawals, NEW e,
           b.withdrawals[w].status = "REQUESTED", b.withdrawals[w].kind = "PENDING",
           b.withdrawals[w].amount <= b.investors[b.withdrawals[w].wallet].pending,
           NEW c, c = Recorded(Paid(PaidBack(b, b.withdrawals[w].wallet, b.withdrawals[w].amount),
                                    w, b.withdrawals[w].amount), e)
    PROVE  Sound(c, v)
<1>1. /\ BookOK(b) /\ Shape(b) /\ DOMAIN b.withdrawals = Withdrawals /\ WithdrawalOK(b.withdrawals[w])
    BY DEF Sound, BookOK, WithdrawalsOK
<1>2. PICK i \in Investors : i = b.withdrawals[w].wallet
    BY <1>1 DEF WithdrawalOK
<1>3. PICK amount \in Nat : amount = b.withdrawals[w].amount
    BY <1>1 DEF WithdrawalOK
<1>4. PICK d : d = PaidBack(b, i, amount)
    OBVIOUS
<1>5. Shape(d) /\ d.withdrawals = b.withdrawals
    BY <1>1, <1>4 DEF PaidBack, Shape, BookFields
<1>6. PICK f : f = Paid(d, w, amount)
    OBVIOUS
<1>7. Shape(f)
    BY <1>1, <1>5, <1>6, PaidShape DEF PaidIn, SameNumbers, WithdrawalOK
<1>8. c = Recorded(f, e)
    BY <1>2, <1>3, <1>4, <1>6
<1>9. Same(Paid(d, w, amount), c)
    BY <1>6, <1>7, <1>8, RecordedKeeps
<1>10. BookOK(c) /\ SamePrices(b, c)
    BY <1>1, <1>2, <1>3, <1>4, <1>9, ReturnIsOK
<1>11. QED BY <1>10, RequestIsSound

\* The redemptions that are due are settled together.
LEMMA OpeningIsSound ==
    ASSUME NEW b, NEW v, Sound(b, v), NEW ids \in SUBSET Withdrawals, ids # {}, NEW units \in Nat,
           \A w \in ids : b.withdrawals[w].status = "REQUESTED" /\ b.withdrawals[w].kind = "UNITS",
           NEW c, c = Opened(b, ids, units)
    PROVE  Sound(c, v)
<1>1. BookOK(c) /\ ~Priced(c) /\ c.settlement # NoSettlement
    BY OpeningIsOK DEF Sound
<1>2. QED BY <1>1, NothingOwed DEF Sound

\* Positions are closed for them.
LEMMA ClosingPositionsIsSound ==
    ASSUME NEW b, NEW v, Sound(b, v), Waiting(b), NEW cost \in Int, NEW c, c = [b EXCEPT !.settlement.cost = @ + cost]
    PROVE  Sound(c, v)
<1>1. BookOK(c) /\ ~Priced(c) /\ c.settlement # NoSettlement
    BY CostIsOK DEF Sound, Waiting
<1>2. QED BY <1>1, NothingOwed DEF Sound

\* One redeemer is paid.
LEMMA PaymentIsSound ==
    ASSUME NEW b, NEW v, Sound(b, v), Priced(b), NEW w \in Unpaid(b),
           b.investors[b.withdrawals[w].wallet].units # 0,
           b.withdrawals[w].units <= b.investors[b.withdrawals[w].wallet].units,
           NEW c, c = Paid(BurnWithdrawal(b, w, b.settlement.payouts[w]), w, b.settlement.payouts[w])
    PROVE  Sound(c, v)
<1>1. BookOK(b) /\ v \in Nat /\ v \in Int /\ PayoutsBacked(b, v)
    BY DEF Sound
<1>2. w \in Withdrawals /\ b.withdrawals[w].status = "SETTLING"
    BY <1>1, PayoutsType
<1>3. b.withdrawals[w].wallet \in Investors
    BY <1>1, <1>2 DEF BookOK, WithdrawalsOK, WithdrawalOK
<1>4. PICK amount : amount = b.settlement.payouts[w]
    OBVIOUS
<1>5. PaidOut(b, w, amount, c)
    BY <1>1, <1>2, <1>3, <1>4, PayingShape
<1>6. BookOK(c) /\ Backed(c) /\ PayoutsBacked(c, v)
    BY <1>1, <1>4, <1>5, PaymentIsOK
<1>7. QED BY <1>1, <1>6 DEF Sound

\* And when all are, it is over.
LEMMA CompletionIsSound ==
    ASSUME NEW b, NEW v, Sound(b, v), Priced(b), Unpaid(b) = {}, NEW c, c = [b EXCEPT !.settlement = NoSettlement]
    PROVE  Sound(c, v)
<1>1. BookOK(c) /\ ~Priced(c) /\ (Backed(b) => Backed(c))
    BY ClosingIsOK DEF Sound
<1>2. QED BY <1>1, NothingOwed DEF Sound

--------------------------------------------------------------------------------
(* The steps. *)

\* The invariant says that the book is in order.
LEMMA InvariantIsSound == InOrder <=> Sound(book, venue)
BY DEF InOrder, Sound

\* Money is allocated.
LEMMA AllocateKeeps ==
    ASSUME InOrder, NEW i \in Investors, NEW amount \in Amounts, Allocate(i, amount)
    PROVE  Sound(book', venue')
<1>1. Sound(book, venue) /\ amount \in Nat
    BY InvariantIsSound, AmountsAssumption
<1>2. venue' = venue /\ book' = Recorded(
          [book EXCEPT !.investors[i].pending = @ + amount, !.investors[i].deposited = @ + amount],
          [kind |-> "DEPOSIT", who |-> i, amount |-> amount])
    BY DEF Allocate
<1>3. QED BY <1>1, <1>2, AllocatingIsSound

\* Deposits become shares.
LEMMA ActivatePendingKeeps ==
    ASSUME InOrder, ActivatePending
    PROVE  Sound(book', venue')
<1>1. PICK b : b = Observed(book, venue, TRUE)
    OBVIOUS
<1>2. PICK yes \in BOOLEAN : yes = TRUE
    OBVIOUS
<1>3. Sound(b, venue) /\ b.nav \in Nat
    BY <1>1, <1>2, InvariantIsSound, ObservationIsSound
<1>4. venue' = venue /\ (book' = b \/ (b.nav # 0 /\ book' = HalfMinted(b)) \/ (b.nav # 0 /\ book' = FullyMinted(b)))
    <2>1. PICK admitted : admitted = AdmittedOfAll(b)
        OBVIOUS
    <2>2. book' = IF b.status # "ACTIVE" \/ b.nav = 0 THEN b
                  ELSE IF \E i \in Investors : TooSmall(b, i)
                  THEN [WithMinted(b) EXCEPT !.halfMinted = @ \/ Minted(b) # {}]
                  ELSE [WithMinted(b) EXCEPT !.cash = @ + admitted, !.equity = @ + admitted]
        BY <1>1, <2>1 DEF ActivatePending, AdmittedOfAll
    <2>3. venue' = venue
        BY DEF ActivatePending
    <2>4. HalfMinted(b) = [WithMinted(b) EXCEPT !.halfMinted = @ \/ Minted(b) # {}]
        BY DEF HalfMinted
    <2>5. FullyMinted(b) = [WithMinted(b) EXCEPT !.cash = @ + admitted, !.equity = @ + admitted]
        BY <2>1 DEF FullyMinted
    <2>6. CASE b.status # "ACTIVE" \/ b.nav = 0
        BY <2>2, <2>3, <2>6
    <2>7. CASE ~(b.status # "ACTIVE" \/ b.nav = 0) /\ \E i \in Investors : TooSmall(b, i)
        BY <2>2, <2>3, <2>4, <2>7
    <2>8. CASE ~(b.status # "ACTIVE" \/ b.nav = 0) /\ ~\E i \in Investors : TooSmall(b, i)
        BY <2>2, <2>3, <2>5, <2>8
    <2>9. QED BY <2>6, <2>7, <2>8
<1>5. QED BY <1>3, <1>4, ActivatingIsSound

\* The book is observed.
LEMMA ObserveKeeps ==
    ASSUME InOrder, Observe
    PROVE  Sound(book', venue')
<1>1. PICK yes \in BOOLEAN : yes = TRUE
    OBVIOUS
<1>2. book' = Observed(book, venue, yes) /\ venue' = venue
    BY <1>1 DEF Observe
<1>3. QED BY <1>2, InvariantIsSound, ObservationIsSound

\* Cash goes to the venue.
LEMMA FundVenueKeeps ==
    ASSUME InOrder, NEW amount \in VenueAmounts, FundVenue(amount)
    PROVE  Sound(book', venue')
<1>1. PICK delta \in Int : delta = -amount /\ amount \in Nat
    BY AmountsAssumption
<1>2. BookOK(book) /\ venue \in Nat /\ Backed(book) /\ PayoutsBacked(book, venue)
    BY DEF InOrder
<1>3. book' = Transferred(book, delta) /\ venue' = venue - delta /\ venue' \in Nat /\ venue \in Int
    BY <1>1, <1>2 DEF FundVenue
<1>4. LET c == Transferred(book, delta) IN
              /\ BookOK(c)
              /\ Backed(book) => Backed(c)
              /\ PayoutsBacked(book, venue) => PayoutsBacked(c, venue - delta)
    BY <1>2, <1>3, TransferIsOK
<1>5. QED BY <1>2, <1>3, <1>4 DEF Sound

\* And comes back.
LEMMA RecoverVenueKeeps ==
    ASSUME InOrder, RecoverVenue
    PROVE  Sound(book', venue')
<1>1. BookOK(book) /\ venue \in Nat /\ venue \in Int /\ Backed(book) /\ PayoutsBacked(book, venue)
    BY DEF InOrder
<1>2. book' = Transferred(book, venue) /\ venue' = venue - venue /\ venue' \in Nat
    BY <1>1 DEF RecoverVenue
<1>3. LET c == Transferred(book, venue) IN
              /\ BookOK(c)
              /\ Backed(book) => Backed(c)
              /\ PayoutsBacked(book, venue) => PayoutsBacked(c, venue - venue)
    BY <1>1, TransferIsOK
<1>4. QED BY <1>1, <1>2, <1>3 DEF Sound

\* Prices move, but not while there is a price to redeem at.
LEMMA MarketMovesKeeps ==
    ASSUME InOrder, MarketMoves
    PROVE  Sound(book', venue')
<1>1. Sound(book, venue) /\ venue \in Nat /\ ~Priced(book) /\ venue' \in {0, 2 * venue} /\ book' = book
    BY InvariantIsSound DEF InOrder, MarketMoves
<1>2. venue' \in Nat
    BY <1>1
<1>3. QED BY <1>1, <1>2, VenueIsFree

\* A part of an investor's shares is asked back.
LEMMA RequestWithdrawalKeeps ==
    ASSUME InOrder, NEW w \in Withdrawals, NEW i \in Investors, NEW percentage \in Percentages,
           RequestWithdrawal(w, i, percentage)
    PROVE  Sound(book', venue')
<1>1. Sound(book, venue) /\ BookOK(book)
    BY InvariantIsSound DEF InOrder
<1>2. PICK reserved : reserved = ReservedUnits(book, i)
    OBVIOUS
<1>3. PICK free : free = book.investors[i].units - reserved
    OBVIOUS
<1>4. PICK value : value = (free * percentage) \div 100
    OBVIOUS
<1>5. value \in Nat
    <2>1. reserved \in Nat /\ reserved <= book.investors[i].units /\ book.investors[i].units \in Nat
        BY <1>1, <1>2, AskedIsCovered, ReservedIsAsked
    <2>2. free \in Nat /\ percentage \in Nat
        BY <2>1, <1>3, AmountsAssumption
    <2>3. free * percentage \in Nat
        BY <2>2
    <2>4. 100 \in Nat \ {0}
        OBVIOUS
    <2>5. QED BY <2>3, <2>4, <1>4, FloorNat
<1>6. PICK kind \in {"UNITS", "PENDING"} : kind = "UNITS"
    OBVIOUS
<1>7. Request(w, i, kind, value, reserved, book.investors[i].units)
    BY <1>2, <1>3, <1>4, <1>6 DEF RequestWithdrawal
<1>8. book.withdrawals[w].status = "none" /\ value + reserved <= book.investors[i].units /\ venue' = venue
    BY <1>7 DEF Request
<1>9. book' = [book EXCEPT !.withdrawals[w] =
          [NoWithdrawal EXCEPT !.status = "REQUESTED", !.wallet = i, !.kind = kind,
             !.units = IF kind = "UNITS" THEN value ELSE 0, !.amount = IF kind = "PENDING" THEN value ELSE 0]]
    BY <1>7 DEF Request
<1>10. BookOK(book') /\ SamePrices(book, book')
    BY <1>1, <1>2, <1>5, <1>6, <1>8, <1>9, RequestIsOK
<1>11. QED BY <1>1, <1>8, <1>10, RequestIsSound

\* Money that did not become shares is asked back.
LEMMA RequestPendingKeeps ==
    ASSUME InOrder, NEW w \in Withdrawals, NEW i \in Investors, NEW amount \in Returns,
           RequestPendingWithdrawal(w, i, amount)
    PROVE  Sound(book', venue')
<1>1. Sound(book, venue) /\ BookOK(book) /\ amount \in Nat
    BY InvariantIsSound, AmountsAssumption DEF InOrder
<1>2. PICK kind \in {"UNITS", "PENDING"} : kind = "PENDING"
    OBVIOUS
<1>3. Request(w, i, kind, amount, ReservedCash(book, i), book.investors[i].pending)
    BY <1>2 DEF RequestPendingWithdrawal
<1>4. /\ book.withdrawals[w].status = "none" /\ amount + ReservedCash(book, i) <= book.investors[i].pending
      /\ venue' = venue
    BY <1>3 DEF Request
<1>5. book' = [book EXCEPT !.withdrawals[w] =
          [NoWithdrawal EXCEPT !.status = "REQUESTED", !.wallet = i, !.kind = kind,
             !.units = IF kind = "UNITS" THEN amount ELSE 0, !.amount = IF kind = "PENDING" THEN amount ELSE 0]]
    BY <1>3 DEF Request
<1>6. BookOK(book') /\ SamePrices(book, book')
    BY <1>1, <1>2, <1>4, <1>5, RequestIsOK
<1>7. QED BY <1>1, <1>4, <1>6, RequestIsSound

\* A request is cancelled.
LEMMA CancelKeeps ==
    ASSUME InOrder, NEW w \in Withdrawals, CancelWithdrawal(w)
    PROVE  Sound(book', venue')
<1>1. Sound(book, venue) /\ BookOK(book)
    BY InvariantIsSound DEF InOrder
<1>2. /\ book.withdrawals[w].status = "REQUESTED" /\ venue' = venue
      /\ book' = [book EXCEPT !.withdrawals[w].status = "CANCELLED"]
    BY DEF CancelWithdrawal
<1>3. BookOK(book') /\ SamePrices(book, book')
    BY <1>1, <1>2, CancellationIsOK
<1>4. QED BY <1>1, <1>2, <1>3, RequestIsSound

\* Money that did not become shares is paid back.
LEMMA SettlePendingKeeps ==
    ASSUME InOrder, NEW w \in Withdrawals, SettlePending(w)
    PROVE  Sound(book', venue')
<1>1. PICK x : x = book.withdrawals[w]
    OBVIOUS
<1>2. /\ x.status = "REQUESTED" /\ x.kind = "PENDING" /\ x.amount <= book.investors[x.wallet].pending /\ venue' = venue
      /\ book' = Recorded(Paid(PaidBack(book, x.wallet, x.amount), w, x.amount),
                          [kind |-> "PENDING_PAY", who |-> x.wallet, amount |-> x.amount])
    BY <1>1 DEF SettlePending, PaidBack
<1>3. QED BY <1>1, <1>2, InvariantIsSound, ReturnIsSound

\* A cutoff without redemptions.
LEMMA CutoffKeeps ==
    ASSUME InOrder, CutoffFees
    PROVE  Sound(book', venue')
<1>1. PICK yes \in BOOLEAN : yes = TRUE
    OBVIOUS
<1>2. PICK b : b = Observed(book, venue, yes)
    OBVIOUS
<1>3. book.settlement = NoSettlement /\ venue' = venue /\ book' = CrystallizeFees(b, NoExits)
    BY <1>1, <1>2 DEF CutoffFees
<1>4. Sound(b, venue) /\ b.nav \in Nat /\ b.settlement = NoSettlement
    BY <1>2, <1>3, InvariantIsSound, ObservationIsSound DEF Keeps
<1>5. QED BY <1>3, <1>4, ChargingIsSound

\* A cutoff with redemptions.
LEMMA OpenSettlementKeeps ==
    ASSUME InOrder, OpenSettlement
    PROVE  Sound(book', venue')
<1>1. PICK yes \in BOOLEAN : yes = TRUE
    OBVIOUS
<1>2. PICK b : b = Observed(book, venue, yes)
    OBVIOUS
<1>3. PICK ids \in SUBSET Withdrawals : ids = Due
    BY DEF Due
<1>4. PICK units : units = UnitsOf(book, ids)
    OBVIOUS
<1>5. ids # {} /\ venue' = venue /\ book' = Opened(b, ids, units)
    BY <1>1, <1>2, <1>3, <1>4 DEF OpenSettlement, Opened
<1>6. Sound(b, venue) /\ b.withdrawals = book.withdrawals
    BY <1>2, InvariantIsSound, ObservationIsSound DEF Keeps
<1>7. \A w \in ids : b.withdrawals[w].status = "REQUESTED" /\ b.withdrawals[w].kind = "UNITS"
    BY <1>3, <1>6 DEF Due
<1>8. units \in Nat
    <2> DEFINE f == [w \in Withdrawals |-> book.withdrawals[w].units]
    <2>1. \A w \in Withdrawals : f[w] \in Nat
        BY DEF InOrder, BookOK, WithdrawalsOK, WithdrawalOK
    <2>2. units = SumFunctionOnSet(f, ids)
        BY <1>4 DEF UnitsOf
    <2> HIDE DEF f
    <2>3. QED BY <2>1, <2>2, SumGrows, ManyAreFinite
<1>9. QED BY <1>5, <1>6, <1>7, <1>8, OpeningIsSound

\* Positions are closed for a redemption.
LEMMA ClosePositionsKeeps ==
    ASSUME InOrder, NEW cost \in Costs, ClosePositions(cost)
    PROVE  Sound(book', venue')
<1>1. PICK no \in BOOLEAN : no = FALSE
    OBVIOUS
<1>2. PICK left : left = venue - cost
    OBVIOUS
<1>3. PICK b : b = Observed(book, left, no)
    OBVIOUS
<1>4. /\ book.settlement # NoSettlement /\ ~Priced(book) /\ cost <= venue /\ venue' = left
      /\ book' = [b EXCEPT !.settlement.cost = @ + cost]
    BY <1>1, <1>2, <1>3 DEF ClosePositions
<1>5. cost \in Int /\ left \in Nat
    <2>1. cost \in Int /\ venue \in Nat
        BY AmountsAssumption DEF InOrder
    <2>2. QED BY <2>1, <1>2, <1>4
<1>6. Sound(book, left)
    BY <1>4, <1>5, InvariantIsSound, VenueIsFree
<1>7. Sound(b, left) /\ Keeps(book, b)
    BY <1>3, <1>6, ObservationIsSound
<1>8. Waiting(b)
    BY <1>4, <1>7 DEF Keeps, Waiting, Priced
<1>9. QED BY <1>4, <1>5, <1>7, <1>8, ClosingPositionsIsSound

\* A settlement gets its price and overcharges no lot.
LEMMA PriceSettlementKeeps ==
    ASSUME InOrder, PriceSettlement, ~overcharged'
    PROVE  Sound(book', venue')
<1>1. /\ BookOK(book) /\ Waiting(book) /\ venue \in Nat /\ venue \in Int /\ venue' = venue
      /\ book' = PricedBook(book, venue) /\ ~Overcharging(book, venue)
    BY DEF InOrder, PriceSettlement, Waiting
<1>2. LET c == PricedBook(book, venue) IN BookOK(c) /\ Backed(c) /\ PayoutsBacked(c, venue)
    BY <1>1, PricedBookIsOK
<1>3. QED BY <1>1, <1>2 DEF Sound

\* A redeemer is paid.
LEMMA PaySettlementKeeps ==
    ASSUME InOrder, PaySettlement
    PROVE  Sound(book', venue')
<1>1. Priced(book) /\ venue' = venue
    BY DEF PaySettlement
<1>2. PICK w \in Unpaid(book) :
             /\ book.investors[book.withdrawals[w].wallet].units # 0
             /\ book.withdrawals[w].units <= book.investors[book.withdrawals[w].wallet].units
             /\ book' = Paid(BurnWithdrawal(book, w, book.settlement.payouts[w]), w, book.settlement.payouts[w])
    BY DEF PaySettlement
<1>3. QED BY <1>1, <1>2, InvariantIsSound, PaymentIsSound

\* A settlement is over.
LEMMA CloseSettlementKeeps ==
    ASSUME InOrder, CloseSettlement
    PROVE  Sound(book', venue')
<1>1. /\ Priced(book) /\ Unpaid(book) = {} /\ venue' = venue
      /\ book' = [book EXCEPT !.settlement = NoSettlement]
    BY DEF CloseSettlement
<1>2. QED BY <1>1, InvariantIsSound, CompletionIsSound

\* The manager is paid.
LEMMA PayFeesKeeps ==
    ASSUME InOrder, PayFees
    PROVE  Sound(book', venue')
<1>1. /\ book.settlement = NoSettlement /\ venue' = venue
      /\ book' = Recorded(FeesPaid(book), [kind |-> "FEE_PAY", amount |-> book.due])
    BY DEF PayFees, FeesPaid
<1>2. QED BY <1>1, InvariantIsSound, FeePaymentIsSound

\* The manager changes his fee.
LEMMA ChangePolicyKeeps ==
    ASSUME InOrder, NEW rate \in Rates, ChangePolicy(rate)
    PROVE  Sound(book', venue')
<1>1. PICK yes \in BOOLEAN : yes = TRUE
    OBVIOUS
<1>2. PICK b : b = Observed(book, venue, yes)
    OBVIOUS
<1>3. PICK c : c = CrystallizeFees(b, NoExits)
    OBVIOUS
<1>4. /\ book.settlement = NoSettlement /\ venue' = venue
      /\ book' = Recorded([c EXCEPT !.rate = rate], [kind |-> "POLICY", rate |-> rate])
    BY <1>1, <1>2, <1>3 DEF ChangePolicy
<1>5. Sound(b, venue) /\ b.nav \in Nat /\ b.settlement = NoSettlement
    BY <1>2, <1>4, InvariantIsSound, ObservationIsSound DEF Keeps
<1>6. Sound(c, venue) /\ c.settlement = NoSettlement
    BY <1>3, <1>5, ChargingIsSound
<1>7. rate \in 0 .. RateCap
    BY RatesAssumption
<1>8. QED BY <1>4, <1>6, <1>7, RateIsSound

\* The journal is replayed.
LEMMA ReplayKeeps ==
    ASSUME InOrder, Replay
    PROVE  Sound(book', venue')
<1>1. book' = [book EXCEPT !.events = <<>>] /\ venue' = venue
    BY DEF Replay
<1>2. QED BY <1>1, InvariantIsSound, ReplayIsSound

\* No step leaves the order, unless it overcharges a lot.
LEMMA StepsKeep ==
    ASSUME InOrder, [Next]_vars, ~overcharged'
    PROVE  InOrder'
<1>1. Sound(book', venue')
    <2>1. CASE Replay
        BY <2>1, ReplayKeeps
    <2>2. CASE Operation
        BY <2>2, AllocateKeeps, ActivatePendingKeeps, ObserveKeeps, FundVenueKeeps, RecoverVenueKeeps,
           MarketMovesKeeps, RequestWithdrawalKeeps, RequestPendingKeeps, CancelKeeps, SettlePendingKeeps,
           CutoffKeeps, OpenSettlementKeeps, ClosePositionsKeeps, PaySettlementKeeps,
           CloseSettlementKeeps, PayFeesKeeps, ChangePolicyKeeps DEF Operation
    <2>3. CASE PriceSettlement
        BY <2>3, PriceSettlementKeeps
    <2>4. CASE UNCHANGED vars
        BY <2>4, InvariantIsSound DEF vars
    <2>5. QED BY <2>1, <2>2, <2>3, <2>4 DEF Next
<1>2. QED BY <1>1 DEF InOrder, Sound

\* The invariant: the book is in order until a lot is overcharged.
IInv == overcharged \/ InOrder

\* An overcharged lot is not forgotten, so that no step leaves the invariant.
LEMMA InvariantKeeps ==
    ASSUME IInv, [Next]_vars
    PROVE  IInv'
<1>1. CASE overcharged
    <2>1. overcharged'
        BY <1>1 DEF Next, Replay, vars
    <2>2. QED BY <2>1 DEF IInv
<1>2. CASE InOrder /\ ~overcharged'
    BY <1>2, StepsKeep DEF IInv
<1>3. CASE overcharged'
    BY <1>3 DEF IInv
<1>4. QED BY <1>1, <1>2, <1>3 DEF IInv

\* A redemption whose closings did not gain on balance overcharges no lot.
LEMMA CostsOverchargeNothing ==
    ASSUME NEW b, BookOK(b), b.settlement.cost >= 0, NEW v \in Int
    PROVE  ~Overcharging(b, v)
<1>1. SUFFICES ASSUME Overcharging(b, v) PROVE FALSE
    OBVIOUS
<1>2. PICK seen : seen = Observed(b, v, FALSE)
    OBVIOUS
<1>3. PICK gross : gross = Grossed(b, seen)
    OBVIOUS
<1>4. b.settlement.units # 0 /\ seen.equity + b.settlement.cost >= 0 /\ gross.nav # 0 /\ ~FeesFit(gross, ExitsOf(b))
    BY <1>1, <1>2, <1>3 DEF Overcharging
<1>5. BookOK(seen) /\ seen.equity = Larger(0, b.cash + v - b.due)
    BY <1>2, ObservedIsOK
<1>6. b.cash \in Int /\ b.due \in Int /\ b.settlement.cost \in Int
    BY DEF BookOK, NumbersOK, SettlementOK
<1>7. PICK basis \in Nat : basis = seen.equity + b.settlement.cost
    <2>1. seen.equity \in Nat
        BY <1>5, <1>6 DEF Larger
    <2>2. QED BY <2>1, <1>4, <1>6
<1>8. BookOK(gross) /\ gross.nav \in Nat
    <2>1. gross = MarkBook(seen, basis, FALSE)
        BY <1>3, <1>7 DEF Grossed
    <2>2. QED BY <2>1, <1>5, <1>7, MarkedIsOK
<1>9. \A i \in Investors : ExitsOf(b)[i] \in Nat
    BY <1>4, ExitsType
<1>10. QED BY <1>4, <1>8, <1>9, CostsFit

--------------------------------------------------------------------------------
(* What follows. *)

\* What the invariant says of shares and fees.
LEMMA InvariantAddsUp ==
    ASSUME InOrder
    PROVE  SharesAddUp
<1>1. /\ InvestorsOK(book.investors) /\ Covered(book.investors, book.withdrawals)
      /\ UnitsOwned(book.investors) = book.units /\ FeesCharged(book.investors) = book.due + book.feePaid
    BY DEF InOrder, BookOK
<1>2. ASSUME NEW i \in Investors
      PROVE  LET p == book.investors[i] IN
                 /\ SumFunctionOnSet([n \in DOMAIN p.lots |-> p.lots[n].units], DOMAIN p.lots) = p.units
                 /\ ReservedUnits(book, i) <= p.units /\ ReservedCash(book, i) <= p.pending
    BY <1>1, ReservedIsAsked DEF InvestorsOK, InvestorOK, UnitsIn, Covered
<1>3. QED BY <1>1, <1>2 DEF SharesAddUp, UnitsOwned, FeesCharged

\* The fee that would be charged on a lot is worth no more than the lot.
LEMMA AccruedFits ==
    ASSUME NEW units \in Nat, NEW nav \in Nat, NEW hwm \in Nat, NEW rate \in 0 .. RateCap,
           NEW fee, fee = (units * Larger(0, nav - hwm) * rate) \div (Scale * RateScale)
    PROVE  fee \in Nat /\ Scale * fee <= nav * units
<1>1. Scale \in Nat \ {0} /\ RateScale \in Nat \ {0} /\ rate \in Nat /\ rate <= RateScale
    BY ScaleAssumption
<1>2. PICK gain \in Nat : gain = Larger(0, nav - hwm) /\ gain <= nav
    BY DEF Larger
<1>3. PICK x \in Nat : x = units * gain
    OBVIOUS
<1>4. x <= nav * units
    <2>1. units * gain <= units * nav /\ units * nav = nav * units
        BY <1>2, ProductsKeepOrder
    <2>2. QED BY <2>1, <1>3
<1>5. PICK y \in Nat : y = x * rate
    BY <1>1
<1>6. y <= RateScale * x
    <2>1. x * rate <= x * RateScale /\ x * RateScale = RateScale * x
        BY <1>1, ProductsKeepOrder
    <2>2. QED BY <2>1, <1>5
<1>7. PICK d \in Nat \ {0} : d = Scale * RateScale
    <2>1. Scale * RateScale \in Nat
        BY <1>1
    <2>2. RateScale * 1 <= RateScale * Scale
        BY <1>1, ProductsKeepOrder
    <2>3. RateScale * Scale = Scale * RateScale /\ RateScale * 1 = RateScale
        BY <1>1
    <2>4. QED BY <1>1, <2>1, <2>2, <2>3
<1>8. fee = y \div d
    BY <1>2, <1>3, <1>5, <1>7
<1>9. fee \in Nat /\ d * fee <= y
    BY <1>8, FloorNat, FloorOf
<1>10. Scale * fee <= x
    <2>1. Scale * fee \in Nat
        BY <1>1, <1>9
    <2>2. d * fee = RateScale * (Scale * fee)
        BY <1>1, <1>7, <1>9
    <2>3. RateScale * x \in Nat /\ RateScale * (Scale * fee) \in Nat
        BY <1>1, <2>1
    <2>4. RateScale * (Scale * fee) <= RateScale * x
        BY <1>6, <1>9, <2>2, <2>3
    <2>5. QED BY <1>1, <2>1, <2>4, ProductsShowOrder
<1>11. Scale * fee \in Nat /\ nav * units \in Nat
    BY <1>1, <1>9
<1>12. QED BY <1>4, <1>9, <1>10, <1>11

\* Nobody would be charged more than his shares are worth.
LEMMA AccruedIsOwned ==
    ASSUME InOrder, book.nav \in Nat, NEW i \in Investors
    PROVE  LET worth == (book.investors[i].units * book.nav) \div Scale IN
              /\ AccruedFee(i) \in Nat /\ AccruedFee(i) <= worth
              /\ worth \in Nat /\ Scale * worth <= book.nav * book.investors[i].units
<1>1. InvestorOK(book.investors[i]) /\ book.rate \in 0 .. RateCap /\ Scale \in Nat \ {0}
    BY ScaleAssumption DEF InOrder, BookOK, InvestorsOK, NumbersOK
<1>2. PICK lots \in Seq(Lot) : lots = book.investors[i].lots
    BY <1>1 DEF InvestorOK
<1>3. PICK units \in Nat : units = book.investors[i].units /\ UnitsIn(lots) = units
    BY <1>1, <1>2 DEF InvestorOK
<1>4. PICK nav \in Nat : nav = book.nav
    OBVIOUS
<1> DEFINE D == DOMAIN lots
           f == [n \in D |-> lots[n].units]
           h == [n \in D |-> (lots[n].units * Larger(0, book.nav - lots[n].hwm) * book.rate) \div (Scale * RateScale)]
<1>5. IsFiniteSet(D) /\ \A n \in D : lots[n].units \in Nat /\ lots[n].hwm \in Nat
    BY LotsShape
<1>6. ASSUME NEW n \in D
      PROVE  f[n] \in Nat /\ h[n] \in Nat /\ Scale * h[n] <= nav * f[n]
    <2>1. PICK fee : fee = (lots[n].units * Larger(0, nav - lots[n].hwm) * book.rate) \div (Scale * RateScale)
        OBVIOUS
    <2>2. fee \in Nat /\ Scale * fee <= nav * lots[n].units
        BY <1>1, <1>5, <2>1, AccruedFits
    <2>3. h[n] = fee /\ f[n] = lots[n].units
        BY <2>1, <1>4
    <2> HIDE DEF h, f
    <2>4. QED BY <2>2, <2>3, <1>5
<1>7. AccruedFee(i) = SumFunctionOnSet(h, D) /\ UnitsIn(lots) = SumFunctionOnSet(f, D)
    BY <1>2 DEF AccruedFee, UnitsIn
<1> HIDE DEF h, f, D
<1>8. SumFunctionOnSet(h, D) \in Nat
    <2>1. D \in SUBSET D
        OBVIOUS
    <2>2. QED BY <2>1, <1>5, <1>6, SumGrows
<1>9. Scale * SumFunctionOnSet(h, D) <= nav * SumFunctionOnSet(f, D)
    <2>1. \A n \in D : f[n] \in Int /\ h[n] \in Int /\ Scale * h[n] <= nav * f[n]
        BY <1>6
    <2>2. Scale \in Int /\ nav \in Int /\ IsFiniteSet(D)
        BY <1>1, <1>4, <1>5
    <2>3. QED BY <2>1, <2>2, SumScaled
<1>10. PICK a \in Nat : a = units * nav /\ a = nav * units
    OBVIOUS
<1>11. SumFunctionOnSet(h, D) <= a \div Scale
    <2>1. Scale * SumFunctionOnSet(h, D) <= a
        BY <1>3, <1>7, <1>9, <1>10
    <2>2. QED BY <2>1, <1>1, <1>8, FloorBounds
<1>12. a \div Scale \in Nat /\ Scale * (a \div Scale) <= a
    BY <1>1, FloorNat, FloorOf
<1>13. QED BY <1>3, <1>4, <1>7, <1>8, <1>10, <1>11, <1>12

\* What the invariant says of what people are shown.
LEMMA InvariantIsShown ==
    ASSUME InOrder
    PROVE  ShownIsBacked
<1>1. SUFFICES ASSUME book.settlement = NoSettlement, ~book.halfMinted
               PROVE  /\ SumFunctionOnSet([i \in Investors |-> PortfolioValue(i) + AccruedFee(i)], Investors)
                             <= book.equity
                      /\ \A i \in Investors : PortfolioValue(i) >= 0
    BY DEF ShownIsBacked
<1>2. book.halfMinted = FALSE
    BY <1>1 DEF InOrder, BookOK, NumbersOK
<1>3. Holds(book)
    BY <1>1, <1>2 DEF InOrder, Backed, Settled
<1>4. /\ book.nav \in Nat /\ book.units \in Nat /\ book.equity \in Int /\ UnitsOwned(book.investors) = book.units
      /\ \A i \in Investors : book.investors[i].units \in Nat
    BY <1>3 DEF InOrder, BookOK, NumbersOK, Holds, InvestorsOK, InvestorOK
<1> DEFINE h == [i \in Investors |-> PortfolioValue(i) + AccruedFee(i)]
           f == [i \in Investors |-> book.investors[i].units]
<1>5. ASSUME NEW i \in Investors
      PROVE  /\ PortfolioValue(i) >= 0
             /\ f[i] \in Int /\ h[i] \in Int /\ Scale * h[i] <= book.nav * f[i]
    <2>1. PICK worth : worth = (book.investors[i].units * book.nav) \div Scale
        OBVIOUS
    <2>2. /\ AccruedFee(i) \in Nat /\ AccruedFee(i) <= worth
          /\ worth \in Nat /\ Scale * worth <= book.nav * book.investors[i].units
        BY <1>4, <2>1, AccruedIsOwned
    <2>3. PortfolioValue(i) = worth - AccruedFee(i)
        BY <2>1 DEF PortfolioValue
    <2>4. PortfolioValue(i) >= 0 /\ PortfolioValue(i) + AccruedFee(i) = worth
        BY <2>2, <2>3
    <2>5. h[i] = worth /\ f[i] = book.investors[i].units
        BY <2>4
    <2> HIDE DEF h, f
    <2>6. QED BY <1>4, <2>2, <2>4, <2>5
<1>6. UnitsOwned(book.investors) = SumFunctionOnSet(f, Investors)
    BY DEF UnitsOwned
<1> HIDE DEF h, f
<1>7. Scale * SumFunctionOnSet(h, Investors) <= book.nav * book.units
    <2>1. Scale * SumFunctionOnSet(h, Investors) <= book.nav * SumFunctionOnSet(f, Investors)
        BY <1>4, <1>5, ManyAreFinite, ScaleAssumption, SumScaled
    <2>2. QED BY <2>1, <1>4, <1>6
<1>8. SumFunctionOnSet(h, Investors) <= book.equity
    <2>1. SumFunctionOnSet(h, Investors) \in Int /\ Scale \in Nat \ {0}
        BY <1>5, ManyAreFinite, ScaleAssumption, SumInt
    <2>2. book.units * book.nav <= book.equity * Scale
        BY <1>3 DEF Holds
    <2>3. PICK a \in Nat : a = book.units * book.nav /\ a = book.nav * book.units
        BY <1>4
    <2>4. /\ book.equity * Scale = Scale * book.equity /\ Scale * book.equity \in Int
          /\ Scale * SumFunctionOnSet(h, Investors) \in Int
        BY <1>4, <2>1
    <2>5. Scale * SumFunctionOnSet(h, Investors) <= Scale * book.equity
        BY <1>7, <2>2, <2>3, <2>4
    <2>6. QED BY <1>4, <2>1, <2>5, ProductsShowOrder
<1>9. QED BY <1>5, <1>8 DEF h

\* The book starts in order.
LEMMA StartIsSound ==
    ASSUME Init
    PROVE  IInv
BY NewBookIsSound DEF Init, IInv, InOrder, Sound

\* The book is in order until a performance fee takes more shares from a lot than it had.
THEOREM BooksStayInOrder == Spec => []IInv
<1>1. Init => IInv
    BY StartIsSound
<1>2. IInv /\ [Next]_vars => IInv'
    BY InvariantKeeps
<1>3. QED BY <1>1, <1>2, PTL DEF Spec

\* Which happens only where closing positions for a redemption gained: its cost is negative
\* (execution.mjs adds what the closings cost, ledger.mjs takes it from the profit).
THEOREM OnlyGainsOvercharge == Spec => [][overcharged' => overcharged \/ book.settlement.cost < 0]_vars
<1>1. IInv /\ [Next]_vars => [overcharged' => overcharged \/ book.settlement.cost < 0]_vars
    <2> SUFFICES ASSUME IInv, Next, overcharged', ~overcharged
                 PROVE  book.settlement.cost < 0
        OBVIOUS
    <2>1. PriceSettlement
        BY DEF Next, Replay
    <2>2. Overcharging(book, venue)
        BY <2>1 DEF PriceSettlement
    <2>3. BookOK(book) /\ venue \in Int /\ book.settlement.cost \in Int
        BY DEF IInv, InOrder, BookOK, SettlementOK
    <2>4. QED BY <2>2, <2>3, CostsOverchargeNothing
<1>2. QED BY <1>1, BooksStayInOrder, PTL DEF Spec

\* Until then lots make up an investor's shares and investors' shares the book's, what open
\* requests ask for is there, and the fees charged are due or paid, whatever minting, fees and
\* redemptions round (ledger.mjs, cash-ledger.mjs).
THEOREM SharesAlwaysAddUp == Spec => []SharesAddUp
<1>1. IInv => SharesAddUp
    BY InvariantAddsUp DEF IInv, SharesAddUp
<1>2. QED BY <1>1, BooksStayInOrder, PTL

\* Until then what investors and the manager are shown to own together is covered by the equity
\* while nobody is being paid out, and nobody is shown a debt (portfolio(), managerFeeTotals()).
THEOREM ShownIsAlwaysBacked == Spec => []ShownIsBacked
<1>1. IInv => ShownIsBacked
    BY InvariantIsShown DEF IInv, ShownIsBacked
<1>2. QED BY <1>1, BooksStayInOrder, PTL
================================================================================
