---------------------------- MODULE ProgramsProofs ----------------------------
(***************************************************************************)
(* Proofs about the parts of the programs, each for every value of its     *)
(* constants: StreamK, ResidencyPlan and WorkloadReader, what becomes of   *)
(* them inside of a program, and CommandLine: every way out of every       *)
(* command.                                                                *)
(***************************************************************************)
EXTENDS Programs, FiniteSetTheorems, WellFoundedInduction, TLAPS

-----------------------------------------------------------------------------
(* StreamK: every shape of the product and of the device.                   *)

(* Division, and the least element of a set.                               *)

LEMMA DivBounds ==
  ASSUME NEW n \in Nat, NEW d \in Nat \ {0}
  PROVE  /\ n \div d \in Nat /\ n % d \in 0 .. d - 1
         /\ n = d * (n \div d) + (n % d)
  OBVIOUS

LEMMA TimesMonotone ==
  ASSUME NEW a \in Nat, NEW b \in Nat, NEW d \in Nat, a < b
  PROVE  a * d + d <= b * d
  <1>1. PICK e \in Nat : b = a + 1 + e
    <2>1. b - a - 1 \in Nat /\ b = a + 1 + (b - a - 1)
      OBVIOUS
    <2> QED BY <2>1
  <1>2. (a + 1 + e) * d = a * d + d + e * d /\ e * d \in Nat /\ a * d \in Nat
    OBVIOUS
  <1> QED BY <1>1, <1>2

LEMMA DivUnique ==
  ASSUME NEW n \in Nat, NEW d \in Nat \ {0}, NEW quo \in Nat, quo * d <= n, n < quo * d + d
  PROVE  n \div d = quo /\ n % d = n - quo * d
  <1> DEFINE r == n \div d
  <1>1. r \in Nat /\ n % d \in 0 .. d - 1 /\ n = d * r + (n % d) /\ d * r = r * d
    BY DivBounds
  <1> HIDE DEF r
  <1>2. r * d <= n /\ n < r * d + d
    BY <1>1
  <1>3. ~(r < quo)
    BY <1>1, <1>2, TimesMonotone, r * d \in Nat, quo * d \in Nat
  <1>4. ~(quo < r)
    BY <1>1, <1>2, TimesMonotone, r * d \in Nat, quo * d \in Nat
  <1>5. r = quo
    BY <1>1, <1>3, <1>4
  <1> QED BY <1>1, <1>5, quo * d \in Nat DEF r

LEMMA LeastExists ==
  ASSUME NEW S, S \subseteq Nat, S # {}
  PROVE  \E m \in S : \A n \in S : m <= n
  <1> DEFINE R == {ss \in Nat \X Nat : ss[1] < ss[2]}
  <1>1. IsWellFoundedOn(R, Nat)
    BY NatLessThanWellFounded, Zenon DEF OpToRel
  <1>2. PICK m \in S : \A n \in S : ~(<<n, m>> \in R)
    <2> HIDE DEF R
    <2> QED BY <1>1, WFMin, Zenon
  <1>3. ASSUME NEW n \in S, n < m PROVE FALSE
    <2>1. <<n, m>> \in R
      BY <1>3
    <2> QED BY <1>2, <2>1, Zenon
  <1> QED BY <1>3

-----------------------------------------------------------------------------
(* The tiles and the grid.                                                 *)

LEMMA CeilDivIs ==
  ASSUME NEW a \in Nat \ {0}, NEW d \in Nat \ {0}
  PROVE  /\ CeilDiv(a, d) \in Nat \ {0}
         /\ \A ix \in Nat : ix < a => ix \div d \in 0 .. CeilDiv(a, d) - 1
  <1> DEFINE c == (a + d - 1) \div d
  <1>1. c \in Nat /\ a + d - 1 \in Nat
        /\ (a + d - 1) % d \in 0 .. d - 1 /\ a + d - 1 = d * c + ((a + d - 1) % d)
    BY DivBounds, a + d - 1 \in Nat
  <1>2. CeilDiv(a, d) = c
    BY DEF CeilDiv
  <1> HIDE DEF c
  <1>3. d * c >= a /\ d * c = c * d /\ c * d \in Nat
    BY <1>1
  <1>4. c # 0
    <2>1. 0 * d = 0
      OBVIOUS
    <2> QED BY <1>3, <2>1
  <1>5. ASSUME NEW ix \in Nat, ix < a PROVE ix \div d \in 0 .. c - 1
    <2> DEFINE quo == ix \div d
    <2>0. quo \in Nat /\ ix % d \in 0 .. d - 1 /\ ix = d * quo + (ix % d)
      BY DivBounds
    <2> HIDE DEF quo
    <2>1. quo \in Nat /\ ix % d \in 0 .. d - 1 /\ ix = d * quo + (ix % d) /\ d * quo = quo * d
      BY <2>0
    <2>2. quo * d < c * d /\ quo * d \in Nat
      BY <1>3, <1>5, <2>1
    <2>3. quo < c
      <3>1. CASE c < quo
        BY <1>1, <1>3, <2>1, <2>2, <3>1, TimesMonotone
      <3>2. CASE c = quo
        BY <2>2, <3>2
      <3> QED BY <1>1, <2>1, <3>1, <3>2
    <2> QED BY <1>1, <2>1, <2>3 DEF quo
  <1> QED BY <1>1, <1>2, <1>4, <1>5

\* The products, and the one that stands for none in the other programs.
Shapes == Products \cup {NoProduct}

LEMMA ProductGiven ==
  ASSUME NEW p \in Shapes
  PROVE  /\ p.rows \in Nat \ {0} /\ p.cols \in Nat \ {0} /\ p.blocks \in Nat \ {0}
         /\ p.sms \in Nat \ {0} /\ p.blocks % Step = 0 /\ Step \in Nat \ {0}
         /\ TileY \in Nat \ {0}
  <1>1. CASE p \in Products
    BY <1>1, StreamKAssumption
  <1>2. CASE p = NoProduct
    <2>1. p.rows = 1 /\ p.cols = 1 /\ p.blocks = Step /\ p.sms = 1
      BY <1>2 DEF NoProduct
    <2>2. Step \in Nat \ {0} /\ TileY \in Nat \ {0}
      BY StreamKAssumption
    <2>3. \A n \in Nat \ {0} : n % n = 0
      OBVIOUS
    <2> QED BY <2>1, <2>2, <2>3
  <1> QED BY <1>1, <1>2 DEF Shapes

\* Of the widths that need the fewest tiles there is a narrowest.
LEMMA WidthIsOne == ASSUME NEW p \in Shapes PROVE Width(p) \in Widths
  <1> DEFINE n(wd) == CeilDiv(p.cols, wd)
             counts == {n(wd) : wd \in Widths}
  <1>1. Widths \subseteq Nat \ {0} /\ Widths # {}
    BY StreamKAssumption
  <1>2. \A wd \in Widths : n(wd) \in Nat
    BY <1>1, ProductGiven, CeilDivIs
  <1> HIDE DEF n
  <1>3. counts \subseteq Nat /\ counts # {}
    BY <1>1, <1>2
  <1>4. PICK m \in counts : \A k \in counts : m <= k
    BY <1>3, LeastExists
  <1> DEFINE best == {wd \in Widths : n(wd) = m}
  <1>5. best \subseteq Nat /\ best # {}
    BY <1>1, <1>4
  <1>6. PICK wd \in best : \A v \in best : wd <= v
    BY <1>5, LeastExists
  <1>7. \A v \in Widths \ {wd} : n(wd) < n(v) \/ (n(wd) = n(v) /\ wd < v)
    <2> SUFFICES ASSUME NEW v \in Widths \ {wd} PROVE n(wd) < n(v) \/ (n(wd) = n(v) /\ wd < v)
      OBVIOUS
    <2>1. n(v) \in counts /\ m <= n(v) /\ n(wd) = m /\ n(v) \in Nat /\ m \in Nat
      BY <1>2, <1>3, <1>4
    <2>2. CASE n(v) = m
      BY <1>1, <1>5, <1>6, <2>1, <2>2
    <2>3. CASE n(v) # m
      BY <2>1, <2>3
    <2> QED BY <2>2, <2>3
  <1>8. \E x \in Widths : \A v \in Widths \ {x} :
            CeilDiv(p.cols, x) < CeilDiv(p.cols, v)
            \/ (CeilDiv(p.cols, x) = CeilDiv(p.cols, v) /\ x < v)
    BY <1>7 DEF n
  <1> QED BY <1>8, Zenon DEF Width

LEMMA TilesCounted ==
  ASSUME NEW p \in Shapes
  PROVE  /\ TilesX(p) \in Nat \ {0} /\ TilesY(p) \in Nat \ {0} /\ Tiles(p) \in Nat \ {0}
         /\ Width(p) \in Nat \ {0}
  <1>1. Width(p) \in Nat \ {0}
    BY WidthIsOne, StreamKAssumption
  <1>2. TilesX(p) \in Nat \ {0} /\ TilesY(p) \in Nat \ {0}
    BY <1>1, ProductGiven, CeilDivIs DEF TilesX, TilesY
  <1>3. \A x, y \in Nat \ {0} : x * y \in Nat \ {0}
    OBVIOUS
  <1> QED BY <1>1, <1>2, <1>3 DEF Tiles

LEMMA GridIs ==
  ASSUME NEW p \in Shapes
  PROVE  Grid(p) \in Nat \ {0} /\ (Grid(p) = Tiles(p) \/ Grid(p) = p.sms)
  BY TilesCounted, ProductGiven DEF Grid

-----------------------------------------------------------------------------
(* Where tiles and shares begin.                                           *)

\* The first block of a tile.
Start(p, t) == t * p.blocks
\* A number of whole iterations.
Whole(k) == \E m \in Nat : k = m * Step
Total(p) == Start(p, Tiles(p))

LEMMA Starts ==
  ASSUME NEW p \in Shapes
  PROVE  /\ \A t \in Nat : Start(p, t) \in Nat /\ Whole(Start(p, t))
                           /\ Start(p, t + 1) = Start(p, t) + p.blocks
         /\ \A t, u \in Nat : t < u => Start(p, t) + p.blocks <= Start(p, u)
         /\ Start(p, 0) = 0 /\ Total(p) \in Nat \ {0}
  <1>1. p.blocks \in Nat \ {0} /\ Step \in Nat \ {0} /\ p.blocks % Step = 0
    BY ProductGiven
  <1>2. ASSUME NEW t \in Nat
        PROVE  Start(p, t) \in Nat /\ Start(p, t + 1) = Start(p, t) + p.blocks
    BY <1>1 DEF Start
  <1>3. ASSUME NEW t \in Nat PROVE Whole(Start(p, t))
    <2> DEFINE n == p.blocks \div Step
    <2>1. n \in Nat /\ p.blocks = Step * n
      <3>1. n \in Nat /\ p.blocks = Step * n + (p.blocks % Step)
        BY <1>1, DivBounds
      <3> HIDE DEF n
      <3> QED BY <1>1, <3>1
    <2> HIDE DEF n
    <2>2. \A x, y, z \in Nat : x * (y * z) = (x * z) * y /\ x * z \in Nat
      OBVIOUS
    <2>3. Start(p, t) = (t * n) * Step /\ t * n \in Nat
      BY <1>1, <2>1, <2>2 DEF Start
    <2> QED BY <2>3 DEF Whole
  <1>4. ASSUME NEW t \in Nat, NEW u \in Nat, t < u PROVE Start(p, t) + p.blocks <= Start(p, u)
    BY <1>1, <1>4, TimesMonotone DEF Start
  <1>5. Start(p, 0) = 0
    BY <1>1 DEF Start
  <1>6. Total(p) \in Nat \ {0}
    <2>1. Tiles(p) \in Nat \ {0}
      BY TilesCounted
    <2>2. Start(p, 0) + p.blocks <= Start(p, Tiles(p)) /\ Start(p, Tiles(p)) \in Nat
      BY <1>2, <1>4, <2>1
    <2> QED BY <1>1, <1>5, <2>2 DEF Total
  <1> QED BY <1>2, <1>3, <1>4, <1>5, <1>6

\* The tile that a block is in.
LEMMA TileIs ==
  ASSUME NEW p \in Shapes, NEW k \in Nat
  PROVE  /\ TileOf(p, k) \in Nat
         /\ Start(p, TileOf(p, k)) <= k /\ k < Start(p, TileOf(p, k)) + p.blocks
         /\ TileEnd(p, k) = Start(p, TileOf(p, k)) + p.blocks
         /\ TileEnd(p, k) = Start(p, TileOf(p, k) + 1)
         /\ k % p.blocks = 0 <=> k = Start(p, TileOf(p, k))
         /\ \A t \in Nat : Start(p, t) <= k /\ k < Start(p, t) + p.blocks => TileOf(p, k) = t
  <1> DEFINE t == k \div p.blocks
             b == p.blocks
  <1>1. b \in Nat \ {0}
    BY ProductGiven
  <1>2. t \in Nat /\ k % b \in 0 .. b - 1 /\ k = b * t + (k % b)
    BY <1>1, DivBounds
  <1>3. TileOf(p, k) = t /\ TileEnd(p, k) = Start(p, t + 1) /\ Start(p, t) = t * b
    BY DEF TileOf, TileEnd, Start
  <1>4. \A u \in Nat : u * b <= k /\ k < u * b + b => t = u
    BY <1>1, DivUnique
  <1> HIDE DEF t
  <1>5. b * t = t * b /\ t * b \in Nat
    BY <1>1, <1>2
  <1>6. t * b <= k /\ k < t * b + b /\ (k % b = 0 <=> k = t * b)
    <2> DEFINE e == k % b
    <2>1. e \in 0 .. b - 1 /\ k = t * b + e
      BY <1>2, <1>5
    <2> HIDE DEF e
    <2>2. t * b <= k /\ k < t * b + b /\ (e = 0 <=> k = t * b)
      BY <1>1, <1>5, <2>1
    <2> QED BY <2>2 DEF e
  <1>7. Start(p, t + 1) = Start(p, t) + b
    BY <1>2, Starts
  <1>8. \A u \in Nat : Start(p, u) = u * b
    BY DEF Start
  <1> QED BY <1>2, <1>3, <1>4, <1>6, <1>7, <1>8

\* Each share begins on a whole iteration, behind the ones before it.
LEMMA Shares ==
  ASSUME NEW p \in Shapes
  PROVE  /\ \A b \in Nat : Share(p, b) \in Nat /\ Whole(Share(p, b))
         /\ \A b, c \in Nat : b <= c => Share(p, b) <= Share(p, c)
         /\ Share(p, 0) = 0 /\ Share(p, Grid(p)) = Total(p)
  <1> DEFINE g == Grid(p)
             all == Tiles(p) * p.blocks
             raw(b) == (b * all) \div g
             cut(k) == k - ((k % p.blocks) % Step)
  <1>1. g \in Nat \ {0} /\ all \in Nat /\ all = Total(p)
        /\ p.blocks \in Nat \ {0} /\ Step \in Nat \ {0}
    BY GridIs, TilesCounted, ProductGiven, Starts DEF Total, Start
  <1>2. \A b : Share(p, b) = cut(raw(b))
    BY DEF Share
  <1> HIDE DEF g, all
  <1>3. \A b \in Nat : b * all \in Nat
    BY <1>1
  <1>4. \A b \in Nat : raw(b) \in Nat /\ raw(b) * g <= b * all /\ b * all < raw(b) * g + g
    <2> SUFFICES ASSUME NEW b \in Nat
                 PROVE  raw(b) \in Nat /\ raw(b) * g <= b * all /\ b * all < raw(b) * g + g
      OBVIOUS
    <2>1. raw(b) \in Nat /\ (b * all) % g \in 0 .. g - 1
          /\ b * all = g * raw(b) + ((b * all) % g) /\ b * all \in Nat
      BY <1>1, <1>3, DivBounds
    <2> HIDE DEF raw
    <2>2. g * raw(b) = raw(b) * g /\ raw(b) * g \in Nat
      BY <1>1, <2>1
    <2> QED BY <1>1, <2>1, <2>2
  <1>5. ASSUME NEW b \in Nat, NEW c \in Nat, b <= c PROVE raw(b) <= raw(c)
    <2>1. b * all <= c * all
      <3>1. CASE b = c
        BY <1>3, <3>1
      <3>2. CASE b < c
        <4>1. b * all + all <= c * all
          BY <1>1, <3>2, TimesMonotone
        <4> QED BY <1>1, <1>3, <4>1
      <3> QED BY <1>5, <3>1, <3>2
    <2> HIDE DEF raw
    <2>2. raw(b) \in Nat /\ raw(c) \in Nat /\ raw(b) * g <= b * all /\ c * all < raw(c) * g + g
      BY <1>4
    <2>3. CASE raw(c) < raw(b)
      <3>1. raw(c) * g + g <= raw(b) * g
        BY <1>1, <2>2, <2>3, TimesMonotone
      <3>2. raw(c) * g \in Nat /\ raw(b) * g \in Nat
        BY <1>1, <2>2
      <3> QED BY <1>1, <1>3, <2>1, <2>2, <3>1, <3>2
    <2> QED BY <2>2, <2>3
  <1>6. raw(0) = 0 /\ raw(g) = all
    <2>1. 0 * all = 0 /\ 0 * g = 0 /\ g * all = all * g /\ all * g \in Nat
      BY <1>1
    <2>2. raw(0) = 0
      BY <1>1, <2>1, DivUnique
    <2>3. raw(g) = all
      BY <1>1, <2>1, DivUnique
    <2> QED BY <2>2, <2>3
  <1> HIDE DEF raw
  \* What cut() leaves is a whole number of iterations, the last ones before k.
  <1>7. ASSUME NEW k \in Nat
        PROVE  /\ cut(k) \in Nat /\ Whole(cut(k)) /\ cut(k) <= k /\ k < cut(k) + Step
               /\ k % p.blocks = 0 => cut(k) = k
    <2> DEFINE r == k % p.blocks
               t == k \div p.blocks
               quo == r \div Step
               e == r % Step
    <2>1. t \in Nat /\ r \in 0 .. p.blocks - 1 /\ k = p.blocks * t + r
      BY <1>1, DivBounds
    <2>2. cut(k) = k - e
      OBVIOUS
    <2> HIDE DEF r, t
    <2>3. r \in Nat
      BY <1>1, <2>1
    <2>4. quo \in Nat /\ e \in 0 .. Step - 1 /\ r = Step * quo + e
      BY <1>1, <2>3, DivBounds
    <2>5. r = 0 => e = 0
      BY <1>1
    <2> HIDE DEF quo, e, cut
    <2>6. p.blocks * t = Start(p, t) /\ Step * quo = quo * Step /\ quo * Step \in Nat
      BY <1>1, <2>1, <2>4 DEF Start
    <2>7. cut(k) = Start(p, t) + quo * Step /\ k = cut(k) + e /\ cut(k) \in Nat
      <3>1. Start(p, t) \in Nat /\ k = Start(p, t) + r /\ r = quo * Step + e
        BY <2>1, <2>4, <2>6, Starts
      <3> DEFINE x == Start(p, t)
                 y == quo * Step
      <3>2. x \in Nat /\ y \in Nat /\ e \in Nat /\ k = x + r /\ r = y + e
        BY <1>1, <2>4, <2>6, <3>1
      <3> HIDE DEF x, y
      <3>3. cut(k) = x + y /\ k = cut(k) + e /\ cut(k) \in Nat
        BY <2>2, <3>2
      <3> QED BY <3>3 DEF x, y
    <2>8. Whole(cut(k))
      <3>1. PICK m \in Nat : Start(p, t) = m * Step
        BY <2>1, Starts DEF Whole
      <3>2. m * Step + quo * Step = (m + quo) * Step /\ m + quo \in Nat
        BY <1>1, <2>4
      <3> QED BY <2>7, <3>1, <3>2 DEF Whole
    <2>9. cut(k) \in Nat /\ cut(k) <= k /\ k < cut(k) + Step
      BY <1>1, <2>4, <2>7
    <2>10. r = 0 => cut(k) = k
      BY <2>2, <2>5
    <2> QED BY <2>8, <2>9, <2>10 DEF r
  <1>8. ASSUME NEW b \in Nat, NEW c \in Nat, b <= c PROVE cut(raw(b)) <= cut(raw(c))
    <2> DEFINE x == raw(b)
               y == raw(c)
    <2>1. x \in Nat /\ y \in Nat /\ x <= y
      BY <1>4, <1>5, <1>8
    <2> HIDE DEF x, y
    <2>2. cut(x) \in Nat /\ Whole(cut(x)) /\ cut(x) <= x /\ cut(y) \in Nat /\ Whole(cut(y))
          /\ y < cut(y) + Step
      BY <1>7, <2>1
    <2> HIDE DEF cut
    <2>3. PICK m \in Nat, n \in Nat : cut(x) = m * Step /\ cut(y) = n * Step
      BY <2>2 DEF Whole
    <2>4. CASE n < m
      <3>1. n * Step + Step <= m * Step
        BY <1>1, <2>4, TimesMonotone
      <3> QED BY <1>1, <2>1, <2>2, <2>3, <3>1
    <2>5. CASE m < n
      <3>1. m * Step + Step <= n * Step
        BY <1>1, <2>5, TimesMonotone
      <3> QED BY <1>1, <2>2, <2>3, <3>1 DEF x, y
    <2>6. CASE m = n
      BY <2>2, <2>3, <2>6 DEF x, y
    <2> QED BY <2>4, <2>5, <2>6
  <1>9. cut(0) = 0 /\ cut(all) = all
    <2>1. all % p.blocks = 0
      <3>1. Tiles(p) * p.blocks \in Nat /\ Tiles(p) \in Nat
        BY <1>1, TilesCounted
      <3>2. (Tiles(p) * p.blocks) % p.blocks = Tiles(p) * p.blocks - Tiles(p) * p.blocks
        BY <1>1, <3>1, DivUnique
      <3> QED BY <3>1, <3>2 DEF all
    <2>2. cut(0) \in Nat /\ cut(0) <= 0
      BY <1>7
    <2> QED BY <1>1, <1>7, <2>1, <2>2
  <1> HIDE DEF cut
  <1>10. \A b \in Nat : Share(p, b) \in Nat /\ Whole(Share(p, b))
    BY <1>2, <1>4, <1>7
  <1>11. \A b, c \in Nat : b <= c => Share(p, b) <= Share(p, c)
    BY <1>2, <1>8
  <1>12. Share(p, 0) = 0 /\ Share(p, g) = all
    BY <1>2, <1>6, <1>9
  <1> QED BY <1>1, <1>10, <1>11, <1>12 DEF g

LEMMA WholeGap ==
  ASSUME NEW k \in Nat, NEW l \in Nat, Whole(k), Whole(l), k < l
  PROVE  k + Step <= l
  <1>1. PICK m \in Nat, n \in Nat : k = m * Step /\ l = n * Step
    BY DEF Whole
  <1>2. Step \in Nat \ {0}
    BY StreamKAssumption
  <1>3. CASE m < n
    BY <1>1, <1>2, <1>3, TimesMonotone
  <1>4. CASE n < m
    <2>1. n * Step + Step <= m * Step
      BY <1>2, <1>4, TimesMonotone
    <2> QED BY <1>1, <1>2, <2>1
  <1>5. CASE m = n
    BY <1>1, <1>5
  <1> QED BY <1>3, <1>4, <1>5

\* Whole iterations sum every block up to stop, and none behind it.
LEMMA SummedIs ==
  ASSUME NEW from \in Nat, NEW stop \in Nat, Whole(from), Whole(stop), from <= stop
  PROVE  \A x : x \in Summed(from, stop) <=> x \in Nat /\ from <= x /\ x < stop
  <1> DEFINE begins == {k \in from .. stop - 1 : (k - from) % Step = 0}
  <1>1. Step \in Nat \ {0}
    BY StreamKAssumption
  <1>2. \A x : x \in Summed(from, stop) <=> \E k \in begins : x \in k .. k + Step - 1
    BY DEF Summed
  <1>3. \A k \in begins : k \in Nat /\ from <= k /\ k < stop /\ Whole(k)
    <2> SUFFICES ASSUME NEW k \in begins PROVE k \in Nat /\ from <= k /\ k < stop /\ Whole(k)
      OBVIOUS
    <2>1. k \in Nat /\ from <= k /\ k < stop /\ k - from \in Nat /\ (k - from) % Step = 0
      OBVIOUS
    <2>2. PICK m \in Nat : from = m * Step
      BY DEF Whole
    <2> DEFINE quo == (k - from) \div Step
    <2>3. quo \in Nat /\ k - from = Step * quo + ((k - from) % Step)
      BY <1>1, <2>1, DivBounds
    <2> HIDE DEF quo
    <2>4. k - from = Step * quo
      BY <1>1, <2>1, <2>3
    <2>5. m * Step + Step * quo = (m + quo) * Step /\ m + quo \in Nat /\ Step * quo \in Nat
      BY <1>1, <2>3
    <2>6. k = (m + quo) * Step
      BY <2>1, <2>2, <2>4, <2>5
    <2> QED BY <2>1, <2>5, <2>6 DEF Whole
  <1>4. ASSUME NEW x, NEW k \in begins, x \in k .. k + Step - 1
        PROVE  x \in Nat /\ from <= x /\ x < stop
    <2>1. k \in Nat /\ from <= k /\ k < stop /\ k + Step <= stop
      BY <1>3, WholeGap
    <2> HIDE DEF begins
    <2> QED BY <1>1, <1>4, <2>1
  <1>5. ASSUME NEW x \in Nat, from <= x, x < stop
        PROVE  \E k \in begins : x \in k .. k + Step - 1
    <2> DEFINE d == x - from
               e == d % Step
               quo == d \div Step
    <2>1. d \in Nat
      BY <1>5
    <2>2. quo \in Nat /\ e \in 0 .. Step - 1 /\ d = Step * quo + e
      BY <1>1, <2>1, DivBounds
    <2> HIDE DEF quo, e
    <2>3. Step * quo = quo * Step /\ quo * Step \in Nat
      BY <1>1, <2>2
    <2>4. (quo * Step) % Step = quo * Step - quo * Step
      BY <1>1, <2>2, <2>3, DivUnique
    <2> DEFINE k == from + quo * Step
    <2>5. k - from = quo * Step /\ (k - from) % Step = 0
      BY <2>3, <2>4
    <2>6. k <= x /\ x < k + Step /\ k \in Nat
      BY <1>1, <1>5, <2>1, <2>2, <2>3
    <2>7. k \in begins
      <3>1. k \in from .. stop - 1
        BY <1>5, <2>3, <2>6
      <3> QED BY <2>5, <3>1
    <2>8. x \in k .. k + Step - 1
      BY <1>1, <1>5, <2>6
    <2> QED BY <2>7, <2>8
  <1> HIDE DEF begins
  <1> QED BY <1>2, <1>4, <1>5

-----------------------------------------------------------------------------
(* The inductive invariant.                                                *)

P == product
From(b) == Share(P, b)
Stop(b) == Share(P, b + 1)
Tile(x) == TileOf(P, x)

\* Thread block b has written block x into tile t.
Wrote(b, t, x) == From(b) <= x /\ x < next[b] /\ Tile(x) = t /\ Start(P, t + 1) <= Stop(b)
\* Thread block b has left block x for the fixup.
Leaves(b, x) == From(b) <= x /\ x < next[b] /\ Start(P, Tile(x) + 1) > Stop(b)
\* The fixup of thread block b has added block x to tile t.
Added(b, t, x) ==
    /\ fix[b].at = "end" /\ WroteOnlyAnEnd(P, b)
    /\ t = Tile(From(b)) /\ Start(P, t) <= x /\ x < From(b)

ShapeInv ==
    /\ product \in Shapes /\ phase \in {"tiles", "fixup", "done"}
    /\ DOMAIN next = Blocks(P) /\ DOMAIN scratch = Blocks(P) /\ DOMAIN fix = Blocks(P)
    /\ DOMAIN dst = 0 .. Tiles(P) - 1

\* A thread block goes through its share from tile to tile.
StreamStepInv ==
    /\ \A b \in Blocks(P) :
          /\ next[b] \in Nat /\ Whole(next[b]) /\ From(b) <= next[b] /\ next[b] <= Stop(b)
          /\ next[b] = From(b) \/ next[b] = Stop(b) \/ next[b] = Start(P, Tile(next[b]))
    /\ phase # "tiles" => \A b \in Blocks(P) : next[b] = Stop(b)

DstInv == \A t \in DOMAIN dst : \A x :
    x \in dst[t] <=> x \in Nat /\ \E b \in Blocks(P) : Wrote(b, t, x) \/ Added(b, t, x)
ScratchInv == \A b \in Blocks(P) : \A x : x \in scratch[b] <=> x \in Nat /\ Leaves(b, x)

\* What the fixup of a thread block has collected, from the back to the front.
SumIs(b, from) == \A x : x \in fix[b].sum <=> x \in Nat /\ from <= x /\ x < From(b)
Collects(b) ==
    /\ fix[b].at \in {"start", "sum", "add", "end"}
    /\ fix[b].at = "sum" =>
          /\ DOMAIN fix[b] = {"at", "from", "stop", "sum"}
          /\ WroteOnlyAnEnd(P, b) /\ fix[b].from \in -1 .. b - 1
          /\ fix[b].stop = Stop(fix[b].from)
          /\ Start(P, Tile(From(b))) < fix[b].stop /\ fix[b].stop <= From(b)
          /\ SumIs(b, fix[b].stop)
    /\ fix[b].at = "add" => WroteOnlyAnEnd(P, b) /\ SumIs(b, Start(P, Tile(From(b))))

FixInv ==
    /\ phase = "tiles" => \A b \in Blocks(P) : fix[b].at = "start"
    /\ phase = "fixup" => FixupNeeded(P)
    /\ phase = "done" => IF FixupNeeded(P) THEN \A b \in Blocks(P) : fix[b].at = "end"
                         ELSE \A b \in Blocks(P) : fix[b].at = "start"
    /\ \A b \in Blocks(P) : Collects(b)

StreamInv == ShapeInv /\ StreamStepInv /\ DstInv /\ ScratchInv /\ FixInv

LEMMA BlockFacts ==
  ASSUME ShapeInv, NEW b \in Blocks(P)
  PROVE  /\ b \in Nat /\ b + 1 \in Nat
         /\ From(b) \in Nat /\ Stop(b) \in Nat /\ Whole(From(b)) /\ Whole(Stop(b))
         /\ From(b) <= Stop(b) /\ Stop(b) <= Total(P)
  <1>1. P \in Shapes /\ Grid(P) \in Nat \ {0}
    BY GridIs DEF ShapeInv, P
  <1>2. b \in Nat /\ b + 1 \in Nat /\ b <= b + 1 /\ b + 1 <= Grid(P)
    BY <1>1 DEF Blocks
  <1> QED BY <1>1, <1>2, Shares DEF From, Stop

\* Only one share has the end of a tile.
LEMMA OneOwner ==
  ASSUME ShapeInv, NEW b \in Blocks(P), NEW c \in Blocks(P), NEW e \in Nat,
         From(b) < e, e <= Stop(b), From(c) < e, e <= Stop(c)
  PROVE  b = c
  <1>1. P \in Shapes
    BY DEF ShapeInv, P
  <1>2. ASSUME NEW ix \in Blocks(P), NEW j \in Blocks(P), ix < j PROVE Stop(ix) <= From(j)
    <2>1. ix + 1 \in Nat /\ j \in Nat /\ ix + 1 <= j
      BY <1>2, BlockFacts
    <2> QED BY <1>1, <2>1, Shares DEF From, Stop
  <1>3. /\ b \in Nat /\ c \in Nat
        /\ From(b) \in Nat /\ From(c) \in Nat /\ Stop(b) \in Nat /\ Stop(c) \in Nat
    BY BlockFacts
  <1>4. CASE b < c
    BY <1>2, <1>3, <1>4
  <1>5. CASE c < b
    BY <1>2, <1>3, <1>5
  <1> QED BY <1>3, <1>4, <1>5

\* The tile of a block of the product, in the words of the invariant.
LEMMA TileFacts ==
  ASSUME ShapeInv, NEW x \in Nat
  PROVE  /\ Tile(x) \in Nat /\ Start(P, Tile(x)) \in Nat /\ Start(P, Tile(x) + 1) \in Nat
         /\ Start(P, Tile(x)) <= x /\ x < Start(P, Tile(x) + 1)
         /\ TileEnd(P, x) = Start(P, Tile(x) + 1)
         /\ Whole(Start(P, Tile(x) + 1))
         /\ x % P.blocks = 0 <=> x = Start(P, Tile(x))
         /\ \A t \in Nat : Start(P, t) <= x /\ x < Start(P, t + 1) => Tile(x) = t
  <1>1. P \in Shapes
    BY DEF ShapeInv, P
  <1> DEFINE t == Tile(x)
  <1>2. /\ t \in Nat /\ Start(P, t) <= x /\ x < Start(P, t) + P.blocks
        /\ TileEnd(P, x) = Start(P, t + 1)
        /\ x % P.blocks = 0 <=> x = Start(P, t)
    BY <1>1, TileIs DEF Tile
  <1>3. \A u \in Nat : Start(P, u) <= x /\ x < Start(P, u) + P.blocks => t = u
    BY <1>1, TileIs DEF Tile
  <1>4. \A u \in Nat : Start(P, u) \in Nat /\ Whole(Start(P, u)) /\ u + 1 \in Nat
                       /\ Start(P, u + 1) = Start(P, u) + P.blocks
    BY <1>1, Starts
  <1> HIDE DEF t
  <1>5. Start(P, t) \in Nat /\ Start(P, t + 1) \in Nat /\ Whole(Start(P, t + 1)) /\ x < Start(P, t + 1)
    BY <1>2, <1>4
  <1>6. \A u \in Nat : Start(P, u) <= x /\ x < Start(P, u + 1) => t = u
    BY <1>3, <1>4
  <1> QED BY <1>2, <1>5, <1>6 DEF t

LEMMA TileOrder ==
  ASSUME ShapeInv, NEW x \in Nat, NEW y \in Nat, x <= y
  PROVE  Tile(x) <= Tile(y) /\ Start(P, Tile(x)) <= Start(P, Tile(y))
         /\ Start(P, Tile(x) + 1) <= Start(P, Tile(y) + 1)
  <1>1. P \in Shapes
    BY DEF ShapeInv, P
  <1> DEFINE t == Tile(x)
             u == Tile(y)
  <1>2. /\ t \in Nat /\ u \in Nat
        /\ Start(P, t) \in Nat /\ Start(P, t + 1) \in Nat /\ Start(P, u) \in Nat /\ Start(P, u + 1) \in Nat
        /\ Start(P, t) <= x /\ y < Start(P, u + 1)
    BY TileFacts
  <1> HIDE DEF t, u
  <1>3. \A ix, j \in Nat : ix <= j => Start(P, ix) <= Start(P, j)
    <2> SUFFICES ASSUME NEW ix \in Nat, NEW j \in Nat, ix <= j PROVE Start(P, ix) <= Start(P, j)
      OBVIOUS
    <2>1. Start(P, ix) \in Nat /\ Start(P, j) \in Nat /\ P.blocks \in Nat
      BY <1>1, Starts, ProductGiven
    <2>2. CASE ix < j
      <3>1. Start(P, ix) + P.blocks <= Start(P, j)
        BY <1>1, <2>2, Starts
      <3> QED BY <2>1, <3>1
    <2>3. CASE ix = j
      BY <2>1, <2>3
    <2> QED BY <2>2, <2>3
  <1>4. ~(u < t)
    <2> SUFFICES ASSUME u < t PROVE FALSE
      OBVIOUS
    <2>1. u + 1 \in Nat /\ u + 1 <= t
      BY <1>2
    <2>2. Start(P, u + 1) <= Start(P, t)
      BY <1>2, <1>3, <2>1
    <2> QED BY <1>2, <2>2
  <1>5. t <= u /\ t + 1 \in Nat /\ u + 1 \in Nat /\ t + 1 <= u + 1
    BY <1>2, <1>4
  <1>6. Start(P, t) <= Start(P, u) /\ Start(P, t + 1) <= Start(P, u + 1)
    BY <1>2, <1>3, <1>5
  <1> QED BY <1>5, <1>6 DEF t, u

LEMMA TileInRange ==
  ASSUME ShapeInv, NEW x \in Nat, x < Total(P) PROVE Tile(x) \in DOMAIN dst
  <1>1. P \in Shapes /\ DOMAIN dst = 0 .. Tiles(P) - 1 /\ Tiles(P) \in Nat
    BY TilesCounted DEF ShapeInv, P
  <1> DEFINE t == Tile(x)
             n == Tiles(P)
  <1>2. t \in Nat /\ Start(P, t) <= x /\ Start(P, t) \in Nat
    BY TileFacts
  <1>3. Start(P, n) \in Nat /\ P.blocks \in Nat /\ x < Start(P, n)
    BY <1>1, Starts, ProductGiven DEF Total
  <1>4. n < t => Start(P, n) + P.blocks <= Start(P, t)
    BY <1>1, <1>2, Starts
  <1> HIDE DEF t, n
  <1>5. t < n
    <2>1. CASE n < t
      BY <1>2, <1>3, <1>4, <2>1
    <2>2. CASE n = t
      BY <1>2, <1>3, <2>2
    <2> QED BY <1>1, <1>2, <2>1, <2>2 DEF n
  <1> QED BY <1>1, <1>2, <1>5 DEF t, n

\* The product stays what it was.
LEMMA SameProduct ==
  ASSUME UNCHANGED product
  PROVE  /\ P' = P /\ \A b : From(b)' = From(b) /\ Stop(b)' = Stop(b)
         /\ \A x : Tile(x)' = Tile(x)
         /\ \A t : Start(P, t)' = Start(P, t)
         /\ \A b : WroteOnlyAnEnd(P, b)' <=> WroteOnlyAnEnd(P, b)
  <1>1. P' = P
    BY DEF P
  <1> QED BY <1>1 DEF From, Stop, Tile

-----------------------------------------------------------------------------
(* The first kernel.                                                       *)

\* Where a thread block is in its share, and what it is about to write.
LEMMA AtWork ==
  ASSUME StreamInv, phase = "tiles", NEW b \in Blocks(P), next[b] < Stop(b)
  PROVE  LET k == next[b]  t == Tile(next[b]) IN
         /\ k \in Nat /\ Whole(k) /\ From(b) <= k
         /\ t \in DOMAIN dst /\ t \in Nat
         /\ Start(P, t) <= k /\ k < Start(P, t + 1)
         /\ \A x \in Nat : From(b) <= x /\ x < k => Tile(x) # t \/ k = From(b)
         /\ \A x \in Nat : From(b) <= x /\ Tile(x) = t => k <= x
  <1> DEFINE k == next[b]
             t == Tile(k)
  <1>1. /\ k \in Nat /\ Whole(k) /\ From(b) <= k /\ k < Stop(b)
        /\ k = From(b) \/ k = Start(P, t)
    <2>1. next[b] \in Nat /\ Whole(next[b]) /\ From(b) <= next[b]
          /\ (next[b] = From(b) \/ next[b] = Stop(b) \/ next[b] = Start(P, Tile(next[b])))
      BY DEF StreamInv, StreamStepInv
    <2>2. Stop(b) \in Nat
      BY BlockFacts DEF StreamInv
    <2> QED BY <2>1, <2>2
  <1> HIDE DEF k
  <1>2. From(b) \in Nat /\ Stop(b) \in Nat /\ Stop(b) <= Total(P) /\ Total(P) \in Nat
    BY BlockFacts, Starts DEF StreamInv, ShapeInv, P
  <1>3. t \in Nat /\ Start(P, t) <= k /\ k < Start(P, t + 1) /\ Start(P, t) \in Nat
    BY <1>1, TileFacts DEF StreamInv
  <1>4. t \in DOMAIN dst
    BY <1>1, <1>2, TileInRange DEF StreamInv
  <1>5. ASSUME NEW x \in Nat, From(b) <= x, Tile(x) = t PROVE k <= x
    <2>1. Start(P, t) <= x
      BY <1>5, TileFacts DEF StreamInv
    <2> QED BY <1>1, <1>2, <1>5, <2>1
  <1>6. ASSUME NEW x \in Nat, From(b) <= x, x < k PROVE Tile(x) # t
    BY <1>1, <1>5, <1>6
  <1> QED BY <1>1, <1>3, <1>4, <1>5, <1>6 DEF k

LEMMA WriteNext ==
  ASSUME StreamInv, NEW b \in Blocks(P), UNCHANGED <<product, phase>>, phase = "tiles",
         NEW n \in Nat, next' = [next EXCEPT ![b] = n],
         Whole(n), From(b) <= n, n <= Stop(b), n = Stop(b) \/ n = Start(P, Tile(n))
  PROVE  StreamStepInv'
  <1>1. P' = P /\ \A c : From(c)' = From(c) /\ Stop(c)' = Stop(c)
    BY SameProduct
  <1>2. \A x : Tile(x)' = Tile(x) /\ Start(P, Tile(x))' = Start(P, Tile(x))
    BY SameProduct
  <1>3. Blocks(P)' = Blocks(P)
    BY <1>1
  <1>4. \A c \in Blocks(P) : next'[c] = IF c = b THEN n ELSE next[c]
    BY DEF StreamInv, ShapeInv
  <1>5. ASSUME NEW c \in Blocks(P)
        PROVE  /\ next'[c] \in Nat /\ Whole(next'[c]) /\ From(c) <= next'[c] /\ next'[c] <= Stop(c)
               /\ next'[c] = From(c) \/ next'[c] = Stop(c) \/ next'[c] = Start(P, Tile(next'[c]))
    <2>1. CASE c = b
      BY <1>4, <2>1
    <2>2. CASE c # b
      BY <1>4, <2>2 DEF StreamInv, StreamStepInv
    <2> QED BY <2>1, <2>2
  <1>6. P = product
    BY DEF P
  <1> QED BY <1>1, <1>2, <1>3, <1>5, <1>6 DEF StreamStepInv, From, Stop, Tile

LEMMA FixStays ==
  ASSUME FixInv, UNCHANGED <<product, phase, fix>> PROVE FixInv'
  <1>1. P' = P
    BY SameProduct
  <1> QED BY <1>1 DEF FixInv, Collects, SumIs, From, Stop, Tile

LEMMA WriteTileKeeps ==
  ASSUME StreamInv, NEW b \in Blocks(P), WriteTile(b)
  PROVE  StreamInv'
  <1>k. PICK k : k = next[b]
    OBVIOUS
  <1>t. PICK t : t = Tile(k)
    OBVIOUS
  <1>e. PICK e : e = Start(P, t + 1)
    OBVIOUS
  <1>1. P \in Shapes /\ P = product
    BY DEF StreamInv, ShapeInv, P
  <1>2. /\ phase = "tiles" /\ k < Stop(b) /\ e <= Stop(b)
        /\ dst' = [dst EXCEPT ![t] = Summed(k, e)]
        /\ next' = [next EXCEPT ![b] = e]
        /\ UNCHANGED <<product, phase, scratch, fix>>
    <2>1. k \in Nat
      BY <1>k DEF StreamInv, StreamStepInv
    <2>2. TileEnd(P, k) = e
      BY <1>t, <1>e, <2>1, TileFacts DEF StreamInv
    <2> QED BY <1>k, <1>t, <1>1, <2>2 DEF WriteTile, Stop, Tile
  <1>3. /\ k \in Nat /\ Whole(k) /\ From(b) <= k /\ t \in DOMAIN dst /\ t \in Nat
        /\ Start(P, t) <= k /\ k < e /\ Start(P, t) \in Nat
        /\ \A x \in Nat : From(b) <= x /\ Tile(x) = t => k <= x
    BY <1>k, <1>t, <1>e, <1>1, <1>2, AtWork, Starts
  <1>4. e \in Nat /\ Whole(e) /\ From(b) \in Nat /\ Stop(b) \in Nat /\ b \in Nat
    BY <1>e, <1>1, <1>3, Starts, BlockFacts DEF StreamInv
  <1>5. \A x : x \in Summed(k, e) <=> x \in Nat /\ k <= x /\ x < e
    BY <1>3, <1>4, SummedIs
  <1>6. e = Start(P, t + 1) /\ t + 1 \in Nat
    BY <1>e, <1>3
  <1>7. StreamStepInv'
    <2> DEFINE u == t + 1
    <2>0. u \in Nat /\ e = Start(P, u) /\ P.blocks \in Nat \ {0}
      BY <1>1, <1>3, <1>6, ProductGiven
    <2> HIDE DEF u
    <2>1. u \in Nat /\ e = Start(P, u) /\ Start(P, u + 1) = e + P.blocks /\ P.blocks \in Nat \ {0}
      BY <1>1, <2>0, Starts
    <2>2. e < Start(P, u + 1)
      BY <1>4, <2>1
    <2>3. Tile(e) = u
      BY <1>4, <2>1, <2>2, TileFacts DEF StreamInv
    <2>4. From(b) <= e
      BY <1>3, <1>4
    <2> QED BY <1>2, <1>4, <2>1, <2>3, <2>4, WriteNext
  <1>8. ShapeInv'
    BY <1>2, <1>1 DEF StreamInv, ShapeInv, P
  <1>9. \A c \in Blocks(P) : next'[c] = IF c = b THEN e ELSE next[c]
    BY <1>2 DEF StreamInv, ShapeInv
  <1>10. \A c \in Blocks(P) : \A u, x : ~Added(c, u, x)' /\ ~Added(c, u, x)
    BY <1>2 DEF Added, StreamInv, FixInv
  <1>11. \A c \in Blocks(P) : \A u, x :
           Wrote(c, u, x)' <=> From(c) <= x /\ x < next'[c] /\ Tile(x) = u /\ Start(P, u + 1) <= Stop(c)
    BY <1>2, SameProduct DEF Wrote
  <1>12. ASSUME NEW x \in Nat, NEW c \in Blocks(P)
         PROVE  Wrote(c, t, x)' <=> c = b /\ k <= x /\ x < e
    <2>1. /\ next'[c] <= Stop(c) /\ next'[c] \in Nat
          /\ From(c) \in Nat /\ Stop(c) \in Nat
      BY <1>2, <1>4, <1>9, BlockFacts DEF StreamInv, StreamStepInv
    <2>2. Tile(x) = t <=> Start(P, t) <= x /\ x < e
      BY <1>3, <1>6, TileFacts DEF StreamInv
    <2>0. Wrote(c, t, x)' <=> From(c) <= x /\ x < next'[c] /\ Tile(x) = t /\ e <= Stop(c)
      BY <1>6, <1>11
    <2>3. CASE c = b
      <3>1. next'[c] = e
        BY <1>9, <2>3
      <3>2. From(c) <= x /\ Tile(x) = t => k <= x
        BY <1>3, <2>3
      <3>3. e <= Stop(c) /\ (k <= x => From(c) <= x /\ Start(P, t) <= x)
        <4>1. From(b) \in Nat /\ k \in Nat /\ Start(P, t) \in Nat /\ From(b) <= k /\ Start(P, t) <= k
          BY <1>3, <1>4
        <4>2. k <= x => From(b) <= x /\ Start(P, t) <= x
          BY <4>1
        <4> QED BY <1>2, <2>3, <4>2
      <3>4. Wrote(c, t, x)' <=> From(c) <= x /\ x < e /\ Tile(x) = t
        BY <2>0, <3>1, <3>3
      <3>5. Wrote(c, t, x)' => k <= x /\ x < e
        BY <3>2, <3>4
      <3>6. k <= x /\ x < e => Wrote(c, t, x)'
        BY <2>2, <3>3, <3>4
      <3> QED BY <2>3, <3>5, <3>6
    <2>4. CASE c # b
      <3> SUFFICES ASSUME Wrote(c, t, x)' PROVE FALSE
        BY <2>4
      <3>1. From(c) <= x /\ x < e /\ e <= Stop(c)
        BY <2>0, <2>2
      <3>2. From(b) < e /\ From(c) < e
        BY <1>3, <1>4, <2>1, <3>1
      <3> QED BY <1>2, <1>4, <2>4, <3>1, <3>2, OneOwner DEF StreamInv
    <2> QED BY <2>3, <2>4
  <1>13. ASSUME NEW x \in Nat, NEW c \in Blocks(P), NEW u \in DOMAIN dst, u # t
         PROVE  Wrote(c, u, x)' <=> Wrote(c, u, x)
    <2>1. CASE c # b
      BY <1>9, <1>11, <2>1 DEF Wrote
    <2>2. CASE c = b
      <3>1. next'[c] = e
        BY <1>9, <2>2
      <3>2. k <= x /\ x < e => Tile(x) = t
        BY <1>3, <1>6, TileFacts DEF StreamInv
      <3>3. x < e /\ Tile(x) = u <=> x < k /\ Tile(x) = u
        BY <1>3, <1>4, <1>13, <3>2
      <3> QED BY <1>11, <2>2, <3>1, <3>3, <1>k DEF Wrote
    <2> QED BY <2>1, <2>2
  <1>14. DstInv'
    <2>1. DOMAIN dst' = DOMAIN dst /\ Blocks(P)' = Blocks(P)
      BY <1>2, SameProduct
    <2>2. ASSUME NEW u \in DOMAIN dst, NEW x
          PROVE  x \in dst'[u] <=> x \in Nat /\ \E c \in Blocks(P) : Wrote(c, u, x)'
      <3>1. CASE u = t
        <4>1. dst'[u] = Summed(k, e)
          BY <1>2, <3>1
        <4>0. ASSUME x \in Nat PROVE k <= x /\ x < e <=> \E c \in Blocks(P) : Wrote(c, t, x)'
          <5>1. \A c \in Blocks(P) : Wrote(c, t, x)' <=> c = b /\ k <= x /\ x < e
            BY <1>12, <4>0
          <5>2. b \in Blocks(P)
            OBVIOUS
          <5> QED BY <5>1, <5>2, Zenon
        <4>2. x \in Nat => (k <= x /\ x < e <=> \E c \in Blocks(P) : Wrote(c, t, x)')
          BY <4>0
        <4>3. x \in dst'[u] <=> x \in Nat /\ k <= x /\ x < e
          BY <1>5, <4>1
        <4>4. x \in Nat /\ k <= x /\ x < e
              <=> x \in Nat /\ \E c \in Blocks(P) : Wrote(c, t, x)'
          BY <4>2
        <4> QED BY <3>1, <4>3, <4>4
      <3>2. CASE u # t
        <4>1. dst'[u] = dst[u]
          BY <1>2, <3>2
        <4>2. x \in dst[u] <=> x \in Nat /\ \E c \in Blocks(P) : Wrote(c, u, x)
          BY <1>10 DEF StreamInv, DstInv
        <4> QED BY <1>13, <3>2, <4>1, <4>2
      <3> QED BY <3>1, <3>2
    <2> QED BY <1>10, <2>1, <2>2 DEF DstInv
  <1>15. ScratchInv'
    <2>1. ASSUME NEW c \in Blocks(P), NEW x \in Nat PROVE Leaves(c, x)' <=> Leaves(c, x)
      <3>1. Leaves(c, x)' <=> From(c) <= x /\ x < next'[c] /\ Start(P, Tile(x) + 1) > Stop(c)
        BY <1>2, SameProduct DEF Leaves
      <3>2. CASE c # b
        BY <1>9, <3>1, <3>2 DEF Leaves
      <3>3. CASE c = b
        <4>1. next'[c] = e
          BY <1>9, <3>3
        <4>2. k <= x /\ x < e => Tile(x) = t
          BY <1>3, <1>6, TileFacts DEF StreamInv
        <4>3. k <= x /\ x < e => ~(Start(P, Tile(x) + 1) > Stop(c))
          BY <1>2, <1>4, <1>6, <3>3, <4>2
        <4> QED BY <1>3, <1>4, <3>1, <3>3, <4>1, <4>3, <1>k DEF Leaves
      <3> QED BY <3>2, <3>3
    <2>2. Blocks(P)' = Blocks(P) /\ scratch' = scratch
      BY <1>2, SameProduct
    <2> QED BY <2>1, <2>2 DEF ScratchInv, StreamInv
  <1>16. FixInv'
    BY <1>2, FixStays DEF StreamInv
  <1> QED BY <1>7, <1>8, <1>14, <1>15, <1>16 DEF StreamInv

LEMMA LeavePartKeeps ==
  ASSUME StreamInv, NEW b \in Blocks(P), LeavePart(b)
  PROVE  StreamInv'
  <1>k. PICK k : k = next[b]
    OBVIOUS
  <1>t. PICK t : t = Tile(k)
    OBVIOUS
  <1>s. PICK s : s = Stop(b)
    OBVIOUS
  <1>1. P \in Shapes /\ P = product
    BY DEF StreamInv, ShapeInv, P
  <1>2. /\ phase = "tiles" /\ k < s /\ Start(P, t + 1) > s
        /\ scratch' = [scratch EXCEPT ![b] = Summed(k, s)]
        /\ next' = [next EXCEPT ![b] = s]
        /\ UNCHANGED <<product, phase, fix, dst>>
    <2>1. k \in Nat
      BY <1>k DEF StreamInv, StreamStepInv
    <2>2. TileEnd(P, k) = Start(P, t + 1)
      BY <1>t, <2>1, TileFacts DEF StreamInv
    <2> QED BY <1>k, <1>s, <1>1, <2>2 DEF LeavePart, Stop
  <1>3. /\ k \in Nat /\ Whole(k) /\ From(b) <= k /\ t \in Nat
        /\ Start(P, t) <= k /\ Start(P, t) \in Nat /\ Start(P, t + 1) \in Nat
        /\ \A x \in Nat : From(b) <= x /\ Tile(x) = t => k <= x
    BY <1>k, <1>t, <1>s, <1>1, <1>2, AtWork, Starts
  <1>4. s \in Nat /\ Whole(s) /\ From(b) \in Nat /\ From(b) <= s /\ k <= s
    BY <1>s, <1>2, <1>3, BlockFacts DEF StreamInv
  <1>5. \A x : x \in Summed(k, s) <=> x \in Nat /\ k <= x /\ x < s
    BY <1>3, <1>4, SummedIs
  <1>6. StreamStepInv'
    <2>1. s <= Stop(b) /\ (s = Stop(b) \/ s = Start(P, Tile(s)))
      BY <1>s, <1>4
    <2>2. UNCHANGED <<product, phase>>
      BY <1>2
    <2> QED BY <1>2, <1>4, <2>1, <2>2, WriteNext
  <1>7. ShapeInv'
    BY <1>2, <1>1 DEF StreamInv, ShapeInv, P
  <1>8. \A c \in Blocks(P) : next'[c] = IF c = b THEN s ELSE next[c]
    BY <1>2 DEF StreamInv, ShapeInv
  <1>9. \A c \in Blocks(P) : \A u, x : ~Added(c, u, x)' /\ ~Added(c, u, x)
    BY <1>2 DEF Added, StreamInv, FixInv
  \* What is left now belongs to the tile that ends behind the share.
  <1>10. \A x \in Nat : k <= x /\ x < s => Tile(x) = t
    <2> SUFFICES ASSUME NEW x \in Nat, k <= x, x < s PROVE Tile(x) = t
      OBVIOUS
    <2>1. Start(P, t) <= x /\ x < Start(P, t + 1)
      BY <1>2, <1>3, <1>4
    <2> QED BY <1>3, <2>1, TileFacts DEF StreamInv
  <1>11. ASSUME NEW x \in Nat, NEW c \in Blocks(P), NEW u \in DOMAIN dst
         PROVE  Wrote(c, u, x)' <=> Wrote(c, u, x)
    <2>1. Wrote(c, u, x)' <=> From(c) <= x /\ x < next'[c] /\ Tile(x) = u /\ Start(P, u + 1) <= Stop(c)
      BY <1>2, SameProduct DEF Wrote
    <2>2. CASE c # b
      BY <1>8, <2>1, <2>2 DEF Wrote
    <2>3. CASE c = b
      <3>1. next'[c] = s
        BY <1>8, <2>3
      <3>2. ~(Start(P, t + 1) <= s)
        BY <1>2, <1>3, <1>4
      <3>3. x < s /\ Tile(x) = u /\ Start(P, u + 1) <= s => x < k
        BY <1>3, <1>10, <3>2
      <3>4. x < k => x < s
        BY <1>3, <1>4
      <3> QED BY <1>k, <1>s, <2>1, <2>3, <3>1, <3>3, <3>4 DEF Wrote
    <2> QED BY <2>2, <2>3
  <1>12. DstInv'
    <2>1. dst' = dst /\ Blocks(P)' = Blocks(P)
      BY <1>2, SameProduct
    <2>2. ASSUME NEW u \in DOMAIN dst, NEW x
          PROVE  x \in dst[u] <=> x \in Nat /\ \E c \in Blocks(P) : Wrote(c, u, x)'
      <3>1. x \in dst[u] <=> x \in Nat /\ \E c \in Blocks(P) : Wrote(c, u, x)
        BY <1>9 DEF StreamInv, DstInv
      <3> QED BY <1>11, <3>1
    <2> QED BY <1>9, <2>1, <2>2 DEF DstInv
  <1>13. ScratchInv'
    <2>1. ASSUME NEW c \in Blocks(P), NEW x
          PROVE  x \in scratch'[c] <=> x \in Nat /\ Leaves(c, x)'
      <3>1. Leaves(c, x)' <=> From(c) <= x /\ x < next'[c] /\ Start(P, Tile(x) + 1) > Stop(c)
        BY <1>2, SameProduct DEF Leaves
      <3>2. CASE c # b
        <4>1. scratch'[c] = scratch[c] /\ next'[c] = next[c]
          BY <1>2, <1>8, <3>2 DEF StreamInv, ShapeInv
        <4> QED BY <3>1, <4>1 DEF Leaves, StreamInv, ScratchInv
      <3>3. CASE c = b
        <4>1. scratch'[c] = Summed(k, s) /\ next'[c] = s
          BY <1>2, <1>8, <3>3 DEF StreamInv, ShapeInv
        <4>2. ASSUME x \in Nat, k <= x, x < s PROVE Leaves(c, x)'
          <5>1. From(c) <= x
            BY <1>3, <1>4, <3>3, <4>2
          <5> QED BY <1>2, <1>s, <1>10, <3>1, <3>3, <4>1, <4>2, <5>1
        <4>3. ASSUME x \in Nat, Leaves(c, x)' PROVE k <= x /\ x < s
          <5>1. From(b) <= x /\ x < s /\ Start(P, Tile(x) + 1) > s
            BY <1>s, <3>1, <3>3, <4>1, <4>3
          <5>2. ASSUME x < k PROVE FALSE
            <6>1. /\ Tile(x) \in Nat /\ Start(P, Tile(x)) \in Nat /\ Start(P, Tile(x) + 1) \in Nat
                  /\ Start(P, Tile(x)) <= x
              BY <4>3, TileFacts DEF StreamInv
            <6>2. Start(P, Tile(x)) <= k /\ k < Start(P, Tile(x) + 1)
              BY <1>3, <1>4, <4>3, <5>1, <5>2, <6>1
            <6>3. t = Tile(x)
              BY <1>3, <1>t, <6>1, <6>2, TileFacts DEF StreamInv
            <6> QED BY <1>3, <4>3, <5>1, <5>2, <6>3
          <5> QED BY <1>3, <4>3, <5>1, <5>2
        <4> QED BY <1>5, <4>1, <4>2, <4>3
      <3> QED BY <3>2, <3>3
    <2>2. Blocks(P)' = Blocks(P)
      BY <1>2, SameProduct
    <2> QED BY <2>1, <2>2 DEF ScratchInv
  <1>14. FixInv'
    BY <1>2, FixStays DEF StreamInv
  <1> QED BY <1>6, <1>7, <1>12, <1>13, <1>14 DEF StreamInv

-----------------------------------------------------------------------------
(* Between the kernels, and the second one.                                *)

LEMMA NextStays ==
  ASSUME StreamStepInv, UNCHANGED <<product, next>>, \A b \in Blocks(P) : next[b] = Stop(b)
  PROVE  StreamStepInv'
  <1>1. P' = P /\ Blocks(P)' = Blocks(P)
    BY SameProduct
  <1>2. \A b \in Blocks(P) : From(b)' = From(b) /\ Stop(b)' = Stop(b)
    BY SameProduct
  <1>3. \A b \in Blocks(P) :
          /\ next'[b] \in Nat /\ Whole(next'[b]) /\ From(b)' <= next'[b] /\ next'[b] <= Stop(b)'
          /\ next'[b] = Stop(b)'
    BY <1>2 DEF StreamStepInv
  <1> QED BY <1>1, <1>3 DEF StreamStepInv

LEMMA LaunchedHolds == product \in Shapes /\ Launched => StreamInv
  <1> SUFFICES ASSUME product \in Shapes, Launched PROVE StreamInv
    OBVIOUS
  <1>1. P \in Shapes /\ P = product
    BY DEF P
  <1>2. ShapeInv
    BY <1>1 DEF Launched, ShapeInv, P
  <1>3. /\ phase = "tiles"
        /\ \A b \in Blocks(P) : next[b] = From(b) /\ scratch[b] = {} /\ fix[b].at = "start"
        /\ \A t \in DOMAIN dst : dst[t] = {}
    BY <1>1 DEF Launched, From
  <1>4. StreamStepInv
    BY <1>2, <1>3, BlockFacts DEF StreamStepInv
  <1>5. ASSUME NEW b \in Blocks(P), NEW x \in Nat PROVE ~(From(b) <= x /\ x < next[b])
    <2>1. next[b] = From(b) /\ From(b) \in Nat
      BY <1>2, <1>3, BlockFacts
    <2> QED BY <2>1
  <1>6. DstInv
    BY <1>3, <1>5 DEF DstInv, Wrote, Added
  <1>7. ScratchInv
    BY <1>3, <1>5 DEF ScratchInv, Leaves
  <1>8. FixInv
    BY <1>3 DEF FixInv, Collects
  <1> QED BY <1>2, <1>4, <1>6, <1>7, <1>8 DEF StreamInv

LEMMA FixupKeeps == StreamInv /\ Fixup => StreamInv'
  <1> SUFFICES ASSUME StreamInv, Fixup PROVE StreamInv'
    OBVIOUS
  <1>1. P' = P /\ P = product /\ Blocks(P)' = Blocks(P)
    BY SameProduct DEF Fixup, P
  <1>2. /\ phase = "tiles" /\ phase' = IF FixupNeeded(P) THEN "fixup" ELSE "done"
        /\ UNCHANGED <<next, scratch, fix, dst>>
        /\ \A b \in Blocks(P) : next[b] >= Stop(b)
    BY <1>1 DEF Fixup, Stop
  <1>3. \A b \in Blocks(P) : next[b] = Stop(b)
    <2> SUFFICES ASSUME NEW b \in Blocks(P) PROVE next[b] = Stop(b)
      OBVIOUS
    <2>1. next[b] \in Nat /\ Stop(b) \in Nat /\ next[b] <= Stop(b) /\ next[b] >= Stop(b)
      BY <1>2, BlockFacts DEF StreamInv, StreamStepInv
    <2> QED BY <2>1
  <1>4. ShapeInv'
    BY <1>1, <1>2 DEF StreamInv, ShapeInv, P, Fixup
  <1>5. StreamStepInv'
    <2>1. StreamStepInv
      BY DEF StreamInv
    <2>2. UNCHANGED <<product, next>>
      BY <1>2 DEF Fixup
    <2> QED BY ONLY <1>3, <2>1, <2>2, NextStays
  <1>6. DstInv'
    BY <1>1, <1>2 DEF StreamInv, DstInv, Wrote, Added, From, Stop, Tile
  <1>7. ScratchInv'
    BY <1>1, <1>2 DEF StreamInv, ScratchInv, Leaves, From, Stop, Tile
  <1>8. FixInv'
    <2>1. \A b \in Blocks(P) : fix[b].at = "start"
      BY <1>2 DEF StreamInv, FixInv
    <2>2. \A b \in Blocks(P) : Collects(b)'
      BY <1>2, <2>1 DEF Collects
    <2> QED BY <1>1, <1>2, <2>1, <2>2 DEF FixInv
  <1> QED BY <1>4, <1>5, <1>6, <1>7, <1>8 DEF StreamInv

LEMMA FixEndKeeps == StreamInv /\ FixEnd => StreamInv'
  <1> SUFFICES ASSUME StreamInv, FixEnd PROVE StreamInv'
    OBVIOUS
  <1>1. P' = P /\ P = product /\ Blocks(P)' = Blocks(P)
    BY SameProduct DEF FixEnd, P
  <1>2. /\ phase = "fixup" /\ phase' = "done" /\ UNCHANGED <<next, scratch, fix, dst>>
        /\ \A b \in Blocks(P) : fix[b].at = "end"
    <2>1. phase = "fixup" /\ UNCHANGED <<next, scratch, fix, dst>>
          /\ \A b \in Blocks(P) : fix[b].at = "end" /\ phase' = "done"
      BY <1>1 DEF FixEnd
    <2>2. Blocks(P) # {}
      <3>1. Grid(P) \in Nat \ {0}
        BY GridIs DEF StreamInv, ShapeInv, P
      <3>2. 0 \in Blocks(P)
        BY <3>1 DEF Blocks
      <3> QED BY <3>2
    <2> QED BY <2>1, <2>2
  <1>3. ShapeInv'
    BY <1>1, <1>2 DEF StreamInv, ShapeInv, P, FixEnd
  <1>4. StreamStepInv'
    <2>1. \A b \in Blocks(P) : next[b] = Stop(b)
      BY <1>2 DEF StreamInv, StreamStepInv
    <2>2. StreamStepInv
      BY DEF StreamInv
    <2>3. UNCHANGED <<product, next>>
      BY <1>2 DEF FixEnd
    <2> QED BY ONLY <2>1, <2>2, <2>3, NextStays
  <1>5. DstInv'
    BY <1>1, <1>2 DEF StreamInv, DstInv, Wrote, Added, From, Stop, Tile
  <1>6. ScratchInv'
    BY <1>1, <1>2 DEF StreamInv, ScratchInv, Leaves, From, Stop, Tile
  <1>7. FixInv'
    <2>1. \A b \in Blocks(P) : Collects(b)'
      BY <1>2 DEF Collects
    <2>2. FixupNeeded(P)
      BY <1>2 DEF StreamInv, FixInv
    <2> QED BY <1>1, <1>2, <2>1, <2>2 DEF FixInv
  <1> QED BY <1>3, <1>4, <1>5, <1>6, <1>7 DEF StreamInv

\* What a step of the fixup leaves as it was.
LEMMA FixStepKeeps ==
  ASSUME StreamInv, phase = "fixup", NEW b \in Blocks(P), NEW r, fix' = [fix EXCEPT ![b] = r],
         UNCHANGED <<product, phase, next, scratch>>, DOMAIN dst' = DOMAIN dst, Collects(b)'
  PROVE  ShapeInv' /\ StreamStepInv' /\ ScratchInv' /\ FixInv'
  <1>1. P' = P /\ P = product /\ Blocks(P)' = Blocks(P)
    BY SameProduct DEF P
  <1>2. ShapeInv'
    BY <1>1 DEF StreamInv, ShapeInv
  <1>3. StreamStepInv'
    BY <1>1 DEF StreamInv, StreamStepInv, From, Stop, Tile
  <1>4. ScratchInv'
    BY <1>1 DEF StreamInv, ScratchInv, Leaves, From, Stop, Tile
  <1>5. ASSUME NEW c \in Blocks(P), c # b PROVE Collects(c)'
    <2>1. fix'[c] = fix[c]
      BY <1>5 DEF StreamInv, ShapeInv
    <2>2. Collects(c)
      BY DEF StreamInv, FixInv
    <2> QED BY <1>1, <2>1, <2>2 DEF Collects, SumIs, From, Stop, Tile
  <1>6. FixInv'
    BY <1>1, <1>5 DEF StreamInv, FixInv
  <1> QED BY <1>2, <1>3, <1>4, <1>6

\* A step of the fixup that has not added anything yet.
LEMMA NothingAdded ==
  ASSUME StreamInv, UNCHANGED <<product, next, dst>>, NEW b \in Blocks(P), NEW r,
         fix' = [fix EXCEPT ![b] = r],
         \A t, x : ~Added(b, t, x) /\ ~Added(b, t, x)'
  PROVE  DstInv'
  <1>1. P' = P /\ Blocks(P)' = Blocks(P)
    BY SameProduct
  <1>2. \A c \in Blocks(P) : \A t, x : Added(c, t, x)' <=> Added(c, t, x)
    <2> SUFFICES ASSUME NEW c \in Blocks(P), NEW t, NEW x PROVE Added(c, t, x)' <=> Added(c, t, x)
      OBVIOUS
    <2>1. CASE c # b
      <3>1. fix'[c] = fix[c]
        BY <2>1 DEF StreamInv, ShapeInv
      <3> QED BY <1>1, <3>1 DEF Added, From, Tile
    <2>2. CASE c = b
      BY <2>2
    <2> QED BY <2>1, <2>2
  <1>3. \A c \in Blocks(P) : \A t, x : Wrote(c, t, x)' <=> Wrote(c, t, x)
    BY <1>1 DEF Wrote, From, Stop, Tile
  <1> QED BY <1>1, <1>2, <1>3 DEF StreamInv, DstInv

LEMMA FixStartKeeps ==
  ASSUME StreamInv, NEW b \in Blocks(P), FixStart(b)
  PROVE  StreamInv'
  <1>1. P' = P /\ P = product
    BY SameProduct DEF FixStart, P
  <1>p. PICK f : f = From(b)
    OBVIOUS
  <1>r. PICK r : r = IF WroteOnlyAnEnd(P, b) THEN [at |-> "sum", from |-> b - 1, stop |-> f, sum |-> {}]
                     ELSE [at |-> "end"]
    OBVIOUS
  <1>2. /\ phase = "fixup" /\ fix[b].at = "start" /\ fix' = [fix EXCEPT ![b] = r]
        /\ UNCHANGED <<product, phase, next, scratch, dst>>
    BY <1>1, <1>p, <1>r DEF FixStart, From
  <1>3. fix'[b] = r
    BY <1>2 DEF StreamInv, ShapeInv
  <1>4. From(b)' = f /\ (WroteOnlyAnEnd(P, b)' <=> WroteOnlyAnEnd(P, b))
    BY <1>p, <1>2, SameProduct
  <1>5. Collects(b)'
    <2>1. CASE WroteOnlyAnEnd(P, b)
      <3>1. /\ fix'[b].at = "sum" /\ fix'[b].from = b - 1 /\ fix'[b].stop = f /\ fix'[b].sum = {}
           /\ DOMAIN fix'[b] = {"at", "from", "stop", "sum"}
        BY <1>3, <1>r, <2>1
      <3>2. b \in Nat /\ f \in Nat
        BY <1>p, BlockFacts DEF StreamInv
      <3>3. b - 1 \in -1 .. b - 1 /\ (b - 1) + 1 = b
        BY <3>2
      <3>4. Stop(b - 1)' = f
        BY <1>1, <1>p, <3>3 DEF Stop, From
      <3>5. Start(P, Tile(f)) < f
        <4>1. f % P.blocks # 0
          BY <1>p, <2>1 DEF WroteOnlyAnEnd, From
        <4>2. f # Start(P, Tile(f)) /\ Start(P, Tile(f)) <= f /\ Start(P, Tile(f)) \in Nat
          BY <3>2, <4>1, TileFacts DEF StreamInv
        <4> QED BY <3>2, <4>2
      <3>6. Start(P, Tile(From(b)))' < f
        BY <1>1, <1>p, <3>5 DEF From, Tile
      <3>7. SumIs(b, f)'
        <4>1. \A x : x \notin fix'[b].sum
          BY <3>1
        <4>2. \A x \in Nat : ~(f <= x /\ x < f)
          BY <3>2
        <4> QED BY <1>4, <4>1, <4>2 DEF SumIs
      <3>8. f <= From(b)'
        BY <1>4, <3>2
      <3> HIDE DEF SumIs, Stop, From
      <3>9. SumIs(b, fix[b].stop)' /\ Stop(fix[b].from)' = f
        BY <1>1, <3>1, <3>4, <3>7 DEF SumIs, Stop, From
      <3> QED BY <1>4, <2>1, <3>1, <3>3, <3>6, <3>8, <3>9 DEF Collects
    <2>2. CASE ~WroteOnlyAnEnd(P, b)
      <3>1. fix'[b].at = "end"
        BY <1>3, <1>r, <2>2
      <3> QED BY <3>1 DEF Collects
    <2> QED BY <2>1, <2>2
  <1>6. \A t, x : ~Added(b, t, x) /\ ~Added(b, t, x)'
    <2>1. WroteOnlyAnEnd(P, b) => fix'[b].at # "end"
      BY <1>3, <1>r
    <2> QED BY <1>2, <1>4, <2>1 DEF Added
  <1>7. DstInv'
    BY <1>2, <1>6, NothingAdded
  <1> QED BY <1>2, <1>5, <1>7, FixStepKeeps DEF StreamInv

\* What a thread block has left of the tile in which the share of b begins.
LEMMA PartLeft ==
  ASSUME StreamInv, phase = "fixup", NEW b \in Blocks(P), NEW c \in Blocks(P), NEW f, f = From(b),
         Start(P, Tile(f)) < Stop(c), Stop(c) <= f
  PROVE  \A x : x \in scratch[c] <=>
                 x \in Nat /\ From(c) <= x /\ Start(P, Tile(f)) <= x /\ x < Stop(c)
  <1>p. PICK t : t = Tile(f)
    OBVIOUS
  <1>1. f \in Nat /\ From(c) \in Nat /\ Stop(c) \in Nat /\ next[c] = Stop(c)
    BY BlockFacts DEF StreamInv, StreamStepInv
  <1>2. t \in Nat /\ Start(P, t) \in Nat /\ Start(P, t + 1) \in Nat /\ f < Start(P, t + 1)
    BY <1>p, <1>1, TileFacts DEF StreamInv
  <1>3. ASSUME NEW x \in Nat, x < Stop(c)
        PROVE  Start(P, Tile(x) + 1) > Stop(c) <=> Start(P, t) <= x
    <2>1. /\ Tile(x) \in Nat /\ Start(P, Tile(x)) \in Nat /\ Start(P, Tile(x) + 1) \in Nat
          /\ Start(P, Tile(x)) <= x /\ x < Start(P, Tile(x) + 1)
      BY TileFacts DEF StreamInv
    <2>2. CASE Start(P, t) <= x
      <3>1. x < Start(P, t + 1)
        BY <1>1, <1>2, <1>3
      <3>2. Tile(x) = t
        BY <1>2, <2>2, <3>1, TileFacts DEF StreamInv
      <3> QED BY <1>1, <1>2, <2>2, <3>2
    <2>3. CASE ~(Start(P, t) <= x)
      <3>1. ~(Start(P, Tile(x) + 1) > Stop(c))
        <4> SUFFICES ASSUME Start(P, Tile(x) + 1) > Stop(c) PROVE FALSE
          OBVIOUS
        <4>1. Start(P, Tile(x)) <= Start(P, t) /\ Start(P, t) < Start(P, Tile(x) + 1)
          BY <1>1, <1>2, <1>p, <2>1, <2>3
        <4>2. Tile(Start(P, t)) = Tile(x)
          BY <1>2, <2>1, <4>1, TileFacts DEF StreamInv
        <4>3. Start(P, t) <= Start(P, t) /\ Start(P, t) < Start(P, t + 1)
          BY <1>1, <1>2, <1>p
        <4>4. Tile(Start(P, t)) = t
          BY <1>2, <4>3, TileFacts DEF StreamInv
        <4> QED BY <2>1, <2>3, <4>2, <4>4
      <3> QED BY <2>3, <3>1
    <2> QED BY <2>2, <2>3
  <1>4. \A x : x \in scratch[c] <=> x \in Nat /\ Leaves(c, x)
    BY DEF StreamInv, ScratchInv
  <1>5. \A x \in Nat : Leaves(c, x) <=> From(c) <= x /\ x < Stop(c) /\ Start(P, t) <= x
    BY <1>1, <1>3 DEF Leaves
  <1> QED BY <1>p, <1>4, <1>5

\* Going back over the share of one thread block.
LEMMA FixReadKeeps ==
  ASSUME StreamInv, NEW b \in Blocks(P), FixRead(b)
  PROVE  StreamInv'
  <1>1. P' = P /\ P = product
    BY SameProduct DEF FixRead, P
  <1>p. PICK f, c, k, stop, start, sum, new :
           /\ f = From(b) /\ c = fix[b].from /\ k = From(c) /\ stop = fix[b].stop
           /\ start = Start(P, Tile(f)) /\ sum = fix[b].sum /\ new = sum \cup scratch[c]
    OBVIOUS
  <1>r. PICK r : r = IF k = stop THEN Passed(b)
                     ELSE IF PartBegins(P, k, f) THEN [at |-> "add", from |-> c, sum |-> new]
                     ELSE [at |-> "sum", from |-> c - 1, stop |-> k, sum |-> new]
    OBVIOUS
  <1>2. /\ phase = "fixup" /\ fix[b].at = "sum" /\ fix' = [fix EXCEPT ![b] = r]
        /\ UNCHANGED <<product, phase, next, scratch, dst>>
    BY <1>1, <1>p, <1>r DEF FixRead, From
  <1>3. fix'[b] = r /\ WroteOnlyAnEnd(P, b) /\ DOMAIN fix[b] = {"at", "from", "stop", "sum"}
    BY <1>2 DEF StreamInv, ShapeInv, FixInv, Collects
  <1>4. /\ b \in Nat /\ f \in Nat /\ start \in Nat /\ start <= f
        /\ c \in -1 .. b - 1 /\ stop = Stop(c) /\ start < stop /\ stop <= f
        /\ \A x : x \in sum <=> x \in Nat /\ stop <= x /\ x < f
    <2>1. b \in Nat /\ f \in Nat
      BY <1>p, BlockFacts DEF StreamInv
    <2>2. start \in Nat /\ start <= f
      BY <1>p, <2>1, TileFacts DEF StreamInv
    <2> QED BY <1>p, <1>2, <2>1, <2>2 DEF StreamInv, FixInv, Collects, SumIs
  \* The walk does not leave the grid: the first share begins on a tile.
  <1>5. c \in Blocks(P) /\ c \in Nat /\ Stop(c - 1) = k
    <2>1. c # -1
      <3> SUFFICES ASSUME c = -1 PROVE FALSE
        OBVIOUS
      <3>1. Stop(c) = Share(P, 0)
        BY DEF Stop
      <3>2. Share(P, 0) = 0
        BY Shares DEF StreamInv, ShapeInv, P
      <3> QED BY <1>4, <3>1, <3>2
    <2>2. Grid(P) \in Nat /\ b < Grid(P)
      BY GridIs DEF StreamInv, ShapeInv, P, Blocks
    <2>3. c \in Nat /\ (c - 1) + 1 = c /\ c < Grid(P)
      BY <1>4, <2>1, <2>2
    <2>4. c \in Blocks(P)
      BY <2>2, <2>3 DEF Blocks
    <2> QED BY <1>p, <2>3, <2>4 DEF Stop, From
  <1>6. k \in Nat /\ stop \in Nat /\ k <= stop
    BY <1>p, <1>4, <1>5, BlockFacts DEF StreamInv
  <1>7. \A x : x \in scratch[c] <=> x \in Nat /\ k <= x /\ start <= x /\ x < stop
    BY <1>p, <1>2, <1>4, <1>5, PartLeft
  <1>8. \A x : x \in new <=> x \in Nat /\ k <= x /\ start <= x /\ x < f
    BY <1>p, <1>4, <1>6, <1>7
  <1>9. /\ From(b)' = f /\ Start(P, Tile(From(b)))' = start /\ Stop(c - 1)' = k /\ Stop(c)' = stop
        /\ WroteOnlyAnEnd(P, b)'
    <2>1. From(b)' = f
      BY <1>p, <1>2, SameProduct
    <2>2. Start(P, Tile(From(b)))' = start
      BY <1>1, <1>p, <2>1 DEF Tile
    <2> QED BY <1>2, <1>3, <1>4, <1>5, <2>1, <2>2, SameProduct
  <1>10. Collects(b)'
    <2>1. ASSUME NEW n, NEW s, n \in -1 .. b - 1, s = Stop(n)', start < s, s <= f,
                 fix'[b].at = "sum", fix'[b].from = n, fix'[b].stop = s,
                 DOMAIN fix'[b] = {"at", "from", "stop", "sum"},
                 \A x : x \in fix'[b].sum <=> x \in Nat /\ s <= x /\ x < f
          PROVE  Collects(b)'
      <3>1. SumIs(b, fix[b].stop)'
        BY <1>9, <2>1 DEF SumIs
      <3>2. Stop(fix[b].from)' = s
        BY <1>1, <2>1 DEF Stop
      <3> QED BY <1>9, <2>1, <3>1, <3>2 DEF Collects
    <2>2. c - 1 \in -1 .. b - 1
      BY <1>4, <1>5
    <2>3. CASE k = stop
      <3>1. /\ fix'[b].at = "sum" /\ fix'[b].from = c - 1 /\ fix'[b].stop = stop /\ fix'[b].sum = sum
            /\ DOMAIN fix'[b] = {"at", "from", "stop", "sum"}
        <4>1. PICK old : old = fix[b]
          OBVIOUS
        <4>2. r = [old EXCEPT !.from = c - 1, !.stop = k]
          BY <1>1, <1>p, <1>r, <2>3, <4>1 DEF Passed, From
        <4>3. DOMAIN old = {"at", "from", "stop", "sum"} /\ old.at = "sum" /\ old.sum = sum
          BY <1>2, <1>3, <1>p, <4>1
        <4>4. /\ r.at = "sum" /\ r.from = c - 1 /\ r.stop = k /\ r.sum = sum
              /\ DOMAIN r = {"at", "from", "stop", "sum"}
          BY <4>2, <4>3
        <4> QED BY <1>3, <2>3, <4>4
      <3> QED BY <1>4, <1>9, <2>1, <2>2, <2>3, <3>1
    <2>4. CASE k # stop /\ PartBegins(P, k, f)
      <3>1. fix'[b].at = "add" /\ fix'[b].sum = new
        BY <1>3, <1>r, <2>4
      <3>2. k <= start
        <4>1. k < f
          BY <1>4, <1>6, <2>4
        <4>2. CASE k % P.blocks = 0
          <5>1. k = Start(P, Tile(k)) /\ Start(P, Tile(k)) <= Start(P, Tile(f))
            BY <1>4, <1>6, <4>1, <4>2, TileFacts, TileOrder DEF StreamInv
          <5> QED BY <1>p, <5>1
        <4>3. CASE Tile(k) < Tile(f)
          <5>1. Tile(k) \in Nat /\ Tile(f) \in Nat /\ k < Start(P, Tile(k) + 1)
            BY <1>4, <1>6, TileFacts DEF StreamInv
          <5>2. ~(start <= k)
            <6> SUFFICES ASSUME start <= k PROVE FALSE
              OBVIOUS
            <6>1. f < Start(P, Tile(f) + 1) /\ Start(P, Tile(f) + 1) \in Nat
              BY <1>4, TileFacts DEF StreamInv
            <6>2. k < Start(P, Tile(f) + 1)
              BY <1>4, <1>6, <4>1, <6>1
            <6>3. Tile(k) = Tile(f)
              BY <1>p, <1>6, <5>1, <6>2, TileFacts DEF StreamInv
            <6> QED BY <4>3, <5>1, <6>3
          <5> QED BY <1>4, <1>6, <5>2
        <4> QED BY <2>4, <4>2, <4>3 DEF PartBegins, Tile
      <3>3. \A x : x \in new <=> x \in Nat /\ start <= x /\ x < f
        BY <1>4, <1>6, <1>8, <3>2
      <3>4. SumIs(b, Start(P, Tile(From(b))))'
        BY <1>9, <3>1, <3>3 DEF SumIs
      <3> QED BY <1>9, <3>1, <3>4 DEF Collects
    <2>5. CASE k # stop /\ ~PartBegins(P, k, f)
      <3>1. /\ fix'[b].at = "sum" /\ fix'[b].from = c - 1 /\ fix'[b].stop = k /\ fix'[b].sum = new
            /\ DOMAIN fix'[b] = {"at", "from", "stop", "sum"}
        BY <1>3, <1>r, <2>5
      <3>2. start < k
        <4>1. k % P.blocks # 0 /\ ~(Tile(k) < Tile(f))
          BY <2>5 DEF PartBegins, Tile
        <4>2. /\ Tile(k) <= Tile(f) /\ Tile(k) \in Nat /\ Tile(f) \in Nat
              /\ Start(P, Tile(k)) <= k /\ k # Start(P, Tile(k)) /\ Start(P, Tile(k)) \in Nat
          <5>1. k <= f
            BY <1>4, <1>6
          <5> QED BY <1>4, <1>6, <4>1, <5>1, TileFacts, TileOrder DEF StreamInv
        <4>3. Tile(k) = Tile(f)
          BY <4>1, <4>2
        <4> QED BY <1>p, <1>6, <4>2, <4>3
      <3>3. \A x : x \in new <=> x \in Nat /\ k <= x /\ x < f
        BY <1>4, <1>6, <1>8, <3>2
      <3>4. k <= f
        BY <1>4, <1>6
      <3> QED BY <1>9, <2>1, <2>2, <3>1, <3>2, <3>3, <3>4
    <2> QED BY <2>3, <2>4, <2>5
  <1>11. \A t, x : ~Added(b, t, x) /\ ~Added(b, t, x)'
    <2>1. fix'[b].at # "end"
      BY <1>1, <1>2, <1>3, <1>r DEF Passed
    <2> QED BY <1>2, <2>1 DEF Added
  <1>12. DstInv'
    BY <1>2, <1>11, NothingAdded
  <1> QED BY <1>2, <1>10, <1>12, FixStepKeeps DEF StreamInv

LEMMA FixAddKeeps ==
  ASSUME StreamInv, NEW b \in Blocks(P), FixAdd(b)
  PROVE  StreamInv'
  <1>1. P' = P /\ P = product
    BY SameProduct DEF FixAdd, P
  <1>p. PICK f, t, sum : f = From(b) /\ t = Tile(f) /\ sum = fix[b].sum
    OBVIOUS
  <1>2. /\ phase = "fixup" /\ fix[b].at = "add" /\ fix' = [fix EXCEPT ![b] = [at |-> "end"]]
        /\ dst' = [dst EXCEPT ![t] = dst[t] \cup sum]
        /\ UNCHANGED <<product, phase, next, scratch>>
    BY <1>1, <1>p DEF FixAdd, From, Tile
  <1>3. /\ fix'[b].at = "end" /\ WroteOnlyAnEnd(P, b)
        /\ \A x : x \in sum <=> x \in Nat /\ Start(P, t) <= x /\ x < f
    BY <1>p, <1>2 DEF StreamInv, ShapeInv, FixInv, Collects, SumIs
  <1>4. Collects(b)'
    BY <1>3 DEF Collects
  <1>5. t \in DOMAIN dst
    <2>1. f # Stop(b)
      BY <1>p, <1>3 DEF WroteOnlyAnEnd, From, Stop
    <2>2. f \in Nat /\ Stop(b) \in Nat /\ f <= Stop(b) /\ Stop(b) <= Total(P)
      BY <1>p, BlockFacts DEF StreamInv
    <2>3. Total(P) \in Nat
      BY Starts DEF StreamInv, ShapeInv, P
    <2>4. f < Total(P)
      BY <2>1, <2>2, <2>3
    <2> QED BY <1>p, <2>2, <2>4, TileInRange DEF StreamInv
  <1>6. \A c \in Blocks(P) : \A u, x : Wrote(c, u, x)' <=> Wrote(c, u, x)
    BY <1>1, <1>2 DEF Wrote, From, Stop, Tile
  <1>7. \A u, x : Added(b, u, x)' <=> u = t /\ Start(P, t) <= x /\ x < f
    <2>1. From(b)' = f /\ Tile(f)' = t /\ WroteOnlyAnEnd(P, b)'
      BY <1>p, <1>2, <1>3, SameProduct
    <2> QED BY <1>1, <1>3, <2>1 DEF Added, From, Tile
  <1>8. \A u, x : ~Added(b, u, x)
    BY <1>2 DEF Added
  <1>9. \A c \in Blocks(P) : c # b => \A u, x : Added(c, u, x)' <=> Added(c, u, x)
    <2> SUFFICES ASSUME NEW c \in Blocks(P), c # b, NEW u, NEW x PROVE Added(c, u, x)' <=> Added(c, u, x)
      OBVIOUS
    <2>1. fix'[c] = fix[c]
      BY <1>2 DEF StreamInv, ShapeInv
    <2> QED BY <1>1, <2>1 DEF Added, From, Tile
  <1>10. DstInv'
    <2>1. DOMAIN dst' = DOMAIN dst /\ Blocks(P)' = Blocks(P)
      BY <1>1, <1>2
    <2>2. ASSUME NEW u \in DOMAIN dst, NEW x
          PROVE  x \in dst'[u] <=> x \in Nat /\ \E c \in Blocks(P) : Wrote(c, u, x)' \/ Added(c, u, x)'
      <3>1. x \in dst[u] <=> x \in Nat /\ \E c \in Blocks(P) : Wrote(c, u, x) \/ Added(c, u, x)
        BY DEF StreamInv, DstInv
      <3>2. x \in dst'[u] <=> x \in dst[u] \/ (u = t /\ x \in Nat /\ Start(P, t) <= x /\ x < f)
        BY <1>2, <1>3, <1>5
      <3>3. (\E c \in Blocks(P) : Wrote(c, u, x)' \/ Added(c, u, x)')
            <=> \/ \E c \in Blocks(P) : Wrote(c, u, x) \/ Added(c, u, x)
                \/ u = t /\ Start(P, t) <= x /\ x < f
        BY <1>6, <1>7, <1>8, <1>9
      <3> QED BY <3>1, <3>2, <3>3
    <2> QED BY <2>1, <2>2 DEF DstInv
  <1> QED BY <1>2, <1>4, <1>10, FixStepKeeps DEF StreamInv

-----------------------------------------------------------------------------

LEMMA StreamInvNext == StreamInv /\ [StreamNext]_streamVars => StreamInv'
  <1> SUFFICES ASSUME StreamInv, [StreamNext]_streamVars PROVE StreamInv'
    OBVIOUS
  <1>1. P = product
    BY DEF P
  <1>2. ASSUME NEW b \in Blocks(P), StreamStep(b) PROVE StreamInv'
    <2>1. CASE WriteTile(b) BY <2>1, WriteTileKeeps
    <2>2. CASE LeavePart(b) BY <2>2, LeavePartKeeps
    <2>3. CASE FixStart(b) BY <2>3, FixStartKeeps
    <2>4. CASE FixRead(b) BY <2>4, FixReadKeeps
    <2>5. CASE FixAdd(b) BY <2>5, FixAddKeeps
    <2> QED BY <1>2, <2>1, <2>2, <2>3, <2>4, <2>5 DEF StreamStep
  <1>3. CASE Fixup BY <1>3, FixupKeeps
  <1>4. CASE FixEnd BY <1>4, FixEndKeeps
  <1>5. CASE UNCHANGED streamVars
    <2>1. P' = P /\ Blocks(P)' = Blocks(P) /\ UNCHANGED <<product, phase, next, scratch, fix, dst>>
      BY <1>5, SameProduct DEF streamVars
    <2>2. ShapeInv'
      BY <2>1 DEF StreamInv, ShapeInv
    <2>3. StreamStepInv'
      BY <2>1 DEF StreamInv, StreamStepInv, From, Stop, Tile
    <2>4. DstInv' /\ ScratchInv'
      BY <2>1 DEF StreamInv, DstInv, ScratchInv, Wrote, Added, Leaves, From, Stop, Tile
    <2>5. FixInv'
      BY <2>1, FixStays DEF StreamInv
    <2> QED BY <2>2, <2>3, <2>4, <2>5 DEF StreamInv
  <1> QED BY <1>1, <1>2, <1>3, <1>4, <1>5 DEF StreamNext

LEMMA StreamInvHolds == StreamSpec => []StreamInv
  <1>1. StreamInit => StreamInv
    BY LaunchedHolds DEF StreamInit, Shapes
  <1> QED BY <1>1, StreamInvNext, PTL DEF StreamSpec

-----------------------------------------------------------------------------
(* No scratch is needed when every share is a number of whole tiles.       *)

LEMMA WholeTiles ==
  ASSUME NEW p \in Shapes, ~FixupNeeded(p)
  PROVE  \A b \in Nat : \E t \in Nat : Share(p, b) = Start(p, t)
  <1> SUFFICES ASSUME NEW b \in Nat PROVE \E t \in Nat : Share(p, b) = Start(p, t)
    OBVIOUS
  <1>p. PICK g, n, d, m : g = Grid(p) /\ n = Tiles(p) /\ d = p.blocks /\ m = n \div g
    OBVIOUS
  <1>1. g \in Nat \ {0} /\ n \in Nat \ {0} /\ d \in Nat \ {0} /\ n % g = 0
    BY <1>p, GridIs, TilesCounted, ProductGiven, DivBounds DEF FixupNeeded
  <1>2. m \in Nat /\ n = g * m
    <2>1. n \div g \in Nat /\ n = g * (n \div g) + (n % g)
      BY <1>1, DivBounds
    <2>2. m \in Nat /\ n = g * m + 0
      BY <1>p, <1>1, <2>1
    <2>3. \A ix, j \in Nat : ix * j \in Nat /\ ix * j + 0 = ix * j
      OBVIOUS
    <2> QED BY <1>1, <2>2, <2>3
  <1>3. \A ix, j, k, l \in Nat : ix * ((j * k) * l) = ((ix * k) * l) * j
    OBVIOUS
  <1>a. \A ix, j \in Nat : ix * j \in Nat
    OBVIOUS
  <1>quo. PICK quo : quo = (b * m) * d
    OBVIOUS
  <1>4. b * (n * d) = quo * g /\ quo \in Nat /\ b * m \in Nat
    <2>1. b * ((g * m) * d) = ((b * m) * d) * g /\ b * m \in Nat /\ (b * m) * d \in Nat
      <3>1. g \in Nat /\ d \in Nat /\ m \in Nat
        BY <1>1, <1>2
      <3>2. b * ((g * m) * d) = ((b * m) * d) * g
        <4>1. \A j, k, l \in Nat : b * ((j * k) * l) = ((b * k) * l) * j
          BY <1>3, Zenon
        <4> QED BY <3>1, <4>1, Zenon
      <3>3. b * m \in Nat
        BY <1>a, <3>1, Zenon
      <3>4. (b * m) * d \in Nat
        BY <1>a, <3>1, <3>3, Zenon
      <3> QED BY <3>2, <3>3, <3>4, Zenon
    <2> QED BY <1>quo, <1>2, <2>1
  <1>5. quo * g \in Nat /\ quo * g < quo * g + g
    BY <1>1, <1>4
  <1>6. (b * (n * d)) \div g = quo
    BY <1>1, <1>4, <1>5, DivUnique
  <1>7. quo % d = 0
    <2>1. quo % d = quo - (b * m) * d
      BY <1>quo, <1>1, <1>4, DivUnique
    <2> QED BY <1>quo, <1>4, <2>1
  <1>8. 0 % Step = 0
    <2>1. Step \in Nat \ {0} /\ 0 * Step = 0
      BY StreamKAssumption
    <2>2. 0 % Step = 0 - 0 * Step
      BY <2>1, DivUnique
    <2> QED BY <2>1, <2>2
  <1>9. Share(p, b) = quo
    BY <1>p, <1>4, <1>6, <1>7, <1>8 DEF Share
  <1> QED BY <1>p, <1>quo, <1>4, <1>9 DEF Start

LEMMA ScratchFollows == StreamInv => ScratchOnlyIfNeeded
  <1> SUFFICES ASSUME StreamInv PROVE ScratchOnlyIfNeeded
    OBVIOUS
  <1>1. P \in Shapes /\ P = product /\ DOMAIN scratch = Blocks(P)
    BY DEF StreamInv, ShapeInv, P
  <1>2. CASE FixupNeeded(P)
    <2>1. Tiles(P) \in Nat \ {0}
      BY <1>1, TilesCounted
    <2>2. Tiles(P) % Tiles(P) = Tiles(P) - 1 * Tiles(P)
      BY <2>1, DivUnique
    <2>3. Grid(P) # Tiles(P)
      BY <1>2, <2>1, <2>2 DEF FixupNeeded
    <2> QED BY <1>1, <1>2, <2>3, GridIs DEF ScratchOnlyIfNeeded
  <1>3. CASE ~FixupNeeded(P)
    <2>1. ASSUME NEW b \in Blocks(P), NEW x \in Nat, Leaves(b, x) PROVE FALSE
      <3>1. b + 1 \in Nat /\ Stop(b) \in Nat /\ next[b] \in Nat /\ next[b] <= Stop(b)
        BY BlockFacts DEF StreamInv, StreamStepInv
      <3>2. PICK t \in Nat : Stop(b) = Start(P, t)
        BY <1>1, <1>3, <3>1, WholeTiles DEF Stop
      <3>3. x < Start(P, t) /\ Start(P, Tile(x) + 1) > Start(P, t)
        BY <2>1, <3>1, <3>2 DEF Leaves
      <3>4. Tile(x) \in Nat /\ Tile(x) + 1 \in Nat /\ Start(P, Tile(x)) \in Nat
            /\ Start(P, Tile(x) + 1) \in Nat /\ Start(P, Tile(x)) <= x
        BY TileFacts DEF StreamInv
      <3>5. CASE Tile(x) + 1 < t
        <4>1. Start(P, Tile(x) + 1) + P.blocks <= Start(P, t) /\ P.blocks \in Nat
          BY <1>1, <3>4, <3>5, Starts, ProductGiven
        <4> QED BY <3>1, <3>2, <3>3, <3>4, <4>1
      <3>6. CASE t < Tile(x) + 1
        <4>1. t = Tile(x) \/ t < Tile(x)
          BY <3>4, <3>6
        <4>2. t < Tile(x) => Start(P, t) + P.blocks <= Start(P, Tile(x)) /\ P.blocks \in Nat
          BY <1>1, <3>4, Starts, ProductGiven
        <4> QED BY <3>1, <3>2, <3>3, <3>4, <4>1, <4>2
      <3>7. CASE t = Tile(x) + 1
        BY <3>1, <3>2, <3>3, <3>7
      <3> QED BY <3>4, <3>5, <3>6, <3>7
    <2>2. \A b \in Blocks(P) : scratch[b] = {}
      BY <2>1 DEF StreamInv, ScratchInv
    <2> QED BY <1>1, <1>3, <2>2 DEF ScratchOnlyIfNeeded
  <1> QED BY <1>2, <1>3

\* A product that the launch counts as one without scratch leaves no part of
\* a tile, and one that uses it has the grid for which the scratch was sized.
THEOREM ScratchIsEnough == StreamSpec => []ScratchOnlyIfNeeded
  BY StreamInvHolds, ScratchFollows, PTL

-----------------------------------------------------------------------------
(* Nothing is added twice.                                                 *)

\* A thread block that the fixup kernel works for has the end of its first
\* tile, and not its beginning.
LEMMA EndOwner ==
  ASSUME ShapeInv, NEW b \in Blocks(P), WroteOnlyAnEnd(P, b)
  PROVE  LET t == Tile(From(b)) IN
         /\ t \in Nat /\ Start(P, t + 1) \in Nat /\ Start(P, t) < From(b)
         /\ From(b) < Start(P, t + 1) /\ Start(P, t + 1) <= Stop(b)
  <1>p. PICK f, s, t : f = From(b) /\ s = Stop(b) /\ t = Tile(f)
    OBVIOUS
  <1>1. f \in Nat /\ s \in Nat /\ f <= s
    BY <1>p, BlockFacts
  <1>2. /\ t \in Nat /\ Start(P, t) \in Nat /\ Start(P, t + 1) \in Nat
        /\ Start(P, t) <= f /\ f < Start(P, t + 1)
        /\ f % P.blocks = 0 <=> f = Start(P, t)
    BY <1>p, <1>1, TileFacts
  <1>3. f # s /\ f % P.blocks # 0 /\ ~(Tile(f) = Tile(s) /\ s % P.blocks # 0)
    BY <1>p DEF WroteOnlyAnEnd, From, Stop, Tile
  <1>4. Start(P, t) < f /\ f < s
    BY <1>1, <1>2, <1>3
  <1>5. Start(P, t + 1) <= s
    <2> SUFFICES ASSUME ~(Start(P, t + 1) <= s) PROVE FALSE
      OBVIOUS
    <2>1. Start(P, t) < s /\ s < Start(P, t + 1)
      BY <1>1, <1>2, <1>4
    <2>2. Tile(s) = t
      <3>1. Start(P, t) <= s
        BY <1>1, <1>2, <2>1
      <3> QED BY <1>1, <1>2, <2>1, <3>1, TileFacts
    <2>3. s % P.blocks = 0 <=> s = Start(P, Tile(s))
      BY <1>1, TileFacts
    <2> QED BY <1>1, <1>2, <1>3, <1>p, <2>1, <2>2, <2>3
  <1> QED BY <1>p, <1>2, <1>4, <1>5

LEMMA AddedOnceFollows == StreamInv => AddedOnce
  <1> SUFFICES ASSUME StreamInv, NEW b \in Blocks(P)
               PROVE  /\ fix[b].at = "sum" => fix[b].from >= 0 /\ fix[b].sum \cap scratch[fix[b].from] = {}
                      /\ fix[b].at = "add" => fix[b].sum \cap dst[Tile(From(b))] = {}
    BY DEF AddedOnce, StreamInv, ShapeInv, P, Tile, From
  <1>1. b \in Nat /\ From(b) \in Nat /\ Tile(From(b)) \in Nat /\ Start(P, Tile(From(b))) \in Nat
    BY BlockFacts, TileFacts DEF StreamInv
  <1>2. ASSUME fix[b].at = "sum"
        PROVE  fix[b].from >= 0 /\ fix[b].sum \cap scratch[fix[b].from] = {}
    <2>p. PICK c, stop : c = fix[b].from /\ stop = fix[b].stop
      OBVIOUS
    <2>1. /\ c \in -1 .. b - 1 /\ stop = Stop(c) /\ Start(P, Tile(From(b))) < stop
          /\ \A x : x \in fix[b].sum => x \in Nat /\ stop <= x
      BY <1>2, <2>p DEF StreamInv, FixInv, Collects, SumIs
    <2>2. c # -1
      <3> SUFFICES ASSUME c = -1 PROVE FALSE
        OBVIOUS
      <3>1. Stop(c) = Share(P, 0)
        BY DEF Stop
      <3>2. Share(P, 0) = 0
        BY Shares DEF StreamInv, ShapeInv, P
      <3> QED BY <1>1, <2>1, <3>1, <3>2
    <2>3. c \in Blocks(P) /\ c >= 0
      <3>1. Grid(P) \in Nat /\ b < Grid(P)
        BY GridIs DEF StreamInv, ShapeInv, P, Blocks
      <3>2. c \in 0 .. Grid(P) - 1
        BY <1>1, <2>1, <2>2, <3>1
      <3> QED BY <1>1, <2>1, <3>2 DEF Blocks
    <2>4. ASSUME NEW x \in Nat, stop <= x, x \in scratch[c] PROVE FALSE
      <3>1. x < next[c]
        BY <2>3, <2>4 DEF StreamInv, ScratchInv, Leaves
      <3>2. next[c] \in Nat /\ Stop(c) \in Nat /\ next[c] <= Stop(c)
        BY <2>3, BlockFacts DEF StreamInv, StreamStepInv
      <3> QED BY <2>1, <2>4, <3>1, <3>2
    <2> QED BY <2>p, <2>1, <2>3, <2>4
  <1>3. ASSUME fix[b].at = "add", NEW x \in fix[b].sum, x \in dst[Tile(From(b))]
        PROVE  FALSE
    <2>p. PICK f, t : f = From(b) /\ t = Tile(f)
      OBVIOUS
    <2>1. WroteOnlyAnEnd(P, b) /\ x \in Nat /\ Start(P, t) <= x /\ x < f
      BY <1>3, <2>p DEF StreamInv, FixInv, Collects, SumIs
    <2>2. /\ t \in Nat /\ Start(P, t + 1) \in Nat /\ f < Start(P, t + 1)
          /\ Start(P, t + 1) <= Stop(b)
      BY <2>p, <2>1, EndOwner DEF StreamInv
    <2>3. t \in DOMAIN dst
      <3>1. Stop(b) \in Nat /\ Stop(b) <= Total(P) /\ Total(P) \in Nat
        BY BlockFacts, Starts DEF StreamInv, ShapeInv, P
      <3>2. f < Total(P)
        BY <1>1, <2>p, <2>2, <3>1
      <3> QED BY <1>1, <2>p, <3>2, TileInRange DEF StreamInv
    <2>4. PICK c \in Blocks(P) : Wrote(c, t, x) \/ Added(c, t, x)
      BY <1>3, <2>p, <2>3 DEF StreamInv, DstInv
    <2>5. From(c) \in Nat /\ Stop(c) \in Nat
      BY BlockFacts DEF StreamInv
    <2>6. CASE Wrote(c, t, x)
      <3>1. From(c) <= x /\ Start(P, t + 1) <= Stop(c)
        BY <2>6 DEF Wrote
      <3>2. From(c) < Start(P, t + 1)
        BY <1>1, <2>p, <2>1, <2>2, <2>5, <3>1
      <3>3. c = b
        BY <2>p, <2>2, <3>1, <3>2, OneOwner DEF StreamInv
      <3> QED BY <1>1, <2>p, <2>1, <3>1, <3>3
    <2>7. CASE Added(c, t, x)
      <3>1. WroteOnlyAnEnd(P, c) /\ t = Tile(From(c)) /\ fix[c].at = "end"
        BY <2>7 DEF Added
      <3>2. From(c) < Start(P, t + 1) /\ Start(P, t + 1) <= Stop(c)
        BY <3>1, EndOwner DEF StreamInv
      <3>3. c = b
        BY <2>p, <2>2, <3>2, OneOwner DEF StreamInv
      <3> QED BY <1>3, <3>1, <3>3
    <2> QED BY <2>4, <2>6, <2>7
  <1> QED BY <1>2, <1>3

\* Whatever the shares are, the fixup finds the parts of a tile in the thread
\* blocks before the one that has its end, never runs off the grid, and adds
\* no block of the contraction a second time.
THEOREM PartsAreAddedOnce == StreamSpec => []AddedOnce
  BY StreamInvHolds, AddedOnceFollows, PTL

-----------------------------------------------------------------------------
(* The product is whole.                                                   *)

LEMMA OwnerExists ==
  ASSUME ShapeInv, NEW e \in Nat \ {0}, e <= Total(P)
  PROVE  \E b \in Blocks(P) : From(b) < e /\ e <= Stop(b)
  <1> DEFINE reach == {b \in Nat : e <= Share(P, b + 1)}
  <1>p. PICK g : g = Grid(P)
    OBVIOUS
  <1>1. P \in Shapes /\ g \in Nat \ {0} /\ Share(P, g) = Total(P) /\ Share(P, 0) = 0
    BY <1>p, GridIs, Shares DEF ShapeInv, P
  <1>2. g - 1 \in reach
    <2>1. g - 1 \in Nat /\ (g - 1) + 1 = g
      BY <1>1
    <2> QED BY <1>1, <2>1
  <1>3. PICK b \in reach : \A c \in reach : b <= c
    <2> HIDE DEF reach
    <2>1. reach # {}
      BY <1>2
    <2>2. reach \subseteq Nat
      BY DEF reach
    <2> QED BY <2>1, <2>2, LeastExists
  <1>4. b \in Nat /\ e <= Share(P, b + 1) /\ b <= g - 1
    BY <1>2, <1>3
  <1>5. b \in Blocks(P)
    BY <1>p, <1>1, <1>4 DEF Blocks
  <1>6. Share(P, b) < e
    <2>1. CASE b = 0
      BY <1>1, <2>1
    <2>2. CASE b # 0
      <3>1. b - 1 \in Nat /\ (b - 1) + 1 = b /\ ~(b <= b - 1)
        BY <1>4, <2>2
      <3>2. ~(e <= Share(P, (b - 1) + 1))
        BY <1>3, <3>1
      <3>3. Share(P, b) \in Nat
        BY <1>1, <1>4, Shares
      <3> QED BY <3>1, <3>2, <3>3
    <2> QED BY <2>1, <2>2
  <1> HIDE DEF reach
  <1> QED BY <1>4, <1>5, <1>6 DEF From, Stop

LEMMA TileIsWhole ==
  ASSUME StreamInv, phase = "done", NEW t \in DOMAIN dst
  PROVE  dst[t] = Summands(P, t)
  <1>p. PICK s, e : s = Start(P, t) /\ e = Start(P, t + 1)
    OBVIOUS
  <1>1. P \in Shapes /\ P.blocks \in Nat \ {0} /\ Tiles(P) \in Nat \ {0}
    BY TilesCounted, ProductGiven DEF StreamInv, ShapeInv, P
  <1>2. t \in Nat /\ t < Tiles(P)
    BY <1>1 DEF StreamInv, ShapeInv, P
  <1>3. s \in Nat /\ e \in Nat \ {0} /\ s < e /\ e <= Total(P)
    <2>1. s \in Nat /\ e = s + P.blocks
      BY <1>p, <1>1, <1>2, Starts
    <2>2. Total(P) \in Nat /\ s + P.blocks <= Total(P)
      BY <1>p, <1>1, <1>2, Starts DEF Total
    <2> QED BY <1>1, <2>1, <2>2
  <1>4. Summands(P, t) = s .. e - 1
    BY <1>p DEF Summands, Start
  <1>5. PICK b \in Blocks(P) : From(b) < e /\ e <= Stop(b)
    BY <1>3, OwnerExists DEF StreamInv
  <1>f. PICK f : f = From(b)
    OBVIOUS
  <1>6. f \in Nat /\ Stop(b) \in Nat /\ next[b] = Stop(b)
    BY <1>f, BlockFacts DEF StreamInv, StreamStepInv
  <1>7. \A x \in Nat : Tile(x) = t <=> s <= x /\ x < e
    BY <1>p, <1>2, TileFacts DEF StreamInv
  <1>8. \A x \in Nat : Wrote(b, t, x) <=> f <= x /\ s <= x /\ x < e
    <2> SUFFICES ASSUME NEW x \in Nat PROVE Wrote(b, t, x) <=> f <= x /\ s <= x /\ x < e
      OBVIOUS
    <2>1. Wrote(b, t, x) <=> f <= x /\ x < Stop(b) /\ Tile(x) = t
      BY <1>f, <1>p, <1>5, <1>6 DEF Wrote
    <2> QED BY <1>3, <1>5, <1>6, <1>7, <2>1
  \* Only the owner wrote the tile or added to it.
  <1>9. ASSUME NEW c \in Blocks(P), NEW x \in Nat, Wrote(c, t, x) \/ Added(c, t, x)
        PROVE  c = b
    <2>1. From(c) \in Nat /\ Stop(c) \in Nat
      BY BlockFacts DEF StreamInv
    <2>2. CASE Wrote(c, t, x)
      <3>1. From(c) <= x /\ x < e /\ e <= Stop(c)
        BY <1>p, <1>7, <2>2 DEF Wrote
      <3>2. From(c) < e
        BY <1>3, <2>1, <3>1
      <3> QED BY <1>3, <1>5, <3>1, <3>2, OneOwner DEF StreamInv
    <2>3. CASE Added(c, t, x)
      <3>1. From(c) < e /\ e <= Stop(c)
        BY <1>p, <2>3, EndOwner DEF Added, StreamInv
      <3> QED BY <1>3, <1>5, <3>1, OneOwner DEF StreamInv
    <2> QED BY <1>9, <2>2, <2>3
  <1>10. \A x : x \in dst[t] <=> x \in Nat /\ (Wrote(b, t, x) \/ Added(b, t, x))
    BY <1>9 DEF StreamInv, DstInv
  <1>11. CASE f <= s
    <2>1. \A x \in Nat : ~Added(b, t, x)
      BY <1>3, <1>6, <1>f, <1>p, <1>11 DEF Added
    <2>2. \A x : x \in dst[t] <=> x \in Nat /\ s <= x /\ x < e
      BY <1>3, <1>6, <1>8, <1>10, <1>11, <2>1
    <2>3. \A x : x \in s .. e - 1 <=> x \in Nat /\ s <= x /\ x < e
      BY <1>3
    <2> QED BY <1>4, <2>2, <2>3
  <1>12. CASE s < f
    <2>1. f < e /\ Tile(f) = t /\ f # s
      BY <1>3, <1>5, <1>6, <1>7, <1>f, <1>12
    <2>2. f % P.blocks # 0
      BY <1>6, <1>p, <2>1, TileFacts DEF StreamInv
    <2>3. WroteOnlyAnEnd(P, b)
      <3>1. f # Stop(b)
        BY <1>3, <1>5, <1>6, <2>1
      <3>2. Tile(Stop(b)) # t
        BY <1>3, <1>5, <1>6, <1>7
      <3> QED BY <1>f, <2>1, <2>2, <3>1, <3>2 DEF WroteOnlyAnEnd, From, Stop, Tile
    <2>4. fix[b].at = "end"
      <3>1. FixupNeeded(P)
        <4> SUFFICES ASSUME ~FixupNeeded(P) PROVE FALSE
          OBVIOUS
        <4>1. b \in Nat
          BY BlockFacts DEF StreamInv
        <4>2. PICK u \in Nat : f = Start(P, u)
          BY <1>1, <1>f, <4>1, WholeTiles DEF From
        <4>3. Start(P, u + 1) = f + P.blocks
          BY <1>1, <4>2, Starts
        <4>4. Start(P, u) <= f /\ f < Start(P, u + 1)
          BY <1>1, <1>6, <4>2, <4>3
        <4>5. Tile(f) = u
          BY <1>6, <4>4, TileFacts DEF StreamInv
        <4> QED BY <1>p, <2>1, <4>2, <4>5
      <3> QED BY <3>1 DEF StreamInv, FixInv
    <2>5. \A x \in Nat : Added(b, t, x) <=> s <= x /\ x < f
      BY <1>f, <1>p, <2>1, <2>3, <2>4 DEF Added
    <2>6. \A x : x \in dst[t] <=> x \in Nat /\ s <= x /\ x < e
      <3>1. \A x \in Nat : (f <= x /\ s <= x /\ x < e) \/ (s <= x /\ x < f) <=> s <= x /\ x < e
        BY <1>3, <1>6, <1>12, <2>1
      <3> QED BY <1>8, <1>10, <2>5, <3>1
    <2>7. \A x : x \in s .. e - 1 <=> x \in Nat /\ s <= x /\ x < e
      BY <1>3
    <2> QED BY <1>4, <2>6, <2>7
  <1> QED BY <1>3, <1>6, <1>11, <1>12

\* The band of width d in which ix lies.
LEMMA BandOf ==
  ASSUME NEW ix \in Nat, NEW d \in Nat \ {0}, NEW quo \in Nat
  PROVE  ix \in quo * d .. (quo + 1) * d - 1 <=> ix \div d = quo
  <1>1. (quo + 1) * d = quo * d + d /\ quo * d \in Nat
    OBVIOUS
  <1>2. ix \in quo * d .. (quo + 1) * d - 1 <=> quo * d <= ix /\ ix < quo * d + d
    BY <1>1
  <1>3. quo * d <= ix /\ ix < quo * d + d => ix \div d = quo
    BY DivUnique
  <1>4. ix \div d = quo => quo * d <= ix /\ ix < quo * d + d
    <2> SUFFICES ASSUME ix \div d = quo PROVE quo * d <= ix /\ ix < quo * d + d
      OBVIOUS
    <2>1. ix % d \in 0 .. d - 1 /\ ix = d * (ix \div d) + (ix % d)
      BY DivBounds
    <2>2. d * quo = quo * d
      OBVIOUS
    <2>3. ix = quo * d + (ix % d)
      BY <2>1, <2>2
    <2> QED BY <1>1, <2>1, <2>3
  <1> QED BY <1>2, <1>3, <1>4

LEMMA InOneTile ==
  ASSUME NEW p \in Shapes, NEW ix \in Nat, NEW j \in Nat, ix < p.rows, j < p.cols
  PROVE  \E t \in 0 .. Tiles(p) - 1 : \A u \in 0 .. Tiles(p) - 1 : <<ix, j>> \in Cells(p, u) <=> u = t
  <1>p. PICK nx, ny, wd, it, jt : /\ nx = TilesX(p) /\ ny = TilesY(p) /\ wd = Width(p)
                                 /\ it = ix \div TileY /\ jt = j \div wd
    OBVIOUS
  <1>1. /\ nx \in Nat \ {0} /\ ny \in Nat \ {0} /\ wd \in Nat \ {0} /\ TileY \in Nat \ {0}
        /\ Tiles(p) = nx * ny /\ p.rows \in Nat \ {0} /\ p.cols \in Nat \ {0} /\ Tiles(p) \in Nat \ {0}
    BY <1>p, TilesCounted, ProductGiven, StreamKAssumption DEF Tiles
  <1>2. it \in 0 .. ny - 1 /\ jt \in 0 .. nx - 1
    BY <1>p, <1>1, CeilDivIs DEF TilesX, TilesY
  <1>t. PICK t : t = it * nx + jt
    OBVIOUS
  <1>3. it * nx \in Nat /\ it * nx + nx <= ny * nx /\ ny * nx = nx * ny
    <2>1. it \in Nat /\ it < ny /\ ny \in Nat /\ nx \in Nat
      BY <1>1, <1>2
    <2> QED BY <2>1, TimesMonotone
  <1>4. t \in Nat /\ t < it * nx + nx /\ it * nx <= t
    BY <1>t, <1>1, <1>2, <1>3
  <1>5. t \in 0 .. Tiles(p) - 1
    <2>1. it * nx + nx <= Tiles(p)
      BY <1>1, <1>3
    <2> QED BY <1>1, <1>3, <1>4, <2>1
  <1>6. t \div nx = it /\ t % nx = jt
    <2>0. it \in Nat /\ nx \in Nat \ {0} /\ t \in Nat /\ it * nx <= t /\ t < it * nx + nx
      BY <1>1, <1>2, <1>4
    <2>1. t \div nx = it /\ t % nx = t - it * nx
      BY ONLY <2>0, DivUnique
    <2> QED BY <1>t, <1>2, <1>3, <2>1
  <1>7. ASSUME NEW u \in 0 .. Tiles(p) - 1
        PROVE  <<ix, j>> \in Cells(p, u) <=> u = t
    <2>p. PICK iu, ju : iu = u \div nx /\ ju = u % nx
      OBVIOUS
    <2>1. u \in Nat /\ iu \in Nat /\ ju \in Nat /\ u = nx * iu + ju
      <3>1. u \in Nat
        BY <1>1
      <3>2. u \div nx \in Nat /\ u % nx \in 0 .. nx - 1 /\ u = nx * (u \div nx) + (u % nx)
        BY <1>1, <3>1, DivBounds
      <3>3. \A m \in 0 .. nx - 1 : m \in Nat
        BY <1>1
      <3> QED BY ONLY <2>p, <3>1, <3>2, <3>3
    <2>2. <<ix, j>> \in Cells(p, u) <=> /\ ix \in iu * TileY .. (iu + 1) * TileY - 1
                                      /\ j \in ju * wd .. (ju + 1) * wd - 1
      BY <1>p, <2>p DEF Cells
    <2>3. <<ix, j>> \in Cells(p, u) <=> it = iu /\ jt = ju
      BY <1>p, <1>1, <2>1, <2>2, BandOf
    <2>4. it = iu /\ jt = ju => u = t
      <3> SUFFICES ASSUME it = iu, jt = ju PROVE u = t
        OBVIOUS
      <3>1. nx * it = it * nx
        BY <1>1, <1>2
      <3> QED BY <1>t, <2>1, <3>1
    <2>5. u = t => it = iu /\ jt = ju
      BY <1>6, <2>p
    <2> QED BY <2>3, <2>4, <2>5
  <1> QED BY <1>5, <1>7

LEMMA ProductFollows == StreamInv => ProductIsWhole
  <1> SUFFICES ASSUME StreamInv, phase = "done",
                      NEW c \in (0 .. product.rows - 1) \X (0 .. product.cols - 1)
               PROVE  \E t \in DOMAIN dst :
                         /\ {u \in DOMAIN dst : c \in Cells(product, u)} = {t}
                         /\ dst[t] = Summands(product, t)
    BY DEF ProductIsWhole
  <1>1. P \in Shapes /\ P = product /\ DOMAIN dst = 0 .. Tiles(P) - 1
    BY DEF StreamInv, ShapeInv, P
  <1>2. /\ c[1] \in Nat /\ c[2] \in Nat /\ c[1] < P.rows /\ c[2] < P.cols
        /\ c = <<c[1], c[2]>>
    BY <1>1, ProductGiven
  <1>3. PICK t \in DOMAIN dst : \A u \in DOMAIN dst : c \in Cells(P, u) <=> u = t
    BY <1>1, <1>2, InOneTile
  <1>4. dst[t] = Summands(P, t)
    BY TileIsWhole
  <1> QED BY <1>1, <1>3, <1>4

\* For every shape of the matrices, every number of multiprocessors and every
\* set of tile widths: what the two kernels leave is the product.  Each of its
\* elements lies in one tile, and each block of the contraction was added to
\* that tile.
THEOREM ProductsAreWhole == StreamSpec => []ProductIsWhole
  BY StreamInvHolds, ProductFollows, PTL

-----------------------------------------------------------------------------
(* ResidencyPlan: every file and all limits.                                *)

\* The fields of a tensor are numbers, and is_ple() answers yes or no.
LEMMA TensorTypes ==
    ASSUME TypeOK
    PROVE  /\ Len(model.tensors) \in Nat
           /\ \A t \in Tensors : /\ Offset(t) \in Nat /\ Size(t) \in Nat
                                 /\ End(t) \in Nat /\ IsPle(t) \in BOOLEAN
  <1>1. model.tensors \in Seq(TensorRecord) /\ WordMax \in Nat
    BY PlanAssumption DEF TypeOK, ModelOK
  <1>2. ASSUME NEW t \in Tensors PROVE model.tensors[t] \in TensorRecord
    BY <1>1 DEF Tensors
  <1>3. ASSUME NEW t \in Tensors
        PROVE  Offset(t) \in Nat /\ Size(t) \in Nat /\ IsPle(t) \in BOOLEAN
    BY <1>1, <1>2 DEF TensorRecord, Offset, Size, IsPle
  <1> QED BY <1>1, <1>3 DEF End

\* While there are no spans, whatever is said of each of them holds.
LEMMA NothingPlaced ==
    ASSUME spans = <<>>, Placed = 0
    PROVE  ChainInv /\ HoldInv /\ GapsHoldNoPle /\ SpansWithinLimits
  <1>1. Len(spans) = 0
    OBVIOUS
  <1> QED BY <1>1 DEF ChainInv, HoldInv, GapsHoldNoPle, SpansWithinLimits

\* The same of the next state.
LEMMA NothingPlacedNext ==
    ASSUME spans' = <<>>, Placed' = 0
    PROVE  ChainInv' /\ HoldInv' /\ GapsHoldNoPle' /\ SpansWithinLimits'
  <1>1. Len(spans') = 0
    OBVIOUS
  <1> QED BY <1>1 DEF ChainInv, HoldInv, GapsHoldNoPle, SpansWithinLimits

\* The resident tensors are numbers, and finitely many.
LEMMA ResidentFinite ==
    ASSUME TypeOK
    PROVE  resident \subseteq Nat /\ IsFiniteSet(resident)
  <1>1. IsFiniteSet(Tensors) /\ Tensors \subseteq Nat
    <2>1. Len(model.tensors) \in Nat
      BY TensorTypes
    <2>2. IsFiniteSet(1 .. Len(model.tensors))
      BY <2>1, FS_Interval
    <2> QED
      BY <2>1, <2>2 DEF Tensors
  <1> QED BY <1>1, FS_Subset DEF TypeOK

\* The facts about the entries that placing them needs.
LEMMA EntryFacts ==
    ASSUME TypeOK, CollectInv, pc \in {"place", "built"}
    PROVE  /\ Len(entries) \in Nat
           /\ \A j \in 1 .. Len(entries) : entries[j] \in Tensors /\ Wanted(entries[j])
           /\ \A t \in resident : \E j \in 1 .. Len(entries) : entries[j] = t
           /\ \A j, k \in 1 .. Len(entries) : entries[j] = entries[k] => j = k
  <1>1. entries \in Sorted(resident) /\ resident = {t \in Tensors : Wanted(t)}
    BY DEF CollectInv
  <1>0. Cardinality(resident) \in Nat
    BY ResidentFinite, FS_CardinalityType
  <1>2. /\ entries \in Seq(resident) /\ DOMAIN entries = 1 .. Len(entries)
        /\ \A t \in resident : \E j \in 1 .. Len(entries) : entries[j] = t
        /\ \A j, k \in 1 .. Len(entries) : j < k => Before(entries[j], entries[k])
    <2>1. entries \in [1 .. Cardinality(resident) -> resident]
      BY <1>1 DEF Sorted
    <2>2. entries \in Seq(resident) /\ DOMAIN entries = 1 .. Len(entries)
      BY <1>0, <2>1
    <2>3. /\ \A t \in resident : \E k \in DOMAIN entries : entries[k] = t
          /\ \A j, k \in DOMAIN entries : j < k => Before(entries[j], entries[k])
      BY <1>1 DEF Sorted
    <2> QED BY <2>2, <2>3
  <1>3. Len(entries) \in Nat /\ \A j \in 1 .. Len(entries) : entries[j] \in resident
    BY <1>2
  <1>4. ASSUME NEW t \in Tensors PROVE ~Before(t, t)
    <2>1. Offset(t) \in Nat /\ t \in Nat
      BY TensorTypes DEF Tensors
    <2> QED BY <2>1 DEF Before
  <1>5. ASSUME NEW j \in 1 .. Len(entries), NEW k \in 1 .. Len(entries),
               entries[j] = entries[k]
        PROVE  j = k
    <2>1. ~(j < k) /\ ~(k < j)
      BY <1>1, <1>2, <1>3, <1>4, <1>5
    <2> QED BY <1>3, <2>1
  <1> QED BY <1>1, <1>2, <1>3, <1>5

-----------------------------------------------------------------------------

\* The first state satisfies the invariant.
LEMMA InitInv == Init => IInv
  <1> SUFFICES ASSUME Init PROVE IInv
    OBVIOUS
  <1>1. TypeOK
    BY PlanAssumption DEF Init, Empty, TypeOK, Span
  <1>2. CollectInv
    BY <1>1, TensorTypes DEF Init, Empty, CollectInv
  <1>3. spans = <<>> /\ Placed = 0
    BY DEF Init, Empty, Placed
  <1> QED BY <1>1, <1>2, <1>3, NothingPlaced DEF IInv

\* A plan that is destroyed is empty.
LEMMA DestroyStep == IInv /\ Destroy => IInv'
  <1> SUFFICES ASSUME IInv, Destroy PROVE IInv'
    OBVIOUS
  <1>1. TypeOK'
    <2>1. model' = model /\ i' = i /\ ModelOK(model) /\ i \in Nat \ {0}
      BY DEF IInv, TypeOK, Destroy
    <2> QED BY <2>1, PlanAssumption DEF Destroy, TypeOK, Tensors
  <1>2. CollectInv'
    BY DEF Destroy, CollectInv
  <1>3. spans' = <<>> /\ Placed' = 0
    BY DEF Destroy, Placed
  <1> QED BY <1>1, <1>2, <1>3, NothingPlacedNext DEF IInv

\* Collecting a tensor, or passing one over.
LEMMA CollectStep == IInv /\ Collect => IInv'
  <1> SUFFICES ASSUME IInv, Collect PROVE IInv'
    OBVIOUS
  <1>1. /\ TypeOK /\ i \in Tensors /\ i' = i + 1 /\ model' = model
        /\ entries = <<>> /\ spans = <<>> /\ entries' = <<>> /\ spans' = <<>>
        /\ resident = {t \in 1 .. i - 1 : Wanted(t)}
        /\ pc' = IF i + 1 \in Tensors THEN "collect" ELSE "sort"
    BY DEF IInv, Collect, CollectInv, Tensors
  <1>2. Len(model.tensors) \in Nat /\ Size(i) \in Nat /\ WordMax \in Nat
    BY <1>1, TensorTypes, PlanAssumption
  <1>3. \A t : Wanted(t)' = Wanted(t)
    BY <1>1 DEF Wanted, Size, IsPle
  <1>4. resident' = {t \in 1 .. i : Wanted(t)}
    <2>1. 1 .. i = (1 .. i - 1) \cup {i}
      BY <1>1, <1>2 DEF Tensors
    <2> QED BY <1>1, <2>1 DEF Collect, Take
  <1>5. TypeOK'
    <2>1. total' \in 0 .. WordMax
      BY <1>1, <1>2 DEF Collect, Take, TypeOK
    <2>2. resident' \subseteq Tensors'
      BY <1>1, <1>2, <1>4 DEF Tensors
    <2>3. ModelOK(model') /\ i' \in Nat \ {0}
      BY <1>1, <1>2 DEF TypeOK, Tensors
    <2> QED BY <1>1, <2>1, <2>2, <2>3 DEF TypeOK
  <1>6. CollectInv'
    <2>1. CASE i + 1 \in Tensors
      BY <1>1, <1>2, <1>3, <1>4, <2>1 DEF CollectInv, Tensors
    <2>2. CASE i + 1 \notin Tensors
      <3>1. 1 .. i = 1 .. Len(model.tensors)
        BY <1>1, <1>2, <2>2 DEF Tensors
      <3> QED BY <1>1, <1>3, <1>4, <2>2, <3>1 DEF CollectInv, Tensors
    <2> QED BY <2>1, <2>2
  <1>7. Placed' = 0
    BY <1>1 DEF Placed
  <1> QED BY <1>1, <1>5, <1>6, <1>7, NothingPlacedNext DEF IInv

\* Sorting the entries.
LEMMA SortStep == IInv /\ Sort => IInv'
  <1> SUFFICES ASSUME IInv, Sort PROVE IInv'
    OBVIOUS
  <1>1. /\ TypeOK /\ CollectInv /\ i' = 1
        /\ model' = model /\ resident' = resident /\ total' = total
        /\ entries' \in Sorted(resident) /\ spans' = spans
        /\ pc' = IF resident = {} THEN "built" ELSE "place"
    BY DEF IInv, Sort
  <1>2. resident = {t \in Tensors : Wanted(t)} /\ spans = <<>>
    <2>1. CASE pc = "sort"
      BY <1>1, <2>1 DEF CollectInv
    <2>2. CASE pc = "collect" /\ Tensors = {}
      BY <1>1, <2>2 DEF CollectInv, TypeOK
    <2> QED BY <2>1, <2>2 DEF Sort
  <1>3. Cardinality(resident) \in Nat /\ (Cardinality(resident) = 0 <=> resident = {})
    BY <1>1, ResidentFinite, FS_CardinalityType, FS_EmptySet
  <1>4. entries' \in Seq(resident) /\ Len(entries') = Cardinality(resident)
    <2>1. entries' \in [1 .. Cardinality(resident) -> resident]
      BY <1>1 DEF Sorted
    <2> QED BY <1>3, <2>1
  <1>5. entries' \in Seq(Tensors)
    <2>1. resident \subseteq Tensors
      BY <1>2
    <2> QED BY <1>4, <2>1
  <1>6. TypeOK'
    BY <1>1, <1>2, <1>5 DEF TypeOK, Tensors
  <1>7. entries' \in Sorted(resident)'
    BY <1>1 DEF Sorted, Before, Offset
  <1>8. \A t : Wanted(t)' = Wanted(t)
    BY <1>1 DEF Wanted, Size, IsPle
  <1>9. CollectInv'
    <2>1. Tensors' = Tensors
      BY <1>1 DEF Tensors
    <2>2. resident # {} => 1 \in 1 .. Len(entries')
      BY <1>3, <1>4
    <2> QED BY <1>1, <1>2, <1>7, <1>8, <2>1, <2>2 DEF CollectInv
  <1>10. Placed' = 0
    BY <1>1, <1>3, <1>4 DEF Placed
  <1> QED BY <1>1, <1>2, <1>6, <1>9, <1>10, NothingPlacedNext DEF IInv

-----------------------------------------------------------------------------
(* Placing an entry.                                                       *)

\* What every turn of the second loop has in common.
LEMMA PlaceFrame ==
    ASSUME IInv, Place
    PROVE  /\ TypeOK /\ Len(spans) \in Nat /\ Len(entries) \in Nat
           /\ i \in 1 .. Len(entries) /\ Placed = i - 1 /\ Placed' = i
           /\ model' = model /\ entries' = entries
           /\ entries[i] \in Tensors /\ Offset(entries[i]) \in Nat
           /\ Size(entries[i]) \in Nat \ {0}
           /\ \A k \in 1 .. Len(spans) : spans[k] \in Span
           /\ CollectInv'
           /\ spans' \in Seq(Span) => TypeOK'
  <1>1. /\ TypeOK /\ CollectInv /\ pc = "place"
        /\ model' = model /\ resident' = resident /\ total' = total /\ entries' = entries
        /\ i' = i + 1 /\ pc' = IF i = Len(entries) THEN "built" ELSE "place"
    BY DEF IInv, Place
  <1>2. /\ Len(entries) \in Nat /\ i \in 1 .. Len(entries)
        /\ entries[i] \in Tensors /\ Wanted(entries[i])
    BY <1>1, EntryFacts DEF CollectInv
  <1>3. Offset(entries[i]) \in Nat /\ Size(entries[i]) \in Nat \ {0}
    BY <1>1, <1>2, TensorTypes DEF Wanted
  <1>4. Len(spans) \in Nat /\ \A k \in 1 .. Len(spans) : spans[k] \in Span
    BY <1>1 DEF TypeOK
  <1>5. Placed = i - 1 /\ Placed' = i
    BY <1>1, <1>2 DEF Placed
  <1>6. Tensors' = Tensors /\ (\A t : Wanted(t)' = Wanted(t))
    BY <1>1 DEF Tensors, Wanted, Size, IsPle
  <1>7. entries' \in Sorted(resident)'
    <2>1. entries \in Sorted(resident)
      BY <1>1 DEF CollectInv
    <2> QED BY <1>1, <2>1 DEF Sorted, Before, Offset
  <1>8. CollectInv'
    BY <1>1, <1>2, <1>6, <1>7 DEF CollectInv
  <1>9. spans' \in Seq(Span) => TypeOK'
    BY <1>1, <1>2, <1>6 DEF TypeOK
  <1> QED BY <1>1, <1>2, <1>3, <1>4, <1>5, <1>8, <1>9

\* The tensor begins a span of its own.
LEMMA AloneStep ==
    ASSUME IInv, Place, spans' = Append(spans, Alone(entries[i]))
    PROVE  IInv'
  <1> DEFINE n == Len(spans)
             t == entries[i]
  <1>1. /\ TypeOK /\ n \in Nat /\ Len(entries) \in Nat
        /\ i \in 1 .. Len(entries) /\ Placed = i - 1 /\ Placed' = i
        /\ model' = model /\ entries' = entries
        /\ t \in Tensors /\ Offset(t) \in Nat /\ Size(t) \in Nat \ {0}
        /\ \A k \in 1 .. n : spans[k] \in Span
        /\ CollectInv' /\ (spans' \in Seq(Span) => TypeOK')
    BY PlaceFrame
  <1>2. Alone(t) \in Span
    BY <1>1 DEF Alone, Span
  <1>3. spans' \in Seq(Span) /\ Len(spans') = n + 1
    BY <1>1, <1>2 DEF TypeOK
  <1>4. (\A k \in 1 .. n : spans'[k] = spans[k]) /\ spans'[n + 1] = Alone(t)
    BY <1>1 DEF TypeOK
  <1>5. /\ Alone(t).offset = Offset(t) /\ Alone(t).bytes = Size(t)
        /\ Alone(t).first = i /\ Alone(t).count = 1
        /\ Listed(Alone(t)) = {i} /\ SpanEnd(Alone(t)) = End(t)
    BY <1>1 DEF Alone, Listed, SpanEnd, End
  <1>6. ASSUME NEW k \in 1 .. n
        PROVE  /\ spans[k].first \in Nat \ {0} /\ spans[k].count \in Nat \ {0}
               /\ spans[k].first + spans[k].count <= i
    <2>1. spans[k] \in Span
      BY <1>1
    <2>2. spans[k].first \in Nat /\ spans[k].count \in Nat
      BY <2>1 DEF Span
    <2>3. /\ spans[k].first >= 1 /\ spans[k].count >= 1
          /\ spans[k].first + spans[k].count <= Placed + 1
      BY DEF IInv, ChainInv
    <2>4. \A f, c, b \in Nat : f >= 1 /\ c >= 1 /\ f + c <= b + 1 => f <= b /\ f + c - 1 <= b
      OBVIOUS
    <2> QED
      BY <1>1, <2>2, <2>3, <2>4
  <1>7. 1 .. Len(spans') = (1 .. n) \cup {n + 1}
    BY <1>1, <1>3
  <1>8. ChainInv'
    <2>1. \A k \in 1 .. n + 1 :
             spans'[k].first >= 1 /\ spans'[k].count >= 1
             /\ spans'[k].first + spans'[k].count <= i + 1
      <3> SUFFICES ASSUME NEW k \in 1 .. n + 1
                   PROVE  /\ spans'[k].first >= 1 /\ spans'[k].count >= 1
                          /\ spans'[k].first + spans'[k].count <= i + 1
        OBVIOUS
      <3>1. CASE k \in 1 .. n
        <4>1. /\ spans[k].first \in Nat \ {0} /\ spans[k].count \in Nat \ {0}
              /\ spans[k].first + spans[k].count <= i
          BY <1>6, <3>1
        <4>2. spans'[k] = spans[k] /\ i \in Nat
          BY <1>1, <1>4, <3>1
        <4> QED BY <4>1, <4>2
      <3>2. CASE k = n + 1
        BY <1>1, <1>4, <1>5, <3>2
      <3> QED
        BY <1>1, <3>1, <3>2
    <2>2. spans'[n + 1].first + spans'[n + 1].count = i + 1
      BY <1>1, <1>4, <1>5
    <2>3. \A k, l \in 1 .. n + 1 :
             k < l => spans'[k].first + spans'[k].count <= spans'[l].first
      <3>1. ASSUME NEW k \in 1 .. n + 1, NEW l \in 1 .. n + 1, k < l
            PROVE  spans'[k].first + spans'[k].count <= spans'[l].first
        <4>1. k \in 1 .. n
          BY <1>1, <3>1
        <4>2. CASE l \in 1 .. n
          BY <1>4, <3>1, <4>1, <4>2 DEF IInv, ChainInv
        <4>3. CASE l = n + 1
          BY <1>4, <1>5, <1>6, <4>1, <4>3
        <4> QED BY <1>1, <4>2, <4>3
      <3> QED BY <3>1
    <2>4. \A j \in 1 .. i : \E k \in 1 .. n + 1 : j \in Listed(spans'[k])
      <3>1. ASSUME NEW j \in 1 .. i PROVE \E k \in 1 .. n + 1 : j \in Listed(spans'[k])
        <4>1. CASE j = i
          BY <1>1, <1>4, <1>5, <4>1
        <4>2. CASE j # i
          <5>1. j \in 1 .. Placed
            BY <1>1, <4>2
          <5>2. PICK k \in 1 .. n : j \in Listed(spans[k])
            BY <5>1 DEF IInv, ChainInv
          <5> QED BY <1>1, <1>4, <5>2
        <4> QED BY <4>1, <4>2
      <3> QED BY <3>1
    <2> QED BY <1>1, <1>3, <2>1, <2>2, <2>3, <2>4 DEF ChainInv, LastSpan
  <1>9. HoldInv'
    <2>1. ASSUME NEW k \in 1 .. n
          PROVE  /\ spans'[k].bytes > 0
                 /\ SpanEnd(spans'[k])
                    = End(entries[spans'[k].first + spans'[k].count - 1])
                 /\ \A j \in Listed(spans'[k]) : Holds(spans'[k], entries[j])
      BY <1>4 DEF IInv, HoldInv
    <2>2. /\ Alone(t).bytes > 0
          /\ SpanEnd(Alone(t)) = End(entries[Alone(t).first + Alone(t).count - 1])
          /\ \A j \in Listed(Alone(t)) : Holds(Alone(t), entries[j])
      BY <1>1, <1>5 DEF Holds, End
    <2>3. \A k \in 1 .. n + 1 :
             /\ spans'[k].bytes > 0
             /\ SpanEnd(spans'[k])
                = End(entries[spans'[k].first + spans'[k].count - 1])
             /\ \A j \in Listed(spans'[k]) : Holds(spans'[k], entries[j])
      BY <1>3, <1>4, <1>7, <2>1, <2>2
    <2> QED BY <1>1, <1>3, <2>3 DEF HoldInv, Holds, End, Offset, Size
  <1>10. GapsHoldNoPle'
    <2>1. ASSUME NEW k \in 1 .. n + 1, NEW u \in Tensors, Size(u) # 0, IsPle(u),
                 NEW x \in Offset(u) .. End(u) - 1,
                 x \in spans'[k].offset .. SpanEnd(spans'[k]) - 1
          PROVE  \E j \in Listed(spans'[k]) : x \in Offset(entries[j]) .. End(entries[j]) - 1
      <3>1. CASE k \in 1 .. n
        BY <1>4, <2>1, <3>1 DEF IInv, GapsHoldNoPle
      <3>2. CASE k = n + 1
        BY <1>4, <1>5, <2>1, <3>2
      <3> QED BY <1>1, <3>1, <3>2
    <2>2. \A k \in 1 .. n + 1 : \A u \in Tensors :
             Size(u) # 0 /\ IsPle(u) =>
                \A x \in Offset(u) .. End(u) - 1 :
                   x \in spans'[k].offset .. SpanEnd(spans'[k]) - 1 =>
                      \E j \in Listed(spans'[k]) :
                         x \in Offset(entries[j]) .. End(entries[j]) - 1
      BY <2>1
    <2>3. /\ Tensors' = Tensors
          /\ \A u : /\ Offset(u)' = Offset(u) /\ End(u)' = End(u)
                    /\ Size(u)' = Size(u) /\ IsPle(u)' = IsPle(u)
      BY <1>1 DEF Tensors, Offset, Size, End, IsPle
    <2> QED BY <1>1, <1>3, <2>2, <2>3 DEF GapsHoldNoPle
  <1>11. SpansWithinLimits'
    <2>1. ASSUME NEW k \in 1 .. n + 1
          PROVE  /\ spans'[k].count > 1 => spans'[k].bytes <= MaxSpan
                 /\ \A j \in Listed(spans'[k]) : j + 1 \in Listed(spans'[k]) =>
                       Offset(entries[j + 1]) - End(entries[j]) \in 0 .. MaxGap
      <3>1. CASE k \in 1 .. n
        BY <1>4, <3>1 DEF IInv, SpansWithinLimits
      <3>2. CASE k = n + 1
        BY <1>1, <1>4, <1>5, <3>2
      <3>3. k \in 1 .. n \/ k = n + 1
        BY <1>1
      <3> QED BY ONLY <3>1, <3>2, <3>3
    <2> QED BY <1>1, <1>3, <2>1 DEF SpansWithinLimits, Offset, Size, End
  <1> QED BY <1>1, <1>3, <1>8, <1>9, <1>10, <1>11 DEF IInv

\* One more entry at the end of an interval of entries.
LEMMA IntervalGrows ==
    \A f, c, j \in Nat : c >= 1 /\ f + c = j =>
        /\ f .. f + (c + 1) - 1 = (f .. f + c - 1) \cup {j}
        /\ \A m \in f .. f + c - 1 : m < j
        /\ f + (c + 1) = j + 1
        /\ f + c - 1 = j - 1
  OBVIOUS

\* Where a tensor of z bytes at f lies when it is behind the b bytes at o.
LEMMA Behind ==
    \A o, b, f, z \in Nat : f >= o + b /\ z > 0 =>
        o < f + z /\ o + b <= f + z /\ o <= f /\ f + z - o > 0
  OBVIOUS

\* The last span grows to hold the tensor.
LEMMA LongerStep ==
    /\ IInv /\ Place /\ spans # <<>> /\ Fits(LastSpan, entries[i])
    /\ spans' = [spans EXCEPT ![Len(spans)] = Longer(@, entries[i])]
    => IInv'
  <1>a. SUFFICES ASSUME IInv, Place, spans # <<>>, Fits(LastSpan, entries[i]),
                        spans' = [spans EXCEPT ![Len(spans)] = Longer(@, entries[i])]
                 PROVE  IInv'
    OBVIOUS
  <1> DEFINE n == Len(spans)
  <1>0. PICK t : t = entries[i]
    OBVIOUS
  <1>1. /\ TypeOK /\ n \in Nat /\ Len(entries) \in Nat
        /\ i \in 1 .. Len(entries) /\ Placed = i - 1 /\ Placed' = i
        /\ model' = model /\ entries' = entries
        /\ t \in Tensors /\ Offset(t) \in Nat /\ Size(t) \in Nat \ {0}
        /\ \A k \in 1 .. n : spans[k] \in Span
        /\ CollectInv' /\ (spans' \in Seq(Span) => TypeOK')
    BY <1>0, <1>a, PlaceFrame
  <1>2. n \in 1 .. n /\ n >= 1 /\ spans[n] \in Span
    BY <1>a, <1>1 DEF TypeOK
  <1>s. PICK s : s = spans[n] /\ s \in Span
    BY <1>2
  <1>e. PICK e : e = Longer(s, t)
    OBVIOUS
  <1>3. /\ s.offset \in Nat /\ s.bytes \in Nat /\ s.first \in Nat /\ s.count \in Nat
        /\ SpanEnd(s) = s.offset + s.bytes
    BY <1>s DEF Span, SpanEnd
  <1>4. /\ s.first >= 1 /\ s.count >= 1 /\ s.first + s.count = i /\ s.bytes > 0
    BY <1>a, <1>1, <1>2, <1>s DEF IInv, ChainInv, HoldInv, LastSpan
  <1>5. /\ Offset(t) >= SpanEnd(s) /\ Offset(t) - SpanEnd(s) <= MaxGap
        /\ End(t) - s.offset <= MaxSpan /\ ~PleBetween(s, Offset(t))
    BY <1>a, <1>0, <1>s DEF Fits, LastSpan
  <1>6. /\ e.offset = s.offset /\ e.bytes = End(t) - s.offset
        /\ e.first = s.first /\ e.count = s.count + 1 /\ e \in Span
        /\ End(t) = Offset(t) + Size(t) /\ End(t) \in Nat
    <2>1. End(t) = Offset(t) + Size(t)
      BY DEF End
    <2>4. Offset(t) \in Nat /\ Size(t) \in Nat
      BY <1>1
    <2>5. Offset(t) + Size(t) - s.offset \in Nat
      BY <1>3, <1>5, <2>4
    <2>6. s.count + 1 \in Nat
      BY <1>3
    <2>2. e = [offset |-> s.offset, bytes |-> End(t) - s.offset, first |-> s.first,
               count |-> s.count + 1]
      BY <1>s, <1>e DEF Longer, Span
    <2>7. End(t) - s.offset \in Nat
      BY <1>3, <2>1, <2>4, <2>5
    <2>8. e \in Span
      BY <1>3, <2>2, <2>6, <2>7 DEF Span
    <2> QED BY <2>1, <2>2, <2>4, <2>8
  <1>7. /\ SpanEnd(e) = End(t) /\ Listed(e) = Listed(s) \cup {i} /\ i \in Nat
        /\ \A m \in Listed(s) : m \in Nat /\ m < i
        /\ e.first + e.count = i + 1 /\ s.first + s.count - 1 = i - 1
    <2>1. SpanEnd(e) = End(t)
      <3>1. SpanEnd(e) = e.offset + e.bytes
        BY DEF SpanEnd
      <3>2. \A x, y \in Nat : x + (y - x) = y
        OBVIOUS
      <3> QED BY <1>3, <1>6, <3>1, <3>2
    <2>2. i \in Nat
      BY <1>1
    <2>3. /\ s.first .. s.first + (s.count + 1) - 1 = (s.first .. s.first + s.count - 1) \cup {i}
          /\ \A m \in s.first .. s.first + s.count - 1 : m < i
          /\ s.first + (s.count + 1) = i + 1
          /\ s.first + s.count - 1 = i - 1
      BY <1>3, <1>4, <2>2, IntervalGrows
    <2>4. Listed(e) = Listed(s) \cup {i}
      BY <1>6, <2>3 DEF Listed
    <2>5. e.first + e.count = i + 1
      BY <1>6, <2>3
    <2> QED BY <1>3, <2>1, <2>2, <2>3, <2>4, <2>5 DEF Listed
  <1>o. /\ SpanEnd(s) \in Nat /\ Offset(t) \in Nat /\ End(t) \in Nat /\ s.offset \in Nat
        /\ s.offset <= Offset(t) /\ SpanEnd(s) <= End(t) /\ End(t) - s.offset > 0
    <2>1. Offset(t) \in Nat /\ Size(t) \in Nat /\ Size(t) > 0
      BY <1>1
    <2>2. /\ s.offset <= Offset(t) /\ s.offset + s.bytes <= Offset(t) + Size(t)
          /\ Offset(t) + Size(t) - s.offset > 0
      BY <1>3, <1>5, <2>1, Behind
    <2> QED BY <1>3, <1>6, <2>1, <2>2
  <1>8. /\ spans' \in Seq(Span) /\ Len(spans') = n
        /\ spans'[n] = e /\ \A k \in 1 .. n : k # n => spans'[k] = spans[k]
    BY <1>a, <1>0, <1>1, <1>2, <1>s, <1>e, <1>6 DEF TypeOK
  <1>9. ASSUME NEW k \in 1 .. n, k # n
        PROVE  /\ spans[k].first \in Nat \ {0} /\ spans[k].count \in Nat \ {0}
               /\ spans[k].first + spans[k].count <= s.first
    <2>1. spans[k].first >= 1 /\ spans[k].count >= 1
      BY <1>a, <1>9 DEF IInv, ChainInv
    <2>2. spans[k].first + spans[k].count <= s.first
      <3>1. k < n
        BY <1>1, <1>9
      <3> QED BY <1>a, <1>2, <1>s, <1>9, <3>1 DEF IInv, ChainInv
    <2>3. spans[k].first \in Nat /\ spans[k].count \in Nat
      BY <1>1, <1>9 DEF Span
    <2> QED BY <2>1, <2>2, <2>3
  <1>10. ChainInv'
    <2>1. \A k \in 1 .. n :
             spans'[k].first >= 1 /\ spans'[k].count >= 1
             /\ spans'[k].first + spans'[k].count <= i + 1
      <3>1. ASSUME NEW k \in 1 .. n, k # n
            PROVE  spans'[k].first >= 1 /\ spans'[k].count >= 1
                   /\ spans'[k].first + spans'[k].count <= i + 1
        <4>1. spans[k].first + spans[k].count <= i
          <5>1. /\ spans[k].first \in Nat /\ spans[k].count \in Nat
                /\ spans[k].first + spans[k].count <= s.first
            BY <1>9, <3>1
          <5>2. s.first \in Nat /\ s.first <= i
            BY <1>3, <1>4, <1>7
          <5>3. \A x, y, z \in Nat : x <= y /\ y <= z => x <= z
            OBVIOUS
          <5>4. spans[k].first + spans[k].count \in Nat
            BY <5>1
          <5> QED BY <1>7, <5>1, <5>2, <5>3, <5>4
        <4> QED BY <1>7, <1>8, <1>9, <3>1, <4>1
      <3>2. e.first >= 1 /\ e.count >= 1 /\ e.first + e.count <= i + 1
        BY <1>3, <1>4, <1>6, <1>7
      <3> QED BY <1>8, <3>1, <3>2
    <2>2. spans'[n].first + spans'[n].count = i + 1
      BY <1>7, <1>8
    <2>3. ASSUME NEW k \in 1 .. n, NEW l \in 1 .. n, k < l
          PROVE  spans'[k].first + spans'[k].count <= spans'[l].first
      <3>1. k # n
        BY <1>1, <2>3
      <3>2. spans[k].first + spans[k].count <= spans[l].first
        BY <1>a, <2>3 DEF IInv, ChainInv
      <3> QED BY <1>s, <1>6, <1>8, <3>1, <3>2
    <2>4. ASSUME NEW j \in 1 .. i PROVE \E k \in 1 .. n : j \in Listed(spans'[k])
      <3>1. CASE j = i
        BY <1>2, <1>7, <1>8, <3>1
      <3>2. CASE j # i
        <4>1. j \in 1 .. Placed
          BY <1>1, <3>2
        <4>2. PICK k \in 1 .. n : j \in Listed(spans[k])
          BY <1>a, <4>1 DEF IInv, ChainInv
        <4> QED BY <1>s, <1>7, <1>8, <4>2
      <3> QED BY <3>1, <3>2
    <2> QED BY <1>1, <1>8, <2>1, <2>2, <2>3, <2>4 DEF ChainInv, LastSpan
  <1>11. HoldInv'
    <2>1. ASSUME NEW k \in 1 .. n, k # n
          PROVE  /\ spans'[k].bytes > 0
                 /\ SpanEnd(spans'[k])
                    = End(entries[spans'[k].first + spans'[k].count - 1])
                 /\ \A j \in Listed(spans'[k]) : Holds(spans'[k], entries[j])
      BY <1>a, <1>8, <2>1 DEF IInv, HoldInv
    <2>2. e.bytes > 0 /\ SpanEnd(e) = End(entries[e.first + e.count - 1])
      <3>1. e.first + e.count - 1 = i
        BY <1>1, <1>3, <1>4, <1>6
      <3>2. SpanEnd(e) = End(entries[e.first + e.count - 1])
        BY <1>0, <1>7, <3>1
      <3> QED BY <1>6, <1>o, <3>2
    <2>3. ASSUME NEW j \in Listed(e) PROVE Holds(e, entries[j])
      <3>1. CASE j = i
        BY <1>0, <1>6, <1>7, <1>o, <3>1 DEF Holds
      <3>2. CASE j \in Listed(s)
        <4>1. j \in 1 .. Len(entries)
          BY <1>1, <1>3, <1>4, <3>2 DEF Listed
        <4>2. entries[j] \in Tensors
          BY <1>a, <1>1, <4>1 DEF TypeOK
        <4>3. Offset(entries[j]) \in Nat /\ End(entries[j]) \in Nat
          BY <1>1, <4>2, TensorTypes
        <4>4. s.offset <= Offset(entries[j]) /\ End(entries[j]) <= SpanEnd(s)
          BY <1>a, <1>2, <1>s, <3>2 DEF IInv, HoldInv, Holds
        <4>5. End(entries[j]) <= End(t)
          BY <1>o, <4>3, <4>4
        <4> QED BY <1>6, <1>7, <4>4, <4>5 DEF Holds
      <3> QED BY <1>7, <2>3, <3>1, <3>2
    <2>4. \A k \in 1 .. n :
             /\ spans'[k].bytes > 0
             /\ SpanEnd(spans'[k])
                = End(entries[spans'[k].first + spans'[k].count - 1])
             /\ \A j \in Listed(spans'[k]) : Holds(spans'[k], entries[j])
      BY <1>8, <2>1, <2>2, <2>3
    <2> QED BY <1>1, <1>8, <2>4 DEF HoldInv, Holds, End, Offset, Size
  <1>12. GapsHoldNoPle'
    <2>1. ASSUME NEW k \in 1 .. n, NEW u \in Tensors, Size(u) # 0, IsPle(u),
                 NEW x \in Offset(u) .. End(u) - 1,
                 x \in spans'[k].offset .. SpanEnd(spans'[k]) - 1
          PROVE  \E j \in Listed(spans'[k]) : x \in Offset(entries[j]) .. End(entries[j]) - 1
      <3>1. CASE k # n
        BY <1>a, <1>8, <2>1, <3>1 DEF IInv, GapsHoldNoPle
      <3>2. CASE k = n
        <4>1. /\ Offset(u) \in Nat /\ Size(u) \in Nat /\ End(u) = Offset(u) + Size(u)
              /\ x \in Nat /\ Offset(u) <= x /\ x < End(u)
              /\ s.offset <= x /\ x < End(t)
          <5>1. Offset(u) \in Nat /\ Size(u) \in Nat /\ End(u) = Offset(u) + Size(u)
            BY <1>1, TensorTypes DEF End
          <5>2. x \in e.offset .. End(t) - 1
            BY <1>7, <1>8, <2>1, <3>2
          <5>3. x \in s.offset .. End(t) - 1
            BY <1>6, <5>2
          <5>4. s.offset \in Nat /\ End(t) \in Nat
            BY <1>o
          <5> QED BY <2>1, <5>1, <5>3, <5>4
        <4>2. CASE x < SpanEnd(s)
          <5>1. x \in s.offset .. SpanEnd(s) - 1
            BY <1>3, <4>1, <4>2
          <5>2. \E j \in Listed(s) : x \in Offset(entries[j]) .. End(entries[j]) - 1
            BY <1>a, <1>2, <1>s, <2>1, <5>1 DEF IInv, GapsHoldNoPle
          <5> QED BY <1>7, <1>8, <3>2, <5>2
        <4>3. CASE x >= SpanEnd(s) /\ x < Offset(t)
          \* The excluded tensor would lie in the gap or reach into it.
          <5>1. CASE Offset(u) >= SpanEnd(s)
            <6>1. Offset(u) \in SpanEnd(s) .. Offset(t)
              BY <1>1, <1>3, <4>1, <4>3, <5>1
            <6> QED BY <1>5, <2>1, <6>1 DEF PleBetween
          <5>2. CASE Offset(u) < SpanEnd(s)
            <6>1. s.bytes # 0 /\ s.offset < End(u)
              BY <1>3, <1>4, <4>1, <4>3
            <6>2. Overlap(s, u)
              BY <2>1, <5>2, <6>1 DEF Overlap
            <6> QED BY <1>5, <2>1, <6>2 DEF PleBetween
          <5> QED BY <1>3, <4>1, <5>1, <5>2
        <4>4. CASE x >= Offset(t)
          <5>1. x \in Offset(entries[i]) .. End(entries[i]) - 1
            BY <1>0, <1>1, <1>6, <4>1, <4>4
          <5> QED BY <1>7, <1>8, <3>2, <5>1
        <4> QED BY <1>1, <1>3, <4>1, <4>2, <4>3, <4>4
      <3> QED BY <3>1, <3>2
    <2>2. \A k \in 1 .. n : \A u \in Tensors :
             Size(u) # 0 /\ IsPle(u) =>
                \A x \in Offset(u) .. End(u) - 1 :
                   x \in spans'[k].offset .. SpanEnd(spans'[k]) - 1 =>
                      \E j \in Listed(spans'[k]) :
                         x \in Offset(entries[j]) .. End(entries[j]) - 1
      BY <2>1
    <2>3. /\ Tensors' = Tensors
          /\ \A u : /\ Offset(u)' = Offset(u) /\ End(u)' = End(u)
                    /\ Size(u)' = Size(u) /\ IsPle(u)' = IsPle(u)
      BY <1>1 DEF Tensors, Offset, Size, End, IsPle
    <2> QED BY <1>1, <1>8, <2>2, <2>3 DEF GapsHoldNoPle
  <1>13. SpansWithinLimits'
    <2>1. ASSUME NEW k \in 1 .. n
          PROVE  /\ spans'[k].count > 1 => spans'[k].bytes <= MaxSpan
                 /\ \A j \in Listed(spans'[k]) : j + 1 \in Listed(spans'[k]) =>
                       Offset(entries[j + 1]) - End(entries[j]) \in 0 .. MaxGap
      <3>1. CASE k # n
        BY <1>a, <1>8, <3>1 DEF IInv, SpansWithinLimits
      <3>2. CASE k = n
        <4>1. e.bytes <= MaxSpan
          BY <1>5, <1>6
        <4>2. ASSUME NEW j \in Listed(e), j + 1 \in Listed(e)
              PROVE  Offset(entries[j + 1]) - End(entries[j]) \in 0 .. MaxGap
          <5>0. j \in Nat /\ j <= i /\ j + 1 <= i
            BY <1>7, <4>2
          <5>1. CASE j + 1 # i
            <6>1. j + 1 \in Listed(s) /\ j \in Listed(s)
              BY <1>7, <4>2, <5>0, <5>1
            <6> QED BY <1>a, <1>2, <1>s, <6>1 DEF IInv, SpansWithinLimits
          <5>2. CASE j + 1 = i
            <6>1. SpanEnd(s) = End(entries[j])
              <7>1. s.first + s.count - 1 = j
                BY <1>7, <5>0, <5>2
              <7> QED BY <1>a, <1>2, <1>s, <7>1 DEF IInv, HoldInv
            <6>2. Offset(entries[j + 1]) = Offset(t) /\ SpanEnd(s) \in Nat
              BY <1>0, <1>3, <5>2
            <6> QED BY <1>1, <1>5, <6>1, <6>2, PlanAssumption
          <5> QED BY <5>1, <5>2
        <4> QED BY <1>8, <3>2, <4>1, <4>2
      <3> QED BY <3>1, <3>2
    <2> QED BY <1>1, <1>8, <2>1 DEF SpansWithinLimits, Offset, Size, End
  <1> QED BY <1>a, <1>1, <1>8, <1>10, <1>11, <1>12, <1>13 DEF IInv

\* An entry that a span lists is an entry, and no other span lists it.
LEMMA ListedOnce ==
    ASSUME IInv, pc = "built"
    PROVE  /\ \A k \in 1 .. Len(spans) : \A j \in Listed(spans[k]) : j \in 1 .. Len(entries)
           /\ \A k, l \in 1 .. Len(spans) : \A j \in Listed(spans[k]) :
                 j \in Listed(spans[l]) => k = l
  <1>1. TypeOK /\ ChainInv /\ Placed = Len(entries) /\ Len(entries) \in Nat /\ Len(spans) \in Nat
    BY DEF IInv, Placed, TypeOK
  <1>2. ASSUME NEW k \in 1 .. Len(spans)
        PROVE  /\ spans[k].first \in Nat /\ spans[k].count \in Nat /\ spans[k].first >= 1
               /\ spans[k].first + spans[k].count <= Len(entries) + 1
    <2>1. spans[k] \in Span
      BY <1>1 DEF TypeOK
    <2> QED BY <1>1, <2>1 DEF ChainInv, Span
  <1>3. ASSUME NEW k \in 1 .. Len(spans), NEW j \in Listed(spans[k])
        PROVE  /\ j \in Nat /\ spans[k].first <= j /\ j < spans[k].first + spans[k].count
               /\ j \in 1 .. Len(entries)
    <2>1. j \in spans[k].first .. spans[k].first + spans[k].count - 1
      BY DEF Listed
    <2>2. \A f, c, b \in Nat : \A m \in f .. f + c - 1 :
             f >= 1 /\ f + c <= b + 1 => m \in Nat /\ f <= m /\ m < f + c /\ m \in 1 .. b
      OBVIOUS
    <2> QED BY ONLY <1>1, <1>2, <2>1, <2>2
  <1>4. ASSUME NEW k \in 1 .. Len(spans), NEW l \in 1 .. Len(spans), k < l,
               NEW j \in Listed(spans[k]), j \in Listed(spans[l])
        PROVE  FALSE
    <2>1. spans[k].first + spans[k].count <= spans[l].first
      BY <1>1, <1>4 DEF ChainInv
    <2>2. j < spans[k].first + spans[k].count /\ spans[l].first <= j /\ j \in Nat
      BY <1>3, <1>4
    <2>3. spans[k].first + spans[k].count \in Nat /\ spans[l].first \in Nat
      BY <1>2
    <2> QED BY <2>1, <2>2, <2>3
  <1>5. ASSUME NEW k \in 1 .. Len(spans), NEW l \in 1 .. Len(spans),
               NEW j \in Listed(spans[k]), j \in Listed(spans[l])
        PROVE  k = l
    <2>1. ~(k < l) /\ ~(l < k)
      BY <1>4, <1>5
    <2> QED BY <1>1, <2>1
  <1> QED BY <1>3, <1>5

\* The invariant gives a plan that is built its meaning.
LEMMA BuiltPlan == IInv => EveryTensorInOneSpan
  <1> SUFFICES ASSUME IInv, pc = "built", NEW t \in Tensors
               PROVE  LET of == {k \in 1 .. Len(spans) :
                                    \E j \in Listed(spans[k]) : entries[j] = t} IN
                      IF Wanted(t) THEN \E k \in of : of = {k} /\ Holds(spans[k], t)
                      ELSE of = {}
    BY DEF EveryTensorInOneSpan
  <1> DEFINE of == {k \in 1 .. Len(spans) : \E j \in Listed(spans[k]) : entries[j] = t}
  <1>1. /\ TypeOK /\ ChainInv /\ HoldInv /\ Placed = Len(entries)
        /\ resident = {u \in Tensors : Wanted(u)}
    BY DEF IInv, Placed, CollectInv
  <1>2. /\ \A j \in 1 .. Len(entries) : entries[j] \in Tensors /\ Wanted(entries[j])
        /\ \A u \in resident : \E j \in 1 .. Len(entries) : entries[j] = u
        /\ \A j, k \in 1 .. Len(entries) : entries[j] = entries[k] => j = k
    BY EntryFacts DEF IInv
  <1>3. CASE Wanted(t)
    <2>1. PICK j \in 1 .. Len(entries) : entries[j] = t
      BY <1>1, <1>2, <1>3
    <2>2. PICK k \in 1 .. Len(spans) : j \in Listed(spans[k])
      BY <1>1, <2>1 DEF ChainInv
    <2>3. ASSUME NEW l \in of PROVE l = k
      <3>1. PICK m \in Listed(spans[l]) : entries[m] = t
        OBVIOUS
      <3>2. m = j
        BY <1>2, <2>1, <3>1, ListedOnce
      <3> QED BY <2>2, <3>1, <3>2, ListedOnce
    <2>4. k \in of /\ of = {k}
      BY <2>1, <2>2, <2>3
    <2>5. Holds(spans[k], t)
      BY <1>1, <2>1, <2>2 DEF HoldInv
    <2> QED BY <1>3, <2>4, <2>5
  <1>4. CASE ~Wanted(t)
    <2>1. of = {}
      BY <1>2, <1>4, ListedOnce
    <2> QED BY <1>4, <2>1
  <1> QED BY <1>3, <1>4

-----------------------------------------------------------------------------

\* Every step of the planner preserves the invariant.
LEMMA PlanStepInv == IInv /\ [Next]_vars => IInv'
  <1> SUFFICES ASSUME IInv, [Next]_vars PROVE IInv'
    OBVIOUS
  <1>1. CASE OutOfMemory
    BY <1>1, DestroyStep DEF OutOfMemory
  <1>2. CASE Collect
    BY <1>2, CollectStep
  <1>3. CASE Reject
    BY <1>3, DestroyStep DEF Reject
  <1>4. CASE Sort
    BY <1>4, SortStep
  <1>5. CASE Place
    BY <1>5, AloneStep, LongerStep DEF Place
  <1>6. CASE UNCHANGED vars
    <2>1. TypeOK'
      BY <1>6 DEF vars, IInv, TypeOK, ModelOK, Tensors
    <2>2. CollectInv'
      BY <1>6 DEF vars, IInv, CollectInv, Tensors, Wanted, Size, IsPle, Sorted, Before, Offset
    <2>3. ChainInv'
      BY <1>6 DEF vars, IInv, ChainInv, Placed, LastSpan
    <2>4. HoldInv'
      BY <1>6 DEF vars, IInv, HoldInv, Holds, Offset, End, Size
    <2>5. GapsHoldNoPle'
      BY <1>6 DEF vars, IInv, GapsHoldNoPle, Tensors, Offset, End, Size, IsPle
    <2>6. SpansWithinLimits'
      BY <1>6 DEF vars, IInv, SpansWithinLimits, Offset, End, Size
    <2> QED BY <2>1, <2>2, <2>3, <2>4, <2>5, <2>6 DEF IInv
  <1> QED BY <1>1, <1>2, <1>3, <1>4, <1>5, <1>6 DEF Next

\* The invariant holds in every reachable state of q3_residency_plan_build().
THEOREM Inductive == Spec => []IInv
  <1> QED BY InitInv, PlanStepInv, PTL DEF Spec

\* The planner's variables keep their types; in particular the sum of the
\* resident bytes never overflows.
THEOREM TypeCorrect == Spec => []TypeOK
  <1>1. IInv => TypeOK
    BY DEF IInv
  <1> QED BY <1>1, Inductive, PTL

\* No gap that is read with a span holds a byte of an excluded tensor, in
\* whatever file.
THEOREM GapsAreClean == Spec => []GapsHoldNoPle
  <1>1. IInv => GapsHoldNoPle
    BY DEF IInv
  <1> QED BY <1>1, Inductive, PTL

\* Spans of several tensors keep the limits on length and gaps.
THEOREM LimitsHold == Spec => []SpansWithinLimits
  <1>1. IInv => SpansWithinLimits
    BY DEF IInv
  <1> QED BY <1>1, Inductive, PTL

\* Every tensor that is wanted is read once, whole, and no other is listed:
\* whatever order the file has its tensors in.
THEOREM PlanIsComplete == Spec => []EveryTensorInOneSpan
  <1> QED BY BuiltPlan, Inductive, PTL

-----------------------------------------------------------------------------
(* WorkloadReader: all bounds and every file.                               *)

\* The questions have their room.
RoomInv ==
    /\ place \in {"start", "top", "questions", "question", "check", "returned", "null"}
    /\ w.count \in Nat /\ w.cap \in Nat /\ w.max \in Nat /\ lists \in Nat
    /\ w = [state |-> w.state, count |-> w.count, cap |-> w.cap, max |-> w.max,
            questions |-> w.questions]
    /\ DOMAIN w.questions = 0 .. w.cap - 1
    /\ q \in [suffix : Nat, candidates : Nat, expected : Nat]
    /\ place = "start" => lists = 0 /\ ~misused
    /\ lists > 0 => w.cap > 0
    /\ lists = 0 => w.count = 0 /\ place \notin {"questions", "question"}
    /\ place \notin {"start", "null"} /\ lists <= 1 =>
          w.count <= w.cap /\ (place = "question" => w.count < w.cap)

\* Every question that is counted can be asked.
QuestionInv ==
    lists <= 1 =>
        /\ \A k \in 0 .. w.count - 1 :
              /\ w.questions[k] \in [suffix : Nat, candidates : Nat, expected : Nat]
              /\ Usable(w.questions[k]) /\ w.questions[k].suffix <= w.max
        /\ w.count > 0 => \E k \in 0 .. w.count - 1 : w.questions[k].suffix = w.max
        /\ w.count = 0 => w.max = 0

\* What there is while a file is read that has no list twice: what is freed
\* in the end, the text up to the last checks, and the suffix of the question
\* that is read.
Fixed == {<<"state">>, <<"questions">>}
Counted == {Suffix(k) : k \in 0 .. w.count - 1}
BlockInv ==
    place \notin {"start", "null"} /\ lists <= 1 /\ ~lost =>
        /\ ~misused
        /\ heap = {<<"w">>} \cup (Fixed \cap heap) \cup Counted
                  \cup (IF place \in {"check", "returned"} THEN {} ELSE {Text})
                  \cup (IF place = "question" THEN {Suffix(w.count)} \cap heap ELSE {})
        /\ place = "question" /\ q.suffix > 0 => Suffix(w.count) \in heap

CheckInv == place = "returned" => w.count > 0

ReaderInv == RoomInv /\ QuestionInv /\ BlockInv /\ CheckInv

-----------------------------------------------------------------------------

LEMMA BlocksDiffer ==
    /\ \A k \in Nat, m \in Nat : Suffix(k) = Suffix(m) => k = m
    /\ \A k \in Nat : Suffix(k) \notin {Text, <<"w">>, <<"state">>, <<"questions">>}
    /\ Text \notin {<<"w">>, <<"state">>, <<"questions">>}
    /\ \A k \in Nat : Suffix(k)[1] = "suffix"
    /\ \A b \in {Text, <<"w">>, <<"state">>, <<"questions">>} : b[1] # "suffix"
  <1>1. \A k : Suffix(k)[1] = "suffix" /\ Suffix(k)[2] = k
    BY DEF Suffix
  <1>2. /\ Text[1] = "text" /\ <<"w">>[1] = "w"
        /\ <<"state">>[1] = "state" /\ <<"questions">>[1] = "questions"
    BY DEF Text
  <1>3. \A b \in {Text, <<"w">>, <<"state">>, <<"questions">>} : b[1] # "suffix"
    BY <1>2
  <1>4. Text \notin {<<"w">>, <<"state">>, <<"questions">>}
    BY <1>2
  <1> HIDE DEF Suffix, Text
  <1> QED BY <1>1, <1>3, <1>4

LEMMA WorkloadInitHolds == WorkloadInit => ReaderInv
  BY DEF WorkloadInit, ReaderInv, RoomInv, QuestionInv, BlockInv, CheckInv, Zero

\* Whatever leads to "null" is out of the invariant's way.
LEMMA AbandonKeeps == ASSUME ReaderInv, Abandon PROVE ReaderInv'
  BY DEF Abandon, ReaderInv, RoomInv, QuestionInv, BlockInv, CheckInv, Usable

LEMMA OpenKeeps == ASSUME ReaderInv, OpenWorkload PROVE ReaderInv'
  <1>1. RoomInv' /\ QuestionInv' /\ CheckInv'
    BY DEF OpenWorkload, ReaderInv, RoomInv, QuestionInv, CheckInv, Usable
  <1>2. Counted = {} /\ Counted' = {}
    BY DEF OpenWorkload, Counted, ReaderInv, RoomInv
  <1>3. BlockInv'
    <2>1. SUFFICES ASSUME place' = "top" PROVE BlockInv'
      BY DEF BlockInv, OpenWorkload
    <2>2. heap' = {Text, <<"w">>} /\ ~misused'
      BY <2>1 DEF OpenWorkload, ReaderInv, RoomInv
    <2> QED BY <2>1, <2>2, <1>2, BlocksDiffer DEF BlockInv, Fixed
  <1> QED BY <1>1, <1>3 DEF ReaderInv

LEMMA ReadStateKeeps == ASSUME ReaderInv, ReadState PROVE ReaderInv'
  <1>1. PICK n \in 0 .. MaxIds : w' = [w EXCEPT !.state = n]
    BY DEF ReadState
  <1>2. /\ w'.count = w.count /\ w'.cap = w.cap /\ w'.max = w.max /\ w'.questions = w.questions
        /\ w' = [state |-> w'.state, count |-> w'.count, cap |-> w'.cap, max |-> w'.max,
                 questions |-> w'.questions]
    BY <1>1 DEF ReaderInv, RoomInv
  <1>3. RoomInv' /\ QuestionInv' /\ CheckInv'
    BY <1>2 DEF ReadState, ReaderInv, RoomInv, QuestionInv, CheckInv, Usable
  <1>4. BlockInv'
    <2>1. SUFFICES ASSUME lists <= 1, ~lost' PROVE BlockInv'
      BY DEF BlockInv, ReadState
    <2>2. heap' = heap \cup {<<"state">>} /\ Counted' = Counted
      BY <1>2 DEF ReadState, Counted
    <2> QED BY <2>1, <2>2, BlocksDiffer DEF ReadState, ReaderInv, BlockInv, Fixed
  <1> QED BY <1>3, <1>4 DEF ReaderInv

LEMMA OpenQuestionsKeeps == ASSUME ReaderInv, OpenQuestions PROVE ReaderInv'
  <1>1. /\ w'.count = w.count /\ w'.cap = FirstCapacity /\ w'.max = w.max
        /\ w'.questions = [k \in 0 .. FirstCapacity - 1 |-> Zero]
        /\ w' = [state |-> w'.state, count |-> w'.count, cap |-> w'.cap, max |-> w'.max,
                 questions |-> w'.questions]
    BY DEF OpenQuestions, ReaderInv, RoomInv
  <1>2. lists' = lists + 1 /\ place = "top" /\ place' = "questions" /\ q' = q /\ misused' = misused
    BY DEF OpenQuestions
  <1>3. RoomInv'
    <2>1. FirstCapacity \in Nat /\ FirstCapacity > 0
      BY WorkloadAssumption
    <2>2. DOMAIN w'.questions = 0 .. w'.cap - 1
      BY <1>1
    <2>3. /\ w.count \in Nat /\ w.max \in Nat /\ lists \in Nat /\ (lists = 0 => w.count = 0)
          /\ q \in [suffix : Nat, candidates : Nat, expected : Nat]
      BY DEF ReaderInv, RoomInv
    <2> QED BY <1>1, <1>2, <2>1, <2>2, <2>3 DEF RoomInv
  <1>4. QuestionInv' /\ CheckInv'
    BY <1>1, <1>2 DEF ReaderInv, RoomInv, QuestionInv, CheckInv
  <1>5. BlockInv'
    <2>1. SUFFICES ASSUME lists = 0, ~lost' PROVE BlockInv'
      BY <1>2 DEF BlockInv, ReaderInv, RoomInv
    <2>2. Counted = {} /\ Counted' = {}
      BY <2>1, <1>1 DEF Counted, ReaderInv, RoomInv
    <2>. ~lost
      BY <2>1 DEF OpenQuestions
    <2>3. heap = {<<"w">>} \cup (Fixed \cap heap) \cup {Text} /\ ~misused
      BY <2>1, <2>2, <1>2 DEF ReaderInv, BlockInv
    <2>4. heap' = heap \cup {<<"questions">>}
      BY <2>3, BlocksDiffer DEF OpenQuestions, Fixed
    <2> QED BY <2>2, <2>3, <2>4, <1>2 DEF BlockInv, Fixed
  <1> QED BY <1>3, <1>4, <1>5 DEF ReaderInv

LEMMA BeginQuestionKeeps == ASSUME ReaderInv, BeginQuestion PROVE ReaderInv'
  <1>1. /\ place = "questions" /\ place' = "question" /\ q' = Zero
        /\ UNCHANGED <<heap, lost, lists>>
    BY DEF BeginQuestion
  <1>2. /\ w'.count = w.count /\ w'.max = w.max /\ w'.cap \in Nat
        /\ w.cap > 0 => w'.cap > 0
        /\ DOMAIN w'.questions = 0 .. w'.cap - 1
        /\ w' = [state |-> w'.state, count |-> w'.count, cap |-> w'.cap, max |-> w'.max,
                 questions |-> w'.questions]
    <2>1. CASE w.count = w.cap
      <3>1. w' = Grown
        BY <2>1 DEF BeginQuestion
      <3> DEFINE more == [k \in 0 .. 2 * w.cap - 1 |->
                             IF k < w.cap THEN w.questions[k] ELSE Zero]
      <3>2. w' = [w EXCEPT !.cap = 2 * w.cap, !.questions = more]
        BY <3>1 DEF Grown
      <3>3. DOMAIN more = 0 .. 2 * w.cap - 1
        OBVIOUS
      <3> HIDE DEF more
      <3>4. w' = [state |-> w.state, count |-> w.count, cap |-> 2 * w.cap, max |-> w.max,
                  questions |-> more]
        BY <3>2 DEF ReaderInv, RoomInv
      <3> QED BY <3>3, <3>4 DEF ReaderInv, RoomInv
    <2>2. CASE w.count # w.cap
      BY <2>2 DEF BeginQuestion, ReaderInv, RoomInv
    <2> QED BY <2>1, <2>2
  <1>3. lists <= 1 => /\ w.count < w'.cap
                      /\ \A k \in 0 .. w.count - 1 : w'.questions[k] = w.questions[k]
    <2>1. CASE w.count = w.cap
      <3>1. w' = Grown
        BY <2>1 DEF BeginQuestion
      <3> QED BY <3>1, <2>1, <1>1 DEF Grown, ReaderInv, RoomInv
    <2>2. CASE w.count # w.cap
      BY <2>2, <1>1 DEF BeginQuestion, ReaderInv, RoomInv
    <2> QED BY <2>1, <2>2
  <1>4. RoomInv'
    BY <1>1, <1>2, <1>3 DEF ReaderInv, RoomInv, Zero
  <1>5. QuestionInv' /\ CheckInv'
    BY <1>1, <1>2, <1>3 DEF ReaderInv, QuestionInv, CheckInv, Usable
  <1>6. BlockInv'
    <2>1. SUFFICES ASSUME lists <= 1, ~lost PROVE BlockInv'
      BY <1>1 DEF BlockInv
    <2>2. ~misused'
      <3>1. ~misused /\ ~(w.count > w.cap)
        BY <2>1, <1>1 DEF ReaderInv, RoomInv, BlockInv
      <3> QED BY <3>1 DEF BeginQuestion
    <2>3. Counted' = Counted
      BY <1>2 DEF Counted
    <2>4. heap = {<<"w">>} \cup (Fixed \cap heap) \cup Counted \cup {Text}
      BY <2>1, <1>1 DEF ReaderInv, BlockInv
    <2>5. \A k \in Nat : Suffix(k) \in heap => k < w.count
      BY <2>4, BlocksDiffer DEF Counted, Fixed, ReaderInv, RoomInv
    <2>6. Suffix(w.count) \notin heap
      BY <2>5 DEF ReaderInv, RoomInv
    <2>7. q'.suffix = 0
      BY <1>1 DEF Zero
    <2> QED BY <2>2, <2>3, <2>4, <2>6, <2>7, <1>1, <1>2 DEF BlockInv, Fixed
  <1> QED BY <1>4, <1>5, <1>6 DEF ReaderInv

LEMMA MemberKept ==
    ASSUME ReaderInv, NEW n \in 0 .. MaxIds
    PROVE  LET typed == [suffix : Nat, candidates : Nat, expected : Nat] IN
           /\ [q EXCEPT !.suffix = n] \in typed
           /\ [q EXCEPT !.candidates = n] \in typed /\ [q EXCEPT !.candidates = n].suffix = q.suffix
           /\ [q EXCEPT !.expected = n] \in typed /\ [q EXCEPT !.expected = n].suffix = q.suffix
  <1>1. q \in [suffix : Nat, candidates : Nat, expected : Nat] /\ n \in Nat
    BY WorkloadAssumption DEF ReaderInv, RoomInv
  <1> QED BY <1>1

LEMMA ReadSuffixKeeps == ASSUME ReaderInv, ReadSuffix PROVE ReaderInv'
  <1>1. place = "question" /\ UNCHANGED <<place, misused, w, lists>>
    BY DEF ReadSuffix
  <1>2. q' \in [suffix : Nat, candidates : Nat, expected : Nat]
    <2>1. PICK n \in 0 .. MaxIds : q' = [q EXCEPT !.suffix = n]
      BY DEF ReadSuffix
    <2> QED BY <2>1, MemberKept
  <1>3. RoomInv' /\ QuestionInv' /\ CheckInv'
    BY <1>1, <1>2 DEF ReaderInv, RoomInv, QuestionInv, CheckInv, Usable
  <1>4. BlockInv'
    <2>1. SUFFICES ASSUME lists <= 1, ~lost' PROVE BlockInv'
      BY <1>1 DEF BlockInv
    <2>2. ~lost /\ heap' = heap \cup {Suffix(w.count)}
      BY <2>1 DEF ReadSuffix
    <2>3. Counted' = Counted /\ Suffix(w.count)' = Suffix(w.count)
      BY <1>1 DEF Counted
    <2> QED BY <2>1, <2>2, <2>3, <1>1, BlocksDiffer DEF ReaderInv, BlockInv, Fixed, RoomInv
  <1> QED BY <1>3, <1>4 DEF ReaderInv

LEMMA ReadListKeeps ==
    ASSUME ReaderInv, ReadCandidates \/ ReadExpected, ~Abandon PROVE ReaderInv'
  <1>1. place = "question" /\ UNCHANGED <<place, heap, lost, misused, w, lists>>
    BY DEF ReadCandidates, ReadExpected
  <1>2. q' \in [suffix : Nat, candidates : Nat, expected : Nat] /\ q'.suffix = q.suffix
    <2>1. PICK n \in 0 .. MaxIds : \/ q' = [q EXCEPT !.candidates = n]
                                  \/ q' = [q EXCEPT !.expected = n]
      BY DEF ReadCandidates, ReadExpected
    <2> QED BY <2>1, MemberKept
  <1>3. RoomInv' /\ CheckInv'
    BY <1>1, <1>2 DEF ReaderInv, RoomInv, CheckInv
  <1>4. QuestionInv'
    BY <1>1 DEF ReaderInv, QuestionInv, Usable
  <1>5. BlockInv'
    BY <1>1, <1>2 DEF ReaderInv, BlockInv, Counted
  <1> QED BY <1>3, <1>4, <1>5 DEF ReaderInv

\* A question that is kept is the next one that is counted.
LEMMA EndQuestionKeeps == ASSUME ReaderInv, EndQuestion, Usable(q) PROVE ReaderInv'
  <1>1. /\ place = "question" /\ place' = "questions" /\ w' = Kept
        /\ UNCHANGED <<heap, lost, misused, q, lists>>
    BY DEF EndQuestion
  <1> DEFINE kept == [w.questions EXCEPT ![w.count] = q]
             most == IF q.suffix > w.max THEN q.suffix ELSE w.max
  <1>2. w' = [state |-> w.state, count |-> w.count + 1, cap |-> w.cap, max |-> most,
              questions |-> kept]
    BY <1>1 DEF Kept, ReaderInv, RoomInv
  <1>3. /\ w'.count = w.count + 1 /\ w'.cap = w.cap /\ w'.max = most /\ w'.questions = kept
        /\ w' = [state |-> w'.state, count |-> w'.count, cap |-> w'.cap, max |-> w'.max,
                 questions |-> w'.questions]
    BY <1>2
  <1>4. DOMAIN kept = DOMAIN w.questions /\ most \in Nat
    BY DEF ReaderInv, RoomInv
  <1>5. RoomInv' /\ CheckInv'
    BY <1>1, <1>3, <1>4 DEF ReaderInv, RoomInv, CheckInv
  <1>6. QuestionInv'
    <2>1. SUFFICES ASSUME lists <= 1 PROVE QuestionInv'
      BY <1>1 DEF QuestionInv
    <2>2. w.count \in DOMAIN w.questions /\ w.count \in Nat /\ w.max \in Nat /\ q.suffix \in Nat
      BY <2>1, <1>1 DEF ReaderInv, RoomInv
    <2>3. kept[w.count] = q /\ \A k \in 0 .. w.count - 1 : kept[k] = w.questions[k]
      BY <2>2
    <2>4. most >= w.max /\ most >= q.suffix /\ most \in {w.max, q.suffix}
      BY <2>2
    <2> HIDE DEF kept, most
    <2>5. \A k \in 0 .. w.count :
             /\ kept[k] \in [suffix : Nat, candidates : Nat, expected : Nat]
             /\ Usable(kept[k]) /\ kept[k].suffix <= most
      <3> TAKE k \in 0 .. w.count
      <3>1. CASE k = w.count
        BY <3>1, <2>3, <2>4 DEF ReaderInv, RoomInv
      <3>2. CASE k < w.count
        <4>1. /\ k \in 0 .. w.count - 1 /\ kept[k] = w.questions[k]
              /\ w.questions[k] \in [suffix : Nat, candidates : Nat, expected : Nat]
              /\ Usable(w.questions[k]) /\ w.questions[k].suffix <= w.max
          BY <3>2, <2>1, <2>2, <2>3 DEF ReaderInv, QuestionInv
        <4> QED BY <4>1, <2>2, <2>4
      <3> QED BY <3>1, <3>2, <2>2
    <2>6. \E k \in 0 .. w.count : kept[k].suffix = most
      <3>1. CASE most = q.suffix
        BY <3>1, <2>2, <2>3
      <3>2. CASE most = w.max /\ w.count > 0
        BY <3>2, <2>1, <2>2, <2>3 DEF ReaderInv, QuestionInv
      <3>3. CASE most = w.max /\ w.count = 0
        BY <3>3, <2>1, <2>2, <2>3, <2>4 DEF ReaderInv, QuestionInv
      <3> QED BY <3>1, <3>2, <3>3, <2>2, <2>4
    <2> QED BY <2>2, <2>5, <2>6, <1>3 DEF QuestionInv
  <1>7. BlockInv'
    <2>1. SUFFICES ASSUME lists <= 1, ~lost PROVE BlockInv'
      BY <1>1 DEF BlockInv
    <2>2. w.count \in Nat /\ q.suffix > 0
      BY DEF ReaderInv, RoomInv, Usable
    <2>3. Counted' = Counted \cup {Suffix(w.count)}
      <3>1. \A k : k \in 0 .. w.count <=> k \in 0 .. w.count - 1 \/ k = w.count
        BY <2>2
      <3>2. 0 .. w'.count - 1 = 0 .. w.count
        BY <2>2, <1>3
      <3> QED BY <3>1, <3>2 DEF Counted
    <2>4. Suffix(w.count) \in heap
      BY <2>1, <2>2, <1>1 DEF ReaderInv, BlockInv
    <2> QED BY <2>1, <2>3, <2>4, <1>1 DEF ReaderInv, BlockInv
  <1> QED BY <1>5, <1>6, <1>7 DEF ReaderInv

LEMMA EndWorkloadKeeps == ASSUME ReaderInv, EndWorkload PROVE ReaderInv'
  <1>1. place = "top" /\ place' = "check" /\ UNCHANGED <<lost, w, q, lists>> /\ Free({Text})
    BY DEF EndWorkload
  <1>2. RoomInv' /\ QuestionInv' /\ CheckInv'
    BY <1>1 DEF ReaderInv, RoomInv, QuestionInv, CheckInv, Usable
  <1>3. BlockInv'
    <2>1. SUFFICES ASSUME lists <= 1, ~lost PROVE BlockInv'
      BY <1>1 DEF BlockInv
    <2>2. ~misused /\ heap = {<<"w">>} \cup (Fixed \cap heap) \cup Counted \cup {Text}
      BY <2>1, <1>1 DEF ReaderInv, BlockInv
    <2>3. heap' = heap \ {Text} /\ ~misused'
      BY <2>2, <1>1 DEF Free
    <2>4. Text \notin Counted
      BY BlocksDiffer DEF Counted, ReaderInv, RoomInv
    <2>5. Counted' = Counted
      BY <1>1 DEF Counted
    <2> QED BY <2>2, <2>3, <2>4, <2>5, <1>1, BlocksDiffer DEF BlockInv, Fixed
  <1> QED BY <1>2, <1>3 DEF ReaderInv

LEMMA ReaderInvNext == ASSUME ReaderInv, [WorkloadNext]_workloadVars PROVE ReaderInv'
  <1>1. CASE Abandon
    BY <1>1, AbandonKeeps
  <1>2. CASE EndQuestions
    BY <1>2 DEF EndQuestions, ReaderInv, RoomInv, QuestionInv, CheckInv, BlockInv, Counted, Usable
  <1>3. CASE Check /\ w.count > 0 /\ ~Abandon
    BY <1>3 DEF Check, ReaderInv, RoomInv, QuestionInv, CheckInv, BlockInv, Counted, Usable
  <1>4. CASE UNCHANGED workloadVars
    BY <1>4 DEF workloadVars, ReaderInv, RoomInv, QuestionInv, CheckInv, BlockInv, Counted, Usable
  <1>5. CASE (ReadCandidates \/ ReadExpected) /\ ~Abandon
    BY <1>5, ReadListKeeps
  <1>6. CASE EndQuestion /\ Usable(q)
    BY <1>6, EndQuestionKeeps
  <1>7. Check => Abandon \/ w.count > 0
    BY WorkloadAssumption DEF Check
  <1>8. /\ EndQuestion => Abandon \/ Usable(q)
        /\ Malformed => Abandon
    BY DEF EndQuestion, Malformed
  <1> QED
    BY <1>1, <1>2, <1>3, <1>4, <1>5, <1>6, <1>7, <1>8, OpenKeeps, ReadStateKeeps,
       OpenQuestionsKeeps, BeginQuestionKeeps, ReadSuffixKeeps, EndWorkloadKeeps
    DEF WorkloadNext

LEMMA WholeFollows == ReaderInv => WorkloadWhole
  <1>1. SUFFICES ASSUME ReaderInv, place = "returned", lists = 1, ~lost PROVE WorkloadWhole
    BY DEF WorkloadWhole
  <1>2. w.count \in Nat /\ w.count > 0 /\ DOMAIN w.questions = 0 .. w.cap - 1
        /\ w.cap \in Nat /\ w.count <= w.cap
    BY <1>1 DEF ReaderInv, RoomInv, CheckInv
  <1>3. /\ \A k \in 0 .. w.count - 1 : Usable(w.questions[k]) /\ w.questions[k].suffix <= w.max
        /\ \E k \in 0 .. w.count - 1 : w.questions[k].suffix = w.max
    BY <1>1, <1>2 DEF ReaderInv, QuestionInv
  <1>4. ~misused /\ heap = {<<"w">>} \cup (Fixed \cap heap) \cup Counted
    BY <1>1 DEF ReaderInv, BlockInv
  <1>5. \A k \in 0 .. w.count - 1 : k \in DOMAIN w.questions /\ w.questions[k].suffix > 0
    BY <1>2, <1>3 DEF Usable
  <1>6. Freed = {<<"w">>} \cup (Fixed \cap heap) \cup Counted
    <2>1. {k \in 0 .. w.count - 1 : k \in DOMAIN w.questions /\ w.questions[k].suffix > 0}
             = 0 .. w.count - 1
      BY <1>5
    <2> QED BY <2>1 DEF Freed, Fixed, Counted
  <1> QED BY <1>3, <1>4, <1>6 DEF WorkloadWhole

\* For all bounds and every file that has no list twice, what is returned has
\* one question or more, all of which can be asked in buffers of the size that
\* it names, and q3_workload_free() gives back every block.
THEOREM ReturnedIsWhole == WorkloadSpec => []WorkloadWhole
  <1>1. ReaderInv /\ [WorkloadNext]_workloadVars => ReaderInv'
    BY ReaderInvNext
  <1> QED BY <1>1, WorkloadInitHolds, WholeFollows, PTL DEF WorkloadSpec

-----------------------------------------------------------------------------
(* Programs: the parts inside of the programs that run them.                *)

\* A span begins where its first tensor begins.
SpanStart == \A k \in 1 .. Len(spans) : spans[k].offset = Offset(entries[spans[k].first])

\* No tensor that is collected ends behind the file.
EntriesInside == \A t \in resident : Inside(t)

PlanInv == IInv /\ SpanStart /\ EntriesInside

\* The planner never changes the file.
LEMMA SameFile ==
    ASSUME [Next]_vars
    PROVE  /\ model' = model
           /\ \A t : /\ Offset(t)' = Offset(t) /\ Size(t)' = Size(t) /\ End(t)' = End(t)
                     /\ Inside(t)' = Inside(t)
  <1>1. model' = model
    BY DEF Next, OutOfMemory, Collect, Reject, Sort, Place, Destroy, vars
  <1> QED BY <1>1 DEF Offset, Size, End, Inside

LEMMA InsideStep == PlanInv /\ [Next]_vars => EntriesInside'
  <1> SUFFICES ASSUME PlanInv, [Next]_vars, NEW t \in resident' PROVE Inside(t)'
    BY DEF EntriesInside
  <1>1. SUFFICES Inside(t)
    BY SameFile
  <1>2. CASE t \in resident
    BY <1>2 DEF PlanInv, EntriesInside
  <1>3. CASE t \notin resident
    <2>1. Collect /\ t = i /\ Size(i) # 0
      BY <1>3 DEF Next, OutOfMemory, Collect, Take, Wanted, Reject, Sort, Place, Destroy, vars
    <2> QED BY <2>1 DEF Collect
  <1> QED BY <1>2, <1>3

LEMMA StartStep == PlanInv /\ [Next]_vars => SpanStart'
  <1> SUFFICES ASSUME PlanInv, [Next]_vars, NEW k \in 1 .. Len(spans')
               PROVE  spans'[k].offset = Offset(entries'[spans'[k].first])
    BY SameFile DEF SpanStart
  <1>1. /\ \A l \in 1 .. Len(spans) : spans[l].offset = Offset(entries[spans[l].first])
        /\ spans \in Seq(Span) /\ Len(spans) \in Nat
    BY DEF PlanInv, SpanStart, IInv, TypeOK
  <1>2. CASE Place
    <2>1. entries' = entries
      BY <1>2 DEF Place
    <2>2. CASE spans # <<>> /\ spans' = [spans EXCEPT ![Len(spans)] = Longer(@, entries[i])]
      <3>1. k \in 1 .. Len(spans) /\ Len(spans) \in 1 .. Len(spans)
        BY <1>1, <2>2
      <3>2. spans[k] \in Span
        BY <1>1, <3>1
      <3>3. spans'[k].offset = spans[k].offset /\ spans'[k].first = spans[k].first
        <4>1. CASE k = Len(spans)
          <5>1. spans'[k] = Longer(spans[k], entries[i])
            BY <1>1, <2>2, <3>1, <4>1
          <5> QED BY <3>2, <5>1 DEF Longer, Span
        <4>2. CASE k # Len(spans)
          BY <1>1, <2>2, <3>1, <4>2
        <4> QED BY <4>1, <4>2
      <3> QED BY <1>1, <2>1, <3>1, <3>3
    <2>3. CASE spans' = Append(spans, Alone(entries[i]))
      <3>1. CASE k = Len(spans) + 1
        <4>1. spans'[k] = Alone(entries[i])
          BY <1>1, <2>3, <3>1
        <4>2. spans'[k].offset = Offset(entries[i]) /\ spans'[k].first = i
          BY <4>1 DEF Alone
        <4> QED BY <2>1, <4>2
      <3>2. CASE k # Len(spans) + 1
        <4>1. k \in 1 .. Len(spans) /\ spans'[k] = spans[k]
          BY <1>1, <2>3, <3>2
        <4> QED BY <1>1, <2>1, <4>1
      <3> QED BY <3>1, <3>2
    <2> QED BY <1>2, <2>2, <2>3 DEF Place
  <1>3. CASE ~Place /\ spans' # <<>>
    <2>1. spans' = spans /\ (entries' = entries \/ spans = <<>>)
      BY <1>3 DEF Next, OutOfMemory, Collect, Reject, Sort, Destroy, vars, PlanInv, IInv, CollectInv
    <2> QED BY <1>1, <1>3, <2>1
  <1>4. CASE spans' = <<>>
    BY <1>4
  <1> QED BY <1>2, <1>3, <1>4

LEMMA PlanInvStep == PlanInv /\ [Next]_vars => PlanInv'
  BY PlanStepInv, InsideStep, StartStep DEF PlanInv

\* A program that plans nothing has a file without tensors.
LEMMA ProgramPlanInit == ProgramsInit => PlanInv
  <1> SUFFICES ASSUME ProgramsInit PROVE PlanInv
    OBVIOUS
  <1>0. Empty /\ (model \in Models \/ model = NoModel)
    BY DEF ProgramsInit
  <1>1. ModelOK(model)
    <2>1. CASE model \in Models
      BY <2>1, PlanAssumption
    <2>2. CASE model = NoModel
      <3>1. model.size = 0 /\ model.tensors = <<>>
        BY <2>2 DEF NoModel
      <3> QED BY <3>1, PlanAssumption DEF ModelOK
    <2> QED BY <1>0, <2>1, <2>2
  <1>2. TypeOK
    BY <1>0, <1>1, PlanAssumption DEF Empty, TypeOK, Span
  <1>3. CollectInv
    BY <1>0, <1>2, TensorTypes DEF Empty, CollectInv
  <1>4. spans = <<>> /\ Placed = 0 /\ resident = {}
    BY <1>0 DEF Empty, Placed
  <1>5. IInv
    BY <1>2, <1>3, <1>4, NothingPlaced DEF IInv
  <1>6. Len(spans) = 0
    BY <1>4
  <1> QED BY <1>4, <1>5, <1>6 DEF PlanInv, SpanStart, EntriesInside

LEMMA ProgramsPlan == ProgramsSpec => []PlanInv
  <1>1. ASSUME ProgramsNext PROVE [Next]_vars
    BY <1>1 DEF ProgramsNext, CommandStep, PlanStep, ProductStep, WorkloadStep
  <1>2. UNCHANGED programsVars => UNCHANGED vars
    BY DEF programsVars
  <1>3. PlanInv /\ [ProgramsNext]_programsVars => PlanInv'
    BY <1>1, <1>2, PlanInvStep
  <1> QED BY ProgramPlanInit, <1>3, PTL DEF ProgramsSpec

-----------------------------------------------------------------------------
(* What the plan says of tensors that overlap. *)

\* The entries of a plan that is built: in file order, and with bytes.
LEMMA EntryOrder ==
    ASSUME PlanInv, pc = "built"
    PROVE  /\ Len(entries) \in Nat
           /\ \A j \in 1 .. Len(entries) :
                 /\ entries[j] \in resident
                 /\ Offset(entries[j]) \in Nat /\ Size(entries[j]) \in Nat \ {0}
                 /\ End(entries[j]) = Offset(entries[j]) + Size(entries[j])
                 /\ End(entries[j]) <= WordMax
           /\ \A j, l \in 1 .. Len(entries) :
                 j < l => entries[j] # entries[l] /\ Offset(entries[j]) <= Offset(entries[l])
           /\ \A t \in resident : \E j \in 1 .. Len(entries) : entries[j] = t
  <1>1. TypeOK /\ CollectInv /\ EntriesInside
    BY DEF PlanInv, IInv
  <1>2. /\ Len(entries) \in Nat
        /\ \A j \in 1 .. Len(entries) : entries[j] \in Tensors /\ Wanted(entries[j])
        /\ \A t \in resident : \E j \in 1 .. Len(entries) : entries[j] = t
        /\ \A j, k \in 1 .. Len(entries) : entries[j] = entries[k] => j = k
    BY <1>1, EntryFacts
  <1>3. entries \in Sorted(resident) /\ resident = {t \in Tensors : Wanted(t)}
    BY <1>1 DEF CollectInv
  <1>4. \A j, l \in 1 .. Len(entries) : j < l => Before(entries[j], entries[l])
    <2>1. DOMAIN entries = 1 .. Len(entries)
      BY <1>1 DEF TypeOK
    <2> QED BY <1>3, <2>1 DEF Sorted
  <1>5. ASSUME NEW j \in 1 .. Len(entries)
        PROVE  /\ entries[j] \in resident
               /\ Offset(entries[j]) \in Nat /\ Size(entries[j]) \in Nat \ {0}
               /\ End(entries[j]) = Offset(entries[j]) + Size(entries[j])
               /\ End(entries[j]) <= WordMax
    <2>1. entries[j] \in resident /\ entries[j] \in Tensors /\ Size(entries[j]) # 0
      BY <1>2, <1>3 DEF Wanted
    <2>2. Offset(entries[j]) \in Nat /\ Size(entries[j]) \in Nat
      BY <1>1, <2>1, TensorTypes
    <2>3. Offset(entries[j]) <= model.size /\ Size(entries[j]) <= model.size - Offset(entries[j])
      BY <1>1, <2>1 DEF EntriesInside, Inside
    <2>4. model.size \in 0 .. WordMax /\ WordMax \in Nat
      BY <1>1, PlanAssumption DEF TypeOK, ModelOK
    <2> QED BY <2>1, <2>2, <2>3, <2>4 DEF End
  <1>6. ASSUME NEW j \in 1 .. Len(entries), NEW l \in 1 .. Len(entries), j < l
        PROVE  entries[j] # entries[l] /\ Offset(entries[j]) <= Offset(entries[l])
    <2>1. Before(entries[j], entries[l])
      BY <1>4, <1>6
    <2>2. Offset(entries[j]) <= Offset(entries[l])
      BY <1>5, <2>1 DEF Before
    <2> QED BY <1>2, <1>6, <2>2
  <1> QED BY <1>2, <1>5, <1>6

\* Where an entry begins and ends are numbers.
LEMMA EntryEnds ==
    ASSUME PlanInv, pc = "built", NEW j \in 1 .. Len(entries)
    PROVE  Offset(entries[j]) \in Nat /\ End(entries[j]) \in Nat
  <1>1. /\ Offset(entries[j]) \in Nat /\ Size(entries[j]) \in Nat \ {0}
        /\ End(entries[j]) = Offset(entries[j]) + Size(entries[j])
    BY EntryOrder
  <1> QED BY <1>1

\* The spans of a plan that is built.
LEMMA SpanFacts ==
    ASSUME PlanInv, pc = "built"
    PROVE  /\ Len(spans) \in Nat
           /\ \A k \in 1 .. Len(spans) :
                 /\ spans[k].first \in Nat /\ spans[k].count \in Nat \ {0}
                 /\ spans[k].first \in 1 .. Len(entries)
                 /\ spans[k].first + spans[k].count - 1 \in 1 .. Len(entries)
                 /\ Listed(spans[k]) = spans[k].first .. spans[k].first + spans[k].count - 1
                 /\ spans[k].offset = Offset(entries[spans[k].first])
                 /\ SpanEnd(spans[k]) = End(entries[spans[k].first + spans[k].count - 1])
                 /\ \A j \in Listed(spans[k]) : Holds(spans[k], entries[j])
           /\ \A k, l \in 1 .. Len(spans) :
                 k < l => spans[k].first + spans[k].count <= spans[l].first
           /\ \A j \in 1 .. Len(entries) : \E k \in 1 .. Len(spans) : j \in Listed(spans[k])
  <1>1. TypeOK /\ ChainInv /\ HoldInv /\ SpanStart /\ Placed = Len(entries)
        /\ Len(entries) \in Nat /\ Len(spans) \in Nat /\ spans \in Seq(Span)
    BY DEF PlanInv, IInv, Placed, TypeOK
  <1>2. ASSUME NEW k \in 1 .. Len(spans)
        PROVE  /\ spans[k].first \in Nat /\ spans[k].count \in Nat \ {0}
               /\ spans[k].first \in 1 .. Len(entries)
               /\ spans[k].first + spans[k].count - 1 \in 1 .. Len(entries)
    <2>1. spans[k] \in Span
      BY <1>1
    <2>2. spans[k].first \in Nat /\ spans[k].count \in Nat
      BY <2>1 DEF Span
    <2>3. spans[k].first >= 1 /\ spans[k].count >= 1
          /\ spans[k].first + spans[k].count <= Len(entries) + 1
      BY <1>1 DEF ChainInv
    <2> QED BY <1>1, <2>2, <2>3
  <1> QED BY <1>1, <1>2 DEF ChainInv, HoldInv, SpanStart, Listed

\* Spans in order: so do all tensors keep clear of the next one.
LEMMA NextIsBehind ==
    ASSUME PlanInv, pc = "built", PlanValid,
           NEW j \in 1 .. Len(entries), j + 1 \in 1 .. Len(entries)
    PROVE  End(entries[j]) <= Offset(entries[j + 1])
  <1>1. PICK k \in 1 .. Len(spans) : j \in Listed(spans[k])
    BY SpanFacts
  <1>2. PICK m \in 1 .. Len(spans) : j + 1 \in Listed(spans[m])
    BY SpanFacts
  <1> DEFINE e == entries[j]
             f == entries[j + 1]
  <1>3. End(e) \in Nat /\ Offset(f) \in Nat
    BY EntryEnds
  <1>4. CASE j + 1 \in Listed(spans[k])
    <2>1. Offset(f) - End(e) \in 0 .. MaxGap
      BY <1>1, <1>4 DEF PlanInv, IInv, SpansWithinLimits
    <2> QED BY <1>3, <2>1
  <1>5. CASE j + 1 \notin Listed(spans[k])
    <2>0. /\ spans[k].first \in Nat /\ spans[k].count \in Nat \ {0}
          /\ spans[m].first \in Nat /\ spans[m].count \in Nat \ {0}
          /\ j \in Nat /\ k \in Nat /\ m \in Nat /\ Len(spans) \in Nat
      <3>1. Len(entries) \in Nat
        BY EntryOrder
      <3> QED BY <3>1, SpanFacts
    <2>1. /\ j = spans[k].first + spans[k].count - 1
          /\ spans[k].first \in Nat /\ spans[k].count \in Nat \ {0}
      <3>1. /\ j \in spans[k].first .. spans[k].first + spans[k].count - 1
            /\ j + 1 \notin spans[k].first .. spans[k].first + spans[k].count - 1
        BY <1>1, <1>5 DEF Listed
      <3>2. \A a, c, x \in Nat : x \in a .. a + c - 1 /\ x + 1 \notin a .. a + c - 1 => x = a + c - 1
        OBVIOUS
      <3> QED BY ONLY <2>0, <3>1, <3>2
    <2>2. /\ spans[m].first <= j + 1 /\ j + 1 < spans[m].first + spans[m].count
          /\ spans[m].first \in Nat /\ spans[m].count \in Nat \ {0}
      <3>1. j + 1 \in spans[m].first .. spans[m].first + spans[m].count - 1
        BY <1>2 DEF Listed
      <3> QED BY ONLY <2>0, <3>1
    <2>3. k < m
      <3>1. m # k
        BY <1>2, <1>5
      <3>2. ~(m < k)
        <4>1. m < k => spans[m].first + spans[m].count <= spans[k].first
          BY SpanFacts
        <4>2. \A a, c, b, d, x \in Nat :
                 ~(x = a + c - 1 /\ b + d <= a /\ x + 1 < b + d /\ c # 0)
          OBVIOUS
        <4> QED BY ONLY <2>0, <2>1, <2>2, <4>1, <4>2
      <3> QED BY ONLY <2>0, <3>1, <3>2
    <2>4. k + 1 \in 1 .. Len(spans)
      BY <2>3, SpanFacts
    <2>5. m = k + 1
      <3>1. ~(k + 1 < m)
        <4>1. /\ spans[k].first + spans[k].count <= spans[k + 1].first
              /\ spans[k + 1].first \in Nat /\ spans[k + 1].count \in Nat \ {0}
          BY <2>4, SpanFacts
        <4>2. k + 1 < m => spans[k + 1].first + spans[k + 1].count <= spans[m].first
          BY <2>4, SpanFacts
        <4>3. \A a, c, b, d, g, x \in Nat :
                 ~(x = a + c - 1 /\ a + c <= b /\ d # 0 /\ b + d <= g /\ g <= x + 1 /\ c # 0)
          OBVIOUS
        <4> DEFINE a == spans[k].first
                   c == spans[k].count
                   b == spans[k + 1].first
                   d == spans[k + 1].count
                   g == spans[m].first
        <4>4. /\ a \in Nat /\ c \in Nat \ {0} /\ b \in Nat /\ d \in Nat \ {0} /\ g \in Nat
              /\ j \in Nat /\ j = a + c - 1 /\ a + c <= b /\ g <= j + 1
          BY <2>0, <2>1, <2>2, <4>1
        <4>5. k + 1 < m => b + d <= g
          BY <4>2
        <4> HIDE DEF a, b, c, d, g
        <4> QED BY <4>3, <4>4, <4>5
      <3> QED BY ONLY <2>0, <2>3, <3>1
    <2>6. spans[m].offset >= SpanEnd(spans[k])
      <3>1. m \in 2 .. Len(spans) /\ m - 1 = k
        BY <2>5, SpanFacts
      <3> QED BY <3>1 DEF PlanValid
    <2>7. SpanEnd(spans[k]) = End(e)
      BY <2>1, SpanFacts
    <2>8. spans[m].offset <= Offset(f) /\ spans[m].offset \in Nat
      <3>1. Holds(spans[m], f)
        BY <1>2, SpanFacts
      <3>2. spans[m].offset = Offset(entries[spans[m].first]) /\ spans[m].first \in 1 .. Len(entries)
        BY SpanFacts
      <3> QED BY <3>1, <3>2, EntryOrder DEF Holds
    <2> QED BY <1>3, <2>6, <2>7, <2>8
  <1> QED BY <1>4, <1>5

\* --memory-plan accepts a plan when no two tensors of it overlap, and only
\* then.
LEMMA ValidIffDisjoint ==
    ASSUME PlanInv, pc = "built"
    PROVE  PlanValid <=> \A s, t \in resident : s # t => End(s) <= Offset(t) \/ End(t) <= Offset(s)
  <1>1. ASSUME PlanValid, NEW j \in 1 .. Len(entries), NEW l \in 1 .. Len(entries), j < l
        PROVE  End(entries[j]) <= Offset(entries[l])
    <2>1. j + 1 \in 1 .. Len(entries) /\ (j + 1 = l \/ j + 1 < l)
      BY <1>1, EntryOrder
    <2>2. End(entries[j]) <= Offset(entries[j + 1])
      BY <1>1, <2>1, NextIsBehind
    <2>3. Offset(entries[j + 1]) <= Offset(entries[l])
      <3>1. CASE j + 1 = l
        BY <2>1, <3>1, EntryOrder
      <3>2. CASE j + 1 < l
        BY <2>1, <3>2, EntryOrder
      <3> QED BY <2>1, <3>1, <3>2
    <2>4. End(entries[j]) \in Nat /\ Offset(entries[j + 1]) \in Nat /\ Offset(entries[l]) \in Nat
      BY <2>1, EntryEnds
    <2> QED BY <2>2, <2>3, <2>4
  <1>2. ASSUME PlanValid, NEW s \in resident, NEW t \in resident, s # t
        PROVE  End(s) <= Offset(t) \/ End(t) <= Offset(s)
    <2>1. PICK j \in 1 .. Len(entries) : entries[j] = s
      BY EntryOrder
    <2>2. PICK l \in 1 .. Len(entries) : entries[l] = t
      BY EntryOrder
    <2>3. j < l \/ l < j
      <3>1. j # l /\ Len(entries) \in Nat
        BY <1>2, <2>1, <2>2, EntryOrder
      <3> QED BY <3>1
    <2> QED BY <1>1, <1>2, <2>1, <2>2, <2>3
  <1>3. ASSUME \A s, t \in resident : s # t => End(s) <= Offset(t) \/ End(t) <= Offset(s)
        PROVE  PlanValid
    <2>1. ASSUME NEW j \in 1 .. Len(entries), NEW l \in 1 .. Len(entries), j < l
          PROVE  Offset(entries[l]) >= Offset(entries[j]) /\ End(entries[j]) <= Offset(entries[l])
      <3> DEFINE s == entries[j]
                 t == entries[l]
      <3>1. /\ s \in resident /\ t \in resident /\ s # t /\ Offset(s) <= Offset(t)
            /\ Offset(s) \in Nat /\ Offset(t) \in Nat /\ Size(t) \in Nat \ {0}
            /\ End(s) \in Nat /\ End(t) = Offset(t) + Size(t)
        BY <2>1, EntryOrder
      <3>2. End(s) <= Offset(t) \/ End(t) <= Offset(s)
        BY <1>3, <3>1
      <3> QED BY <3>1, <3>2
    <2>2. \A k \in 2 .. Len(entries) : Offset(entries[k]) >= Offset(entries[k - 1])
      <3>1. ASSUME NEW k \in 2 .. Len(entries)
            PROVE  k \in 1 .. Len(entries) /\ k - 1 \in 1 .. Len(entries) /\ k - 1 < k
        BY EntryOrder
      <3> QED BY <2>1, <3>1
    <2>3. \A k \in 1 .. Len(entries) : End(entries[k]) <= WordMax
      BY EntryOrder
    <2>4. ASSUME NEW k \in 1 .. Len(spans)
          PROVE  /\ SpanEnd(spans[k]) <= WordMax
                 /\ \A j \in Listed(spans[k]) : Holds(spans[k], entries[j])
      <3>1. /\ SpanEnd(spans[k]) = End(entries[spans[k].first + spans[k].count - 1])
            /\ spans[k].first + spans[k].count - 1 \in 1 .. Len(entries)
            /\ \A j \in Listed(spans[k]) : Holds(spans[k], entries[j])
        BY SpanFacts
      <3> QED BY <2>3, <3>1
    <2>5. ASSUME NEW k \in 2 .. Len(spans)
          PROVE  spans[k].offset >= SpanEnd(spans[k - 1])
      <3>1. k \in 1 .. Len(spans) /\ k - 1 \in 1 .. Len(spans) /\ k - 1 < k
        BY SpanFacts
      <3> DEFINE b == spans[k - 1].first + spans[k - 1].count - 1
                 a == spans[k].first
      <3>2. /\ a \in 1 .. Len(entries) /\ b \in 1 .. Len(entries)
            /\ spans[k - 1].first \in Nat /\ spans[k - 1].count \in Nat
            /\ spans[k - 1].first + spans[k - 1].count <= a
            /\ spans[k].offset = Offset(entries[a]) /\ SpanEnd(spans[k - 1]) = End(entries[b])
        <4>1. /\ spans[k].first \in 1 .. Len(entries) /\ spans[k].offset = Offset(entries[spans[k].first])
              /\ spans[k - 1].first \in Nat /\ spans[k - 1].count \in Nat
              /\ spans[k - 1].first + spans[k - 1].count - 1 \in 1 .. Len(entries)
              /\ SpanEnd(spans[k - 1]) = End(entries[spans[k - 1].first + spans[k - 1].count - 1])
          BY <3>1, SpanFacts
        <4>2. spans[k - 1].first + spans[k - 1].count <= spans[k].first
          BY <3>1, SpanFacts
        <4> HIDE DEF SpanEnd
        <4> QED BY <4>1, <4>2
      <3>3. b < a
        <4>1. \A x, c, y \in Nat : x + c <= y => x + c - 1 < y
          OBVIOUS
        <4>2. a \in Nat
          BY <3>1, SpanFacts
        <4> QED BY <3>2, <4>1, <4>2
      <3>4. End(entries[b]) <= Offset(entries[a])
        BY <2>1, <3>2, <3>3
      <3>5. End(entries[b]) \in Nat /\ Offset(entries[a]) \in Nat
        BY <3>2, EntryEnds
      <3> QED BY <3>2, <3>4, <3>5
    <2> QED BY <2>2, <2>3, <2>4, <2>5 DEF PlanValid
  <1> QED BY <1>2, <1>3

\* Of every file, and in the program that runs the planner: --memory-plan
\* refuses exactly the plans of tensors that overlap.
THEOREM PlanCheckIsExact == ProgramsSpec => []PlanValidUnlessOverlap
  <1>1. PlanInv => PlanValidUnlessOverlap
    BY ValidIffDisjoint DEF PlanValidUnlessOverlap
  <1> QED BY <1>1, ProgramsPlan, PTL

-----------------------------------------------------------------------------
(* What is proved of each part holds in the program that runs it.           *)

\* A command that computes no product has one that is never launched.
LEMMA ProgramsStream == ProgramsSpec => []StreamInv
  <1>1. ProgramsInit => StreamInv
    <2>1. ProgramsInit => product \in Shapes /\ Launched
      BY DEF ProgramsInit, Shapes
    <2> QED BY <2>1, LaunchedHolds
  <1>2. ASSUME ProgramsNext PROVE [StreamNext]_streamVars
    BY <1>2 DEF ProgramsNext, CommandStep, PlanStep, ProductStep, WorkloadStep
  <1>3. UNCHANGED programsVars => UNCHANGED streamVars
    BY DEF programsVars
  <1>4. StreamInv /\ [ProgramsNext]_programsVars => StreamInv'
    BY <1>2, <1>3, StreamInvNext
  <1> QED BY <1>1, <1>4, PTL DEF ProgramsSpec

LEMMA ProgramsWorkload == ProgramsSpec => []ReaderInv
  <1>1. ProgramsInit => ReaderInv
    BY WorkloadInitHolds DEF ProgramsInit
  <1>2. ASSUME ProgramsNext PROVE [WorkloadNext]_workloadVars
    BY <1>2 DEF ProgramsNext, CommandStep, PlanStep, ProductStep, WorkloadStep
  <1>3. UNCHANGED programsVars => UNCHANGED workloadVars
    BY DEF programsVars
  <1>4. ReaderInv /\ [ProgramsNext]_programsVars => ReaderInv'
    BY <1>2, <1>3, ReaderInvNext
  <1> QED BY <1>1, <1>4, PTL DEF ProgramsSpec

\* In every program, whatever is on its command line: plans are complete and
\* read no excluded byte, products are whole, and workloads can be asked.
THEOREM ProgramsKeepThem ==
    ProgramsSpec => [](/\ EveryTensorInOneSpan /\ GapsHoldNoPle
                       /\ ProductIsWhole /\ AddedOnce /\ ScratchOnlyIfNeeded
                       /\ WorkloadWhole)
  <1>1. PlanInv => EveryTensorInOneSpan /\ GapsHoldNoPle
    BY BuiltPlan DEF PlanInv, IInv
  <1>2. StreamInv => ProductIsWhole /\ AddedOnce /\ ScratchOnlyIfNeeded
    BY ProductFollows, AddedOnceFollows, ScratchFollows
  <1> QED BY <1>1, <1>2, WholeFollows, ProgramsPlan, ProgramsStream, ProgramsWorkload, PTL

-----------------------------------------------------------------------------
(* CommandLine: what a command holds, call by call.                         *)

Things == {"file", "plan", "context", "weights", "fh", "tokens", "rt", "kv", "hidden", "logits",
           "host_logits", "lrt", "lkv", "workspace", "stream", "input", "output", "host_in",
           "text", "request", "model", "results"}

\* A place of a command: what it holds there, what it may hold of the device
\* besides, and whether q3_cuda_cleanup() will reset the device.
Spot(must, may, init) == [must |-> must, may |-> may, init |-> init]
SpotOK(x) == (\A r \in x.must : Uses(r) \subseteq x.must) /\ x.may \subseteq OnDevice
Within(x, h, t, ix) ==
    /\ x.must \subseteq h /\ h \subseteq x.must \cup x.may /\ OnDevice \cap t \subseteq h
    /\ x.init => ix

\* The list u may be given back at x, in its order,
Ranged(u) == {u[ix] : ix \in DOMAIN u}
Unwinds(x, u) ==
    /\ DOMAIN u = 1 .. Len(u) /\ Len(u) \in Nat
    /\ \A ix, j \in DOMAIN u : u[ix] = u[j] => ix = j
    /\ \A ix \in DOMAIN u : u[ix] \in x.must \cup x.may
    /\ \A ix \in DOMAIN u : \A r \in x.must : u[ix] \in Uses(r) => \E j \in 1 .. ix - 1 : u[j] = r
\* and with the device nothing is left.
Undoes(x, u) ==
    /\ u \in Seq(Things) /\ Unwinds(x, u)
    /\ (x.must \cup x.may) \ Ranged(u) \subseteq IF x.init THEN OnDevice ELSE {}

\* A call that succeeds leads from x to y; one that fails leaves, or goes on.
Gives(c, x, y) ==
    /\ c.drops \cap OnDevice = {}
    /\ y.must \subseteq (x.must \cup c.gives) \ c.drops
    /\ (x.must \cup x.may \cup c.gives) \ c.drops \subseteq y.must \cup y.may
    /\ y.init => x.init \/ c.name \in Initialize
Fallible(c) == c.name \notin {"close"} \cup Unchecked
GoesOn(c, x, y) ==
    /\ c.undo \in Seq(Things) /\ Unwinds(x, c.undo) /\ Ranged(c.undo) \cap OnDevice = {}
    /\ y.must \subseteq x.must \ Ranged(c.undo)
    /\ (x.must \cup x.may) \ Ranged(c.undo) \subseteq y.must \cup y.may
    /\ y.init => x.init

\* A list of calls with the places between them.  Whoever fails and goes on
\* does so at one of these places, or j calls behind the list at e.
Steps(p, f, j, e, ix) ==
    /\ p[ix].skip \in Nat
    /\ Gives(p[ix], f[ix - 1], f[ix])
    /\ Fallible(p[ix]) /\ p[ix].rc # 0 => Undoes(f[ix - 1], p[ix].undo)
    /\ Fallible(p[ix]) /\ p[ix].rc = 0 =>
          \/ ix + p[ix].skip <= Len(p) /\ GoesOn(p[ix], f[ix - 1], f[ix + p[ix].skip])
          \/ ix + p[ix].skip = Len(p) + j /\ GoesOn(p[ix], f[ix - 1], e)
Way(p, f, j, e) ==
    /\ DOMAIN p = 1 .. Len(p) /\ Len(p) \in Nat
    /\ \A ix \in 0 .. Len(p) : SpotOK(f[ix])
    /\ \A ix \in 1 .. Len(p) : Steps(p, f, j, e, ix)
Reaches(p, a, b, j, e) == \E f, S : Way(p, f, j, e) /\ f[0] = a /\ f[Len(p)] = b /\ p \in Seq(S)
Leads(p, a, b) == \A e : \A j \in Nat : Reaches(p, a, b, j, e)

LEMMA ReachesJoin ==
  ASSUME NEW p, NEW r, NEW a, NEW b, NEW e, Leads(r, b, e), Reaches(p, a, b, Len(r), e)
  PROVE  Leads(p \o r, a, e)
  <1> SUFFICES ASSUME NEW k \in Nat, NEW d PROVE Reaches(p \o r, a, e, k, d)
    BY DEF Leads
  <1>1. PICK g, T : Way(r, g, k, d) /\ g[0] = b /\ g[Len(r)] = e /\ r \in Seq(T)
    BY DEF Leads, Reaches
  <1>2. PICK f, S : Way(p, f, Len(r), e) /\ f[0] = a /\ f[Len(p)] = b /\ p \in Seq(S)
    BY DEF Reaches
  <1>3. PICK m, n : m = Len(p) /\ n = Len(r)
    OBVIOUS
  <1>4. PICK h : h = [ix \in 0 .. m + n |-> IF ix <= m THEN f[ix] ELSE g[ix - m]]
    OBVIOUS
  <1>5. m \in Nat /\ n \in Nat
    BY <1>1, <1>2, <1>3 DEF Way
  <1>6. PICK s : s = p \o r
    OBVIOUS
  <1>7. /\ Len(s) = m + n /\ DOMAIN s = 1 .. m + n
        /\ \A ix \in 1 .. m : s[ix] = p[ix]
        /\ \A ix \in 1 .. n : s[m + ix] = r[ix]
        /\ s \in Seq(S \cup T)
    <2>1. s \in Seq(S \cup T) /\ Len(s) = m + n
      BY <1>1, <1>2, <1>3, <1>6
    <2>2. /\ \A ix \in 1 .. m : s[ix] = p[ix]
          /\ \A ix \in 1 .. n : s[m + ix] = r[ix]
      BY <1>1, <1>2, <1>3, <1>6
    <2>3. DOMAIN s = 1 .. m + n
      BY <2>1
    <2> QED BY <2>1, <2>2, <2>3
  <1>8. /\ \A ix \in 0 .. m : h[ix] = f[ix]
        /\ \A ix \in 0 .. n : h[m + ix] = g[ix]
    <2>1. \A ix \in 0 .. m : h[ix] = f[ix]
      BY <1>4, <1>5
    <2>2. ASSUME NEW ix \in 0 .. n PROVE h[m + ix] = g[ix]
      <3>1. CASE ix = 0
        BY <1>1, <1>2, <1>3, <1>5, <2>1, <3>1
      <3>2. CASE ix # 0
        BY <1>4, <1>5, <3>2
      <3> QED BY <3>1, <3>2
    <2> QED BY <2>1, <2>2
  <1>9. h[m + n] = e /\ h[0] = a
    BY <1>1, <1>2, <1>3, <1>5, <1>8
  <1>10. ASSUME NEW ix \in 0 .. m + n PROVE SpotOK(h[ix])
    <2>1. CASE ix <= m
      BY <1>2, <1>3, <1>5, <1>8, <2>1 DEF Way
    <2>2. CASE ~(ix <= m)
      <3>1. PICK j : j = ix - m
        OBVIOUS
      <3>2. j \in 0 .. n /\ ix = m + j
        BY <1>5, <2>2, <3>1
      <3> QED BY <1>1, <1>3, <1>8, <3>2 DEF Way
    <2> QED BY <2>1, <2>2
  <1>11. ASSUME NEW ix \in 1 .. m PROVE Steps(s, h, k, d, ix)
    <2>1. PICK c : c = p[ix] /\ c = s[ix]
      BY <1>7
    <2>2. ix - 1 \in 0 .. m /\ ix \in 0 .. m /\ h[ix - 1] = f[ix - 1] /\ h[ix] = f[ix]
      BY <1>5, <1>8
    <2>3. /\ c.skip \in Nat
          /\ Gives(c, f[ix - 1], f[ix])
          /\ Fallible(c) /\ c.rc # 0 => Undoes(f[ix - 1], c.undo)
          /\ Fallible(c) /\ c.rc = 0 =>
                \/ ix + c.skip <= m /\ GoesOn(c, f[ix - 1], f[ix + c.skip])
                \/ ix + c.skip = m + n /\ GoesOn(c, f[ix - 1], e)
      BY <1>2, <1>3, <2>1 DEF Way, Steps
    <2>4. ASSUME Fallible(c), c.rc = 0
          PROVE  ix + c.skip <= m + n /\ GoesOn(c, f[ix - 1], h[ix + c.skip])
      <3>1. PICK k1 : k1 = ix + c.skip
        OBVIOUS
      <3>2. CASE k1 <= m /\ GoesOn(c, f[ix - 1], f[k1])
        <4>1. k1 \in 0 .. m /\ k1 <= m + n
          BY <1>5, <2>3, <3>1, <3>2
        <4> QED BY <1>8, <3>1, <3>2, <4>1
      <3>3. CASE k1 = m + n /\ GoesOn(c, f[ix - 1], e)
        BY <1>5, <1>9, <3>1, <3>3
      <3> QED BY <2>3, <2>4, <3>1, <3>2, <3>3
    <2> QED BY <1>7, <2>1, <2>2, <2>3, <2>4 DEF Steps
  <1>12. ASSUME NEW l \in m + 1 .. m + n PROVE Steps(s, h, k, d, l)
    <2>1. PICK ix \in 1 .. n : l = m + ix
      <3>1. l - m \in 1 .. n /\ l = m + (l - m)
        BY <1>5
      <3> QED BY <3>1
    <2>2. PICK c : c = r[ix] /\ c = s[l]
      BY <1>7, <2>1
    <2>3. ix - 1 \in 0 .. n /\ ix \in 0 .. n /\ h[l - 1] = g[ix - 1] /\ h[l] = g[ix]
      <3>1. l - 1 = m + (ix - 1) /\ ix - 1 \in 0 .. n /\ ix \in 0 .. n
        BY <1>5, <2>1
      <3> QED BY <1>8, <2>1, <3>1
    <2>4. /\ c.skip \in Nat
          /\ Gives(c, g[ix - 1], g[ix])
          /\ Fallible(c) /\ c.rc # 0 => Undoes(g[ix - 1], c.undo)
          /\ Fallible(c) /\ c.rc = 0 =>
                \/ ix + c.skip <= n /\ GoesOn(c, g[ix - 1], g[ix + c.skip])
                \/ ix + c.skip = n + k /\ GoesOn(c, g[ix - 1], d)
      BY <1>1, <1>3, <2>2 DEF Way, Steps
    <2>5. ASSUME Fallible(c), c.rc = 0
          PROVE  \/ l + c.skip <= m + n /\ GoesOn(c, g[ix - 1], h[l + c.skip])
                 \/ l + c.skip = m + n + k /\ GoesOn(c, g[ix - 1], d)
      <3>1. PICK k1 : k1 = ix + c.skip
        OBVIOUS
      <3>2. k1 \in Nat /\ l + c.skip = m + k1
        BY <1>5, <2>1, <2>4, <3>1
      <3>3. CASE k1 <= n /\ GoesOn(c, g[ix - 1], g[k1])
        <4>1. k1 \in 0 .. n /\ m + k1 <= m + n
          BY <1>5, <3>2, <3>3
        <4> QED BY <1>8, <3>2, <3>3, <4>1
      <3>4. CASE k1 = n + k /\ GoesOn(c, g[ix - 1], d)
        <4>1. m + k1 = m + n + k
          BY <1>5, <3>4
        <4> QED BY <3>2, <3>4, <4>1
      <3> QED BY <2>4, <2>5, <3>1, <3>3, <3>4
    <2> QED BY <1>7, <2>2, <2>3, <2>4, <2>5 DEF Steps
  <1>13. Way(s, h, k, d)
    <2>1. \A ix \in 1 .. m + n : Steps(s, h, k, d, ix)
      <3> SUFFICES ASSUME NEW ix \in 1 .. m + n PROVE Steps(s, h, k, d, ix)
        OBVIOUS
      <3>1. ix \in 1 .. m \/ ix \in m + 1 .. m + n
        BY <1>5
      <3> QED BY <1>11, <1>12, <3>1
    <2> QED BY <1>5, <1>7, <1>10, <2>1 DEF Way
  <1> QED BY <1>6, <1>7, <1>9, <1>13 DEF Reaches

LEMMA LeadsJoin ==
  ASSUME NEW p, NEW r, NEW a, NEW b, NEW e, Leads(p, a, b), Leads(r, b, e)
  PROVE  Leads(p \o r, a, e)
  <1>1. Len(r) \in Nat
    BY DEF Leads, Reaches, Way
  <1>2. Reaches(p, a, b, Len(r), e)
    BY <1>1 DEF Leads
  <1> QED BY <1>2, ReachesJoin

LEMMA LeadsNowhere == ASSUME NEW x, SpotOK(x) PROVE Leads(<<>>, x, x)
  <1> SUFFICES ASSUME NEW e, NEW j \in Nat PROVE Reaches(<<>>, x, x, j, e)
    BY DEF Leads
  <1>1. PICK p : p = <<>>
    OBVIOUS
  <1>2. PICK f : f = [n \in {0} |-> x]
    OBVIOUS
  <1>3. p \in Seq({}) /\ Len(p) = 0 /\ DOMAIN p = 1 .. 0
    BY <1>1
  <1>4. Way(p, f, j, e) /\ f[0] = x
    BY <1>2, <1>3 DEF Way
  <1> QED BY <1>1, <1>3, <1>4 DEF Reaches

\* One call, which goes on j calls behind the next when it fails.
LEMMA OneCall ==
  ASSUME NEW c, NEW x, NEW y, NEW e, NEW j \in Nat, SpotOK(x), SpotOK(y), c.skip \in Nat,
         Gives(c, x, y),
         Fallible(c) /\ c.rc # 0 => Undoes(x, c.undo),
         Fallible(c) /\ c.rc = 0 => \/ c.skip = 0 /\ GoesOn(c, x, y)
                                    \/ c.skip = j /\ GoesOn(c, x, e)
  PROVE  Reaches(<<c>>, x, y, j, e)
  <1>1. PICK p : p = <<c>>
    OBVIOUS
  <1>2. PICK f : f = [n \in 0 .. 1 |-> IF n = 0 THEN x ELSE y]
    OBVIOUS
  <1>3. p \in Seq({c}) /\ Len(p) = 1 /\ DOMAIN p = 1 .. 1 /\ p[1] = c
    BY <1>1
  <1>4. f[0] = x /\ f[1] = y
    BY <1>2
  <1>5. Steps(p, f, j, e, 1)
    BY <1>3, <1>4 DEF Steps
  <1>6. \A n \in 0 .. 1 : SpotOK(f[n])
    BY <1>4
  <1>7. Way(p, f, j, e)
    BY <1>3, <1>5, <1>6 DEF Way
  <1> QED BY <1>1, <1>3, <1>4, <1>7 DEF Reaches

LEMMA LeadsOne ==
  ASSUME NEW c, NEW x, NEW y, SpotOK(x), SpotOK(y), c.skip \in Nat, Gives(c, x, y),
         Fallible(c) /\ c.rc # 0 => Undoes(x, c.undo),
         Fallible(c) /\ c.rc = 0 => c.skip = 0 /\ GoesOn(c, x, y)
  PROVE  Leads(<<c>>, x, y)
  BY OneCall DEF Leads

\* The kinds of calls.
LEMMA OneMust ==
  ASSUME NEW name, NEW g, NEW u, NEW m, NEW n, NEW y, NEW z, NEW k, n = m \cup g,
         SpotOK(Spot(m, y, z)), SpotOK(Spot(n, y, k)), k = z \/ (name \in Initialize /\ k = TRUE),
         name \in Unchecked \/ Undoes(Spot(m, y, z), u)
  PROVE  Leads(<<Must(name, g, u)>>, Spot(m, y, z), Spot(n, y, k))
  <1>1. PICK c : c = Must(name, g, u)
    OBVIOUS
  <1>2. /\ c.name = name /\ c.gives = g /\ c.drops = {} /\ c.undo = u /\ c.rc = 1 /\ c.skip = 0
    BY <1>1 DEF Must, Call
  <1>3. Gives(c, Spot(m, y, z), Spot(n, y, k))
    BY <1>2 DEF Gives, Spot
  <1>4. Fallible(c) => Undoes(Spot(m, y, z), u)
    BY <1>2 DEF Fallible
  <1> QED BY <1>1, <1>2, <1>3, <1>4, LeadsOne

LEMMA OneRefuse ==
  ASSUME NEW name, NEW u, NEW x, SpotOK(x), Undoes(x, u)
  PROVE  Leads(<<Refuse(name, u)>>, x, x)
  <1>1. PICK c : c = Refuse(name, u)
    OBVIOUS
  <1>2. /\ c.name = name /\ c.gives = {} /\ c.drops = {} /\ c.undo = u /\ c.rc = 2 /\ c.skip = 0
    BY <1>1 DEF Refuse, Call
  <1>3. Gives(c, x, x)
    BY <1>2 DEF Gives
  <1> QED BY <1>1, <1>2, <1>3, LeadsOne

LEMMA NothingToUndo ==
  ASSUME NEW x PROVE Unwinds(x, <<>>) /\ <<>> \in Seq(Things) /\ Ranged(<<>>) = {}
  BY DEF Unwinds, Ranged

LEMMA OneTry ==
  ASSUME NEW name, NEW g, NEW m, NEW y, NEW n, NEW z, n = y \cup g,
         SpotOK(Spot(m, y, z)), SpotOK(Spot(m, n, z))
  PROVE  Leads(<<Try(name, g)>>, Spot(m, y, z), Spot(m, n, z))
  <1>1. PICK c : c = Try(name, g)
    OBVIOUS
  <1>2. /\ c.name = name /\ c.gives = g /\ c.drops = {} /\ c.undo = <<>> /\ c.rc = 0 /\ c.skip = 0
    BY <1>1 DEF Try, Call
  <1>3. Gives(c, Spot(m, y, z), Spot(m, n, z))
    BY <1>2 DEF Gives, Spot
  <1>4. GoesOn(c, Spot(m, y, z), Spot(m, n, z))
    BY <1>2, NothingToUndo DEF GoesOn, Spot
  <1> QED BY <1>1, <1>2, <1>3, <1>4, LeadsOne

LEMMA OneDrop ==
  ASSUME NEW what, NEW m, NEW y, NEW n, NEW z, n = m \ what, what \cap OnDevice = {},
         SpotOK(Spot(m, y, z)), SpotOK(Spot(n, y, z))
  PROVE  Leads(<<Drop(what)>>, Spot(m, y, z), Spot(n, y, z))
  <1>1. PICK c : c = Drop(what)
    OBVIOUS
  <1>2. /\ c.name = "close" /\ c.gives = {} /\ c.drops = what /\ c.skip = 0
    BY <1>1 DEF Drop, Call
  <1>3. Gives(c, Spot(m, y, z), Spot(n, y, z))
    BY <1>2 DEF Gives, Spot
  <1>4. ~Fallible(c)
    BY <1>2 DEF Fallible
  <1> QED BY <1>1, <1>2, <1>3, <1>4, LeadsOne

LEMMA PrependIs ==
  ASSUME NEW S, NEW r \in S, NEW u \in Seq(S)
  PROVE  /\ <<r>> \o u \in Seq(S) /\ Len(<<r>> \o u) = Len(u) + 1 /\ (<<r>> \o u)[1] = r
         /\ \A n \in 1 .. Len(u) : (<<r>> \o u)[n + 1] = u[n]
  OBVIOUS

\* A list may begin with r when nothing else that is there looks at it.
LEMMA UndoFirst ==
  ASSUME NEW r \in Things, NEW u, NEW m, NEW y, NEW z, NEW n, NEW k,
         r \in m \cup y, n = m \ {r}, k = y \ {r}, \A s \in m : r \notin Uses(s),
         Undoes(Spot(n, k, z), u)
  PROVE  Undoes(Spot(m, y, z), <<r>> \o u)
  <1>1. PICK v : v = <<r>> \o u
    OBVIOUS
  <1>2. u \in Seq(Things) /\ Len(u) \in Nat /\ DOMAIN u = 1 .. Len(u)
    BY DEF Undoes
  <1>3. /\ \A a, b \in DOMAIN u : u[a] = u[b] => a = b
        /\ \A a \in DOMAIN u : u[a] \in n \cup k
        /\ \A a \in DOMAIN u : \A s \in n : u[a] \in Uses(s) => \E b \in 1 .. a - 1 : u[b] = s
        /\ (n \cup k) \ Ranged(u) \subseteq IF z THEN OnDevice ELSE {}
    BY DEF Undoes, Unwinds, Spot
  <1>4. /\ v \in Seq(Things) /\ Len(v) = Len(u) + 1 /\ v[1] = r
        /\ \A a \in 1 .. Len(u) : v[a + 1] = u[a]
        /\ \A a \in 1 .. Len(v) : a # 1 => a - 1 \in 1 .. Len(u) /\ v[a] = u[a - 1]
    <2>1. /\ v \in Seq(Things) /\ Len(v) = Len(u) + 1 /\ v[1] = r
          /\ \A a \in 1 .. Len(u) : v[a + 1] = u[a]
      BY <1>1, <1>2, PrependIs
    <2>2. ASSUME NEW a \in 1 .. Len(v), a # 1 PROVE a - 1 \in 1 .. Len(u) /\ v[a] = u[a - 1]
      <3>1. a - 1 \in 1 .. Len(u) /\ (a - 1) + 1 = a
        BY <1>2, <2>1, <2>2
      <3> QED BY <2>1, <3>1
    <2> QED BY <2>1, <2>2
  <1>5. DOMAIN v = 1 .. Len(v) /\ Len(v) \in Nat
    BY <1>2, <1>4
  <1>6. ASSUME NEW a \in DOMAIN v, a # 1 PROVE v[a] \in n \cup k
    <2>1. a - 1 \in DOMAIN u /\ v[a] = u[a - 1]
      BY <1>2, <1>4, <1>5, <1>6
    <2> QED BY <1>3, <2>1
  <1>7. r \notin n \cup k
    OBVIOUS
  <1>8. ASSUME NEW a \in DOMAIN v, NEW b \in DOMAIN v, v[a] = v[b] PROVE a = b
    <2>1. CASE a = 1 \/ b = 1
      BY <1>4, <1>6, <1>7, <1>8, <2>1
    <2>2. CASE a # 1 /\ b # 1
      <3>1. a - 1 \in DOMAIN u /\ b - 1 \in DOMAIN u /\ u[a - 1] = u[b - 1]
        BY <1>2, <1>4, <1>5, <1>8, <2>2
      <3>2. a - 1 = b - 1
        BY <1>3, <3>1
      <3> QED BY <1>5, <3>2
    <2> QED BY <2>1, <2>2
  <1>9. \A a \in DOMAIN v : v[a] \in m \cup y
    BY <1>4, <1>6
  <1>10. ASSUME NEW a \in DOMAIN v, NEW s \in m, v[a] \in Uses(s)
         PROVE  \E b \in 1 .. a - 1 : v[b] = s
    <2>1. a # 1
      BY <1>4, <1>10
    <2>2. a - 1 \in DOMAIN u /\ v[a] = u[a - 1] /\ 1 \in 1 .. a - 1
      BY <1>2, <1>4, <1>5, <2>1
    <2>3. CASE s = r
      BY <1>4, <2>2, <2>3
    <2>4. CASE s # r
      <3>1. PICK b \in 1 .. (a - 1) - 1 : u[b] = s
        BY <1>3, <1>10, <2>2, <2>4
      <3>2. b + 1 \in 1 .. a - 1 /\ b \in 1 .. Len(u)
        BY <1>2, <1>5, <2>2, <3>1
      <3> QED BY <1>4, <3>1, <3>2
    <2> QED BY <2>3, <2>4
  <1>11. Unwinds(Spot(m, y, z), v)
    BY <1>5, <1>8, <1>9, <1>10 DEF Unwinds, Spot
  <1>12. Ranged(u) \cup {r} \subseteq Ranged(v)
    <2>1. r \in Ranged(v)
      BY <1>2, <1>4, <1>5 DEF Ranged
    <2>2. ASSUME NEW a \in DOMAIN u PROVE u[a] \in Ranged(v)
      <3>1. a + 1 \in DOMAIN v /\ v[a + 1] = u[a]
        BY <1>2, <1>4, <1>5
      <3> QED BY <3>1 DEF Ranged
    <2> QED BY <2>1, <2>2 DEF Ranged
  <1>13. (m \cup y) \ Ranged(v) \subseteq IF z THEN OnDevice ELSE {}
    BY <1>3, <1>12
  <1> QED BY <1>1, <1>4, <1>11, <1>13 DEF Undoes, Spot

LEMMA UndoMust ==
  ASSUME NEW r \in Things, NEW u, NEW m, NEW z, NEW n, m = n \cup {r}, r \notin n,
         \A s \in m : r \notin Uses(s), Undoes(Spot(n, {}, z), u)
  PROVE  Undoes(Spot(m, {}, z), <<r>> \o u)
  <1>1. {} = {} \ {r} /\ n = m \ {r} /\ r \in m \cup {}
    OBVIOUS
  <1> QED BY <1>1, UndoFirst

LEMMA UndoNothing ==
  ASSUME NEW m, NEW y, NEW z, m \cup y \subseteq IF z THEN OnDevice ELSE {}
  PROVE  Undoes(Spot(m, y, z), <<>>)
  BY NothingToUndo DEF Undoes, Spot

\* A list of two that is written out.
LEMMA Written == ASSUME NEW a, NEW b PROVE <<a, b>> = <<a>> \o <<b>>
  <1>1. PICK s : s = <<a>> \o <<b>>
    OBVIOUS
  <1>2. <<a>> \in Seq({a, b}) /\ <<b>> \in Seq({a, b})
    OBVIOUS
  <1>3. s \in Seq({a, b}) /\ Len(s) = 2 /\ s[1] = a /\ s[2] = b
    BY <1>1, <1>2
  <1>4. s = <<s[1], s[2]>>
    BY <1>3
  <1> QED BY <1>1, <1>3, <1>4

LEMMA Joined ==
  ASSUME NEW S, NEW u \in Seq(S), NEW v \in Seq(S), NEW s \in Seq(S)
  PROVE  (u \o v) \o s = u \o (v \o s)
  OBVIOUS

-----------------------------------------------------------------------------
(* The lists of the commands.                                              *)

LEMMA UsesIs ==
  /\ Uses("context") = {"file"} /\ Uses("plan") = {"file"} /\ Uses("weights") = {"context"}
  /\ Uses("rt") = {"weights"} /\ Uses("lrt") = {"weights"} /\ Uses("results") = {"request"}
  /\ \A r : r \notin {"context", "plan", "weights", "rt", "lrt", "results"} => Uses(r) = {}
  BY DEF Uses

HasFile    == {"file"}
HasContext == HasFile \cup {"context"}
HasWeights == HasContext \cup {"weights"}
HasTokens  == HasWeights \cup {"tokens"}
HasRuntime == HasTokens \cup {"rt"}
HasCache   == HasRuntime \cup {"kv"}
HasHidden  == HasCache \cup {"hidden"}
HasOutputs == HasHidden \cup {"logits"}

LEMMA SpotsAreOK ==
  ASSUME NEW z
  PROVE  /\ SpotOK(Spot({}, {}, z)) /\ SpotOK(Spot(HasFile, {}, z)) /\ SpotOK(Spot(HasContext, {}, z))
         /\ SpotOK(Spot(HasWeights, {}, z)) /\ SpotOK(Spot(HasTokens, {}, z))
         /\ SpotOK(Spot(HasRuntime, {}, z)) /\ SpotOK(Spot(HasCache, {}, z))
         /\ SpotOK(Spot(HasHidden, {}, z)) /\ SpotOK(Spot(HasOutputs, {}, z))
  BY UsesIs DEF SpotOK, Spot, HasFile, HasContext, HasWeights, HasTokens, HasRuntime, HasCache,
                HasHidden, HasOutputs

LEMMA FileUndone == ASSUME NEW z PROVE Undoes(Spot(HasFile, {}, z), File)
  <1>1. Undoes(Spot({}, {}, z), <<>>)
    BY UndoNothing
  <1>2. \A s \in HasFile : "file" \notin Uses(s)
    BY UsesIs DEF HasFile
  <1>3. HasFile = {} \cup {"file"} /\ "file" \in Things
    BY DEF HasFile, Things
  <1>5. Undoes(Spot(HasFile, {}, z), <<"file">> \o <<>>)
    BY <1>1, <1>2, <1>3, UndoMust
  <1>4. <<"file">> \o <<>> = File
    BY DEF File
  <1> QED BY <1>4, <1>5

LEMMA ContextUndone == ASSUME NEW z PROVE Undoes(Spot(HasContext, {}, z), Context)
  <1>1. \A s \in HasContext : "context" \notin Uses(s)
    BY UsesIs DEF HasContext, HasFile
  <1>2. HasContext = HasFile \cup {"context"} /\ "context" \notin HasFile /\ "context" \in Things
    BY DEF HasContext, HasFile, Things
  <1>3. Undoes(Spot(HasContext, {}, z), <<"context">> \o File)
    BY <1>1, <1>2, FileUndone, UndoMust
  <1>4. <<"context">> \o File = Context
    BY Written DEF File, Context
  <1> QED BY <1>3, <1>4

LEMMA WeightsUndone == ASSUME NEW z PROVE Undoes(Spot(HasWeights, {}, z), Weights)
  <1>1. \A s \in HasWeights : "weights" \notin Uses(s)
    BY UsesIs DEF HasContext, HasFile, HasWeights
  <1>2. HasWeights = HasContext \cup {"weights"} /\ "weights" \notin HasContext /\ "weights" \in Things
    BY DEF HasContext, HasFile, HasWeights, Things
  <1> QED BY <1>1, <1>2, ContextUndone, UndoMust DEF Weights

LEMMA TokensUndone == ASSUME NEW z PROVE Undoes(Spot(HasTokens, {}, z), Tokens)
  <1>1. \A s \in HasTokens : "tokens" \notin Uses(s)
    BY UsesIs DEF HasContext, HasFile, HasWeights, HasTokens
  <1>2. HasTokens = HasWeights \cup {"tokens"} /\ "tokens" \notin HasWeights /\ "tokens" \in Things
    BY DEF HasContext, HasFile, HasWeights, HasTokens, Things
  <1> QED BY <1>1, <1>2, WeightsUndone, UndoMust DEF Tokens

LEMMA RuntimeUndone == ASSUME NEW z PROVE Undoes(Spot(HasRuntime, {}, z), <<"rt">> \o Tokens)
  <1>1. \A s \in HasRuntime : "rt" \notin Uses(s)
    BY UsesIs DEF HasContext, HasFile, HasWeights, HasTokens, HasRuntime
  <1>2. HasRuntime = HasTokens \cup {"rt"} /\ "rt" \notin HasTokens /\ "rt" \in Things
    BY DEF HasContext, HasFile, HasWeights, HasTokens, HasRuntime, Things
  <1> QED BY <1>1, <1>2, TokensUndone, UndoMust

-----------------------------------------------------------------------------
(* The scan of the layers.                                                 *)

HasRuntimes == HasOutputs \cup {"lrt"}
HasScan     == HasRuntimes \cup {"lkv"}

LEMMA ScanIsOK ==
  /\ SpotOK(Spot(HasRuntimes, {}, TRUE)) /\ SpotOK(Spot(HasScan, {}, TRUE))
  BY UsesIs DEF SpotOK, Spot, HasFile, HasContext, HasWeights, HasTokens, HasRuntime, HasCache,
                HasHidden, HasOutputs, HasRuntimes, HasScan

LEMMA ScanUnwinds ==
  /\ Unwinds(Spot(HasRuntimes, {}, TRUE), <<"lrt">>) /\ Ranged(<<"lrt">>) = {"lrt"}
  /\ Unwinds(Spot(HasScan, {}, TRUE), <<"lkv", "lrt">>) /\ Ranged(<<"lkv", "lrt">>) = {"lkv", "lrt"}
  /\ <<"lrt">> \in Seq(Things) /\ <<"lkv", "lrt">> \in Seq(Things)
  <1>1. /\ "lrt" \in HasRuntimes /\ \A s \in HasRuntimes : "lrt" \notin Uses(s)
        /\ "lkv" \in HasScan /\ "lrt" \in HasScan
        /\ \A s \in HasScan : "lrt" \notin Uses(s) /\ "lkv" \notin Uses(s)
    BY UsesIs DEF HasFile, HasContext, HasWeights, HasTokens, HasRuntime, HasCache,
                  HasHidden, HasOutputs, HasRuntimes, HasScan
  <1>2. PICK u : u = <<"lrt">>
    OBVIOUS
  <1>3. DOMAIN u = 1 .. 1 /\ Len(u) = 1 /\ u[1] = "lrt"
    BY <1>2
  <1>4. Unwinds(Spot(HasRuntimes, {}, TRUE), u) /\ Ranged(u) = {"lrt"}
    BY <1>1, <1>3 DEF Unwinds, Spot, Ranged
  <1>5. PICK v : v = <<"lkv", "lrt">>
    OBVIOUS
  <1>6. DOMAIN v = 1 .. 2 /\ Len(v) = 2 /\ v[1] = "lkv" /\ v[2] = "lrt"
    BY <1>5
  <1>7. \A n \in DOMAIN v : v[n] \in HasScan
    BY <1>1, <1>6
  <1>8. \A a, b \in DOMAIN v : v[a] = v[b] => a = b
    BY <1>6
  <1>9. \A n \in DOMAIN v : \A s \in HasScan : v[n] \notin Uses(s)
    BY <1>1, <1>6
  <1>10. Unwinds(Spot(HasScan, {}, TRUE), v)
    BY <1>6, <1>7, <1>8, <1>9 DEF Unwinds, Spot
  <1>11. Ranged(v) = {"lkv", "lrt"}
    BY <1>6 DEF Ranged
  <1>12. "lrt" \in Things /\ "lkv" \in Things
    BY DEF Things
  <1>13. <<"lrt">> \in Seq(Things) /\ <<"lkv", "lrt">> \in Seq(Things)
    BY <1>12
  <1> QED BY <1>2, <1>4, <1>5, <1>10, <1>11, <1>13

LEMMA LayerReaches ==
  ASSUME NEW more \in Nat
  PROVE  LET x == Spot(HasOutputs, {}, TRUE)
         IN Reaches(DiagnoseLayer(more), x, x, more, x) /\ Len(DiagnoseLayer(more)) = 6
  <1>1. PICK p : p = DiagnoseLayer(more)
    OBVIOUS
  <1>2. PICK x, y, z : x = Spot(HasOutputs, {}, TRUE) /\ y = Spot(HasRuntimes, {}, TRUE)
                       /\ z = Spot(HasScan, {}, TRUE)
    OBVIOUS
  <1>3. PICK f : f = [n \in 0 .. 6 |-> IF n \in {0, 6} THEN x ELSE IF n = 1 THEN y ELSE z]
    OBVIOUS
  <1>4. f[0] = x /\ f[1] = y /\ f[2] = z /\ f[3] = z /\ f[4] = z /\ f[5] = z /\ f[6] = x
    BY <1>3
  <1>5. PICK c1, c2, c3, c4, c5, c6 :
          /\ c1 = Break("create", {"lrt"}, <<>>, more + 5)
          /\ c2 = Break("kv", {"lkv"}, <<"lrt">>, more + 4)
          /\ c3 = Break("run range", {}, <<"lkv", "lrt">>, more + 3)
          /\ c4 = Must("host_h", {}, <<>>)
          /\ c5 = Break("nan", {}, <<"lkv", "lrt">>, more + 1)
          /\ c6 = Drop({"lkv", "lrt"})
    OBVIOUS
  <1>6. p = <<c1, c2, c3, c4, c5, c6>>
    BY <1>1, <1>5 DEF DiagnoseLayer
  <1>7. /\ p \in Seq({c1, c2, c3, c4, c5, c6}) /\ Len(p) = 6 /\ DOMAIN p = 1 .. 6
        /\ p[1] = c1 /\ p[2] = c2 /\ p[3] = c3 /\ p[4] = c4 /\ p[5] = c5 /\ p[6] = c6
    BY <1>6
  <1>8. /\ SpotOK(x) /\ SpotOK(y) /\ SpotOK(z)
    BY <1>2, SpotsAreOK, ScanIsOK
  <1>9. /\ x.must = HasOutputs /\ x.may = {} /\ x.init = TRUE
        /\ y.must = HasRuntimes /\ y.may = {} /\ y.init = TRUE
        /\ z.must = HasScan /\ z.may = {} /\ z.init = TRUE
    BY <1>2 DEF Spot
  <1>10. /\ HasRuntimes \ {"lrt"} = HasOutputs /\ HasScan \ {"lkv", "lrt"} = HasOutputs
         /\ "lrt" \notin OnDevice /\ "lkv" \notin OnDevice
    BY DEF HasFile, HasContext, HasWeights, HasTokens, HasRuntime, HasCache,
           HasHidden, HasOutputs, HasRuntimes, HasScan, OnDevice
  <1>11. /\ Unwinds(x, <<>>) /\ <<>> \in Seq(Things) /\ Ranged(<<>>) = {}
    BY NothingToUndo
  <1>12. /\ Unwinds(y, <<"lrt">>) /\ Ranged(<<"lrt">>) = {"lrt"}
         /\ Unwinds(z, <<"lkv", "lrt">>) /\ Ranged(<<"lkv", "lrt">>) = {"lkv", "lrt"}
         /\ <<"lrt">> \in Seq(Things) /\ <<"lkv", "lrt">> \in Seq(Things)
    BY <1>2, ScanUnwinds
  <1>13. Steps(p, f, more, x, 1)
    <2>1. /\ c1.gives = {"lrt"} /\ c1.drops = {} /\ c1.undo = <<>> /\ c1.rc = 0 /\ c1.skip = more + 5
      BY <1>5 DEF Break, Call
    <2>2. Gives(c1, x, y)
      BY <1>9, <2>1 DEF Gives, HasRuntimes
    <2>3. GoesOn(c1, x, x)
      BY <1>9, <1>11, <2>1 DEF GoesOn
    <2>4. c1.skip \in Nat /\ 1 + c1.skip = 6 + more
      BY <2>1
    <2> QED BY <1>4, <1>7, <2>1, <2>2, <2>3, <2>4 DEF Steps
  <1>14. Steps(p, f, more, x, 2)
    <2>1. /\ c2.gives = {"lkv"} /\ c2.drops = {} /\ c2.undo = <<"lrt">> /\ c2.rc = 0 /\ c2.skip = more + 4
      BY <1>5 DEF Break, Call
    <2>2. Gives(c2, y, z)
      BY <1>9, <2>1 DEF Gives, HasScan
    <2>3. GoesOn(c2, y, x)
      BY <1>9, <1>10, <1>12, <2>1 DEF GoesOn
    <2>4. c2.skip \in Nat /\ 2 + c2.skip = 6 + more
      BY <2>1
    <2> QED BY <1>4, <1>7, <2>1, <2>2, <2>3, <2>4 DEF Steps
  <1>15. Steps(p, f, more, x, 3)
    <2>1. /\ c3.gives = {} /\ c3.drops = {} /\ c3.undo = <<"lkv", "lrt">> /\ c3.rc = 0
          /\ c3.skip = more + 3
      BY <1>5 DEF Break, Call
    <2>2. Gives(c3, z, z)
      BY <2>1 DEF Gives
    <2>3. GoesOn(c3, z, x)
      BY <1>9, <1>10, <1>12, <2>1 DEF GoesOn
    <2>4. c3.skip \in Nat /\ 3 + c3.skip = 6 + more
      BY <2>1
    <2> QED BY <1>4, <1>7, <2>1, <2>2, <2>3, <2>4 DEF Steps
  <1>16. Steps(p, f, more, x, 4)
    <2>1. /\ c4.gives = {} /\ c4.drops = {} /\ c4.skip = 0 /\ c4.name = "host_h"
      BY <1>5 DEF Must, Call
    <2>2. Gives(c4, z, z)
      BY <2>1 DEF Gives
    <2>3. ~Fallible(c4)
      BY <2>1 DEF Fallible, Unchecked
    <2> QED BY <1>4, <1>7, <2>1, <2>2, <2>3 DEF Steps
  <1>17. Steps(p, f, more, x, 5)
    <2>1. /\ c5.gives = {} /\ c5.drops = {} /\ c5.undo = <<"lkv", "lrt">> /\ c5.rc = 0
          /\ c5.skip = more + 1
      BY <1>5 DEF Break, Call
    <2>2. Gives(c5, z, z)
      BY <2>1 DEF Gives
    <2>3. GoesOn(c5, z, x)
      BY <1>9, <1>10, <1>12, <2>1 DEF GoesOn
    <2>4. c5.skip \in Nat /\ 5 + c5.skip = 6 + more
      BY <2>1
    <2> QED BY <1>4, <1>7, <2>1, <2>2, <2>3, <2>4 DEF Steps
  <1>18. Steps(p, f, more, x, 6)
    <2>1. /\ c6.gives = {} /\ c6.drops = {"lkv", "lrt"} /\ c6.skip = 0 /\ c6.name = "close"
      BY <1>5 DEF Drop, Call
    <2>2. Gives(c6, z, x)
      BY <1>9, <1>10, <2>1 DEF Gives
    <2>3. ~Fallible(c6)
      BY <2>1 DEF Fallible
    <2> QED BY <1>4, <1>7, <2>1, <2>2, <2>3 DEF Steps
  <1>19. \A n \in 1 .. 6 : Steps(p, f, more, x, n)
    BY <1>13, <1>14, <1>15, <1>16, <1>17, <1>18
  <1>20. \A n \in 0 .. 6 : SpotOK(f[n])
    BY <1>4, <1>8
  <1>21. Way(p, f, more, x)
    BY <1>7, <1>19, <1>20 DEF Way
  <1> QED BY <1>1, <1>2, <1>4, <1>7, <1>21 DEF Reaches

\* The recursive function exists.
LayersTo(g, k) ==
    g = [n \in 0 .. k |-> IF n = 0 THEN <<>> ELSE DiagnoseLayer(6 * (n - 1)) \o g[n - 1]]

LEMMA LayersExist == ASSUME NEW k \in Nat PROVE \E g : LayersTo(g, k)
  <1> DEFINE Bad == {n \in Nat : ~\E g : LayersTo(g, n)}
  <1>1. SUFFICES ASSUME Bad # {} PROVE FALSE
    OBVIOUS
  <1>2. PICK n : n \in Bad /\ \A m \in Bad : n <= m
    <2>1. Bad \subseteq Nat
      OBVIOUS
    <2> HIDE DEF Bad
    <2> QED BY <1>1, <2>1, LeastExists
  <1>3. n \in Nat /\ ~\E g : LayersTo(g, n)
    BY <1>2
  <1>4. CASE n = 0
    <2> DEFINE h == [m \in 0 .. 0 |-> <<>>]
    <2>1. h = [m \in 0 .. 0 |-> IF m = 0 THEN <<>> ELSE DiagnoseLayer(6 * (m - 1)) \o h[m - 1]]
      OBVIOUS
    <2> HIDE DEF h
    <2> QED BY <1>3, <1>4, <2>1 DEF LayersTo
  <1>5. CASE n # 0
    <2>1. n - 1 \in Nat /\ n - 1 \notin Bad
      <3>1. n - 1 \in Nat /\ ~(n <= n - 1)
        BY <1>3, <1>5
      <3> HIDE DEF Bad
      <3> QED BY <1>2, <3>1
    <2>2. PICK g : LayersTo(g, n - 1)
      <3>1. ~~\E g : LayersTo(g, n - 1)
        BY <2>1, Zenon
      <3> QED BY <3>1
    <2> DEFINE h == [m \in 0 .. n |-> IF m \in 0 .. n - 1 THEN g[m]
                                      ELSE DiagnoseLayer(6 * (n - 1)) \o g[n - 1]]
    <2>3. \A m \in 0 .. n - 1 : g[m] = IF m = 0 THEN <<>> ELSE DiagnoseLayer(6 * (m - 1)) \o g[m - 1]
      BY <2>2 DEF LayersTo
    <2>4. ASSUME NEW m \in 0 .. n
          PROVE  h[m] = IF m = 0 THEN <<>> ELSE DiagnoseLayer(6 * (m - 1)) \o h[m - 1]
      <3>1. CASE m = 0
        <4>1. 0 \in 0 .. n - 1
          BY <1>3, <1>5
        <4> QED BY <2>3, <3>1, <4>1
      <3>2. CASE m # 0
        <4>1. m - 1 \in 0 .. n - 1 /\ m - 1 \in 0 .. n
          BY <1>3, <3>2
        <4>2. h[m - 1] = g[m - 1]
          BY <4>1
        <4>3. CASE m = n
          <5>1. m \notin 0 .. n - 1
            BY <1>3, <4>3
          <5> QED BY <3>2, <4>2, <4>3, <5>1
        <4>4. CASE m # n
          <5>1. m \in 0 .. n - 1
            BY <1>3, <4>4
          <5> QED BY <2>3, <3>2, <4>2, <5>1
        <4> QED BY <4>3, <4>4
      <3> QED BY <3>1, <3>2
    <2>5. h = [m \in 0 .. n |-> IF m = 0 THEN <<>> ELSE DiagnoseLayer(6 * (m - 1)) \o h[m - 1]]
      <3>1. h = [m \in 0 .. n |-> h[m]]
        BY Zenon
      <3> HIDE DEF h
      <3> QED BY <2>4, <3>1
    <2> HIDE DEF h
    <2> QED BY <1>3, <2>5 DEF LayersTo
  <1> QED BY <1>4, <1>5

LEMMA LayersAre == LayersTo(DiagnoseLayers, Layers) /\ Layers \in Nat
  <1>1. Layers \in Nat
    BY CommandLineAssumption
  <1>2. \E g : g = [n \in 0 .. Layers |-> IF n = 0 THEN <<>> ELSE DiagnoseLayer(6 * (n - 1)) \o g[n - 1]]
    BY <1>1, LayersExist DEF LayersTo
  <1>3. DiagnoseLayers =
          [n \in 0 .. Layers |-> IF n = 0 THEN <<>> ELSE DiagnoseLayer(6 * (n - 1)) \o DiagnoseLayers[n - 1]]
    BY <1>2, Zenon DEF DiagnoseLayers
  <1> QED BY <1>1, <1>3 DEF LayersTo

\* A failure in any layer goes on behind the last one.
LEMMA LayersLead ==
  LET x == Spot(HasOutputs, {}, TRUE) IN Leads(DiagnoseLayers[Layers], x, x)
  <1>1. PICK x : x = Spot(HasOutputs, {}, TRUE)
    OBVIOUS
  <1> DEFINE Good(n) == Leads(DiagnoseLayers[n], x, x) /\ Len(DiagnoseLayers[n]) = 6 * n
             Bad == {n \in 0 .. Layers : ~Good(n)}
  <1>2. Layers \in Nat
    BY LayersAre
  <1>3. \A n \in 0 .. Layers : DiagnoseLayers[n] =
                IF n = 0 THEN <<>> ELSE DiagnoseLayer(6 * (n - 1)) \o DiagnoseLayers[n - 1]
    BY LayersAre DEF LayersTo
  <1>4. SUFFICES ASSUME Bad # {} PROVE FALSE
    <2>1. Layers \in 0 .. Layers
      BY <1>2
    <2> QED BY <1>1, <2>1
  <1>5. PICK n : n \in Bad /\ \A m \in Bad : n <= m
    <2>1. Bad \subseteq Nat
      BY <1>2
    <2> HIDE DEF Bad
    <2> QED BY <1>4, <2>1, LeastExists
  <1>6. n \in 0 .. Layers /\ ~Good(n)
    BY <1>5
  <1>7. CASE n = 0
    <2>1. DiagnoseLayers[n] = <<>>
      BY <1>3, <1>6, <1>7
    <2>2. Leads(<<>>, x, x)
      BY <1>1, SpotsAreOK, LeadsNowhere
    <2> QED BY <1>6, <1>7, <2>1, <2>2
  <1>8. CASE n # 0
    <2>1. PICK m : m = n - 1
      OBVIOUS
    <2>2. m \in 0 .. Layers /\ ~(n <= m) /\ m \in Nat /\ 6 * m \in Nat /\ n = m + 1
      BY <1>2, <1>6, <1>8, <2>1
    <2>3. Good(m)
      <3>1. m \notin Bad
        <4> HIDE DEF Bad
        <4> QED BY <1>5, <2>2
      <3> QED BY <2>2, <3>1
    <2>4. PICK d : d = DiagnoseLayer(6 * m)
      OBVIOUS
    <2>5. Reaches(d, x, x, 6 * m, x) /\ Len(d) = 6
      BY <1>1, <2>2, <2>4, LayerReaches
    <2>6. PICK r : r = DiagnoseLayers[m]
      OBVIOUS
    <2>7. Leads(r, x, x) /\ Len(r) = 6 * m
      BY <2>3, <2>6
    <2>8. Leads(d \o r, x, x)
      BY <2>5, <2>7, ReachesJoin
    <2>9. DiagnoseLayers[n] = d \o r
      BY <1>3, <1>6, <1>8, <2>1, <2>4, <2>6
    <2>10. Len(d \o r) = 6 * n
      <3>1. PICK S : d \in Seq(S)
        BY <2>5 DEF Reaches
      <3>2. PICK T : r \in Seq(T)
        BY <2>2, <2>7 DEF Leads, Reaches
      <3>3. Len(d \o r) = Len(d) + Len(r)
        BY <3>1, <3>2
      <3> QED BY <2>2, <2>5, <2>7, <3>3
    <2> QED BY <1>6, <2>8, <2>9, <2>10
  <1> QED BY <1>7, <1>8

-----------------------------------------------------------------------------
(* Lists of calls.                                                         *)

LEMMA LeadsTwo ==
  ASSUME NEW a, NEW b, NEW x, NEW y, NEW z, Leads(<<a>>, x, y), Leads(<<b>>, y, z)
  PROVE  Leads(<<a, b>>, x, z)
  <1>1. Leads(<<a>> \o <<b>>, x, z)
    BY LeadsJoin
  <1>2. <<a, b>> = <<a>> \o <<b>>
    BY Written
  <1> QED BY <1>1, <1>2

LEMMA LeadsThree ==
  ASSUME NEW a, NEW b, NEW c, NEW x, NEW y, NEW z, NEW t,
         Leads(<<a>>, x, y), Leads(<<b>>, y, z), Leads(<<c>>, z, t)
  PROVE  Leads(<<a, b, c>>, x, t)
  <1>1. Leads(<<b, c>>, y, t)
    BY LeadsTwo
  <1>2. Leads(<<a>> \o <<b, c>>, x, t)
    BY <1>1, LeadsJoin
  <1>3. <<a, b, c>> = <<a>> \o <<b, c>>
    OBVIOUS
  <1> QED BY <1>2, <1>3

LEMMA LeadsFour ==
  ASSUME NEW a, NEW b, NEW c, NEW d, NEW x, NEW y, NEW z, NEW t, NEW u,
         Leads(<<a>>, x, y), Leads(<<b>>, y, z), Leads(<<c>>, z, t), Leads(<<d>>, t, u)
  PROVE  Leads(<<a, b, c, d>>, x, u)
  <1>1. Leads(<<b, c, d>>, y, u)
    BY LeadsThree
  <1>2. Leads(<<a>> \o <<b, c, d>>, x, u)
    BY <1>1, LeadsJoin
  <1>3. <<a, b, c, d>> = <<a>> \o <<b, c, d>>
    OBVIOUS
  <1> QED BY <1>2, <1>3

LEMMA LeadsFive ==
  ASSUME NEW a, NEW b, NEW c, NEW d, NEW e, NEW x, NEW y, NEW z, NEW t, NEW u, NEW v,
         Leads(<<a>>, x, y), Leads(<<b>>, y, z), Leads(<<c>>, z, t), Leads(<<d>>, t, u),
         Leads(<<e>>, u, v)
  PROVE  Leads(<<a, b, c, d, e>>, x, v)
  <1>1. Leads(<<b, c, d, e>>, y, v)
    BY LeadsFour
  <1>2. Leads(<<a>> \o <<b, c, d, e>>, x, v)
    BY <1>1, LeadsJoin
  <1>3. <<a, b, c, d, e>> = <<a>> \o <<b, c, d, e>>
    OBVIOUS
  <1> QED BY <1>2, <1>3

LEMMA LeadsSix ==
  ASSUME NEW a, NEW b, NEW c, NEW d, NEW e, NEW f,
         NEW x, NEW y, NEW z, NEW t, NEW u, NEW v, NEW s,
         Leads(<<a>>, x, y), Leads(<<b>>, y, z), Leads(<<c>>, z, t), Leads(<<d>>, t, u),
         Leads(<<e>>, u, v), Leads(<<f>>, v, s)
  PROVE  Leads(<<a, b, c, d, e, f>>, x, s)
  <1>1. Leads(<<b, c, d, e, f>>, y, s)
    BY LeadsFive
  <1>2. Leads(<<a>> \o <<b, c, d, e, f>>, x, s)
    BY <1>1, LeadsJoin
  <1>3. <<a, b, c, d, e, f>> = <<a>> \o <<b, c, d, e, f>>
    OBVIOUS
  <1> QED BY <1>2, <1>3

\* A call that may fail or not, again and again.
LEMMA LeadsAgain ==
  ASSUME NEW n \in Nat, NEW x, SpotOK(x), NEW name
  PROVE  Leads([b \in 1 .. n |-> Try(name, {})], x, x)
  <1> SUFFICES ASSUME NEW e, NEW j \in Nat
               PROVE  Reaches([b \in 1 .. n |-> Try(name, {})], x, x, j, e)
    BY DEF Leads
  <1>1. PICK c : c = Try(name, {})
    OBVIOUS
  <1>2. PICK p : p = [b \in 1 .. n |-> Try(name, {})]
    OBVIOUS
  <1>3. PICK f : f = [b \in 0 .. n |-> x]
    OBVIOUS
  <1>4. p \in Seq({c}) /\ Len(p) = n /\ DOMAIN p = 1 .. n /\ \A b \in 1 .. n : p[b] = c
    BY <1>1, <1>2
  <1>5. \A b \in 0 .. n : f[b] = x
    BY <1>3
  <1>6. c.gives = {} /\ c.drops = {} /\ c.undo = <<>> /\ c.rc = 0 /\ c.skip = 0
    BY <1>1 DEF Try, Call
  <1>7. Gives(c, x, x)
    BY <1>6 DEF Gives
  <1>8. GoesOn(c, x, x)
    BY <1>6, NothingToUndo DEF GoesOn
  <1>9. ASSUME NEW b \in 1 .. n PROVE Steps(p, f, j, e, b)
    <2>1. b - 1 \in 0 .. n /\ b \in 0 .. n /\ b + 0 = b /\ b <= n
      OBVIOUS
    <2>2. p[b] = c /\ f[b - 1] = x /\ f[b] = x
      BY <1>4, <1>5, <2>1
    <2> QED BY <1>4, <1>6, <1>7, <1>8, <2>1, <2>2 DEF Steps
  <1>10. Way(p, f, j, e)
    BY <1>4, <1>5, <1>9 DEF Way
  <1>11. f[0] = x /\ f[Len(p)] = x
    BY <1>4, <1>5
  <1> QED BY <1>2, <1>4, <1>10, <1>11 DEF Reaches

\* What is on the device may stay behind.
LEMMA UndoMore ==
  ASSUME NEW r \in OnDevice, NEW m, NEW n, NEW u, n = m \cup {r}, Undoes(Spot(m, {}, TRUE), u)
  PROVE  Undoes(Spot(n, {}, TRUE), u)
  <1>1. Uses(r) = {}
    BY UsesIs DEF OnDevice
  <1>2. Unwinds(Spot(n, {}, TRUE), u)
    BY <1>1 DEF Undoes, Unwinds, Spot
  <1> QED BY <1>2 DEF Undoes, Spot

-----------------------------------------------------------------------------
(* The commands.                                                           *)

AtFirst == Spot({}, {}, FALSE)

LEMMA OpenLeads == Leads(Open, AtFirst, Spot(HasFile, {}, FALSE))
  <1>1. Undoes(AtFirst, <<>>)
    BY UndoNothing DEF AtFirst
  <1>2. HasFile = {} \cup {"file"}
    BY DEF HasFile
  <1> QED BY <1>1, <1>2, SpotsAreOK, OneMust DEF Open, AtFirst

\* A call that takes nothing.
LEMMA OneCheck ==
  ASSUME NEW name, NEW u, NEW m, NEW y, NEW z, SpotOK(Spot(m, y, z)), Undoes(Spot(m, y, z), u)
  PROVE  Leads(<<Must(name, {}, u)>>, Spot(m, y, z), Spot(m, y, z))
  <1>1. m = m \cup {} /\ z = z
    OBVIOUS
  <1> QED BY <1>1, OneMust

\* A call that takes r.
LEMMA OneTake ==
  ASSUME NEW name, NEW r, NEW u, NEW m, NEW y, NEW z, NEW n, n = m \cup {r},
         SpotOK(Spot(m, y, z)), SpotOK(Spot(n, y, z)), Undoes(Spot(m, y, z), u)
  PROVE  Leads(<<Must(name, {r}, u)>>, Spot(m, y, z), Spot(n, y, z))
  BY OneMust

LEMMA LoadLeads == Leads(Load, Spot(HasFile, {}, FALSE), Spot(HasContext, {}, TRUE))
  <1>1. Leads(<<Must("init", {}, File)>>, Spot(HasFile, {}, FALSE), Spot(HasFile, {}, TRUE))
    <2>1. HasFile = HasFile \cup {} /\ "init" \in Initialize
      BY DEF Initialize
    <2> QED BY <2>1, SpotsAreOK, FileUndone, OneMust
  <1>2. Leads(<<Must("context", {"context"}, File)>>, Spot(HasFile, {}, TRUE), Spot(HasContext, {}, TRUE))
    <2>1. HasContext = HasFile \cup {"context"}
      BY DEF HasContext
    <2> QED BY <2>1, SpotsAreOK, FileUndone, OneTake
  <1>3. Leads(<<Must("load", {}, Context)>>, Spot(HasContext, {}, TRUE), Spot(HasContext, {}, TRUE))
    BY SpotsAreOK, ContextUndone, OneCheck
  <1> QED BY <1>1, <1>2, <1>3, LeadsThree DEF Load

\* Each command leads to a place where its last list gives everything back.
Ready(o, diag) == \E x : Leads(Program(o, diag), AtFirst, x) /\ Undoes(x, AtEnd(o))

LEMMA PlatformReady ==
  ASSUME NEW o, NEW diag, o.mode = "--platform" PROVE Ready(o, diag)
  <1>1. Program(o, diag) = <<Probe(<<>>)>> /\ AtEnd(o) = <<>>
    BY DEF Program, AtEnd
  <1>2. Undoes(AtFirst, <<>>)
    BY UndoNothing DEF AtFirst
  <1>3. Leads(<<Probe(<<>>)>>, AtFirst, AtFirst)
    BY <1>2, SpotsAreOK, OneCheck DEF AtFirst, Probe
  <1> QED BY <1>1, <1>2, <1>3 DEF Ready

LEMMA InspectReady ==
  ASSUME NEW o, NEW diag, o.mode \in {"--inspect", "--list-tensors"} PROVE Ready(o, diag)
  <1>1. Program(o, diag) = Open /\ AtEnd(o) = File
    BY DEF Program, AtEnd
  <1> QED BY <1>1, OpenLeads, FileUndone DEF Ready

HasPlan == HasFile \cup {"plan"}

LEMMA MemoryPlanReady ==
  ASSUME NEW o, NEW diag, o.mode = "--memory-plan" PROVE Ready(o, diag)
  <1>1. Program(o, diag) = MemoryPlan /\ AtEnd(o) = <<"plan", "file">>
    BY DEF Program, AtEnd
  <1>2. SpotOK(Spot(HasPlan, {}, FALSE))
    BY UsesIs DEF SpotOK, Spot, HasFile, HasPlan
  <1>3. Undoes(Spot(HasPlan, {}, FALSE), <<"plan", "file">>)
    <2>1. \A s \in HasPlan : "plan" \notin Uses(s)
      BY UsesIs DEF HasFile, HasPlan
    <2>2. HasPlan = HasFile \cup {"plan"} /\ "plan" \notin HasFile /\ "plan" \in Things
      BY DEF HasFile, HasPlan, Things
    <2>3. Undoes(Spot(HasPlan, {}, FALSE), <<"plan">> \o File)
      BY <2>1, <2>2, FileUndone, UndoMust
    <2> QED BY <2>3, Written DEF File
  <1>4. Leads(<<Must("build", {"plan"}, File)>>, Spot(HasFile, {}, FALSE), Spot(HasPlan, {}, FALSE))
    <2>1. HasPlan = HasFile \cup {"plan"}
      BY DEF HasPlan
    <2> QED BY <1>2, <2>1, SpotsAreOK, FileUndone, OneTake
  <1>5. Leads(<<Must("validate", {}, <<"plan", "file">>)>>, Spot(HasPlan, {}, FALSE), Spot(HasPlan, {}, FALSE))
    BY <1>2, <1>3, OneCheck
  <1>6. Leads(<<Try("probe", {})>>, Spot(HasPlan, {}, FALSE), Spot(HasPlan, {}, FALSE))
    <2>1. {} = {} \cup {}
      OBVIOUS
    <2> QED BY <1>2, <2>1, OneTry
  <1>7. Leads(<<Must("build", {"plan"}, File), Must("validate", {}, <<"plan", "file">>), Try("probe", {})>>,
              Spot(HasFile, {}, FALSE), Spot(HasPlan, {}, FALSE))
    BY <1>4, <1>5, <1>6, LeadsThree
  <1>8. Leads(MemoryPlan, AtFirst, Spot(HasPlan, {}, FALSE))
    BY <1>7, OpenLeads, LeadsJoin DEF MemoryPlan
  <1> QED BY <1>1, <1>3, <1>8 DEF Ready

LEMMA LoadOnlyReady ==
  ASSUME NEW o, NEW diag, o.mode = "--load-only" PROVE Ready(o, diag)
  <1>1. Program(o, diag) = LoadOnly /\ AtEnd(o) = Context
    BY DEF Program, AtEnd
  <1>2. Leads(<<Probe(File)>>, Spot(HasFile, {}, FALSE), Spot(HasFile, {}, FALSE))
    BY SpotsAreOK, FileUndone, OneCheck DEF Probe
  <1>3. Leads(<<Try("probe", {})>>, Spot(HasContext, {}, TRUE), Spot(HasContext, {}, TRUE))
    <2>1. {} = {} \cup {}
      OBVIOUS
    <2> QED BY <2>1, SpotsAreOK, OneTry
  <1>4. Leads(<<Must("coverage", {}, Context)>>, Spot(HasContext, {}, TRUE), Spot(HasContext, {}, TRUE))
    BY SpotsAreOK, ContextUndone, OneCheck
  <1>5. Leads(<<Try("probe", {}), Must("coverage", {}, Context)>>,
              Spot(HasContext, {}, TRUE), Spot(HasContext, {}, TRUE))
    BY <1>3, <1>4, LeadsTwo
  <1>6. Leads(Open \o <<Probe(File)>>, AtFirst, Spot(HasFile, {}, FALSE))
    BY <1>2, OpenLeads, LeadsJoin
  <1>7. Leads((Open \o <<Probe(File)>>) \o Load, AtFirst, Spot(HasContext, {}, TRUE))
    BY <1>6, LoadLeads, LeadsJoin
  <1>8. Leads(LoadOnly, AtFirst, Spot(HasContext, {}, TRUE))
    BY <1>5, <1>7, LeadsJoin DEF LoadOnly
  <1> QED BY <1>1, <1>8, ContextUndone DEF Ready

LEMMA CacheUndone ==
  ASSUME NEW z
  PROVE  Cache = <<"kv">> \o (<<"rt">> \o Tokens) /\ Undoes(Spot(HasCache, {}, z), Cache)
  <1>1. \A s \in HasCache : "kv" \notin Uses(s)
    BY UsesIs DEF HasContext, HasFile, HasWeights, HasTokens, HasRuntime, HasCache
  <1>2. HasCache = HasRuntime \cup {"kv"} /\ "kv" \notin HasRuntime /\ "kv" \in Things
    BY DEF HasContext, HasFile, HasWeights, HasTokens, HasRuntime, HasCache, Things
  <1>3. Undoes(Spot(HasCache, {}, z), <<"kv">> \o (<<"rt">> \o Tokens))
    BY <1>1, <1>2, RuntimeUndone, UndoMust
  <1>4. Cache = (<<"kv">> \o <<"rt">>) \o Tokens
    BY Written DEF Cache
  <1>5. <<"kv">> \in Seq(Things) /\ <<"rt">> \in Seq(Things) /\ Tokens \in Seq(Things)
    <2>1. "kv" \in Things /\ "rt" \in Things
      BY DEF Things
    <2>2. Tokens \in Seq(Things)
      BY TokensUndone DEF Undoes
    <2> QED BY <2>1, <2>2
  <1>6. (<<"kv">> \o <<"rt">>) \o Tokens = <<"kv">> \o (<<"rt">> \o Tokens)
    BY <1>5, Joined
  <1> QED BY <1>3, <1>4, <1>6

\* logits' allocation fails when hidden is there, which the device forgets.
LEMMA HiddenUndone ==
  /\ Undoes(Spot(HasHidden, {}, TRUE), Cache)
  /\ Undoes(Spot(HasHidden, {}, TRUE), <<"hidden">> \o Cache)
  <1>1. HasHidden = HasCache \cup {"hidden"} /\ "hidden" \in OnDevice
    BY DEF HasHidden, OnDevice
  <1>2. Undoes(Spot(HasHidden, {}, TRUE), Cache)
    BY <1>1, CacheUndone, UndoMore
  <1>3. \A s \in HasHidden : "hidden" \notin Uses(s)
    BY UsesIs DEF HasContext, HasFile, HasWeights, HasTokens, HasRuntime, HasCache, HasHidden
  <1>4. "hidden" \notin HasCache /\ "hidden" \in Things
    BY DEF HasContext, HasFile, HasWeights, HasTokens, HasRuntime, HasCache, Things
  <1>5. Undoes(Spot(HasHidden, {}, TRUE), <<"hidden">> \o Cache)
    BY <1>1, <1>3, <1>4, CacheUndone, UndoMust
  <1> QED BY <1>2, <1>5

LEMMA OutputsUndone ==
  Outputs \in Seq(Things) /\ Undoes(Spot(HasOutputs, {}, TRUE), Outputs)
  <1>1. \A s \in HasOutputs : "logits" \notin Uses(s)
    BY UsesIs DEF HasContext, HasFile, HasWeights, HasTokens, HasRuntime, HasCache, HasHidden,
                  HasOutputs
  <1>2. HasOutputs = HasHidden \cup {"logits"} /\ "logits" \notin HasHidden /\ "logits" \in Things
    BY DEF HasContext, HasFile, HasWeights, HasTokens, HasRuntime, HasCache, HasHidden, HasOutputs,
           Things
  <1>3. Undoes(Spot(HasOutputs, {}, TRUE), <<"logits">> \o (<<"hidden">> \o Cache))
    BY <1>1, <1>2, HiddenUndone, UndoMust
  <1>4. Outputs = (<<"logits">> \o <<"hidden">>) \o Cache
    BY Written DEF Outputs
  <1>5. <<"logits">> \in Seq(Things) /\ <<"hidden">> \in Seq(Things) /\ Cache \in Seq(Things)
    <2>1. "logits" \in Things /\ "hidden" \in Things
      BY DEF Things
    <2>2. Cache \in Seq(Things)
      BY CacheUndone DEF Undoes
    <2> QED BY <2>1, <2>2
  <1>6. (<<"logits">> \o <<"hidden">>) \o Cache = <<"logits">> \o (<<"hidden">> \o Cache)
    BY <1>5, Joined
  <1>7. Undoes(Spot(HasOutputs, {}, TRUE), Outputs)
    BY <1>3, <1>4, <1>6
  <1> QED BY <1>7 DEF Undoes

HasFh       == HasWeights \cup {"fh"}
HasFhTokens == HasFh \cup {"tokens"}

LEMMA FhIsOK ==
  /\ SpotOK(Spot(HasFh, {}, TRUE)) /\ SpotOK(Spot(HasFhTokens, {}, TRUE))
  BY UsesIs DEF SpotOK, Spot, HasFile, HasContext, HasWeights, HasFh, HasFhTokens

LEMMA FhUndone ==
  /\ Undoes(Spot(HasFh, {}, TRUE), <<"fh">> \o Weights)
  /\ Undoes(Spot(HasFhTokens, {}, TRUE), <<"tokens", "fh">> \o Weights)
  <1>1. Undoes(Spot(HasFh, {}, TRUE), <<"fh">> \o Weights)
    <2>1. \A s \in HasFh : "fh" \notin Uses(s)
      BY UsesIs DEF HasContext, HasFile, HasWeights, HasFh
    <2>2. HasFh = HasWeights \cup {"fh"} /\ "fh" \notin HasWeights /\ "fh" \in Things
      BY DEF HasContext, HasFile, HasWeights, HasFh, Things
    <2> QED BY <2>1, <2>2, WeightsUndone, UndoMust
  <1>2. Undoes(Spot(HasFhTokens, {}, TRUE), <<"tokens">> \o (<<"fh">> \o Weights))
    <2>1. \A s \in HasFhTokens : "tokens" \notin Uses(s)
      BY UsesIs DEF HasContext, HasFile, HasWeights, HasFh, HasFhTokens
    <2>2. HasFhTokens = HasFh \cup {"tokens"} /\ "tokens" \notin HasFh /\ "tokens" \in Things
      BY DEF HasContext, HasFile, HasWeights, HasFh, HasFhTokens, Things
    <2> QED BY <1>1, <2>1, <2>2, UndoMust
  <1>3. <<"tokens", "fh">> \o Weights = (<<"tokens">> \o <<"fh">>) \o Weights
    BY Written
  <1>4. <<"tokens">> \in Seq(Things) /\ <<"fh">> \in Seq(Things) /\ Weights \in Seq(Things)
    <2>1. "tokens" \in Things /\ "fh" \in Things
      BY DEF Things
    <2>2. Weights \in Seq(Things)
      BY WeightsUndone DEF Undoes
    <2> QED BY <2>1, <2>2
  <1>5. (<<"tokens">> \o <<"fh">>) \o Weights = <<"tokens">> \o (<<"fh">> \o Weights)
    BY <1>4, Joined
  <1> QED BY <1>1, <1>2, <1>3, <1>5

LEMMA TokensLead ==
  /\ Leads(ReadTokens, Spot(HasWeights, {}, TRUE), Spot(HasTokens, {}, TRUE))
  /\ Leads(<<Must("fallback", {"tokens"}, <<>>)>>, Spot(HasWeights, {}, TRUE), Spot(HasTokens, {}, TRUE))
  <1>1. Leads(<<Must("fopen", {"fh"}, Weights)>>, Spot(HasWeights, {}, TRUE), Spot(HasFh, {}, TRUE))
    <2>1. HasFh = HasWeights \cup {"fh"}
      BY DEF HasFh
    <2> QED BY <2>1, SpotsAreOK, FhIsOK, WeightsUndone, OneTake
  <1>2. Leads(<<Must("size", {}, <<"fh">> \o Weights)>>, Spot(HasFh, {}, TRUE), Spot(HasFh, {}, TRUE))
    BY FhIsOK, FhUndone, OneCheck
  <1>3. Leads(<<Must("malloc", {"tokens"}, <<"fh">> \o Weights)>>,
              Spot(HasFh, {}, TRUE), Spot(HasFhTokens, {}, TRUE))
    <2>1. HasFhTokens = HasFh \cup {"tokens"}
      BY DEF HasFhTokens
    <2> QED BY <2>1, FhIsOK, FhUndone, OneTake
  <1>4. Leads(<<Must("fread", {}, <<"tokens", "fh">> \o Weights)>>,
              Spot(HasFhTokens, {}, TRUE), Spot(HasFhTokens, {}, TRUE))
    BY FhIsOK, FhUndone, OneCheck
  <1>5. Leads(<<Drop({"fh"})>>, Spot(HasFhTokens, {}, TRUE), Spot(HasTokens, {}, TRUE))
    <2>1. HasTokens = HasFhTokens \ {"fh"} /\ {"fh"} \cap OnDevice = {}
      BY DEF HasContext, HasFile, HasWeights, HasFh, HasFhTokens, HasTokens, OnDevice
    <2> QED BY <2>1, FhIsOK, SpotsAreOK, OneDrop
  <1>6. Leads(ReadTokens, Spot(HasWeights, {}, TRUE), Spot(HasTokens, {}, TRUE))
    BY <1>1, <1>2, <1>3, <1>4, <1>5, LeadsFive DEF ReadTokens
  <1>7. Leads(<<Must("fallback", {"tokens"}, <<>>)>>,
              Spot(HasWeights, {}, TRUE), Spot(HasTokens, {}, TRUE))
    <2>1. HasTokens = HasWeights \cup {"tokens"} /\ "fallback" \in Unchecked
      BY DEF HasTokens, Unchecked
    <2> QED BY <2>1, SpotsAreOK, OneMust
  <1> QED BY <1>6, <1>7

\* From the token ids to the first logits.
LEMMA PassLeads ==
  Leads(<<Must("create", {"rt"}, Tokens), Must("kv", {"kv"}, <<"rt">> \o Tokens),
          Must("hidden", {"hidden"}, Cache), Must("logits", {"logits"}, Cache),
          Must("run", {}, Outputs), Must("candidate logits", {}, Outputs)>>,
        Spot(HasTokens, {}, TRUE), Spot(HasOutputs, {}, TRUE))
  <1>1. Leads(<<Must("create", {"rt"}, Tokens)>>, Spot(HasTokens, {}, TRUE), Spot(HasRuntime, {}, TRUE))
    <2>1. HasRuntime = HasTokens \cup {"rt"}
      BY DEF HasRuntime
    <2> QED BY <2>1, SpotsAreOK, TokensUndone, OneTake
  <1>2. Leads(<<Must("kv", {"kv"}, <<"rt">> \o Tokens)>>,
              Spot(HasRuntime, {}, TRUE), Spot(HasCache, {}, TRUE))
    <2>1. HasCache = HasRuntime \cup {"kv"}
      BY DEF HasCache
    <2> QED BY <2>1, SpotsAreOK, RuntimeUndone, OneTake
  <1>3. Leads(<<Must("hidden", {"hidden"}, Cache)>>, Spot(HasCache, {}, TRUE), Spot(HasHidden, {}, TRUE))
    <2>1. HasHidden = HasCache \cup {"hidden"}
      BY DEF HasHidden
    <2> QED BY <2>1, SpotsAreOK, CacheUndone, OneTake
  <1>4. Leads(<<Must("logits", {"logits"}, Cache)>>, Spot(HasHidden, {}, TRUE), Spot(HasOutputs, {}, TRUE))
    <2>1. HasOutputs = HasHidden \cup {"logits"}
      BY DEF HasOutputs
    <2> QED BY <2>1, SpotsAreOK, HiddenUndone, OneTake
  <1>5. Leads(<<Must("run", {}, Outputs)>>, Spot(HasOutputs, {}, TRUE), Spot(HasOutputs, {}, TRUE))
    BY SpotsAreOK, OutputsUndone, OneCheck
  <1>6. Leads(<<Must("candidate logits", {}, Outputs)>>,
              Spot(HasOutputs, {}, TRUE), Spot(HasOutputs, {}, TRUE))
    BY SpotsAreOK, OutputsUndone, OneCheck
  <1> QED BY <1>1, <1>2, <1>3, <1>4, <1>5, <1>6, LeadsSix

HasResult == HasOutputs \cup {"host_logits"}

LEMMA ForwardReady ==
  ASSUME NEW o, NEW diag, o.mode = "--forward" PROVE Ready(o, diag)
  <1>1. Program(o, diag) = Forward(o, diag) /\ AtEnd(o) = <<"host_logits">> \o Outputs
    BY DEF Program, AtEnd
  <1>2. PICK reads, refuses, scan :
          /\ reads = (IF "--tokens" \in DOMAIN o.given THEN ReadTokens
                      ELSE <<Must("fallback", {"tokens"}, <<>>)>>)
          /\ refuses = (IF "--candidate-token-ids" \in DOMAIN o.given
                        THEN <<Refuse("candidates", Tokens)>> ELSE <<>>)
          /\ scan = (IF diag THEN DiagnoseLayers[Layers] ELSE <<>>)
    OBVIOUS
  <1>3. PICK configs, binds, pass, end :
          /\ configs = <<Must("config", {}, File), Must("validate config", {}, File)>>
          /\ binds = <<Must("bind", {"weights"}, Context)>>
          /\ pass = <<Must("create", {"rt"}, Tokens), Must("kv", {"kv"}, <<"rt">> \o Tokens),
                      Must("hidden", {"hidden"}, Cache), Must("logits", {"logits"}, Cache),
                      Must("run", {}, Outputs), Must("candidate logits", {}, Outputs)>>
          /\ end = <<Must("synchronize", {}, Outputs), Must("malloc", {"host_logits"}, Outputs)>>
    OBVIOUS
  <1>4. Forward(o, diag) =
          ((((((Open \o configs) \o Load) \o binds) \o reads) \o refuses) \o pass) \o scan \o end
    BY <1>2, <1>3 DEF Forward
  <1>5. SpotOK(Spot(HasResult, {}, TRUE))
    BY UsesIs DEF SpotOK, Spot, HasFile, HasContext, HasWeights, HasTokens, HasRuntime, HasCache,
                  HasHidden, HasOutputs, HasResult
  <1>6. Undoes(Spot(HasResult, {}, TRUE), <<"host_logits">> \o Outputs)
    <2>1. \A s \in HasResult : "host_logits" \notin Uses(s)
      BY UsesIs DEF HasContext, HasFile, HasWeights, HasTokens, HasRuntime, HasCache, HasHidden,
                    HasOutputs, HasResult
    <2>2. HasResult = HasOutputs \cup {"host_logits"} /\ "host_logits" \notin HasOutputs
          /\ "host_logits" \in Things
      BY DEF HasContext, HasFile, HasWeights, HasTokens, HasRuntime, HasCache, HasHidden,
             HasOutputs, HasResult, Things
    <2> QED BY <2>1, <2>2, OutputsUndone, UndoMust
  <1>7. Leads(configs, Spot(HasFile, {}, FALSE), Spot(HasFile, {}, FALSE))
    <2>1. Leads(<<Must("config", {}, File)>>, Spot(HasFile, {}, FALSE), Spot(HasFile, {}, FALSE))
      BY SpotsAreOK, FileUndone, OneCheck
    <2>2. Leads(<<Must("validate config", {}, File)>>, Spot(HasFile, {}, FALSE), Spot(HasFile, {}, FALSE))
      BY SpotsAreOK, FileUndone, OneCheck
    <2> QED BY <1>3, <2>1, <2>2, LeadsTwo
  <1>8. Leads(binds, Spot(HasContext, {}, TRUE), Spot(HasWeights, {}, TRUE))
    <2>1. HasWeights = HasContext \cup {"weights"}
      BY DEF HasWeights
    <2> QED BY <1>3, <2>1, SpotsAreOK, ContextUndone, OneTake
  <1>9. Leads(reads, Spot(HasWeights, {}, TRUE), Spot(HasTokens, {}, TRUE))
    BY <1>2, TokensLead
  <1>10. Leads(refuses, Spot(HasTokens, {}, TRUE), Spot(HasTokens, {}, TRUE))
    <2>1. Leads(<<Refuse("candidates", Tokens)>>, Spot(HasTokens, {}, TRUE), Spot(HasTokens, {}, TRUE))
      BY SpotsAreOK, TokensUndone, OneRefuse
    <2>2. Leads(<<>>, Spot(HasTokens, {}, TRUE), Spot(HasTokens, {}, TRUE))
      BY SpotsAreOK, LeadsNowhere
    <2> QED BY <1>2, <2>1, <2>2
  <1>11. Leads(pass, Spot(HasTokens, {}, TRUE), Spot(HasOutputs, {}, TRUE))
    BY <1>3, PassLeads
  <1>12. Leads(scan, Spot(HasOutputs, {}, TRUE), Spot(HasOutputs, {}, TRUE))
    <2>1. Leads(<<>>, Spot(HasOutputs, {}, TRUE), Spot(HasOutputs, {}, TRUE))
      BY SpotsAreOK, LeadsNowhere
    <2> QED BY <1>2, <2>1, LayersLead
  <1>13. Leads(end, Spot(HasOutputs, {}, TRUE), Spot(HasResult, {}, TRUE))
    <2>1. Leads(<<Must("synchronize", {}, Outputs)>>, Spot(HasOutputs, {}, TRUE), Spot(HasOutputs, {}, TRUE))
      BY SpotsAreOK, OutputsUndone, OneCheck
    <2>2. HasResult = HasOutputs \cup {"host_logits"}
      BY DEF HasResult
    <2>3. Leads(<<Must("malloc", {"host_logits"}, Outputs)>>,
                Spot(HasOutputs, {}, TRUE), Spot(HasResult, {}, TRUE))
      BY <1>5, <2>2, SpotsAreOK, OutputsUndone, OneTake
    <2> QED BY <1>3, <2>1, <2>3, LeadsTwo
  <1>14. Leads(Open \o configs, AtFirst, Spot(HasFile, {}, FALSE))
    BY <1>7, OpenLeads, LeadsJoin
  <1>15. Leads((Open \o configs) \o Load, AtFirst, Spot(HasContext, {}, TRUE))
    BY <1>14, LoadLeads, LeadsJoin
  <1>16. Leads(((Open \o configs) \o Load) \o binds, AtFirst, Spot(HasWeights, {}, TRUE))
    BY <1>8, <1>15, LeadsJoin
  <1>17. Leads((((Open \o configs) \o Load) \o binds) \o reads, AtFirst, Spot(HasTokens, {}, TRUE))
    BY <1>9, <1>16, LeadsJoin
  <1>18. Leads(((((Open \o configs) \o Load) \o binds) \o reads) \o refuses, AtFirst, Spot(HasTokens, {}, TRUE))
    BY <1>10, <1>17, LeadsJoin
  <1>19. Leads((((((Open \o configs) \o Load) \o binds) \o reads) \o refuses) \o pass, AtFirst,
               Spot(HasOutputs, {}, TRUE))
    BY <1>11, <1>18, LeadsJoin
  <1>20. Leads(((((((Open \o configs) \o Load) \o binds) \o reads) \o refuses) \o pass) \o scan, AtFirst,
               Spot(HasOutputs, {}, TRUE))
    BY <1>12, <1>19, LeadsJoin
  <1>21. Leads(Forward(o, diag), AtFirst, Spot(HasResult, {}, TRUE))
    BY <1>4, <1>13, <1>20, LeadsJoin
  <1> QED BY <1>1, <1>6, <1>21 DEF Ready

\* The benchmark of a product: what it has and may have on the device.
HasWorkspace == HasContext \cup {"workspace"}
HasInput     == HasWorkspace \cup {"host_in"}

LEMMA BenchIsOK ==
  ASSUME NEW y, y \subseteq {"stream", "input", "output"}
  PROVE  SpotOK(Spot(HasWorkspace, y, TRUE)) /\ SpotOK(Spot(HasInput, y, TRUE))
  BY UsesIs DEF SpotOK, Spot, HasFile, HasContext, HasWorkspace, HasInput, OnDevice

LEMMA WorkspaceUndone == Undoes(Spot(HasWorkspace, {}, TRUE), <<"workspace">> \o Context)
  <1>1. \A s \in HasWorkspace : "workspace" \notin Uses(s)
    BY UsesIs DEF HasFile, HasContext, HasWorkspace
  <1>2. HasWorkspace = HasContext \cup {"workspace"} /\ "workspace" \notin HasContext
        /\ "workspace" \in Things
    BY DEF HasFile, HasContext, HasWorkspace, Things
  <1> QED BY <1>1, <1>2, ContextUndone, UndoMust

LEMMA BenchUndone ==
  Undoes(Spot(HasInput, {"stream", "input", "output"}, TRUE),
         <<"host_in", "input", "output", "stream", "workspace">> \o Context)
  <1>1. \A s \in HasInput : Uses(s) \cap {"host_in", "input", "output", "stream"} = {}
    BY UsesIs DEF HasFile, HasContext, HasWorkspace, HasInput
  <1>2. HasWorkspace \subseteq HasInput
    BY DEF HasInput
  <1>3. PICK ws : ws = <<"workspace", "context", "file">>
    OBVIOUS
  <1>4. "stream" \in Things /\ "input" \in Things /\ "output" \in Things /\ "host_in" \in Things
        /\ "workspace" \in Things
    BY DEF Things
  <1>5. Undoes(Spot(HasWorkspace, {"stream"}, TRUE), <<"stream">> \o ws)
    <2>1. "stream" \in HasWorkspace \cup {"stream"} /\ {} = {"stream"} \ {"stream"}
          /\ HasWorkspace = HasWorkspace \ {"stream"}
      BY DEF HasFile, HasContext, HasWorkspace
    <2>2. \A s \in HasWorkspace : "stream" \notin Uses(s)
      BY <1>1, <1>2
    <2>3. Undoes(Spot(HasWorkspace, {}, TRUE), ws)
      <3>1. <<"workspace", "context", "file">> = <<"workspace">> \o <<"context", "file">>
        OBVIOUS
      <3> QED BY <1>3, <3>1, WorkspaceUndone DEF Context
    <2> QED BY <1>4, <2>1, <2>2, <2>3, UndoFirst
  <1>6. Undoes(Spot(HasWorkspace, {"stream", "output"}, TRUE), <<"output">> \o (<<"stream">> \o ws))
    <2>1. "output" \in HasWorkspace \cup {"stream", "output"} /\ {"stream"} = {"stream", "output"} \ {"output"}
          /\ HasWorkspace = HasWorkspace \ {"output"}
      BY DEF HasFile, HasContext, HasWorkspace
    <2>2. \A s \in HasWorkspace : "output" \notin Uses(s)
      BY <1>1, <1>2
    <2> QED BY <1>4, <1>5, <2>1, <2>2, UndoFirst
  <1>7. Undoes(Spot(HasWorkspace, {"stream", "input", "output"}, TRUE),
               <<"input">> \o (<<"output">> \o (<<"stream">> \o ws)))
    <2>1. "input" \in HasWorkspace \cup {"stream", "input", "output"}
          /\ {"stream", "output"} = {"stream", "input", "output"} \ {"input"}
          /\ HasWorkspace = HasWorkspace \ {"input"}
      BY DEF HasFile, HasContext, HasWorkspace
    <2>2. \A s \in HasWorkspace : "input" \notin Uses(s)
      BY <1>1, <1>2
    <2> QED BY <1>4, <1>6, <2>1, <2>2, UndoFirst
  <1>8. Undoes(Spot(HasInput, {"stream", "input", "output"}, TRUE),
               <<"host_in">> \o (<<"input">> \o (<<"output">> \o (<<"stream">> \o ws))))
    <2>1. "host_in" \in HasInput \cup {"stream", "input", "output"}
          /\ {"stream", "input", "output"} = {"stream", "input", "output"} \ {"host_in"}
          /\ HasWorkspace = HasInput \ {"host_in"}
      BY DEF HasFile, HasContext, HasWorkspace, HasInput
    <2>2. \A s \in HasInput : "host_in" \notin Uses(s)
      BY <1>1
    <2> QED BY <1>4, <1>7, <2>1, <2>2, UndoFirst
  <1>9. /\ <<"stream", "workspace", "context", "file">>
              = <<"stream">> \o <<"workspace", "context", "file">>
        /\ <<"output", "stream", "workspace", "context", "file">>
              = <<"output">> \o <<"stream", "workspace", "context", "file">>
        /\ <<"input", "output", "stream", "workspace", "context", "file">>
              = <<"input">> \o <<"output", "stream", "workspace", "context", "file">>
        /\ <<"host_in", "input", "output", "stream", "workspace", "context", "file">>
              = <<"host_in">> \o <<"input", "output", "stream", "workspace", "context", "file">>
        /\ <<"host_in", "input", "output", "stream", "workspace", "context", "file">>
              = <<"host_in", "input", "output", "stream", "workspace">> \o <<"context", "file">>
    OBVIOUS
  <1> QED BY <1>3, <1>8, <1>9 DEF Context

LEMMA BenchReady ==
  ASSUME NEW o, NEW diag, o.mode = "--bench-q4-linear", Len(o.batches) \in Nat PROVE Ready(o, diag)
  <1>1. Program(o, diag) = Bench(o)
        /\ AtEnd(o) = <<"host_in", "input", "output", "stream", "workspace">> \o Context
    BY DEF Program, AtEnd
  <1>2. PICK p1, p2, p3, p4 :
          /\ p1 = <<Must("find tensor", {}, Context), Must("resident", {}, Context),
                    Must("geometry", {}, Context), Must("linear init", {}, Context)>>
          /\ p2 = <<Must("workspace", {"workspace"}, Context),
                    Must("set workspace", {}, <<"workspace">> \o Context),
                    Try("stream", {"stream"}), Try("input", {"input"}), Try("output", {"output"}),
                    Must("host_in", {"host_in"}, <<>>)>>
          /\ p3 = <<Must("find tensor", {}, Context), Must("resident", {}, Context),
                    Must("geometry", {}, Context), Must("linear init", {}, Context),
                    Must("workspace", {"workspace"}, Context),
                    Must("set workspace", {}, <<"workspace">> \o Context),
                    Try("stream", {"stream"}), Try("input", {"input"}), Try("output", {"output"}),
                    Must("host_in", {"host_in"}, <<>>)>>
          /\ p4 = [b \in 1 .. Len(o.batches) |-> Try("product", {})]
    OBVIOUS
  <1>3. p3 = p1 \o p2
    <2>1. PICK a, b, c, d : /\ a = Must("find tensor", {}, Context) /\ b = Must("resident", {}, Context)
                             /\ c = Must("geometry", {}, Context)
                             /\ d = Must("linear init", {}, Context)
      OBVIOUS
    <2>2. PICK e, f, g, h, k, l :
             /\ e = Must("workspace", {"workspace"}, Context)
             /\ f = Must("set workspace", {}, <<"workspace">> \o Context)
             /\ g = Try("stream", {"stream"}) /\ h = Try("input", {"input"})
             /\ k = Try("output", {"output"}) /\ l = Must("host_in", {"host_in"}, <<>>)
      OBVIOUS
    <2>3. p1 = <<a, b, c, d>> /\ p2 = <<e, f, g, h, k, l>> /\ p3 = <<a, b, c, d, e, f, g, h, k, l>>
      BY <1>2, <2>1, <2>2
    <2>4. <<a, b, c, d, e, f, g, h, k, l>> = <<a, b, c, d>> \o <<e, f, g, h, k, l>>
      OBVIOUS
    <2> QED BY <2>3, <2>4
  <1>4. Bench(o) = ((Open \o Load) \o p3) \o p4
    BY <1>2 DEF Bench
  <1>5. Leads(p1, Spot(HasContext, {}, TRUE), Spot(HasContext, {}, TRUE))
    <2>1. \A name : Leads(<<Must(name, {}, Context)>>, Spot(HasContext, {}, TRUE), Spot(HasContext, {}, TRUE))
      BY SpotsAreOK, ContextUndone, OneCheck
    <2> QED BY <1>2, <2>1, LeadsFour
  <1>6. Leads(p2, Spot(HasContext, {}, TRUE), Spot(HasInput, {"stream", "input", "output"}, TRUE))
    <2>1. Leads(<<Must("workspace", {"workspace"}, Context)>>,
                Spot(HasContext, {}, TRUE), Spot(HasWorkspace, {}, TRUE))
      <3>1. HasWorkspace = HasContext \cup {"workspace"}
        BY DEF HasWorkspace
      <3> QED BY <3>1, SpotsAreOK, BenchIsOK, ContextUndone, OneTake
    <2>2. Leads(<<Must("set workspace", {}, <<"workspace">> \o Context)>>,
                Spot(HasWorkspace, {}, TRUE), Spot(HasWorkspace, {}, TRUE))
      BY BenchIsOK, WorkspaceUndone, OneCheck
    <2>3. Leads(<<Try("stream", {"stream"})>>, Spot(HasWorkspace, {}, TRUE), Spot(HasWorkspace, {"stream"}, TRUE))
      <3>1. {"stream"} = {} \cup {"stream"}
        OBVIOUS
      <3> QED BY <3>1, BenchIsOK, OneTry
    <2>4. Leads(<<Try("input", {"input"})>>, Spot(HasWorkspace, {"stream"}, TRUE),
                Spot(HasWorkspace, {"stream", "input"}, TRUE))
      <3>1. {"stream", "input"} = {"stream"} \cup {"input"}
        OBVIOUS
      <3> QED BY <3>1, BenchIsOK, OneTry
    <2>5. Leads(<<Try("output", {"output"})>>, Spot(HasWorkspace, {"stream", "input"}, TRUE),
                Spot(HasWorkspace, {"stream", "input", "output"}, TRUE))
      <3>1. {"stream", "input", "output"} = {"stream", "input"} \cup {"output"}
        OBVIOUS
      <3> QED BY <3>1, BenchIsOK, OneTry
    <2>6. Leads(<<Must("host_in", {"host_in"}, <<>>)>>, Spot(HasWorkspace, {"stream", "input", "output"}, TRUE),
                Spot(HasInput, {"stream", "input", "output"}, TRUE))
      <3>1. HasInput = HasWorkspace \cup {"host_in"} /\ "host_in" \in Unchecked
        BY DEF HasInput, Unchecked
      <3> QED BY <3>1, BenchIsOK, OneMust
    <2>7. PICK s0, s1, s2, s3, s4, s5 :
             /\ s0 = Spot(HasContext, {}, TRUE) /\ s1 = Spot(HasWorkspace, {}, TRUE)
             /\ s2 = Spot(HasWorkspace, {"stream"}, TRUE)
             /\ s3 = Spot(HasWorkspace, {"stream", "input"}, TRUE)
             /\ s4 = Spot(HasWorkspace, {"stream", "input", "output"}, TRUE)
             /\ s5 = Spot(HasInput, {"stream", "input", "output"}, TRUE)
      OBVIOUS
    <2>8. PICK e, f, g, h, k, l :
             /\ e = Must("workspace", {"workspace"}, Context)
             /\ f = Must("set workspace", {}, <<"workspace">> \o Context)
             /\ g = Try("stream", {"stream"}) /\ h = Try("input", {"input"})
             /\ k = Try("output", {"output"}) /\ l = Must("host_in", {"host_in"}, <<>>)
      OBVIOUS
    <2>9. Leads(<<e>>, s0, s1) /\ Leads(<<f>>, s1, s1) /\ Leads(<<g>>, s1, s2)
      BY <2>1, <2>2, <2>3, <2>7, <2>8
    <2>10. Leads(<<h>>, s2, s3) /\ Leads(<<k>>, s3, s4) /\ Leads(<<l>>, s4, s5)
      BY <2>4, <2>5, <2>6, <2>7, <2>8
    <2>11. Leads(<<e, f, g, h, k, l>>, s0, s5)
      BY <2>9, <2>10, LeadsSix
    <2>12. p2 = <<e, f, g, h, k, l>>
      BY <1>2, <2>8
    <2> QED BY <2>7, <2>11, <2>12
  <1>7. Leads(p4, Spot(HasInput, {"stream", "input", "output"}, TRUE),
              Spot(HasInput, {"stream", "input", "output"}, TRUE))
    BY <1>2, BenchIsOK, LeadsAgain
  <1>8. Leads(p3, Spot(HasContext, {}, TRUE), Spot(HasInput, {"stream", "input", "output"}, TRUE))
    BY <1>3, <1>5, <1>6, LeadsJoin
  <1>9. Leads(Open \o Load, AtFirst, Spot(HasContext, {}, TRUE))
    BY OpenLeads, LoadLeads, LeadsJoin
  <1>10. Leads((Open \o Load) \o p3, AtFirst, Spot(HasInput, {"stream", "input", "output"}, TRUE))
    BY <1>8, <1>9, LeadsJoin
  <1>11. Leads(Bench(o), AtFirst, Spot(HasInput, {"stream", "input", "output"}, TRUE))
    BY <1>4, <1>7, <1>10, LeadsJoin
  <1> QED BY <1>1, <1>11, BenchUndone DEF Ready

\* The benchmark of decisions.
LEMMA DecisionsAreOK ==
  /\ SpotOK(Spot({"fh"}, {}, FALSE)) /\ SpotOK(Spot({"fh", "text"}, {}, FALSE))
  /\ SpotOK(Spot({"text"}, {}, FALSE)) /\ SpotOK(Spot({"request"}, {}, FALSE))
  /\ SpotOK(Spot({"request", "model"}, {}, FALSE))
  /\ SpotOK(Spot({"request", "model", "results"}, {}, FALSE))
  BY UsesIs DEF SpotOK, Spot

LEMMA DecisionsUndone ==
  /\ Undoes(AtFirst, <<>>) /\ Undoes(Spot({"fh"}, {}, FALSE), <<"fh">>)
  /\ Undoes(Spot({"text"}, {}, FALSE), <<"text">>) /\ Undoes(Spot({"request"}, {}, FALSE), <<"request">>)
  /\ Undoes(Spot({"request", "model"}, {}, FALSE), <<"model", "request">>)
  /\ Undoes(Spot({"request", "model", "results"}, {}, FALSE), <<"results", "model", "request">>)
  <1>1. Undoes(Spot({}, {}, FALSE), <<>>)
    BY UndoNothing
  <1>2. ASSUME NEW r \in Things \ {"context", "plan", "weights", "rt", "lrt", "results"}
        PROVE  Undoes(Spot({r}, {}, FALSE), <<r>>)
    <2>1. {r} = {} \cup {r} /\ r \notin {} /\ \A s \in {r} : r \notin Uses(s)
      BY UsesIs
    <2>2. Undoes(Spot({r}, {}, FALSE), <<r>> \o <<>>)
      BY <1>1, <2>1, UndoMust
    <2>3. <<r>> \o <<>> = <<r>>
      OBVIOUS
    <2> QED BY <2>2, <2>3
  <1>3. /\ Undoes(Spot({"fh"}, {}, FALSE), <<"fh">>) /\ Undoes(Spot({"text"}, {}, FALSE), <<"text">>)
        /\ Undoes(Spot({"request"}, {}, FALSE), <<"request">>)
    BY <1>2 DEF Things
  <1>4. Undoes(Spot({"request", "model"}, {}, FALSE), <<"model", "request">>)
    <2>1. {"request", "model"} = {"request"} \cup {"model"} /\ "model" \notin {"request"}
          /\ "model" \in Things /\ \A s \in {"request", "model"} : "model" \notin Uses(s)
      BY UsesIs DEF Things
    <2>2. Undoes(Spot({"request", "model"}, {}, FALSE), <<"model">> \o <<"request">>)
      BY <1>3, <2>1, UndoMust
    <2> QED BY <2>2, Written
  <1>5. Undoes(Spot({"request", "model", "results"}, {}, FALSE), <<"results", "model", "request">>)
    <2>1. {"request", "model", "results"} = {"request", "model"} \cup {"results"}
          /\ "results" \notin {"request", "model"} /\ "results" \in Things
          /\ \A s \in {"request", "model", "results"} : "results" \notin Uses(s)
      BY UsesIs DEF Things
    <2>2. Undoes(Spot({"request", "model", "results"}, {}, FALSE), <<"results">> \o <<"model", "request">>)
      BY <1>4, <2>1, UndoMust
    <2>3. <<"results", "model", "request">> = <<"results">> \o <<"model", "request">>
      OBVIOUS
    <2> QED BY <2>2, <2>3
  <1> QED BY <1>1, <1>3, <1>4, <1>5 DEF AtFirst

LEMMA DecisionsReady ==
  ASSUME NEW o, NEW diag, o.mode = "--bench-decisions" PROVE Ready(o, diag)
  <1>1. Program(o, diag) = BenchDecisions /\ AtEnd(o) = <<"results", "model", "request">>
    BY DEF Program, AtEnd
  <1>2. PICK p1, p2 :
          /\ p1 = <<Must("fopen", {"fh"}, <<>>), Must("seek", {}, <<"fh">>), Must("size", {}, <<"fh">>),
                    Must("malloc", {"text"}, <<"fh">>)>>
          /\ p2 = <<Drop({"fh"}), Call("parse", {"request"}, {"text"}, <<"text">>, 1, 0),
                    Must("load model", {"model"}, <<"request">>),
                    Must("run", {"results"}, <<"model", "request">>)>>
    OBVIOUS
  <1>3. BenchDecisions = p1 \o p2
    <2>1. PICK a, b, c, d : /\ a = Must("fopen", {"fh"}, <<>>) /\ b = Must("seek", {}, <<"fh">>)
                             /\ c = Must("size", {}, <<"fh">>) /\ d = Must("malloc", {"text"}, <<"fh">>)
      OBVIOUS
    <2>2. PICK e, f, g, h :
             /\ e = Drop({"fh"}) /\ f = Call("parse", {"request"}, {"text"}, <<"text">>, 1, 0)
             /\ g = Must("load model", {"model"}, <<"request">>)
             /\ h = Must("run", {"results"}, <<"model", "request">>)
      OBVIOUS
    <2>3. p1 = <<a, b, c, d>> /\ p2 = <<e, f, g, h>> /\ BenchDecisions = <<a, b, c, d, e, f, g, h>>
      BY <1>2, <2>1, <2>2 DEF BenchDecisions
    <2>4. <<a, b, c, d, e, f, g, h>> = <<a, b, c, d>> \o <<e, f, g, h>>
      OBVIOUS
    <2> QED BY <2>3, <2>4
  <1>4. Leads(p1, AtFirst, Spot({"fh", "text"}, {}, FALSE))
    <2>1. Leads(<<Must("fopen", {"fh"}, <<>>)>>, AtFirst, Spot({"fh"}, {}, FALSE))
      <3>1. {"fh"} = {} \cup {"fh"}
        OBVIOUS
      <3> QED BY <3>1, SpotsAreOK, DecisionsAreOK, DecisionsUndone, OneTake DEF AtFirst
    <2>2. Leads(<<Must("seek", {}, <<"fh">>)>>, Spot({"fh"}, {}, FALSE), Spot({"fh"}, {}, FALSE))
      BY DecisionsAreOK, DecisionsUndone, OneCheck
    <2>3. Leads(<<Must("size", {}, <<"fh">>)>>, Spot({"fh"}, {}, FALSE), Spot({"fh"}, {}, FALSE))
      BY DecisionsAreOK, DecisionsUndone, OneCheck
    <2>4. Leads(<<Must("malloc", {"text"}, <<"fh">>)>>, Spot({"fh"}, {}, FALSE), Spot({"fh", "text"}, {}, FALSE))
      <3>1. {"fh", "text"} = {"fh"} \cup {"text"}
        OBVIOUS
      <3> QED BY <3>1, DecisionsAreOK, DecisionsUndone, OneTake
    <2> QED BY <1>2, <2>1, <2>2, <2>3, <2>4, LeadsFour
  <1>5. Leads(p2, Spot({"fh", "text"}, {}, FALSE), Spot({"request", "model", "results"}, {}, FALSE))
    <2>1. Leads(<<Drop({"fh"})>>, Spot({"fh", "text"}, {}, FALSE), Spot({"text"}, {}, FALSE))
      <3>1. {"text"} = {"fh", "text"} \ {"fh"} /\ {"fh"} \cap OnDevice = {}
        BY DEF OnDevice
      <3> QED BY <3>1, DecisionsAreOK, OneDrop
    <2>2. Leads(<<Call("parse", {"request"}, {"text"}, <<"text">>, 1, 0)>>,
                Spot({"text"}, {}, FALSE), Spot({"request"}, {}, FALSE))
      <3>1. PICK c : c = Call("parse", {"request"}, {"text"}, <<"text">>, 1, 0)
        OBVIOUS
      <3>2. c.gives = {"request"} /\ c.drops = {"text"} /\ c.undo = <<"text">> /\ c.rc = 1 /\ c.skip = 0
        BY <3>1 DEF Call
      <3>3. Gives(c, Spot({"text"}, {}, FALSE), Spot({"request"}, {}, FALSE))
        BY <3>2 DEF Gives, Spot, OnDevice
      <3>4. c.skip \in Nat /\ c.rc # 0
        BY <3>2
      <3>6. Undoes(Spot({"text"}, {}, FALSE), c.undo)
        BY <3>2, DecisionsUndone, Zenon
      <3>5. Leads(<<c>>, Spot({"text"}, {}, FALSE), Spot({"request"}, {}, FALSE))
        BY <3>3, <3>4, <3>6, DecisionsAreOK, LeadsOne
      <3> QED BY <3>1, <3>5
    <2>3. Leads(<<Must("load model", {"model"}, <<"request">>)>>,
                Spot({"request"}, {}, FALSE), Spot({"request", "model"}, {}, FALSE))
      <3>1. {"request", "model"} = {"request"} \cup {"model"}
        OBVIOUS
      <3> QED BY <3>1, DecisionsAreOK, DecisionsUndone, OneTake
    <2>4. Leads(<<Must("run", {"results"}, <<"model", "request">>)>>,
                Spot({"request", "model"}, {}, FALSE), Spot({"request", "model", "results"}, {}, FALSE))
      <3>1. {"request", "model", "results"} = {"request", "model"} \cup {"results"}
        OBVIOUS
      <3> QED BY <3>1, DecisionsAreOK, DecisionsUndone, OneTake
    <2> QED BY <1>2, <2>1, <2>2, <2>3, <2>4, LeadsFour
  <1>6. Leads(BenchDecisions, AtFirst, Spot({"request", "model", "results"}, {}, FALSE))
    BY <1>3, <1>4, <1>5, LeadsJoin
  <1> QED BY <1>1, <1>6, DecisionsUndone DEF Ready

Commands == ModeOptions \cup {"--platform", "--list-tensors"}

LEMMA CommandsReady ==
  ASSUME NEW o, NEW diag, o.mode \in Commands, Len(o.batches) \in Nat PROVE Ready(o, diag)
  <1>1. o.mode \in {"--platform", "--inspect", "--list-tensors", "--memory-plan", "--load-only",
                    "--forward", "--bench-q4-linear", "--bench-decisions"}
    BY DEF Commands, ModeOptions
  <1> QED BY <1>1, PlatformReady, InspectReady, MemoryPlanReady, LoadOnlyReady, ForwardReady,
             BenchReady, DecisionsReady

-----------------------------------------------------------------------------
(* What a command holds.                                                   *)

\* What is being given back is there, or was never had, and its users go first.
Returns(u, h, t) ==
    /\ u \in Seq(Things)
    /\ \A a, b \in DOMAIN u : u[a] = u[b] => a = b
    /\ \A a \in DOMAIN u : u[a] \in h \cup (OnDevice \ t)
    /\ \A a \in DOMAIN u : \A s \in h : u[a] \in Uses(s) => \E b \in 1 .. a - 1 : u[b] = s
Closed(h) == \A r \in h : Uses(r) \subseteq h
OptionsOK ==
    /\ options = [mode |-> options.mode, path |-> options.path, given |-> options.given,
                  batches |-> options.batches]
    /\ options.mode \in Commands \cup {"none"} /\ options.batches \in Seq(Int)
OnWay ==
    /\ at \in 1 .. Len(Calls) + 1
    /\ \E f, x : /\ Way(Calls, f, 0, x) /\ f[Len(Calls)] = x /\ Undoes(x, AtEnd(options))
                 /\ Within(f[at - 1], held \ Ranged(release), taken, initialized)
CommandInv ==
    /\ args \in Arguments /\ next_arg \in Nat \ {0} /\ OptionsOK
    /\ Closed(held) /\ Returns(release, held, taken)
    /\ stage \in {"parse", "run", "leave", "exit"}
    /\ stage = "parse" => held = {} /\ taken = {} /\ release = <<>> /\ at = 1
    /\ stage = "run" => OnWay
    /\ stage = "leave" => held \ Ranged(release) \subseteq IF initialized THEN OnDevice ELSE {}
    /\ stage = "exit" => release = <<>> /\ (code # Crashed => held = {})

LEMMA NoReturns == ASSUME NEW h, NEW t PROVE Returns(<<>>, h, t) /\ Ranged(<<>>) = {}
  BY DEF Returns, Ranged

LEMMA DeviceUses == ASSUME NEW r \in OnDevice PROVE Uses(r) = {}
  BY UsesIs DEF OnDevice

LEMMA WithinCloses ==
  ASSUME NEW x, NEW h, NEW t, NEW z, SpotOK(x), Within(x, h, t, z) PROVE Closed(h)
  BY DeviceUses DEF SpotOK, Within, Closed

LEMMA UnwindsReturns ==
  ASSUME NEW x, NEW h, NEW t, NEW z, NEW u, SpotOK(x), Within(x, h, t, z), Unwinds(x, u),
         u \in Seq(Things)
  PROVE  Returns(u, h, t)
  <1>1. ASSUME NEW a \in DOMAIN u PROVE u[a] \in h \cup (OnDevice \ t)
    <2>1. u[a] \in x.must \cup x.may
      BY DEF Unwinds
    <2> QED BY <2>1 DEF SpotOK, Within
  <1>2. ASSUME NEW a \in DOMAIN u, NEW s \in h, u[a] \in Uses(s) PROVE \E b \in 1 .. a - 1 : u[b] = s
    <2>1. s \in x.must
      BY <1>2, DeviceUses DEF SpotOK, Within
    <2> QED BY <1>2, <2>1 DEF Unwinds
  <1>3. \A a, b \in DOMAIN u : u[a] = u[b] => a = b
    BY DEF Unwinds
  <1> QED BY <1>1, <1>2, <1>3 DEF Returns

\* Giving back the first of the list.
LEMMA ReturnFirst ==
  ASSUME NEW u, NEW h, NEW t, Returns(u, h, t), u # <<>>, Closed(h)
  PROVE  /\ Returns(Tail(u), h \ {Head(u)}, t) /\ Closed(h \ {Head(u)})
         /\ (h \ {Head(u)}) \ Ranged(Tail(u)) = h \ Ranged(u)
         /\ Head(u) \in h \cup (OnDevice \ t)
  <1>1. PICK v, r, k : v = Tail(u) /\ r = Head(u) /\ k = h \ {Head(u)}
    OBVIOUS
  <1>2. u \in Seq(Things) /\ Len(u) \in Nat \ {0} /\ DOMAIN u = 1 .. Len(u)
    BY DEF Returns
  <1>3. v \in Seq(Things) /\ Len(v) = Len(u) - 1 /\ DOMAIN v = 1 .. Len(u) - 1
        /\ r = u[1] /\ \A a \in 1 .. Len(u) - 1 : v[a] = u[a + 1]
    BY <1>1, <1>2
  <1>4. r \in h \cup (OnDevice \ t)
    BY <1>2, <1>3 DEF Returns
  <1>5. \A s \in h : r \notin Uses(s)
    <2> SUFFICES ASSUME NEW s \in h, u[1] \in Uses(s) PROVE FALSE
      BY <1>3
    <2>1. \E b \in 1 .. 1 - 1 : u[b] = s
      BY <1>2 DEF Returns
    <2> QED BY <2>1
  <1>6. Closed(k)
    BY <1>1, <1>5 DEF Closed
  <1>7. \A a \in DOMAIN v : a + 1 \in DOMAIN u /\ v[a] = u[a + 1] /\ a + 1 # 1
    BY <1>2, <1>3
  <1>8. ASSUME NEW a \in DOMAIN v PROVE v[a] \in k \cup (OnDevice \ t)
    <2>1. v[a] # r
      BY <1>2, <1>3, <1>7 DEF Returns
    <2> QED BY <1>1, <1>7, <2>1 DEF Returns
  <1>9. ASSUME NEW a \in DOMAIN v, NEW b \in DOMAIN v, v[a] = v[b] PROVE a = b
    <2>1. a + 1 = b + 1
      BY <1>7, <1>9 DEF Returns
    <2> QED BY <1>2, <1>3, <2>1
  <1>10. ASSUME NEW a \in DOMAIN v, NEW s \in k, v[a] \in Uses(s) PROVE \E b \in 1 .. a - 1 : v[b] = s
    <2>1. PICK b \in 1 .. (a + 1) - 1 : u[b] = s
      BY <1>1, <1>7, <1>10 DEF Returns
    <2>2. b # 1
      BY <1>1, <1>3, <2>1
    <2>3. b - 1 \in 1 .. a - 1 /\ v[b - 1] = s
      BY <1>2, <1>3, <2>1, <2>2
    <2> QED BY <2>3
  <1>11. Returns(v, k, t)
    BY <1>3, <1>8, <1>9, <1>10 DEF Returns
  <1>12. Ranged(u) = Ranged(v) \cup {r}
    <2>1. ASSUME NEW a \in DOMAIN u PROVE u[a] \in Ranged(v) \cup {r}
      <3>1. CASE a = 1
        BY <1>3, <3>1
      <3>2. CASE a # 1
        <4>1. a - 1 \in DOMAIN v /\ v[a - 1] = u[a]
          BY <1>2, <1>3, <3>2
        <4> QED BY <4>1 DEF Ranged
      <3> QED BY <3>1, <3>2
    <2>2. r \in Ranged(u)
      BY <1>2, <1>3 DEF Ranged
    <2>3. ASSUME NEW a \in DOMAIN v PROVE v[a] \in Ranged(u)
      BY <1>7 DEF Ranged
    <2> QED BY <2>1, <2>2, <2>3 DEF Ranged
  <1> QED BY <1>1, <1>4, <1>6, <1>11, <1>12

-----------------------------------------------------------------------------
(* The steps of a command.                                                 *)

LEMMA BatchesAre == ASSUME NEW v \in DOMAIN ListOf PROVE Batches(v) \in Seq(Int)
  <1>1. PICK ns : ns = ListOf[v] /\ ns \in Seq(Int)
    BY CommandLineAssumption
  <1>2. Len(ns) \in Nat /\ DOMAIN ns = 1 .. Len(ns) /\ MaxBatches \in Nat \ {0} /\ IntMax \in Nat
    BY <1>1, CommandLineAssumption
  <1> DEFINE bad == {k \in DOMAIN ns : ns[k] <= 0} \cup {MaxBatches + 1, Len(ns) + 1}
             m == CHOOSE k \in bad : \A j \in bad : k <= j
  <1>3. bad \subseteq Nat \ {0} /\ bad # {}
    BY <1>2
  <1>4. m \in bad /\ \A j \in bad : m <= j
    <2>1. \E k \in bad : \A j \in bad : k <= j
      <3> HIDE DEF bad
      <3>1. bad \subseteq Nat
        BY <1>3
      <3> QED BY <1>3, <3>1, LeastExists
    <2> HIDE DEF bad
    <2> QED BY <2>1
  <1>5. m \in Nat /\ m - 1 \in Nat /\ m <= Len(ns) + 1
    <2>1. Len(ns) + 1 \in bad
      OBVIOUS
    <2> HIDE DEF m, bad
    <2>2. m \in Nat \ {0}
      BY <1>3, <1>4
    <2> QED BY <1>4, <2>1, <2>2
  <1>6. Batches(v) = [k \in 1 .. m - 1 |-> ((ns[k] + IntMax + 1) % (2 * IntMax + 2)) - IntMax - 1]
    BY <1>1 DEF Batches
  <1> HIDE DEF m, bad
  <1>7. ASSUME NEW k \in 1 .. m - 1 PROVE ((ns[k] + IntMax + 1) % (2 * IntMax + 2)) - IntMax - 1 \in Int
    <2>1. ns[k] \in Int
      <3>1. k \in 1 .. Len(ns) /\ ns \in Seq(Int)
        BY <1>1, <1>2, <1>5
      <3>2. \A s \in Seq(Int) : \A j \in 1 .. Len(s) : s[j] \in Int
        OBVIOUS
      <3> QED BY ONLY <3>1, <3>2
    <2>2. PICK d, n : d = 2 * IntMax + 2 /\ n = ns[k] + IntMax + 1
      OBVIOUS
    <2>3. d \in Nat \ {0} /\ n \in Int
      BY <1>2, <2>1, <2>2
    <2>4. n % d \in 0 .. d - 1
      BY <2>3
    <2> QED BY <1>2, <2>2, <2>3, <2>4
  <1> QED BY <1>5, <1>6, <1>7

LEMMA CommandStart == CommandInit => CommandInv
  <1> SUFFICES ASSUME CommandInit PROVE CommandInv
    OBVIOUS
  <1>1. OptionsOK
    BY DEF CommandInit, OptionsOK
  <1>2. Closed({}) /\ Returns(<<>>, {}, {})
    BY NoReturns DEF Closed
  <1> QED BY <1>1, <1>2 DEF CommandInit, CommandInv

\* The same command at the same place.
LEMMA SameCalls ==
  ASSUME UNCHANGED options, UNCHANGED diagnose PROVE Calls' = Calls /\ AtEnd(options)' = AtEnd(options)
  BY DEF Calls

LEMMA SameOptions ==
  ASSUME UNCHANGED options, OptionsOK PROVE OptionsOK'
  BY DEF OptionsOK

LEMMA ArgumentRead == ASSUME CommandInv, ReadArgument PROVE CommandInv'
  <1>1. PICK a : a = args[next_arg]
    OBVIOUS
  <1>2. /\ stage = "parse" /\ next_arg <= Len(args) /\ args \in Arguments /\ next_arg \in Nat \ {0}
        /\ OptionsOK /\ held = {} /\ taken = {} /\ release = <<>> /\ at = 1
    BY DEF ReadArgument, CommandInv
  <1>3. Closed({}) /\ Returns(<<>>, {}, {})
    BY NoReturns DEF Closed
  <1>4. CASE Usage(0) \/ Usage(2)
    <2>1. UNCHANGED <<given, parsed, gotten, release, at>> /\ stage' = "exit"
      BY <1>4 DEF Usage
    <2>2. OptionsOK'
      BY <1>2, <2>1, SameOptions DEF parsed
    <2> QED BY <1>2, <1>3, <2>1, <2>2 DEF CommandInv, given, parsed, gotten
  <1>5. CASE /\ OptionsOK' /\ next_arg' \in Nat \ {0}
             /\ UNCHANGED <<given, gotten, left, at, release>>
    BY <1>2, <1>3, <1>5 DEF CommandInv, given, gotten, left
  <1>6. CASE /\ a \in Flags \cup {"--platform"}
             /\ options' = [options EXCEPT !.mode = IF a = "--platform" THEN a ELSE @]
             /\ next_arg' = next_arg + 1
             /\ UNCHANGED <<given, gotten, left, at, release>>
    <2>1. OptionsOK'
      BY <1>2, <1>6 DEF OptionsOK, Commands
    <2> QED BY <1>2, <1>5, <1>6, <2>1
  <1>7. CASE /\ next_arg < Len(args) /\ Takes(a, args[next_arg + 1])
             /\ options' = WithValue(a, args[next_arg + 1])
             /\ next_arg' = next_arg + 2
             /\ UNCHANGED <<given, gotten, left, at, release>>
    <2>1. PICK v : v = args[next_arg + 1]
      OBVIOUS
    <2>2. CASE a \in ModeOptions
      <3>1. options' = [options EXCEPT !.mode = a, !.path = v]
        BY <1>7, <2>1, <2>2 DEF WithValue
      <3>2. OptionsOK'
        BY <1>2, <2>2, <3>1 DEF OptionsOK, Commands
      <3> QED BY <1>2, <1>5, <1>7, <3>2
    <2>3. CASE a = "--batch"
      <3>1. v \in DOMAIN ListOf
        <4>1. PICK k : k = next_arg + 1
          OBVIOUS
        <4>2. args \in Seq(STRING) /\ Len(args) \in Nat
          BY <1>2, CommandLineAssumption
        <4>3. k \in 2 .. Len(args) /\ k - 1 = next_arg
          BY <1>2, <1>7, <4>1, <4>2
        <4> QED BY <1>1, <1>2, <2>1, <2>3, <4>1, <4>3, CommandLineAssumption
      <3>2. options' = [options EXCEPT !.batches = Batches(v)]
        BY <1>7, <2>1, <2>3 DEF WithValue, ModeOptions
      <3>3. OptionsOK'
        BY <1>2, <3>1, <3>2, BatchesAre DEF OptionsOK
      <3> QED BY <1>2, <1>5, <1>7, <3>3
    <2>4. CASE a \notin ModeOptions \cup {"--batch"}
      <3>1. options' = [options EXCEPT !.given = Set(a, v)]
        BY <1>7, <2>1, <2>4 DEF WithValue
      <3>2. OptionsOK'
        BY <1>2, <3>1 DEF OptionsOK
      <3> QED BY <1>2, <1>5, <1>7, <3>2
    <2> QED BY <2>2, <2>3, <2>4
  <1> QED BY <1>1, <1>4, <1>6, <1>7 DEF ReadArgument

\* What the place of a run says of the next call.
LEMMA NextCall ==
  ASSUME CommandInv, Running
  PROVE  \E f, x : /\ Way(Calls, f, 0, x) /\ f[Len(Calls)] = x /\ Undoes(x, AtEnd(options))
                   /\ SpotOK(f[at - 1]) /\ Steps(Calls, f, 0, x, at)
                   /\ Within(f[at - 1], held, taken, initialized)
  <1>1. release = <<>> /\ at <= Len(Calls) /\ OnWay
    BY DEF Running, CommandInv
  <1>2. PICK f, x : /\ Way(Calls, f, 0, x) /\ f[Len(Calls)] = x /\ Undoes(x, AtEnd(options))
                    /\ Within(f[at - 1], held \ Ranged(release), taken, initialized)
    BY <1>1 DEF OnWay
  <1>3. held \ Ranged(release) = held
    BY <1>1, NoReturns
  <1>4. Len(Calls) \in Nat /\ at \in 1 .. Len(Calls) /\ at - 1 \in 0 .. Len(Calls)
    BY <1>1, <1>2 DEF OnWay, Way
  <1>5. SpotOK(f[at - 1]) /\ Steps(Calls, f, 0, x, at)
    BY <1>2, <1>4 DEF Way
  <1> QED BY <1>2, <1>3, <1>5

LEMMA Succeeds == ASSUME CommandInv, Succeed PROVE CommandInv'
  <1>1. Running
    BY DEF Succeed
  <1>2. PICK f, x : /\ Way(Calls, f, 0, x) /\ f[Len(Calls)] = x /\ Undoes(x, AtEnd(options))
                    /\ SpotOK(f[at - 1]) /\ Steps(Calls, f, 0, x, at)
                    /\ Within(f[at - 1], held, taken, initialized)
    BY <1>1, NextCall
  <1>3. PICK c : c = Calls[at]
    OBVIOUS
  <1>4. /\ held' = (held \cup c.gives) \ c.drops /\ taken' = taken \cup c.gives
        /\ initialized' = (initialized \/ c.name \in Initialize)
        /\ at' = at + 1 /\ release' = release
        /\ UNCHANGED <<given, parsed, left>>
    BY <1>3 DEF Succeed
  <1>5. at \in 1 .. Len(Calls) /\ Len(Calls) \in Nat /\ stage = "run" /\ release = <<>>
    BY <1>1, <1>2 DEF Running, CommandInv, OnWay, Way
  <1>6. Gives(c, f[at - 1], f[at]) /\ SpotOK(f[at])
    BY <1>2, <1>3, <1>5 DEF Steps, Way
  <1>7. Within(f[at], held', taken', initialized')
    <2>1. f[at].must \subseteq held'
      BY <1>2, <1>4, <1>6 DEF Gives, Within
    <2>2. held' \subseteq f[at].must \cup f[at].may
      BY <1>2, <1>4, <1>6 DEF Gives, Within
    <2>3. OnDevice \cap taken' \subseteq held'
      BY <1>2, <1>4, <1>6 DEF Gives, Within
    <2>4. f[at].init => initialized'
      BY <1>2, <1>4, <1>6 DEF Gives, Within
    <2> QED BY <2>1, <2>2, <2>3, <2>4 DEF Within
  <1>8. Calls' = Calls /\ AtEnd(options)' = AtEnd(options) /\ OptionsOK'
    BY <1>4, SameCalls, SameOptions DEF given, parsed, CommandInv
  <1>9. OnWay'
    <2>1. at' - 1 = at /\ at' \in 1 .. Len(Calls) + 1
      BY <1>4, <1>5
    <2>2. held' \ Ranged(release') = held'
      BY <1>4, <1>5, NoReturns
    <2>3. Within(f[at' - 1], held' \ Ranged(release'), taken', initialized')
      BY <1>7, <2>1, <2>2
    <2> QED BY <1>2, <1>8, <2>1, <2>3 DEF OnWay
  <1>10. Closed(held') /\ Returns(release', held', taken')
    BY <1>4, <1>5, <1>6, <1>7, WithinCloses, NoReturns
  <1>11. stage' = "run" /\ args' \in Arguments /\ next_arg' \in Nat \ {0}
    BY <1>4, <1>5 DEF given, parsed, left, CommandInv
  <1> QED BY <1>8, <1>9, <1>10, <1>11 DEF CommandInv

LEMMA Fails == ASSUME CommandInv, Fail PROVE CommandInv'
  <1>1. Running
    BY DEF Fail
  <1>2. PICK f, x : /\ Way(Calls, f, 0, x) /\ f[Len(Calls)] = x /\ Undoes(x, AtEnd(options))
                    /\ SpotOK(f[at - 1]) /\ Steps(Calls, f, 0, x, at)
                    /\ Within(f[at - 1], held, taken, initialized)
    BY <1>1, NextCall
  <1>3. PICK c : c = Calls[at]
    OBVIOUS
  <1>4. PICK y : y = f[at - 1]
    OBVIOUS
  <1>5. /\ Fallible(c) /\ release' = c.undo /\ held' = held /\ taken' = taken
        /\ IF c.rc = 0 THEN at' = at + 1 + c.skip /\ UNCHANGED left
           ELSE stage' = "leave" /\ code' = c.rc /\ UNCHANGED at
        /\ UNCHANGED <<given, parsed>>
    BY <1>3 DEF Fail, Fallible
  <1>6. initialized => initialized'
    BY DEF Fail
  <1>7. at \in 1 .. Len(Calls) /\ Len(Calls) \in Nat /\ stage = "run"
    BY <1>1, <1>2 DEF Running, CommandInv, OnWay, Way
  <1>8. Calls' = Calls /\ AtEnd(options)' = AtEnd(options) /\ OptionsOK'
    BY <1>5, SameCalls, SameOptions DEF given, parsed, CommandInv
  <1>9. Closed(held') /\ args' \in Arguments /\ next_arg' \in Nat \ {0}
    BY <1>5 DEF given, parsed, CommandInv
  <1>10. CASE c.rc # 0
    <2>1. Undoes(y, c.undo)
      BY <1>2, <1>3, <1>4, <1>5, <1>10 DEF Steps
    <2>2. Returns(release', held', taken')
      BY <1>2, <1>4, <1>5, <2>1, UnwindsReturns DEF Undoes
    <2>3. held' \ Ranged(release') \subseteq IF initialized' THEN OnDevice ELSE {}
      BY <1>2, <1>4, <1>5, <1>6, <2>1 DEF Undoes, Within
    <2> QED BY <1>5, <1>8, <1>9, <1>10, <2>2, <2>3 DEF CommandInv
  <1>11. CASE c.rc = 0
    <2>1. PICK k : k = at + c.skip
      OBVIOUS
    <2>2. c.skip \in Nat /\ k \in 0 .. Len(Calls) /\ GoesOn(c, y, f[k])
      <3>1. c.skip \in Nat /\ \/ k <= Len(Calls) /\ GoesOn(c, y, f[k])
                              \/ k = Len(Calls) + 0 /\ GoesOn(c, y, x)
        BY <1>2, <1>3, <1>4, <1>5, <1>11, <2>1 DEF Steps
      <3> QED BY <1>2, <1>7, <2>1, <3>1
    <2>3. at' = k + 1 /\ stage' = "run"
      BY <1>5, <1>7, <1>11, <2>1, <2>2 DEF left
    <2>4. Returns(release', held', taken')
      BY <1>2, <1>4, <1>5, <2>2, UnwindsReturns DEF GoesOn
    <2>5. Within(f[k], held' \ Ranged(release'), taken', initialized')
      BY <1>2, <1>4, <1>5, <1>6, <2>2 DEF GoesOn, Within
    <2>6. OnWay'
      <3>1. at' - 1 = k /\ at' \in 1 .. Len(Calls) + 1
        BY <1>7, <2>2, <2>3
      <3>2. Within(f[at' - 1], held' \ Ranged(release'), taken', initialized')
        BY <2>5, <3>1
      <3> QED BY <1>2, <1>8, <3>1, <3>2 DEF OnWay
    <2> QED BY <1>8, <1>9, <2>3, <2>4, <2>6 DEF CommandInv
  <1> QED BY <1>10, <1>11

LEMMA Dispatches == ASSUME CommandInv, Dispatch PROVE CommandInv'
  <1>1. /\ stage = "parse" /\ held = {} /\ taken = {} /\ release = <<>> /\ at = 1 /\ OptionsOK
        /\ args \in Arguments /\ next_arg \in Nat \ {0}
    BY DEF Dispatch, CommandInv
  <1>2. Closed({}) /\ Returns(<<>>, {}, {})
    BY NoReturns DEF Closed
  <1>3. CASE options.mode = "none"
    <2>1. UNCHANGED <<given, parsed, gotten, release, at>> /\ stage' = "exit"
      BY <1>3 DEF Dispatch, Usage
    <2>2. OptionsOK'
      BY <1>1, <2>1, SameOptions DEF parsed
    <2> QED BY <1>1, <1>2, <2>1, <2>2 DEF CommandInv, given, parsed, gotten
  <1>4. CASE options.mode # "none"
    <2>1. UNCHANGED <<given, parsed, gotten, release, at>> /\ stage' = "run"
      BY <1>4 DEF Dispatch
    <2>2. Calls' = Calls /\ AtEnd(options)' = AtEnd(options) /\ OptionsOK'
      BY <1>1, <2>1, SameCalls, SameOptions DEF given, parsed
    <2>3. options.mode \in Commands /\ Len(options.batches) \in Nat
      BY <1>1, <1>4 DEF OptionsOK
    <2>4. PICK x : Leads(Calls, AtFirst, x) /\ Undoes(x, AtEnd(options))
      BY <2>3, CommandsReady DEF Ready, Calls
    <2>5. Reaches(Calls, AtFirst, x, 0, x)
      BY <2>4 DEF Leads
    <2>6. PICK f : Way(Calls, f, 0, x) /\ f[0] = AtFirst /\ f[Len(Calls)] = x
      BY <2>5 DEF Reaches
    <2>7. at \in 1 .. Len(Calls) + 1 /\ at - 1 = 0
      BY <1>1, <2>6 DEF Way
    <2>8. Within(AtFirst, held \ Ranged(release), taken, initialized)
      BY <1>1 DEF Within, AtFirst, Spot
    <2>9. OnWay
      BY <2>4, <2>6, <2>7, <2>8 DEF OnWay
    <2>10. OnWay'
      BY <2>1, <2>2, <2>9 DEF OnWay, gotten
    <2> QED BY <1>1, <1>2, <2>1, <2>2, <2>10 DEF CommandInv, given, parsed, gotten
  <1> QED BY <1>3, <1>4

LEMMA Finishes == ASSUME CommandInv, Finish PROVE CommandInv'
  <1>1. stage = "run" /\ release = <<>> /\ at > Len(Calls) /\ OnWay
    BY DEF Finish, CommandInv
  <1>2. PICK f, x : /\ Way(Calls, f, 0, x) /\ f[Len(Calls)] = x /\ Undoes(x, AtEnd(options))
                    /\ Within(f[at - 1], held \ Ranged(release), taken, initialized)
    BY <1>1 DEF OnWay
  <1>3. Len(Calls) \in Nat /\ at - 1 = Len(Calls) /\ Len(Calls) \in 0 .. Len(Calls)
    BY <1>1, <1>2 DEF OnWay, Way
  <1>4. Within(x, held, taken, initialized) /\ SpotOK(x)
    BY <1>1, <1>2, <1>3, NoReturns DEF Way
  <1>5. /\ release' = AtEnd(options) /\ stage' = "leave"
        /\ UNCHANGED <<given, parsed, gotten, at>>
    BY DEF Finish
  <1>6. held' = held /\ taken' = taken /\ initialized' = initialized
    BY <1>5 DEF gotten
  <1>7. Returns(release', held', taken')
    BY <1>2, <1>4, <1>5, <1>6, UnwindsReturns DEF Undoes
  <1>8. held' \ Ranged(release') \subseteq IF initialized' THEN OnDevice ELSE {}
    BY <1>2, <1>4, <1>5, <1>6 DEF Undoes, Within
  <1>9. OptionsOK' /\ Closed(held') /\ args' \in Arguments /\ next_arg' \in Nat \ {0}
    BY <1>5, <1>6, SameOptions DEF CommandInv, given, parsed
  <1> QED BY <1>5, <1>7, <1>8, <1>9 DEF CommandInv

LEMMA GivesBack == ASSUME CommandInv, GiveBack PROVE CommandInv'
  <1>1. /\ release # <<>> /\ held' = held \ {Head(release)} /\ release' = Tail(release)
        /\ UNCHANGED <<given, parsed, left, at, taken, initialized>>
    BY DEF GiveBack
  <1>2. Returns(release, held, taken) /\ Closed(held)
    BY DEF CommandInv
  <1>3. Returns(release', held', taken') /\ Closed(held') /\ held' \ Ranged(release') = held \ Ranged(release)
    <2>1. /\ Returns(Tail(release), held \ {Head(release)}, taken) /\ Closed(held \ {Head(release)})
          /\ (held \ {Head(release)}) \ Ranged(Tail(release)) = held \ Ranged(release)
      BY <1>1, <1>2, ReturnFirst
    <2> QED BY <1>1, <2>1
  <1>4. Calls' = Calls /\ AtEnd(options)' = AtEnd(options) /\ OptionsOK'
    BY <1>1, SameCalls, SameOptions DEF given, parsed, CommandInv
  <1>5. OnWay => OnWay'
    BY <1>1, <1>3, <1>4 DEF OnWay
  <1>6. stage' = stage /\ args' = args /\ next_arg' = next_arg /\ initialized' = initialized
    BY <1>1 DEF left, given, parsed
  <1>7. stage \in {"run", "leave"}
    BY <1>1 DEF CommandInv
  <1> QED BY <1>1, <1>3, <1>4, <1>5, <1>6, <1>7 DEF CommandInv

LEMMA CommandLeaves == ASSUME CommandInv, Leave PROVE CommandInv'
  <1>1. /\ stage = "leave" /\ release = <<>> /\ stage' = "exit" /\ held' = CleanedUp
        /\ UNCHANGED <<given, parsed, taken, at, release>>
    BY DEF Leave
  <1>2. held \subseteq IF initialized THEN OnDevice ELSE {}
    BY <1>1, NoReturns DEF CommandInv
  <1>3. held' = {}
    BY <1>1, <1>2 DEF CleanedUp
  <1>4. Closed(held') /\ Returns(release', held', taken')
    BY <1>1, <1>3, NoReturns DEF Closed
  <1>5. OptionsOK' /\ args' \in Arguments /\ next_arg' \in Nat \ {0}
    BY <1>1, SameOptions DEF CommandInv, given, parsed
  <1> QED BY <1>1, <1>3, <1>4, <1>5 DEF CommandInv

LEMMA Crashes == ASSUME CommandInv, Crash PROVE CommandInv'
  <1>1. /\ release = <<>> /\ stage' = "exit" /\ code' = Crashed
        /\ UNCHANGED <<given, parsed, gotten, at, release>>
    BY DEF Crash, Running
  <1>2. OptionsOK' /\ args' \in Arguments /\ next_arg' \in Nat \ {0}
    BY <1>1, SameOptions DEF CommandInv, given, parsed
  <1>3. Closed(held') /\ Returns(release', held', taken')
    BY <1>1 DEF CommandInv, gotten
  <1> QED BY <1>1, <1>2, <1>3 DEF CommandInv

LEMMA CommandStays == ASSUME CommandInv, UNCHANGED commandVars PROVE CommandInv'
  <1>1. UNCHANGED <<args, next_arg, options, diagnose, at, held, taken, release, initialized, stage, code>>
    BY DEF commandVars, given, parsed, gotten, left
  <1>2. Calls' = Calls /\ AtEnd(options)' = AtEnd(options) /\ OptionsOK'
    BY <1>1, SameCalls, SameOptions DEF CommandInv
  <1>3. OnWay => OnWay'
    BY <1>1, <1>2 DEF OnWay
  <1> QED BY <1>1, <1>2, <1>3 DEF CommandInv

LEMMA CommandKeeps == ASSUME CommandInv, [CommandNext]_commandVars PROVE CommandInv'
  <1>1. CASE CommandNext
    BY <1>1, ArgumentRead, Dispatches, Succeeds, Fails, Crashes, Finishes, GivesBack, CommandLeaves
       DEF CommandNext
  <1> QED BY <1>1, CommandStays

LEMMA CommandMeans == CommandInv => GivenBackInOrder
  <1> SUFFICES ASSUME CommandInv PROVE GivenBackInOrder
    OBVIOUS
  <1>1. \A r \in held : Uses(r) \subseteq held
    BY DEF CommandInv, Closed
  <1>2. release # <<>> => Head(release) \in held \cup (OnDevice \ taken)
    BY ReturnFirst DEF CommandInv
  <1> QED BY <1>1, <1>2 DEF GivenBackInOrder, CommandInv

\* Each exit of each command gives back each thing once and before what it uses,
\* whatever fails, for every command line, any number of batches and of layers.
THEOREM CommandsGiveBack == CommandSpec => []GivenBackInOrder
  <1>1. CommandInv /\ [CommandNext]_commandVars => CommandInv'
    BY CommandKeeps
  <1> QED BY CommandStart, <1>1, CommandMeans, PTL DEF CommandSpec

\* And so it does inside of a program.
THEOREM EverythingIsGivenBack == ProgramsSpec => []GivenBackInOrder
  <1>1. ProgramsInit => CommandInv
    BY CommandStart DEF ProgramsInit
  <1>2. CommandInv /\ [ProgramsNext]_programsVars => CommandInv'
    <2>1. [ProgramsNext]_programsVars => [CommandNext]_commandVars
      BY DEF ProgramsNext, CommandStep, PlanStep, ProductStep, WorkloadStep, programsVars
    <2> QED BY <2>1, CommandKeeps
  <1> QED BY <1>1, <1>2, CommandMeans, PTL DEF ProgramsSpec
=============================================================================
