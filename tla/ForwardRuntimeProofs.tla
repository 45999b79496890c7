------------------------- MODULE ForwardRuntimeProofs -------------------------
(***************************************************************************)
(* The forward runtime, for every shape of a model, any capacities and any *)
(* limits: kernels stay inside of the slices and caches they were given,   *)
(* the arena holds every product, and only recorded phases are timed.      *)
(* What a run leaves is the forward pass of its text, and a cache holds    *)
(* what it says, whatever is queued, fails or grows in between.            *)
(***************************************************************************)
EXTENDS ForwardRuntime, FiniteSetTheorems, WellFoundedInduction, TLAPS

\* The least of a set of numbers.
LEMMA LeastIn ==
  ASSUME NEW S, S \subseteq Nat, S # {}
  PROVE  \E m \in S : \A n \in S : m <= n
  <1> DEFINE R == {e \in Nat \X Nat : e[1] < e[2]}
  <1>1. IsWellFoundedOn(R, Nat)
    BY NatLessThanWellFounded, Zenon DEF OpToRel
  <1>2. PICK m \in S : \A n \in S : ~(<<n, m>> \in R)
    <2> HIDE DEF R
    <2> QED BY <1>1, WFMin, Zenon
  <1>3. ASSUME NEW n \in S, n < m PROVE FALSE
    <2>1. <<n, m>> \in R
      BY <1>3
    <2> QED BY <1>2, <2>1, Zenon
  <1> QED BY <1>3

\* The recursive function of FlattenSeq() exists.
LEMMA FlattenExists ==
  ASSUME NEW s, NEW n \in Nat
  PROVE  \E g : g = [i \in 1 .. n |-> IF i = 1 THEN s[i] ELSE g[i - 1] \o s[i]]
  <1> DEFINE Is(g, k) == g = [i \in 1 .. k |-> IF i = 1 THEN s[i] ELSE g[i - 1] \o s[i]]
             Bad == {k \in Nat : ~\E g : Is(g, k)}
  <1>1. SUFFICES ASSUME Bad # {} PROVE FALSE
    OBVIOUS
  <1>2. PICK k \in Bad : \A m \in Bad : k <= m
    BY <1>1, LeastIn
  <1>3. CASE k = 0
    <2> DEFINE g == [i \in 1 .. 0 |-> s[i]]
    <2>1. Is(g, 0)
      OBVIOUS
    <2> QED BY <1>2, <1>3, <2>1
  <1>4. CASE k # 0
    <2>1. k \in Nat /\ k - 1 \in Nat /\ k - 1 \notin Bad
      <3>1. k \in Nat
        BY <1>2
      <3>2. k - 1 \in Nat /\ ~(k <= k - 1)
        BY <1>4, <3>1
      <3> HIDE DEF Bad
      <3> QED BY <1>2, <3>1, <3>2
    <2>2. PICK g : Is(g, k - 1)
      <3>1. ~~\E g : Is(g, k - 1)
        BY <2>1, Zenon
      <3> QED BY <3>1
    <2> DEFINE h == [i \in 1 .. k |-> IF i \in 1 .. k - 1 THEN g[i]
                                     ELSE IF k = 1 THEN s[1] ELSE g[k - 1] \o s[k]]
    <2>3. \A i \in 1 .. k - 1 : g[i] = IF i = 1 THEN s[i] ELSE g[i - 1] \o s[i]
      BY <2>2
    <2>4. ASSUME NEW i \in 1 .. k
          PROVE  h[i] = IF i = 1 THEN s[i] ELSE h[i - 1] \o s[i]
      <3>1. CASE i = 1
        <4>1. CASE k = 1
          BY <3>1, <4>1
        <4>2. CASE k # 1
          <5>1. 1 \in 1 .. k - 1
            BY <2>1, <4>2
          <5> QED BY <2>3, <3>1, <5>1
        <4> QED BY <4>1, <4>2
      <3>2. CASE i # 1
        <4>1. i - 1 \in 1 .. k - 1 /\ i - 1 \in 1 .. k
          BY <2>1, <3>2
        <4>2. h[i - 1] = g[i - 1]
          BY <4>1
        <4>3. CASE i = k
          <5>1. i \notin 1 .. k - 1 /\ k # 1
            BY <2>1, <3>2, <4>3
          <5> QED BY <3>2, <4>2, <4>3, <5>1
        <4>4. CASE i # k
          <5>1. i \in 1 .. k - 1
            BY <2>1, <4>4
          <5> QED BY <2>3, <3>2, <4>2, <5>1
        <4> QED BY <4>3, <4>4
      <3> QED BY <3>1, <3>2
    <2>5. Is(h, k)
      <3> HIDE DEF h
      <3>1. DOMAIN h = 1 .. k /\ h = [i \in 1 .. k |-> h[i]]
        BY DEF h
      <3> QED BY <2>4, <3>1
    <2> QED BY <1>2, <2>5
  <1> QED BY <1>3, <1>4

\* The sums of the first of n numbers.
LEMMA SumsExist ==
  ASSUME NEW n \in Nat, NEW len, \A b \in 1 .. n : len[b] \in Nat
  PROVE  \E off : /\ off[0] = 0 /\ \A b \in 0 .. n : off[b] \in Nat
                  /\ \A b \in 1 .. n : off[b] = off[b - 1] + len[b]
  <1> DEFINE Is(off, k) == /\ off[0] = 0 /\ \A b \in 0 .. k : off[b] \in Nat
                           /\ \A b \in 1 .. k : off[b] = off[b - 1] + len[b]
             Bad == {k \in 0 .. n : ~\E off : Is(off, k)}
  <1>1. SUFFICES Bad = {}
    <2>1. n \in 0 .. n
      OBVIOUS
    <2>2. ~~\E off : Is(off, n)
      BY <1>1, <2>1, Zenon
    <2> QED BY <2>2
  <1>2. SUFFICES ASSUME Bad # {} PROVE FALSE
    OBVIOUS
  <1>3. PICK k \in Bad : \A m \in Bad : k <= m
    <2>1. Bad \subseteq Nat
      OBVIOUS
    <2> HIDE DEF Bad
    <2> QED BY <1>2, <2>1, LeastIn
  <1>4. k \in 0 .. n /\ ~\E off : Is(off, k)
    BY <1>3
  <1>5. CASE k = 0
    <2> DEFINE g == [b \in 0 .. 0 |-> 0]
    <2>1. Is(g, 0)
      OBVIOUS
    <2> QED BY <1>4, <1>5, <2>1
  <1>6. CASE k # 0
    <2>1. k - 1 \in 0 .. n /\ ~(k <= k - 1)
      BY <1>4, <1>6
    <2>2. k - 1 \notin Bad
      <3> HIDE DEF Bad
      <3> QED BY <1>3, <2>1
    <2>3. PICK g : Is(g, k - 1)
      <3>1. ~~\E g : Is(g, k - 1)
        BY <2>1, <2>2, Zenon
      <3> QED BY <3>1
    <2> DEFINE h == [b \in 0 .. k |-> IF b = k THEN g[k - 1] + len[k] ELSE g[b]]
    <2>4. h[0] = 0 /\ g[k - 1] \in Nat /\ len[k] \in Nat
      BY <1>4, <1>6, <2>3
    <2>5. \A b \in 0 .. k - 1 : h[b] = g[b] /\ h[b] \in Nat
      BY <1>4, <2>3
    <2>6. h[k] = g[k - 1] + len[k] /\ h[k] \in Nat
      BY <1>4, <2>4
    <2>7. \A b \in 0 .. k : h[b] \in Nat
      <3> HIDE DEF h
      <3>1. \A b \in 0 .. k : b = k \/ b \in 0 .. k - 1
        BY <1>4
      <3> QED BY <2>5, <2>6, <3>1
    <2>8. ASSUME NEW b \in 1 .. k PROVE h[b] = h[b - 1] + len[b]
      <3> HIDE DEF h
      <3>1. b - 1 \in 0 .. k - 1 /\ h[b - 1] = g[b - 1]
        BY <1>4, <2>5
      <3>2. CASE b = k
        BY <2>6, <3>1, <3>2
      <3>3. CASE b # k
        <4>1. b \in 1 .. k - 1 /\ b \in 0 .. k - 1
          BY <1>4, <3>3
        <4> QED BY <2>3, <2>5, <3>1, <4>1
      <3> QED BY <3>2, <3>3
    <2>9. Is(h, k)
      <3> HIDE DEF h
      <3> QED BY <2>4, <2>7, <2>8
    <2> QED BY <1>4, <2>9
  <1> QED BY <1>5, <1>6


\* What FlattenSeq() puts together, and that it begins with the first part.
LEMMA FlattenedIn ==
  ASSUME NEW S, NEW s \in Seq(Seq(S))
  PROVE  /\ FlattenSeq(s) \in Seq(S)
         /\ Len(s) > 0 => \A j \in 1 .. Len(s[1]) :
               j \in 1 .. Len(FlattenSeq(s)) /\ FlattenSeq(s)[j] = s[1][j]
  <1> DEFINE n == Len(s)
             f == CHOOSE g : g = [i \in 1 .. n |-> IF i = 1 THEN s[i] ELSE g[i - 1] \o s[i]]
  <1>0. n \in Nat
    OBVIOUS
  <1>1. f = [i \in 1 .. n |-> IF i = 1 THEN s[i] ELSE f[i - 1] \o s[i]]
    <2>1. \E g : g = [i \in 1 .. n |-> IF i = 1 THEN s[i] ELSE g[i - 1] \o s[i]]
      BY <1>0, FlattenExists
    <2> QED BY <2>1
  <1>2. n # 0 => FlattenSeq(s) = f[n]
    BY DEF FlattenSeq
  <1>3. n = 0 => FlattenSeq(s) = s
    BY DEF FlattenSeq
  <1> HIDE DEF f
  <1>4. \A i \in 1 .. n : f[i] = IF i = 1 THEN s[i] ELSE f[i - 1] \o s[i]
    BY <1>1
  <1> DEFINE Good(k) ==
               /\ f[k] \in Seq(S)
               /\ \A j \in 1 .. Len(s[1]) : j \in 1 .. Len(f[k]) /\ f[k][j] = s[1][j]
             Bad == {k \in 1 .. n : ~Good(k)}
  <1>5. ASSUME NEW k \in 1 .. n, k # 1 => Good(k - 1) PROVE Good(k)
    <2>0. s[k] \in Seq(S) /\ s[1] \in Seq(S)
      BY <1>0
    <2>1. CASE k = 1
      BY <1>4, <2>0, <2>1
    <2>2. CASE k # 1
      <3>1. Good(k - 1)
        BY <1>5, <2>2
      <3>2. PICK u : u = f[k - 1]
        OBVIOUS
      <3>3. PICK v : v = s[k]
        OBVIOUS
      <3>4. f[k] = u \o v
        BY <1>4, <2>2, <3>2, <3>3
      <3>5. u \in Seq(S)
        BY <3>1, <3>2
      <3>6. v \in Seq(S)
        BY <2>0, <3>3
      <3>7. /\ u \o v \in Seq(S)
            /\ \A j \in 1 .. Len(u) : j \in 1 .. Len(u \o v) /\ (u \o v)[j] = u[j]
        BY ONLY <3>5, <3>6
      <3>8. \A j \in 1 .. Len(s[1]) : j \in 1 .. Len(u) /\ u[j] = s[1][j]
        BY <3>1, <3>2
      <3> QED BY ONLY <3>4, <3>7, <3>8
    <2> QED BY <2>1, <2>2
  <1> HIDE DEF Good
  <1>6. Bad = {}
    <2>1. SUFFICES ASSUME Bad # {} PROVE FALSE
      OBVIOUS
    <2>2. PICK k \in Bad : \A m \in Bad : k <= m
      <3>1. Bad \subseteq Nat
        BY <1>0
      <3> HIDE DEF Bad
      <3> QED BY <2>1, <3>1, LeastIn
    <2>3. k \in 1 .. n /\ ~Good(k)
      BY <2>2
    <2>4. k # 1 => k - 1 \in 1 .. n /\ ~(k <= k - 1)
      BY <1>0, <2>3
    <2>5. k # 1 => Good(k - 1)
      BY <2>2, <2>4
    <2> QED BY <1>5, <2>3, <2>5
  <1>7. CASE n = 0
    <2>1. s \in Seq(S) /\ Len(s) = 0
      BY <1>7
    <2> QED BY <1>3, <1>7, <2>1
  <1>8. CASE n # 0
    <2>1. Good(n)
      <3>1. n \in 1 .. n /\ n \notin Bad
        BY <1>0, <1>6, <1>8
      <3> QED BY <3>1
    <2> QED BY <1>2, <1>8, <2>1 DEF Good
  <1> QED BY <1>7, <1>8

-----------------------------------------------------------------------------
(* Sizes.                                                                  *)

LEMMA Constants ==
  /\ Layers \in Nat \ {0} /\ Hidden \in Nat \ {0} /\ Inter \in Nat \ {0}
  /\ QWidth \in Nat \ {0} /\ KvWidth \in Nat \ {0} /\ Alignment \in Nat \ {0}
  /\ PadTo \in Nat \ {0} /\ MaxQueued \in Nat
  /\ Tile \in Nat /\ FixupCells \in Nat /\ VecBatch \in Nat
  /\ Slack \in Nat /\ Slack >= 2 * (Alignment - 1)
  /\ TokenLimits \subseteq Nat \ {0} /\ Capacities \subseteq Nat \ {0}
  /\ Hidden <= Inter /\ QWidth <= Inter
  BY RuntimeAssumption

\* Numbers rounded up to a multiple.
LEMMA RoundedUp ==
  ASSUME NEW m \in Nat \ {0}, NEW n \in Nat
  PROVE  /\ ((n + m - 1) \div m) * m \in Nat
         /\ n <= ((n + m - 1) \div m) * m /\ ((n + m - 1) \div m) * m <= n + m - 1
  <1>1. PICK x \in Nat : x = n + m - 1
    OBVIOUS
  <1>2. /\ x \div m \in Nat /\ x % m \in 0 .. m - 1 /\ x = m * (x \div m) + (x % m)
    OBVIOUS
  <1>3. PICK q \in Nat : q = x \div m
    BY <1>2
  <1>4. PICK r \in 0 .. m - 1 : r = x % m
    BY <1>2
  <1>5. PICK p \in Nat : p = q * m
    OBVIOUS
  <1>6. x = p + r
    BY <1>2, <1>3, <1>4, <1>5
  <1>7. n <= p /\ p <= n + m - 1
    BY <1>1, <1>6
  <1> QED BY <1>1, <1>3, <1>5, <1>7

LEMMA Aligned ==
  ASSUME NEW n \in Nat
  PROVE  AlignUp(n) \in Nat /\ n <= AlignUp(n) /\ AlignUp(n) <= n + (Alignment - 1)
  <1>1. Alignment \in Nat \ {0}
    BY Constants
  <1> QED BY <1>1, RoundedUp DEF AlignUp

\* Rows that are not wider are not wider when they are padded.
LEMMA PaddedRows ==
  ASSUME NEW k \in Nat, NEW w \in Nat, k <= w
  PROVE  Padded(k) \in Nat /\ k <= Padded(k) /\ Padded(w) \in Nat /\ Padded(k) <= Padded(w)
  <1>1. PadTo \in Nat \ {0}
    BY Constants
  <1>2. /\ Padded(k) \in Nat /\ k <= Padded(k) /\ Padded(w) \in Nat
    BY <1>1, RoundedUp DEF Padded
  <1>3. PICK a \in Nat : a = (k + PadTo - 1) \div PadTo
    BY <1>1
  <1>4. PICK b \in Nat : b = (w + PadTo - 1) \div PadTo
    BY <1>1
  <1>5. a <= b
    BY <1>1, <1>3, <1>4
  <1>6. a * PadTo <= b * PadTo
    <2>1. PICK d \in Nat : b = a + d
      <3>1. b - a \in Nat /\ b = a + (b - a)
        BY <1>5
      <3> QED BY <3>1
    <2>2. b * PadTo = a * PadTo + d * PadTo /\ d * PadTo \in Nat /\ a * PadTo \in Nat
      BY <1>1, <2>1
    <2>3. \A y, z \in Nat : y <= y + z
      OBVIOUS
    <2> QED BY <2>2, <2>3
  <1> QED BY <1>2, <1>3, <1>4, <1>6 DEF Padded

\* Rows of the same width for fewer tokens take no more.
LEMMA FewerRows ==
  ASSUME NEW n \in Nat, NEW t \in Nat, n <= t, NEW w \in Nat
  PROVE  n * w \in Nat /\ t * w \in Nat /\ n * w <= t * w
  <1>1. PICK d \in Nat : t = n + d
    <2>1. t - n \in Nat /\ t = n + (t - n)
      OBVIOUS
    <2> QED BY <2>1
  <1>2. t * w = n * w + d * w /\ d * w \in Nat /\ n * w \in Nat
    BY <1>1
  <1>3. \A y, z \in Nat : y <= y + z /\ y + z \in Nat
    OBVIOUS
  <1> QED BY <1>2, <1>3

\* What a product takes from the arena is there: the arena is sized for as many
\* tokens of the widest rows, and Slack covers the alignment of the two pieces.
LEMMA ArenaSuffices ==
  ASSUME NEW t \in Nat, NEW n \in 0 .. t, NEW w \in Nat, w <= Inter, NEW size \in Nat,
         ArenaCells(t) <= size
  PROVE  /\ StageCells(n, w) \in Nat /\ FixupAt(n, w) \in Nat /\ ArenaUse(n, w) \in Nat
         /\ StageCells(n, w) <= FixupAt(n, w)
         /\ ArenaUse(n, w) <= size /\ FixupAt(n, w) <= ArenaUse(n, w)
         /\ ~(n <= VecBatch) => FixupAt(n, w) + FixupCells <= ArenaUse(n, w)
  <1>0. /\ Inter \in Nat /\ Tile \in Nat /\ FixupCells \in Nat /\ VecBatch \in Nat
        /\ Alignment \in Nat \ {0} /\ Slack \in Nat /\ Slack >= 2 * (Alignment - 1)
    BY Constants
  <1>1. Padded(w) \in Nat /\ Padded(Inter) \in Nat /\ Padded(w) <= Padded(Inter)
    BY <1>0, PaddedRows
  <1>2. PICK p \in Nat : p = n * Padded(w)
    BY <1>1
  <1>3. PICK q \in Nat : q = t * Padded(Inter)
    BY <1>1
  <1>4. p <= q
    <2>1. n * Padded(w) <= t * Padded(w) /\ n * Padded(w) \in Nat /\ t * Padded(w) \in Nat
      BY <1>1, FewerRows
    <2>2. Padded(w) * t <= Padded(Inter) * t
      BY <1>1, FewerRows
    <2>3. t * Padded(w) = Padded(w) * t /\ t * Padded(Inter) = Padded(Inter) * t
      BY <1>1
    <2>4. PICK a \in Nat : a = t * Padded(w)
      BY <2>1
    <2>5. p <= a /\ a <= q
      BY <1>2, <1>3, <2>1, <2>2, <2>3, <2>4
    <2> QED BY <2>5
  <1>5. FixupCells + q + Tile + Slack <= size
    BY <1>3 DEF ArenaCells
  <1>6. PICK s \in Nat : s = StageCells(n, w)
    BY <1>0, <1>2 DEF StageCells
  <1>7. s <= p + Tile /\ (n <= VecBatch => s = p)
    BY <1>0, <1>2, <1>6 DEF StageCells
  <1>8. AlignUp(s) \in Nat /\ s <= AlignUp(s) /\ AlignUp(s) <= s + (Alignment - 1)
    BY Aligned
  <1>9. AlignUp(FixupCells) \in Nat /\ FixupCells <= AlignUp(FixupCells)
        /\ AlignUp(FixupCells) <= FixupCells + (Alignment - 1)
    BY <1>0, Aligned
  <1>10. FixupAt(n, w) = AlignUp(s)
    BY <1>6 DEF FixupAt
  <1>11. ArenaUse(n, w) = AlignUp(s) + (IF n <= VecBatch THEN 0 ELSE AlignUp(FixupCells))
    BY <1>6 DEF ArenaUse
  <1>12. PICK a \in Nat : a = AlignUp(s)
    BY <1>8
  <1>13. PICK f \in Nat : f = AlignUp(FixupCells)
    BY <1>9
  <1>14. a + f <= size
    BY <1>0, <1>4, <1>5, <1>7, <1>8, <1>9, <1>12, <1>13
  <1> QED BY <1>0, <1>6, <1>8, <1>9, <1>10, <1>11, <1>12, <1>13, <1>14

-----------------------------------------------------------------------------
(* The slices of a workspace.                                              *)

\* How far the first slices go.
LEMMA ExtentIs ==
  ASSUME NEW s, Len(s) \in Nat, \A i \in 1 .. Len(s) : s[i][2] \in Nat
  PROVE  /\ Extent(s)[0] = 0
         /\ \A i \in 0 .. Len(s) : Extent(s)[i] \in Nat
         /\ \A i \in 1 .. Len(s) : Extent(s)[i] = Extent(s)[i - 1] + AlignUp(s[i][2])
  <1> DEFINE n == Len(s)
             e == CHOOSE g : g = [i \in 0 .. n |-> IF i = 0 THEN 0 ELSE g[i - 1] + AlignUp(s[i][2])]
             len == [i \in 1 .. n |-> AlignUp(s[i][2])]
  <1>1. \A i \in 1 .. n : len[i] \in Nat
    BY Aligned
  <1>2. PICK off : /\ off[0] = 0 /\ \A b \in 0 .. n : off[b] \in Nat
                   /\ \A b \in 1 .. n : off[b] = off[b - 1] + len[b]
    <2> HIDE DEF len, n
    <2>1. n \in Nat
      BY DEF n
    <2> QED BY ONLY <1>1, <2>1, SumsExist
  <1>3. \E g : g = [i \in 0 .. n |-> IF i = 0 THEN 0 ELSE g[i - 1] + AlignUp(s[i][2])]
    <2> DEFINE g == [b \in 0 .. n |-> off[b]]
    <2>1. ASSUME NEW i \in 0 .. n
          PROVE  g[i] = IF i = 0 THEN 0 ELSE g[i - 1] + AlignUp(s[i][2])
      <3>1. CASE i = 0
        BY <1>2, <3>1
      <3>2. CASE i # 0
        <4>1. i \in 1 .. n /\ i - 1 \in 0 .. n
          BY <3>2
        <4> QED BY <1>2, <3>2, <4>1
      <3> QED BY <3>1, <3>2
    <2>2. g = [i \in 0 .. n |-> g[i]]
      OBVIOUS
    <2> HIDE DEF g
    <2>3. g = [i \in 0 .. n |-> IF i = 0 THEN 0 ELSE g[i - 1] + AlignUp(s[i][2])]
      BY <2>1, <2>2
    <2> QED BY <2>3
  <1>4. e = [i \in 0 .. n |-> IF i = 0 THEN 0 ELSE e[i - 1] + AlignUp(s[i][2])]
    BY <1>3
  <1>5. Extent(s) = e
    BY DEF Extent
  <1> HIDE DEF e
  <1>6. e[0] = 0 /\ \A i \in 1 .. n : e[i] = e[i - 1] + AlignUp(s[i][2])
    BY <1>4
  <1> DEFINE Bad == {i \in 0 .. n : ~(e[i] \in Nat)}
  <1>7. Bad = {}
    <2>1. SUFFICES ASSUME Bad # {} PROVE FALSE
      OBVIOUS
    <2>2. PICK i \in Bad : \A m \in Bad : i <= m
      <3>1. Bad \subseteq Nat
        OBVIOUS
      <3> HIDE DEF Bad
      <3> QED BY <2>1, <3>1, LeastIn
    <2>3. i \in 0 .. n /\ ~(e[i] \in Nat)
      BY <2>2
    <2>4. i # 0
      BY <1>6, <2>3
    <2>5. i \in 1 .. n /\ i - 1 \in 0 .. n /\ ~(i <= i - 1)
      BY <2>3, <2>4
    <2>6. e[i - 1] \in Nat
      BY <2>2, <2>5
    <2>7. e[i] = e[i - 1] + AlignUp(s[i][2]) /\ AlignUp(s[i][2]) \in Nat
      BY <1>6, <2>5, Aligned
    <2> QED BY <2>3, <2>6, <2>7
  <1> QED BY <1>5, <1>6, <1>7

\* They go further and further.
LEMMA ExtentGrows ==
  ASSUME NEW s, Len(s) \in Nat, \A i \in 1 .. Len(s) : s[i][2] \in Nat, NEW i \in 0 .. Len(s)
  PROVE  \A j \in 0 .. Len(s) : i <= j => Extent(s)[i] <= Extent(s)[j]
  <1> DEFINE n == Len(s)
             e == Extent(s)
             Bad == {j \in 0 .. n : i <= j /\ ~(e[i] <= e[j])}
  <1>1. /\ \A j \in 0 .. n : e[j] \in Nat
        /\ \A j \in 1 .. n : e[j] = e[j - 1] + AlignUp(s[j][2])
    BY ExtentIs
  <1> HIDE DEF e
  <1>2. Bad = {}
    <2>1. SUFFICES ASSUME Bad # {} PROVE FALSE
      OBVIOUS
    <2>2. PICK j \in Bad : \A m \in Bad : j <= m
      <3>1. Bad \subseteq Nat
        OBVIOUS
      <3> HIDE DEF Bad
      <3> QED BY <2>1, <3>1, LeastIn
    <2>3. j \in 0 .. n /\ i <= j /\ ~(e[i] <= e[j])
      BY <2>2
    <2>4. j # i
      BY <1>1, <2>3
    <2>5. j \in 1 .. n /\ j - 1 \in 0 .. n /\ ~(j <= j - 1) /\ i <= j - 1
      BY <2>3, <2>4
    <2>6. e[i] <= e[j - 1]
      BY <2>2, <2>5
    <2>7. e[j] = e[j - 1] + AlignUp(s[j][2]) /\ AlignUp(s[j][2]) \in Nat
          /\ e[j - 1] \in Nat /\ e[i] \in Nat
      BY <1>1, <2>5, Aligned
    <2> QED BY <2>3, <2>6, <2>7
  <1> QED BY <1>2 DEF e

Buffers == DOMAIN Width
Names == Buffers \cup {"logits", "inv_freq", "ids", "arena"}

\* What a slice is for, and how much of it there is.
SliceSize(tokens, arena, b) ==
    IF b \in Buffers THEN tokens * Width[b] ELSE IF b = "arena" THEN arena ELSE 1

LEMMA Widths ==
  /\ Buffers = {"hidden", "normed", "q", "k", "v", "attn", "oproj", "gate", "up", "down", "final"}
  /\ \A b \in Buffers : Width[b] \in Nat \ {0}
  /\ \A b \in {"normed", "attn", "gate"} : Width[b] <= Inter
  <1>1. Buffers = {"hidden", "normed", "q", "k", "v", "attn", "oproj", "gate", "up", "down", "final"}
    BY DEF Buffers, Width
  <1>2. \A b \in Buffers : Width[b] \in Nat \ {0}
    BY <1>1, Constants DEF Width
  <1>3. \A b \in {"normed", "attn", "gate"} : Width[b] <= Inter
    BY Constants DEF Width
  <1> QED BY <1>1, <1>2, <1>3

AreSlices(s, tokens, arena) ==
    /\ Len(s) = 15 /\ DOMAIN s = 1 .. 15
    /\ \A i \in 1 .. 15 : /\ s[i][1] \in Names /\ s[i][2] = SliceSize(tokens, arena, s[i][1])
                          /\ s[i][2] \in Nat
    /\ \A i, j \in 1 .. 15 : s[i][1] = s[j][1] => i = j
    /\ \A b \in Names : \E i \in 1 .. 15 : s[i][1] = b
    /\ s[1][1] = "hidden"

LEMMA SlicesAre ==
  ASSUME NEW tokens \in Nat, NEW arena \in Nat
  PROVE  AreSlices(Slices(tokens, arena), tokens, arena)
  <1>0. PICK s : s = Slices(tokens, arena)
    OBVIOUS
  <1>1. /\ Len(s) = 15 /\ DOMAIN s = 1 .. 15
        /\ s[1] = <<"hidden", tokens * Hidden>> /\ s[2] = <<"normed", tokens * Hidden>>
        /\ s[3] = <<"q", tokens * QWidth>> /\ s[4] = <<"k", tokens * KvWidth>>
        /\ s[5] = <<"v", tokens * KvWidth>> /\ s[6] = <<"attn", tokens * QWidth>>
        /\ s[7] = <<"oproj", tokens * Hidden>> /\ s[8] = <<"gate", tokens * Inter>>
        /\ s[9] = <<"up", tokens * Inter>> /\ s[10] = <<"down", tokens * Hidden>>
        /\ s[11] = <<"final", tokens * Hidden>> /\ s[12] = <<"logits", 1>>
        /\ s[13] = <<"inv_freq", 1>> /\ s[14] = <<"ids", 1>> /\ s[15] = <<"arena", arena>>
    BY <1>0 DEF Slices
  <1>2. \A i \in 1 .. 15 : i \in {1, 2, 3, 4, 5, 6, 7, 8, 9, 10, 11, 12, 13, 14, 15}
    OBVIOUS
  <1>3. ASSUME NEW i \in 1 .. 15
        PROVE  s[i][1] \in Names /\ s[i][2] = SliceSize(tokens, arena, s[i][1])
    BY <1>1, <1>2, Widths DEF SliceSize, Names, Width
  <1>4. ASSUME NEW i \in 1 .. 15 PROVE s[i][2] \in Nat
    <2>1. \A b \in Names : SliceSize(tokens, arena, b) \in Nat
      <3>1. \A w \in Nat : tokens * w \in Nat
        OBVIOUS
      <3> QED BY <3>1, Widths DEF SliceSize
    <2> QED BY <1>3, <2>1
  <1>5. \A i, j \in 1 .. 15 : s[i][1] = s[j][1] => i = j
    BY <1>1, <1>2
  <1>6. \A b \in Names : \E i \in 1 .. 15 : s[i][1] = b
    BY <1>1, Widths DEF Names
  <1>7. /\ Len(s) = 15 /\ DOMAIN s = 1 .. 15 /\ s[1][1] = "hidden"
    BY <1>1
  <1> QED BY ONLY <1>0, <1>3, <1>4, <1>5, <1>6, <1>7 DEF AreSlices

\* Every slice lies within the workspace, and no two of them overlap.
LEMMA SlicesApart ==
  ASSUME NEW tokens \in Nat \ {0}, NEW arena \in Nat
  PROVE  /\ DOMAIN SliceAt(tokens, arena) = Names
         /\ Total(tokens, arena) \in Nat \ {0}
         /\ \A b \in Names :
               /\ SliceAt(tokens, arena)[b] \in Nat
               /\ SliceSize(tokens, arena, b) \in Nat
               /\ SliceAt(tokens, arena)[b] + SliceSize(tokens, arena, b) <= Total(tokens, arena)
         /\ \A b, c \in Names : b # c =>
               \/ SliceAt(tokens, arena)[b] + SliceSize(tokens, arena, b) <= SliceAt(tokens, arena)[c]
               \/ SliceAt(tokens, arena)[c] + SliceSize(tokens, arena, c) <= SliceAt(tokens, arena)[b]
  <1>1. PICK s : s = Slices(tokens, arena)
    OBVIOUS
  <1>2. tokens \in Nat
    OBVIOUS
  <1>3. /\ Len(s) = 15 /\ DOMAIN s = 1 .. 15
        /\ \A i \in 1 .. 15 : /\ s[i][1] \in Names /\ s[i][2] = SliceSize(tokens, arena, s[i][1])
                              /\ s[i][2] \in Nat
        /\ \A i, j \in 1 .. 15 : s[i][1] = s[j][1] => i = j
        /\ \A b \in Names : \E i \in 1 .. 15 : s[i][1] = b
        /\ s[1][1] = "hidden"
    <2>1. AreSlices(s, tokens, arena)
      BY <1>1, <1>2, SlicesAre
    <2> QED BY <2>1 DEF AreSlices
  <1>4. PICK e : e = Extent(s)
    OBVIOUS
  <1>5. Len(s) \in Nat /\ \A i \in 1 .. Len(s) : s[i][2] \in Nat
    BY <1>3
  <1>6. /\ e[0] = 0 /\ \A i \in 0 .. 15 : e[i] \in Nat
        /\ \A i \in 1 .. 15 : e[i] = e[i - 1] + AlignUp(s[i][2])
    <2>1. /\ Extent(s)[0] = 0
          /\ \A i \in 0 .. Len(s) : Extent(s)[i] \in Nat
          /\ \A i \in 1 .. Len(s) : Extent(s)[i] = Extent(s)[i - 1] + AlignUp(s[i][2])
      BY ONLY <1>5, ExtentIs
    <2> QED BY ONLY <1>3, <1>4, <2>1
  <1>7. \A i, j \in 0 .. 15 : i <= j => e[i] <= e[j]
    <2>1. \A i, j \in 0 .. Len(s) : i <= j => Extent(s)[i] <= Extent(s)[j]
      BY ONLY <1>5, ExtentGrows
    <2> QED BY ONLY <1>3, <1>4, <2>1
  <1>8. ASSUME NEW i \in 1 .. 15
        PROVE  SliceAt(tokens, arena)[s[i][1]] = e[i - 1] /\ e[i - 1] + s[i][2] <= e[i]
               /\ i - 1 \in 0 .. 15 /\ e[i - 1] \in Nat /\ e[i] \in Nat
    <2>1. (CHOOSE j \in DOMAIN s : s[j][1] = s[i][1]) = i
      BY <1>3
    <2>2. PICK at : at = SliceAt(tokens, arena)
      OBVIOUS
    <2>3. PICK b : b = s[i][1]
      OBVIOUS
    <2>a. at = [c \in {s[j][1] : j \in DOMAIN s} |-> e[(CHOOSE j \in DOMAIN s : s[j][1] = c) - 1]]
      BY <1>1, <1>4, <2>2 DEF SliceAt
    <2>b. b \in {s[j][1] : j \in DOMAIN s}
      BY <1>3, <2>3
    <2>c. at[b] = e[(CHOOSE j \in DOMAIN s : s[j][1] = b) - 1]
      BY ONLY <2>a, <2>b
    <2>4. SliceAt(tokens, arena)[s[i][1]] = e[i - 1]
      BY ONLY <2>1, <2>2, <2>3, <2>c
    <2>5. i - 1 \in 0 .. 15 /\ i \in 0 .. 15
      OBVIOUS
    <2>6. e[i] = e[i - 1] + AlignUp(s[i][2]) /\ e[i - 1] \in Nat /\ e[i] \in Nat
      BY <1>6, <2>5
    <2>7. s[i][2] \in Nat /\ AlignUp(s[i][2]) \in Nat /\ s[i][2] <= AlignUp(s[i][2])
      BY <1>3, Aligned
    <2> QED BY <2>4, <2>5, <2>6, <2>7
  <1>9. DOMAIN SliceAt(tokens, arena) = Names
    <2>1. DOMAIN SliceAt(tokens, arena) = {s[j][1] : j \in DOMAIN s}
      BY <1>1 DEF SliceAt
    <2> QED BY <1>3, <2>1
  <1>10. Total(tokens, arena) = e[15]
    BY <1>1, <1>3, <1>4 DEF Total
  <1>11. e[15] \in Nat \ {0}
    <2>1. s[1][2] = tokens * Hidden
      <3>1. s[1][2] = SliceSize(tokens, arena, "hidden")
        BY <1>3
      <3>2. "hidden" \in Buffers /\ Width["hidden"] = Hidden
        BY Widths DEF Width
      <3> QED BY <3>1, <3>2 DEF SliceSize
    <2>2. 0 + s[1][2] <= e[1] /\ e[1] <= e[15] /\ e[1] \in Nat /\ e[15] \in Nat
      BY <1>6, <1>7, <1>8
    <2>3. tokens * Hidden \in Nat /\ tokens * Hidden # 0
      BY Constants
    <2> QED BY <2>1, <2>2, <2>3
  <1>12. ASSUME NEW b \in Names
         PROVE  /\ SliceAt(tokens, arena)[b] \in Nat /\ SliceSize(tokens, arena, b) \in Nat
                /\ SliceAt(tokens, arena)[b] + SliceSize(tokens, arena, b) <= e[15]
    <2>1. PICK i \in 1 .. 15 : s[i][1] = b
      BY <1>3
    <2>2. e[i] <= e[15] /\ e[15] \in Nat
      BY <1>6, <1>7
    <2>3. s[i][2] \in Nat /\ s[i][2] = SliceSize(tokens, arena, b)
      BY <1>3, <2>1
    <2> QED BY <1>8, <2>1, <2>2, <2>3
  <1>13. ASSUME NEW b \in Names, NEW c \in Names, b # c
         PROVE  \/ SliceAt(tokens, arena)[b] + SliceSize(tokens, arena, b) <= SliceAt(tokens, arena)[c]
                \/ SliceAt(tokens, arena)[c] + SliceSize(tokens, arena, c) <= SliceAt(tokens, arena)[b]
    <2>1. PICK i \in 1 .. 15 : s[i][1] = b
      BY <1>3
    <2>2. PICK j \in 1 .. 15 : s[j][1] = c
      BY <1>3
    <2>3. s[i][2] = SliceSize(tokens, arena, b) /\ s[j][2] = SliceSize(tokens, arena, c)
          /\ s[i][2] \in Nat /\ s[j][2] \in Nat
      BY <1>3, <2>1, <2>2
    <2>4. i # j
      BY <1>13, <2>1, <2>2
    <2>5. CASE i < j
      <3>1. i \in 0 .. 15 /\ j - 1 \in 0 .. 15 /\ i <= j - 1
        BY <2>5
      <3>2. e[i] <= e[j - 1]
        BY <1>7, <3>1
      <3> QED BY <1>8, <2>1, <2>2, <2>3, <3>2
    <2>6. CASE j < i
      <3>1. j \in 0 .. 15 /\ i - 1 \in 0 .. 15 /\ j <= i - 1
        BY <2>6
      <3>2. e[j] <= e[i - 1]
        BY <1>7, <3>1
      <3> QED BY <1>8, <2>1, <2>2, <2>3, <3>2
    <2> QED BY <2>4, <2>5, <2>6
  <1> QED BY <1>9, <1>10, <1>11, <1>12, <1>13

-----------------------------------------------------------------------------
(* The steps of a pass and their kernels.                                  *)

StepNames == DOMAIN Steps

Kinds == {"quant", "mul", "append", "last", "score", "embed", "map", "rope", "attn", "act", "add"}

\* Products are of rows that the arena is sized for, and kernels write whole
\* buffers or rows of the cache.
OpOK(o) ==
    /\ o.kind \in {"quant", "mul"} => o.src \in {"normed", "attn", "gate"}
    /\ o.kind = "append" => o.src \in {"k", "v"}
    /\ o.kind \notin {"quant", "append", "last", "score"} => o.dst \in Buffers

\* The names of buffers and stages.
Words == {"none", "hidden", "normed", "q", "k", "v", "attn", "oproj", "gate", "up", "down", "final",
          "in", "mid", "q_norm", "k_norm", "q_rope", "k_rope", "mlp_norm", "act"}

Ops == {o \in [kind : Kinds, src : Words, from : Words, dst : Words, to : Words] : OpOK(o)}
Others == {o \in Ops : o.kind # "append"}

\* Two sequences over a set.
LEMMA Joined2 ==
  ASSUME NEW S, NEW u \in Seq(S), NEW v \in Seq(S)
  PROVE  /\ u \o v \in Seq(S) /\ Len(u \o v) = Len(u) + Len(v)
         /\ Len(u) \in Nat /\ Len(v) \in Nat
         /\ \A i \in 1 .. Len(u) : (u \o v)[i] = u[i]
         /\ \A j \in 1 .. Len(v) : (u \o v)[Len(u) + j] = v[j]
  OBVIOUS

LEMMA StepKinds ==
  /\ \A src \in {"normed", "attn", "gate"} : \A dst \in Buffers : \A from, to \in Words :
        dst \in Words => Linear(src, from, dst, to) \in Seq(Others)
  /\ \A src, from, to \in Words : \A dst \in Buffers :
        dst \in Words => Map(src, from, dst, to) \in Seq(Others)
  /\ \A src, from, to \in Words : Add(src, from, to) \in Seq(Others)
  <1>1. ASSUME NEW kind \in Kinds \ {"append"}, NEW src \in Words, NEW from \in Words,
               NEW dst \in Words, NEW to \in Words,
               kind \in {"quant", "mul"} => src \in {"normed", "attn", "gate"},
               kind \notin {"quant", "last", "score"} => dst \in Buffers
        PROVE  Op(kind, src, from, dst, to) \in Others
    BY <1>1 DEF Op, Others, Ops, OpOK, Kinds, Words
  <1>2. ASSUME NEW src \in {"normed", "attn", "gate"}, NEW dst \in Buffers, NEW from \in Words,
               NEW to \in Words, dst \in Words
        PROVE  Linear(src, from, dst, to) \in Seq(Others)
    <2>1. src \in Words
      BY DEF Words
    <2>2. Op("quant", src, from, dst, to) \in Others /\ Op("mul", src, from, dst, to) \in Others
      BY <1>1, <1>2, <2>1 DEF Kinds
    <2> QED BY <2>2 DEF Linear
  <1>3. ASSUME NEW src \in Words, NEW dst \in Buffers, NEW from \in Words,
               NEW to \in Words, dst \in Words
        PROVE  Map(src, from, dst, to) \in Seq(Others)
    <2>1. Op("map", src, from, dst, to) \in Others
      BY <1>1, <1>3 DEF Kinds
    <2> QED BY <2>1 DEF Map
  <1>4. ASSUME NEW src \in Words, NEW from \in Words, NEW to \in Words
        PROVE  Add(src, from, to) \in Seq(Others)
    <2>1. "hidden" \in Buffers /\ "hidden" \in Words
      BY Widths DEF Words
    <2>2. Op("add", src, from, "hidden", to) \in Others
      BY <1>1, <2>1 DEF Kinds
    <2> QED BY <2>2 DEF Add
  <1> QED BY <1>2, <1>3, <1>4

LEMMA StepsAre ==
  /\ StepNames = {"embed", "norm", "q", "k", "v", "qk_norm", "rope", "append", "attn", "oproj",
                  "mlp_norm", "gate", "up", "act", "down", "final_norm", "cand"}
  /\ Steps["append"] \in Seq(Ops)
  /\ \A s \in StepNames \ {"append"} : Steps[s] \in Seq(Others)
  <1>1. StepNames = {"embed", "norm", "q", "k", "v", "qk_norm", "rope", "append", "attn", "oproj",
                     "mlp_norm", "gate", "up", "act", "down", "final_norm", "cand"}
    BY DEF StepNames, Steps
  <1>2. Steps["append"] \in Seq(Ops)
    <2>1. Op("append", "k", "k_rope", "none", "none") \in Ops /\ Op("append", "v", "v", "none", "none") \in Ops
      BY DEF Op, Ops, OpOK, Kinds, Words
    <2>2. Steps["append"] = <<Op("append", "k", "k_rope", "none", "none"), Op("append", "v", "v", "none", "none")>>
      BY DEF Steps
    <2> QED BY <2>1, <2>2
  <1>3. /\ \A b \in Buffers : b \in Words
        /\ {"none", "in", "mid", "q_norm", "k_norm", "mlp_norm", "act"} \subseteq Words
        /\ {"hidden", "normed", "q", "k", "v", "attn", "oproj", "gate", "up", "down", "final"} = Buffers
    BY Widths DEF Words
  <1>4. ASSUME NEW s \in StepNames \ {"append"} PROVE Steps[s] \in Seq(Others)
    <2>1. CASE s = "embed"
      <3>1. Op("embed", "none", "none", "hidden", "in") \in Others
        BY <1>3 DEF Op, Others, Ops, OpOK, Kinds, Words
      <3>2. Steps["embed"] = <<Op("embed", "none", "none", "hidden", "in")>>
        BY DEF Steps
      <3> QED BY <2>1, <3>1, <3>2
    <2>2. CASE s \in {"norm", "mlp_norm"}
      <3>1. Steps["norm"] = Map("hidden", "in", "normed", "normed")
            /\ Steps["mlp_norm"] = Map("hidden", "mid", "normed", "mlp_norm")
        BY DEF Steps
      <3>2. Map("hidden", "in", "normed", "normed") \in Seq(Others)
        BY <1>3, StepKinds
      <3>3. Map("hidden", "mid", "normed", "mlp_norm") \in Seq(Others)
        BY <1>3, StepKinds
      <3> QED BY <2>2, <3>1, <3>2, <3>3
    <2>3. CASE s \in {"q", "k", "v", "gate", "up"}
      <3>1. /\ Steps["q"] = Linear("normed", "normed", "q", "q")
            /\ Steps["k"] = Linear("normed", "normed", "k", "k")
            /\ Steps["v"] = Linear("normed", "normed", "v", "v")
            /\ Steps["gate"] = Linear("normed", "mlp_norm", "gate", "gate")
            /\ Steps["up"] = Linear("normed", "mlp_norm", "up", "up")
        BY DEF Steps
      <3>2. /\ Linear("normed", "normed", "q", "q") \in Seq(Others)
            /\ Linear("normed", "normed", "k", "k") \in Seq(Others)
            /\ Linear("normed", "normed", "v", "v") \in Seq(Others)
        BY <1>3, StepKinds
      <3>3. /\ Linear("normed", "mlp_norm", "gate", "gate") \in Seq(Others)
            /\ Linear("normed", "mlp_norm", "up", "up") \in Seq(Others)
        BY <1>3, StepKinds
      <3> QED BY <2>3, <3>1, <3>2, <3>3
    <2>4. CASE s = "qk_norm"
      <3>1. Steps["qk_norm"] = Map("q", "q", "q", "q_norm") \o Map("k", "k", "k", "k_norm")
        BY DEF Steps
      <3>2. Map("q", "q", "q", "q_norm") \in Seq(Others)
        BY <1>3, StepKinds
      <3>3. Map("k", "k", "k", "k_norm") \in Seq(Others)
        BY <1>3, StepKinds
      <3>4. Map("q", "q", "q", "q_norm") \o Map("k", "k", "k", "k_norm") \in Seq(Others)
        BY ONLY <3>2, <3>3, Joined2
      <3> QED BY <2>4, <3>1, <3>4
    <2>5. CASE s = "rope"
      <3>1. /\ Op("rope", "q", "q_norm", "q", "q_rope") \in Others
            /\ Op("rope", "k", "k_norm", "k", "k_rope") \in Others
        BY <1>3 DEF Op, Others, Ops, OpOK, Kinds, Words
      <3>2. Steps["rope"] = <<Op("rope", "q", "q_norm", "q", "q_rope"), Op("rope", "k", "k_norm", "k", "k_rope")>>
        BY DEF Steps
      <3> QED BY <2>5, <3>1, <3>2
    <2>6. CASE s = "attn"
      <3>1. Op("attn", "q", "q_rope", "attn", "attn") \in Others
        BY <1>3 DEF Op, Others, Ops, OpOK, Kinds, Words
      <3>2. Steps["attn"] = <<Op("attn", "q", "q_rope", "attn", "attn")>>
        BY DEF Steps
      <3> QED BY <2>6, <3>1, <3>2
    <2>7. CASE s \in {"oproj", "down"}
      <3>1. /\ Steps["oproj"] = Linear("attn", "attn", "oproj", "oproj") \o Add("oproj", "oproj", "mid")
            /\ Steps["down"] = Linear("gate", "act", "down", "down") \o Add("down", "down", "in")
        BY DEF Steps
      <3>2. Linear("attn", "attn", "oproj", "oproj") \in Seq(Others)
        BY <1>3, StepKinds
      <3>3. Add("oproj", "oproj", "mid") \in Seq(Others)
        BY <1>3, StepKinds
      <3>4. Linear("gate", "act", "down", "down") \in Seq(Others)
        BY <1>3, StepKinds
      <3>5. Add("down", "down", "in") \in Seq(Others)
        BY <1>3, StepKinds
      <3>6. Linear("attn", "attn", "oproj", "oproj") \o Add("oproj", "oproj", "mid") \in Seq(Others)
        BY ONLY <3>2, <3>3, Joined2
      <3>7. Linear("gate", "act", "down", "down") \o Add("down", "down", "in") \in Seq(Others)
        BY ONLY <3>4, <3>5, Joined2
      <3> QED BY <2>7, <3>1, <3>6, <3>7
    <2>8. CASE s = "act"
      <3>1. Op("act", "up", "up", "gate", "act") \in Others
        BY <1>3 DEF Op, Others, Ops, OpOK, Kinds, Words
      <3>2. Steps["act"] = <<Op("act", "up", "up", "gate", "act")>>
        BY DEF Steps
      <3> QED BY <2>8, <3>1, <3>2
    <2>9. CASE s = "final_norm"
      <3>1. Steps["final_norm"] = Map("hidden", "in", "final", "final") \o <<Op("last", "final", "final", "none", "none")>>
        BY DEF Steps
      <3>2. Map("hidden", "in", "final", "final") \in Seq(Others)
        BY <1>3, StepKinds
      <3>3. Op("last", "final", "final", "none", "none") \in Others
        BY DEF Op, Others, Ops, OpOK, Kinds, Words
      <3>4. <<Op("last", "final", "final", "none", "none")>> \in Seq(Others)
        BY <3>3
      <3>5. Map("hidden", "in", "final", "final") \o <<Op("last", "final", "final", "none", "none")>> \in Seq(Others)
        BY ONLY <3>2, <3>4, Joined2
      <3> QED BY <2>9, <3>1, <3>5
    <2>10. CASE s = "cand"
      <3>1. Op("score", "none", "final", "none", "none") \in Others
        BY DEF Op, Others, Ops, OpOK, Kinds, Words
      <3>2. Steps["cand"] = <<Op("score", "none", "final", "none", "none")>>
        BY DEF Steps
      <3> QED BY <2>10, <3>1, <3>2
    <2> QED BY <1>1, <2>1, <2>2, <2>3, <2>4, <2>5, <2>6, <2>7, <2>8, <2>9, <2>10
  <1> QED BY <1>1, <1>2, <1>4

\* The phases that every layer records.
LayerPhases == Phases \ {"embed", "final_norm", "cand"}

\* A step of a pass: rows are appended to a cache, if there is one.
Due(cached) == {x \in StepNames \X (0 .. Layers) : x[1] = "append" => cached /\ x[2] < Layers}

\* A pass goes through every phase of a layer.
IsPassing(todo, phases) == \A p \in phases : \E i \in DOMAIN todo : todo[i][1] = p

LEMMA LayerStepsAre ==
  ASSUME NEW l \in 0 .. Layers - 1, NEW cached \in BOOLEAN
  PROVE  LayerSteps(l, cached) \in Seq(Due(cached)) /\ IsPassing(LayerSteps(l, cached), LayerPhases)
  <1> DEFINE a == <<"norm", "q", "k", "v", "qk_norm", "rope">>
             b == IF cached THEN <<"append">> ELSE <<>>
             c == <<"attn", "oproj", "mlp_norm", "gate", "up", "act", "down">>
             S == {s \in StepNames : s = "append" => cached}
  <1>1. a \in Seq(S) /\ c \in Seq(S) /\ b \in Seq(S) /\ Len(a) = 6 /\ Len(c) = 7 /\ Len(b) \in Nat
    <2>1. {"norm", "q", "k", "v", "qk_norm", "rope", "attn", "oproj", "mlp_norm", "gate", "up", "act", "down"}
             \subseteq S
      BY StepsAre
    <2>2. cached => "append" \in S
      BY StepsAre
    <2>3. b \in Seq(S)
      <3>1. CASE cached
        BY <2>2, <3>1
      <3>2. CASE ~cached
        BY <3>2
      <3> QED BY <3>1, <3>2
    <2> HIDE DEF S
    <2>4. a \in Seq(S)
      BY <2>1
    <2>5. c \in Seq(S)
      BY <2>1
    <2> QED BY <2>3, <2>4, <2>5
  <1>2. \A p \in LayerPhases : (\E i \in 1 .. 6 : a[i] = p) \/ (\E i \in 1 .. 7 : c[i] = p)
    <2>1. LayerPhases = {"norm", "q", "k", "v", "qk_norm", "rope", "attn", "oproj", "mlp_norm",
                         "gate", "up", "act", "down"}
      BY DEF LayerPhases, Phases
    <2>2. /\ a[1] = "norm" /\ a[2] = "q" /\ a[3] = "k" /\ a[4] = "v" /\ a[5] = "qk_norm" /\ a[6] = "rope"
          /\ c[1] = "attn" /\ c[2] = "oproj" /\ c[3] = "mlp_norm" /\ c[4] = "gate" /\ c[5] = "up"
          /\ c[6] = "act" /\ c[7] = "down"
      OBVIOUS
    <2> HIDE DEF a, c
    <2> QED BY <2>1, <2>2
  <1>3. LayerSteps(l, cached) = [i \in DOMAIN (a \o b \o c) |-> <<(a \o b \o c)[i], l>>]
    BY DEF LayerSteps
  <1> HIDE DEF a, b, c, S
  <1>4. a \in Seq(S)
    BY <1>1
  <1>5. b \in Seq(S)
    BY <1>1
  <1>6. c \in Seq(S)
    BY <1>1
  <1>7. PICK ab : ab = a \o b
    OBVIOUS
  <1>8. /\ ab \in Seq(S) /\ Len(ab) = Len(a) + Len(b)
        /\ \A i \in 1 .. Len(a) : ab[i] = a[i]
    BY ONLY <1>4, <1>5, <1>7, Joined2
  <1>9. ab \in Seq(S)
    BY <1>8
  <1>10. PICK abc : abc = ab \o c
    OBVIOUS
  <1>11. /\ abc \in Seq(S) /\ Len(abc) = Len(ab) + Len(c)
         /\ \A i \in 1 .. Len(ab) : abc[i] = ab[i]
         /\ \A i \in 1 .. Len(c) : abc[Len(ab) + i] = c[i]
    BY ONLY <1>6, <1>9, <1>10, Joined2
  <1>12. PICK m \in Nat : m = Len(ab)
    BY <1>1, <1>8
  <1>13. abc \in Seq(S) /\ Len(abc) = m + 7 /\ DOMAIN abc = 1 .. m + 7 /\ 6 <= m
         /\ (\A i \in 1 .. 6 : abc[i] = a[i]) /\ (\A i \in 1 .. 7 : abc[m + i] = c[i])
    <2>1. abc \in Seq(S) /\ Len(abc) = m + 7
      BY <1>1, <1>11, <1>12
    <2>2. 6 <= m
      BY <1>1, <1>8, <1>12
    <2>3. \A i \in 1 .. 6 : i \in 1 .. m
      BY <2>2
    <2>4. \A i \in 1 .. 6 : abc[i] = a[i]
      BY <1>1, <1>8, <1>11, <1>12, <2>3
    <2>5. \A i \in 1 .. 7 : abc[m + i] = c[i]
      BY <1>1, <1>11, <1>12
    <2> QED BY <2>1, <2>2, <2>4, <2>5
  <1>14. \A i \in 1 .. m + 7 : abc[i] \in S
    BY <1>13
  <1>15. LayerSteps(l, cached) = [i \in 1 .. m + 7 |-> <<abc[i], l>>]
    BY <1>3, <1>7, <1>10, <1>13
  <1>16. \A i \in 1 .. m + 7 : <<abc[i], l>> \in Due(cached)
    <2>1. \A i \in 1 .. m + 7 : abc[i] \in S
      BY <1>14
    <2>2. l \in 0 .. Layers /\ l < Layers
      BY Constants
    <2> QED BY <2>1, <2>2 DEF S, Due
  <1>17. LayerSteps(l, cached) \in Seq(Due(cached))
    BY <1>12, <1>15, <1>16
  <1>18. ASSUME NEW p \in LayerPhases PROVE \E i \in 1 .. m + 7 : abc[i] = p
    <2>1. CASE \E i \in 1 .. 6 : a[i] = p
      <3>1. PICK i \in 1 .. 6 : a[i] = p
        BY <2>1
      <3>2. i \in 1 .. m + 7 /\ abc[i] = p
        BY <1>13, <3>1
      <3> QED BY <3>2
    <2>2. CASE \E i \in 1 .. 7 : c[i] = p
      <3>1. PICK i \in 1 .. 7 : c[i] = p
        BY <2>2
      <3>2. m + i \in 1 .. m + 7
        BY <1>12
      <3>3. abc[m + i] = p
        BY <1>13, <3>1
      <3> QED BY <3>2, <3>3
    <2> QED BY <1>2, <2>1, <2>2
  <1>19. IsPassing(LayerSteps(l, cached), LayerPhases)
    <2>1. DOMAIN LayerSteps(l, cached) = 1 .. m + 7
          /\ \A i \in 1 .. m + 7 : LayerSteps(l, cached)[i][1] = abc[i]
      BY ONLY <1>15
    <2> QED BY ONLY <1>18, <2>1 DEF IsPassing
  <1> QED BY <1>17, <1>19

\* A pass over layers first .. last - 1 goes through every phase it has to.
LEMMA RangeStepsAre ==
  ASSUME NEW first \in 0 .. Layers, NEW last \in 0 .. Layers, first < last, NEW cached \in BOOLEAN
  PROVE  /\ RangeSteps(first, last, cached) \in Seq(Due(cached))
         /\ IsPassing(RangeSteps(first, last, cached),
                      LayerPhases \cup (IF first = 0 THEN {"embed"} ELSE {}))
  <1> DEFINE S  == Due(cached)
             em == IF first = 0 THEN << <<"embed", 0>> >> ELSE <<>>
             ls == [i \in 1 .. last - first |-> LayerSteps(first + i - 1, cached)]
  <1>1. Layers \in Nat /\ first \in Nat /\ last \in Nat /\ last - first \in Nat \ {0}
    BY Constants
  <1>2. \A i \in 1 .. last - first : LayerSteps(first + i - 1, cached) \in Seq(S)
    <2>1. ASSUME NEW i \in 1 .. last - first PROVE LayerSteps(first + i - 1, cached) \in Seq(S)
      <3>1. first + i - 1 \in 0 .. Layers - 1
        BY <1>1
      <3> QED BY <3>1, LayerStepsAre
    <2> QED BY <2>1
  <1>3. IsPassing(LayerSteps(first, cached), LayerPhases)
    <2>1. first \in 0 .. Layers - 1
      BY <1>1
    <2> QED BY <2>1, LayerStepsAre
  <1>4. em \in Seq(S) /\ (first = 0 => Len(em) = 1 /\ em[1] = <<"embed", 0>>)
    <2>1. <<"embed", 0>> \in S
      BY <1>1, StepsAre DEF Due
    <2> HIDE DEF S
    <2>2. CASE first = 0
      BY <2>1, <2>2
    <2>3. CASE first # 0
      BY <2>3
    <2> QED BY <2>2, <2>3
  <1>5. RangeSteps(first, last, cached) = em \o FlattenSeq(ls)
    BY DEF RangeSteps
  <1> HIDE DEF S, em
  <1>6. ls \in Seq(Seq(S)) /\ Len(ls) > 0
    BY <1>1, <1>2
  <1>7. ls[1] = LayerSteps(first, cached)
    <2>1. 1 \in 1 .. last - first /\ first + 1 - 1 = first
      BY <1>1
    <2> QED BY <2>1
  <1> HIDE DEF ls
  <1>8. PICK fl : fl = FlattenSeq(ls)
    OBVIOUS
  <1>9. ls \in Seq(Seq(S))
    BY <1>6
  <1>10. /\ fl \in Seq(S)
         /\ Len(ls) > 0 => \A j \in 1 .. Len(ls[1]) : j \in 1 .. Len(fl) /\ fl[j] = ls[1][j]
    BY ONLY <1>8, <1>9, FlattenedIn
  <1>11. fl \in Seq(S)
    BY <1>10
  <1>12. em \in Seq(S)
    BY <1>4
  <1>13. PICK all : all = em \o fl
    OBVIOUS
  <1>14. /\ all \in Seq(S) /\ Len(all) = Len(em) + Len(fl)
         /\ Len(em) \in Nat /\ Len(fl) \in Nat
         /\ \A i \in 1 .. Len(em) : all[i] = em[i]
         /\ \A i \in 1 .. Len(fl) : all[Len(em) + i] = fl[i]
    BY ONLY <1>11, <1>12, <1>13, Joined2
  <1>15. DOMAIN all = 1 .. Len(em) + Len(fl)
    BY <1>14
  <1>16. ASSUME NEW p \in LayerPhases PROVE \E i \in DOMAIN all : all[i][1] = p
    <2>1. PICK j \in DOMAIN ls[1] : ls[1][j][1] = p
      BY <1>3, <1>7 DEF IsPassing
    <2>2. ls[1] \in Seq(S)
      BY <1>6
    <2>3. j \in 1 .. Len(ls[1])
      BY <2>2
    <2>4. j \in 1 .. Len(fl) /\ fl[j] = ls[1][j]
      BY <1>6, <1>10, <2>3
    <2>5. Len(em) + j \in DOMAIN all /\ all[Len(em) + j] = ls[1][j]
      BY <1>14, <1>15, <2>4
    <2> QED BY <2>1, <2>5
  <1>17. ASSUME first = 0 PROVE 1 \in DOMAIN all /\ all[1][1] = "embed"
    <2>1. 1 \in 1 .. Len(em) /\ em[1][1] = "embed"
      BY <1>4, <1>17
    <2>2. \A a, b \in Nat : \A i \in 1 .. a : i \in 1 .. a + b
      OBVIOUS
    <2> QED BY <1>14, <1>15, <2>1, <2>2
  <1>18. RangeSteps(first, last, cached) = all
    BY <1>5, <1>8, <1>13
  <1>19. IsPassing(all, LayerPhases \cup (IF first = 0 THEN {"embed"} ELSE {}))
    BY <1>16, <1>17 DEF IsPassing
  <1>20. all \in Seq(S)
    BY <1>14
  <1> QED BY <1>18, <1>19, <1>20 DEF S

-----------------------------------------------------------------------------
(* The invariant.                                                          *)

RuntimeFields == {"mem", "at", "tokens", "ran", "out", "events", "flags"}
CallFields    == {"r", "c", "n", "base", "txt", "last", "kv", "todo"}
CacheFields   == {"mem", "capacity", "length", "txt"}

\* A runtime, and what is behind its last run: a run of so many rows as there
\* is room for, and every phase that is read has been recorded.
RuntimeOK(x) ==
    /\ DOMAIN x = RuntimeFields
    /\ x.tokens \in Nat \ {0}
    /\ x.flags \subseteq {"embed", "final_norm", "cand"}
    /\ x.ran.ok => x.ran.n \in 1 .. x.tokens /\ LayerPhases \cup x.flags \subseteq x.events

RuntimesOK == DOMAIN rt = Runtimes /\ \A r \in Alive : RuntimeOK(rt[r])

\* A pass that is being launched will have recorded them when it returns.
CallOK ==
    call # Idle =>
        /\ DOMAIN call = CallFields
        /\ call.r \in Alive /\ call.n \in 1 .. rt[call.r].tokens
        /\ call.todo \in Seq(Due(call.c # "none"))
        /\ IsPassing(call.todo, (LayerPhases \cup rt[call.r].flags) \ rt[call.r].events)

PassInv == RuntimesOK /\ CallOK

\* What a kernel writes is in an allocation.
Sound(k) ==
    \A region \in Written(k) :
        region.mem \in Addresses /\ DOMAIN mem[region.mem] # {} /\ InBounds(region)

\* The workspace is laid out for the arena that the process has, and the arena
\* is in it and large enough.
WorkOK(x) ==
    /\ x.mem \in Addresses /\ DOMAIN mem[x.mem] = 0 .. Total(x.tokens, global.bytes) - 1
    /\ x.at = SliceAt(x.tokens, global.bytes)
    /\ ArenaCells(x.tokens) <= global.bytes
    /\ global.arena = [mem |-> x.mem, lo |-> x.at["arena"], size |-> global.bytes]

HeldOK(x) ==
    /\ DOMAIN x = CacheFields
    /\ x.capacity \in Nat \ {0} /\ x.length \in 0 .. x.capacity
    /\ x.mem \in Addresses /\ DOMAIN mem[x.mem] = 0 .. 2 * Layers * x.capacity - 1

WorkInv ==
    /\ DOMAIN mem = Addresses
    /\ DOMAIN global = {"bytes", "arena"} /\ global.bytes \in Nat
    /\ \A r, s \in Alive : r = s
    /\ \A r \in Alive : WorkOK(rt[r])

CacheInv ==
    /\ DOMAIN cache = Caches
    /\ \A c \in Held : HeldOK(cache[c])
    /\ \A c, d \in Held : cache[c].mem = cache[d].mem => c = d
    /\ \A r \in Alive : \A c \in Held : rt[r].mem # cache[c].mem

RowsInv ==
    call # Idle /\ call.c # "none" =>
        /\ call.c \in Held /\ call.kv = Pointers(call.c)
        /\ cache[call.c].length + call.n <= cache[call.c].capacity

IsQueue(s) == \E S : s \in Seq(S)

QueueInv ==
    /\ DOMAIN stream = Runtimes
    /\ \A r \in Runtimes : IsQueue(stream[r]) /\ \A i \in DOMAIN stream[r] : Sound(stream[r][i])

MemInv == WorkInv /\ CacheInv /\ RowsInv /\ QueueInv /\ ~crash

-----------------------------------------------------------------------------
(* Runtimes and passes.                                                    *)

LEMMA RuntimeLives == \A x : DOMAIN x = RuntimeFields => x # NoRuntime
  <1>1. DOMAIN NoRuntime = {"mem"} /\ "at" \in RuntimeFields
    BY DEF NoRuntime, RuntimeFields
  <1> QED BY <1>1

\* A step that concerns one runtime.
OnlyAt(r) == DOMAIN rt' = Runtimes /\ \A s \in Runtimes \ {r} : rt'[s] = rt[s]

LEMMA OneRuntimeSteps ==
  ASSUME RuntimesOK, NEW r \in Runtimes, OnlyAt(r), rt'[r] = NoRuntime \/ RuntimeOK(rt'[r])
  PROVE  RuntimesOK'
  <1> SUFFICES ASSUME NEW s \in Runtimes, rt'[s] # NoRuntime PROVE RuntimeOK(rt'[s])
    BY DEF RuntimesOK, OnlyAt, Alive
  <1>1. CASE s = r
    BY <1>1
  <1>2. CASE s # r
    BY <1>2 DEF OnlyAt, RuntimesOK, Alive
  <1> QED BY <1>1, <1>2

LEMMA PassInit == Init => PassInv
  BY DEF Init, PassInv, RuntimesOK, CallOK, Alive

\* A step that concerns no runtime's memory.
KeepsRuntimes ==
    /\ Alive' = Alive
    /\ \A s \in Alive : /\ rt'[s].mem = rt[s].mem /\ rt'[s].at = rt[s].at
                       /\ rt'[s].tokens = rt[s].tokens

LEMMA RuntimeKept ==
  ASSUME NEW r \in Alive, OnlyAt(r), DOMAIN rt'[r] = RuntimeFields,
         rt'[r].mem = rt[r].mem, rt'[r].at = rt[r].at, rt'[r].tokens = rt[r].tokens
  PROVE  KeepsRuntimes
  <1>1. rt'[r] # NoRuntime
    BY RuntimeLives
  <1> QED BY <1>1 DEF KeepsRuntimes, Alive, OnlyAt

LEMMA SameRuntimes ==
  (\A s \in Runtimes : rt'[s] = rt[s]) => KeepsRuntimes
  BY DEF KeepsRuntimes, Alive

LEMMA PassKept ==
  ASSUME PassInv, DOMAIN rt' = Runtimes, \A s \in Runtimes : rt'[s] = rt[s], UNCHANGED call
  PROVE  PassInv'
  BY DEF PassInv, RuntimesOK, CallOK, Alive, IsPassing, Due

LEMMA PassCreate ==
  ASSUME PassInv, NEW r \in Runtimes, NEW tokens \in TokenLimits, Create(r, tokens)
  PROVE  PassInv'
  <1>1. call = Idle /\ call' = call
    BY DEF Create, Ready
  <1>2. RuntimesOK /\ tokens \in Nat \ {0}
    BY Constants DEF PassInv
  <1>3. CASE UNCHANGED rt
    BY <1>1, <1>2, <1>3, PassKept DEF RuntimesOK
  <1>4. CASE ~ UNCHANGED rt
    <2>1. PICK a, at : rt' = [rt EXCEPT ![r] =
              [mem |-> a, at |-> at, tokens |-> tokens, ran |-> NoRun,
               out |-> Junk, events |-> {}, flags |-> {}]]
      BY <1>4 DEF Create
    <2>2. OnlyAt(r)
      BY <1>2, <2>1 DEF OnlyAt, RuntimesOK
    <2>3. rt'[r] = [mem |-> a, at |-> at, tokens |-> tokens, ran |-> NoRun,
                    out |-> Junk, events |-> {}, flags |-> {}]
      BY <1>2, <2>1 DEF RuntimesOK
    <2>4. RuntimeOK(rt'[r])
      BY <1>2, <2>3 DEF RuntimeOK, RuntimeFields, NoRun
    <2> QED BY <1>1, <1>2, <2>2, <2>4, OneRuntimeSteps DEF PassInv, CallOK
  <1> QED BY <1>3, <1>4

LEMMA PassDestroy ==
  ASSUME PassInv, NEW r \in Runtimes, Destroy(r)
  PROVE  PassInv'
  <1>1. call = Idle /\ call' = call
    BY DEF Destroy, Ready
  <1>2. RuntimesOK /\ OnlyAt(r) /\ rt'[r] = NoRuntime
    BY DEF PassInv, RuntimesOK, Destroy, OnlyAt
  <1>3. RuntimesOK'
    BY <1>2, OneRuntimeSteps
  <1> QED BY <1>1, <1>3 DEF PassInv, CallOK

LEMMA CallFacts ==
  ASSUME NEW r, NEW c, NEW n, NEW base, NEW txt, NEW last, NEW kv, NEW todo,
         call' = [r |-> r, c |-> c, n |-> n, base |-> base, txt |-> txt, last |-> last,
                  kv |-> kv, todo |-> todo]
  PROVE  /\ DOMAIN call' = CallFields /\ call'.r = r /\ call'.c = c /\ call'.n = n
         /\ call'.kv = kv /\ call'.todo = todo
  BY DEF CallFields

LEMMA PassBegin ==
  ASSUME PassInv, NEW r \in Alive, NEW n \in 1 .. rt[r].tokens, NEW c, NEW base, NEW txt,
         NEW first, NEW last, NEW todo \in Seq(Due(c # "none")),
         NEW flags \in SUBSET {"embed", "final_norm", "cand"}, IsPassing(todo, LayerPhases \cup flags),
         Begin(r, c, n, base, txt, first, last, todo, flags)
  PROVE  PassInv' /\ KeepsRuntimes
  <1>1. r \in Runtimes /\ RuntimesOK /\ RuntimeOK(rt[r]) /\ DOMAIN rt[r] = RuntimeFields
    BY DEF PassInv, RuntimesOK, RuntimeOK, Alive
  <1>2. rt' = [rt EXCEPT ![r].ran = NoRun, ![r].flags = flags]
    BY DEF Begin
  <1>3. /\ OnlyAt(r) /\ DOMAIN rt'[r] = RuntimeFields
        /\ rt'[r].mem = rt[r].mem /\ rt'[r].at = rt[r].at
        /\ rt'[r].tokens = rt[r].tokens /\ rt'[r].ran = NoRun /\ rt'[r].flags = flags
        /\ rt'[r].events = rt[r].events
    BY <1>1, <1>2 DEF OnlyAt, RuntimesOK, RuntimeFields
  <1>4. RuntimeOK(rt'[r])
    BY <1>1, <1>3 DEF RuntimeOK, NoRun
  <1>5. RuntimesOK'
    BY <1>1, <1>3, <1>4, OneRuntimeSteps
  <1>6. r \in Alive'
    BY <1>1, <1>3, RuntimeLives DEF Alive
  <1>7. call' = [r |-> r, c |-> c, n |-> n, base |-> base, txt |-> txt, last |-> last,
                 kv |-> Pointers(c), todo |-> todo]
    BY DEF Begin
  <1>8. DOMAIN call' = CallFields /\ call'.r = r /\ call'.c = c /\ call'.n = n /\ call'.todo = todo
    BY <1>7, CallFacts
  <1>9. CallOK'
    BY <1>3, <1>6, <1>8 DEF CallOK, IsPassing, Due
  <1>10. KeepsRuntimes
    BY <1>3, RuntimeKept
  <1> QED BY <1>5, <1>9, <1>10 DEF PassInv

LEMMA PassRunCached ==
  ASSUME PassInv, NEW r \in Runtimes, NEW c \in Caches, NEW n \in TokenLimits, RunCached(r, c, n)
  PROVE  PassInv' /\ KeepsRuntimes
  <1>1. r \in Alive /\ n \in 1 .. rt[r].tokens /\ 0 \in 0 .. Layers /\ Layers \in 0 .. Layers /\ 0 < Layers
    BY Constants DEF RunCached, Accepted
  <1>2. c # "none"
    BY RuntimeAssumption
  <1>3. /\ RangeSteps(0, Layers, TRUE) \in Seq(Due(TRUE))
        /\ IsPassing(RangeSteps(0, Layers, TRUE), LayerPhases \cup {"embed"})
    BY <1>1, RangeStepsAre
  <1>4. RangeSteps(0, Layers, TRUE) \in Seq(Due(c # "none"))
    BY <1>2, <1>3
  <1>5. Begin(r, c, n, cache[c].length, cache[c].txt, 0, Layers, RangeSteps(0, Layers, TRUE), {"embed"})
    BY DEF RunCached, FreshFlags
  <1>6. {"embed"} \in SUBSET {"embed", "final_norm", "cand"}
    OBVIOUS
  <1>7. IsPassing(RangeSteps(0, Layers, TRUE), LayerPhases \cup {"embed"})
    BY <1>3
  <1>8. r \in Alive
    BY <1>1
  <1>9. n \in 1 .. rt[r].tokens
    BY <1>1
  <1>10. PassInv
    OBVIOUS
  <1> QED BY ONLY <1>4, <1>5, <1>6, <1>7, <1>8, <1>9, <1>10, PassBegin

LEMMA PassRunUncached ==
  ASSUME PassInv, NEW r \in Runtimes, NEW n \in TokenLimits, NEW txt \in Texts,
         NEW first \in 0 .. Layers, NEW last \in 0 .. Layers, RunUncached(r, n, txt, first, last)
  PROVE  PassInv' /\ KeepsRuntimes
  <1> DEFINE todo == RangeSteps(first, last, FALSE)
             flags == IF first = 0 THEN {"embed"} ELSE {}
  <1>1. r \in Alive /\ n \in 1 .. rt[r].tokens /\ first < last
    BY DEF RunUncached, Accepted
  <1>2. todo \in Seq(Due(FALSE)) /\ IsPassing(todo, LayerPhases \cup flags)
    BY <1>1, RangeStepsAre
  <1>3. Begin(r, "none", n, 0, txt, first, last, todo, flags)
    BY DEF RunUncached, FreshFlags
  <1>4. flags \in SUBSET {"embed", "final_norm", "cand"}
    OBVIOUS
  <1> HIDE DEF todo, flags
  <1>5. todo \in Seq(Due("none" # "none"))
    BY <1>2
  <1>6. r \in Alive
    BY <1>1
  <1>7. n \in 1 .. rt[r].tokens
    BY <1>1
  <1>8. IsPassing(todo, LayerPhases \cup flags)
    BY <1>2
  <1>9. PassInv
    OBVIOUS
  <1> QED BY ONLY <1>3, <1>4, <1>5, <1>6, <1>7, <1>8, <1>9, PassBegin

LEMMA PassBehind ==
  ASSUME PassInv, NEW r \in Runtimes, NEW step \in {"final_norm", "cand"}, Behind(r, step)
  PROVE  PassInv' /\ KeepsRuntimes
  <1>1. r \in Alive /\ rt[r].ran.ok /\ rt' = rt
    BY DEF Behind
  <1>2. RuntimeOK(rt[r]) /\ RuntimesOK
    BY <1>1 DEF PassInv, RuntimesOK
  <1>3. RuntimesOK'
    BY <1>1, <1>2 DEF RuntimesOK, Alive
  <1>4. call' = [r |-> r, c |-> "none", n |-> rt[r].ran.n, base |-> rt[r].ran.base,
                 txt |-> rt[r].ran.txt, last |-> Layers, kv |-> NoKv,
                 todo |-> << <<step, Layers>> >>]
    BY DEF Behind
  <1>5. DOMAIN call' = CallFields /\ call'.r = r /\ call'.c = "none" /\ call'.n = rt[r].ran.n
        /\ call'.todo = << <<step, Layers>> >>
    BY <1>4, CallFacts
  <1>6. << <<step, Layers>> >> \in Seq(Due(FALSE))
    <2>1. <<step, Layers>> \in Due(FALSE)
      BY StepsAre, Constants DEF Due
    <2>2. \A S, x : x \in S => <<x>> \in Seq(S)
      OBVIOUS
    <2> QED BY ONLY <2>1, <2>2
  <1>7. call'.todo \in Seq(Due(call'.c # "none"))
    BY <1>5, <1>6
  <1>8. (LayerPhases \cup rt[r].flags) \ rt[r].events = {}
    BY <1>1, <1>2 DEF RuntimeOK
  <1>9. CallOK'
    <2>1. r \in Alive' /\ call'.n \in 1 .. rt'[r].tokens
      BY <1>1, <1>2, <1>5 DEF RuntimeOK, Alive
    <2>2. IsPassing(call'.todo, (LayerPhases \cup rt'[r].flags) \ rt'[r].events)
      BY <1>1, <1>8 DEF IsPassing
    <2> QED BY <1>5, <1>7, <2>1, <2>2 DEF CallOK, Due
  <1>10. KeepsRuntimes
    BY <1>1, SameRuntimes
  <1> QED BY <1>3, <1>9, <1>10 DEF PassInv

LEMMA StepOfPass ==
  ASSUME PassInv, call # Idle, call.todo # <<>>
  PROVE  /\ call.r \in Alive /\ call.r \in Runtimes /\ DOMAIN call = CallFields
         /\ RuntimeOK(rt[call.r]) /\ call.n \in 1 .. rt[call.r].tokens
         /\ Head(call.todo) \in Due(call.c # "none")
         /\ Tail(call.todo) \in Seq(Due(call.c # "none"))
         /\ Step \in StepNames /\ Head(call.todo)[2] \in 0 .. Layers
         /\ \A p : (\E i \in DOMAIN call.todo : call.todo[i][1] = p) =>
               p = Step \/ \E i \in DOMAIN Tail(call.todo) : Tail(call.todo)[i][1] = p
  <1>1. /\ call.r \in Alive /\ call.r \in Runtimes /\ DOMAIN call = CallFields
        /\ RuntimeOK(rt[call.r]) /\ call.n \in 1 .. rt[call.r].tokens
        /\ call.todo \in Seq(Due(call.c # "none"))
    BY DEF PassInv, CallOK, RuntimesOK, Alive
  <1>2. PICK S, s : S = Due(call.c # "none") /\ s = call.todo
    OBVIOUS
  <1>3. s \in Seq(S) /\ s # <<>>
    BY <1>1, <1>2
  <1>4. /\ Head(s) \in S /\ Tail(s) \in Seq(S) /\ Head(s) = s[1]
        /\ \A i \in DOMAIN s : i = 1 \/ (i - 1 \in DOMAIN Tail(s) /\ Tail(s)[i - 1] = s[i])
    BY ONLY <1>3
  <1>5. Step = Head(s)[1]
    BY <1>2 DEF Step
  <1>6. Head(s)[1] \in StepNames /\ Head(s)[2] \in 0 .. Layers
    BY <1>2, <1>4 DEF Due
  <1>7. \A p : (\E i \in DOMAIN s : s[i][1] = p) =>
               p = Step \/ \E i \in DOMAIN Tail(s) : Tail(s)[i][1] = p
    BY <1>4, <1>5
  <1> QED BY <1>1, <1>2, <1>4, <1>5, <1>6, <1>7

\* Recording a phase leaves one fewer to record.
LEMMA PassLaunchStep ==
  ASSUME PassInv, call # Idle, call.todo # <<>>, LaunchStep
  PROVE  PassInv' /\ KeepsRuntimes
  <1>1. PICK r : r = call.r
    OBVIOUS
  <1>2. /\ r \in Alive /\ r \in Runtimes /\ DOMAIN call = CallFields
        /\ RuntimeOK(rt[r]) /\ call.n \in 1 .. rt[r].tokens
        /\ Tail(call.todo) \in Seq(Due(call.c # "none")) /\ Step \in StepNames
        /\ \A p : (\E i \in DOMAIN call.todo : call.todo[i][1] = p) =>
               p = Step \/ \E i \in DOMAIN Tail(call.todo) : Tail(call.todo)[i][1] = p
    BY <1>1, StepOfPass
  <1>3. PICK E, F : E = Recorded(Step).events /\ F = Recorded(Step).flags
    OBVIOUS
  <1>4. /\ F \subseteq E /\ F \subseteq {"final_norm", "cand"}
        /\ Step # "append" => Step \in E
    <2>1. CASE Step \in {"final_norm", "cand"}
      BY <1>3, <2>1 DEF Recorded
    <2>2. CASE Step = "append"
      BY <1>3, <2>2 DEF Recorded
    <2>3. CASE Step \notin {"final_norm", "cand", "append"}
      BY <1>3, <2>3 DEF Recorded
    <2> QED BY <2>1, <2>2, <2>3
  <1>5. rt' = [rt EXCEPT ![r].events = @ \cup E, ![r].flags = @ \cup F]
    BY <1>1, <1>3 DEF LaunchStep
  <1>6. DOMAIN rt = Runtimes /\ DOMAIN rt[r] = RuntimeFields
    BY <1>2 DEF PassInv, RuntimesOK, RuntimeOK
  <1>7. /\ OnlyAt(r) /\ DOMAIN rt'[r] = RuntimeFields
        /\ rt'[r].mem = rt[r].mem /\ rt'[r].at = rt[r].at
        /\ rt'[r].tokens = rt[r].tokens /\ rt'[r].ran = rt[r].ran
        /\ rt'[r].flags = rt[r].flags \cup F /\ rt'[r].events = rt[r].events \cup E
    BY <1>2, <1>5, <1>6 DEF OnlyAt, RuntimeFields
  <1>8. RuntimeOK(rt'[r])
    BY <1>2, <1>4, <1>7 DEF RuntimeOK
  <1>9. RuntimesOK'
    BY <1>2, <1>7, <1>8, OneRuntimeSteps DEF PassInv
  <1>10. r \in Alive'
    BY <1>2, <1>7, RuntimeLives DEF Alive
  <1>11. /\ DOMAIN call' = CallFields /\ call'.r = r /\ call'.n = call.n /\ call'.c = call.c
         /\ call'.todo = Tail(call.todo)
    BY <1>1, <1>2 DEF LaunchStep, CallFields
  <1>12. "append" \notin LayerPhases \cup rt[r].flags \cup F
    BY <1>2, <1>4 DEF LayerPhases, Phases, RuntimeOK
  <1>13. IsPassing(Tail(call.todo), (LayerPhases \cup rt'[r].flags) \ rt'[r].events)
    <2>1. SUFFICES ASSUME NEW p \in (LayerPhases \cup rt[r].flags \cup F) \ (rt[r].events \cup E)
                   PROVE  \E i \in DOMAIN Tail(call.todo) : Tail(call.todo)[i][1] = p
      BY <1>7 DEF IsPassing
    <2>2. p \in (LayerPhases \cup rt[r].flags) \ rt[r].events /\ p # Step
      BY <1>4, <1>12
    <2>3. IsPassing(call.todo, (LayerPhases \cup rt[r].flags) \ rt[r].events)
      BY <1>1 DEF PassInv, CallOK
    <2> QED BY <1>2, <2>2, <2>3 DEF IsPassing
  <1>14. CallOK'
    <2>1. call'.todo \in Seq(Due(call'.c # "none"))
      BY <1>2, <1>11
    <2> QED BY <1>2, <1>7, <1>10, <1>11, <1>13, <2>1 DEF CallOK, Due
  <1>15. KeepsRuntimes
    BY <1>2, <1>7, RuntimeKept
  <1> QED BY <1>9, <1>14, <1>15 DEF PassInv

\* What a pass that ends, and a kernel, leave of a runtime.
LEMMA PassLaunchFails ==
  ASSUME PassInv, call # Idle, call.todo # <<>>, LaunchFails
  PROVE  PassInv' /\ KeepsRuntimes
  <1>1. PICK r : r = call.r
    OBVIOUS
  <1>2. r \in Runtimes /\ r \in Alive /\ RuntimeOK(rt[r])
    BY <1>1, StepOfPass
  <1>3. rt' = [rt EXCEPT ![r].ran = NoRun] /\ call' = Idle
    BY <1>1 DEF LaunchFails
  <1>4. DOMAIN rt = Runtimes /\ DOMAIN rt[r] = RuntimeFields
    BY <1>2 DEF PassInv, RuntimesOK, RuntimeOK
  <1>5. /\ OnlyAt(r) /\ DOMAIN rt'[r] = RuntimeFields
        /\ rt'[r].mem = rt[r].mem /\ rt'[r].at = rt[r].at
        /\ rt'[r].tokens = rt[r].tokens /\ rt'[r].ran = NoRun
        /\ rt'[r].flags = rt[r].flags /\ rt'[r].events = rt[r].events
    BY <1>2, <1>3, <1>4 DEF OnlyAt, RuntimeFields
  <1>6. RuntimeOK(rt'[r])
    BY <1>2, <1>5 DEF RuntimeOK, NoRun
  <1>7. RuntimesOK'
    BY <1>2, <1>5, <1>6, OneRuntimeSteps DEF PassInv
  <1>8. KeepsRuntimes
    BY <1>2, <1>5, RuntimeKept
  <1> QED BY <1>3, <1>7, <1>8 DEF PassInv, CallOK

LEMMA PassReturn ==
  ASSUME PassInv, Return
  PROVE  PassInv' /\ KeepsRuntimes
  <1>1. PICK r : r = call.r
    OBVIOUS
  <1>2. /\ r \in Runtimes /\ RuntimeOK(rt[r]) /\ call.n \in 1 .. rt[r].tokens
        /\ call.todo = <<>> /\ call # Idle /\ r \in Alive
    BY <1>1 DEF PassInv, CallOK, RuntimesOK, Return, Alive
  <1>3. PICK run : run = [ok |-> TRUE, n |-> call.n, base |-> call.base, txt |-> call.txt,
                          last |-> call.last]
    OBVIOUS
  <1>4. rt' = [rt EXCEPT ![r].ran = run] /\ call' = Idle
    BY <1>1, <1>3 DEF Return
  <1>5. DOMAIN rt = Runtimes /\ DOMAIN rt[r] = RuntimeFields
    BY <1>2 DEF PassInv, RuntimesOK, RuntimeOK
  <1>6. /\ OnlyAt(r) /\ DOMAIN rt'[r] = RuntimeFields
        /\ rt'[r].mem = rt[r].mem /\ rt'[r].at = rt[r].at
        /\ rt'[r].tokens = rt[r].tokens /\ rt'[r].ran = run
        /\ rt'[r].flags = rt[r].flags /\ rt'[r].events = rt[r].events
    BY <1>2, <1>4, <1>5 DEF OnlyAt, RuntimeFields
  <1>7. LayerPhases \cup rt[r].flags \subseteq rt[r].events
    BY <1>1, <1>2 DEF PassInv, CallOK, IsPassing
  <1>8. run.n = call.n
    BY <1>3
  <1>9. RuntimeOK(rt'[r])
    BY <1>2, <1>6, <1>7, <1>8 DEF RuntimeOK
  <1>10. RuntimesOK'
    BY <1>2, <1>6, <1>9, OneRuntimeSteps DEF PassInv
  <1>11. KeepsRuntimes
    BY <1>2, <1>6, RuntimeKept
  <1> QED BY <1>4, <1>10, <1>11 DEF PassInv, CallOK

LEMMA PassExecute ==
  ASSUME PassInv, NEW r \in Runtimes, Execute(r)
  PROVE  PassInv' /\ KeepsRuntimes
  <1>1. RuntimesOK /\ DOMAIN rt = Runtimes /\ call' = call
    BY DEF Execute, PassInv, RuntimesOK
  <1>2. CASE UNCHANGED rt
    BY <1>1, <1>2, PassKept, SameRuntimes
  <1>3. CASE ~ UNCHANGED rt /\ r \in Alive
    <2>1. PICK out : rt' = [rt EXCEPT ![r].out = out]
      BY <1>3 DEF Execute
    <2>2. DOMAIN rt[r] = RuntimeFields /\ RuntimeOK(rt[r])
      BY <1>3 DEF PassInv, RuntimesOK, RuntimeOK
    <2>3. /\ OnlyAt(r) /\ DOMAIN rt'[r] = RuntimeFields
          /\ rt'[r].mem = rt[r].mem /\ rt'[r].at = rt[r].at
          /\ rt'[r].mem = rt[r].mem /\ rt'[r].at = rt[r].at
        /\ rt'[r].tokens = rt[r].tokens /\ rt'[r].ran = rt[r].ran
          /\ rt'[r].flags = rt[r].flags /\ rt'[r].events = rt[r].events
      BY <1>1, <2>1, <2>2 DEF OnlyAt, RuntimeFields
    <2>4. RuntimeOK(rt'[r])
      BY <2>2, <2>3 DEF RuntimeOK
    <2>5. RuntimesOK'
      BY <1>1, <2>3, <2>4, OneRuntimeSteps
    <2>6. KeepsRuntimes
      BY <1>3, <2>3, RuntimeKept
    <2>7. CallOK'
      <3>1. CASE call = Idle
        BY <1>1, <3>1 DEF CallOK
      <3>2. CASE call # Idle
        <4>1. /\ call.r \in Alive' /\ rt'[call.r].tokens = rt[call.r].tokens
              /\ rt'[call.r].flags = rt[call.r].flags /\ rt'[call.r].events = rt[call.r].events
          BY <2>3, <2>6, <3>2 DEF PassInv, CallOK, OnlyAt, Alive, KeepsRuntimes
        <4> QED BY <1>1, <3>2, <4>1 DEF PassInv, CallOK, IsPassing, Due
      <3> QED BY <3>1, <3>2
    <2> QED BY <2>5, <2>6, <2>7 DEF PassInv
  <1>4. CASE ~ UNCHANGED rt /\ r \notin Alive
    <2>1. PICK out : rt' = [rt EXCEPT ![r].out = out]
      BY <1>4 DEF Execute
    <2>2. rt[r] = NoRuntime
      BY <1>4 DEF Alive
    <2>3. [NoRuntime EXCEPT !.out = out] = NoRuntime
      BY DEF NoRuntime
    <2>4. DOMAIN rt' = Runtimes /\ \A s \in Runtimes : rt'[s] = rt[s]
      BY <1>1, <2>1, <2>2, <2>3
    <2> QED BY <1>1, <2>4, PassKept, SameRuntimes
  <1> QED BY <1>2, <1>3, <1>4

LEMMA PassNext == PassInv /\ [Next]_vars => PassInv'
  <1> SUFFICES ASSUME PassInv, [Next]_vars PROVE PassInv'
    OBVIOUS
  <1>1. CASE UNCHANGED vars
    BY <1>1, PassKept DEF vars, PassInv, RuntimesOK
  <1>2. ASSUME NEW r \in Runtimes,
               \/ \E tokens \in TokenLimits : Create(r, tokens)
               \/ Destroy(r)
               \/ \E c \in Caches, n \in TokenLimits : RunCached(r, c, n)
               \/ \E n \in TokenLimits, txt \in Texts, first, last \in 0 .. Layers :
                     RunUncached(r, n, txt, first, last)
               \/ FinalNorm(r) \/ Candidates(r) \/ Execute(r)
        PROVE  PassInv'
    <2>1. CASE FinalNorm(r) \/ Candidates(r)
      BY <2>1, PassBehind DEF FinalNorm, Candidates
    <2> QED BY <1>2, <2>1, PassCreate, PassDestroy, PassRunCached, PassRunUncached, PassExecute
  <1>3. ASSUME NEW c \in Caches,
               \/ \E n \in Capacities, txt \in Texts : KvInit(c, n, txt)
               \/ \E n \in Capacities : KvReserve(c, n)
               \/ \E txt \in Texts : KvReset(c, txt)
               \/ KvDestroy(c)
        PROVE  PassInv'
    BY <1>3, PassKept DEF KvInit, KvReserve, KvReset, KvDestroy, PassInv, RuntimesOK
  <1>4. CASE Launch
    BY <1>4, PassLaunchStep, PassLaunchFails DEF Launch
  <1>5. CASE Return
    BY <1>5, PassReturn
  <1> QED BY <1>1, <1>2, <1>3, <1>4, <1>5 DEF Next

LEMMA PassesHold == Spec => []PassInv
  BY PassInit, PassNext, PTL DEF Spec

\* The times that q3_forward_synchronize() reads were recorded, by any number of
\* runtimes, whatever failed before.
THEOREM RecordedBeforeRead == Spec => []OnlyRecordedRead
  <1>1. PassInv => OnlyRecordedRead
    BY DEF PassInv, RuntimesOK, RuntimeOK, OnlyRecordedRead, PhasesRead, LayerPhases
  <1> QED BY <1>1, PassesHold, PTL

-----------------------------------------------------------------------------
(* What kernels write.                                                     *)

LEMMA SizeIs ==
  ASSUME NEW a, NEW n \in Nat \ {0}, DOMAIN mem[a] = 0 .. n - 1
  PROVE  Size(a) = n /\ DOMAIN mem[a] # {}
  <1>1. 0 \in Int /\ n - 1 \in Int /\ ~(0 > n - 1) /\ (n - 1) - 0 + 1 = n
    OBVIOUS
  <1>2. Cardinality(0 .. n - 1) = n
    BY <1>1, FS_Interval
  <1>3. 0 \in 0 .. n - 1
    OBVIOUS
  <1> QED BY <1>2, <1>3 DEF Size

\* The workspace of a runtime.
LEMMA WorkIs ==
  ASSUME WorkInv, RuntimesOK, NEW r \in Alive
  PROVE  LET x == rt[r] t == rt[r].tokens g == global.bytes IN
         /\ t \in Nat \ {0} /\ g \in Nat
         /\ x.mem \in Addresses /\ DOMAIN mem[x.mem] # {} /\ Size(x.mem) = Total(t, g)
         /\ Total(t, g) \in Nat
         /\ \A b \in Names : /\ x.at[b] \in Nat /\ SliceSize(t, g, b) \in Nat
                             /\ x.at[b] + SliceSize(t, g, b) <= Total(t, g)
         /\ global.arena.mem = x.mem /\ global.arena.lo = x.at["arena"] /\ global.arena.size = g
         /\ ArenaCells(t) <= g
  <1>1. PICK x, t, g : x = rt[r] /\ t = rt[r].tokens /\ g = global.bytes
    OBVIOUS
  <1>2. /\ t \in Nat \ {0} /\ g \in Nat /\ x.mem \in Addresses
        /\ DOMAIN mem[x.mem] = 0 .. Total(t, g) - 1 /\ x.at = SliceAt(t, g)
        /\ global.arena = [mem |-> x.mem, lo |-> x.at["arena"], size |-> g]
        /\ ArenaCells(t) <= g
    BY <1>1 DEF WorkInv, WorkOK, RuntimesOK, RuntimeOK
  <1>3. t \in Nat \ {0}
    BY <1>2
  <1>4. g \in Nat
    BY <1>2
  <1>5. /\ Total(t, g) \in Nat \ {0}
        /\ \A b \in Names :
              /\ SliceAt(t, g)[b] \in Nat /\ SliceSize(t, g, b) \in Nat
              /\ SliceAt(t, g)[b] + SliceSize(t, g, b) <= Total(t, g)
    BY ONLY <1>3, <1>4, SlicesApart
  <1>6. PICK T : T = Total(t, g)
    OBVIOUS
  <1>7. T \in Nat \ {0}
    BY <1>5, <1>6
  <1>8. DOMAIN mem[x.mem] = 0 .. T - 1
    BY <1>2, <1>6
  <1>9. Size(x.mem) = T /\ DOMAIN mem[x.mem] # {}
    BY ONLY <1>7, <1>8, SizeIs
  <1> QED BY <1>1, <1>2, <1>5, <1>6, <1>7, <1>9

IsSound(region) == region.mem \in Addresses /\ DOMAIN mem[region.mem] # {} /\ InBounds(region)

LEMMA CellsSound ==
  ASSUME NEW a \in Addresses, DOMAIN mem[a] # {}, NEW lo \in Nat, NEW n \in Nat, lo + n <= Size(a)
  PROVE  IsSound(Cells(a, lo, n))
  BY DEF IsSound, Cells, InBounds

\* A kernel of runtime r over n rows.
IsOf(k, r) ==
    /\ k.n \in 1 .. rt[r].tokens
    /\ k.ws.mem = rt[r].mem /\ k.ws.at = rt[r].at /\ k.arena = global.arena

LEMMA RegionSound ==
  ASSUME WorkInv, RuntimesOK, NEW r \in Alive, NEW k, IsOf(k, r), NEW b \in Buffers
  PROVE  IsSound(Region(k, b))
  <1>1. PICK x, t, g : x = rt[r] /\ t = rt[r].tokens /\ g = global.bytes
    OBVIOUS
  <1>2. /\ t \in Nat \ {0} /\ x.mem \in Addresses /\ DOMAIN mem[x.mem] # {}
        /\ Size(x.mem) = Total(t, g) /\ Total(t, g) \in Nat
        /\ x.at[b] \in Nat /\ x.at[b] + SliceSize(t, g, b) <= Total(t, g)
    BY <1>1, WorkIs DEF Names
  <1>3. SliceSize(t, g, b) = t * Width[b]
    BY DEF SliceSize
  <1>4. PICK n, w : n = k.n /\ w = Width[b]
    OBVIOUS
  <1>5. n \in 1 .. t /\ w \in Nat
    BY <1>1, <1>4, Widths DEF IsOf
  <1>6. n * w \in Nat /\ t * w \in Nat /\ n * w <= t * w
    <2>1. n \in Nat /\ t \in Nat /\ n <= t /\ w \in Nat
      BY <1>2, <1>5
    <2> QED BY ONLY <2>1, FewerRows
  <1>7. PICK lo, m : lo = x.at[b] /\ m = n * w
    OBVIOUS
  <1>8. lo \in Nat /\ m \in Nat /\ lo + m <= Size(x.mem)
    BY <1>2, <1>3, <1>4, <1>6, <1>7
  <1>9. Region(k, b) = Cells(x.mem, lo, m)
    BY <1>1, <1>4, <1>7 DEF Region, IsOf
  <1> QED BY <1>2, <1>8, <1>9, CellsSound

\* Products: what they read was quantised into the arena, in front of the scratch.
LEMMA ArenaSound ==
  ASSUME WorkInv, RuntimesOK, NEW r \in Alive, NEW k, IsOf(k, r),
         k.op.src \in {"normed", "attn", "gate"}
  PROVE  IsSound(Stage(k)) /\ IsSound(Fixup(k)) /\ ~TooLarge(k)
  <1>1. PICK x, t, g : x = rt[r] /\ t = rt[r].tokens /\ g = global.bytes
    OBVIOUS
  <1>2. /\ t \in Nat \ {0} /\ g \in Nat /\ x.mem \in Addresses /\ DOMAIN mem[x.mem] # {}
        /\ Size(x.mem) = Total(t, g) /\ Total(t, g) \in Nat
        /\ x.at["arena"] \in Nat /\ x.at["arena"] + SliceSize(t, g, "arena") <= Total(t, g)
        /\ global.arena.mem = x.mem /\ global.arena.lo = x.at["arena"] /\ global.arena.size = g
        /\ ArenaCells(t) <= g
    BY <1>1, WorkIs DEF Names
  <1>3. SliceSize(t, g, "arena") = g
    BY Widths DEF SliceSize
  <1>4. PICK n, w : n = k.n /\ w = Width[k.op.src]
    OBVIOUS
  <1>5. n \in 1 .. t /\ w \in Nat /\ w <= Inter
    BY <1>1, <1>4, Widths, Zenon DEF IsOf
  <1>6. n \in 0 .. t /\ t \in Nat
    BY <1>2, <1>5
  <1>7. /\ StageCells(n, w) \in Nat /\ FixupAt(n, w) \in Nat /\ ArenaUse(n, w) \in Nat
        /\ StageCells(n, w) <= FixupAt(n, w)
        /\ ArenaUse(n, w) <= g /\ FixupAt(n, w) <= ArenaUse(n, w)
        /\ ~(n <= VecBatch) => FixupAt(n, w) + FixupCells <= ArenaUse(n, w)
    BY <1>2, <1>5, <1>6, ArenaSuffices
  <1>8. PICK lo, s, f, u, c : /\ lo = x.at["arena"] /\ s = StageCells(n, w) /\ f = FixupAt(n, w)
                              /\ u = ArenaUse(n, w)
                              /\ c = IF n <= VecBatch THEN 0 ELSE FixupCells
    OBVIOUS
  <1>9. lo \in Nat /\ s \in Nat /\ f \in Nat /\ u \in Nat /\ c \in Nat
        /\ s <= f /\ f + c <= u /\ u <= g
    BY <1>2, <1>7, <1>8, Constants
  <1>10. lo + g <= Size(x.mem) /\ Size(x.mem) \in Nat
    BY <1>2, <1>3, <1>8
  <1>11. lo + s <= Size(x.mem) /\ lo + f \in Nat /\ (lo + f) + c <= Size(x.mem)
    BY <1>2, <1>9, <1>10
  <1>12. k.arena.mem = x.mem /\ k.arena.lo = lo /\ k.arena.size = g
    BY <1>2, <1>8 DEF IsOf
  <1>13. Stage(k) = Cells(x.mem, lo, s)
    BY <1>4, <1>8, <1>12 DEF Stage
  <1>14. Fixup(k) = Cells(x.mem, lo + f, c)
    BY <1>4, <1>8, <1>12 DEF Fixup
  <1>15. IsSound(Cells(x.mem, lo, s))
    BY <1>2, <1>9, <1>11, CellsSound
  <1>16. IsSound(Cells(x.mem, lo + f, c))
    BY <1>2, <1>9, <1>11, CellsSound
  <1>17. ~TooLarge(k)
    <2>1. ~(u > g)
      BY <1>2, <1>9
    <2>2. ArenaUse(k.n, Width[k.op.src]) = u
      BY <1>4, <1>8
    <2> QED BY <1>12, <2>1, <2>2 DEF TooLarge
  <1> QED BY <1>13, <1>14, <1>15, <1>16, <1>17

\* Rows that a cache has room for, in a layer that it has.
HasRoom(k) ==
    /\ k.kv.mem \in Addresses /\ k.kv.capacity \in Nat \ {0} /\ k.kv.length \in Nat
    /\ k.n \in Nat /\ k.kv.length + k.n <= k.kv.capacity
    /\ DOMAIN mem[k.kv.mem] = 0 .. 2 * Layers * k.kv.capacity - 1

LEMMA RowsLie ==
  ASSUME NEW l \in Nat, NEW m \in Nat, l < m, NEW cap \in Nat \ {0}, NEW j \in Nat, NEW n \in Nat,
         j + n <= cap
  PROVE  /\ l * cap \in Nat /\ m * cap \in Nat \ {0} /\ l * cap + j + n <= m * cap
         /\ 2 * m * cap = m * cap + m * cap
  <1>1. PICK d \in Nat : m = l + 1 + d
    <2>1. m - l - 1 \in Nat /\ m = l + 1 + (m - l - 1)
      OBVIOUS
    <2> QED BY <2>1
  <1>2. l * cap \in Nat /\ d * cap \in Nat /\ m * cap = l * cap + cap + d * cap
    BY <1>1
  <1>3. 2 * m * cap = m * cap + m * cap
    OBVIOUS
  <1>4. \A x, y \in Nat : x + cap + y \in Nat \ {0} /\ x + j + n <= x + cap + y
    OBVIOUS
  <1> QED BY <1>2, <1>3, <1>4

LEMMA CacheSound ==
  ASSUME NEW k, HasRoom(k), k.op.src \in {"k", "v"}, k.layer \in Nat, k.layer < Layers
  PROVE  IsSound(CacheRows(k))
  <1>1. PICK l, cap, j, n, a : /\ l = k.layer /\ cap = k.kv.capacity /\ j = k.kv.length /\ n = k.n
                               /\ a = k.kv.mem
    OBVIOUS
  <1>2. /\ l \in Nat /\ Layers \in Nat /\ l < Layers /\ cap \in Nat \ {0} /\ j \in Nat /\ n \in Nat
        /\ j + n <= cap /\ a \in Addresses /\ DOMAIN mem[a] = 0 .. 2 * Layers * cap - 1
    BY <1>1, Constants DEF HasRoom
  <1>3. /\ l * cap \in Nat /\ Layers * cap \in Nat \ {0} /\ l * cap + j + n <= Layers * cap
        /\ 2 * Layers * cap = Layers * cap + Layers * cap
    BY <1>2, RowsLie
  <1>4. PICK u, v : u = l * cap /\ v = Layers * cap
    OBVIOUS
  <1>5. u \in Nat /\ v \in Nat \ {0} /\ u + j + n <= v
    BY <1>3, <1>4
  <1>6. DOMAIN mem[a] = 0 .. (v + v) - 1 /\ v + v \in Nat \ {0}
    BY <1>2, <1>3, <1>4, <1>5
  <1>7. Size(a) = v + v /\ DOMAIN mem[a] # {}
    BY <1>6, SizeIs
  <1>8. PICK lo, top : lo = CacheRow(k.kv, k.op.src, l, j) /\ top = CacheRow(k.kv, k.op.src, Layers, 0)
    OBVIOUS
  <1>9. /\ k.op.src = "k" => lo = u + j /\ top = v
        /\ k.op.src = "v" => lo = v + u + j /\ top = v + v
    <2>1. ASSUME k.op.src = "k" PROVE lo = u + j /\ top = v
      <3>1. lo = 0 + u + j /\ top = 0 + v + 0
        BY <1>1, <1>4, <1>8, <2>1 DEF CacheRow
      <3> QED BY <1>2, <1>5, <3>1
    <2>2. ASSUME k.op.src = "v" PROVE lo = v + u + j /\ top = v + v
      <3>1. lo = v + u + j /\ top = v + v + 0
        BY <1>1, <1>4, <1>8, <2>2 DEF CacheRow
      <3> QED BY <1>5, <3>1
    <2> QED BY <2>1, <2>2
  <1>10. lo \in Nat /\ top \in Nat /\ lo + n <= top /\ top <= v + v
    <2>1. CASE k.op.src = "k"
      BY <1>2, <1>5, <1>9, <2>1
    <2>2. CASE k.op.src = "v"
      BY <1>2, <1>5, <1>9, <2>2
    <2> QED BY <2>1, <2>2
  <1>11. Min({v + v, top}) = top
    BY <1>5, <1>10 DEF Min
  <1>12. CacheRows(k) = [mem |-> a, lo |-> lo, hi |-> lo + n, end |-> top]
    <2>1. Cells(a, lo, n) = [mem |-> a, lo |-> lo, hi |-> lo + n, end |-> v + v]
      BY <1>7 DEF Cells
    <2>2. CacheRows(k) = [Cells(a, lo, n) EXCEPT !.end = Min({Cells(a, lo, n).end, top})]
      BY <1>1, <1>8 DEF CacheRows
    <2> QED BY <1>11, <2>1, <2>2
  <1>13. PICK region : region = CacheRows(k)
    OBVIOUS
  <1>14. region.mem = a /\ region.hi = lo + n /\ region.end = top
    BY <1>12, <1>13
  <1>15. InBounds(region)
    BY <1>10, <1>14 DEF InBounds
  <1> QED BY <1>2, <1>7, <1>13, <1>14, <1>15 DEF IsSound

LEMMA KernelSound ==
  ASSUME WorkInv, RuntimesOK, NEW r \in Alive, NEW k, IsOf(k, r), k.op \in Ops, k.layer \in 0 .. Layers,
         k.op.kind = "append" => k.layer < Layers /\ HasRoom(k)
  PROVE  Sound(k) /\ ~TooLarge(k)
  <1>0. OpOK(k.op) /\ k.layer \in Nat
    BY Constants DEF Ops
  <1>1. SUFFICES (\A region \in Written(k) : IsSound(region)) /\ ~TooLarge(k)
    BY DEF Sound, IsSound
  <1>2. CASE k.op.kind = "quant"
    <2>1. Written(k) = {Stage(k)}
      BY <1>2 DEF Written
    <2> QED BY <1>0, <1>2, <2>1, ArenaSound DEF OpOK
  <1>3. CASE k.op.kind = "mul"
    <2>1. Written(k) = {Fixup(k), Region(k, k.op.dst)}
      BY <1>3 DEF Written
    <2>2. k.op.src \in {"normed", "attn", "gate"} /\ k.op.dst \in Buffers
      BY <1>0, <1>3 DEF OpOK
    <2> QED BY <2>1, <2>2, ArenaSound, RegionSound
  <1>4. ~TooLarge(k) \/ k.op.kind = "quant"
    BY DEF TooLarge
  <1>5. CASE k.op.kind = "append"
    <2>1. Written(k) = {CacheRows(k)}
      BY <1>5 DEF Written
    <2> QED BY <1>0, <1>4, <1>5, <2>1, CacheSound DEF OpOK
  <1>6. CASE k.op.kind \in {"last", "score"}
    <2>1. Written(k) = {}
      BY <1>6 DEF Written
    <2> QED BY <1>4, <1>6, <2>1
  <1>7. CASE k.op.kind \notin {"quant", "mul", "append", "last", "score"}
    <2>1. Written(k) = {Region(k, k.op.dst)} /\ k.op.dst \in Buffers
      BY <1>0, <1>7 DEF Written, OpOK
    <2> QED BY <1>4, <1>7, <2>1, RegionSound
  <1> QED BY <1>2, <1>3, <1>5, <1>6, <1>7

LEMMA RoomIsSome ==
  ASSUME NEW cap \in Nat \ {0}
  PROVE  2 * Layers * cap \in Nat \ {0} /\ 0 \in 0 .. 2 * Layers * cap - 1
  <1>1. PICK l \in Nat \ {0} : l = Layers
    BY Constants
  <1>2. 0 < l /\ l \in Nat /\ 0 \in Nat
    BY <1>1
  <1>3. l * cap \in Nat \ {0} /\ 2 * l * cap = l * cap + l * cap
    <2>1. 0 \in Nat /\ l \in Nat /\ 0 < l /\ 0 + 0 <= cap
      BY <1>2
    <2> QED BY ONLY <2>1, cap \in Nat \ {0}, RowsLie
  <1>4. \A x \in Nat \ {0} : x + x \in Nat \ {0} /\ 0 \in 0 .. (x + x) - 1
    OBVIOUS
  <1> QED BY <1>1, <1>3, <1>4

LEMMA HeldHas ==
  ASSUME NEW x, HeldOK(x)
  PROVE  x.mem \in Addresses /\ DOMAIN mem[x.mem] # {}
  BY RoomIsSome DEF HeldOK

-----------------------------------------------------------------------------
(* Memory and queues.                                                      *)

\* A step that leaves every allocation where it is.
KeepsMem == DOMAIN mem' = Addresses /\ \A a \in Addresses : DOMAIN mem[a] # {} => DOMAIN mem'[a] = DOMAIN mem[a]

LEMMA SameMem == MemInv /\ UNCHANGED mem => KeepsMem
  BY DEF MemInv, WorkInv, KeepsMem

LEMMA SoundKept ==
  ASSUME KeepsMem, NEW k, Sound(k)
  PROVE  Sound(k)'
  <1>1. ASSUME NEW a \in Addresses, DOMAIN mem[a] # {}
        PROVE  Size(a)' = Size(a) /\ DOMAIN mem'[a] # {}
    BY <1>1 DEF KeepsMem, Size
  <1>2. ASSUME NEW a, NEW lo, NEW n, a \in Addresses /\ DOMAIN mem[a] # {}
        PROVE  Cells(a, lo, n)' = Cells(a, lo, n)
    BY <1>1, <1>2 DEF Cells
  <1>3. Written(k)' = Written(k)
    <2>1. CASE k.op.kind = "quant"
      <3>1. Stage(k) \in Written(k) /\ Stage(k).mem = k.arena.mem
        BY <2>1 DEF Written, Stage, Cells
      <3>2. Stage(k)' = Stage(k)
        BY <1>2, <3>1 DEF Sound, Stage
      <3> QED BY <2>1, <3>2 DEF Written
    <2>2. CASE k.op.kind = "mul"
      <3>1. /\ Fixup(k) \in Written(k) /\ Fixup(k).mem = k.arena.mem
            /\ Region(k, k.op.dst) \in Written(k) /\ Region(k, k.op.dst).mem = k.ws.mem
        BY <2>2 DEF Written, Fixup, Region, Cells
      <3>2. Fixup(k)' = Fixup(k)
        BY <1>2, <3>1 DEF Sound, Fixup
      <3>3. Region(k, k.op.dst)' = Region(k, k.op.dst)
        BY <1>2, <3>1 DEF Sound, Region
      <3> QED BY <2>2, <3>2, <3>3 DEF Written
    <2>3. CASE k.op.kind = "append"
      <3>1. CacheRows(k) \in Written(k) /\ CacheRows(k).mem = k.kv.mem
        BY <2>3 DEF Written, CacheRows, Cells
      <3>2. CacheRows(k)' = CacheRows(k)
        BY <1>2, <3>1 DEF Sound, CacheRows
      <3> QED BY <2>3, <3>2 DEF Written
    <2>4. CASE k.op.kind \in {"last", "score"}
      BY <2>4 DEF Written
    <2>5. CASE k.op.kind \notin {"quant", "mul", "append", "last", "score"}
      <3>1. /\ Written(k) = {Region(k, k.op.dst)} /\ Region(k, k.op.dst).mem = k.ws.mem
        BY <2>5 DEF Written, Region, Cells
      <3>2. Region(k, k.op.dst)' = Region(k, k.op.dst)
        BY <1>2, <3>1 DEF Sound, Region
      <3> QED BY <2>5, <3>2 DEF Written
    <2> QED BY <2>1, <2>2, <2>3, <2>4, <2>5
  <1> QED BY <1>1, <1>3 DEF Sound, InBounds

AllSound(s) == \A i \in DOMAIN s : Sound(s[i])

LEMMA QueueTail ==
  ASSUME NEW s, IsQueue(s), s # <<>>
  PROVE  /\ IsQueue(Tail(s)) /\ 1 \in DOMAIN s /\ Head(s) = s[1]
         /\ \A i \in DOMAIN Tail(s) : \E j \in DOMAIN s : Tail(s)[i] = s[j]
  <1>1. PICK S : s \in Seq(S)
    BY DEF IsQueue
  <1>2. /\ Tail(s) \in Seq(S) /\ 1 \in DOMAIN s /\ Head(s) = s[1]
        /\ \A i \in DOMAIN Tail(s) : i + 1 \in DOMAIN s /\ Tail(s)[i] = s[i + 1]
    BY <1>1
  <1> QED BY <1>2 DEF IsQueue

LEMMA QueueAppend ==
  ASSUME NEW s, NEW k, IsQueue(s), IsQueue(k)
  PROVE  /\ IsQueue(s \o k)
         /\ \A i \in DOMAIN (s \o k) : \/ \E j \in DOMAIN s : (s \o k)[i] = s[j]
                                       \/ \E j \in DOMAIN k : (s \o k)[i] = k[j]
  <1>1. PICK S, T : s \in Seq(S) /\ k \in Seq(T)
    BY DEF IsQueue
  <1>2. PICK U : U = S \cup T
    OBVIOUS
  <1>3. s \in Seq(U) /\ k \in Seq(U)
    BY <1>1, <1>2
  <1>4. s \in Seq(U)
    BY <1>3
  <1>5. k \in Seq(U)
    BY <1>3
  <1>6. PICK v : v = s \o k
    OBVIOUS
  <1>7. /\ v \in Seq(U) /\ Len(v) = Len(s) + Len(k) /\ Len(s) \in Nat /\ Len(k) \in Nat
        /\ \A i \in 1 .. Len(s) : v[i] = s[i]
        /\ \A j \in 1 .. Len(k) : v[Len(s) + j] = k[j]
    BY ONLY <1>4, <1>5, <1>6, Joined2
  <1>8. DOMAIN s = 1 .. Len(s) /\ DOMAIN k = 1 .. Len(k) /\ DOMAIN v = 1 .. Len(s) + Len(k)
    BY <1>4, <1>5, <1>7
  <1>9. ASSUME NEW i \in DOMAIN v
        PROVE  (\E j \in DOMAIN s : v[i] = s[j]) \/ (\E j \in DOMAIN k : v[i] = k[j])
    <2>1. CASE i <= Len(s)
      <3>1. i \in 1 .. Len(s)
        BY <1>7, <1>8, <2>1
      <3> QED BY <1>7, <1>8, <3>1
    <2>2. CASE ~(i <= Len(s))
      <3>1. i - Len(s) \in 1 .. Len(k) /\ Len(s) + (i - Len(s)) = i
        BY <1>7, <1>8, <2>2
      <3> QED BY <1>7, <1>8, <3>1
    <2> QED BY <2>1, <2>2
  <1> QED BY <1>6, <1>7, <1>9 DEF IsQueue

\* The queue of r is another one, of sound kernels.
LEMMA QueueStep ==
  ASSUME MemInv, KeepsMem, NEW r \in Runtimes, NEW s, stream' = [stream EXCEPT ![r] = s],
         IsQueue(s), AllSound(s)
  PROVE  QueueInv'
  <1>1. DOMAIN stream = Runtimes
    BY DEF MemInv, QueueInv
  <1>2. DOMAIN stream' = Runtimes /\ stream'[r] = s /\ \A q \in Runtimes \ {r} : stream'[q] = stream[q]
    BY <1>1
  <1>3. ASSUME NEW q \in Runtimes 
        PROVE  IsQueue(stream'[q]) /\ \A i \in DOMAIN stream'[q] : Sound(stream[q][i])'
    <2>1. CASE q = r
      BY <1>2, <2>1, SoundKept DEF AllSound
    <2>2. CASE q # r
      BY <1>2, <2>2, SoundKept DEF MemInv, QueueInv
    <2> QED BY <2>1, <2>2
  <1> QED BY <1>2, <1>3 DEF QueueInv, IsQueue

LEMMA QueueSame ==
  ASSUME MemInv, KeepsMem, UNCHANGED stream
  PROVE  QueueInv'
  <1>1. ASSUME NEW q \in Runtimes, NEW i \in DOMAIN stream[q] PROVE Sound(stream[q][i])'
    BY SoundKept DEF MemInv, QueueInv
  <1> QED BY <1>1 DEF MemInv, QueueInv, IsQueue

LEMMA QueueIdle ==
  ASSUME MemInv, DeviceIdle, UNCHANGED stream
  PROVE  QueueInv'
  <1>1. \A q \in Runtimes : stream'[q] = <<>>
    BY DEF DeviceIdle
  <1>2. DOMAIN stream' = Runtimes /\ \A q \in Runtimes : IsQueue(stream'[q])
    BY DEF MemInv, QueueInv, IsQueue
  <1>3. \A i \in DOMAIN <<>> : FALSE
    OBVIOUS
  <1> QED BY <1>1, <1>2, <1>3 DEF QueueInv, IsQueue

LEMMA WorkStays ==
  ASSUME NEW x, WorkOK(x), UNCHANGED global, DOMAIN mem'[x.mem] = DOMAIN mem[x.mem]
  PROVE  WorkOK(x)'
  BY DEF WorkOK

\* Where no runtime and no arena changes, and other memory is freed at most.
LEMMA WorkKept ==
  ASSUME PassInv, MemInv, KeepsRuntimes, UNCHANGED global, DOMAIN mem' = Addresses,
         \A r \in Alive : DOMAIN mem'[rt[r].mem] = DOMAIN mem[rt[r].mem]
  PROVE  WorkInv'
  <1>1. ASSUME NEW r \in Alive PROVE WorkOK(rt[r])'
    <2>1. /\ rt'[r].mem = rt[r].mem /\ rt'[r].at = rt[r].at /\ rt'[r].tokens = rt[r].tokens
          /\ global' = global
      BY DEF KeepsRuntimes
    <2>2. WorkOK(rt[r])
      BY DEF MemInv, WorkInv
    <2> QED BY <2>1, <2>2 DEF WorkOK
  <1>2. Alive' = Alive
    BY DEF KeepsRuntimes
  <1> QED BY <1>1, <1>2 DEF MemInv, WorkInv

LEMMA RuntimeHas ==
  ASSUME PassInv, MemInv, NEW r \in Alive
  PROVE  rt[r].mem \in Addresses /\ DOMAIN mem[rt[r].mem] # {}
  BY WorkIs DEF PassInv, MemInv

\* Where no runtime, no cache and no arena changes.
LEMMA PlacesKept ==
  ASSUME PassInv, MemInv, KeepsRuntimes, KeepsMem, UNCHANGED <<global, cache>>
  PROVE  WorkInv' /\ CacheInv'
  <1>1. \A r \in Alive : DOMAIN mem'[rt[r].mem] = DOMAIN mem[rt[r].mem]
    BY RuntimeHas DEF KeepsMem
  <1>2. WorkInv'
    BY <1>1, WorkKept DEF KeepsMem
  <1>3. ASSUME NEW c \in Held PROVE HeldOK(cache[c])'
    <2>1. HeldOK(cache[c])
      BY DEF MemInv, CacheInv
    <2>2. cache[c].mem \in Addresses /\ DOMAIN mem[cache[c].mem] # {}
      BY <2>1, HeldHas
    <2>3. cache' = cache /\ DOMAIN mem'[cache[c].mem] = DOMAIN mem[cache[c].mem]
      BY <2>2 DEF KeepsMem
    <2> QED BY <2>1, <2>3 DEF HeldOK
  <1>4. CacheInv'
    BY <1>3 DEF MemInv, CacheInv, Held, KeepsRuntimes
  <1> QED BY <1>2, <1>4

-----------------------------------------------------------------------------
(* The steps of host and device.                                           *)

LEMMA RowsSame == RowsInv /\ UNCHANGED <<call, cache>> => RowsInv'
  BY DEF RowsInv, Held, Pointers

LEMMA EffectKeeps ==
  ASSUME DOMAIN mem = Addresses, NEW k, mem' = Effect(k)
  PROVE  KeepsMem
  <1>1. CASE k.op.kind = "quant"
    BY <1>1 DEF Effect, Fill, KeepsMem
  <1>2. CASE k.op.kind = "append"
    BY <1>2 DEF Effect, Fill, KeepsMem
  <1>3. CASE k.op.kind \in {"last", "score"}
    BY <1>3 DEF Effect, KeepsMem
  <1>4. CASE k.op.kind \notin {"quant", "append", "last", "score"}
    BY <1>4 DEF Effect, Fill, KeepsMem
  <1> QED BY <1>1, <1>2, <1>3, <1>4

LEMMA MemExecute ==
  ASSUME PassInv, MemInv, NEW r \in Runtimes, Execute(r)
  PROVE  MemInv'
  <1>1. /\ stream[r] # <<>> /\ ~crash /\ stream' = [stream EXCEPT ![r] = Tail(@)]
        /\ UNCHANGED <<global, cache, call>>
    BY DEF Execute
  <1>2. IsQueue(stream[r]) /\ AllSound(stream[r])
    BY DEF MemInv, QueueInv, AllSound
  <1>3. PICK s, t, k : s = stream[r] /\ t = Tail(s) /\ k = Head(s)
    OBVIOUS
  <1>4. /\ IsQueue(t) /\ 1 \in DOMAIN s /\ k = s[1]
        /\ \A i \in DOMAIN t : \E j \in DOMAIN s : t[i] = s[j]
    BY <1>1, <1>2, <1>3, QueueTail
  <1>5. Sound(k)
    BY <1>2, <1>3, <1>4 DEF AllSound
  <1>6. \A region \in Written(k) : InBounds(region)
    BY <1>5 DEF Sound
  <1>7. mem' = Effect(k) /\ crash' = crash
    BY <1>3, <1>6 DEF Execute
  <1>8. KeepsMem
    BY <1>7, EffectKeeps DEF MemInv, WorkInv
  <1>9. KeepsRuntimes
    BY PassExecute
  <1>10. AllSound(t)
    BY <1>2, <1>3, <1>4 DEF AllSound
  <1>11. stream' = [stream EXCEPT ![r] = t]
    BY <1>1, <1>3
  <1>12. QueueInv'
    BY <1>4, <1>8, <1>10, <1>11, QueueStep
  <1>13. WorkInv' /\ CacheInv'
    BY <1>1, <1>8, <1>9, PlacesKept
  <1>14. RowsInv'
    BY <1>1, RowsSame DEF MemInv
  <1> QED BY <1>1, <1>7, <1>12, <1>13, <1>14 DEF MemInv

\* The kernels of a step.
LEMMA KernelsSound ==
  ASSUME PassInv, MemInv, call # Idle, call.todo # <<>>
  PROVE  /\ Len(Kernels) \in Nat /\ DOMAIN Kernels = 1 .. Len(Kernels)
         /\ IsQueue(Kernels) /\ AllSound(Kernels)
         /\ \A i \in DOMAIN Kernels : ~TooLarge(Kernels[i])
  <1>1. PICK r : r = call.r
    OBVIOUS
  <1>2. /\ r \in Alive /\ call.n \in 1 .. rt[r].tokens /\ RuntimesOK
        /\ Head(call.todo) \in Due(call.c # "none")
        /\ Step \in StepNames /\ Head(call.todo)[2] \in 0 .. Layers
    BY <1>1, StepOfPass DEF PassInv
  <1>3. PICK s : s = Steps[Step]
    OBVIOUS
  <1>4. s \in Seq(Ops) /\ (Step # "append" => s \in Seq(Others))
    <2>1. CASE Step = "append"
      BY <1>3, <2>1, StepsAre
    <2>2. CASE Step # "append"
      <3>1. s \in Seq(Others)
        BY <1>2, <1>3, <2>2, StepsAre
      <3>2. Others \subseteq Ops
        BY DEF Others
      <3>3. \A S, T, q : q \in Seq(S) /\ S \subseteq T => q \in Seq(T)
        OBVIOUS
      <3> QED BY <2>2, <3>1, <3>2, <3>3
    <2> QED BY <2>1, <2>2
  <1>5. PICK m \in Nat : m = Len(s) /\ DOMAIN s = 1 .. m
    BY <1>4
  <1>6. PICK ks : ks = Kernels
    OBVIOUS
  <1>7. ks = [i \in 1 .. m |->
                [op |-> s[i], layer |-> Head(call.todo)[2], n |-> call.n, base |-> call.base,
                 txt |-> call.txt, ws |-> [mem |-> rt[r].mem, at |-> rt[r].at],
                 kv |-> call.kv, arena |-> global.arena]]
    BY <1>1, <1>3, <1>5, <1>6 DEF Kernels
  <1>8. DOMAIN ks = 1 .. m /\ IsQueue(ks) /\ Len(ks) = m
    <2>1. ks \in Seq({ks[i] : i \in 1 .. m})
      BY <1>5, <1>7
    <2>2. Len(ks) = m
      BY ONLY <1>5, <1>7
    <2>3. DOMAIN ks = 1 .. m
      BY <1>7
    <2> QED BY ONLY <2>1, <2>2, <2>3 DEF IsQueue
  <1>9. ASSUME NEW i \in 1 .. m
        PROVE  Sound(ks[i]) /\ ~TooLarge(ks[i])
    <2>1. PICK k : k = ks[i]
      OBVIOUS
    <2>2. /\ k.op = s[i] /\ k.layer = Head(call.todo)[2] /\ k.n = call.n
          /\ k.ws.mem = rt[r].mem /\ k.ws.at = rt[r].at /\ k.kv = call.kv /\ k.arena = global.arena
      BY <1>7, <2>1
    <2>3. IsOf(k, r)
      BY <1>2, <2>2 DEF IsOf
    <2>4. k.op \in Ops /\ (k.op.kind = "append" => Step = "append")
      <3>1. s[i] \in Ops
        BY <1>4, <1>5
      <3>2. Step # "append" => s[i] \in Others
        BY <1>4, <1>5
      <3> QED BY <2>2, <3>1, <3>2 DEF Others
    <2>5. ASSUME Step = "append" PROVE k.layer < Layers /\ HasRoom(k)
      <3>1. call.c # "none" /\ Head(call.todo)[2] < Layers
        BY <1>2, <2>5 DEF Due, Step
      <3>2. PICK c : c = call.c
        OBVIOUS
      <3>3. /\ c \in Held /\ call.kv = Pointers(c) /\ HeldOK(cache[c])
            /\ cache[c].length + call.n <= cache[c].capacity
        BY <3>1, <3>2 DEF MemInv, RowsInv, CacheInv
      <3>4. call.kv = [mem |-> cache[c].mem, capacity |-> cache[c].capacity, length |-> cache[c].length]
        BY <3>1, <3>2, <3>3 DEF Pointers
      <3>5. k.kv.mem = cache[c].mem /\ k.kv.capacity = cache[c].capacity /\ k.kv.length = cache[c].length
        BY <2>2, <3>4
      <3>6. k.n \in Nat
        BY <1>2, <2>2 DEF RuntimesOK, RuntimeOK
      <3>7. cache[c].length \in Nat
        BY <3>3 DEF HeldOK
      <3> QED BY <2>2, <3>1, <3>3, <3>5, <3>6, <3>7 DEF HasRoom, HeldOK
    <2>6. WorkInv
      BY DEF MemInv
    <2> QED BY <1>2, <2>1, <2>2, <2>3, <2>4, <2>5, <2>6, KernelSound
  <1> QED BY <1>5, <1>6, <1>8, <1>9 DEF AllSound

LEMMA MemLaunch ==
  ASSUME PassInv, MemInv, Launch
  PROVE  MemInv'
  <1>1. /\ call # Idle /\ call.todo # <<>> /\ (LaunchStep \/ LaunchFails)
        /\ crash' = (\E i \in DOMAIN Kernels : TooLarge(Kernels[i]))
        /\ UNCHANGED <<mem, global, cache>>
    BY DEF Launch
  <1>2. PICK r, s, ks : r = call.r /\ s = stream[r] /\ ks = Kernels
    OBVIOUS
  <1>3. /\ Len(ks) \in Nat /\ DOMAIN ks = 1 .. Len(ks) /\ IsQueue(ks) /\ AllSound(ks)
        /\ \A i \in DOMAIN Kernels : ~TooLarge(Kernels[i])
    BY <1>1, <1>2, KernelsSound
  <1>4. ~crash'
    BY <1>1, <1>3
  <1>5. r \in Runtimes /\ call.n \in 1 .. rt[r].tokens /\ DOMAIN call = CallFields
    BY <1>1, <1>2, StepOfPass
  <1>6. IsQueue(s) /\ AllSound(s) /\ KeepsMem
    BY <1>1, <1>2, <1>5, SameMem DEF MemInv, QueueInv, AllSound
  <1>7. CASE LaunchStep
    <2>1. PICK t : t = s \o ks
      OBVIOUS
    <2>2. /\ IsQueue(t)
          /\ \A i \in DOMAIN t : \/ \E j \in DOMAIN s : t[i] = s[j]
                                 \/ \E j \in DOMAIN ks : t[i] = ks[j]
      BY <1>3, <1>6, <2>1, QueueAppend
    <2>3. AllSound(t)
      BY <1>3, <1>6, <2>2 DEF AllSound
    <2>4. stream' = [stream EXCEPT ![r] = t]
      BY <1>2, <1>7, <2>1 DEF LaunchStep
    <2>5. QueueInv'
      BY <1>5, <1>6, <2>2, <2>3, <2>4, QueueStep
    <2>6. call'.c = call.c /\ call'.kv = call.kv /\ call'.n = call.n
      BY <1>5, <1>7 DEF LaunchStep, CallFields
    <2>7. RowsInv'
      BY <1>1, <2>6 DEF MemInv, RowsInv, Held, Pointers
    <2>8. KeepsRuntimes
      BY <1>1, <1>7, PassLaunchStep
    <2>9. WorkInv' /\ CacheInv'
      BY <1>1, <1>6, <2>8, PlacesKept
    <2> QED BY <1>4, <2>5, <2>7, <2>9 DEF MemInv
  <1>8. CASE LaunchFails
    <2>1. PICK n \in 0 .. Len(ks) - 1 : stream' = [stream EXCEPT ![r] = @ \o SubSeq(ks, 1, n)]
      BY <1>2, <1>8 DEF LaunchFails
    <2>2. PICK ps : ps = SubSeq(ks, 1, n)
      OBVIOUS
    <2>3. IsQueue(ps) /\ AllSound(ps)
      <3>1. PICK S : ks \in Seq(S)
        BY <1>3 DEF IsQueue
      <3>2. ps \in Seq(S) /\ \A i \in DOMAIN ps : i \in DOMAIN ks /\ ps[i] = ks[i]
        BY <1>3, <2>1, <2>2, <3>1
      <3> QED BY <1>3, <3>2 DEF IsQueue, AllSound
    <2>4. PICK t : t = s \o ps
      OBVIOUS
    <2>5. /\ IsQueue(t)
          /\ \A i \in DOMAIN t : \/ \E j \in DOMAIN s : t[i] = s[j]
                                 \/ \E j \in DOMAIN ps : t[i] = ps[j]
      BY <1>6, <2>3, <2>4, QueueAppend
    <2>6. AllSound(t)
      BY <1>6, <2>3, <2>5 DEF AllSound
    <2>7. stream' = [stream EXCEPT ![r] = t]
      BY <1>2, <2>1, <2>2, <2>4
    <2>8. QueueInv'
      BY <1>5, <1>6, <2>5, <2>6, <2>7, QueueStep
    <2>9. call' = Idle
      BY <1>8 DEF LaunchFails
    <2>10. RowsInv'
      BY <2>9 DEF RowsInv
    <2>11. KeepsRuntimes
      BY <1>1, <1>8, PassLaunchFails
    <2>12. WorkInv' /\ CacheInv'
      BY <1>1, <1>6, <2>11, PlacesKept
    <2> QED BY <1>4, <2>8, <2>10, <2>12 DEF MemInv
  <1> QED BY <1>1, <1>7, <1>8

\* A call that is begun or ends changes nothing on the device.
LEMMA MemCall ==
  ASSUME PassInv, MemInv, KeepsRuntimes, UNCHANGED <<mem, global, cache, stream, crash>>, RowsInv'
  PROVE  MemInv'
  <1>1. KeepsMem
    BY SameMem
  <1> QED BY <1>1, PlacesKept, QueueSame DEF MemInv

LEMMA MemRunCached ==
  ASSUME PassInv, MemInv, NEW r \in Runtimes, NEW c \in Caches, NEW n \in TokenLimits, RunCached(r, c, n)
  PROVE  MemInv'
  <1>1. KeepsRuntimes
    BY PassRunCached
  <1>2. /\ c \in Held /\ cache[c].length + n <= cache[c].capacity
        /\ UNCHANGED <<mem, global, cache, stream, crash>>
    BY DEF RunCached, Begin
  <1>3. call' = [r |-> r, c |-> c, n |-> n, base |-> cache[c].length, txt |-> cache[c].txt,
                 last |-> Layers, kv |-> Pointers(c), todo |-> RangeSteps(0, Layers, TRUE)]
    BY DEF RunCached, Begin
  <1>4. call'.c = c /\ call'.n = n /\ call'.kv = Pointers(c)
    BY <1>3, CallFacts
  <1>5. RowsInv'
    BY <1>2, <1>4 DEF RowsInv, Held, Pointers
  <1> QED BY <1>1, <1>2, <1>5, MemCall

LEMMA MemRunUncached ==
  ASSUME PassInv, MemInv, NEW r \in Runtimes, NEW n \in TokenLimits, NEW txt \in Texts,
         NEW first \in 0 .. Layers, NEW last \in 0 .. Layers, RunUncached(r, n, txt, first, last)
  PROVE  MemInv'
  <1>1. KeepsRuntimes
    BY PassRunUncached
  <1>2. UNCHANGED <<mem, global, cache, stream, crash>>
    BY DEF RunUncached, Begin
  <1>3. call' = [r |-> r, c |-> "none", n |-> n, base |-> 0, txt |-> txt, last |-> last,
                 kv |-> Pointers("none"), todo |-> RangeSteps(first, last, FALSE)]
    BY DEF RunUncached, Begin
  <1>4. call'.c = "none"
    BY <1>3, CallFacts
  <1>5. RowsInv'
    BY <1>4 DEF RowsInv
  <1> QED BY <1>1, <1>2, <1>5, MemCall

LEMMA MemBehind ==
  ASSUME PassInv, MemInv, NEW r \in Runtimes, NEW step, Behind(r, step)
  PROVE  MemInv'
  <1>1. UNCHANGED <<mem, global, rt, cache, stream, crash>>
    BY DEF Behind
  <1>2. KeepsRuntimes
    BY <1>1, SameRuntimes
  <1>3. call' = [r |-> r, c |-> "none", n |-> rt[r].ran.n, base |-> rt[r].ran.base,
                 txt |-> rt[r].ran.txt, last |-> Layers, kv |-> NoKv,
                 todo |-> << <<step, Layers>> >>]
    BY DEF Behind
  <1>4. call'.c = "none"
    BY <1>3, CallFacts
  <1>5. RowsInv'
    BY <1>4 DEF RowsInv
  <1> QED BY <1>1, <1>2, <1>5, MemCall

LEMMA HeldStays ==
  ASSUME NEW x, HeldOK(x), DOMAIN mem'[x.mem] = DOMAIN mem[x.mem]
  PROVE  HeldOK(x)'
  BY DEF HeldOK

LEMMA HeldLives == \A x : DOMAIN x = CacheFields => x # NoCache
  <1>1. DOMAIN NoCache = {"mem"} /\ "length" \in CacheFields
    BY DEF NoCache, CacheFields
  <1> QED BY <1>1

\* A cache is changed, and it and every other one lie where they should.
LEMMA OneCacheSteps ==
  ASSUME MemInv, PassInv, NEW c \in Caches, DOMAIN cache' = Caches,
         \A d \in Caches \ {c} : cache'[d] = cache[d],
         \A d \in Held \ {c} : DOMAIN mem'[cache[d].mem] = DOMAIN mem[cache[d].mem],
         \/ cache'[c] = NoCache
         \/ /\ HeldOK(cache[c])'
            /\ \A d \in Held \ {c} : cache'[c].mem # cache[d].mem
            /\ \A r \in Alive : cache'[c].mem # rt[r].mem,
         KeepsRuntimes
  PROVE  CacheInv'
  <1>1. ASSUME NEW d \in Caches, d \in Held', d # c
        PROVE  d \in Held /\ cache'[d] = cache[d] /\ HeldOK(cache[d])'
    <2>1. d \in Held /\ cache'[d] = cache[d]
      BY <1>1 DEF Held
    <2>2. PICK x : x = cache[d]
      OBVIOUS
    <2>3. HeldOK(x) /\ DOMAIN mem'[x.mem] = DOMAIN mem[x.mem]
      BY <1>1, <2>1, <2>2 DEF MemInv, CacheInv
    <2>4. HeldOK(x)'
      BY <2>3, HeldStays
    <2> QED BY <2>1, <2>2, <2>4
  <1>2. \A d \in Held' : HeldOK(cache[d])'
    BY <1>1 DEF Held
  <1>3. \A d, e \in Held' : cache'[d].mem = cache'[e].mem => d = e
    BY <1>1 DEF Held, MemInv, CacheInv
  <1>4. \A r \in Alive' : \A d \in Held' : rt'[r].mem # cache'[d].mem
    BY <1>1 DEF Held, MemInv, CacheInv, KeepsRuntimes
  <1> QED BY <1>2, <1>3, <1>4 DEF CacheInv

LEMMA MemReturn ==
  ASSUME PassInv, MemInv, Return
  PROVE  MemInv'
  <1>1. /\ call # Idle /\ UNCHANGED <<mem, global, stream, crash>> /\ call' = Idle
        /\ cache' = IF call.c = "none" THEN cache
                    ELSE [cache EXCEPT ![call.c].length = @ + call.n]
    BY DEF Return
  <1>2. KeepsRuntimes
    BY PassReturn
  <1>3. RowsInv'
    BY <1>1 DEF RowsInv
  <1>4. KeepsMem
    BY <1>1, SameMem
  <1>5. QueueInv'
    BY <1>1, <1>4, QueueSame
  <1>6. CASE call.c = "none"
    <2>1. UNCHANGED <<mem, global, cache, stream, crash>>
      BY <1>1, <1>6
    <2> QED BY <1>2, <1>3, <2>1, MemCall
  <1>7. CASE call.c # "none"
    <2>1. PICK c, n : c = call.c /\ n = call.n
      OBVIOUS
    <2>2. /\ c \in Held /\ c \in Caches /\ HeldOK(cache[c]) /\ DOMAIN cache = Caches
          /\ cache[c].length + n <= cache[c].capacity
      BY <1>1, <1>7, <2>1 DEF MemInv, RowsInv, CacheInv, Held
    <2>3. n \in Nat
      BY <1>1, <2>1 DEF PassInv, CallOK, RuntimesOK, RuntimeOK
    <2>4. cache' = [cache EXCEPT ![c].length = @ + n]
      BY <1>1, <1>7, <2>1
    <2>5. /\ DOMAIN cache' = Caches /\ \A d \in Caches \ {c} : cache'[d] = cache[d]
          /\ DOMAIN cache'[c] = CacheFields /\ cache'[c].mem = cache[c].mem
          /\ cache'[c].capacity = cache[c].capacity
          /\ cache'[c].length = cache[c].length + n
      BY <2>2, <2>4 DEF HeldOK, CacheFields
    <2>6. HeldOK(cache[c])'
      BY <1>1, <2>2, <2>3, <2>5 DEF HeldOK
    <2>7. CacheInv'
      BY <1>1, <1>2, <2>2, <2>5, <2>6, OneCacheSteps DEF MemInv, CacheInv
    <2>8. WorkInv'
      BY <1>1, <1>2, WorkKept DEF MemInv, WorkInv
    <2> QED BY <1>1, <1>3, <1>5, <2>7, <2>8 DEF MemInv
  <1> QED BY <1>6, <1>7

-----------------------------------------------------------------------------
(* Allocations.                                                            *)

LEMMA UnusedIs ==
  ASSUME PassInv, MemInv, NEW a \in Unused
  PROVE  /\ a \in Addresses /\ DOMAIN mem[a] = {}
         /\ \A c \in Held : cache[c].mem # a
         /\ \A r \in Alive : rt[r].mem # a
  <1>1. a \in Addresses /\ DOMAIN mem[a] = {}
    BY DEF Unused, NoMem
  <1>2. ASSUME NEW c \in Held PROVE DOMAIN mem[cache[c].mem] # {}
    <2>1. HeldOK(cache[c])
      BY DEF MemInv, CacheInv
    <2> QED BY <2>1, HeldHas
  <1>3. \A r \in Alive : DOMAIN mem[rt[r].mem] # {}
    BY RuntimeHas
  <1> QED BY <1>1, <1>2, <1>3

LEMMA Allocates ==
  ASSUME PassInv, MemInv, NEW a \in Unused, NEW f, mem' = [mem EXCEPT ![a] = f]
  PROVE  KeepsMem /\ mem'[a] = f
  BY UnusedIs DEF KeepsMem, MemInv, WorkInv

\* No cache changes.
LEMMA CachesKept ==
  ASSUME MemInv, UNCHANGED cache,
         \A d \in Held : DOMAIN mem'[cache[d].mem] = DOMAIN mem[cache[d].mem],
         \A s \in Alive' : \A d \in Held : rt'[s].mem # cache[d].mem
  PROVE  CacheInv'
  <1>1. ASSUME NEW d \in Held PROVE HeldOK(cache[d])'
    <2>1. HeldOK(cache[d])
      BY DEF MemInv, CacheInv
    <2> QED BY <2>1 DEF HeldOK
  <1> QED BY <1>1 DEF MemInv, CacheInv, Held

LEMMA HeldCells ==
  ASSUME MemInv, KeepsMem
  PROVE  \A d \in Held : DOMAIN mem'[cache[d].mem] = DOMAIN mem[cache[d].mem]
  <1> TAKE d \in Held
  <1>1. HeldOK(cache[d])
    BY DEF MemInv, CacheInv
  <1> QED BY <1>1, HeldHas DEF KeepsMem

LEMMA ArenaCellsNat == \A t \in Nat : ArenaCells(t) \in Nat
  <1> TAKE t \in Nat
  <1>1. Inter \in Nat /\ Tile \in Nat /\ FixupCells \in Nat /\ Slack \in Nat
    BY Constants
  <1>2. PICK p : p = Padded(Inter)
    OBVIOUS
  <1>3. p \in Nat
    BY <1>1, <1>2, PaddedRows
  <1>4. t * p \in Nat
    BY <1>3
  <1>5. \A x \in Nat : FixupCells + x + Tile + Slack \in Nat
    BY <1>1
  <1> QED BY <1>2, <1>4, <1>5 DEF ArenaCells

LEMMA MemCreate ==
  ASSUME Coexist = FALSE, PassInv, MemInv, NEW r \in Runtimes, NEW tokens \in TokenLimits,
         Create(r, tokens)
  PROVE  MemInv'
  <1>1. /\ call = Idle /\ Alive = {} /\ UNCHANGED <<cache, stream, call, crash>>
        /\ tokens \in Nat \ {0} /\ DOMAIN rt = Runtimes
        /\ DOMAIN global = {"bytes", "arena"} /\ global.bytes \in Nat
    BY Constants DEF Create, Ready, PassInv, RuntimesOK, MemInv, WorkInv
  <1>2. PICK cells, bytes, at : /\ cells = ArenaCells(tokens)
                                /\ bytes = (IF cells > global.bytes THEN cells ELSE global.bytes)
                                /\ at = SliceAt(tokens, bytes)
    OBVIOUS
  <1>3. cells \in Nat /\ bytes \in Nat /\ cells <= bytes
    BY <1>1, <1>2, ArenaCellsNat
  <1>4. PICK a \in Unused :
          \/ /\ mem' = [mem EXCEPT ![a] =
                    [Fresh(Total(tokens, bytes)) EXCEPT ![at["inv_freq"]] = Row("freq", 0, 0, 0)]]
             /\ global' = [bytes |-> bytes, arena |-> [mem |-> a, lo |-> at["arena"], size |-> bytes]]
             /\ rt' = [rt EXCEPT ![r] =
                    [mem |-> a, at |-> at, tokens |-> tokens, ran |-> NoRun,
                     out |-> Junk, events |-> {}, flags |-> {}]]
          \/ /\ \/ global' = [global EXCEPT !.bytes = bytes]
                \/ global' = [bytes |-> bytes, arena |-> [mem |-> a, lo |-> at["arena"], size |-> bytes]]
             /\ UNCHANGED <<mem, rt>>
    BY <1>2, Zenon DEF Create
  <1>5. RowsInv'
    BY <1>1, RowsSame DEF MemInv
  <1>6. CASE UNCHANGED <<mem, rt>>
    <2>1. KeepsMem /\ Alive' = {}
      BY <1>1, <1>6, SameMem DEF Alive
    <2>2. DOMAIN global' = {"bytes", "arena"} /\ global'.bytes = bytes
      BY <1>1, <1>4
    <2>3. WorkInv'
      BY <1>3, <2>1, <2>2 DEF WorkInv, KeepsMem
    <2>4. CacheInv'
      BY <1>1, <2>1, HeldCells, CachesKept
    <2>5. QueueInv'
      BY <1>1, <2>1, QueueSame
    <2> QED BY <1>1, <1>5, <2>3, <2>4, <2>5 DEF MemInv
  <1>7. CASE ~ UNCHANGED <<mem, rt>>
    <2>1. PICK f : f = [Fresh(Total(tokens, bytes)) EXCEPT ![at["inv_freq"]] = Row("freq", 0, 0, 0)]
      OBVIOUS
    <2>2. /\ mem' = [mem EXCEPT ![a] = f]
          /\ global' = [bytes |-> bytes, arena |-> [mem |-> a, lo |-> at["arena"], size |-> bytes]]
          /\ rt' = [rt EXCEPT ![r] =
                 [mem |-> a, at |-> at, tokens |-> tokens, ran |-> NoRun,
                  out |-> Junk, events |-> {}, flags |-> {}]]
      BY <1>4, <1>7, <2>1
    <2>3. KeepsMem /\ mem'[a] = f /\ a \in Addresses /\ \A c \in Held : cache[c].mem # a
      BY <2>2, Allocates, UnusedIs
    <2>4. DOMAIN f = 0 .. Total(tokens, bytes) - 1
      BY <2>1 DEF Fresh
    <2>5. rt'[r].mem = a /\ rt'[r].at = at /\ rt'[r].tokens = tokens /\ Alive' \subseteq {r}
      BY <1>1, <2>2 DEF Alive
    <2>6. global'.bytes = bytes /\ global'.arena = [mem |-> a, lo |-> at["arena"], size |-> bytes]
          /\ DOMAIN global' = {"bytes", "arena"}
      BY <2>2
    <2>7. WorkOK(rt[r])'
      BY <1>2, <1>3, <2>3, <2>4, <2>5, <2>6 DEF WorkOK
    <2>8. WorkInv'
      BY <1>3, <2>3, <2>5, <2>6, <2>7 DEF WorkInv, KeepsMem
    <2>9. CacheInv'
      BY <1>1, <2>3, <2>5, HeldCells, CachesKept
    <2>10. QueueInv'
      BY <1>1, <2>3, QueueSame
    <2> QED BY <1>1, <1>5, <2>8, <2>9, <2>10 DEF MemInv
  <1> QED BY <1>6, <1>7

LEMMA MemDestroy ==
  ASSUME PassInv, MemInv, NEW r \in Runtimes, Destroy(r)
  PROVE  MemInv'
  <1>1. /\ r \in Alive /\ DeviceIdle /\ mem' = [mem EXCEPT ![rt[r].mem] = NoMem]
        /\ rt' = [rt EXCEPT ![r] = NoRuntime] /\ UNCHANGED <<global, cache, stream, call, crash>>
    BY DEF Destroy
  <1>2. Alive' = {}
    BY <1>1 DEF Alive, MemInv, WorkInv, PassInv, RuntimesOK
  <1>3. WorkInv'
    BY <1>1, <1>2 DEF WorkInv, MemInv
  <1>4. \A d \in Held : DOMAIN mem'[cache[d].mem] = DOMAIN mem[cache[d].mem]
    BY <1>1 DEF MemInv, WorkInv, CacheInv, HeldOK
  <1>5. CacheInv'
    BY <1>1, <1>2, <1>4, CachesKept
  <1>6. QueueInv'
    BY <1>1, QueueIdle
  <1>7. RowsInv'
    BY <1>1, RowsSame DEF MemInv
  <1> QED BY <1>1, <1>3, <1>5, <1>6, <1>7 DEF MemInv

LEMMA MemKvInit ==
  ASSUME PassInv, MemInv, NEW c \in Caches, NEW n \in Capacities, NEW txt \in Texts, KvInit(c, n, txt)
  PROVE  MemInv'
  <1>1. /\ c \notin Held /\ call = Idle /\ UNCHANGED <<global, rt, stream, call, crash>>
        /\ n \in Nat \ {0} /\ DOMAIN cache = Caches
    BY Constants DEF KvInit, Ready, MemInv, CacheInv
  <1>2. PICK a \in Unused : /\ mem' = [mem EXCEPT ![a] = Fresh(2 * Layers * n)]
                            /\ cache' = [cache EXCEPT ![c] =
                                  [mem |-> a, capacity |-> n, length |-> 0, txt |-> txt]]
    BY DEF KvInit
  <1>3. /\ KeepsMem /\ mem'[a] = Fresh(2 * Layers * n) /\ a \in Addresses
        /\ (\A d \in Held : cache[d].mem # a) /\ (\A r \in Alive : rt[r].mem # a)
    BY <1>2, Allocates, UnusedIs
  <1>4. /\ DOMAIN cache' = Caches /\ \A d \in Caches \ {c} : cache'[d] = cache[d]
        /\ cache'[c] = [mem |-> a, capacity |-> n, length |-> 0, txt |-> txt]
    BY <1>1, <1>2
  <1>5. DOMAIN mem'[a] = 0 .. 2 * Layers * n - 1
    BY <1>3 DEF Fresh
  <1>6. HeldOK(cache[c])'
    <2>1. 0 \in 0 .. n
      BY <1>1
    <2> QED BY <1>1, <1>3, <1>4, <1>5, <2>1 DEF HeldOK, CacheFields
  <1>7. KeepsRuntimes
    BY <1>1, SameRuntimes
  <1>8. \A d \in Held \ {c} : DOMAIN mem'[cache[d].mem] = DOMAIN mem[cache[d].mem]
    BY <1>3, HeldCells
  <1>9. CacheInv'
    BY <1>3, <1>4, <1>6, <1>7, <1>8, OneCacheSteps
  <1>10. WorkInv'
    BY <1>1, <1>3, <1>7, RuntimeHas, WorkKept DEF KeepsMem
  <1>11. QueueInv'
    BY <1>1, <1>3, QueueSame
  <1>12. RowsInv'
    BY <1>1 DEF RowsInv
  <1> QED BY <1>1, <1>9, <1>10, <1>11, <1>12 DEF MemInv

LEMMA MemKvReserve ==
  ASSUME PassInv, MemInv, NEW c \in Caches, NEW n \in Capacities, KvReserve(c, n)
  PROVE  MemInv'
  <1>1. /\ c \in Held /\ call = Idle /\ DeviceIdle /\ n > cache[c].capacity
        /\ UNCHANGED <<global, rt, stream, call, crash>>
        /\ n \in Nat \ {0} /\ DOMAIN cache = Caches /\ HeldOK(cache[c]) /\ DOMAIN mem = Addresses
    BY Constants DEF KvReserve, Ready, MemInv, CacheInv, WorkInv
  <1>2. PICK a \in Unused :
          /\ mem' = [mem EXCEPT ![cache[c].mem] = NoMem,
                       ![a] = Grown(mem[cache[c].mem], cache[c].capacity, n, cache[c].length)]
          /\ cache' = [cache EXCEPT ![c].mem = a, ![c].capacity = n]
    BY DEF KvReserve
  <1>3. PICK b, f : b = cache[c].mem /\ f = Grown(mem[b], cache[c].capacity, n, cache[c].length)
    OBVIOUS
  <1>4. /\ a \in Addresses /\ b \in Addresses
        /\ (\A d \in Held : cache[d].mem # a) /\ (\A r \in Alive : rt[r].mem # a)
        /\ (\A d \in Held \ {c} : cache[d].mem # b) /\ (\A r \in Alive : rt[r].mem # b)
    BY <1>1, <1>3, UnusedIs, HeldHas DEF MemInv, CacheInv
  <1>5. /\ DOMAIN mem' = Addresses /\ mem'[a] = f
        /\ \A x \in Addresses \ {a, b} : mem'[x] = mem[x]
    BY <1>1, <1>2, <1>3, <1>4
  <1>6. /\ DOMAIN cache' = Caches /\ \A d \in Caches \ {c} : cache'[d] = cache[d]
        /\ DOMAIN cache'[c] = CacheFields /\ cache'[c].mem = a /\ cache'[c].capacity = n
        /\ cache'[c].length = cache[c].length
    BY <1>1, <1>2 DEF HeldOK, CacheFields
  <1>7. DOMAIN mem'[a] = 0 .. 2 * Layers * n - 1
    BY <1>3, <1>5 DEF Grown
  <1>8. cache[c].length \in 0 .. n
    BY <1>1 DEF HeldOK
  <1>9. HeldOK(cache[c])'
    BY <1>1, <1>4, <1>6, <1>7, <1>8 DEF HeldOK
  <1>10. KeepsRuntimes
    BY <1>1, SameRuntimes
  <1>11. \A d \in Held \ {c} : DOMAIN mem'[cache[d].mem] = DOMAIN mem[cache[d].mem]
    BY <1>4, <1>5, HeldHas DEF MemInv, CacheInv
  <1>12. CacheInv'
    BY <1>4, <1>6, <1>9, <1>10, <1>11, OneCacheSteps
  <1>13. WorkInv'
    <2>1. \A r \in Alive : DOMAIN mem'[rt[r].mem] = DOMAIN mem[rt[r].mem]
      BY <1>4, <1>5, RuntimeHas
    <2> QED BY <1>1, <1>5, <1>10, <2>1, WorkKept
  <1>14. QueueInv'
    BY <1>1, QueueIdle
  <1>15. RowsInv'
    BY <1>1 DEF RowsInv
  <1> QED BY <1>1, <1>12, <1>13, <1>14, <1>15 DEF MemInv

LEMMA MemKvReset ==
  ASSUME PassInv, MemInv, NEW c \in Caches, NEW txt \in Texts, KvReset(c, txt)
  PROVE  MemInv'
  <1>1. /\ c \in Held /\ call = Idle /\ UNCHANGED <<mem, global, rt, stream, call, crash>>
        /\ DOMAIN cache = Caches /\ HeldOK(cache[c])
        /\ cache' = [cache EXCEPT ![c].length = 0, ![c].txt = txt]
    BY DEF KvReset, Ready, MemInv, CacheInv
  <1>2. /\ DOMAIN cache' = Caches /\ \A d \in Caches \ {c} : cache'[d] = cache[d]
        /\ DOMAIN cache'[c] = CacheFields /\ cache'[c].mem = cache[c].mem
        /\ cache'[c].capacity = cache[c].capacity /\ cache'[c].length = 0
    BY <1>1 DEF HeldOK, CacheFields
  <1>3. HeldOK(cache[c])'
    <2>1. \A m \in Nat \ {0} : 0 \in 0 .. m
      OBVIOUS
    <2> QED BY <1>1, <1>2, <2>1 DEF HeldOK
  <1>4. KeepsRuntimes /\ KeepsMem
    BY <1>1, SameRuntimes, SameMem
  <1>5. CacheInv'
    <2>1. \A d \in Held \ {c} : DOMAIN mem'[cache[d].mem] = DOMAIN mem[cache[d].mem]
      BY <1>1
    <2>2. /\ \A d \in Held \ {c} : cache'[c].mem # cache[d].mem
          /\ \A r \in Alive : cache'[c].mem # rt[r].mem
      BY <1>1, <1>2 DEF MemInv, CacheInv
    <2> QED BY <1>2, <1>3, <1>4, <2>1, <2>2, OneCacheSteps
  <1>6. WorkInv'
    BY <1>1, <1>4, WorkKept DEF MemInv, WorkInv
  <1>7. QueueInv'
    BY <1>1, <1>4, QueueSame
  <1>8. RowsInv'
    BY <1>1 DEF RowsInv
  <1> QED BY <1>1, <1>5, <1>6, <1>7, <1>8 DEF MemInv

LEMMA MemKvDestroy ==
  ASSUME PassInv, MemInv, NEW c \in Caches, KvDestroy(c)
  PROVE  MemInv'
  <1>1. /\ c \in Held /\ call = Idle /\ DeviceIdle /\ UNCHANGED <<global, rt, stream, call, crash>>
        /\ DOMAIN cache = Caches /\ DOMAIN mem = Addresses
        /\ mem' = [mem EXCEPT ![cache[c].mem] = NoMem] /\ cache' = [cache EXCEPT ![c] = NoCache]
    BY DEF KvDestroy, Ready, MemInv, CacheInv, WorkInv
  <1>2. /\ (\A d \in Held \ {c} : cache[d].mem # cache[c].mem)
        /\ (\A r \in Alive : rt[r].mem # cache[c].mem)
    BY <1>1 DEF MemInv, CacheInv
  <1>3. KeepsRuntimes
    BY <1>1, SameRuntimes
  <1>4. CacheInv'
    <2>1. DOMAIN cache' = Caches /\ cache'[c] = NoCache /\ \A d \in Caches \ {c} : cache'[d] = cache[d]
      BY <1>1
    <2>2. \A d \in Held \ {c} : DOMAIN mem'[cache[d].mem] = DOMAIN mem[cache[d].mem]
      BY <1>1, <1>2 DEF MemInv, CacheInv, HeldOK
    <2> QED BY <1>3, <2>1, <2>2, OneCacheSteps
  <1>5. WorkInv'
    <2>1. \A r \in Alive : DOMAIN mem'[rt[r].mem] = DOMAIN mem[rt[r].mem]
      BY <1>1, <1>2, RuntimeHas
    <2>2. DOMAIN mem' = Addresses
      BY <1>1
    <2> QED BY <1>1, <1>3, <2>1, <2>2, WorkKept
  <1>6. QueueInv'
    BY <1>1, QueueIdle
  <1>7. RowsInv'
    BY <1>1 DEF RowsInv
  <1> QED BY <1>1, <1>4, <1>5, <1>6, <1>7 DEF MemInv

LEMMA MemInit == Init => MemInv
  <1> SUFFICES ASSUME Init PROVE MemInv
    OBVIOUS
  <1>1. Alive = {} /\ Held = {}
    BY DEF Init, Alive, Held
  <1>2. DOMAIN global = {"bytes", "arena"} /\ global.bytes = 0
    BY DEF Init
  <1>3. <<>> \in Seq({}) /\ \A i \in DOMAIN <<>> : FALSE
    OBVIOUS
  <1>4. QueueInv
    BY <1>3 DEF Init, QueueInv, IsQueue
  <1> QED BY <1>1, <1>2, <1>4 DEF Init, MemInv, WorkInv, CacheInv, RowsInv

LEMMA MemNext ==
  ASSUME Coexist = FALSE, PassInv, MemInv, [Next]_vars
  PROVE  MemInv'
  <1>1. CASE UNCHANGED vars
    <2>1. KeepsRuntimes
      BY <1>1, SameRuntimes DEF vars
    <2>2. UNCHANGED <<mem, global, cache, stream, crash, call>>
      BY <1>1 DEF vars
    <2>3. RowsInv'
      BY <2>2, RowsSame DEF MemInv
    <2> QED BY <2>1, <2>2, <2>3, MemCall
  <1>2. ASSUME NEW r \in Runtimes,
               \/ \E tokens \in TokenLimits : Create(r, tokens)
               \/ Destroy(r)
               \/ \E c \in Caches, n \in TokenLimits : RunCached(r, c, n)
               \/ \E n \in TokenLimits, txt \in Texts, first, last \in 0 .. Layers :
                     RunUncached(r, n, txt, first, last)
               \/ FinalNorm(r) \/ Candidates(r) \/ Execute(r)
        PROVE  MemInv'
    <2>1. CASE FinalNorm(r) \/ Candidates(r)
      BY <2>1, MemBehind DEF FinalNorm, Candidates
    <2> QED BY <1>2, <2>1, MemCreate, MemDestroy, MemRunCached, MemRunUncached, MemExecute
  <1>3. ASSUME NEW c \in Caches,
               \/ \E n \in Capacities, txt \in Texts : KvInit(c, n, txt)
               \/ \E n \in Capacities : KvReserve(c, n)
               \/ \E txt \in Texts : KvReset(c, txt)
               \/ KvDestroy(c)
        PROVE  MemInv'
    BY <1>3, MemKvInit, MemKvReserve, MemKvReset, MemKvDestroy
  <1>4. CASE Launch
    BY <1>4, MemLaunch
  <1>5. CASE Return
    BY <1>5, MemReturn
  <1> QED BY <1>1, <1>2, <1>3, <1>4, <1>5 DEF Next

\* No pass aborts for want of scratch and no kernel writes outside of what it was
\* given, for every shape of a model, in a process that has one runtime at a time.
THEOREM NoKernelStrays ==
  ASSUME Coexist = FALSE
  PROVE  Spec => []NoCrash
  <1>1. PassInv /\ MemInv /\ [Next]_vars => (PassInv /\ MemInv)'
    BY PassNext, MemNext
  <1>2. Init => PassInv /\ MemInv
    BY PassInit, MemInit
  <1>3. MemInv => NoCrash
    BY DEF MemInv, NoCrash
  <1> QED BY <1>1, <1>2, <1>3, PTL DEF Spec

-----------------------------------------------------------------------------
(* What the queue will have left.                                          *)
(*                                                                         *)
(* The host runs ahead of the device.  What a place holds is known as the  *)
(* rows that a pass leaves there; a queue of kernels takes what the memory *)
(* holds now to what it will hold when they have run.                      *)

\* Row t of a pass x at a stage of a layer, for all of its tokens.
Left(x, at, l) ==
    [at |-> at, layer |-> l, n |-> x.n, base |-> x.base, txt |-> x.txt, src |-> "none"]
Quantised(k) ==
    [at |-> k.op.from, layer |-> k.layer, n |-> k.n, base |-> k.base, txt |-> k.txt, src |-> k.op.src]
TokenRow(w, t) == Row(w.at, w.layer, w.txt, w.base + t)

Products == {"normed", "attn", "gate"}
RowPlaces == Buffers \cup {"arena"}
Places == RowPlaces \cup {"out", "kv"}

\* A cell of a cache: where it is and what it holds.
Kept(kv, which, l, txt, j) ==
    <<kv.mem, CacheRow(kv, which, l, j), Row(IF which = "k" THEN "k_rope" ELSE "v", l, txt, j)>>
KeptTo(kv, which, l, txt, n, A) == \A j \in 0 .. n - 1 : Kept(kv, which, l, txt, j) \in A["kv"]

\* A kernel is given what it is meant to be given.
Fed(k, A) ==
    /\ k.op.kind \in {"map", "rope", "quant", "append", "act", "add", "last"} =>
          A[k.op.src] = Left(k, k.op.from, k.layer)
    /\ k.op.kind = "mul" => A["arena"] = Quantised(k)
    /\ k.op.kind = "act" => A[k.op.dst] = Left(k, "gate", k.layer)
    /\ k.op.kind = "add" => A[k.op.dst] = Left(k, IF k.op.to = "mid" THEN "in" ELSE "mid", k.layer)
    /\ k.op.kind = "attn" =>
          /\ A["q"] = Left(k, k.op.from, k.layer)
          /\ IF k.kv = NoKv
             THEN k.base = 0 /\ A["k"] = Left(k, "k_rope", k.layer) /\ A["v"] = Left(k, "v", k.layer)
             ELSE /\ k.kv.length = k.base
                  /\ \A which \in {"k", "v"} : KeptTo(k.kv, which, k.layer, k.txt, k.base + k.n, A)

\* Where a kernel leaves rows, and which.
Target(k) ==
    CASE k.op.kind = "quant" -> "arena"
      [] k.op.kind = "append" -> "kv"
      [] k.op.kind = "last" -> "out"
      [] k.op.kind = "score" -> "none"
      [] OTHER -> k.op.dst

FirstRow(k) == CacheRow(k.kv, k.op.src, k.layer, k.kv.length)
Outcome(k, A) ==
    CASE k.op.kind = "quant" -> Quantised(k)
      [] k.op.kind = "append" ->
            {f \in A["kv"] : f[1] = k.kv.mem => f[2] \notin FirstRow(k) .. FirstRow(k) + k.n - 1}
            \cup {<<k.kv.mem, FirstRow(k) + t, TokenRow(Left(k, k.op.from, k.layer), t)>> : t \in 0 .. k.n - 1}
      [] k.op.kind = "last" -> Left(k, "final", k.layer)
      [] k.op.kind = "embed" -> Left(k, "in", 0)
      [] OTHER -> Left(k, k.op.to, IF k.op.kind = "add" /\ k.op.to = "in" THEN k.layer + 1 ELSE k.layer)

After(k, A) == [p \in Places |-> IF p = Target(k) THEN Outcome(k, A) ELSE A[p]]

\* What memory holds.
Stride(p, w) == IF p = "arena" THEN Padded(Width[w.src]) ELSE Width[p]
RowsAre(a, lo, width, w) ==
    \A t \in 0 .. w.n - 1 : \A x \in 0 .. width - 1 : mem[a][lo + (t * width + x)] = TokenRow(w, t)

HoldsRows(x, A) ==
    /\ \A p \in RowPlaces : A[p].n \in 0 .. x.tokens /\ RowsAre(x.mem, x.at[p], Stride(p, A[p]), A[p])
    /\ A["arena"].src \in Products
    /\ A["out"].n # 0 => x.out = TokenRow(A["out"], A["out"].n - 1)
HoldsKept(A) ==
    \A f \in A["kv"] : /\ \E c \in Held : f[1] = cache[c].mem
                       /\ f[2] \in DOMAIN mem[f[1]] /\ mem[f[1]][f[2]] = f[3]
Holds(A) == (\A r \in Alive : HoldsRows(rt[r], A)) /\ HoldsKept(A)

Walk(s, bs) == \A i \in 1 .. Len(s) : Fed(s[i], bs[i - 1]) /\ bs[i] = After(s[i], bs[i - 1])
Runs(s, A, B) == \E bs : Walk(s, bs) /\ bs[0] = A /\ bs[Len(s)] = B

\* What the host counts on when it launches a step, of what will have run by then.
Needs ==
    [embed      |-> <<>>,
     norm       |-> [hidden |-> "in"],
     q          |-> [hidden |-> "in", normed |-> "normed"],
     k          |-> [hidden |-> "in", normed |-> "normed", q |-> "q"],
     v          |-> [hidden |-> "in", normed |-> "normed", q |-> "q", k |-> "k"],
     qk_norm    |-> [hidden |-> "in", q |-> "q", k |-> "k", v |-> "v"],
     rope       |-> [hidden |-> "in", q |-> "q_norm", k |-> "k_norm", v |-> "v"],
     append     |-> [hidden |-> "in", q |-> "q_rope", k |-> "k_rope", v |-> "v"],
     attn       |-> [hidden |-> "in", q |-> "q_rope", k |-> "k_rope", v |-> "v"],
     oproj      |-> [hidden |-> "in", attn |-> "attn"],
     mlp_norm   |-> [hidden |-> "mid"],
     gate       |-> [hidden |-> "mid", normed |-> "mlp_norm"],
     up         |-> [hidden |-> "mid", normed |-> "mlp_norm", gate |-> "gate"],
     act        |-> [hidden |-> "mid", gate |-> "gate", up |-> "up"],
     down       |-> [hidden |-> "mid", gate |-> "act"],
     final_norm |-> [hidden |-> "in"],
     cand       |-> [hidden |-> "in"]]

\* The step behind a step, and behind the last one as if another layer followed.
Follower ==
    [embed |-> "norm", norm |-> "q", q |-> "k", k |-> "v", v |-> "qk_norm", qk_norm |-> "rope",
     append |-> "attn", attn |-> "oproj", oproj |-> "mlp_norm", mlp_norm |-> "gate", gate |-> "up",
     up |-> "act", act |-> "down", final_norm |-> "norm", cand |-> "norm"]
Then(x, cached) ==
    CASE x[1] = "rope" -> <<IF cached THEN "append" ELSE "attn", x[2]>>
      [] x[1] = "down" -> <<"norm", x[2] + 1>>
      [] OTHER -> <<Follower[x[1]], x[2]>>

\* Steps that follow one another from x up to y.
Linked(s, x, y, cached) ==
    /\ s = <<>> => x = y
    /\ s # <<>> => s[1] = x
    /\ \A i \in 1 .. Len(s) : Then(s[i], cached) = IF i = Len(s) THEN y ELSE s[i + 1]

EndOf == <<"norm", call.last>>
Upcoming == IF call.todo = <<>> THEN EndOf ELSE Head(call.todo)

Appended(x) ==
    IF x[1] \in {"attn", "oproj", "mlp_norm", "gate", "up", "act", "down"} THEN x[2] + 1 ELSE x[2]

Meets(x, B) == \A p \in DOMAIN Needs[x[1]] : B[p] = Left(call, Needs[x[1]][p], x[2])
KeptBelow(m, B) ==
    \A l \in 0 .. m - 1 : \A which \in {"k", "v"} :
        KeptTo(call.kv, which, l, call.txt, call.base + call.n, B)

CachesKeep(B) ==
    \A c \in Held : \A l \in 0 .. Layers - 1 : \A which \in {"k", "v"} :
        KeptTo(cache[c], which, l, cache[c].txt, cache[c].length, B)
Scored(r, x, B) == "final_norm" \in rt[r].flags => B["out"] = Left(x, "final", Layers)

PassKeeps(B) ==
    call # Idle =>
        /\ Meets(Upcoming, B) /\ Scored(call.r, call, B)
        /\ call.c # "none" => KeptBelow(Appended(Upcoming), B)
RunKeeps(B) ==
    call = Idle => \A r \in Alive : rt[r].ran.ok =>
        /\ B["hidden"] = Left(rt[r].ran, "in", rt[r].ran.last)
        /\ Scored(r, rt[r].ran, B)
Expected(B) == CachesKeep(B) /\ PassKeeps(B) /\ RunKeeps(B)

\* The tokens are embedded in front of the layers and normed behind them.
InPlace(s) ==
    \A i \in DOMAIN s : /\ s[i][1] = "embed" => s[i][2] = 0
                        /\ s[i][1] = "final_norm" => s[i][2] = Layers

\* The pass that the host launches.
LaunchInv ==
    /\ \A r \in Alive : rt[r].ran.ok => rt[r].ran.base \in Nat
    /\ call # Idle =>
        /\ call.base \in Nat
        /\ Linked(call.todo, Upcoming, EndOf, call.c # "none")
        /\ InPlace(call.todo)
        /\ IF call.c = "none" THEN call.kv = NoKv /\ (call.base = 0 \/ \A i \in DOMAIN call.todo : call.todo[i][1] # "attn")
           ELSE call.base = cache[call.c].length /\ call.txt = cache[call.c].txt /\ call.last = Layers

\* A kernel that is queued is one of a step, over rows that there is room for.
IsOp(o) == \E s \in StepNames : \E i \in DOMAIN Steps[s] : o = Steps[s][i]
KernelOK(k, r) ==
    /\ r \in Alive /\ IsOf(k, r) /\ IsOp(k.op) /\ k.layer \in 0 .. Layers /\ k.base \in Nat
    /\ k.op.kind = "append" =>
          k.layer < Layers /\ HasRoom(k) /\ \E c \in Held : cache[c].mem = k.kv.mem
DeviceInv ==
    /\ \A r \in Runtimes : \A i \in DOMAIN stream[r] : KernelOK(stream[r][i], r)
    /\ \A r \in Alive : mem[rt[r].mem][rt[r].at["inv_freq"]] = Row("freq", 0, 0, 0)

ChainInv ==
    \E A, B : /\ Holds(A) /\ Expected(B)
              /\ \A r \in Alive : Runs(stream[r], A, B)
              /\ Alive = {} => A = B

-----------------------------------------------------------------------------
(* Rows in memory.                                                         *)

LEMMA RowAtIs ==
  ASSUME NEW a, NEW lo \in Nat, NEW width \in Nat \ {0}, NEW v,
         \A x \in 0 .. width - 1 : mem[a][lo + x] = v
  PROVE  RowAt(a, lo, width) = v
  <1> DEFINE cs == {mem[a][x] : x \in lo .. lo + width - 1}
  <1>1. \A x \in lo .. lo + width - 1 : x - lo \in 0 .. width - 1 /\ lo + (x - lo) = x
    OBVIOUS
  <1>2. \A x \in lo .. lo + width - 1 : mem[a][x] = v
    BY <1>1
  <1>3. lo \in lo .. lo + width - 1
    OBVIOUS
  <1>4. cs = {v}
    BY <1>2, <1>3
  <1>5. Cardinality(cs) = 1
    BY <1>4, FS_Singleton
  <1>6. (CHOOSE u \in cs : TRUE) = v
    BY <1>4
  <1> QED BY <1>5, <1>6 DEF RowAt

\* Cell y of row t.
LEMMA CellOf ==
  ASSUME NEW n \in Nat, NEW w \in Nat, NEW t \in 0 .. n - 1, NEW y \in 0 .. w - 1
  PROVE  /\ t * w \in Nat /\ n * w \in Nat /\ t * w + y \in 0 .. (n * w) - 1
         /\ (t * w + y) \div w = t
  <1>1. PICK d \in Nat : n = t + 1 + d
    <2>1. n - t - 1 \in Nat /\ n = t + 1 + (n - t - 1)
      OBVIOUS
    <2> QED BY <2>1
  <1>2. t * w \in Nat /\ d * w \in Nat /\ n * w = t * w + w + d * w
    BY <1>1
  <1>3. \A p, q \in Nat : p + y \in 0 .. (p + w + q) - 1 /\ p + w + q \in Nat
    OBVIOUS
  <1>4. (t * w + y) \div w = t
    <2>1. w \in Nat \ {0} /\ t \in Nat
      OBVIOUS
    <2>2. PICK x \in Nat : x = t * w + y
      BY <1>2
    <2>3. x \div w \in Nat /\ x % w \in 0 .. w - 1 /\ x = w * (x \div w) + (x % w)
      BY <2>1
    <2>4. PICK q \in Nat, m \in 0 .. w - 1 : q = x \div w /\ m = x % w
      BY <2>3
    <2>5. w * q + m = w * t + y
      BY <2>2, <2>3, <2>4
    <2>6. CASE q = t
      BY <2>2, <2>4, <2>6
    <2>7. CASE q < t
      <3>1. PICK e \in Nat : t = q + 1 + e
        <4>1. t - q - 1 \in Nat /\ t = q + 1 + (t - q - 1)
          BY <2>1, <2>7
        <4> QED BY <4>1
      <3>2. w * t = w * q + w + w * e /\ w * e \in Nat /\ w * q \in Nat
        BY <2>1, <3>1
      <3>3. \A a, b \in Nat : a + m # (a + w + b) + y
        OBVIOUS
      <3> QED BY <2>5, <3>2, <3>3
    <2>8. CASE t < q
      <3>1. PICK e \in Nat : q = t + 1 + e
        <4>1. q - t - 1 \in Nat /\ q = t + 1 + (q - t - 1)
          BY <2>1, <2>8
        <4> QED BY <4>1
      <3>2. w * q = w * t + w + w * e /\ w * e \in Nat /\ w * t \in Nat
        BY <2>1, <3>1
      <3>3. \A a, b \in Nat : (a + w + b) + m # a + y
        OBVIOUS
      <3> QED BY <2>5, <3>2, <3>3
    <2> QED BY <2>1, <2>6, <2>7, <2>8
  <1> QED BY <1>2, <1>3, <1>4

LEMMA StridesAre ==
  /\ \A p \in Buffers : \A w : Stride(p, w) = Width[p] /\ Stride(p, w) \in Nat \ {0}
  /\ \A w : w.src \in Products =>
        /\ Stride("arena", w) = Padded(Width[w.src]) /\ Stride("arena", w) \in Nat \ {0}
        /\ Width[w.src] \in Nat /\ Width[w.src] <= Inter
  <1>1. ASSUME NEW p \in Buffers PROVE p # "arena" /\ Width[p] \in Nat \ {0}
    BY Widths
  <1>2. ASSUME NEW s \in Products
        PROVE  Padded(Width[s]) \in Nat \ {0} /\ Width[s] \in Nat /\ Width[s] <= Inter
    <2>1. PICK u : u = Width[s]
      OBVIOUS
    <2>2. u \in Nat \ {0} /\ u <= Inter
      BY <2>1, Widths DEF Products
    <2>3. Padded(u) \in Nat /\ u <= Padded(u)
      <3>1. u \in Nat /\ u <= u
        BY <2>2
      <3> QED BY <3>1, PaddedRows
    <2>4. Padded(u) # 0
      BY <2>2, <2>3
    <2> QED BY <2>1, <2>2, <2>3, <2>4
  <1> QED BY <1>1, <1>2 DEF Stride

\* The slices of a workspace that hold rows are apart from each other, and from the
\* table of the rotation.
LEMMA PlacesApart ==
  ASSUME WorkInv, RuntimesOK, NEW r \in Alive
  PROVE  LET x == rt[r] size(b) == SliceSize(rt[r].tokens, global.bytes, b) IN
         /\ \A p \in Names : x.at[p] \in Nat /\ size(p) \in Nat
                             /\ x.at[p] .. x.at[p] + size(p) - 1 \subseteq DOMAIN mem[x.mem]
         /\ \A p, q \in Names : p # q =>
               \A c \in x.at[p] .. x.at[p] + size(p) - 1 : c \notin x.at[q] .. x.at[q] + size(q) - 1
         /\ size("inv_freq") = 1
  <1>1. PICK at, t, g, m : at = rt[r].at /\ t = rt[r].tokens /\ g = global.bytes /\ m = rt[r].mem
    OBVIOUS
  <1>2. /\ t \in Nat \ {0} /\ g \in Nat /\ DOMAIN mem[m] = 0 .. Total(t, g) - 1 /\ at = SliceAt(t, g)
    BY <1>1 DEF WorkInv, WorkOK, RuntimesOK, RuntimeOK
  <1>3. t \in Nat \ {0}
    BY <1>2
  <1>4. g \in Nat
    BY <1>2
  <1>5. /\ Total(t, g) \in Nat \ {0}
        /\ \A b \in Names :
              /\ SliceAt(t, g)[b] \in Nat /\ SliceSize(t, g, b) \in Nat
              /\ SliceAt(t, g)[b] + SliceSize(t, g, b) <= Total(t, g)
        /\ \A b, c \in Names : b # c =>
               \/ SliceAt(t, g)[b] + SliceSize(t, g, b) <= SliceAt(t, g)[c]
               \/ SliceAt(t, g)[c] + SliceSize(t, g, c) <= SliceAt(t, g)[b]
    BY ONLY <1>3, <1>4, SlicesApart
  <1>6. \A lo, n, T \in Nat : lo + n <= T => lo .. lo + n - 1 \subseteq 0 .. T - 1
    OBVIOUS
  <1>7. \A lo, n, ko, j \in Nat : lo + n <= ko \/ ko + j <= lo =>
            \A c \in lo .. lo + n - 1 : c \notin ko .. ko + j - 1
    OBVIOUS
  <1>8. \A p \in Names : at[p] \in Nat /\ SliceSize(t, g, p) \in Nat
                         /\ at[p] .. at[p] + SliceSize(t, g, p) - 1 \subseteq DOMAIN mem[m]
    BY <1>2, <1>5, <1>6
  <1>9. \A p, q \in Names : p # q =>
            \A c \in at[p] .. at[p] + SliceSize(t, g, p) - 1 : c \notin at[q] .. at[q] + SliceSize(t, g, q) - 1
    BY <1>2, <1>5, <1>7
  <1>10. SliceSize(t, g, "inv_freq") = 1
    BY Widths DEF SliceSize
  <1> QED BY <1>1, <1>8, <1>9, <1>10

\* The rows of a place are within its slice.
LEMMA RowsWithin ==
  ASSUME WorkInv, RuntimesOK, NEW r \in Alive, NEW p \in RowPlaces, NEW w, w.n \in 0 .. rt[r].tokens,
         p = "arena" => w.src \in Products,
         NEW t \in 0 .. w.n - 1, NEW y \in 0 .. Stride(p, w) - 1
  PROVE  LET lo == rt[r].at[p] IN
         /\ p \in Names
         /\ lo + (t * Stride(p, w) + y) \in lo .. lo + SliceSize(rt[r].tokens, global.bytes, p) - 1
  <1>1. PICK n, T, g, s, lo : n = w.n /\ T = rt[r].tokens /\ g = global.bytes /\ s = Stride(p, w)
                              /\ lo = rt[r].at[p]
    OBVIOUS
  <1>2. T \in Nat /\ n \in 0 .. T /\ g \in Nat /\ ArenaCells(T) <= g
    BY <1>1, WorkIs
  <1>3. p \in Names /\ lo \in Nat
    BY <1>1, WorkIs DEF RowPlaces, Names
  <1>4. s \in Nat
    BY <1>1, StridesAre DEF RowPlaces
  <1>5. n \in Nat /\ t \in 0 .. n - 1 /\ y \in 0 .. s - 1
    BY <1>1, <1>2
  <1>6. n * s \in Nat /\ t * s + y \in 0 .. (n * s) - 1
    BY <1>4, <1>5, CellOf
  <1>7. SliceSize(T, g, p) \in Nat /\ n * s <= SliceSize(T, g, p)
    <2>1. CASE p = "arena"
      <3>1. SliceSize(T, g, p) = g
        BY <2>1, Widths DEF SliceSize
      <3>2. PICK u : u = Width[w.src]
        OBVIOUS
      <3>3. s = Padded(u) /\ u \in Nat /\ u <= Inter
        BY <1>1, <2>1, <3>2, StridesAre
      <3>4. StageCells(n, u) \in Nat /\ StageCells(n, u) <= FixupAt(n, u) /\ FixupAt(n, u) \in Nat
            /\ FixupAt(n, u) <= ArenaUse(n, u) /\ ArenaUse(n, u) \in Nat /\ ArenaUse(n, u) <= g
        BY <1>2, <3>3, ArenaSuffices
      <3>5. n * s <= StageCells(n, u)
        <4>1. StageCells(n, u) = n * s + (IF n <= VecBatch THEN 0 ELSE Tile)
          BY <3>3 DEF StageCells
        <4>2. \A c \in Nat : c <= c + (IF n <= VecBatch THEN 0 ELSE Tile)
          BY Constants
        <4> QED BY <1>6, <4>1, <4>2
      <3>6. \A c, d, e, f, h \in Nat : c <= d /\ d <= e /\ e <= f /\ f <= h => c <= h
        OBVIOUS
      <3> QED BY <1>2, <1>6, <3>1, <3>4, <3>5, <3>6
    <2>2. CASE p # "arena"
      <3>1. p \in Buffers
        BY <2>2 DEF RowPlaces
      <3>2. SliceSize(T, g, p) = T * s
        BY <1>1, <3>1, StridesAre DEF SliceSize
      <3>3. n \in Nat /\ n <= T
        BY <1>2
      <3> QED BY <1>2, <1>4, <3>2, <3>3, FewerRows
    <2> QED BY <2>1, <2>2
  <1>8. \A a \in Nat : \A b \in 0 .. a - 1 : \A c \in Nat : a <= c => lo + b \in lo .. lo + c - 1
    BY <1>3
  <1>9. lo + (t * s + y) \in lo .. lo + SliceSize(T, g, p) - 1
    BY <1>6, <1>7, <1>8
  <1> QED BY <1>1, <1>3, <1>9

-----------------------------------------------------------------------------
(* What a kernel does.                                                     *)

\* The shapes of the kernels that the steps have.
ShapeOK(o) ==
    /\ o.kind \in Kinds
    /\ o.kind \in {"map", "rope", "quant", "append", "act", "add", "last"} => o.src \in Buffers
    /\ o.kind \in {"map", "rope", "mul", "act", "add", "embed", "attn"} => o.dst \in Buffers
    /\ o.kind \in {"quant", "mul"} => o.src \in Products
    /\ o.kind = "append" => o.src \in {"k", "v"}
    /\ o.kind = "embed" => o.to = "in" /\ o.src = "none"
    /\ o.kind = "attn" => o.to = "attn" /\ o.src = "q"
    /\ o.kind = "act" => o.to = "act"
    /\ o.kind = "add" => o.to \in {"in", "mid"}
    /\ o.kind = "last" => o.src = "final" /\ o.from = "final"

\* The value that a kernel has for row t of its target.
Value(k, t) ==
    IF k.op.kind = "quant" THEN RowAt(k.ws.mem, BufferAt(k, k.op.src, t), Width[k.op.src])
    ELSE Computed(k, t)

StoresRows(k) == k.op.kind \notin {"append", "last", "score"}

LEMMA TargetsAre ==
  ASSUME NEW k, ShapeOK(k.op)
  PROVE  /\ StoresRows(k) => Target(k) \in RowPlaces /\ (k.op.kind # "quant" => Target(k) = k.op.dst /\ k.op.dst \in Buffers)
         /\ k.op.kind = "quant" => Target(k) = "arena"
         /\ k.op.kind = "append" => Target(k) = "kv"
         /\ k.op.kind = "last" => Target(k) = "out"
         /\ k.op.kind = "score" => Target(k) = "none"
         /\ "none" \notin Places /\ "kv" \notin RowPlaces /\ "out" \notin RowPlaces
         /\ "arena" \notin Buffers /\ RowPlaces \subseteq Places
  BY Widths DEF ShapeOK, Target, RowPlaces, Places, StoresRows, Kinds

LEMMA NoClash ==
  ASSUME WorkInv, RuntimesOK, NEW r \in Alive, NEW k, IsOf(k, r), ShapeOK(k.op)
  PROVE  ~Clash(k)
  <1> SUFFICES ASSUME k.op.kind = "mul", Fixup(k).lo < k.arena.lo + StageCells(k.n, Width[k.op.src])
               PROVE  FALSE
    BY DEF Clash
  <1>1. PICK n, u, T, g : n = k.n /\ u = Width[k.op.src] /\ T = rt[r].tokens /\ g = global.bytes
    OBVIOUS
  <1>2. T \in Nat /\ g \in Nat /\ ArenaCells(T) <= g /\ global.arena.lo \in Nat
    BY <1>1, WorkIs DEF Names
  <1>3. n \in 0 .. T
    BY <1>1, <1>2 DEF IsOf
  <1>4. u \in Nat /\ u <= Inter
    BY <1>1, StridesAre DEF ShapeOK
  <1>5. StageCells(n, u) \in Nat /\ FixupAt(n, u) \in Nat /\ StageCells(n, u) <= FixupAt(n, u)
    BY <1>2, <1>3, <1>4, ArenaSuffices
  <1>6. Fixup(k).lo = k.arena.lo + FixupAt(n, u)
    BY <1>1 DEF Fixup, Cells
  <1>7. k.arena.lo \in Nat
    BY <1>2 DEF IsOf
  <1> QED BY <1>1, <1>5, <1>6, <1>7

\* Every cell of a row gets the row's value, other slices and other memory stay.
LEMMA RowsStored ==
  ASSUME WorkInv, RuntimesOK, NEW r \in Alive, NEW k, IsOf(k, r), ShapeOK(k.op), StoresRows(k),
         mem' = Effect(k)
  PROVE  LET x == rt[r] p == Target(k) lo == rt[r].at[p]
             s == Stride(p, Quantised(k)) size == SliceSize(rt[r].tokens, global.bytes, p) IN
         /\ \A a \in Addresses \ {x.mem} : mem'[a] = mem[a]
         /\ \A c \in DOMAIN mem[x.mem] : c \notin lo .. lo + size - 1 => mem'[x.mem][c] = mem[x.mem][c]
         /\ \A t \in 0 .. k.n - 1 : \A y \in 0 .. s - 1 : mem'[x.mem][lo + (t * s + y)] = Value(k, t)
  <1>1. PICK m, at, n, T, g, p, lo, w, s, size :
          /\ m = rt[r].mem /\ at = rt[r].at /\ n = k.n /\ T = rt[r].tokens /\ g = global.bytes
          /\ p = Target(k) /\ lo = at[p] /\ w = Quantised(k) /\ s = Stride(p, w)
          /\ size = SliceSize(T, g, p)
    OBVIOUS
  <1>2. /\ m \in Addresses /\ DOMAIN mem = Addresses /\ T \in Nat /\ n \in 1 .. T
        /\ k.ws.mem = m /\ k.ws.at = at /\ k.arena.mem = m /\ k.arena.lo = at["arena"]
        /\ g \in Nat /\ ArenaCells(T) <= g
    BY <1>1, WorkIs DEF IsOf, WorkInv
  <1>3. p \in RowPlaces /\ p \in Names /\ lo \in Nat /\ size \in Nat
        /\ lo .. lo + size - 1 \subseteq DOMAIN mem[m]
    <2>1. p \in RowPlaces
      BY <1>1, TargetsAre
    <2>2. p \in Names
      BY <2>1 DEF RowPlaces, Names
    <2> QED BY <1>1, <2>1, <2>2, PlacesApart
  <1>4. w.n = n /\ w.src = k.op.src /\ (p = "arena" => w.src \in Products)
    <2>1. p = "arena" => k.op.kind = "quant"
      BY <1>1, TargetsAre
    <2> QED BY <1>1, <2>1 DEF Quantised, ShapeOK
  <1>5. s \in Nat \ {0}
    BY <1>1, <1>3, <1>4, StridesAre DEF RowPlaces
  <1>6. ASSUME NEW t \in 0 .. n - 1, NEW y \in 0 .. s - 1
        PROVE  /\ t * s + y \in 0 .. (n * s) - 1 /\ (t * s + y) \div s = t
               /\ lo + (t * s + y) \in DOMAIN mem[m]
    <2>1. t * s + y \in 0 .. (n * s) - 1 /\ (t * s + y) \div s = t
      BY <1>2, <1>5, CellOf
    <2>2. lo + (t * s + y) \in lo .. lo + size - 1
      <3>1. w.n \in 0 .. rt[r].tokens
        BY <1>1, <1>2, <1>4
      <3>2. t \in 0 .. w.n - 1 /\ y \in 0 .. Stride(p, w) - 1
        BY <1>1, <1>4
      <3> QED BY <1>1, <1>3, <1>4, <3>1, <3>2, RowsWithin
    <2> QED BY <1>3, <2>1, <2>2
  <1>7. n * s \in Nat
    BY <1>2, <1>5
  <1>8. CASE k.op.kind = "quant"
    <2>1. p = "arena" /\ k.op.src \in Products
      BY <1>1, <1>8, TargetsAre DEF ShapeOK
    <2>2. s = Padded(Width[k.op.src])
      BY <1>1, <1>4, <2>1, StridesAre
    <2>3. PICK cells : cells = StageCells(n, Width[k.op.src])
      OBVIOUS
    <2>4. cells \in Nat /\ n * s <= cells /\ cells <= size
      <3>1. PICK u : u = Width[k.op.src]
        OBVIOUS
      <3>2. u \in Nat /\ u <= Inter
        BY <1>4, <2>1, <3>1, StridesAre
      <3>3. n \in 0 .. T
        BY <1>2
      <3>4. StageCells(n, u) \in Nat /\ StageCells(n, u) <= FixupAt(n, u) /\ FixupAt(n, u) \in Nat
            /\ FixupAt(n, u) <= ArenaUse(n, u) /\ ArenaUse(n, u) \in Nat /\ ArenaUse(n, u) <= g
        BY <1>2, <3>2, <3>3, ArenaSuffices
      <3>5. cells = n * s + (IF n <= VecBatch THEN 0 ELSE Tile)
        BY <2>2, <2>3 DEF StageCells
      <3>6. \A c \in Nat : c <= c + (IF n <= VecBatch THEN 0 ELSE Tile)
        BY Constants
      <3>7. size = g
        BY <1>1, <2>1, Widths DEF SliceSize
      <3>8. cells <= size
        <4>1. \A c, e, f, h \in Nat : c <= e /\ e <= f /\ f <= h => c <= h
          OBVIOUS
        <4> QED BY <1>2, <2>3, <3>1, <3>4, <3>7, <4>1
      <3> QED BY <1>7, <2>3, <3>1, <3>4, <3>5, <3>6, <3>8
    <2>5. Stage(k).mem = m /\ Stage(k).lo = lo /\ Stage(k).hi = lo + cells
      BY <1>1, <1>2, <2>1, <2>3 DEF Stage, Cells
    <2>6. mem' = [mem EXCEPT ![m] =
            [c \in DOMAIN @ |-> IF c \in lo .. (lo + cells) - 1
                                THEN IF (c - lo) \div s >= n THEN Row("zero", 0, 0, 0)
                                     ELSE RowAt(k.ws.mem, BufferAt(k, k.op.src, (c - lo) \div s), Width[k.op.src])
                                ELSE @[c]]]
      BY <1>1, <1>8, <2>2, <2>5 DEF Effect, Fill
    <2>7. \A a \in Addresses \ {m} : mem'[a] = mem[a]
      BY <1>2, <2>6
    <2>8. \A c \in DOMAIN mem[m] :
            mem'[m][c] = IF c \in lo .. (lo + cells) - 1
                         THEN IF (c - lo) \div s >= n THEN Row("zero", 0, 0, 0)
                              ELSE Value(k, (c - lo) \div s)
                         ELSE mem[m][c]
      BY <1>2, <1>8, <2>6 DEF Value
    <2>9. \A c \in DOMAIN mem[m] : c \notin lo .. lo + size - 1 => mem'[m][c] = mem[m][c]
      <3>1. \A c : c \in lo .. (lo + cells) - 1 => c \in lo .. lo + size - 1
        BY <1>3, <2>4
      <3> QED BY <2>8, <3>1
    <2>10. ASSUME NEW t \in 0 .. n - 1, NEW y \in 0 .. s - 1
           PROVE  mem'[m][lo + (t * s + y)] = Value(k, t)
      <3>1. PICK z : z = t * s + y
        OBVIOUS
      <3>2. z \in 0 .. (n * s) - 1 /\ z \div s = t /\ lo + z \in DOMAIN mem[m]
        BY <1>6, <3>1
      <3>3. lo + z \in lo .. (lo + cells) - 1 /\ (lo + z) - lo = z
        BY <1>3, <1>7, <2>4, <3>2
      <3>4. ~(t >= n)
        BY <1>2
      <3> QED BY <2>8, <3>1, <3>2, <3>3, <3>4
    <2> QED BY <1>1, <2>7, <2>9, <2>10
  <1>9. CASE k.op.kind # "quant"
    <2>1. p = k.op.dst /\ p \in Buffers /\ k.op.kind \notin {"quant", "append", "last", "score"}
      BY <1>1, <1>9, TargetsAre DEF StoresRows
    <2>2. s = Width[p]
      BY <1>1, <2>1, StridesAre
    <2>3. size = T * s
      BY <1>1, <2>1, <2>2 DEF SliceSize
    <2>4. n * s <= size
      <3>1. n \in Nat /\ n <= T
        BY <1>2
      <3> QED BY <1>2, <1>5, <2>3, <3>1, FewerRows
    <2>5. Region(k, p).mem = m /\ Region(k, p).lo = lo /\ Region(k, p).hi = lo + n * s
      BY <1>1, <1>2, <2>2 DEF Region, Cells
    <2>6. mem' = [mem EXCEPT ![m] =
            [c \in DOMAIN @ |-> IF c \in lo .. (lo + n * s) - 1
                                THEN IF Clash(k) THEN Junk ELSE Computed(k, (c - lo) \div s)
                                ELSE @[c]]]
      BY <1>1, <2>1, <2>2, <2>5 DEF Effect, Fill
    <2>7. \A a \in Addresses \ {m} : mem'[a] = mem[a]
      BY <1>2, <2>6
    <2>8. \A c \in DOMAIN mem[m] :
            mem'[m][c] = IF c \in lo .. (lo + n * s) - 1 THEN Value(k, (c - lo) \div s) ELSE mem[m][c]
      BY <1>2, <1>9, <2>6, NoClash DEF Value
    <2>9. \A c \in DOMAIN mem[m] : c \notin lo .. lo + size - 1 => mem'[m][c] = mem[m][c]
      <3>1. \A c : c \in lo .. (lo + n * s) - 1 => c \in lo .. lo + size - 1
        BY <1>3, <1>7, <2>4
      <3> QED BY <2>8, <3>1
    <2>10. ASSUME NEW t \in 0 .. n - 1, NEW y \in 0 .. s - 1
           PROVE  mem'[m][lo + (t * s + y)] = Value(k, t)
      <3>1. PICK z : z = t * s + y
        OBVIOUS
      <3>2. z \in 0 .. (n * s) - 1 /\ z \div s = t /\ lo + z \in DOMAIN mem[m]
        BY <1>6, <3>1
      <3>3. lo + z \in lo .. (lo + n * s) - 1 /\ (lo + z) - lo = z
        BY <1>3, <1>7, <3>2
      <3> QED BY <2>8, <3>1, <3>2, <3>3
    <2> QED BY <1>1, <2>7, <2>9, <2>10
  <1> QED BY <1>8, <1>9

\* A kernel that is given a buffer's rows finds them.
LEMMA RowGiven ==
  ASSUME WorkInv, RuntimesOK, NEW r \in Alive, NEW k, IsOf(k, r), NEW A, HoldsRows(rt[r], A),
         NEW b \in Buffers, NEW at, NEW l, A[b] = Left(k, at, l), NEW t \in 0 .. k.n - 1
  PROVE  RowAt(k.ws.mem, BufferAt(k, b, t), Width[b]) = Row(at, l, k.txt, k.base + t)
  <1>1. PICK w, m, lo, v : /\ w = Width[b] /\ m = rt[r].mem /\ lo = rt[r].at[b]
                           /\ v = Row(at, l, k.txt, k.base + t)
    OBVIOUS
  <1>2. w \in Nat \ {0} /\ lo \in Nat /\ t \in Nat
    BY <1>1, Widths, WorkIs DEF Names, IsOf
  <1>3. b \in RowPlaces /\ Stride(b, A[b]) = w
    BY <1>1, StridesAre DEF RowPlaces
  <1>4. A[b].n = k.n /\ TokenRow(A[b], t) = v
    BY <1>1 DEF Left, TokenRow
  <1>5. \A x \in 0 .. w - 1 : mem[m][lo + (t * w + x)] = v
    BY <1>1, <1>3, <1>4 DEF HoldsRows, RowsAre
  <1>6. t * w \in Nat /\ lo + t * w \in Nat
    BY <1>2
  <1>7. \A x \in 0 .. w - 1 : lo + (t * w + x) = (lo + t * w) + x
    BY <1>2, <1>6
  <1>8. PICK z \in Nat : z = lo + t * w
    BY <1>6
  <1>9. RowAt(m, z, w) = v
    <2>1. \A x \in 0 .. w - 1 : mem[m][z + x] = v
      BY <1>5, <1>7, <1>8
    <2>2. w \in Nat \ {0}
      BY <1>2
    <2>3. z \in Nat
      BY <1>8
    <2> QED BY ONLY <2>1, <2>2, <2>3, RowAtIs
  <1>10. BufferAt(k, b, t) = lo + t * w /\ k.ws.mem = m
    BY <1>1 DEF BufferAt, IsOf
  <1> QED BY <1>1, <1>8, <1>9, <1>10

LEMMA StageGiven ==
  ASSUME WorkInv, RuntimesOK, NEW r \in Alive, NEW k, IsOf(k, r), NEW A, HoldsRows(rt[r], A),
         A["arena"] = Quantised(k), NEW t \in 0 .. k.n - 1
  PROVE  RowAt(k.arena.mem, k.arena.lo + t * Padded(Width[k.op.src]), Padded(Width[k.op.src]))
            = Row(k.op.from, k.layer, k.txt, k.base + t)
  <1>1. PICK w, m, lo, v : /\ w = Padded(Width[k.op.src]) /\ m = rt[r].mem /\ lo = rt[r].at["arena"]
                           /\ v = Row(k.op.from, k.layer, k.txt, k.base + t)
    OBVIOUS
  <1>2. A["arena"].src = k.op.src /\ k.op.src \in Products
    BY DEF HoldsRows, Quantised
  <1>3. w \in Nat \ {0} /\ lo \in Nat /\ t \in Nat /\ Stride("arena", A["arena"]) = w
    BY <1>1, <1>2, StridesAre, WorkIs DEF Names, IsOf
  <1>4. A["arena"].n = k.n /\ TokenRow(A["arena"], t) = v
    BY <1>1 DEF Quantised, TokenRow
  <1>5. \A x \in 0 .. w - 1 : mem[m][lo + (t * w + x)] = v
    BY <1>1, <1>3, <1>4 DEF HoldsRows, RowsAre, RowPlaces
  <1>6. t * w \in Nat /\ lo + t * w \in Nat
    BY <1>3
  <1>7. \A x \in 0 .. w - 1 : lo + (t * w + x) = (lo + t * w) + x
    BY <1>3, <1>6
  <1>8. PICK z \in Nat : z = lo + t * w
    BY <1>6
  <1>9. RowAt(m, z, w) = v
    <2>1. \A x \in 0 .. w - 1 : mem[m][z + x] = v
      BY <1>5, <1>7, <1>8
    <2>2. w \in Nat \ {0}
      BY <1>3
    <2>3. z \in Nat
      BY <1>8
    <2> QED BY ONLY <2>1, <2>2, <2>3, RowAtIs
  <1>10. k.arena.mem = m /\ k.arena.lo = lo
    BY <1>1, WorkIs DEF IsOf
  <1> QED BY <1>1, <1>8, <1>9, <1>10

\* Attention sees the rows of its own text up to the token's own.
LEMMA AttentionIs ==
  ASSUME WorkInv, RuntimesOK, NEW r \in Alive, NEW k, IsOf(k, r), k.base \in Nat,
         k.op.kind = "attn", ShapeOK(k.op), NEW A, Holds(A), Fed(k, A), NEW t \in 0 .. k.n - 1
  PROVE  Attended(k, t) = Row("attn", k.layer, k.txt, k.base + t)
  <1>0. HoldsRows(rt[r], A) /\ HoldsKept(A)
    BY DEF Holds
  <1>1. /\ A["q"] = Left(k, k.op.from, k.layer)
        /\ IF k.kv = NoKv
           THEN k.base = 0 /\ A["k"] = Left(k, "k_rope", k.layer) /\ A["v"] = Left(k, "v", k.layer)
           ELSE /\ k.kv.length = k.base
                /\ \A which \in {"k", "v"} : KeptTo(k.kv, which, k.layer, k.txt, k.base + k.n, A)
    BY DEF Fed
  <1>2. PICK own : own = Row(k.op.from, k.layer, k.txt, k.base + t)
    OBVIOUS
  <1>3. RowAt(k.ws.mem, BufferAt(k, "q", t), Width["q"]) = own
    BY <1>0, <1>1, <1>2, RowGiven, Widths
  <1>4. own.at = k.op.from /\ own.layer = k.layer /\ own.txt = k.txt /\ own.pos = k.base + t
    BY <1>2 DEF Row
  <1>5. PICK n, b : n = k.n /\ b = k.base
    OBVIOUS
  <1>6. n \in Nat /\ b \in Nat /\ t \in Nat
    <2>1. rt[r].tokens \in Nat
      BY WorkIs
    <2> QED BY <1>5, <2>1 DEF IsOf
  <1>7. (b + t + 1) - 1 = b + t /\ b + t + 1 <= b + n /\ b + t \in Nat
    BY <1>5, <1>6
  <1>8. \A j \in 0 .. (b + t + 1) - 1 :
           /\ KeyAt(k, "k", j) = Row("k_rope", k.layer, k.txt, j)
           /\ KeyAt(k, "v", j) = Row("v", k.layer, k.txt, j)
    <2>1. CASE k.kv = NoKv
      <3>1. ASSUME NEW j \in 0 .. (b + t + 1) - 1 PROVE j \in 0 .. k.n - 1 /\ k.base + j = j
        BY <1>1, <1>5, <1>6, <2>1
      <3>2. ASSUME NEW j \in 0 .. (b + t + 1) - 1
            PROVE  /\ RowAt(k.ws.mem, BufferAt(k, "k", j), Width["k"]) = Row("k_rope", k.layer, k.txt, j)
                   /\ RowAt(k.ws.mem, BufferAt(k, "v", j), Width["v"]) = Row("v", k.layer, k.txt, j)
        <4>1. A["k"] = Left(k, "k_rope", k.layer)
          BY <1>1, <2>1
        <4>2. A["v"] = Left(k, "v", k.layer)
          BY <1>1, <2>1
        <4>3. j \in 0 .. k.n - 1
          BY <3>1
        <4>4. RowAt(k.ws.mem, BufferAt(k, "k", j), Width["k"]) = Row("k_rope", k.layer, k.txt, k.base + j)
          <5>1. "k" \in Buffers
            BY Widths
          <5>2. HoldsRows(rt[r], A)
            BY <1>0
          <5> QED BY <4>1, <4>3, <5>1, <5>2, RowGiven
        <4>5. RowAt(k.ws.mem, BufferAt(k, "v", j), Width["v"]) = Row("v", k.layer, k.txt, k.base + j)
          <5>1. "v" \in Buffers
            BY Widths
          <5>2. HoldsRows(rt[r], A)
            BY <1>0
          <5> QED BY <4>2, <4>3, <5>1, <5>2, RowGiven
        <4> QED BY <3>1, <4>4, <4>5
      <3> QED BY <2>1, <3>2 DEF KeyAt
    <2>2. CASE k.kv # NoKv
      <3>1. ASSUME NEW j \in 0 .. (b + t + 1) - 1, NEW which \in {"k", "v"}
            PROVE  KeyAt(k, which, j) = Row(IF which = "k" THEN "k_rope" ELSE "v", k.layer, k.txt, j)
        <4>1. j \in 0 .. (b + n) - 1
          BY <1>6, <1>7
        <4>2. Kept(k.kv, which, k.layer, k.txt, j) \in A["kv"]
          BY <1>1, <1>5, <2>2, <4>1 DEF KeptTo
        <4>3. PICK f : f = Kept(k.kv, which, k.layer, k.txt, j)
          OBVIOUS
        <4>4. f[1] = k.kv.mem /\ f[2] = CacheRow(k.kv, which, k.layer, j)
              /\ f[3] = Row(IF which = "k" THEN "k_rope" ELSE "v", k.layer, k.txt, j)
          BY <4>3 DEF Kept
        <4>5. mem[f[1]][f[2]] = f[3]
          BY <1>0, <4>2, <4>3 DEF HoldsKept
        <4> QED BY <2>2, <4>4, <4>5 DEF KeyAt
      <3> QED BY <3>1
    <2> QED BY <2>1, <2>2
  <1>9. b + t + 1 <= (IF k.kv # NoKv THEN k.kv.length + k.n ELSE k.n)
    BY <1>1, <1>5, <1>6, <1>7
  <1> QED BY <1>3, <1>4, <1>5, <1>7, <1>8, <1>9 DEF Attended

\* Row t of what a kernel leaves, where it was given what it is meant to be given.
LEMMA ValueIs ==
  ASSUME WorkInv, RuntimesOK, NEW r \in Alive, NEW k, IsOf(k, r), k.base \in Nat, ShapeOK(k.op),
         StoresRows(k), NEW A, Holds(A), Fed(k, A), NEW t \in 0 .. k.n - 1,
         mem[rt[r].mem][rt[r].at["inv_freq"]] = Row("freq", 0, 0, 0)
  PROVE  Value(k, t) = TokenRow(Outcome(k, A), t)
  <1>0. HoldsRows(rt[r], A)
    BY DEF Holds
  <1>1. PICK from, to, l, pos : from = k.op.from /\ to = k.op.to /\ l = k.layer /\ pos = k.base + t
    OBVIOUS
  <1>2. ASSUME k.op.kind \in {"map", "rope", "quant", "act", "add"}
        PROVE  RowAt(k.ws.mem, BufferAt(k, k.op.src, t), Width[k.op.src]) = Row(from, l, k.txt, pos)
    <2>1. k.op.src \in Buffers /\ A[k.op.src] = Left(k, from, l)
      BY <1>1, <1>2 DEF ShapeOK, Fed
    <2> QED BY <1>0, <1>1, <2>1, RowGiven
  <1>3. \A a, m, x, p : /\ Row(a, m, x, p).at = a /\ Row(a, m, x, p).layer = m
                        /\ Row(a, m, x, p).txt = x /\ Row(a, m, x, p).pos = p
                        /\ \A b : [Row(a, m, x, p) EXCEPT !.at = b] = Row(b, m, x, p)
    BY DEF Row
  <1>4. \A a, m : TokenRow(Left(k, a, m), t) = Row(a, m, k.txt, pos)
    BY <1>1 DEF TokenRow, Left
  <1>5. Advance(k, Row(from, l, k.txt, pos)) = Row(to, l, k.txt, pos)
    BY <1>1, <1>3 DEF Advance
  <1>6. CASE k.op.kind = "quant"
    <2>1. Outcome(k, A) = Quantised(k)
      BY <1>6 DEF Outcome
    <2>2. TokenRow(Quantised(k), t) = Row(from, l, k.txt, pos)
      BY <1>1 DEF TokenRow, Quantised
    <2> QED BY <1>2, <1>6, <2>1, <2>2 DEF Value
  <1>7. CASE k.op.kind = "embed"
    <2>1. Outcome(k, A) = Left(k, "in", 0)
      BY <1>7 DEF Outcome
    <2>2. Value(k, t) = Row("in", 0, k.txt, k.base + t)
      BY <1>7 DEF Value, Computed
    <2> QED BY <1>1, <1>4, <2>1, <2>2
  <1>8. CASE k.op.kind \in {"map", "rope", "mul", "attn", "act"}
    <2>1. Outcome(k, A) = Left(k, to, l)
      BY <1>1, <1>8 DEF Outcome
    <2>2. Value(k, t) = Row(to, l, k.txt, pos)
      <3>1. CASE k.op.kind = "map"
        <4>1. Value(k, t) = Advance(k, RowAt(k.ws.mem, BufferAt(k, k.op.src, t), Width[k.op.src]))
          BY <3>1, Widths DEF Value, Computed, ShapeOK
        <4> QED BY <1>2, <1>5, <3>1, <4>1
      <3>2. CASE k.op.kind = "rope"
        <4>1. k.op.src # "none"
          BY <3>2, Widths DEF ShapeOK
        <4>2. mem[k.ws.mem][k.ws.at["inv_freq"]].at = "freq"
          BY <1>3 DEF IsOf
        <4>3. PICK v : v = RowAt(k.ws.mem, BufferAt(k, k.op.src, t), Width[k.op.src])
          OBVIOUS
        <4>4. v = Row(from, l, k.txt, pos) /\ v.pos = pos
          BY <1>2, <1>3, <3>2, <4>3
        <4>5. Value(k, t) = IF mem[k.ws.mem][k.ws.at["inv_freq"]].at = "freq" /\ v.pos = k.base + t
                            THEN Advance(k, v) ELSE Junk
          BY <3>2, <4>1, <4>3 DEF Value, Computed
        <4> QED BY <1>1, <1>5, <4>2, <4>4, <4>5
      <3>3. CASE k.op.kind = "mul"
        <4>1. A["arena"] = Quantised(k)
          BY <3>3 DEF Fed
        <4>2. RowAt(k.arena.mem, k.arena.lo + t * Padded(Width[k.op.src]), Padded(Width[k.op.src]))
                 = Row(from, l, k.txt, pos)
          BY <1>0, <1>1, <4>1, StageGiven
        <4>3. Value(k, t) = Advance(k, RowAt(k.arena.mem, k.arena.lo + t * Padded(Width[k.op.src]),
                                             Padded(Width[k.op.src])))
          BY <3>3 DEF Value, Computed
        <4> QED BY <1>5, <4>2, <4>3
      <3>4. CASE k.op.kind = "attn"
        <4>1. Value(k, t) = Attended(k, t) /\ to = "attn"
          BY <1>1, <3>4 DEF Value, Computed, ShapeOK
        <4>2. Attended(k, t) = Row("attn", k.layer, k.txt, k.base + t)
          BY <3>4, AttentionIs
        <4> QED BY <1>1, <4>1, <4>2
      <3>5. CASE k.op.kind = "act"
        <4>1. k.op.src # "none" /\ k.op.dst # "none" /\ k.op.dst \in Buffers /\ to = "act"
          BY <1>1, <3>5, Widths DEF ShapeOK
        <4>2. A[k.op.dst] = Left(k, "gate", l)
          BY <1>1, <3>5 DEF Fed
        <4>3. PICK v, w : /\ v = RowAt(k.ws.mem, BufferAt(k, k.op.dst, t), Width[k.op.dst])
                          /\ w = RowAt(k.ws.mem, BufferAt(k, k.op.src, t), Width[k.op.src])
          OBVIOUS
        <4>4. v = Row("gate", l, k.txt, pos)
          BY <1>0, <1>1, <4>1, <4>2, <4>3, RowGiven
        <4>5. w = Row(from, l, k.txt, pos)
          BY <1>2, <3>5, <4>3
        <4>6. Value(k, t) = Joined(k, v, w, "gate", Row("act", k.layer, w.txt, w.pos))
          BY <3>5, <4>1, <4>3 DEF Value, Computed
        <4>7. /\ v.at = "gate" /\ v.layer = l /\ v.txt = k.txt /\ v.pos = pos
              /\ w.at = from /\ w.layer = l /\ w.txt = k.txt /\ w.pos = pos
          BY <1>3, <4>4, <4>5
        <4> QED BY <1>1, <4>1, <4>6, <4>7 DEF Joined
      <3> QED BY <1>8, <3>1, <3>2, <3>3, <3>4, <3>5
    <2> QED BY <1>4, <2>1, <2>2
  <1>9. CASE k.op.kind = "add"
    <2>1. PICK h, m : h = (IF to = "mid" THEN "in" ELSE "mid") /\ m = (IF to = "in" THEN l + 1 ELSE l)
      OBVIOUS
    <2>2. Outcome(k, A) = Left(k, to, m)
      BY <1>1, <1>9, <2>1 DEF Outcome
    <2>3. k.op.src # "none" /\ k.op.dst # "none" /\ k.op.dst \in Buffers
      BY <1>9, Widths DEF ShapeOK
    <2>4. A[k.op.dst] = Left(k, h, l)
      BY <1>1, <1>9, <2>1 DEF Fed
    <2>5. PICK v, w : /\ v = RowAt(k.ws.mem, BufferAt(k, k.op.dst, t), Width[k.op.dst])
                      /\ w = RowAt(k.ws.mem, BufferAt(k, k.op.src, t), Width[k.op.src])
      OBVIOUS
    <2>6. v = Row(h, l, k.txt, pos)
      BY <1>0, <1>1, <2>3, <2>4, <2>5, RowGiven
    <2>7. w = Row(from, l, k.txt, pos)
      BY <1>2, <1>9, <2>5
    <2>8. Value(k, t) = Joined(k, v, w, h, Row(k.op.to, m, w.txt, w.pos))
      BY <1>1, <1>9, <2>1, <2>3, <2>5 DEF Value, Computed
    <2>9. /\ v.at = h /\ v.layer = l /\ v.txt = k.txt /\ v.pos = pos
          /\ w.at = from /\ w.layer = l /\ w.txt = k.txt /\ w.pos = pos
      BY <1>3, <2>6, <2>7
    <2>10. Value(k, t) = Row(to, m, k.txt, pos)
      BY <1>1, <2>8, <2>9 DEF Joined
    <2> QED BY <1>4, <2>2, <2>10
  <1> QED BY <1>6, <1>7, <1>8, <1>9 DEF ShapeOK, StoresRows, Kinds

-----------------------------------------------------------------------------
(* What memory holds when a kernel has run.                                *)

FreqIn(r) == mem[rt[r].mem][rt[r].at["inv_freq"]] = Row("freq", 0, 0, 0)

\* Rows stay where their slice does.
LEMMA RowsStay ==
  ASSUME WorkInv, RuntimesOK, NEW r \in Alive, NEW p \in RowPlaces, NEW w, w.n \in 0 .. rt[r].tokens,
         p = "arena" => w.src \in Products,
         RowsAre(rt[r].mem, rt[r].at[p], Stride(p, w), w),
         \A c \in rt[r].at[p] .. rt[r].at[p] + SliceSize(rt[r].tokens, global.bytes, p) - 1 :
             mem'[rt[r].mem][c] = mem[rt[r].mem][c],
         KeepsRuntimes
  PROVE  RowsAre(rt[r].mem, rt[r].at[p], Stride(p, w), w)'
  <1>1. PICK m, lo, s, size : /\ m = rt[r].mem /\ lo = rt[r].at[p] /\ s = Stride(p, w)
                              /\ size = SliceSize(rt[r].tokens, global.bytes, p)
    OBVIOUS
  <1>2. ASSUME NEW t \in 0 .. w.n - 1, NEW y \in 0 .. s - 1
        PROVE  mem'[m][lo + (t * s + y)] = TokenRow(w, t)
    <2>1. lo + (t * s + y) \in lo .. lo + size - 1
      BY <1>1, RowsWithin
    <2>2. mem[m][lo + (t * s + y)] = TokenRow(w, t)
      BY <1>1 DEF RowsAre
    <2> QED BY <1>1, <2>1, <2>2
  <1>3. rt'[r].mem = m /\ rt'[r].at[p] = lo /\ Stride(p, w)' = s
    BY <1>1 DEF KeepsRuntimes, Stride
  <1> QED BY <1>2, <1>3 DEF RowsAre, TokenRow

LEMMA AfterIs ==
  ASSUME NEW k, ShapeOK(k.op), NEW A
  PROVE  /\ \A p \in Places : p # Target(k) => After(k, A)[p] = A[p]
         /\ StoresRows(k) => After(k, A)[Target(k)] = Outcome(k, A)
         /\ StoresRows(k) => Outcome(k, A).n = k.n
         /\ k.op.kind = "quant" => Outcome(k, A) = Quantised(k)
         /\ k.op.kind = "append" => After(k, A)["kv"] = Outcome(k, A)
         /\ k.op.kind = "last" => After(k, A)["out"] = Left(k, "final", k.layer)
  <1>1. \A p \in Places : p # Target(k) => After(k, A)[p] = A[p]
    BY DEF After
  <1>2. StoresRows(k) => After(k, A)[Target(k)] = Outcome(k, A)
    BY TargetsAre DEF After
  <1>3. \A at, l : Left(k, at, l).n = k.n
    BY DEF Left
  <1>4. Quantised(k).n = k.n
    BY DEF Quantised
  <1>5. ASSUME StoresRows(k) PROVE Outcome(k, A).n = k.n
    <2>1. CASE k.op.kind = "quant"
      BY <1>4, <2>1 DEF Outcome
    <2>2. CASE k.op.kind = "embed"
      BY <1>3, <2>2 DEF Outcome
    <2>3. CASE k.op.kind \notin {"quant", "embed"}
      BY <1>3, <1>5, <2>3 DEF Outcome, StoresRows
    <2> QED BY <2>1, <2>2, <2>3
  <1>6. k.op.kind = "quant" => Outcome(k, A) = Quantised(k)
    BY DEF Outcome
  <1>7. k.op.kind = "append" => After(k, A)["kv"] = Outcome(k, A)
    BY TargetsAre DEF After, Places
  <1>8. k.op.kind = "last" => After(k, A)["out"] = Left(k, "final", k.layer)
    BY TargetsAre DEF After, Places, Outcome
  <1> QED BY <1>1, <1>2, <1>5, <1>6, <1>7, <1>8

\* The table of the rotation is no row's.
LEMMA FreqStays ==
  ASSUME WorkInv, RuntimesOK, NEW r \in Alive, KeepsRuntimes, FreqIn(r), NEW p \in Names, p # "inv_freq",
         \A c \in DOMAIN mem[rt[r].mem] :
             c \notin rt[r].at[p] .. rt[r].at[p] + SliceSize(rt[r].tokens, global.bytes, p) - 1
                => mem'[rt[r].mem][c] = mem[rt[r].mem][c]
  PROVE  FreqIn(r)'
  <1>1. PICK m, lo, size, c : /\ m = rt[r].mem /\ lo = rt[r].at[p] /\ c = rt[r].at["inv_freq"]
                              /\ size = SliceSize(rt[r].tokens, global.bytes, p)
    OBVIOUS
  <1>2. "inv_freq" \in Names
    BY DEF Names
  <1>3. /\ c \in Nat /\ c .. c + 1 - 1 \subseteq DOMAIN mem[m]
        /\ \A x \in c .. c + 1 - 1 : x \notin lo .. lo + size - 1
    BY <1>1, <1>2, PlacesApart
  <1>4. c \in c .. c + 1 - 1
    BY <1>3
  <1>5. mem'[m][c] = mem[m][c]
    BY <1>1, <1>3, <1>4
  <1>6. rt'[r].mem = m /\ rt'[r].at["inv_freq"] = c
    BY <1>1 DEF KeepsRuntimes
  <1> QED BY <1>1, <1>5, <1>6 DEF FreqIn, Row

\* The kernels that leave rows in the workspace.
LEMMA RowsAfter ==
  ASSUME WorkInv, RuntimesOK, NEW r \in Alive, NEW k, IsOf(k, r), k.base \in Nat, ShapeOK(k.op),
         StoresRows(k), NEW A, Holds(A), Fed(k, A), FreqIn(r), mem' = Effect(k),
         KeepsRuntimes, rt'[r].out = rt[r].out
  PROVE  HoldsRows(rt[r], After(k, A))' /\ FreqIn(r)'
  <1>0. HoldsRows(rt[r], A)
    BY DEF Holds
  <1>1. PICK m, at, T, g, q, s : /\ m = rt[r].mem /\ at = rt[r].at /\ T = rt[r].tokens
                                 /\ g = global.bytes /\ q = Target(k) /\ s = Stride(q, Quantised(k))
    OBVIOUS
  <1>2. PICK B : B = After(k, A)
    OBVIOUS
  <1>3. rt'[r].mem = m /\ rt'[r].at = at /\ rt'[r].tokens = T
    BY <1>1 DEF KeepsRuntimes
  <1>4. /\ \A c \in DOMAIN mem[m] : c \notin at[q] .. at[q] + SliceSize(T, g, q) - 1 => mem'[m][c] = mem[m][c]
        /\ \A t \in 0 .. k.n - 1 : \A y \in 0 .. s - 1 : mem'[m][at[q] + (t * s + y)] = Value(k, t)
    BY <1>1, RowsStored
  <1>5. q \in RowPlaces /\ q \in Places /\ q # "arena" => k.op.kind # "quant"
    BY <1>1, TargetsAre
  <1>6. q \in RowPlaces /\ q \in Names /\ RowPlaces \subseteq Names /\ RowPlaces \subseteq Places
        /\ q # "inv_freq" /\ q # "out" /\ "out" \in Places
    BY <1>1, TargetsAre, Widths DEF RowPlaces, Names, Places
  <1>7. B[q] = Outcome(k, A) /\ B[q].n = k.n /\ k.n \in 1 .. T
    BY <1>1, <1>2, AfterIs DEF IsOf
  <1>8. q = "arena" => k.op.kind = "quant" /\ B[q] = Quantised(k) /\ k.op.src \in Products
    BY <1>1, <1>7, TargetsAre, AfterIs DEF ShapeOK
  <1>9. Stride(q, B[q]) = s
    BY <1>1, <1>8 DEF Stride
  <1>10. \A p \in RowPlaces \cup {"out"} : p # q => B[p] = A[p]
    BY <1>1, <1>2, <1>6, AfterIs
  <1>11. ASSUME NEW p \in RowPlaces
         PROVE  B[p].n \in 0 .. T /\ RowsAre(rt[r].mem, rt[r].at[p], Stride(p, B[p]), B[p])'
    <2>1. CASE p = q
      <3>1. B[p].n \in 0 .. T
        BY <1>7, <2>1
      <3>2. ASSUME NEW t \in 0 .. k.n - 1 PROVE Value(k, t) = TokenRow(B[q], t)
        BY <1>7, ValueIs DEF FreqIn
      <3>3. \A t \in 0 .. k.n - 1 : \A y \in 0 .. s - 1 : mem'[m][at[q] + (t * s + y)] = TokenRow(B[q], t)
        BY <1>4, <3>2
      <3> QED BY <1>3, <1>7, <1>9, <2>1, <3>1, <3>3 DEF RowsAre
    <2>2. CASE p # q
      <3>1. B[p] = A[p]
        BY <1>10, <2>2
      <3>2. PICK w : w = A[p]
        OBVIOUS
      <3>3. w.n \in 0 .. rt[r].tokens /\ RowsAre(rt[r].mem, rt[r].at[p], Stride(p, w), w)
            /\ (p = "arena" => w.src \in Products)
        BY <1>0, <3>2 DEF HoldsRows
      <3>4. \A c \in at[p] .. at[p] + SliceSize(T, g, p) - 1 : mem'[m][c] = mem[m][c]
        <4>1. /\ \A c \in at[p] .. at[p] + SliceSize(T, g, p) - 1 :
                     c \notin at[q] .. at[q] + SliceSize(T, g, q) - 1
              /\ at[p] .. at[p] + SliceSize(T, g, p) - 1 \subseteq DOMAIN mem[m]
          BY <1>1, <1>6, <2>2, PlacesApart
        <4> QED BY <1>4, <4>1
      <3>5. RowsAre(rt[r].mem, rt[r].at[p], Stride(p, w), w)'
        BY <1>1, <3>3, <3>4, RowsStay
      <3> QED BY <1>1, <3>1, <3>2, <3>3, <3>5
    <2> QED BY <2>1, <2>2
  <1>12. B["arena"].src \in Products
    <2>1. CASE q = "arena"
      BY <1>8, <2>1 DEF Quantised
    <2>2. CASE q # "arena"
      BY <1>0, <1>10, <2>2 DEF RowPlaces, HoldsRows
    <2> QED BY <2>1, <2>2
  <1>13. B["out"].n # 0 => rt'[r].out = TokenRow(B["out"], B["out"].n - 1)
    BY <1>0, <1>6, <1>10 DEF HoldsRows
  <1>14. HoldsRows(rt[r], B)'
    <2>1. \A p \in RowPlaces : B[p].n \in 0 .. rt[r].tokens'
      BY <1>3, <1>11
    <2>2. \A p \in RowPlaces : RowsAre(rt[r].mem, rt[r].at[p], Stride(p, B[p]), B[p])'
      BY <1>11
    <2> QED BY <1>12, <1>13, <2>1, <2>2 DEF HoldsRows, TokenRow, Row
  <1>15. FreqIn(r)'
    <2>1. \A c \in DOMAIN mem[rt[r].mem] :
             c \notin rt[r].at[q] .. rt[r].at[q] + SliceSize(rt[r].tokens, global.bytes, q) - 1
                => mem'[rt[r].mem][c] = mem[rt[r].mem][c]
      BY <1>1, <1>4
    <2>2. q \in Names
      BY <1>6
    <2>3. q # "inv_freq"
      BY <1>6
    <2> QED BY <2>1, <2>2, <2>3, FreqStays
  <1> QED BY <1>2, <1>14, <1>15

\* Where rows of a cache are.
LEMMA CacheRowIs ==
  ASSUME NEW kv, kv.capacity \in Nat \ {0}, NEW which \in {"k", "v"}, NEW l \in Nat, l < Layers,
         NEW j \in Nat, NEW n \in Nat, j + n <= kv.capacity
  PROVE  /\ CacheRow(kv, which, l, j) \in Nat /\ CacheRow(kv, which, l, j) + n <= 2 * Layers * kv.capacity
         /\ \A t \in Nat : CacheRow(kv, which, l, j + t) = CacheRow(kv, which, l, j) + t
         /\ 2 * Layers * kv.capacity \in Nat
  <1>1. PICK m, cap : m = Layers /\ cap = kv.capacity
    OBVIOUS
  <1>2. m \in Nat /\ l < m /\ cap \in Nat \ {0} /\ j + n <= cap
    BY <1>1, Constants
  <1>3. l * cap \in Nat /\ m * cap \in Nat \ {0} /\ l * cap + j + n <= m * cap
        /\ 2 * m * cap = m * cap + m * cap
    BY <1>2, RowsLie
  <1>4. PICK a, b : a = l * cap /\ b = m * cap
    OBVIOUS
  <1>5. a \in Nat /\ b \in Nat /\ a + j + n <= b
    BY <1>3, <1>4
  <1>6. PICK o : o = (IF which = "k" THEN 0 ELSE b)
    OBVIOUS
  <1>7. o \in Nat /\ o <= b
    BY <1>5, <1>6
  <1>8. \A i : CacheRow(kv, which, l, i) = o + a + i
    BY <1>1, <1>4, <1>6 DEF CacheRow
  <1>9. o + a + j \in Nat /\ (o + a + j) + n <= b + b /\ \A t \in Nat : o + a + (j + t) = (o + a + j) + t
    BY <1>5, <1>7
  <1>10. 2 * m * cap \in Nat /\ b + b = 2 * m * cap
    BY <1>3, <1>4, <1>5
  <1> QED BY <1>1, <1>8, <1>9, <1>10

LEMMA AppendIs ==
  ASSUME DOMAIN mem = Addresses, NEW k, k.op.kind = "append", k.op.src \in {"k", "v"},
         k.layer \in Nat, k.layer < Layers, HasRoom(k), mem' = Effect(k)
  PROVE  /\ \A a \in Addresses \ {k.kv.mem} : mem'[a] = mem[a]
         /\ DOMAIN mem'[k.kv.mem] = DOMAIN mem[k.kv.mem]
         /\ \A c \in DOMAIN mem[k.kv.mem] : c \notin FirstRow(k) .. FirstRow(k) + k.n - 1 =>
                mem'[k.kv.mem][c] = mem[k.kv.mem][c]
         /\ \A t \in 0 .. k.n - 1 :
                /\ FirstRow(k) + t \in DOMAIN mem[k.kv.mem]
                /\ mem'[k.kv.mem][FirstRow(k) + t] = RowAt(k.ws.mem, BufferAt(k, k.op.src, t), Width[k.op.src])
  <1>1. PICK a, lo, n, z : a = k.kv.mem /\ lo = FirstRow(k) /\ n = k.n /\ z = 2 * Layers * k.kv.capacity
    OBVIOUS
  <1>2. n \in Nat /\ a \in Addresses /\ DOMAIN mem[a] = 0 .. z - 1
    BY <1>1 DEF HasRoom
  <1>3. lo \in Nat /\ lo + n <= z /\ z \in Nat
    <2>1. k.kv.capacity \in Nat \ {0} /\ k.kv.length \in Nat /\ k.n \in Nat
          /\ k.kv.length + k.n <= k.kv.capacity
      BY DEF HasRoom
    <2>2. PICK kv, l, j, src : kv = k.kv /\ l = k.layer /\ j = k.kv.length /\ src = k.op.src
      OBVIOUS
    <2>3. kv.capacity \in Nat \ {0}
      BY <2>1, <2>2
    <2>4. l \in Nat
      BY <2>2
    <2>5. l < Layers
      BY <2>2
    <2>6. j \in Nat
      BY <2>1, <2>2
    <2>7. n \in Nat
      BY <1>2
    <2>8. j + n <= kv.capacity
      BY <1>1, <2>1, <2>2
    <2>9. src \in {"k", "v"}
      BY <2>2
    <2>10. /\ CacheRow(kv, src, l, j) \in Nat /\ CacheRow(kv, src, l, j) + n <= 2 * Layers * kv.capacity
           /\ 2 * Layers * kv.capacity \in Nat
      BY ONLY <2>3, <2>4, <2>5, <2>6, <2>7, <2>8, <2>9, CacheRowIs
    <2> QED BY <1>1, <2>2, <2>10 DEF FirstRow
  <1>4. CacheRows(k).mem = a /\ CacheRows(k).lo = lo /\ CacheRows(k).hi = lo + n
    BY <1>1 DEF CacheRows, Cells, FirstRow
  <1>5. mem' = [mem EXCEPT ![a] =
          [c \in DOMAIN @ |-> IF c \in lo .. (lo + n) - 1
                              THEN RowAt(k.ws.mem, BufferAt(k, k.op.src, c - lo), Width[k.op.src])
                              ELSE @[c]]]
    BY <1>4 DEF Effect, Fill
  <1>6. mem'[a] = [c \in DOMAIN mem[a] |-> IF c \in lo .. (lo + n) - 1
                              THEN RowAt(k.ws.mem, BufferAt(k, k.op.src, c - lo), Width[k.op.src])
                              ELSE mem[a][c]]
    BY <1>2, <1>5
  <1>7. \A b \in Addresses \ {a} : mem'[b] = mem[b]
    BY <1>5
  <1>8. ASSUME NEW t \in 0 .. n - 1
        PROVE  /\ lo + t \in DOMAIN mem[a]
               /\ mem'[a][lo + t] = RowAt(k.ws.mem, BufferAt(k, k.op.src, t), Width[k.op.src])
    <2>1. lo + t \in 0 .. z - 1 /\ lo + t \in lo .. (lo + n) - 1 /\ (lo + t) - lo = t
      BY <1>2, <1>3
    <2>2. mem'[a][lo + t] = RowAt(k.ws.mem, BufferAt(k, k.op.src, (lo + t) - lo), Width[k.op.src])
      BY <1>2, <1>6, <2>1
    <2> QED BY <1>2, <2>1, <2>2
  <1>9. DOMAIN mem'[a] = DOMAIN mem[a]
    BY <1>6, Zenon
  <1>10. \A c \in DOMAIN mem[a] : c \notin lo .. lo + n - 1 => mem'[a][c] = mem[a][c]
    <2>1. \A c : c \in lo .. (lo + n) - 1 => c \in lo .. lo + n - 1
      BY <1>2, <1>3
    <2> QED BY <1>6, <2>1
  <1> QED BY <1>1, <1>7, <1>8, <1>9, <1>10

\* The kernels that leave rows of a cache.
LEMMA KeptAfter ==
  ASSUME WorkInv, CacheInv, RuntimesOK, NEW r \in Alive, NEW k, IsOf(k, r), ShapeOK(k.op),
         k.op.kind = "append", k.layer \in Nat, k.layer < Layers, HasRoom(k),
         \E c \in Held : cache[c].mem = k.kv.mem,
         NEW A, Holds(A), Fed(k, A), mem' = Effect(k), UNCHANGED cache
  PROVE  HoldsKept(After(k, A))'
  <1>1. PICK B, a, lo : B = After(k, A) /\ a = k.kv.mem /\ lo = FirstRow(k)
    OBVIOUS
  <1>2. B["kv"] = Outcome(k, A)
    BY <1>1, AfterIs
  <1>3. PICK new : new = {<<a, lo + t, TokenRow(Left(k, k.op.from, k.layer), t)>> : t \in 0 .. k.n - 1}
    OBVIOUS
  <1>4. B["kv"] = {f \in A["kv"] : f[1] = a => f[2] \notin lo .. lo + k.n - 1} \cup new
    BY <1>1, <1>2, <1>3 DEF Outcome
  <1>5. /\ DOMAIN mem = Addresses /\ k.op.src \in {"k", "v"}
        /\ \A b \in Addresses \ {a} : mem'[b] = mem[b]
        /\ DOMAIN mem'[a] = DOMAIN mem[a]
        /\ \A c \in DOMAIN mem[a] : c \notin lo .. lo + k.n - 1 => mem'[a][c] = mem[a][c]
        /\ \A t \in 0 .. k.n - 1 :
                /\ lo + t \in DOMAIN mem[a]
                /\ mem'[a][lo + t] = RowAt(k.ws.mem, BufferAt(k, k.op.src, t), Width[k.op.src])
    BY <1>1, AppendIs DEF WorkInv, ShapeOK
  <1>6. Held' = Held /\ cache' = cache
    BY DEF Held
  <1>7. ASSUME NEW f \in A["kv"], f[1] = a => f[2] \notin lo .. lo + k.n - 1
        PROVE  /\ \E c \in Held' : f[1] = cache'[c].mem
               /\ f[2] \in DOMAIN mem'[f[1]] /\ mem'[f[1]][f[2]] = f[3]
    <2>1. (\E c \in Held : f[1] = cache[c].mem) /\ f[2] \in DOMAIN mem[f[1]] /\ mem[f[1]][f[2]] = f[3]
      BY DEF Holds, HoldsKept
    <2>0. f[1] \in Addresses
      BY <2>1 DEF CacheInv, HeldOK
    <2>2. CASE f[1] = a
      BY <1>5, <1>6, <1>7, <2>1, <2>2
    <2>3. CASE f[1] # a
      BY <1>5, <1>6, <2>0, <2>1, <2>3
    <2> QED BY <2>2, <2>3
  <1>8. ASSUME NEW f \in new
        PROVE  /\ \E c \in Held' : f[1] = cache'[c].mem
               /\ f[2] \in DOMAIN mem'[f[1]] /\ mem'[f[1]][f[2]] = f[3]
    <2>1. PICK t \in 0 .. k.n - 1 : f = <<a, lo + t, TokenRow(Left(k, k.op.from, k.layer), t)>>
      BY <1>3
    <2>2. A[k.op.src] = Left(k, k.op.from, k.layer) /\ k.op.src \in Buffers
      BY DEF Fed, ShapeOK
    <2>3. RowAt(k.ws.mem, BufferAt(k, k.op.src, t), Width[k.op.src])
            = Row(k.op.from, k.layer, k.txt, k.base + t)
      BY <2>2, RowGiven DEF Holds
    <2>4. TokenRow(Left(k, k.op.from, k.layer), t) = Row(k.op.from, k.layer, k.txt, k.base + t)
      BY DEF TokenRow, Left
    <2>5. f[1] = a /\ f[2] = lo + t /\ f[3] = Row(k.op.from, k.layer, k.txt, k.base + t)
      BY <2>1, <2>4
    <2> QED BY <1>1, <1>5, <1>6, <2>3, <2>5
  <1> QED BY <1>1, <1>4, <1>7, <1>8 DEF HoldsKept

LEMMA KeptStays ==
  ASSUME NEW A, HoldsKept(A), NEW B, B["kv"] \subseteq A["kv"],
         \A f \in B["kv"] : \E c \in Held' : f[1] = cache'[c].mem,
         \A f \in B["kv"] : mem'[f[1]] = mem[f[1]]
  PROVE  HoldsKept(B)'
  BY DEF HoldsKept

LEMMA RowsKeep ==
  ASSUME NEW r \in Alive, KeepsRuntimes, mem'[rt[r].mem] = mem[rt[r].mem], NEW A, HoldsRows(rt[r], A),
         NEW B, \A p \in RowPlaces : B[p] = A[p],
         B["out"].n # 0 => rt'[r].out = TokenRow(B["out"], B["out"].n - 1)
  PROVE  HoldsRows(rt[r], B)' /\ (FreqIn(r) => FreqIn(r)')
  <1>1. rt'[r].mem = rt[r].mem /\ rt'[r].at = rt[r].at /\ rt'[r].tokens = rt[r].tokens
    BY DEF KeepsRuntimes
  <1>2. ASSUME NEW p \in RowPlaces
        PROVE  B[p].n \in 0 .. rt[r].tokens' /\ RowsAre(rt[r].mem, rt[r].at[p], Stride(p, B[p]), B[p])'
    <2>1. A[p].n \in 0 .. rt[r].tokens /\ RowsAre(rt[r].mem, rt[r].at[p], Stride(p, A[p]), A[p])
      BY DEF HoldsRows
    <2>2. B[p] = A[p]
      OBVIOUS
    <2> QED BY <1>1, <2>1, <2>2 DEF RowsAre
  <1>3. B["arena"].src \in Products
    BY DEF HoldsRows, RowPlaces
  <1>4. HoldsRows(rt[r], B)'
    <2>1. \A p \in RowPlaces : B[p].n \in 0 .. rt[r].tokens'
      BY <1>2
    <2>2. \A p \in RowPlaces : RowsAre(rt[r].mem, rt[r].at[p], Stride(p, B[p]), B[p])'
      BY <1>2
    <2> QED BY <1>3, <2>1, <2>2 DEF HoldsRows, TokenRow, Row
  <1>5. FreqIn(r) => FreqIn(r)'
    BY <1>1 DEF FreqIn, Row
  <1> QED BY <1>4, <1>5

\* What memory holds when a kernel has run that was given what it should be.
LEMMA HoldsAfter ==
  ASSUME WorkInv, CacheInv, RuntimesOK, NEW r \in Alive, NEW k, KernelOK(k, r), ShapeOK(k.op),
         NEW A, Holds(A), Fed(k, A), FreqIn(r), mem' = Effect(k), KeepsRuntimes, UNCHANGED cache,
         rt'[r].out = IF k.op.kind = "last" THEN RowAt(k.ws.mem, BufferAt(k, "final", k.n - 1), Hidden)
                      ELSE rt[r].out
  PROVE  Holds(After(k, A))' /\ FreqIn(r)'
  <1>1. PICK B : B = After(k, A)
    OBVIOUS
  <1>2. HoldsRows(rt[r], A) /\ HoldsKept(A) /\ IsOf(k, r) /\ k.base \in Nat
    BY DEF Holds, KernelOK
  <1>3. Held' = Held /\ cache' = cache /\ Alive' = Alive /\ Alive = {r}
    BY DEF Held, KeepsRuntimes, WorkInv
  <1>4. \A f \in A["kv"] : \E c \in Held' : f[1] = cache'[c].mem
    BY <1>2, <1>3 DEF HoldsKept
  <1>5. SUFFICES HoldsRows(rt[r], B)' /\ HoldsKept(B)' /\ FreqIn(r)'
    BY <1>1, <1>3 DEF Holds, HoldsRows, HoldsKept
  <1>6. CASE StoresRows(k)
    <2>1. k.op.kind # "last" /\ Target(k) # "kv" /\ "kv" \in Places
      BY <1>6, TargetsAre DEF StoresRows, Places
    <2>2. HoldsRows(rt[r], B)' /\ FreqIn(r)'
      BY <1>1, <1>2, <1>6, <2>1, RowsAfter
    <2>3. B["kv"] = A["kv"]
      BY <1>1, <2>1, AfterIs
    <2>4. \A f \in A["kv"] : mem'[f[1]] = mem[f[1]]
      <3>1. \A a \in Addresses \ {rt[r].mem} : mem'[a] = mem[a]
        BY <1>2, <1>6, RowsStored
      <3>2. \A c \in Held : cache[c].mem \in Addresses \ {rt[r].mem}
        BY DEF CacheInv, HeldOK
      <3> QED BY <1>2, <3>1, <3>2 DEF HoldsKept
    <2>5. HoldsKept(B)'
      BY <1>2, <1>4, <2>3, <2>4, KeptStays
    <2> QED BY <2>2, <2>5
  <1>7. CASE k.op.kind = "append"
    <2>1. k.layer < Layers /\ HasRoom(k) /\ (\E c \in Held : cache[c].mem = k.kv.mem) /\ k.layer \in Nat
      BY <1>7, Constants DEF KernelOK
    <2>2. HoldsKept(B)'
      BY <1>1, <1>2, <1>7, <2>1, KeptAfter
    <2>3. \A a \in Addresses \ {k.kv.mem} : mem'[a] = mem[a]
      BY <1>7, <2>1, AppendIs DEF WorkInv, ShapeOK
    <2>4. mem'[rt[r].mem] = mem[rt[r].mem]
      BY <2>1, <2>3 DEF CacheInv, WorkInv, WorkOK
    <2>5. \A p \in RowPlaces \cup {"out"} : B[p] = A[p]
      BY <1>1, <1>7, TargetsAre, AfterIs DEF Places
    <2>6. B["out"].n # 0 => rt'[r].out = TokenRow(B["out"], B["out"].n - 1)
      BY <1>2, <1>7, <2>5 DEF HoldsRows
    <2> QED BY <1>2, <2>2, <2>4, <2>5, <2>6, RowsKeep
  <1>8. CASE k.op.kind \in {"last", "score"}
    <2>1. mem' = mem
      BY <1>8 DEF Effect
    <2>2. Target(k) \notin RowPlaces /\ Target(k) # "kv" /\ (k.op.kind = "score" => Target(k) # "out")
      BY <1>8, TargetsAre
    <2>3. (\A p \in RowPlaces \cup {"kv"} : B[p] = A[p]) /\ (k.op.kind = "score" => B["out"] = A["out"])
      BY <1>1, <2>2, AfterIs DEF Places
    <2>4. HoldsKept(B)'
      BY <1>2, <1>4, <2>1, <2>3, KeptStays
    <2>5. B["out"].n # 0 => rt'[r].out = TokenRow(B["out"], B["out"].n - 1)
      <3>1. CASE k.op.kind = "score"
        BY <1>2, <2>3, <3>1 DEF HoldsRows
      <3>2. CASE k.op.kind = "last"
        <4>1. A["final"] = Left(k, "final", k.layer)
          BY <3>2 DEF Fed, ShapeOK
        <4>2. k.n - 1 \in 0 .. k.n - 1
          <5>1. rt[r].tokens \in Nat
            BY WorkIs
          <5> QED BY <1>2, <5>1 DEF IsOf
        <4>3. "final" \in Buffers
          BY Widths
        <4>4. PICK t : t = k.n - 1
          OBVIOUS
        <4>5. RowAt(k.ws.mem, BufferAt(k, "final", t), Width["final"]) = Row("final", k.layer, k.txt, k.base + t)
          BY <1>2, <4>1, <4>2, <4>3, <4>4, RowGiven
        <4>6. rt'[r].out = Row("final", k.layer, k.txt, k.base + t)
          BY <3>2, <4>4, <4>5 DEF Width
        <4>7. B["out"] = Left(k, "final", k.layer)
          BY <1>1, <3>2, AfterIs
        <4>8. B["out"].n = k.n /\ TokenRow(B["out"], t) = Row("final", k.layer, k.txt, k.base + t)
          BY <4>7 DEF Left, TokenRow
        <4> QED BY <4>4, <4>6, <4>8
      <3> QED BY <1>8, <3>1, <3>2
    <2> QED BY <1>2, <2>1, <2>3, <2>4, <2>5, RowsKeep
  <1> QED BY <1>6, <1>7, <1>8 DEF StoresRows

-----------------------------------------------------------------------------
(* What a queue takes to what.                                             *)

LEMMA RunsNone == \A A, B : Runs(<<>>, A, B) <=> A = B
  <1> TAKE A, B
  <1>1. ASSUME A = B PROVE Runs(<<>>, A, B)
    <2> DEFINE bs == [i \in {0} |-> A]
    <2>1. bs[0] = A /\ Len(<<>>) = 0 /\ Walk(<<>>, bs)
      BY DEF Walk
    <2> HIDE DEF bs
    <2>2. Walk(<<>>, bs) /\ bs[0] = A /\ bs[Len(<<>>)] = B
      BY <1>1, <2>1
    <2> QED BY <2>2 DEF Runs
  <1>2. ASSUME Runs(<<>>, A, B) PROVE A = B
    <2>1. Len(<<>>) = 0
      OBVIOUS
    <2> QED BY <1>2, <2>1 DEF Runs
  <1> QED BY <1>1, <1>2

LEMMA RunsTail ==
  ASSUME NEW s, IsQueue(s), s # <<>>, NEW A, NEW B, Runs(s, A, B)
  PROVE  Fed(Head(s), A) /\ Runs(Tail(s), After(Head(s), A), B)
  <1>1. PICK bs : Walk(s, bs) /\ bs[0] = A /\ bs[Len(s)] = B
    BY DEF Runs
  <1>2. PICK S : s \in Seq(S)
    BY DEF IsQueue
  <1>3. PICK n : n = Len(s) - 1
    OBVIOUS
  <1>4. /\ n \in Nat /\ Len(s) = n + 1 /\ Len(Tail(s)) = n /\ Head(s) = s[1]
        /\ \A i \in 1 .. n : Tail(s)[i] = s[i + 1]
    BY <1>2, <1>3
  <1>5. Fed(s[1], bs[0]) /\ bs[1] = After(s[1], bs[0])
    <2>1. 1 \in 1 .. Len(s) /\ 1 - 1 = 0
      BY <1>4
    <2> QED BY <1>1, <2>1 DEF Walk
  <1> DEFINE cs == [i \in 0 .. n |-> bs[i + 1]]
  <1>6. cs[0] = bs[1] /\ cs[n] = bs[n + 1] /\ \A i \in 1 .. n : cs[i] = bs[i + 1] /\ cs[i - 1] = bs[i]
    <2>1. 0 \in 0 .. n /\ n \in 0 .. n /\ 0 + 1 = 1
      BY <1>4
    <2>2. \A i \in 1 .. n : i \in 0 .. n /\ i - 1 \in 0 .. n /\ (i - 1) + 1 = i
      BY <1>4
    <2> QED BY <2>1, <2>2
  <1> HIDE DEF cs
  <1>7. Walk(Tail(s), cs)
    <2> SUFFICES ASSUME NEW i \in 1 .. n
                 PROVE  Fed(Tail(s)[i], cs[i - 1]) /\ cs[i] = After(Tail(s)[i], cs[i - 1])
      BY <1>4 DEF Walk
    <2>1. i + 1 \in 1 .. Len(s) /\ (i + 1) - 1 = i
      BY <1>4
    <2>2. Fed(s[i + 1], bs[i]) /\ bs[i + 1] = After(s[i + 1], bs[i])
      <3>1. PICK j : j = i + 1
        OBVIOUS
      <3>2. Fed(s[j], bs[j - 1]) /\ bs[j] = After(s[j], bs[j - 1])
        BY <1>1, <2>1, <3>1 DEF Walk
      <3> QED BY <2>1, <3>1, <3>2
    <2> QED BY <1>4, <1>6, <2>2
  <1>8. Runs(Tail(s), bs[1], B)
    BY <1>1, <1>4, <1>6, <1>7 DEF Runs
  <1> QED BY <1>1, <1>4, <1>5, <1>8

LEMMA RunsAppend ==
  ASSUME NEW s, NEW k, IsQueue(s), IsQueue(k), NEW A, NEW B, NEW C, Runs(s, A, B), Runs(k, B, C)
  PROVE  Runs(s \o k, A, C)
  <1>1. PICK bs : Walk(s, bs) /\ bs[0] = A /\ bs[Len(s)] = B
    BY DEF Runs
  <1>2. PICK cs : Walk(k, cs) /\ cs[0] = B /\ cs[Len(k)] = C
    BY DEF Runs
  <1>3. PICK S, T : s \in Seq(S) /\ k \in Seq(T)
    BY DEF IsQueue
  <1>4. PICK U : U = S \cup T
    OBVIOUS
  <1>5. s \in Seq(U)
    BY <1>3, <1>4
  <1>6. k \in Seq(U)
    BY <1>3, <1>4
  <1>7. PICK v, n, m : v = s \o k /\ n = Len(s) /\ m = Len(k)
    OBVIOUS
  <1>8. /\ Len(v) = n + m /\ n \in Nat /\ m \in Nat
        /\ \A i \in 1 .. n : v[i] = s[i]
        /\ \A j \in 1 .. m : v[n + j] = k[j]
    BY ONLY <1>5, <1>6, <1>7, Joined2
  <1> DEFINE ds == [i \in 0 .. n + m |-> IF i <= n THEN bs[i] ELSE cs[i - n]]
  <1>9. /\ \A i \in 0 .. n : ds[i] = bs[i]
        /\ \A j \in 0 .. m : ds[n + j] = cs[j]
    <2>1. ASSUME NEW i \in 0 .. n PROVE ds[i] = bs[i]
      <3>1. i \in 0 .. n + m /\ i <= n
        BY <1>8
      <3> QED BY <3>1
    <2>2. ASSUME NEW j \in 0 .. m PROVE ds[n + j] = cs[j]
      <3>1. n + j \in 0 .. n + m /\ (n + j) - n = j /\ (n + j <= n => j = 0 /\ n + j = n)
        BY <1>8
      <3>2. CASE n + j <= n
        <4>1. ds[n + j] = bs[n]
          BY <3>1, <3>2
        <4> QED BY <1>1, <1>2, <1>7, <3>1, <3>2, <4>1
      <3>3. CASE ~(n + j <= n)
        BY <3>1, <3>3
      <3> QED BY <3>2, <3>3
    <2> QED BY <2>1, <2>2
  <1> HIDE DEF ds
  <1>10. Walk(v, ds)
    <2> SUFFICES ASSUME NEW i \in 1 .. n + m
                 PROVE  Fed(v[i], ds[i - 1]) /\ ds[i] = After(v[i], ds[i - 1])
      BY <1>8 DEF Walk
    <2>1. CASE i <= n
      <3>1. i \in 1 .. n /\ i \in 0 .. n /\ i - 1 \in 0 .. n
        BY <1>8, <2>1
      <3>2. Fed(s[i], bs[i - 1]) /\ bs[i] = After(s[i], bs[i - 1])
        BY <1>1, <1>7, <3>1 DEF Walk
      <3> QED BY <1>8, <1>9, <3>1, <3>2
    <2>2. CASE ~(i <= n)
      <3>1. PICK j : j = i - n
        OBVIOUS
      <3>2. j \in 1 .. m /\ j \in 0 .. m /\ j - 1 \in 0 .. m /\ i = n + j /\ i - 1 = n + (j - 1)
        BY <1>8, <2>2, <3>1
      <3>3. Fed(k[j], cs[j - 1]) /\ cs[j] = After(k[j], cs[j - 1])
        BY <1>2, <1>7, <3>2 DEF Walk
      <3>4. ds[i - 1] = cs[j - 1] /\ ds[i] = cs[j] /\ v[i] = k[j]
        BY <1>8, <1>9, <3>2
      <3> QED BY <3>3, <3>4
    <2> QED BY <2>1, <2>2
  <1>11. ds[0] = A /\ ds[n + m] = C
    <2>1. 0 \in 0 .. n /\ m \in 0 .. m
      BY <1>8
    <2> QED BY <1>1, <1>2, <1>7, <1>9, <2>1
  <1> QED BY <1>7, <1>8, <1>10, <1>11 DEF Runs

\* A part of a step's kernels.
LEMMA RunsPart ==
  ASSUME NEW s, IsQueue(s), NEW bs, Walk(s, bs), NEW n \in 0 .. Len(s)
  PROVE  Runs(SubSeq(s, 1, n), bs[0], bs[n])
  <1>1. PICK S : s \in Seq(S)
    BY DEF IsQueue
  <1>2. PICK p : p = SubSeq(s, 1, n)
    OBVIOUS
  <1>3. Len(s) \in Nat /\ Len(p) = n /\ n \in Nat /\ \A i \in 1 .. n : p[i] = s[i] /\ i \in 1 .. Len(s)
    BY <1>1, <1>2
  <1>4. Walk(p, bs)
    BY <1>3 DEF Walk
  <1> QED BY <1>2, <1>3, <1>4 DEF Runs

-----------------------------------------------------------------------------
(* The kernels of each step.                                               *)

LEMMA Glued == \A a, b, c : <<a>> \o <<b>> = <<a, b>> /\ <<a, b>> \o <<c>> = <<a, b, c>>
  <1> TAKE a, b, c
  <1>1. PICK S : S = {a, b, c}
    OBVIOUS
  <1>2. <<a>> \in Seq(S) /\ <<b>> \in Seq(S) /\ <<a, b>> \in Seq(S) /\ <<c>> \in Seq(S)
    BY <1>1
  <1>3. PICK u, v, w, x : u = <<a>> /\ v = <<b>> /\ w = <<a, b>> /\ x = <<c>>
    OBVIOUS
  <1>4. u \in Seq(S) /\ Len(u) = 1 /\ u[1] = a
    BY <1>2, <1>3
  <1>5. v \in Seq(S) /\ Len(v) = 1 /\ v[1] = b
    BY <1>2, <1>3
  <1>6. w \in Seq(S) /\ Len(w) = 2 /\ w[1] = a /\ w[2] = b
    BY <1>2, <1>3
  <1>7. x \in Seq(S) /\ Len(x) = 1 /\ x[1] = c
    BY <1>2, <1>3
  <1>8. u \o v = <<a, b>>
    <2>1. PICK y : y = u \o v
      OBVIOUS
    <2>2. y \in Seq(S) /\ Len(y) = 2 /\ y[1] = a /\ y[2] = b
      <3>1. u \in Seq(S)
        BY <1>4
      <3>2. v \in Seq(S)
        BY <1>5
      <3>3. /\ y \in Seq(S) /\ Len(y) = Len(u) + Len(v)
            /\ \A i \in 1 .. Len(u) : y[i] = u[i]
            /\ \A j \in 1 .. Len(v) : y[Len(u) + j] = v[j]
        BY ONLY <2>1, <3>1, <3>2, Joined2
      <3>4. 1 \in 1 .. Len(u) /\ 1 \in 1 .. Len(v) /\ Len(u) + 1 = 2
        BY <1>4, <1>5
      <3> QED BY <1>4, <1>5, <3>3, <3>4
    <2>3. \A z \in Seq(S) : Len(z) = 2 => z = <<z[1], z[2]>>
      OBVIOUS
    <2> QED BY ONLY <2>1, <2>2, <2>3
  <1>9. w \o x = <<a, b, c>>
    <2>1. PICK y : y = w \o x
      OBVIOUS
    <2>2. y \in Seq(S) /\ Len(y) = 3 /\ y[1] = a /\ y[2] = b /\ y[3] = c
      <3>1. w \in Seq(S)
        BY <1>6
      <3>2. x \in Seq(S)
        BY <1>7
      <3>3. /\ y \in Seq(S) /\ Len(y) = Len(w) + Len(x)
            /\ \A i \in 1 .. Len(w) : y[i] = w[i]
            /\ \A j \in 1 .. Len(x) : y[Len(w) + j] = x[j]
        BY ONLY <2>1, <3>1, <3>2, Joined2
      <3>4. 1 \in 1 .. Len(w) /\ 2 \in 1 .. Len(w) /\ 1 \in 1 .. Len(x) /\ Len(w) + 1 = 3
        BY <1>6, <1>7
      <3> QED BY <1>6, <1>7, <3>3, <3>4
    <2>3. \A z \in Seq(S) : Len(z) = 3 => z = <<z[1], z[2], z[3]>>
      OBVIOUS
    <2> QED BY ONLY <2>1, <2>2, <2>3
  <1> QED BY <1>3, <1>8, <1>9

LEMMA StepKernels ==
  /\ Steps["embed"] = <<Op("embed", "none", "none", "hidden", "in")>>
  /\ Steps["norm"] = <<Op("map", "hidden", "in", "normed", "normed")>>
  /\ \A s \in {"q", "k", "v"} :
        Steps[s] = <<Op("quant", "normed", "normed", s, s), Op("mul", "normed", "normed", s, s)>>
  /\ Steps["qk_norm"] = <<Op("map", "q", "q", "q", "q_norm"), Op("map", "k", "k", "k", "k_norm")>>
  /\ Steps["rope"] = <<Op("rope", "q", "q_norm", "q", "q_rope"), Op("rope", "k", "k_norm", "k", "k_rope")>>
  /\ Steps["append"] = <<Op("append", "k", "k_rope", "none", "none"), Op("append", "v", "v", "none", "none")>>
  /\ Steps["attn"] = <<Op("attn", "q", "q_rope", "attn", "attn")>>
  /\ Steps["oproj"] = <<Op("quant", "attn", "attn", "oproj", "oproj"),
                        Op("mul", "attn", "attn", "oproj", "oproj"),
                        Op("add", "oproj", "oproj", "hidden", "mid")>>
  /\ Steps["mlp_norm"] = <<Op("map", "hidden", "mid", "normed", "mlp_norm")>>
  /\ \A s \in {"gate", "up"} :
        Steps[s] = <<Op("quant", "normed", "mlp_norm", s, s), Op("mul", "normed", "mlp_norm", s, s)>>
  /\ Steps["act"] = <<Op("act", "up", "up", "gate", "act")>>
  /\ Steps["down"] = <<Op("quant", "gate", "act", "down", "down"),
                       Op("mul", "gate", "act", "down", "down"),
                       Op("add", "down", "down", "hidden", "in")>>
  /\ Steps["final_norm"] = <<Op("map", "hidden", "in", "final", "final"),
                             Op("last", "final", "final", "none", "none")>>
  /\ Steps["cand"] = <<Op("score", "none", "final", "none", "none")>>
  <1>1. \A src, from, dst, to :
           /\ Linear(src, from, dst, to) = <<Op("quant", src, from, dst, to), Op("mul", src, from, dst, to)>>
           /\ Map(src, from, dst, to) = <<Op("map", src, from, dst, to)>>
           /\ Add(src, from, to) = <<Op("add", src, from, "hidden", to)>>
    BY DEF Linear, Map, Add
  <1>2. /\ Steps["embed"] = <<Op("embed", "none", "none", "hidden", "in")>>
        /\ Steps["norm"] = Map("hidden", "in", "normed", "normed")
        /\ Steps["q"] = Linear("normed", "normed", "q", "q")
        /\ Steps["k"] = Linear("normed", "normed", "k", "k")
        /\ Steps["v"] = Linear("normed", "normed", "v", "v")
        /\ Steps["qk_norm"] = Map("q", "q", "q", "q_norm") \o Map("k", "k", "k", "k_norm")
        /\ Steps["rope"] = <<Op("rope", "q", "q_norm", "q", "q_rope"), Op("rope", "k", "k_norm", "k", "k_rope")>>
        /\ Steps["append"] = <<Op("append", "k", "k_rope", "none", "none"), Op("append", "v", "v", "none", "none")>>
        /\ Steps["attn"] = <<Op("attn", "q", "q_rope", "attn", "attn")>>
    BY DEF Steps
  <1>3. /\ Steps["oproj"] = Linear("attn", "attn", "oproj", "oproj") \o Add("oproj", "oproj", "mid")
        /\ Steps["mlp_norm"] = Map("hidden", "mid", "normed", "mlp_norm")
        /\ Steps["gate"] = Linear("normed", "mlp_norm", "gate", "gate")
        /\ Steps["up"] = Linear("normed", "mlp_norm", "up", "up")
        /\ Steps["act"] = <<Op("act", "up", "up", "gate", "act")>>
        /\ Steps["down"] = Linear("gate", "act", "down", "down") \o Add("down", "down", "in")
        /\ Steps["final_norm"] = Map("hidden", "in", "final", "final") \o <<Op("last", "final", "final", "none", "none")>>
        /\ Steps["cand"] = <<Op("score", "none", "final", "none", "none")>>
    BY DEF Steps
  <1>0. \A src, from, dst, to, f, h :
           Linear(src, from, dst, to) \o Add(dst, f, h)
              = <<Op("quant", src, from, dst, to), Op("mul", src, from, dst, to), Op("add", dst, f, "hidden", h)>>
    <2> TAKE src, from, dst, to, f, h
    <2>1. PICK a, b, c : /\ a = Op("quant", src, from, dst, to) /\ b = Op("mul", src, from, dst, to)
                         /\ c = Op("add", dst, f, "hidden", h)
      OBVIOUS
    <2>2. Linear(src, from, dst, to) = <<a, b>> /\ Add(dst, f, h) = <<c>>
      BY <1>1, <2>1
    <2> QED BY ONLY <2>1, <2>2, Glued
  <1>4. Steps["norm"] = <<Op("map", "hidden", "in", "normed", "normed")>>
    BY <1>1, <1>2
  <1>5. \A s \in {"q", "k", "v"} :
          Steps[s] = <<Op("quant", "normed", "normed", s, s), Op("mul", "normed", "normed", s, s)>>
    BY <1>1, <1>2
  <1>6. Steps["qk_norm"] = <<Op("map", "q", "q", "q", "q_norm"), Op("map", "k", "k", "k", "k_norm")>>
    BY <1>1, <1>2, Glued
  <1>7. Steps["oproj"] = <<Op("quant", "attn", "attn", "oproj", "oproj"),
                           Op("mul", "attn", "attn", "oproj", "oproj"),
                           Op("add", "oproj", "oproj", "hidden", "mid")>>
    BY <1>0, <1>3
  <1>8. Steps["mlp_norm"] = <<Op("map", "hidden", "mid", "normed", "mlp_norm")>>
    BY <1>1, <1>3
  <1>9. \A s \in {"gate", "up"} :
        Steps[s] = <<Op("quant", "normed", "mlp_norm", s, s), Op("mul", "normed", "mlp_norm", s, s)>>
    BY <1>1, <1>3
  <1>10. Steps["down"] = <<Op("quant", "gate", "act", "down", "down"),
                           Op("mul", "gate", "act", "down", "down"),
                           Op("add", "down", "down", "hidden", "in")>>
    BY <1>0, <1>3
  <1>11. Steps["final_norm"] = <<Op("map", "hidden", "in", "final", "final"),
                                 Op("last", "final", "final", "none", "none")>>
    BY <1>1, <1>3, Glued
  <1> QED BY <1>2, <1>3, <1>4, <1>5, <1>6, <1>7, <1>8, <1>9, <1>10, <1>11

LEMMA OpFields ==
  \A kind, src, from, dst, to :
      LET o == Op(kind, src, from, dst, to) IN
      o.kind = kind /\ o.src = src /\ o.from = from /\ o.dst = dst /\ o.to = to
  BY DEF Op

LEMMA OpsShape == \A o : IsOp(o) => ShapeOK(o)
  <1>1. ASSUME NEW src \in Products, NEW from, NEW dst \in Buffers, NEW to
        PROVE  ShapeOK(Op("quant", src, from, dst, to)) /\ ShapeOK(Op("mul", src, from, dst, to))
    <2>1. src \in Buffers
      BY Widths DEF Products
    <2>2. \A kind \in {"quant", "mul"} : ShapeOK(Op(kind, src, from, dst, to))
      BY <2>1, OpFields DEF ShapeOK, Kinds
    <2> QED BY <2>2
  <1>2. ASSUME NEW kind \in {"map", "rope"}, NEW src \in Buffers, NEW from, NEW dst \in Buffers, NEW to
        PROVE  ShapeOK(Op(kind, src, from, dst, to))
    BY OpFields DEF ShapeOK, Kinds
  <1>3. ASSUME NEW src \in Buffers, NEW from, NEW dst \in Buffers, NEW to \in {"in", "mid"}
        PROVE  ShapeOK(Op("add", src, from, dst, to))
    BY OpFields DEF ShapeOK, Kinds
  <1>4. /\ ShapeOK(Op("embed", "none", "none", "hidden", "in"))
        /\ ShapeOK(Op("append", "k", "k_rope", "none", "none")) /\ ShapeOK(Op("append", "v", "v", "none", "none"))
        /\ ShapeOK(Op("attn", "q", "q_rope", "attn", "attn")) /\ ShapeOK(Op("act", "up", "up", "gate", "act"))
        /\ ShapeOK(Op("last", "final", "final", "none", "none"))
        /\ ShapeOK(Op("score", "none", "final", "none", "none"))
    BY OpFields, Widths DEF ShapeOK, Kinds
  <1>5. "normed" \in Products /\ "attn" \in Products /\ "gate" \in Products
    BY DEF Products
  <1>6. {"hidden", "normed", "q", "k", "v", "attn", "oproj", "gate", "up", "down", "final"} \subseteq Buffers
    BY Widths
  <1> SUFFICES ASSUME NEW s \in StepNames, NEW i \in DOMAIN Steps[s] PROVE ShapeOK(Steps[s][i])
    BY DEF IsOp
  <1>7. \A a : DOMAIN <<a>> = {1} /\ <<a>>[1] = a
    OBVIOUS
  <1>8. \A a, b : DOMAIN <<a, b>> = {1, 2} /\ <<a, b>>[1] = a /\ <<a, b>>[2] = b
    OBVIOUS
  <1>9. \A a, b, c : DOMAIN <<a, b, c>> = {1, 2, 3} /\ <<a, b, c>>[1] = a /\ <<a, b, c>>[2] = b /\ <<a, b, c>>[3] = c
    OBVIOUS
  <1>10. CASE s \in {"embed", "append", "attn", "act", "cand"}
    BY <1>4, <1>7, <1>8, <1>10, StepKernels
  <1>11. CASE s \in {"norm", "mlp_norm", "qk_norm", "rope"}
    BY <1>2, <1>6, <1>7, <1>8, <1>11, StepKernels
  <1>12. CASE s \in {"q", "k", "v", "gate", "up"}
    <2>1. PICK from : Steps[s] = <<Op("quant", "normed", from, s, s), Op("mul", "normed", from, s, s)>>
      BY <1>12, StepKernels
    <2> QED BY <1>1, <1>5, <1>6, <1>8, <1>12, <2>1
  <1>13. CASE s \in {"oproj", "down"}
    <2>1. PICK src, from, h : src \in Products /\ h \in {"in", "mid"} /\
             Steps[s] = <<Op("quant", src, from, s, s), Op("mul", src, from, s, s), Op("add", s, s, "hidden", h)>>
      <3>1. CASE s = "oproj"
        BY <1>5, <3>1, StepKernels
      <3>2. CASE s = "down"
        BY <1>5, <3>2, StepKernels
      <3> QED BY <1>13, <3>1, <3>2
    <2> QED BY <1>1, <1>3, <1>6, <1>9, <1>13, <2>1
  <1>14. CASE s = "final_norm"
    BY <1>2, <1>4, <1>6, <1>8, <1>14, StepKernels
  <1> QED BY <1>10, <1>11, <1>12, <1>13, <1>14, StepsAre

-----------------------------------------------------------------------------
(* What the kernels that are launched take from and leave to each other.   *)

Launched(o) ==
    [op |-> o, layer |-> Head(call.todo)[2], n |-> call.n, base |-> call.base,
     txt |-> call.txt, ws |-> [mem |-> rt[call.r].mem, at |-> rt[call.r].at],
     kv |-> call.kv, arena |-> global.arena]

\* B and what one place holds instead.
Sets(B, p, v, D) == \A q \in Places : D[q] = IF q = p THEN v ELSE B[q]

LEMMA LaunchedIs ==
  \A o : LET k == Launched(o) IN
         /\ k.op = o /\ k.layer = Head(call.todo)[2] /\ k.n = call.n /\ k.base = call.base
         /\ k.txt = call.txt /\ k.kv = call.kv
         /\ \A at, l : Left(k, at, l) = Left(call, at, l)
  <1> TAKE o
  <1>0. PICK k : k = Launched(o)
    OBVIOUS
  <1>1. /\ k.op = o /\ k.layer = Head(call.todo)[2] /\ k.n = call.n /\ k.base = call.base
        /\ k.txt = call.txt /\ k.kv = call.kv
    BY <1>0 DEF Launched
  <1>2. \A at, l : Left(k, at, l) = Left(call, at, l)
    BY <1>1 DEF Left
  <1> QED BY <1>0, <1>1, <1>2

LEMMA PlacesAre ==
  Buffers \subseteq Places /\ "arena" \in Places /\ "out" \in Places /\ "kv" \in Places
  BY DEF Places, RowPlaces

LEMMA AfterMap ==
  ASSUME NEW kind \in {"map", "rope"}, NEW src, NEW from, NEW dst \in Buffers, NEW to, NEW B,
         B[src] = Left(call, from, Head(call.todo)[2])
  PROVE  LET k == Launched(Op(kind, src, from, dst, to)) IN
         Fed(k, B) /\ Sets(B, dst, Left(call, to, Head(call.todo)[2]), After(k, B))
  <1>1. PICK o, k : o = Op(kind, src, from, dst, to) /\ k = Launched(o)
    OBVIOUS
  <1>2. o.kind = kind /\ o.src = src /\ o.from = from /\ o.dst = dst /\ o.to = to
    BY <1>1, OpFields
  <1>3. k.op = o /\ k.layer = Head(call.todo)[2] /\ \A at, l : Left(k, at, l) = Left(call, at, l)
    BY <1>1, LaunchedIs
  <1>4. Fed(k, B)
    BY <1>2, <1>3 DEF Fed
  <1>5. Target(k) = dst /\ Outcome(k, B) = Left(call, to, Head(call.todo)[2])
    BY <1>2, <1>3 DEF Target, Outcome
  <1> QED BY <1>1, <1>4, <1>5 DEF Sets, After

LEMMA AfterLinear ==
  ASSUME NEW src \in Buffers, NEW from, NEW dst \in Buffers, NEW to, NEW B,
         B[src] = Left(call, from, Head(call.todo)[2])
  PROVE  LET k == Launched(Op("quant", src, from, dst, to))
             j == Launched(Op("mul", src, from, dst, to)) IN
         /\ Fed(k, B) /\ Sets(B, "arena", Quantised(k), After(k, B))
         /\ Fed(j, After(k, B))
         /\ Sets(After(k, B), dst, Left(call, to, Head(call.todo)[2]), After(j, After(k, B)))
  <1>1. PICK o, k, p, j : /\ o = Op("quant", src, from, dst, to) /\ k = Launched(o)
                          /\ p = Op("mul", src, from, dst, to) /\ j = Launched(p)
    OBVIOUS
  <1>2. /\ o.kind = "quant" /\ o.src = src /\ o.from = from /\ o.dst = dst /\ o.to = to
        /\ p.kind = "mul" /\ p.src = src /\ p.from = from /\ p.dst = dst /\ p.to = to
    BY <1>1, OpFields
  <1>3. /\ k.op = o /\ k.layer = Head(call.todo)[2] /\ \A at, l : Left(k, at, l) = Left(call, at, l)
        /\ j.op = p /\ j.layer = Head(call.todo)[2] /\ \A at, l : Left(j, at, l) = Left(call, at, l)
        /\ k.n = j.n /\ k.base = j.base /\ k.txt = j.txt
    BY <1>1, LaunchedIs
  <1>4. Fed(k, B)
    BY <1>2, <1>3 DEF Fed
  <1>5. Target(k) = "arena" /\ Outcome(k, B) = Quantised(k)
    BY <1>2, <1>3 DEF Target, Outcome
  <1>6. Sets(B, "arena", Quantised(k), After(k, B))
    BY <1>5 DEF Sets, After
  <1>7. After(k, B)["arena"] = Quantised(k)
    BY <1>6, PlacesAre DEF Sets
  <1>8. Quantised(k) = Quantised(j)
    BY <1>2, <1>3 DEF Quantised
  <1>9. PICK D : D = After(k, B)
    OBVIOUS
  <1>10. Fed(j, D)
    BY <1>2, <1>3, <1>7, <1>8, <1>9 DEF Fed
  <1>11. Target(j) = dst /\ Outcome(j, D) = Left(call, to, Head(call.todo)[2])
    BY <1>2, <1>3 DEF Target, Outcome
  <1>12. Sets(D, dst, Left(call, to, Head(call.todo)[2]), After(j, D))
    BY <1>11 DEF Sets, After
  <1> QED BY <1>1, <1>4, <1>6, <1>9, <1>10, <1>12

LEMMA AfterAdd ==
  ASSUME NEW src, NEW from, NEW to \in {"in", "mid"}, NEW B,
         B[src] = Left(call, from, Head(call.todo)[2]),
         B["hidden"] = Left(call, IF to = "mid" THEN "in" ELSE "mid", Head(call.todo)[2])
  PROVE  LET k == Launched(Op("add", src, from, "hidden", to)) l == Head(call.todo)[2] IN
         Fed(k, B) /\ Sets(B, "hidden", Left(call, to, IF to = "in" THEN l + 1 ELSE l), After(k, B))
  <1>1. PICK o, k : o = Op("add", src, from, "hidden", to) /\ k = Launched(o)
    OBVIOUS
  <1>2. o.kind = "add" /\ o.src = src /\ o.from = from /\ o.dst = "hidden" /\ o.to = to
    BY <1>1, OpFields
  <1>3. k.op = o /\ k.layer = Head(call.todo)[2] /\ \A at, l : Left(k, at, l) = Left(call, at, l)
    BY <1>1, LaunchedIs
  <1>4. Fed(k, B)
    BY <1>2, <1>3 DEF Fed
  <1>5. /\ Target(k) = "hidden"
        /\ Outcome(k, B) = Left(call, to, IF to = "in" THEN Head(call.todo)[2] + 1 ELSE Head(call.todo)[2])
    BY <1>2, <1>3 DEF Target, Outcome
  <1> QED BY <1>1, <1>4, <1>5 DEF Sets, After

LEMMA AfterAct ==
  ASSUME NEW B, B["up"] = Left(call, "up", Head(call.todo)[2]),
         B["gate"] = Left(call, "gate", Head(call.todo)[2])
  PROVE  LET k == Launched(Op("act", "up", "up", "gate", "act")) IN
         Fed(k, B) /\ Sets(B, "gate", Left(call, "act", Head(call.todo)[2]), After(k, B))
  <1>1. PICK o, k : o = Op("act", "up", "up", "gate", "act") /\ k = Launched(o)
    OBVIOUS
  <1>2. o.kind = "act" /\ o.src = "up" /\ o.from = "up" /\ o.dst = "gate" /\ o.to = "act"
    BY <1>1, OpFields
  <1>3. k.op = o /\ k.layer = Head(call.todo)[2] /\ \A at, l : Left(k, at, l) = Left(call, at, l)
    BY <1>1, LaunchedIs
  <1>4. Fed(k, B)
    BY <1>2, <1>3 DEF Fed
  <1>5. Target(k) = "gate" /\ Outcome(k, B) = Left(call, "act", Head(call.todo)[2])
    BY <1>2, <1>3 DEF Target, Outcome
  <1> QED BY <1>1, <1>4, <1>5 DEF Sets, After

LEMMA AfterEmbed ==
  ASSUME NEW B
  PROVE  LET k == Launched(Op("embed", "none", "none", "hidden", "in")) IN
         Fed(k, B) /\ Sets(B, "hidden", Left(call, "in", 0), After(k, B))
  <1>1. PICK o, k : o = Op("embed", "none", "none", "hidden", "in") /\ k = Launched(o)
    OBVIOUS
  <1>2. o.kind = "embed" /\ o.dst = "hidden" /\ o.to = "in"
    BY <1>1, OpFields
  <1>3. k.op = o /\ \A at, l : Left(k, at, l) = Left(call, at, l)
    BY <1>1, LaunchedIs
  <1>4. Fed(k, B)
    BY <1>2, <1>3 DEF Fed
  <1>5. Target(k) = "hidden" /\ Outcome(k, B) = Left(call, "in", 0)
    BY <1>2, <1>3 DEF Target, Outcome
  <1> QED BY <1>1, <1>4, <1>5 DEF Sets, After

LEMMA AfterLast ==
  ASSUME NEW B, B["final"] = Left(call, "final", Head(call.todo)[2])
  PROVE  LET k == Launched(Op("last", "final", "final", "none", "none")) IN
         Fed(k, B) /\ Sets(B, "out", Left(call, "final", Head(call.todo)[2]), After(k, B))
  <1>1. PICK o, k : o = Op("last", "final", "final", "none", "none") /\ k = Launched(o)
    OBVIOUS
  <1>2. o.kind = "last" /\ o.src = "final" /\ o.from = "final"
    BY <1>1, OpFields
  <1>3. k.op = o /\ k.layer = Head(call.todo)[2] /\ \A at, l : Left(k, at, l) = Left(call, at, l)
    BY <1>1, LaunchedIs
  <1>4. Fed(k, B)
    BY <1>2, <1>3 DEF Fed
  <1>5. Target(k) = "out" /\ Outcome(k, B) = Left(call, "final", Head(call.todo)[2])
    BY <1>2, <1>3 DEF Target, Outcome
  <1> QED BY <1>1, <1>4, <1>5 DEF Sets, After

LEMMA AfterScore ==
  ASSUME NEW B
  PROVE  LET k == Launched(Op("score", "none", "final", "none", "none")) IN
         Fed(k, B) /\ \A p \in Places : After(k, B)[p] = B[p]
  <1>1. PICK o, k : o = Op("score", "none", "final", "none", "none") /\ k = Launched(o)
    OBVIOUS
  <1>2. o.kind = "score"
    BY <1>1, OpFields
  <1>3. k.op = o
    BY <1>1, LaunchedIs
  <1>4. Fed(k, B)
    BY <1>2, <1>3 DEF Fed
  <1>5. Target(k) = "none" /\ "none" \notin Places
    BY <1>2, <1>3, Widths DEF Target, Places, RowPlaces
  <1> QED BY <1>1, <1>4, <1>5 DEF After

LEMMA AfterAttention ==
  ASSUME NEW B, B["q"] = Left(call, "q_rope", Head(call.todo)[2]),
         IF call.kv = NoKv
         THEN call.base = 0 /\ B["k"] = Left(call, "k_rope", Head(call.todo)[2])
              /\ B["v"] = Left(call, "v", Head(call.todo)[2])
         ELSE /\ call.kv.length = call.base
              /\ \A which \in {"k", "v"} :
                    KeptTo(call.kv, which, Head(call.todo)[2], call.txt, call.base + call.n, B)
  PROVE  LET k == Launched(Op("attn", "q", "q_rope", "attn", "attn")) IN
         Fed(k, B) /\ Sets(B, "attn", Left(call, "attn", Head(call.todo)[2]), After(k, B))
  <1>1. PICK o, k : o = Op("attn", "q", "q_rope", "attn", "attn") /\ k = Launched(o)
    OBVIOUS
  <1>2. o.kind = "attn" /\ o.src = "q" /\ o.from = "q_rope" /\ o.dst = "attn" /\ o.to = "attn"
    BY <1>1, OpFields
  <1>3. /\ k.op = o /\ k.layer = Head(call.todo)[2] /\ \A at, l : Left(k, at, l) = Left(call, at, l)
        /\ k.n = call.n /\ k.base = call.base /\ k.txt = call.txt /\ k.kv = call.kv
    BY <1>1, LaunchedIs
  <1>4. Fed(k, B)
    BY <1>2, <1>3 DEF Fed
  <1>5. Target(k) = "attn" /\ Outcome(k, B) = Left(call, "attn", Head(call.todo)[2])
    BY <1>2, <1>3 DEF Target, Outcome
  <1> QED BY <1>1, <1>4, <1>5 DEF Sets, After

-----------------------------------------------------------------------------
(* Rows of a cache.                                                        *)

\* No two of them are in one cell.
LEMMA CacheRowApart ==
  ASSUME NEW kv, NEW lv, kv.capacity \in Nat \ {0}, lv.capacity = kv.capacity,
         NEW w \in {"k", "v"}, NEW l \in 0 .. Layers - 1, NEW i \in 0 .. kv.capacity - 1,
         NEW x \in {"k", "v"}, NEW m \in 0 .. Layers - 1, NEW j \in 0 .. kv.capacity - 1,
         CacheRow(kv, w, l, i) = CacheRow(lv, x, m, j)
  PROVE  w = x /\ l = m /\ i = j
  <1>1. PICK n, cap : n = Layers /\ cap = kv.capacity
    OBVIOUS
  <1>2. n \in Nat \ {0} /\ cap \in Nat \ {0} /\ l \in 0 .. n - 1 /\ m \in 0 .. n - 1
        /\ i \in 0 .. cap - 1 /\ j \in 0 .. cap - 1
    BY <1>1, Constants
  <1>3. PICK u, v : u = (IF w = "k" THEN 0 ELSE n) + l /\ v = (IF x = "k" THEN 0 ELSE n) + m
    OBVIOUS
  <1>4. u \in Nat /\ v \in Nat
    BY <1>2, <1>3
  <1>5. CacheRow(kv, w, l, i) = u * cap + i
    <2>1. n * cap + l * cap = (n + l) * cap /\ 0 + l * cap = (0 + l) * cap
      BY <1>2
    <2> QED BY <1>1, <1>2, <1>3, <2>1 DEF CacheRow
  <1>6. CacheRow(lv, x, m, j) = v * cap + j
    <2>1. n * cap + m * cap = (n + m) * cap /\ 0 + m * cap = (0 + m) * cap
      BY <1>2
    <2> QED BY <1>1, <1>2, <1>3, <2>1 DEF CacheRow
  <1>7. ASSUME NEW t \in Nat, NEW y \in 0 .. cap - 1 PROVE (t * cap + y) \div cap = t
    <2>1. t + 1 \in Nat /\ t \in 0 .. (t + 1) - 1
      OBVIOUS
    <2>2. PICK a \in Nat : a = t + 1
      OBVIOUS
    <2>3. a \in Nat
      OBVIOUS
    <2>4. cap \in Nat
      BY <1>2
    <2>5. t \in 0 .. a - 1
      BY <2>1, <2>2
    <2> QED BY ONLY <2>3, <2>4, <2>5, y \in 0 .. cap - 1, CellOf
  <1>8. u = v
    <2>1. PICK z, y : z = u * cap + i /\ y = v * cap + j
      OBVIOUS
    <2>2. z \div cap = u
      BY <1>2, <1>4, <1>7, <2>1
    <2>3. y \div cap = v
      BY <1>2, <1>4, <1>7, <2>1
    <2>4. z = y
      BY <1>5, <1>6, <2>1
    <2> QED BY ONLY <2>2, <2>3, <2>4
  <1>9. i = j
    <2>1. u * cap \in Nat
      BY <1>2, <1>4
    <2>2. \A a \in Nat : a + i = a + j => i = j
      BY <1>2
    <2> QED BY <1>5, <1>6, <1>8, <2>1, <2>2
  <1>10. w = x /\ l = m
    BY <1>2, <1>3, <1>8
  <1> QED BY <1>9, <1>10

\* What a cache's kernel leaves alone, and what it leaves.
LEMMA AfterAppend ==
  ASSUME NEW k, k.op.kind = "append", k.op.src \in {"k", "v"},
         k.kv.capacity \in Nat \ {0}, k.kv.length \in Nat, k.n \in Nat,
         k.kv.length + k.n <= k.kv.capacity, k.layer \in 0 .. Layers - 1, k.base = k.kv.length, NEW B
  PROVE  /\ \A kv : \A w \in {"k", "v"} : \A l \in 0 .. Layers - 1 : \A txt : \A i \in 0 .. kv.capacity - 1 :
               /\ kv.mem = k.kv.mem => /\ kv.capacity = k.kv.capacity
                                       /\ w = k.op.src /\ l = k.layer => i < k.kv.length
               /\ Kept(kv, w, l, txt, i) \in B["kv"]
               => Kept(kv, w, l, txt, i) \in After(k, B)["kv"]
         /\ k.op.from = (IF k.op.src = "k" THEN "k_rope" ELSE "v") =>
               \A j \in k.kv.length .. k.kv.length + k.n - 1 :
                  Kept(k.kv, k.op.src, k.layer, k.txt, j) \in After(k, B)["kv"]
         /\ \A p \in Places \ {"kv"} : After(k, B)[p] = B[p]
  <1>1. PICK a, lo, b, n, cap, s, lay : /\ a = k.kv.mem /\ lo = FirstRow(k) /\ b = k.kv.length /\ n = k.n
                                   /\ cap = k.kv.capacity /\ s = k.op.src /\ lay = k.layer
    OBVIOUS
  <1>2. PICK new : new = {<<a, lo + t, TokenRow(Left(k, k.op.from, k.layer), t)>> : t \in 0 .. k.n - 1}
    OBVIOUS
  <1>3. Target(k) = "kv" /\ "kv" \in Places
    BY DEF Target, Places
  <1>4. After(k, B)["kv"] = {f \in B["kv"] : f[1] = a => f[2] \notin lo .. lo + k.n - 1} \cup new
    BY <1>1, <1>2, <1>3 DEF After, Outcome
  <1>5. \A p \in Places \ {"kv"} : After(k, B)[p] = B[p]
    BY <1>3 DEF After
  <1>6. /\ lo \in Nat /\ \A t \in Nat : CacheRow(k.kv, s, lay, b + t) = lo + t
        /\ n \in Nat /\ b \in Nat /\ cap \in Nat \ {0} /\ b + n <= cap
    <2>1. k.kv.capacity \in Nat \ {0} /\ s \in {"k", "v"} /\ lay \in Nat /\ lay < Layers /\ b \in Nat /\ n \in Nat
          /\ b + n <= k.kv.capacity
      BY <1>1, Constants
    <2>6. b \in Nat
      BY <2>1
    <2>10. PICK z, L : L = Layers /\ z = (IF s = "k" THEN 0 ELSE L * cap) + lay * cap
      OBVIOUS
    <2>11. L * cap \in Nat /\ lay * cap \in Nat
      BY <1>1, <2>1, <2>10, Constants
    <2>12. z \in Nat
      BY <2>10, <2>11
    <2>13. \A i : CacheRow(k.kv, s, lay, i) = z + i
      BY <1>1, <2>10 DEF CacheRow
    <2>14. \A t \in Nat : z + (b + t) = (z + b) + t /\ z + b \in Nat
      BY <2>6, <2>12
    <2>15. lo = z + b /\ lo \in Nat
      BY <1>1, <2>6, <2>12, <2>13 DEF FirstRow
    <2> QED BY <1>1, <2>1, <2>13, <2>14, <2>15
  <1>7. ASSUME NEW kv, NEW w \in {"k", "v"}, NEW l \in 0 .. Layers - 1, NEW txt,
               NEW i \in 0 .. kv.capacity - 1,
               kv.mem = k.kv.mem => /\ kv.capacity = k.kv.capacity
                                    /\ w = k.op.src /\ l = k.layer => i < k.kv.length,
               Kept(kv, w, l, txt, i) \in B["kv"]
        PROVE  Kept(kv, w, l, txt, i) \in After(k, B)["kv"]
    <2>1. PICK f : f = Kept(kv, w, l, txt, i)
      OBVIOUS
    <2>2. f[1] = kv.mem /\ f[2] = CacheRow(kv, w, l, i)
      BY <2>1 DEF Kept
    <2>3. ASSUME f[1] = a, f[2] \in lo .. lo + k.n - 1 PROVE FALSE
      <3>1. PICK t \in 0 .. n - 1 : f[2] = lo + t
        <4>1. f[2] - lo \in 0 .. n - 1 /\ f[2] = lo + (f[2] - lo)
          BY <1>1, <1>6, <2>3
        <4> QED BY <4>1
      <3>2. CacheRow(kv, w, l, i) = CacheRow(k.kv, s, lay, b + t)
        BY <1>6, <2>2, <3>1
      <3>3. kv.capacity = cap /\ (w = s /\ l = lay => i < b)
        BY <1>1, <1>7, <2>2, <2>3
      <3>4. b + t \in 0 .. cap - 1
        BY <1>6
      <3>5. PICK j, lv : j = b + t /\ lv = k.kv
        OBVIOUS
      <3>6. kv.capacity \in Nat \ {0}
        BY <1>6, <3>3
      <3>7. lv.capacity = kv.capacity
        BY <1>1, <3>3, <3>5
      <3>8. s \in {"k", "v"}
        BY <1>1
      <3>9. lay \in 0 .. Layers - 1
        BY <1>1
      <3>10. j \in 0 .. kv.capacity - 1
        BY <3>3, <3>4, <3>5
      <3>11. CacheRow(kv, w, l, i) = CacheRow(lv, s, lay, j)
        BY <3>2, <3>5
      <3>12. w \in {"k", "v"} /\ l \in 0 .. Layers - 1 /\ i \in 0 .. kv.capacity - 1
        BY <1>7
      <3>13. w = s /\ l = lay /\ i = j
        BY ONLY <3>6, <3>7, <3>8, <3>9, <3>10, <3>11, w \in {"k", "v"}, l \in 0 .. Layers - 1,
                i \in 0 .. kv.capacity - 1, CacheRowApart
      <3> QED BY <1>6, <3>3, <3>5, <3>13
    <2> QED BY <1>4, <1>7, <2>1, <2>3
  <1>8. ASSUME k.op.from = (IF k.op.src = "k" THEN "k_rope" ELSE "v"),
               NEW j \in k.kv.length .. k.kv.length + k.n - 1
        PROVE  Kept(k.kv, k.op.src, k.layer, k.txt, j) \in After(k, B)["kv"]
    <2>1. PICK t : t = j - b
      OBVIOUS
    <2>2. t \in 0 .. k.n - 1 /\ t \in Nat /\ j = b + t
      BY <1>1, <1>6, <2>1
    <2>3. CacheRow(k.kv, k.op.src, k.layer, j) = lo + t
      BY <1>1, <1>6, <2>2
    <2>4. TokenRow(Left(k, k.op.from, k.layer), t) = Row(k.op.from, k.layer, k.txt, j)
      BY <1>1, <2>2 DEF TokenRow, Left
    <2>5. Kept(k.kv, k.op.src, k.layer, k.txt, j) = <<a, lo + t, TokenRow(Left(k, k.op.from, k.layer), t)>>
      BY <1>1, <1>8, <2>3, <2>4 DEF Kept
    <2> QED BY <1>2, <1>4, <2>2, <2>5
  <1> QED BY <1>5, <1>7, <1>8

-----------------------------------------------------------------------------
(* A step of a pass.                                                       *)

\* What the next step counts on.
Reached(B, D) ==
    LET x == Head(call.todo)
        y == Then(x, call.c # "none")
    IN  /\ Meets(y, D)
        /\ call.c # "none" => KeptBelow(Appended(y), D)
        /\ D["out"] = IF x[1] = "final_norm" THEN Left(call, "final", Layers) ELSE B["out"]

\* The kernels of the step that is launched take B to what the next step counts on,
\* and each of them leaves the rows that caches have.
StepGoes(B) ==
    \E bs : /\ Walk(Kernels, bs) /\ bs[0] = B
            /\ \A i \in 0 .. Len(Kernels) : CachesKeep(bs[i])
            /\ Reached(B, bs[Len(Kernels)])

\* The operations of the step.
OpsNow(n, o) ==
    Step \in StepNames /\ Steps[Step] \in Seq(Ops) /\ Len(Steps[Step]) = n
    /\ \A i \in 1 .. n : Steps[Step][i] = o[i]

LEMMA KernelsAre ==
  ASSUME NEW n \in Nat, NEW o, OpsNow(n, o)
  PROVE  Len(Kernels) = n /\ \A i \in 1 .. n : Kernels[i] = Launched(o[i])
  <1>1. PICK s : s = Steps[Step]
    OBVIOUS
  <1>2. s \in Seq(Ops) /\ Len(s) = n /\ \A i \in 1 .. n : s[i] = o[i]
    BY <1>1 DEF OpsNow
  <1>3. DOMAIN s = 1 .. n
    BY <1>2
  <1>4. PICK ks : ks = Kernels
    OBVIOUS
  <1>5. ks = [i \in 1 .. n |-> Launched(s[i])]
    BY <1>1, <1>3, <1>4 DEF Kernels, Launched
  <1>6. Len(ks) = n
    BY ONLY <1>5, n \in Nat
  <1> QED BY <1>2, <1>4, <1>5, <1>6

LEMMA GoesOne ==
  ASSUME NEW o, OpsNow(1, o), NEW B, NEW D, D = After(Launched(o[1]), B), Fed(Launched(o[1]), B),
         CachesKeep(B), CachesKeep(D), Reached(B, D)
  PROVE  StepGoes(B)
  <1>1. 1 \in Nat
    OBVIOUS
  <1>2. Len(Kernels) = 1 /\ \A i \in 1 .. 1 : Kernels[i] = Launched(o[i])
    BY <1>1, KernelsAre
  <1> DEFINE bs == [i \in 0 .. 1 |-> IF i = 0 THEN B ELSE D]
  <1>3. bs[0] = B /\ bs[1] = D
    OBVIOUS
  <1> HIDE DEF bs
  <1>4. \A i \in 1 .. 1 : i = 1 /\ i - 1 = 0
    OBVIOUS
  <1>5. Walk(Kernels, bs)
    BY <1>2, <1>3, <1>4 DEF Walk
  <1>6. \A i \in 0 .. 1 : i = 0 \/ i = 1
    OBVIOUS
  <1>7. \A i \in 0 .. 1 : CachesKeep(bs[i])
    BY <1>3, <1>6
  <1>8. Walk(Kernels, bs) /\ bs[0] = B /\ (\A i \in 0 .. Len(Kernels) : CachesKeep(bs[i]))
        /\ Reached(B, bs[Len(Kernels)])
    BY <1>2, <1>3, <1>5, <1>7
  <1> QED BY <1>8 DEF StepGoes

LEMMA GoesTwo ==
  ASSUME NEW o, OpsNow(2, o), NEW B, NEW C, C = After(Launched(o[1]), B), Fed(Launched(o[1]), B),
         NEW D, D = After(Launched(o[2]), C), Fed(Launched(o[2]), C),
         CachesKeep(B), CachesKeep(C), CachesKeep(D), Reached(B, D)
  PROVE  StepGoes(B)
  <1>1. 2 \in Nat
    OBVIOUS
  <1>2. Len(Kernels) = 2 /\ \A i \in 1 .. 2 : Kernels[i] = Launched(o[i])
    BY <1>1, KernelsAre
  <1> DEFINE bs == [i \in 0 .. 2 |-> IF i = 0 THEN B ELSE IF i = 1 THEN C ELSE D]
  <1>3. bs[0] = B /\ bs[1] = C /\ bs[2] = D
    OBVIOUS
  <1> HIDE DEF bs
  <1>4. \A i \in 1 .. 2 : (i = 1 /\ i - 1 = 0) \/ (i = 2 /\ i - 1 = 1)
    OBVIOUS
  <1>5. Walk(Kernels, bs)
    BY <1>2, <1>3, <1>4 DEF Walk
  <1>6. \A i \in 0 .. 2 : i = 0 \/ i = 1 \/ i = 2
    OBVIOUS
  <1>7. \A i \in 0 .. 2 : CachesKeep(bs[i])
    BY <1>3, <1>6
  <1>8. Walk(Kernels, bs) /\ bs[0] = B /\ (\A i \in 0 .. Len(Kernels) : CachesKeep(bs[i]))
        /\ Reached(B, bs[Len(Kernels)])
    BY <1>2, <1>3, <1>5, <1>7
  <1> QED BY <1>8 DEF StepGoes

LEMMA GoesThree ==
  ASSUME NEW o, OpsNow(3, o), NEW B, NEW C, C = After(Launched(o[1]), B), Fed(Launched(o[1]), B),
         NEW D, D = After(Launched(o[2]), C), Fed(Launched(o[2]), C),
         NEW E, E = After(Launched(o[3]), D), Fed(Launched(o[3]), D),
         CachesKeep(B), CachesKeep(C), CachesKeep(D), CachesKeep(E), Reached(B, E)
  PROVE  StepGoes(B)
  <1>1. 3 \in Nat
    OBVIOUS
  <1>2. Len(Kernels) = 3 /\ \A i \in 1 .. 3 : Kernels[i] = Launched(o[i])
    BY <1>1, KernelsAre
  <1> DEFINE bs == [i \in 0 .. 3 |-> IF i = 0 THEN B ELSE IF i = 1 THEN C ELSE IF i = 2 THEN D ELSE E]
  <1>3. bs[0] = B /\ bs[1] = C /\ bs[2] = D /\ bs[3] = E
    OBVIOUS
  <1> HIDE DEF bs
  <1>4. \A i \in 1 .. 3 : (i = 1 /\ i - 1 = 0) \/ (i = 2 /\ i - 1 = 1) \/ (i = 3 /\ i - 1 = 2)
    OBVIOUS
  <1>5. Walk(Kernels, bs)
    BY <1>2, <1>3, <1>4 DEF Walk
  <1>6. \A i \in 0 .. 3 : i = 0 \/ i = 1 \/ i = 2 \/ i = 3
    OBVIOUS
  <1>7. \A i \in 0 .. 3 : CachesKeep(bs[i])
    BY <1>3, <1>6
  <1>8. Walk(Kernels, bs) /\ bs[0] = B /\ (\A i \in 0 .. Len(Kernels) : CachesKeep(bs[i]))
        /\ Reached(B, bs[Len(Kernels)])
    BY <1>2, <1>3, <1>5, <1>7
  <1> QED BY <1>8 DEF StepGoes

\* What is known of the caches is in one place.
LEMMA KeptSame ==
  ASSUME NEW B, NEW D, D["kv"] = B["kv"]
  PROVE  /\ CachesKeep(B) => CachesKeep(D)
         /\ \A m : KeptBelow(m, B) => KeptBelow(m, D)
  BY DEF CachesKeep, KeptBelow, KeptTo

LEMMA MeetsIs ==
  \A s, l, D : Meets(<<s, l>>, D) <=> \A p \in DOMAIN Needs[s] : D[p] = Left(call, Needs[s][p], l)
  <1>1. \A x, i : <<x, i>>[1] = x /\ <<x, i>>[2] = i
    OBVIOUS
  <1> QED BY <1>1 DEF Meets

LEMMA MeetsEnds ==
  \A D, l :
    /\ Meets(<<"embed", l>>, D)
    /\ Meets(<<"norm", l>>, D) <=> D["hidden"] = Left(call, "in", l)
    /\ Meets(<<"final_norm", l>>, D) <=> D["hidden"] = Left(call, "in", l)
    /\ Meets(<<"cand", l>>, D) <=> D["hidden"] = Left(call, "in", l)
  <1> TAKE D, l
  <1>1. Meets(<<"embed", l>>, D)
    <2>1. Needs["embed"] = <<>> /\ DOMAIN <<>> = {}
      BY DEF Needs
    <2> QED BY <2>1, MeetsIs
  <1>2. Meets(<<"norm", l>>, D) <=> D["hidden"] = Left(call, "in", l)
    <2>1. PICK x : x = Needs["norm"]
      OBVIOUS
    <2>2. DOMAIN x = {"hidden"} /\ x["hidden"] = "in"
      BY <2>1 DEF Needs
    <2>3. Meets(<<"norm", l>>, D) <=> \A p \in DOMAIN x : D[p] = Left(call, x[p], l)
      BY ONLY <2>1, MeetsIs
    <2> QED BY ONLY <2>2, <2>3
  <1>3. Meets(<<"final_norm", l>>, D) <=> D["hidden"] = Left(call, "in", l)
    <2>1. PICK x : x = Needs["final_norm"]
      OBVIOUS
    <2>2. DOMAIN x = {"hidden"} /\ x["hidden"] = "in"
      BY <2>1 DEF Needs
    <2>3. Meets(<<"final_norm", l>>, D) <=> \A p \in DOMAIN x : D[p] = Left(call, x[p], l)
      BY ONLY <2>1, MeetsIs
    <2> QED BY ONLY <2>2, <2>3
  <1>4. Meets(<<"cand", l>>, D) <=> D["hidden"] = Left(call, "in", l)
    <2>1. PICK x : x = Needs["cand"]
      OBVIOUS
    <2>2. DOMAIN x = {"hidden"} /\ x["hidden"] = "in"
      BY <2>1 DEF Needs
    <2>3. Meets(<<"cand", l>>, D) <=> \A p \in DOMAIN x : D[p] = Left(call, x[p], l)
      BY ONLY <2>1, MeetsIs
    <2> QED BY ONLY <2>2, <2>3
  <1> QED BY ONLY <1>1, <1>2, <1>3, <1>4

LEMMA MeetsRows ==
  \A D, l :
    /\ Meets(<<"q", l>>, D) <=> 
           D["hidden"] = Left(call, "in", l) /\ D["normed"] = Left(call, "normed", l)
    /\ Meets(<<"k", l>>, D) <=> 
           /\ D["hidden"] = Left(call, "in", l)
           /\ D["normed"] = Left(call, "normed", l)
           /\ D["q"] = Left(call, "q", l)
    /\ Meets(<<"v", l>>, D) <=> 
           /\ D["hidden"] = Left(call, "in", l)
           /\ D["normed"] = Left(call, "normed", l)
           /\ D["q"] = Left(call, "q", l)
           /\ D["k"] = Left(call, "k", l)
    /\ Meets(<<"qk_norm", l>>, D) <=> 
           /\ D["hidden"] = Left(call, "in", l)
           /\ D["q"] = Left(call, "q", l)
           /\ D["k"] = Left(call, "k", l)
           /\ D["v"] = Left(call, "v", l)
    /\ Meets(<<"rope", l>>, D) <=> 
           /\ D["hidden"] = Left(call, "in", l)
           /\ D["q"] = Left(call, "q_norm", l)
           /\ D["k"] = Left(call, "k_norm", l)
           /\ D["v"] = Left(call, "v", l)
  <1> TAKE D, l
  <1>1. Meets(<<"q", l>>, D) <=> 
           D["hidden"] = Left(call, "in", l) /\ D["normed"] = Left(call, "normed", l)
    <2>1. PICK x : x = Needs["q"]
      OBVIOUS
    <2>2. DOMAIN x = {"hidden", "normed"} /\ x["hidden"] = "in" /\ x["normed"] = "normed"
      BY <2>1 DEF Needs
    <2>3. Meets(<<"q", l>>, D) <=> \A p \in DOMAIN x : D[p] = Left(call, x[p], l)
      BY ONLY <2>1, MeetsIs
    <2> QED BY ONLY <2>2, <2>3
  <1>2. Meets(<<"k", l>>, D) <=> 
           /\ D["hidden"] = Left(call, "in", l)
           /\ D["normed"] = Left(call, "normed", l)
           /\ D["q"] = Left(call, "q", l)
    <2>1. PICK x : x = Needs["k"]
      OBVIOUS
    <2>2. DOMAIN x = {"hidden", "normed", "q"} /\ x["hidden"] = "in" /\ x["normed"] = "normed" /\ x["q"] = "q"
      BY <2>1 DEF Needs
    <2>3. Meets(<<"k", l>>, D) <=> \A p \in DOMAIN x : D[p] = Left(call, x[p], l)
      BY ONLY <2>1, MeetsIs
    <2> QED BY ONLY <2>2, <2>3
  <1>3. Meets(<<"v", l>>, D) <=> 
           /\ D["hidden"] = Left(call, "in", l)
           /\ D["normed"] = Left(call, "normed", l)
           /\ D["q"] = Left(call, "q", l)
           /\ D["k"] = Left(call, "k", l)
    <2>1. PICK x : x = Needs["v"]
      OBVIOUS
    <2>2. DOMAIN x = {"hidden", "normed", "q", "k"} /\ x["hidden"] = "in" /\ x["normed"] = "normed" /\ x["q"] = "q" /\ x["k"] = "k"
      BY <2>1 DEF Needs
    <2>3. Meets(<<"v", l>>, D) <=> \A p \in DOMAIN x : D[p] = Left(call, x[p], l)
      BY ONLY <2>1, MeetsIs
    <2> QED BY ONLY <2>2, <2>3
  <1>4. Meets(<<"qk_norm", l>>, D) <=> 
           /\ D["hidden"] = Left(call, "in", l)
           /\ D["q"] = Left(call, "q", l)
           /\ D["k"] = Left(call, "k", l)
           /\ D["v"] = Left(call, "v", l)
    <2>1. PICK x : x = Needs["qk_norm"]
      OBVIOUS
    <2>2. DOMAIN x = {"hidden", "q", "k", "v"} /\ x["hidden"] = "in" /\ x["q"] = "q" /\ x["k"] = "k" /\ x["v"] = "v"
      BY <2>1 DEF Needs
    <2>3. Meets(<<"qk_norm", l>>, D) <=> \A p \in DOMAIN x : D[p] = Left(call, x[p], l)
      BY ONLY <2>1, MeetsIs
    <2> QED BY ONLY <2>2, <2>3
  <1>5. Meets(<<"rope", l>>, D) <=> 
           /\ D["hidden"] = Left(call, "in", l)
           /\ D["q"] = Left(call, "q_norm", l)
           /\ D["k"] = Left(call, "k_norm", l)
           /\ D["v"] = Left(call, "v", l)
    <2>1. PICK x : x = Needs["rope"]
      OBVIOUS
    <2>2. DOMAIN x = {"hidden", "q", "k", "v"} /\ x["hidden"] = "in" /\ x["q"] = "q_norm" /\ x["k"] = "k_norm" /\ x["v"] = "v"
      BY <2>1 DEF Needs
    <2>3. Meets(<<"rope", l>>, D) <=> \A p \in DOMAIN x : D[p] = Left(call, x[p], l)
      BY ONLY <2>1, MeetsIs
    <2> QED BY ONLY <2>2, <2>3
  <1> QED BY ONLY <1>1, <1>2, <1>3, <1>4, <1>5

LEMMA MeetsAttention ==
  \A D, l :
    /\ Meets(<<"append", l>>, D) <=> 
           /\ D["hidden"] = Left(call, "in", l)
           /\ D["q"] = Left(call, "q_rope", l)
           /\ D["k"] = Left(call, "k_rope", l)
           /\ D["v"] = Left(call, "v", l)
    /\ Meets(<<"attn", l>>, D) <=> 
           /\ D["hidden"] = Left(call, "in", l)
           /\ D["q"] = Left(call, "q_rope", l)
           /\ D["k"] = Left(call, "k_rope", l)
           /\ D["v"] = Left(call, "v", l)
    /\ Meets(<<"oproj", l>>, D) <=> 
           D["hidden"] = Left(call, "in", l) /\ D["attn"] = Left(call, "attn", l)
    /\ Meets(<<"mlp_norm", l>>, D) <=> D["hidden"] = Left(call, "mid", l)
  <1> TAKE D, l
  <1>1. Meets(<<"append", l>>, D) <=> 
           /\ D["hidden"] = Left(call, "in", l)
           /\ D["q"] = Left(call, "q_rope", l)
           /\ D["k"] = Left(call, "k_rope", l)
           /\ D["v"] = Left(call, "v", l)
    <2>1. PICK x : x = Needs["append"]
      OBVIOUS
    <2>2. DOMAIN x = {"hidden", "q", "k", "v"} /\ x["hidden"] = "in" /\ x["q"] = "q_rope" /\ x["k"] = "k_rope" /\ x["v"] = "v"
      BY <2>1 DEF Needs
    <2>3. Meets(<<"append", l>>, D) <=> \A p \in DOMAIN x : D[p] = Left(call, x[p], l)
      BY ONLY <2>1, MeetsIs
    <2> QED BY ONLY <2>2, <2>3
  <1>2. Meets(<<"attn", l>>, D) <=> 
           /\ D["hidden"] = Left(call, "in", l)
           /\ D["q"] = Left(call, "q_rope", l)
           /\ D["k"] = Left(call, "k_rope", l)
           /\ D["v"] = Left(call, "v", l)
    <2>1. PICK x : x = Needs["attn"]
      OBVIOUS
    <2>2. DOMAIN x = {"hidden", "q", "k", "v"} /\ x["hidden"] = "in" /\ x["q"] = "q_rope" /\ x["k"] = "k_rope" /\ x["v"] = "v"
      BY <2>1 DEF Needs
    <2>3. Meets(<<"attn", l>>, D) <=> \A p \in DOMAIN x : D[p] = Left(call, x[p], l)
      BY ONLY <2>1, MeetsIs
    <2> QED BY ONLY <2>2, <2>3
  <1>3. Meets(<<"oproj", l>>, D) <=> 
           D["hidden"] = Left(call, "in", l) /\ D["attn"] = Left(call, "attn", l)
    <2>1. PICK x : x = Needs["oproj"]
      OBVIOUS
    <2>2. DOMAIN x = {"hidden", "attn"} /\ x["hidden"] = "in" /\ x["attn"] = "attn"
      BY <2>1 DEF Needs
    <2>3. Meets(<<"oproj", l>>, D) <=> \A p \in DOMAIN x : D[p] = Left(call, x[p], l)
      BY ONLY <2>1, MeetsIs
    <2> QED BY ONLY <2>2, <2>3
  <1>4. Meets(<<"mlp_norm", l>>, D) <=> D["hidden"] = Left(call, "mid", l)
    <2>1. PICK x : x = Needs["mlp_norm"]
      OBVIOUS
    <2>2. DOMAIN x = {"hidden"} /\ x["hidden"] = "mid"
      BY <2>1 DEF Needs
    <2>3. Meets(<<"mlp_norm", l>>, D) <=> \A p \in DOMAIN x : D[p] = Left(call, x[p], l)
      BY ONLY <2>1, MeetsIs
    <2> QED BY ONLY <2>2, <2>3
  <1> QED BY ONLY <1>1, <1>2, <1>3, <1>4

LEMMA MeetsMlp ==
  \A D, l :
    /\ Meets(<<"gate", l>>, D) <=> 
           D["hidden"] = Left(call, "mid", l) /\ D["normed"] = Left(call, "mlp_norm", l)
    /\ Meets(<<"up", l>>, D) <=> 
           /\ D["hidden"] = Left(call, "mid", l)
           /\ D["normed"] = Left(call, "mlp_norm", l)
           /\ D["gate"] = Left(call, "gate", l)
    /\ Meets(<<"act", l>>, D) <=> 
           /\ D["hidden"] = Left(call, "mid", l)
           /\ D["gate"] = Left(call, "gate", l)
           /\ D["up"] = Left(call, "up", l)
    /\ Meets(<<"down", l>>, D) <=> 
           D["hidden"] = Left(call, "mid", l) /\ D["gate"] = Left(call, "act", l)
  <1> TAKE D, l
  <1>1. Meets(<<"gate", l>>, D) <=> 
           D["hidden"] = Left(call, "mid", l) /\ D["normed"] = Left(call, "mlp_norm", l)
    <2>1. PICK x : x = Needs["gate"]
      OBVIOUS
    <2>2. DOMAIN x = {"hidden", "normed"} /\ x["hidden"] = "mid" /\ x["normed"] = "mlp_norm"
      BY <2>1 DEF Needs
    <2>3. Meets(<<"gate", l>>, D) <=> \A p \in DOMAIN x : D[p] = Left(call, x[p], l)
      BY ONLY <2>1, MeetsIs
    <2> QED BY ONLY <2>2, <2>3
  <1>2. Meets(<<"up", l>>, D) <=> 
           /\ D["hidden"] = Left(call, "mid", l)
           /\ D["normed"] = Left(call, "mlp_norm", l)
           /\ D["gate"] = Left(call, "gate", l)
    <2>1. PICK x : x = Needs["up"]
      OBVIOUS
    <2>2. DOMAIN x = {"hidden", "normed", "gate"} /\ x["hidden"] = "mid" /\ x["normed"] = "mlp_norm" /\ x["gate"] = "gate"
      BY <2>1 DEF Needs
    <2>3. Meets(<<"up", l>>, D) <=> \A p \in DOMAIN x : D[p] = Left(call, x[p], l)
      BY ONLY <2>1, MeetsIs
    <2> QED BY ONLY <2>2, <2>3
  <1>3. Meets(<<"act", l>>, D) <=> 
           /\ D["hidden"] = Left(call, "mid", l)
           /\ D["gate"] = Left(call, "gate", l)
           /\ D["up"] = Left(call, "up", l)
    <2>1. PICK x : x = Needs["act"]
      OBVIOUS
    <2>2. DOMAIN x = {"hidden", "gate", "up"} /\ x["hidden"] = "mid" /\ x["gate"] = "gate" /\ x["up"] = "up"
      BY <2>1 DEF Needs
    <2>3. Meets(<<"act", l>>, D) <=> \A p \in DOMAIN x : D[p] = Left(call, x[p], l)
      BY ONLY <2>1, MeetsIs
    <2> QED BY ONLY <2>2, <2>3
  <1>4. Meets(<<"down", l>>, D) <=> 
           D["hidden"] = Left(call, "mid", l) /\ D["gate"] = Left(call, "act", l)
    <2>1. PICK x : x = Needs["down"]
      OBVIOUS
    <2>2. DOMAIN x = {"hidden", "gate"} /\ x["hidden"] = "mid" /\ x["gate"] = "act"
      BY <2>1 DEF Needs
    <2>3. Meets(<<"down", l>>, D) <=> \A p \in DOMAIN x : D[p] = Left(call, x[p], l)
      BY ONLY <2>1, MeetsIs
    <2> QED BY ONLY <2>2, <2>3
  <1> QED BY ONLY <1>1, <1>2, <1>3, <1>4

-----------------------------------------------------------------------------
(* Each step leaves what the next one counts on.                           *)

\* The host launches step s of layer l next.
AtStep(B, s, l) ==
    /\ PassInv /\ MemInv /\ LaunchInv /\ call # Idle /\ call.todo # <<>>
    /\ Head(call.todo) = <<s, l>> /\ s \in StepNames /\ l \in 0 .. Layers
    /\ Meets(<<s, l>>, B) /\ CachesKeep(B)
    /\ call.c # "none" => KeptBelow(Appended(<<s, l>>), B)

LEMMA AtLayer ==
  ASSUME NEW B, NEW s, NEW l, AtStep(B, s, l)
  PROVE  Head(call.todo)[2] = l
  <1>1. Head(call.todo) = <<s, l>>
    BY DEF AtStep
  <1> QED BY ONLY <1>1

LEMMA OpsAre ==
  ASSUME PassInv, call # Idle, call.todo # <<>>, NEW n, NEW o, o = Steps[Step], Len(o) = n
  PROVE  OpsNow(n, o)
  <1>1. Step \in StepNames
    BY StepOfPass
  <1>2. o \in Seq(Ops)
    <2>1. CASE Step = "append"
      BY <2>1, StepsAre
    <2>2. CASE Step # "append"
      <3>1. o \in Seq(Others)
        BY <1>1, <2>2, StepsAre
      <3>2. Others \subseteq Ops
        BY DEF Others
      <3>3. \A S, T, q : q \in Seq(S) /\ S \subseteq T => q \in Seq(T)
        OBVIOUS
      <3> QED BY <3>1, <3>2, <3>3
    <2> QED BY <2>1, <2>2
  <1> QED BY <1>1, <1>2 DEF OpsNow

LEMMA SetsAre ==
  ASSUME NEW B, NEW p, NEW v, NEW D, Sets(B, p, v, D)
  PROVE  \A q \in {"hidden", "normed", "q", "k", "v", "attn", "oproj", "gate", "up", "down", "final",
                   "arena", "out", "kv"} : D[q] = IF q = p THEN v ELSE B[q]
  <1>1. {"hidden", "normed", "q", "k", "v", "attn", "oproj", "gate", "up", "down", "final",
         "arena", "out", "kv"} \subseteq Places
    BY Widths, PlacesAre
  <1> QED BY <1>1 DEF Sets

\* What the pass does after a step, by the part of the layer the step is in.
LEMMA ThenOf ==
  \A s, l, cached : /\ s = "rope" => Then(<<s, l>>, cached) = <<IF cached THEN "append" ELSE "attn", l>>
                    /\ s = "down" => Then(<<s, l>>, cached) = <<"norm", l + 1>>
                    /\ s # "rope" /\ s # "down" => Then(<<s, l>>, cached) = <<Follower[s], l>>
  <1> TAKE s, l, cached
  <1>1. <<s, l>>[1] = s /\ <<s, l>>[2] = l
    OBVIOUS
  <1> QED BY <1>1 DEF Then

LEMMA ThenStarts ==
  \A l, cached :
    /\ Then(<<"embed", l>>, cached) = <<"norm", l>>
    /\ Then(<<"final_norm", l>>, cached) = <<"norm", l>>
    /\ Then(<<"cand", l>>, cached) = <<"norm", l>>
  <1>1. PICK f : f = Follower
    OBVIOUS
  <1>2. f["embed"] = "norm" /\ f["final_norm"] = "norm" /\ f["cand"] = "norm"
    BY <1>1 DEF Follower
  <1> QED BY ONLY <1>1, <1>2, ThenOf

LEMMA ThenAttention ==
  \A l, cached :
    /\ Then(<<"norm", l>>, cached) = <<"q", l>> /\ Then(<<"q", l>>, cached) = <<"k", l>>
    /\ Then(<<"k", l>>, cached) = <<"v", l>> /\ Then(<<"v", l>>, cached) = <<"qk_norm", l>>
    /\ Then(<<"qk_norm", l>>, cached) = <<"rope", l>> /\ Then(<<"append", l>>, cached) = <<"attn", l>>
    /\ Then(<<"attn", l>>, cached) = <<"oproj", l>>
  <1>1. PICK f : f = Follower
    OBVIOUS
  <1>2. /\ f["norm"] = "q" /\ f["q"] = "k" /\ f["k"] = "v" /\ f["v"] = "qk_norm"
        /\ f["qk_norm"] = "rope" /\ f["append"] = "attn" /\ f["attn"] = "oproj"
    BY <1>1 DEF Follower
  <1> QED BY ONLY <1>1, <1>2, ThenOf

LEMMA ThenRope ==
  \A l, cached : /\ cached => Then(<<"rope", l>>, cached) = <<"append", l>>
                 /\ ~cached => Then(<<"rope", l>>, cached) = <<"attn", l>>
  BY ONLY ThenOf

LEMMA ThenMlp ==
  \A l, cached :
    /\ Then(<<"oproj", l>>, cached) = <<"mlp_norm", l>> /\ Then(<<"mlp_norm", l>>, cached) = <<"gate", l>>
    /\ Then(<<"gate", l>>, cached) = <<"up", l>> /\ Then(<<"up", l>>, cached) = <<"act", l>>
    /\ Then(<<"act", l>>, cached) = <<"down", l>> /\ Then(<<"down", l>>, cached) = <<"norm", l + 1>>
  <1>1. PICK f : f = Follower
    OBVIOUS
  <1>2. /\ f["oproj"] = "mlp_norm" /\ f["mlp_norm"] = "gate" /\ f["gate"] = "up" /\ f["up"] = "act"
        /\ f["act"] = "down"
    BY <1>1 DEF Follower
  <1> QED BY ONLY <1>1, <1>2, ThenOf

\* How many layers the caches have been given the new rows of, at a step.
LEMMA AppendedOf ==
  \A s, l : Appended(<<s, l>>) =
     IF s \in {"attn", "oproj", "mlp_norm", "gate", "up", "act", "down"} THEN l + 1 ELSE l
  <1> TAKE s, l
  <1>1. <<s, l>>[1] = s /\ <<s, l>>[2] = l
    OBVIOUS
  <1> QED BY <1>1 DEF Appended

LEMMA AppendedAfter ==
  \A l : /\ Appended(<<"attn", l>>) = l + 1 /\ Appended(<<"oproj", l>>) = l + 1
         /\ Appended(<<"mlp_norm", l>>) = l + 1 /\ Appended(<<"gate", l>>) = l + 1
         /\ Appended(<<"up", l>>) = l + 1 /\ Appended(<<"act", l>>) = l + 1
         /\ Appended(<<"down", l>>) = l + 1
  BY ONLY AppendedOf

LEMMA AppendedBefore ==
  \A l : /\ Appended(<<"embed", l>>) = l /\ Appended(<<"norm", l>>) = l /\ Appended(<<"q", l>>) = l
         /\ Appended(<<"k", l>>) = l /\ Appended(<<"v", l>>) = l /\ Appended(<<"qk_norm", l>>) = l
         /\ Appended(<<"rope", l>>) = l /\ Appended(<<"append", l>>) = l
         /\ Appended(<<"final_norm", l>>) = l /\ Appended(<<"cand", l>>) = l
  BY ONLY AppendedOf

\* A step that leaves the caches and the score alone.
LEMMA Quietly ==
  ASSUME NEW B, NEW s, NEW l, AtStep(B, s, l), s # "final_norm", NEW D, NEW y,
         y = Then(<<s, l>>, call.c # "none"), Meets(y, D), D["kv"] = B["kv"], D["out"] = B["out"],
         call.c # "none" => Appended(y) = Appended(<<s, l>>)
  PROVE  Reached(B, D)
  <1>1. Head(call.todo) = <<s, l>> /\ <<s, l>>[1] = s
    BY DEF AtStep
  <1>2. call.c # "none" => KeptBelow(Appended(y), D)
    BY KeptSame DEF AtStep
  <1> QED BY <1>1, <1>2 DEF Reached

LEMMA QuietOne ==
  ASSUME NEW B, NEW s, NEW l, AtStep(B, s, l), s # "final_norm", NEW o, Steps[s] = <<o>>,
         Fed(Launched(o), B), NEW D, D = After(Launched(o), B), D["kv"] = B["kv"], D["out"] = B["out"],
         NEW y, y = Then(<<s, l>>, call.c # "none"), Meets(y, D),
         call.c # "none" => Appended(y) = Appended(<<s, l>>)
  PROVE  StepGoes(B)
  <1>1. PassInv /\ call # Idle /\ call.todo # <<>> /\ Step = s /\ CachesKeep(B)
    BY DEF AtStep, Step
  <1>2. PICK p : p = <<o>>
    OBVIOUS
  <1>3. Len(p) = 1 /\ p[1] = o /\ p = Steps[Step]
    BY <1>1, <1>2
  <1>4. OpsNow(1, p)
    BY <1>1, <1>3, OpsAre
  <1>5. Reached(B, D)
    BY Quietly
  <1>6. CachesKeep(D)
    BY <1>1, KeptSame
  <1>7. D = After(Launched(p[1]), B)
    BY <1>3
  <1>8. Fed(Launched(p[1]), B)
    BY <1>3
  <1>9. CachesKeep(B)
    BY <1>1
  <1> QED BY ONLY <1>4, <1>5, <1>6, <1>7, <1>8, <1>9, GoesOne

LEMMA QuietTwo ==
  ASSUME NEW B, NEW s, NEW l, AtStep(B, s, l), s # "final_norm", NEW o, NEW u, Steps[s] = <<o, u>>,
         Fed(Launched(o), B), NEW C, C = After(Launched(o), B), C["kv"] = B["kv"],
         Fed(Launched(u), C), NEW D, D = After(Launched(u), C), D["kv"] = B["kv"], D["out"] = B["out"],
         NEW y, y = Then(<<s, l>>, call.c # "none"), Meets(y, D),
         call.c # "none" => Appended(y) = Appended(<<s, l>>)
  PROVE  StepGoes(B)
  <1>1. PassInv /\ call # Idle /\ call.todo # <<>> /\ Step = s /\ CachesKeep(B)
    BY DEF AtStep, Step
  <1>2. PICK p : p = <<o, u>>
    OBVIOUS
  <1>3. Len(p) = 2 /\ p[1] = o /\ p[2] = u /\ p = Steps[Step]
    BY <1>1, <1>2
  <1>4. OpsNow(2, p)
    BY <1>1, <1>3, OpsAre
  <1>5. Reached(B, D)
    BY Quietly
  <1>6. CachesKeep(C)
    BY <1>1, KeptSame
  <1>7. CachesKeep(D)
    BY <1>1, KeptSame
  <1>8. C = After(Launched(p[1]), B)
    BY <1>3
  <1>9. Fed(Launched(p[1]), B)
    BY <1>3
  <1>10. D = After(Launched(p[2]), C)
    BY <1>3
  <1>11. Fed(Launched(p[2]), C)
    BY <1>3
  <1>12. CachesKeep(B)
    BY <1>1
  <1> QED BY ONLY <1>4, <1>5, <1>6, <1>7, <1>8, <1>9, <1>10, <1>11, <1>12, GoesTwo

LEMMA QuietThree ==
  ASSUME NEW B, NEW s, NEW l, AtStep(B, s, l), s # "final_norm",
         NEW o, NEW u, NEW w, Steps[s] = <<o, u, w>>,
         Fed(Launched(o), B), NEW C, C = After(Launched(o), B), C["kv"] = B["kv"],
         Fed(Launched(u), C), NEW D, D = After(Launched(u), C), D["kv"] = B["kv"],
         Fed(Launched(w), D), NEW E, E = After(Launched(w), D), E["kv"] = B["kv"], E["out"] = B["out"],
         NEW y, y = Then(<<s, l>>, call.c # "none"), Meets(y, E),
         call.c # "none" => Appended(y) = Appended(<<s, l>>)
  PROVE  StepGoes(B)
  <1>1. PassInv /\ call # Idle /\ call.todo # <<>> /\ Step = s /\ CachesKeep(B)
    BY DEF AtStep, Step
  <1>2. PICK p : p = <<o, u, w>>
    OBVIOUS
  <1>3. Len(p) = 3 /\ p[1] = o /\ p[2] = u /\ p[3] = w /\ p = Steps[Step]
    BY <1>1, <1>2
  <1>4. OpsNow(3, p)
    BY <1>1, <1>3, OpsAre
  <1>5. Reached(B, E)
    BY Quietly
  <1>6. CachesKeep(C)
    BY <1>1, KeptSame
  <1>7. CachesKeep(D)
    BY <1>1, KeptSame
  <1>8. CachesKeep(E)
    BY <1>1, KeptSame
  <1>9. C = After(Launched(p[1]), B)
    BY <1>3
  <1>10. Fed(Launched(p[1]), B)
    BY <1>3
  <1>11. D = After(Launched(p[2]), C)
    BY <1>3
  <1>12. Fed(Launched(p[2]), C)
    BY <1>3
  <1>13. E = After(Launched(p[3]), D)
    BY <1>3
  <1>14. Fed(Launched(p[3]), D)
    BY <1>3
  <1>15. CachesKeep(B)
    BY <1>1
  <1> QED BY ONLY <1>4, <1>5, <1>6, <1>7, <1>8, <1>9, <1>10, <1>11, <1>12, <1>13, <1>14, <1>15, GoesThree

LEMMA GoesNorm ==
  ASSUME NEW B, NEW s \in {"norm", "mlp_norm"}, NEW l, AtStep(B, s, l)
  PROVE  StepGoes(B)
  <1>1. PICK at, to, z : /\ at = (IF s = "norm" THEN "in" ELSE "mid")
                         /\ to = (IF s = "norm" THEN "normed" ELSE "mlp_norm")
                         /\ z = (IF s = "norm" THEN "q" ELSE "gate")
    OBVIOUS
  <1>2. PICK o, D : o = Op("map", "hidden", at, "normed", to) /\ D = After(Launched(o), B)
    OBVIOUS
  <1>3. Steps[s] = <<o>>
    BY <1>1, <1>2, StepKernels
  <1>4. Head(call.todo)[2] = l /\ Meets(<<s, l>>, B)
    BY DEF AtStep
  <1>5. B["hidden"] = Left(call, at, l)
    BY <1>1, <1>4, MeetsEnds, MeetsAttention
  <1>6. Fed(Launched(o), B) /\ Sets(B, "normed", Left(call, to, l), D)
    BY <1>2, <1>4, <1>5, Widths, AfterMap
  <1>7. D["hidden"] = Left(call, at, l) /\ D["normed"] = Left(call, to, l)
        /\ D["kv"] = B["kv"] /\ D["out"] = B["out"]
    BY <1>5, <1>6, SetsAre
  <1>8. Meets(<<z, l>>, D)
    BY <1>1, <1>7, MeetsRows, MeetsMlp
  <1>9. <<z, l>> = Then(<<s, l>>, call.c # "none") /\ Appended(<<z, l>>) = Appended(<<s, l>>)
    <2>1. CASE s = "norm"
      <3>1. z = "q"
        BY <1>1, <2>1
      <3>2. <<"q", l>> = Then(<<"norm", l>>, call.c # "none")
        BY ONLY ThenAttention
      <3>3. Appended(<<"q", l>>) = Appended(<<"norm", l>>)
        BY ONLY AppendedBefore
      <3> QED BY <2>1, <3>1, <3>2, <3>3
    <2>2. CASE s = "mlp_norm"
      <3>1. z = "gate"
        BY <1>1, <2>2
      <3>2. <<"gate", l>> = Then(<<"mlp_norm", l>>, call.c # "none")
        BY ONLY ThenMlp
      <3>3. Appended(<<"gate", l>>) = Appended(<<"mlp_norm", l>>)
        BY ONLY AppendedAfter
      <3> QED BY <2>2, <3>1, <3>2, <3>3
    <2> QED BY <2>1, <2>2
  <1> QED BY <1>2, <1>3, <1>6, <1>7, <1>8, <1>9, QuietOne

LEMMA GoesEmbed ==
  ASSUME NEW B, NEW l, AtStep(B, "embed", l)
  PROVE  StepGoes(B)
  <1>1. PICK o, D : o = Op("embed", "none", "none", "hidden", "in") /\ D = After(Launched(o), B)
    OBVIOUS
  <1>2. Steps["embed"] = <<o>>
    BY <1>1, StepKernels
  <1>3. l = 0
    <2>1. 1 \in DOMAIN call.todo /\ call.todo[1] = <<"embed", l>>
      <3>1. call.todo \in Seq(Due(call.c # "none")) /\ call.todo # <<>> /\ Head(call.todo) = <<"embed", l>>
        BY DEF AtStep, PassInv, CallOK
      <3>2. \A S : \A s \in Seq(S) : s # <<>> => 1 \in DOMAIN s /\ Head(s) = s[1]
        OBVIOUS
      <3> QED BY <3>1, <3>2
    <2>2. <<"embed", l>>[1] = "embed" /\ <<"embed", l>>[2] = l
      OBVIOUS
    <2>3. InPlace(call.todo)
      BY DEF AtStep, LaunchInv
    <2> QED BY ONLY <2>1, <2>2, <2>3 DEF InPlace
  <1>4. Fed(Launched(o), B) /\ Sets(B, "hidden", Left(call, "in", 0), D)
    BY <1>1, AfterEmbed
  <1>5. D["hidden"] = Left(call, "in", l) /\ D["kv"] = B["kv"] /\ D["out"] = B["out"]
    BY <1>3, <1>4, SetsAre
  <1>6. Meets(<<"norm", l>>, D)
    BY <1>5, MeetsEnds
  <1>7. <<"norm", l>> = Then(<<"embed", l>>, call.c # "none")
    BY ONLY ThenStarts
  <1>8. Appended(<<"norm", l>>) = Appended(<<"embed", l>>)
    BY ONLY AppendedBefore
  <1> QED BY <1>1, <1>2, <1>4, <1>5, <1>6, <1>7, <1>8, QuietOne

LEMMA GoesAct ==
  ASSUME NEW B, NEW l, AtStep(B, "act", l)
  PROVE  StepGoes(B)
  <1>1. PICK o, D : o = Op("act", "up", "up", "gate", "act") /\ D = After(Launched(o), B)
    OBVIOUS
  <1>2. Steps["act"] = <<o>>
    BY <1>1, StepKernels
  <1>3. Head(call.todo)[2] = l /\ Meets(<<"act", l>>, B)
    BY DEF AtStep
  <1>4. B["hidden"] = Left(call, "mid", l) /\ B["gate"] = Left(call, "gate", l) /\ B["up"] = Left(call, "up", l)
    BY <1>3, MeetsMlp
  <1>5. Fed(Launched(o), B) /\ Sets(B, "gate", Left(call, "act", l), D)
    BY <1>1, <1>3, <1>4, AfterAct
  <1>6. D["hidden"] = Left(call, "mid", l) /\ D["gate"] = Left(call, "act", l)
        /\ D["kv"] = B["kv"] /\ D["out"] = B["out"]
    BY <1>4, <1>5, SetsAre
  <1>7. Meets(<<"down", l>>, D)
    BY <1>6, MeetsMlp
  <1>8. <<"down", l>> = Then(<<"act", l>>, call.c # "none")
    BY ONLY ThenMlp
  <1>9. Appended(<<"down", l>>) = Appended(<<"act", l>>)
    BY ONLY AppendedAfter
  <1> QED BY <1>1, <1>2, <1>5, <1>6, <1>7, <1>8, <1>9, QuietOne

LEMMA GoesCand ==
  ASSUME NEW B, NEW l, AtStep(B, "cand", l)
  PROVE  StepGoes(B)
  <1>1. PICK o, D : o = Op("score", "none", "final", "none", "none") /\ D = After(Launched(o), B)
    OBVIOUS
  <1>2. Steps["cand"] = <<o>>
    BY <1>1, StepKernels
  <1>3. B["hidden"] = Left(call, "in", l)
    BY MeetsEnds DEF AtStep
  <1>4. Fed(Launched(o), B) /\ \A p \in Places : D[p] = B[p]
    BY <1>1, AfterScore
  <1>5. D["hidden"] = Left(call, "in", l) /\ D["kv"] = B["kv"] /\ D["out"] = B["out"]
    BY <1>3, <1>4, PlacesAre, Widths
  <1>6. Meets(<<"norm", l>>, D)
    BY <1>5, MeetsEnds
  <1>7. <<"norm", l>> = Then(<<"cand", l>>, call.c # "none")
    BY ONLY ThenStarts
  <1>8. Appended(<<"norm", l>>) = Appended(<<"cand", l>>)
    BY ONLY AppendedBefore
  <1> QED BY <1>1, <1>2, <1>4, <1>5, <1>6, <1>7, <1>8, QuietOne

\* The attention finds the rows of this pass or, in a cache, those behind it too.
LEMMA GoesAttention ==
  ASSUME NEW B, NEW l, AtStep(B, "attn", l)
  PROVE  StepGoes(B)
  <1>1. PICK o, D : o = Op("attn", "q", "q_rope", "attn", "attn") /\ D = After(Launched(o), B)
    OBVIOUS
  <1>2. Steps["attn"] = <<o>>
    BY <1>1, StepKernels
  <1>3. Head(call.todo)[2] = l /\ Meets(<<"attn", l>>, B) /\ l \in 0 .. Layers
    BY DEF AtStep
  <1>4. /\ B["hidden"] = Left(call, "in", l) /\ B["q"] = Left(call, "q_rope", l)
        /\ B["k"] = Left(call, "k_rope", l) /\ B["v"] = Left(call, "v", l)
    BY <1>3, MeetsAttention
  <1>5. IF call.kv = NoKv
        THEN call.base = 0 /\ B["k"] = Left(call, "k_rope", l) /\ B["v"] = Left(call, "v", l)
        ELSE /\ call.kv.length = call.base
             /\ \A which \in {"k", "v"} : KeptTo(call.kv, which, l, call.txt, call.base + call.n, B)
    <2>1. CASE call.c = "none"
      <3>1. 1 \in DOMAIN call.todo /\ call.todo[1][1] = "attn"
        <4>1. call.todo \in Seq(Due(call.c # "none")) /\ call.todo # <<>> /\ Head(call.todo) = <<"attn", l>>
          BY DEF AtStep, PassInv, CallOK
        <4>2. \A S : \A s \in Seq(S) : s # <<>> => 1 \in DOMAIN s /\ Head(s) = s[1]
          OBVIOUS
        <4> QED BY <4>1, <4>2
      <3>2. call.kv = NoKv /\ call.base = 0
        BY <2>1, <3>1 DEF AtStep, LaunchInv
      <3> QED BY <1>4, <3>2
    <2>2. CASE call.c # "none"
      <3>1. call.kv = [mem |-> cache[call.c].mem, capacity |-> cache[call.c].capacity,
                       length |-> cache[call.c].length]
        BY <2>2 DEF AtStep, MemInv, RowsInv, Pointers
      <3>2. call.kv.length = call.base
        BY <2>2, <3>1 DEF AtStep, LaunchInv
      <3>3. call.kv # NoKv
        <4>1. DOMAIN call.kv = {"mem", "capacity", "length"} /\ DOMAIN NoKv = {"mem"}
          BY <3>1 DEF NoKv
        <4> QED BY <4>1
      <3>4. KeptBelow(l + 1, B)
        BY <2>2, AppendedAfter DEF AtStep
      <3>5. l \in 0 .. (l + 1) - 1
        BY <1>3
      <3> QED BY <3>2, <3>3, <3>4, <3>5 DEF KeptBelow
    <2> QED BY <2>1, <2>2
  <1>6. Fed(Launched(o), B) /\ Sets(B, "attn", Left(call, "attn", l), D)
    BY <1>1, <1>3, <1>4, <1>5, AfterAttention
  <1>7. D["hidden"] = Left(call, "in", l) /\ D["attn"] = Left(call, "attn", l)
        /\ D["kv"] = B["kv"] /\ D["out"] = B["out"]
    BY <1>4, <1>6, SetsAre
  <1>8. Meets(<<"oproj", l>>, D)
    BY <1>7, MeetsAttention
  <1>9. <<"oproj", l>> = Then(<<"attn", l>>, call.c # "none")
    BY ONLY ThenAttention
  <1>10. Appended(<<"oproj", l>>) = Appended(<<"attn", l>>)
    BY ONLY AppendedAfter
  <1> QED BY <1>1, <1>2, <1>6, <1>7, <1>8, <1>9, <1>10, QuietOne

LEMMA GoesLinear ==
  ASSUME NEW B, NEW s \in {"q", "k", "v", "gate", "up"}, NEW l, AtStep(B, s, l),
         NEW from, Steps[s] = <<Op("quant", "normed", from, s, s), Op("mul", "normed", from, s, s)>>,
         B["normed"] = Left(call, from, l),
         NEW y, y = Then(<<s, l>>, call.c # "none"), Appended(y) = Appended(<<s, l>>),
         \A D : /\ \A b \in Buffers \ {s} : D[b] = B[b]
               /\ D[s] = Left(call, s, l)
               => Meets(y, D)
  PROVE  StepGoes(B)
  <1>1. PICK o, u, C, D : /\ o = Op("quant", "normed", from, s, s) /\ u = Op("mul", "normed", from, s, s)
                          /\ C = After(Launched(o), B) /\ D = After(Launched(u), C)
    OBVIOUS
  <1>2. Head(call.todo)[2] = l /\ s \in Buffers /\ "normed" \in Buffers
    <2>1. Head(call.todo)[2] = l
      BY AtLayer
    <2>2. s \in {"q", "k", "v", "gate", "up"}
      OBVIOUS
    <2> QED BY ONLY <2>1, <2>2, Widths
  <1>3. /\ Fed(Launched(o), B) /\ Sets(B, "arena", Quantised(Launched(o)), C)
        /\ Fed(Launched(u), C) /\ Sets(C, s, Left(call, s, l), D)
    BY <1>1, <1>2, AfterLinear
  <1>4. C["kv"] = B["kv"] /\ C["out"] = B["out"] /\ \A b \in Buffers : C[b] = B[b]
    BY <1>3, SetsAre, Widths
  <1>5. D["kv"] = B["kv"] /\ D["out"] = B["out"]
    BY <1>3, <1>4, SetsAre
  <1>6. D[s] = Left(call, s, l) /\ \A b \in Buffers \ {s} : D[b] = B[b]
    BY <1>2, <1>3, <1>4, PlacesAre DEF Sets
  <1>7. Meets(y, D)
    BY <1>6
  <1>8. s # "final_norm"
    OBVIOUS
  <1>9. Steps[s] = <<o, u>>
    BY <1>1
  <1> QED BY <1>1, <1>3, <1>4, <1>5, <1>7, <1>8, <1>9, QuietTwo

LEMMA GoesProduct ==
  ASSUME NEW B, NEW s \in {"q", "k", "v", "gate", "up"}, NEW l, AtStep(B, s, l)
  PROVE  StepGoes(B)
  <1>1. CASE s = "q"
    <2>1. PICK y : y = <<"k", l>>
      OBVIOUS
    <2>2. Meets(<<"q", l>>, B)
      BY <1>1 DEF AtStep
    <2>3. B["hidden"] = Left(call, "in", l) /\ B["normed"] = Left(call, "normed", l)
      BY <2>2, MeetsRows
    <2>4. ASSUME NEW D, \A b \in Buffers \ {"q"} : D[b] = B[b], D["q"] = Left(call, "q", l)
          PROVE  Meets(y, D)
      <3>1. Meets(<<"k", l>>, D)
        BY <2>3, <2>4, Widths, MeetsRows
      <3> QED BY <2>1, <3>1
    <2>5. y = Then(<<"q", l>>, call.c # "none")
      BY ONLY <2>1, ThenAttention
    <2>6. Appended(y) = Appended(<<"q", l>>)
      BY ONLY <2>1, AppendedBefore
    <2>7. Steps["q"] = <<Op("quant", "normed", "normed", "q", "q"), Op("mul", "normed", "normed", "q", "q")>>
      BY StepKernels
    <2>8. s \in {"q", "k", "v", "gate", "up"} /\ B["normed"] = Left(call, "normed", l)
      BY <2>3
    <2> QED BY <1>1, <2>4, <2>5, <2>6, <2>7, <2>8, GoesLinear
  <1>2. CASE s = "k"
    <2>1. PICK y : y = <<"v", l>>
      OBVIOUS
    <2>2. Meets(<<"k", l>>, B)
      BY <1>2 DEF AtStep
    <2>3. /\ B["hidden"] = Left(call, "in", l)
            /\ B["normed"] = Left(call, "normed", l)
            /\ B["q"] = Left(call, "q", l)
      BY <2>2, MeetsRows
    <2>4. ASSUME NEW D, \A b \in Buffers \ {"k"} : D[b] = B[b], D["k"] = Left(call, "k", l)
          PROVE  Meets(y, D)
      <3>1. Meets(<<"v", l>>, D)
        BY <2>3, <2>4, Widths, MeetsRows
      <3> QED BY <2>1, <3>1
    <2>5. y = Then(<<"k", l>>, call.c # "none")
      BY ONLY <2>1, ThenAttention
    <2>6. Appended(y) = Appended(<<"k", l>>)
      BY ONLY <2>1, AppendedBefore
    <2>7. Steps["k"] = <<Op("quant", "normed", "normed", "k", "k"), Op("mul", "normed", "normed", "k", "k")>>
      BY StepKernels
    <2>8. s \in {"q", "k", "v", "gate", "up"} /\ B["normed"] = Left(call, "normed", l)
      BY <2>3
    <2> QED BY <1>2, <2>4, <2>5, <2>6, <2>7, <2>8, GoesLinear
  <1>3. CASE s = "v"
    <2>1. PICK y : y = <<"qk_norm", l>>
      OBVIOUS
    <2>2. Meets(<<"v", l>>, B)
      BY <1>3 DEF AtStep
    <2>3. /\ B["hidden"] = Left(call, "in", l)
            /\ B["normed"] = Left(call, "normed", l)
            /\ B["q"] = Left(call, "q", l)
            /\ B["k"] = Left(call, "k", l)
      BY <2>2, MeetsRows
    <2>4. ASSUME NEW D, \A b \in Buffers \ {"v"} : D[b] = B[b], D["v"] = Left(call, "v", l)
          PROVE  Meets(y, D)
      <3>1. Meets(<<"qk_norm", l>>, D)
        BY <2>3, <2>4, Widths, MeetsRows
      <3> QED BY <2>1, <3>1
    <2>5. y = Then(<<"v", l>>, call.c # "none")
      BY ONLY <2>1, ThenAttention
    <2>6. Appended(y) = Appended(<<"v", l>>)
      BY ONLY <2>1, AppendedBefore
    <2>7. Steps["v"] = <<Op("quant", "normed", "normed", "v", "v"), Op("mul", "normed", "normed", "v", "v")>>
      BY StepKernels
    <2>8. s \in {"q", "k", "v", "gate", "up"} /\ B["normed"] = Left(call, "normed", l)
      BY <2>3
    <2> QED BY <1>3, <2>4, <2>5, <2>6, <2>7, <2>8, GoesLinear
  <1>4. CASE s = "gate"
    <2>1. PICK y : y = <<"up", l>>
      OBVIOUS
    <2>2. Meets(<<"gate", l>>, B)
      BY <1>4 DEF AtStep
    <2>3. B["hidden"] = Left(call, "mid", l) /\ B["normed"] = Left(call, "mlp_norm", l)
      BY <2>2, MeetsMlp
    <2>4. ASSUME NEW D, \A b \in Buffers \ {"gate"} : D[b] = B[b], D["gate"] = Left(call, "gate", l)
          PROVE  Meets(y, D)
      <3>1. Meets(<<"up", l>>, D)
        BY <2>3, <2>4, Widths, MeetsMlp
      <3> QED BY <2>1, <3>1
    <2>5. y = Then(<<"gate", l>>, call.c # "none")
      BY ONLY <2>1, ThenMlp
    <2>6. Appended(y) = Appended(<<"gate", l>>)
      BY ONLY <2>1, AppendedAfter
    <2>7. Steps["gate"] = <<Op("quant", "normed", "mlp_norm", "gate", "gate"), Op("mul", "normed", "mlp_norm", "gate", "gate")>>
      BY StepKernels
    <2>8. s \in {"q", "k", "v", "gate", "up"} /\ B["normed"] = Left(call, "mlp_norm", l)
      BY <2>3
    <2> QED BY <1>4, <2>4, <2>5, <2>6, <2>7, <2>8, GoesLinear
  <1>5. CASE s = "up"
    <2>1. PICK y : y = <<"act", l>>
      OBVIOUS
    <2>2. Meets(<<"up", l>>, B)
      BY <1>5 DEF AtStep
    <2>3. /\ B["hidden"] = Left(call, "mid", l)
            /\ B["normed"] = Left(call, "mlp_norm", l)
            /\ B["gate"] = Left(call, "gate", l)
      BY <2>2, MeetsMlp
    <2>4. ASSUME NEW D, \A b \in Buffers \ {"up"} : D[b] = B[b], D["up"] = Left(call, "up", l)
          PROVE  Meets(y, D)
      <3>1. Meets(<<"act", l>>, D)
        BY <2>3, <2>4, Widths, MeetsMlp
      <3> QED BY <2>1, <3>1
    <2>5. y = Then(<<"up", l>>, call.c # "none")
      BY ONLY <2>1, ThenMlp
    <2>6. Appended(y) = Appended(<<"up", l>>)
      BY ONLY <2>1, AppendedAfter
    <2>7. Steps["up"] = <<Op("quant", "normed", "mlp_norm", "up", "up"), Op("mul", "normed", "mlp_norm", "up", "up")>>
      BY StepKernels
    <2>8. s \in {"q", "k", "v", "gate", "up"} /\ B["normed"] = Left(call, "mlp_norm", l)
      BY <2>3
    <2> QED BY <1>5, <2>4, <2>5, <2>6, <2>7, <2>8, GoesLinear
  <1> QED BY <1>1, <1>2, <1>3, <1>4, <1>5

LEMMA GoesAdd ==
  ASSUME NEW B, NEW s \in {"oproj", "down"}, NEW l, AtStep(B, s, l),
         NEW src \in Products, NEW from, NEW h \in {"in", "mid"},
         Steps[s] = <<Op("quant", src, from, s, s), Op("mul", src, from, s, s), Op("add", s, s, "hidden", h)>>,
         B[src] = Left(call, from, l), B["hidden"] = Left(call, IF h = "mid" THEN "in" ELSE "mid", l),
         NEW y, y = Then(<<s, l>>, call.c # "none"), Appended(y) = Appended(<<s, l>>),
         \A D : D["hidden"] = Left(call, h, IF h = "in" THEN l + 1 ELSE l) => Meets(y, D)
  PROVE  StepGoes(B)
  <1>1. PICK o, u, w, C, D, E :
           /\ o = Op("quant", src, from, s, s) /\ u = Op("mul", src, from, s, s)
           /\ w = Op("add", s, s, "hidden", h)
           /\ C = After(Launched(o), B) /\ D = After(Launched(u), C) /\ E = After(Launched(w), D)
    OBVIOUS
  <1>2. Head(call.todo)[2] = l /\ s \in Buffers /\ src \in Buffers
    <2>1. Head(call.todo)[2] = l
      BY AtLayer
    <2>2. s \in {"oproj", "down"} /\ src \in {"normed", "attn", "gate"}
      BY DEF Products
    <2> QED BY ONLY <2>1, <2>2, Widths
  <1>3. /\ Fed(Launched(o), B) /\ Sets(B, "arena", Quantised(Launched(o)), C)
        /\ Fed(Launched(u), C) /\ Sets(C, s, Left(call, s, l), D)
    BY <1>1, <1>2, AfterLinear
  <1>4. C["kv"] = B["kv"] /\ C["out"] = B["out"] /\ C["hidden"] = B["hidden"]
    BY <1>3, SetsAre
  <1>5. D["kv"] = B["kv"] /\ D["out"] = B["out"] /\ D["hidden"] = B["hidden"]
    BY <1>3, <1>4, SetsAre
  <1>6. D[s] = Left(call, s, l)
    BY <1>2, <1>3, PlacesAre DEF Sets
  <1>7. D["hidden"] = Left(call, IF h = "mid" THEN "in" ELSE "mid", l)
    BY <1>5
  <1>8. Fed(Launched(w), D) /\ Sets(D, "hidden", Left(call, h, IF h = "in" THEN l + 1 ELSE l), E)
    BY <1>1, <1>2, <1>6, <1>7, AfterAdd
  <1>9. E["kv"] = B["kv"] /\ E["out"] = B["out"]
        /\ E["hidden"] = Left(call, h, IF h = "in" THEN l + 1 ELSE l)
    BY <1>5, <1>8, SetsAre
  <1>10. Meets(y, E)
    BY <1>9
  <1>11. s # "final_norm"
    OBVIOUS
  <1>12. Steps[s] = <<o, u, w>>
    BY <1>1
  <1> QED BY <1>1, <1>3, <1>4, <1>5, <1>8, <1>9, <1>10, <1>11, <1>12, QuietThree

LEMMA GoesSum ==
  ASSUME NEW B, NEW s \in {"oproj", "down"}, NEW l, AtStep(B, s, l)
  PROVE  StepGoes(B)
  <1>1. CASE s = "oproj"
    <2>1. PICK y : y = <<"mlp_norm", l>>
      OBVIOUS
    <2>2. Meets(<<"oproj", l>>, B)
      BY <1>1 DEF AtStep
    <2>3. B["hidden"] = Left(call, "in", l) /\ B["attn"] = Left(call, "attn", l)
      BY <2>2, MeetsAttention
    <2>4. ASSUME NEW D, D["hidden"] = Left(call, "mid", l) PROVE Meets(y, D)
      <3>1. Meets(<<"mlp_norm", l>>, D)
        BY <2>4, MeetsAttention
      <3> QED BY <2>1, <3>1
    <2>5. y = Then(<<"oproj", l>>, call.c # "none")
      BY ONLY <2>1, ThenMlp
    <2>6. Appended(y) = Appended(<<"oproj", l>>)
      BY ONLY <2>1, AppendedAfter
    <2>7. Steps["oproj"] = <<Op("quant", "attn", "attn", "oproj", "oproj"),
                             Op("mul", "attn", "attn", "oproj", "oproj"),
                             Op("add", "oproj", "oproj", "hidden", "mid")>>
      BY StepKernels
    <2>8. "attn" \in Products /\ "mid" \in {"in", "mid"}
      BY DEF Products
    <2>9. B["hidden"] = Left(call, IF "mid" = "mid" THEN "in" ELSE "mid", l)
      BY <2>3
    <2>10. \A D : D["hidden"] = Left(call, "mid", IF "mid" = "in" THEN l + 1 ELSE l) => Meets(y, D)
      BY <2>4
    <2>11. s \in {"oproj", "down"}
      OBVIOUS
    <2> QED BY <1>1, <2>3, <2>5, <2>6, <2>7, <2>8, <2>9, <2>10, <2>11, GoesAdd
  <1>2. CASE s = "down"
    <2>1. PICK y : y = <<"norm", l + 1>>
      OBVIOUS
    <2>2. Meets(<<"down", l>>, B) /\ l \in Nat
      BY <1>2 DEF AtStep
    <2>3. B["hidden"] = Left(call, "mid", l) /\ B["gate"] = Left(call, "act", l)
      BY <2>2, MeetsMlp
    <2>4. ASSUME NEW D, D["hidden"] = Left(call, "in", l + 1) PROVE Meets(y, D)
      <3>1. PICK m : m = l + 1
        OBVIOUS
      <3>2. Meets(<<"norm", m>>, D)
        BY <2>4, <3>1, MeetsEnds
      <3> QED BY <2>1, <3>1, <3>2
    <2>5. y = Then(<<"down", l>>, call.c # "none")
      BY ONLY <2>1, ThenMlp
    <2>6. Appended(y) = Appended(<<"down", l>>)
      <3>1. PICK m : m = l + 1
        OBVIOUS
      <3>2. Appended(<<"norm", m>>) = m
        BY ONLY AppendedBefore
      <3>3. Appended(<<"down", l>>) = l + 1
        BY ONLY AppendedAfter
      <3> QED BY ONLY <2>1, <3>1, <3>2, <3>3
    <2>7. Steps["down"] = <<Op("quant", "gate", "act", "down", "down"),
                            Op("mul", "gate", "act", "down", "down"),
                            Op("add", "down", "down", "hidden", "in")>>
      BY StepKernels
    <2>8. "gate" \in Products /\ "in" \in {"in", "mid"}
      BY DEF Products
    <2>9. B["hidden"] = Left(call, IF "in" = "mid" THEN "in" ELSE "mid", l)
      BY <2>3
    <2>10. \A D : D["hidden"] = Left(call, "in", IF "in" = "in" THEN l + 1 ELSE l) => Meets(y, D)
      BY <2>4
    <2> QED BY <1>2, <2>3, <2>5, <2>6, <2>7, <2>8, <2>9, <2>10, GoesAdd
  <1> QED BY <1>1, <1>2

\* Two kernels that each take a buffer on.
LEMMA GoesPair ==
  ASSUME NEW B, NEW s \in {"qk_norm", "rope"}, NEW l, AtStep(B, s, l)
  PROVE  StepGoes(B)
  <1>1. PICK kind, q, k, qTo, kTo, z :
           /\ kind = (IF s = "rope" THEN "rope" ELSE "map")
           /\ q = (IF s = "rope" THEN "q_norm" ELSE "q") /\ k = (IF s = "rope" THEN "k_norm" ELSE "k")
           /\ qTo = (IF s = "rope" THEN "q_rope" ELSE "q_norm")
           /\ kTo = (IF s = "rope" THEN "k_rope" ELSE "k_norm")
           /\ z = (IF s = "rope" THEN IF call.c # "none" THEN "append" ELSE "attn" ELSE "rope")
    OBVIOUS
  <1>2. PICK o, u, C, D : /\ o = Op(kind, "q", q, "q", qTo) /\ u = Op(kind, "k", k, "k", kTo)
                          /\ C = After(Launched(o), B) /\ D = After(Launched(u), C)
    OBVIOUS
  <1>3. Head(call.todo)[2] = l /\ Meets(<<s, l>>, B) /\ "q" \in Buffers /\ "k" \in Buffers
        /\ kind \in {"map", "rope"}
    <2>1. Head(call.todo)[2] = l /\ Meets(<<s, l>>, B)
      BY AtLayer DEF AtStep
    <2>2. kind \in {"map", "rope"}
      BY ONLY <1>1
    <2> QED BY ONLY <2>1, <2>2, Widths
  <1>4. Steps[s] = <<o, u>>
    BY <1>1, <1>2, StepKernels
  <1>5. /\ B["hidden"] = Left(call, "in", l) /\ B["q"] = Left(call, q, l)
        /\ B["k"] = Left(call, k, l) /\ B["v"] = Left(call, "v", l)
    <2>1. CASE s = "qk_norm"
      <3>1. q = "q" /\ k = "k"
        BY ONLY <1>1, <2>1
      <3>2. Meets(<<"qk_norm", l>>, B)
        BY ONLY <1>3, <2>1
      <3> QED BY ONLY <3>1, <3>2, MeetsRows
    <2>2. CASE s = "rope"
      <3>1. q = "q_norm" /\ k = "k_norm"
        BY ONLY <1>1, <2>2
      <3>2. Meets(<<"rope", l>>, B)
        BY ONLY <1>3, <2>2
      <3> QED BY ONLY <3>1, <3>2, MeetsRows
    <2> QED BY <2>1, <2>2
  <1>6. Fed(Launched(o), B) /\ Sets(B, "q", Left(call, qTo, l), C)
    BY <1>2, <1>3, <1>5, AfterMap
  <1>7. /\ C["hidden"] = Left(call, "in", l) /\ C["q"] = Left(call, qTo, l)
        /\ C["k"] = Left(call, k, l) /\ C["v"] = Left(call, "v", l)
        /\ C["kv"] = B["kv"] /\ C["out"] = B["out"]
    BY <1>5, <1>6, SetsAre
  <1>8. Fed(Launched(u), C) /\ Sets(C, "k", Left(call, kTo, l), D)
    BY <1>2, <1>3, <1>7, AfterMap
  <1>9. /\ D["hidden"] = Left(call, "in", l) /\ D["q"] = Left(call, qTo, l)
        /\ D["k"] = Left(call, kTo, l) /\ D["v"] = Left(call, "v", l)
        /\ D["kv"] = B["kv"] /\ D["out"] = B["out"]
    BY <1>7, <1>8, SetsAre
  <1>10. Meets(<<z, l>>, D)
    <2>1. CASE s = "qk_norm"
      <3>1. z = "rope" /\ qTo = "q_norm" /\ kTo = "k_norm"
        BY <1>1, <2>1
      <3>2. Meets(<<"rope", l>>, D)
        BY <1>9, <3>1, MeetsRows
      <3> QED BY <3>1, <3>2
    <2>2. CASE s = "rope"
      <3>1. z \in {"append", "attn"} /\ qTo = "q_rope" /\ kTo = "k_rope"
        BY <1>1, <2>2
      <3>2. Meets(<<"append", l>>, D) /\ Meets(<<"attn", l>>, D)
        BY <1>9, <3>1, MeetsAttention
      <3> QED BY <3>1, <3>2
    <2> QED BY <2>1, <2>2
  <1>11. <<z, l>> = Then(<<s, l>>, call.c # "none")
    <2>1. CASE s = "qk_norm"
      <3>1. z = "rope"
        BY <1>1, <2>1
      <3> QED BY ONLY <2>1, <3>1, ThenAttention
    <2>2. CASE s = "rope"
      <3>1. CASE call.c # "none"
        <4>1. z = "append"
          BY <1>1, <2>2, <3>1
        <4> QED BY ONLY <2>2, <3>1, <4>1, ThenRope
      <3>2. CASE ~(call.c # "none")
        <4>1. z = "attn"
          BY <1>1, <2>2, <3>2
        <4> QED BY ONLY <2>2, <3>2, <4>1, ThenRope
      <3> QED BY <3>1, <3>2
    <2> QED BY <2>1, <2>2
  <1>12. call.c # "none" => Appended(<<z, l>>) = Appended(<<s, l>>)
    <2>1. SUFFICES ASSUME call.c # "none" PROVE Appended(<<z, l>>) = Appended(<<s, l>>)
      OBVIOUS
    <2>2. z \in {"append", "rope"}
      BY <1>1, <2>1
    <2>3. Appended(<<z, l>>) = l
      BY ONLY <2>2, AppendedBefore
    <2>4. s \in {"qk_norm", "rope"}
      OBVIOUS
    <2>5. Appended(<<s, l>>) = l
      BY ONLY <2>4, AppendedBefore
    <2> QED BY <2>3, <2>5
  <1>13. s # "final_norm"
    OBVIOUS
  <1> QED BY <1>2, <1>4, <1>6, <1>7, <1>8, <1>9, <1>10, <1>11, <1>12, <1>13, QuietTwo

\* The final norm and the row of the last token.
LEMMA GoesFinalNorm ==
  ASSUME NEW B, NEW l, AtStep(B, "final_norm", l)
  PROVE  StepGoes(B)
  <1>1. PICK o, u, C, D :
           /\ o = Op("map", "hidden", "in", "final", "final")
           /\ u = Op("last", "final", "final", "none", "none")
           /\ C = After(Launched(o), B) /\ D = After(Launched(u), C)
    OBVIOUS
  <1>2. Steps["final_norm"] = <<o, u>>
    BY <1>1, StepKernels
  <1>3. l = Layers
    <2>1. 1 \in DOMAIN call.todo /\ call.todo[1] = <<"final_norm", l>>
      <3>1. call.todo \in Seq(Due(call.c # "none")) /\ call.todo # <<>> /\ Head(call.todo) = <<"final_norm", l>>
        BY DEF AtStep, PassInv, CallOK
      <3>2. \A S : \A s \in Seq(S) : s # <<>> => 1 \in DOMAIN s /\ Head(s) = s[1]
        OBVIOUS
      <3> QED BY <3>1, <3>2
    <2>2. <<"final_norm", l>>[1] = "final_norm" /\ <<"final_norm", l>>[2] = l
      OBVIOUS
    <2>3. InPlace(call.todo)
      BY DEF AtStep, LaunchInv
    <2> QED BY ONLY <2>1, <2>2, <2>3 DEF InPlace
  <1>4. /\ Head(call.todo) = <<"final_norm", l>> /\ Head(call.todo)[2] = l /\ Head(call.todo)[1] = "final_norm"
        /\ PassInv /\ call # Idle /\ call.todo # <<>> /\ CachesKeep(B) /\ Step = "final_norm"
        /\ call.c # "none" => KeptBelow(Appended(<<"final_norm", l>>), B)
    BY DEF AtStep, Step
  <1>5. B["hidden"] = Left(call, "in", l)
    BY MeetsEnds DEF AtStep
  <1>6. Fed(Launched(o), B) /\ Sets(B, "final", Left(call, "final", l), C)
    BY <1>1, <1>4, <1>5, Widths, AfterMap
  <1>7. C["kv"] = B["kv"] /\ C["hidden"] = B["hidden"] /\ C["final"] = Left(call, "final", l)
    BY <1>6, SetsAre
  <1>8. Fed(Launched(u), C) /\ Sets(C, "out", Left(call, "final", l), D)
    BY <1>1, <1>4, <1>7, AfterLast
  <1>9. D["kv"] = B["kv"] /\ D["hidden"] = B["hidden"] /\ D["out"] = Left(call, "final", l)
    BY <1>7, <1>8, SetsAre
  <1>10. Meets(<<"norm", l>>, D)
    BY <1>5, <1>9, MeetsEnds
  <1>11. Then(Head(call.todo), call.c # "none") = <<"norm", l>>
    <2>1. <<"norm", l>> = Then(<<"final_norm", l>>, call.c # "none")
      BY ONLY ThenStarts
    <2> QED BY <1>4, <2>1
  <1>12. Appended(<<"norm", l>>) = Appended(<<"final_norm", l>>)
    BY ONLY AppendedBefore
  <1>13. call.c # "none" => KeptBelow(Appended(<<"norm", l>>), D)
    BY <1>4, <1>9, <1>12, KeptSame
  <1>14. D["out"] = Left(call, "final", Layers)
    BY <1>3, <1>9
  <1>15. Reached(B, D)
    BY ONLY <1>4, <1>10, <1>11, <1>13, <1>14 DEF Reached
  <1>16. PICK p : p = <<o, u>>
    OBVIOUS
  <1>17. Len(p) = 2 /\ p[1] = o /\ p[2] = u /\ p = Steps[Step]
    BY <1>2, <1>4, <1>16
  <1>18. OpsNow(2, p)
    BY <1>4, <1>17, OpsAre
  <1>19. CachesKeep(C)
    BY <1>4, <1>7, KeptSame
  <1>20. CachesKeep(D)
    BY <1>4, <1>9, KeptSame
  <1>21. C = After(Launched(p[1]), B)
    BY <1>1, <1>17
  <1>22. Fed(Launched(p[1]), B)
    BY <1>6, <1>17
  <1>23. D = After(Launched(p[2]), C)
    BY <1>1, <1>17
  <1>24. Fed(Launched(p[2]), C)
    BY <1>8, <1>17
  <1>25. CachesKeep(B)
    BY <1>4
  <1> QED BY ONLY <1>15, <1>18, <1>19, <1>20, <1>21, <1>22, <1>23, <1>24, <1>25, GoesTwo

\* The cache that a pass appends to.
LEMMA AppendsTo ==
  ASSUME PassInv, MemInv, LaunchInv, call # Idle, call.c # "none"
  PROVE  /\ call.c \in Held /\ cache[call.c].capacity \in Nat \ {0} /\ cache[call.c].length \in Nat
         /\ call.n \in Nat \ {0}
         /\ call.kv.mem = cache[call.c].mem /\ call.kv.capacity = cache[call.c].capacity
         /\ call.kv.length = cache[call.c].length
         /\ call.base = cache[call.c].length /\ call.txt = cache[call.c].txt
         /\ cache[call.c].length + call.n <= cache[call.c].capacity
         /\ \A d \in Held : cache[d].length \in 0 .. cache[d].capacity /\ cache[d].capacity \in Nat
         /\ \A d \in Held : cache[d].mem = cache[call.c].mem => d = call.c
  <1>1. call.c \in Held /\ call.kv = Pointers(call.c)
        /\ cache[call.c].length + call.n <= cache[call.c].capacity
    BY DEF MemInv, RowsInv
  <1>2. \A d \in Held : HeldOK(cache[d])
    BY DEF MemInv, CacheInv
  <1>3. \A d \in Held : cache[d].mem = cache[call.c].mem => d = call.c
    BY <1>1 DEF MemInv, CacheInv
  <1>4. \A d \in Held : cache[d].length \in 0 .. cache[d].capacity /\ cache[d].capacity \in Nat \ {0}
    BY <1>2 DEF HeldOK
  <1>5. call.n \in 1 .. rt[call.r].tokens /\ rt[call.r].tokens \in Nat
    BY DEF PassInv, CallOK, RuntimesOK, RuntimeOK
  <1>6. call.n \in Nat \ {0}
    BY ONLY <1>5
  <1>7. call.kv = [mem |-> cache[call.c].mem, capacity |-> cache[call.c].capacity,
                   length |-> cache[call.c].length]
    BY <1>1 DEF Pointers
  <1>8. call.kv.mem = cache[call.c].mem /\ call.kv.capacity = cache[call.c].capacity
        /\ call.kv.length = cache[call.c].length
    BY <1>7
  <1>9. call.base = cache[call.c].length /\ call.txt = cache[call.c].txt
    BY DEF LaunchInv
  <1>10. cache[call.c].capacity \in Nat \ {0} /\ cache[call.c].length \in Nat
    <2>1. \A a \in Nat : \A b \in 0 .. a : b \in Nat
      OBVIOUS
    <2> QED BY <1>1, <1>4, <2>1
  <1>11. \A d \in Held : cache[d].length \in 0 .. cache[d].capacity /\ cache[d].capacity \in Nat
    BY <1>4
  <1> QED BY ONLY <1>1, <1>3, <1>6, <1>8, <1>9, <1>10, <1>11

\* One of the two appends of a layer leaves what caches have, and the other's rows.
LEMMA AppendOne ==
  ASSUME PassInv, MemInv, LaunchInv, call # Idle, call.c # "none",
         NEW l \in 0 .. Layers - 1, Head(call.todo)[2] = l,
         NEW which \in {"k", "v"}, NEW o,
         o = Op("append", which, IF which = "k" THEN "k_rope" ELSE "v", "none", "none"),
         NEW B, CachesKeep(B), NEW C, C = After(Launched(o), B)
  PROVE  /\ CachesKeep(C)
         /\ KeptBelow(l, B) => KeptBelow(l, C)
         /\ KeptTo(call.kv, which, l, call.txt, call.base + call.n, C)
         /\ \A w \in {"k", "v"} \ {which} :
               KeptTo(call.kv, w, l, call.txt, call.base + call.n, B)
               => KeptTo(call.kv, w, l, call.txt, call.base + call.n, C)
         /\ \A p \in Places \ {"kv"} : C[p] = B[p]
  <1>1. PICK c, cap, len, n : c = call.c /\ cap = cache[c].capacity /\ len = cache[c].length /\ n = call.n
    OBVIOUS
  <1>2. /\ c \in Held /\ cap \in Nat \ {0} /\ len \in Nat /\ n \in Nat \ {0}
        /\ call.kv.mem = cache[c].mem /\ call.kv.capacity = cap /\ call.kv.length = len
        /\ call.base = len /\ call.txt = cache[c].txt /\ len + n <= cap
        /\ \A d \in Held : cache[d].length \in 0 .. cache[d].capacity /\ cache[d].capacity \in Nat
        /\ \A d \in Held : cache[d].mem = cache[c].mem => d = c
    <2>1. PassInv /\ MemInv /\ LaunchInv
      OBVIOUS
    <2> QED BY <1>1, AppendsTo
  <1>3. PICK k : k = Launched(o)
    OBVIOUS
  <1>4. /\ k.op = o /\ k.layer = l /\ k.n = n /\ k.base = len /\ k.txt = call.txt /\ k.kv = call.kv
    BY <1>1, <1>2, <1>3, LaunchedIs
  <1>5. o.kind = "append" /\ o.src = which /\ o.from = (IF which = "k" THEN "k_rope" ELSE "v")
    BY OpFields
  <1>6. C = After(k, B)
    BY <1>3
  <1>7. /\ \A kv : \A w \in {"k", "v"} : \A m \in 0 .. Layers - 1 : \A txt : \A i \in 0 .. kv.capacity - 1 :
               /\ kv.mem = k.kv.mem => /\ kv.capacity = k.kv.capacity
                                       /\ w = k.op.src /\ m = k.layer => i < k.kv.length
               /\ Kept(kv, w, m, txt, i) \in B["kv"]
               => Kept(kv, w, m, txt, i) \in C["kv"]
        /\ k.op.from = (IF k.op.src = "k" THEN "k_rope" ELSE "v") =>
               \A j \in k.kv.length .. k.kv.length + k.n - 1 :
                  Kept(k.kv, k.op.src, k.layer, k.txt, j) \in C["kv"]
        /\ \A p \in Places \ {"kv"} : C[p] = B[p]
    <2>1. k.op.kind = "append"
      BY <1>4, <1>5
    <2>2. k.op.src \in {"k", "v"}
      BY <1>4, <1>5
    <2>3. k.kv.capacity \in Nat \ {0}
      BY <1>2, <1>4
    <2>4. k.kv.length \in Nat
      BY <1>2, <1>4
    <2>5. k.n \in Nat
      BY <1>2, <1>4
    <2>6. k.kv.length + k.n <= k.kv.capacity
      BY <1>2, <1>4
    <2>7. k.layer \in 0 .. Layers - 1
      BY <1>4
    <2>8. k.base = k.kv.length
      BY <1>2, <1>4
    <2> QED BY ONLY <1>6, <2>1, <2>2, <2>3, <2>4, <2>5, <2>6, <2>7, <2>8, AfterAppend
  <1>8. \A kv : \A w \in {"k", "v"} : \A m \in 0 .. Layers - 1 : \A txt : \A i \in 0 .. kv.capacity - 1 :
           /\ kv.mem = call.kv.mem => /\ kv.capacity = cap
                                      /\ w = which /\ m = l => i < len
           /\ Kept(kv, w, m, txt, i) \in B["kv"]
           => Kept(kv, w, m, txt, i) \in C["kv"]
    BY ONLY <1>2, <1>4, <1>5, <1>7
  <1>9. \A j \in len .. len + n - 1 : Kept(call.kv, which, l, call.txt, j) \in C["kv"]
    BY ONLY <1>2, <1>4, <1>5, <1>7
  <1>10. CachesKeep(C)
    <2> SUFFICES ASSUME NEW d \in Held, NEW m \in 0 .. Layers - 1, NEW w \in {"k", "v"},
                        NEW i \in 0 .. cache[d].length - 1
                 PROVE  Kept(cache[d], w, m, cache[d].txt, i) \in C["kv"]
      BY DEF CachesKeep, KeptTo
    <2>1. Kept(cache[d], w, m, cache[d].txt, i) \in B["kv"]
      BY DEF CachesKeep, KeptTo
    <2>2. i \in 0 .. cache[d].capacity - 1
      <3>1. \A a \in Nat : \A b \in 0 .. a : \A e \in 0 .. b - 1 : e \in 0 .. a - 1
        OBVIOUS
      <3> QED BY <1>2, <3>1
    <2>3. cache[d].mem = call.kv.mem => cache[d].capacity = cap /\ i < len
      <3>1. \A a \in Nat : \A e \in 0 .. a - 1 : e < a
        OBVIOUS
      <3>2. cache[d].mem = call.kv.mem => d = c
        BY <1>2
      <3>3. d = c => cache[d].capacity = cap /\ cache[d].length = len
        BY <1>1
      <3> QED BY <1>2, <3>1, <3>2, <3>3
    <2> QED BY <1>8, <2>1, <2>2, <2>3
  <1>11. \A i \in 0 .. (call.base + call.n) - 1 : i \in 0 .. call.kv.capacity - 1
    BY <1>1, <1>2
  <1>12. KeptBelow(l, B) => KeptBelow(l, C)
    <2> SUFFICES ASSUME KeptBelow(l, B), NEW m \in 0 .. l - 1, NEW w \in {"k", "v"},
                        NEW i \in 0 .. (call.base + call.n) - 1
                 PROVE  Kept(call.kv, w, m, call.txt, i) \in C["kv"]
      BY DEF KeptBelow, KeptTo
    <2>1. Kept(call.kv, w, m, call.txt, i) \in B["kv"]
      BY DEF KeptBelow, KeptTo
    <2>2. m \in 0 .. Layers - 1 /\ m # l
      BY Constants
    <2> QED BY <1>2, <1>8, <1>11, <2>1, <2>2
  <1>13. KeptTo(call.kv, which, l, call.txt, call.base + call.n, C)
    <2> SUFFICES ASSUME NEW i \in 0 .. (call.base + call.n) - 1
                 PROVE  Kept(call.kv, which, l, call.txt, i) \in C["kv"]
      BY DEF KeptTo
    <2>1. i \in 0 .. len - 1 \/ i \in len .. len + n - 1
      <3>1. \A a, b \in Nat : \A e \in 0 .. (a + b) - 1 : e \in 0 .. a - 1 \/ e \in a .. a + b - 1
        OBVIOUS
      <3> QED BY <1>1, <1>2, <3>1
    <2>2. CASE i \in len .. len + n - 1
      BY <1>9, <2>2
    <2>3. CASE i \in 0 .. len - 1
      <3>1. Kept(cache[c], which, l, cache[c].txt, i) \in C["kv"]
        BY <1>1, <1>2, <1>10, <2>3 DEF CachesKeep, KeptTo
      <3>2. Kept(cache[c], which, l, cache[c].txt, i) = Kept(call.kv, which, l, call.txt, i)
        BY <1>1, <1>2 DEF Kept, CacheRow
      <3> QED BY <3>1, <3>2
    <2> QED BY <2>1, <2>2, <2>3
  <1>14. ASSUME NEW w \in {"k", "v"} \ {which}, KeptTo(call.kv, w, l, call.txt, call.base + call.n, B)
         PROVE  KeptTo(call.kv, w, l, call.txt, call.base + call.n, C)
    <2> SUFFICES ASSUME NEW i \in 0 .. (call.base + call.n) - 1
                 PROVE  Kept(call.kv, w, l, call.txt, i) \in C["kv"]
      BY DEF KeptTo
    <2>1. Kept(call.kv, w, l, call.txt, i) \in B["kv"]
      BY <1>14 DEF KeptTo
    <2> QED BY <1>2, <1>8, <1>11, <2>1
  <1> QED BY ONLY <1>7, <1>10, <1>12, <1>13, <1>14

LEMMA GoesAppend ==
  ASSUME NEW B, NEW l, AtStep(B, "append", l)
  PROVE  StepGoes(B)
  <1>1. PICK o, u, C, D :
           /\ o = Op("append", "k", "k_rope", "none", "none") /\ u = Op("append", "v", "v", "none", "none")
           /\ C = After(Launched(o), B) /\ D = After(Launched(u), C)
    OBVIOUS
  <1>2. Steps["append"] = <<o, u>>
    BY <1>1, StepKernels
  <1>3. /\ Head(call.todo) = <<"append", l>> /\ Head(call.todo)[2] = l /\ Head(call.todo)[1] = "append"
        /\ PassInv /\ MemInv /\ LaunchInv /\ call # Idle /\ call.todo # <<>> /\ CachesKeep(B) /\ Step = "append"
        /\ call.c # "none" => KeptBelow(Appended(<<"append", l>>), B)
        /\ l \in 0 .. Layers
    BY DEF AtStep, Step
  <1>4. call.c # "none" /\ l \in 0 .. Layers - 1
    <2>1. call.todo \in Seq(Due(call.c # "none"))
      BY <1>3 DEF PassInv, CallOK
    <2>2. <<"append", l>> \in Due(call.c # "none")
      <3>1. \A S : \A s \in Seq(S) : s # <<>> => Head(s) \in S
        OBVIOUS
      <3> QED BY <1>3, <2>1, <3>1
    <2>3. <<"append", l>>[1] = "append" /\ <<"append", l>>[2] = l
      OBVIOUS
    <2>4. call.c # "none" /\ l < Layers
      BY <2>2, <2>3 DEF Due
    <2> QED BY <1>3, <2>4, Constants
  <1>5. KeptBelow(l, B)
    BY ONLY <1>3, <1>4, AppendedBefore
  <1>6. /\ B["hidden"] = Left(call, "in", l) /\ B["q"] = Left(call, "q_rope", l)
        /\ B["k"] = Left(call, "k_rope", l) /\ B["v"] = Left(call, "v", l)
    BY MeetsAttention DEF AtStep
  <1>7. /\ CachesKeep(C) /\ KeptBelow(l, C) /\ KeptTo(call.kv, "k", l, call.txt, call.base + call.n, C)
        /\ \A p \in Places \ {"kv"} : C[p] = B[p]
    <2>1. "k" \in {"k", "v"} /\ o = Op("append", "k", IF "k" = "k" THEN "k_rope" ELSE "v", "none", "none")
      BY <1>1
    <2>2. C = After(Launched(o), B)
      BY <1>1
    <2> QED BY <1>3, <1>4, <1>5, <2>1, <2>2, AppendOne
  <1>8. /\ CachesKeep(D) /\ KeptBelow(l, D) /\ KeptTo(call.kv, "v", l, call.txt, call.base + call.n, D)
        /\ KeptTo(call.kv, "k", l, call.txt, call.base + call.n, D)
        /\ \A p \in Places \ {"kv"} : D[p] = C[p]
    <2>1. "v" \in {"k", "v"} /\ u = Op("append", "v", IF "v" = "k" THEN "k_rope" ELSE "v", "none", "none")
      BY <1>1
    <2>2. D = After(Launched(u), C)
      BY <1>1
    <2>3. "k" \in {"k", "v"} \ {"v"}
      OBVIOUS
    <2> QED BY <1>3, <1>4, <1>7, <2>1, <2>2, <2>3, AppendOne
  <1>9. {"hidden", "q", "k", "v", "out"} \subseteq Places \ {"kv"}
    BY Widths, PlacesAre
  <1>10. /\ D["hidden"] = Left(call, "in", l) /\ D["q"] = Left(call, "q_rope", l)
         /\ D["k"] = Left(call, "k_rope", l) /\ D["v"] = Left(call, "v", l) /\ D["out"] = B["out"]
         /\ C["v"] = Left(call, "v", l)
    BY <1>6, <1>7, <1>8, <1>9
  <1>11. Meets(<<"attn", l>>, D)
    BY <1>10, MeetsAttention
  <1>12. Then(Head(call.todo), call.c # "none") = <<"attn", l>>
    <2>1. <<"attn", l>> = Then(<<"append", l>>, call.c # "none")
      BY ONLY ThenAttention
    <2> QED BY <1>3, <2>1
  <1>13. KeptBelow(l + 1, D)
    <2> SUFFICES ASSUME NEW m \in 0 .. (l + 1) - 1, NEW w \in {"k", "v"}
                 PROVE  KeptTo(call.kv, w, m, call.txt, call.base + call.n, D)
      BY DEF KeptBelow
    <2>1. CASE m \in 0 .. l - 1
      BY <1>8, <2>1 DEF KeptBelow
    <2>2. CASE m = l
      BY <1>8, <2>2
    <2> QED BY <1>3, <2>1, <2>2, Constants
  <1>14. KeptBelow(Appended(<<"attn", l>>), D)
    BY ONLY <1>13, AppendedAfter
  <1>15. Reached(B, D)
    <2>1. Head(call.todo)[1] # "final_norm"
      BY <1>3
    <2> QED BY ONLY <1>10, <1>11, <1>12, <1>14, <2>1 DEF Reached
  <1>16. PICK p : p = <<o, u>>
    OBVIOUS
  <1>17. Len(p) = 2 /\ p[1] = o /\ p[2] = u /\ p = Steps[Step]
    BY <1>2, <1>3, <1>16
  <1>18. OpsNow(2, p)
    BY <1>3, <1>17, OpsAre
  <1>19. C = After(Launched(p[1]), B)
    BY <1>1, <1>17
  <1>20. Fed(Launched(p[1]), B)
    <2>1. o.kind = "append" /\ o.src = "k" /\ o.from = "k_rope"
      BY <1>1, OpFields
    <2>2. Fed(Launched(o), B)
      BY <1>3, <1>6, <2>1, LaunchedIs DEF Fed
    <2> QED BY <1>17, <2>2
  <1>21. D = After(Launched(p[2]), C)
    BY <1>1, <1>17
  <1>22. Fed(Launched(p[2]), C)
    <2>1. u.kind = "append" /\ u.src = "v" /\ u.from = "v"
      BY <1>1, OpFields
    <2>2. Fed(Launched(u), C)
      BY <1>3, <1>10, <2>1, LaunchedIs DEF Fed
    <2> QED BY <1>17, <2>2
  <1>23. CachesKeep(B) /\ CachesKeep(C) /\ CachesKeep(D)
    BY <1>3, <1>7, <1>8
  <1>24. CachesKeep(B)
    BY <1>23
  <1>25. CachesKeep(C)
    BY <1>23
  <1>26. CachesKeep(D)
    BY <1>23
  <1> QED BY ONLY <1>15, <1>18, <1>19, <1>20, <1>21, <1>22, <1>24, <1>25, <1>26, GoesTwo

\* Each step leaves what the next one counts on.
LEMMA StepGoesOn ==
  ASSUME PassInv, MemInv, LaunchInv, call # Idle, call.todo # <<>>, NEW B, CachesKeep(B), PassKeeps(B)
  PROVE  StepGoes(B)
  <1>1. Head(call.todo) \in Due(call.c # "none")
    BY StepOfPass
  <1>2. PICK s, l : Head(call.todo) = <<s, l>> /\ s \in StepNames /\ l \in 0 .. Layers
    BY <1>1 DEF Due
  <1>3. Upcoming = <<s, l>>
    BY <1>2 DEF Upcoming
  <1>4. Meets(<<s, l>>, B)
    BY <1>3 DEF PassKeeps
  <1>5. call.c # "none" => KeptBelow(Appended(<<s, l>>), B)
    BY <1>3 DEF PassKeeps
  <1>6. AtStep(B, s, l)
    BY <1>2, <1>4, <1>5 DEF AtStep
  <1>7. s \in {"embed", "norm", "q", "k", "v", "qk_norm", "rope", "append", "attn", "oproj",
               "mlp_norm", "gate", "up", "act", "down", "final_norm", "cand"}
    BY <1>2, StepsAre
  <1>8. CASE s = "embed"
    <2>1. AtStep(B, "embed", l)
      BY <1>6, <1>8
    <2> QED BY <2>1, GoesEmbed
  <1>9. CASE s \in {"norm", "mlp_norm"}
    BY <1>6, <1>9, GoesNorm
  <1>10. CASE s \in {"q", "k", "v", "gate", "up"}
    BY <1>6, <1>10, GoesProduct
  <1>11. CASE s \in {"qk_norm", "rope"}
    BY <1>6, <1>11, GoesPair
  <1>12. CASE s = "append"
    <2>1. AtStep(B, "append", l)
      BY <1>6, <1>12
    <2> QED BY <2>1, GoesAppend
  <1>13. CASE s = "attn"
    <2>1. AtStep(B, "attn", l)
      BY <1>6, <1>13
    <2> QED BY <2>1, GoesAttention
  <1>14. CASE s \in {"oproj", "down"}
    BY <1>6, <1>14, GoesSum
  <1>15. CASE s = "act"
    <2>1. AtStep(B, "act", l)
      BY <1>6, <1>15
    <2> QED BY <2>1, GoesAct
  <1>16. CASE s = "final_norm"
    <2>1. AtStep(B, "final_norm", l)
      BY <1>6, <1>16
    <2> QED BY <2>1, GoesFinalNorm
  <1>17. CASE s = "cand"
    <2>1. AtStep(B, "cand", l)
      BY <1>6, <1>17
    <2> QED BY <2>1, GoesCand
  <1> QED BY ONLY <1>7, <1>8, <1>9, <1>10, <1>11, <1>12, <1>13, <1>14, <1>15, <1>16, <1>17

-----------------------------------------------------------------------------
(* The steps of a pass follow one another.                                 *)

LEMMA LinkedJoin ==
  ASSUME NEW S, NEW s \in Seq(S), NEW t \in Seq(S), NEW x, NEW y, NEW z, NEW cached,
         Linked(s, x, y, cached), Linked(t, y, z, cached)
  PROVE  Linked(s \o t, x, z, cached)
  <1>1. PICK v : v = s \o t
    OBVIOUS
  <1>2. /\ v \in Seq(S) /\ Len(v) = Len(s) + Len(t) /\ Len(s) \in Nat /\ Len(t) \in Nat
        /\ \A i \in 1 .. Len(s) : v[i] = s[i]
        /\ \A j \in 1 .. Len(t) : v[Len(s) + j] = t[j]
    BY ONLY <1>1, s \in Seq(S), t \in Seq(S), Joined2
  <1>3. PICK m, n \in Nat : m = Len(s) /\ n = Len(t)
    BY <1>2
  <1>4. /\ m = 0 <=> s = <<>>
        /\ n = 0 <=> t = <<>>
        /\ m + n = 0 <=> v = <<>>
    BY <1>2, <1>3
  <1>5. /\ m = 0 => x = y
        /\ m # 0 => s[1] = x
        /\ \A i \in 1 .. m : Then(s[i], cached) = IF i = m THEN y ELSE s[i + 1]
    BY ONLY <1>3, <1>4, Linked(s, x, y, cached) DEF Linked
  <1>6. /\ n = 0 => y = z
        /\ n # 0 => t[1] = y
        /\ \A i \in 1 .. n : Then(t[i], cached) = IF i = n THEN z ELSE t[i + 1]
    BY ONLY <1>3, <1>4, Linked(t, y, z, cached) DEF Linked
  <1>7. /\ Len(v) = m + n
        /\ \A i \in 1 .. m : v[i] = s[i]
        /\ \A j \in 1 .. n : v[m + j] = t[j]
    BY ONLY <1>2, <1>3
  <1>8. v = <<>> => x = z
    BY ONLY <1>3, <1>4, <1>5, <1>6
  <1>9. v # <<>> => v[1] = x
    <2>1. CASE m = 0
      <3>1. m + 1 = 1
        BY <2>1
      <3>2. n # 0 => 1 \in 1 .. n
        BY <1>3
      <3>3. n # 0 => v[1] = t[1]
        BY ONLY <1>7, <3>1, <3>2
      <3>4. v # <<>> => n # 0
        BY ONLY <1>3, <1>4, <2>1
      <3> QED BY ONLY <1>5, <1>6, <2>1, <3>3, <3>4
    <2>2. CASE m # 0
      <3>1. 1 \in 1 .. m
        BY ONLY <1>3, <2>2
      <3> QED BY ONLY <1>5, <1>7, <2>2, <3>1
    <2> QED BY <2>1, <2>2
  <1>10. ASSUME NEW i \in 1 .. m + n
         PROVE  Then(v[i], cached) = IF i = m + n THEN z ELSE v[i + 1]
    <2>1. CASE i < m
      <3>1. i \in 1 .. m /\ i + 1 \in 1 .. m /\ i # m /\ i # m + n
        BY ONLY <1>3, <2>1, i \in 1 .. m + n
      <3> QED BY ONLY <1>5, <1>7, <3>1
    <2>2. CASE i = m
      <3>1. i \in 1 .. m
        BY ONLY <1>3, <2>2, i \in 1 .. m + n
      <3>2. Then(v[i], cached) = y
        BY ONLY <1>5, <1>7, <2>2, <3>1
      <3>3. CASE n = 0
        <4>1. i = m + n
          BY ONLY <1>3, <2>2, <3>3
        <4> QED BY ONLY <1>6, <3>2, <3>3, <4>1
      <3>4. CASE n # 0
        <4>1. i # m + n /\ 1 \in 1 .. n
          BY ONLY <1>3, <2>2, <3>4
        <4>2. v[i + 1] = t[1]
          BY ONLY <1>7, <2>2, <4>1
        <4> QED BY ONLY <1>6, <3>2, <3>4, <4>1, <4>2
      <3> QED BY <3>3, <3>4
    <2>3. CASE m < i
      <3>1. PICK j : j = i - m
        OBVIOUS
      <3>2. j \in 1 .. n /\ i = m + j /\ i + 1 = m + (j + 1)
        BY ONLY <1>3, <2>3, <3>1, i \in 1 .. m + n
      <3>3. v[i] = t[j]
        BY ONLY <1>7, <3>2
      <3>4. CASE j = n
        BY ONLY <1>6, <3>2, <3>3, <3>4
      <3>5. CASE j # n
        <4>1. j + 1 \in 1 .. n /\ i # m + n
          BY ONLY <1>3, <3>2, <3>5
        <4>2. v[i + 1] = t[j + 1]
          BY ONLY <1>7, <3>2, <4>1
        <4> QED BY ONLY <1>6, <3>2, <3>3, <3>5, <4>1, <4>2
      <3> QED BY <3>4, <3>5
    <2> QED BY <1>3, <2>1, <2>2, <2>3
  <1>11. Linked(v, x, z, cached)
    BY ONLY <1>7, <1>8, <1>9, <1>10 DEF Linked
  <1> QED BY <1>1, <1>11

LEMMA InPlaceJoin ==
  ASSUME NEW S, NEW s \in Seq(S), NEW t \in Seq(S), InPlace(s), InPlace(t)
  PROVE  InPlace(s \o t)
  <1>1. PICK v : v = s \o t
    OBVIOUS
  <1>2. IsQueue(s)
    BY DEF IsQueue
  <1>3. IsQueue(t)
    BY DEF IsQueue
  <1>4. \A i \in DOMAIN v : (\E j \in DOMAIN s : v[i] = s[j]) \/ (\E j \in DOMAIN t : v[i] = t[j])
    BY <1>1, <1>2, <1>3, QueueAppend
  <1>5. InPlace(v)
    BY <1>4 DEF InPlace
  <1> QED BY <1>1, <1>5

\* Parts that follow one another.
LEMMA LinkedFlat ==
  ASSUME NEW S, NEW s \in Seq(Seq(S)), NEW y, NEW cached, Len(s) > 0,
         \A i \in 1 .. Len(s) : Linked(s[i], y[i], y[i + 1], cached) /\ InPlace(s[i])
  PROVE  Linked(FlattenSeq(s), y[1], y[Len(s) + 1], cached) /\ InPlace(FlattenSeq(s))
  <1> DEFINE n == Len(s)
             f == CHOOSE g : g = [i \in 1 .. n |-> IF i = 1 THEN s[i] ELSE g[i - 1] \o s[i]]
  <1>0. n \in Nat /\ n # 0
    OBVIOUS
  <1>1. f = [i \in 1 .. n |-> IF i = 1 THEN s[i] ELSE f[i - 1] \o s[i]]
    <2>1. \E g : g = [i \in 1 .. n |-> IF i = 1 THEN s[i] ELSE g[i - 1] \o s[i]]
      BY <1>0, FlattenExists
    <2> QED BY <2>1
  <1>2. FlattenSeq(s) = f[n]
    BY <1>0 DEF FlattenSeq
  <1> HIDE DEF f
  <1>4. \A i \in 1 .. n : f[i] = IF i = 1 THEN s[i] ELSE f[i - 1] \o s[i]
    BY <1>1
  <1> DEFINE Good(k) == f[k] \in Seq(S) /\ Linked(f[k], y[1], y[k + 1], cached) /\ InPlace(f[k])
             Bad == {k \in 1 .. n : ~Good(k)}
  <1>5. ASSUME NEW k \in 1 .. n, k # 1 => Good(k - 1) PROVE Good(k)
    <2>0. s[k] \in Seq(S) /\ Linked(s[k], y[k], y[k + 1], cached) /\ InPlace(s[k])
      BY <1>0
    <2>1. CASE k = 1
      <3>1. f[k] = s[k] /\ y[k] = y[1]
        BY <1>4, <2>1
      <3> QED BY <2>0, <3>1
    <2>2. CASE k # 1
      <3>1. Good(k - 1) /\ (k - 1) + 1 = k
        BY <1>5, <2>2
      <3>2. PICK u, v, a, b, c : u = f[k - 1] /\ v = s[k] /\ a = y[1] /\ b = y[k] /\ c = y[k + 1]
        OBVIOUS
      <3>4. f[k] = u \o v
        BY <1>4, <2>2, <3>2
      <3>5. u \in Seq(S)
        BY <3>1, <3>2
      <3>6. v \in Seq(S)
        BY <2>0, <3>2
      <3>7. Linked(u, a, b, cached)
        BY ONLY <3>1, <3>2
      <3>8. Linked(v, b, c, cached)
        BY <2>0, <3>2
      <3>9. InPlace(u)
        BY <3>1, <3>2
      <3>10. InPlace(v)
        BY <2>0, <3>2
      <3>11. Linked(u \o v, a, c, cached)
        BY ONLY <3>5, <3>6, <3>7, <3>8, LinkedJoin
      <3>12. InPlace(u \o v)
        BY ONLY <3>5, <3>6, <3>9, <3>10, InPlaceJoin
      <3>13. u \o v \in Seq(S)
        BY ONLY <3>5, <3>6
      <3> QED BY ONLY <3>2, <3>4, <3>11, <3>12, <3>13
    <2> QED BY <2>1, <2>2
  <1> HIDE DEF Good
  <1>6. Bad = {}
    <2>1. SUFFICES ASSUME Bad # {} PROVE FALSE
      OBVIOUS
    <2>2. PICK k \in Bad : \A m \in Bad : k <= m
      <3>1. Bad \subseteq Nat
        BY <1>0
      <3> HIDE DEF Bad
      <3> QED BY <2>1, <3>1, LeastIn
    <2>3. k \in 1 .. n /\ ~Good(k)
      BY <2>2
    <2>4. k # 1 => k - 1 \in 1 .. n /\ ~(k <= k - 1)
      BY <1>0, <2>3
    <2>5. k # 1 => Good(k - 1)
      BY <2>2, <2>4
    <2> QED BY <1>5, <2>3, <2>5
  <1>7. Good(n)
    <2>1. n \in 1 .. n /\ n \notin Bad
      BY <1>0, <1>6
    <2> QED BY <2>1
  <1> QED BY <1>2, <1>7 DEF Good

LEMMA LayerLinked ==
  ASSUME NEW l, NEW cached \in BOOLEAN
  PROVE  /\ Linked(LayerSteps(l, cached), <<"norm", l>>, <<"norm", l + 1>>, cached)
         /\ InPlace(LayerSteps(l, cached))
  <1>1. PICK a, b, c :
           /\ a = <<"norm", "q", "k", "v", "qk_norm", "rope">>
           /\ b = IF cached THEN <<"append">> ELSE <<>>
           /\ c = <<"attn", "oproj", "mlp_norm", "gate", "up", "act", "down">>
    OBVIOUS
  <1>2. PICK S : S = {"norm", "q", "k", "v", "qk_norm", "rope", "append", "attn", "oproj", "mlp_norm",
                      "gate", "up", "act", "down"}
    OBVIOUS
  <1>3. /\ a[1] = "norm" /\ a[2] = "q" /\ a[3] = "k" /\ a[4] = "v" /\ a[5] = "qk_norm" /\ a[6] = "rope"
        /\ c[1] = "attn" /\ c[2] = "oproj" /\ c[3] = "mlp_norm" /\ c[4] = "gate" /\ c[5] = "up"
        /\ c[6] = "act" /\ c[7] = "down"
        /\ Len(a) = 6 /\ Len(c) = 7
    BY ONLY <1>1
  <1>4. a \in Seq(S)
    <2>1. {"norm", "q", "k", "v", "qk_norm", "rope"} \subseteq S
      BY <1>2
    <2> QED BY ONLY <1>1, <2>1
  <1>5. c \in Seq(S)
    <2>1. {"attn", "oproj", "mlp_norm", "gate", "up", "act", "down"} \subseteq S
      BY <1>2
    <2> QED BY ONLY <1>1, <2>1
  <1>6. b \in Seq(S)
    <2>1. "append" \in S
      BY <1>2
    <2>2. CASE cached
      BY ONLY <1>1, <2>1, <2>2
    <2>3. CASE ~cached
      BY ONLY <1>1, <2>3
    <2> QED BY <2>2, <2>3
  <1>7. PICK ab : ab = a \o b
    OBVIOUS
  <1>8. /\ ab \in Seq(S) /\ Len(ab) = Len(a) + Len(b)
        /\ \A i \in 1 .. Len(a) : ab[i] = a[i]
        /\ \A j \in 1 .. Len(b) : ab[Len(a) + j] = b[j]
    BY ONLY <1>4, <1>6, <1>7, Joined2
  <1>9. ab \in Seq(S)
    BY <1>8
  <1>10. PICK v : v = ab \o c
    OBVIOUS
  <1>11. /\ v \in Seq(S) /\ Len(v) = Len(ab) + Len(c)
         /\ \A i \in 1 .. Len(ab) : v[i] = ab[i]
         /\ \A i \in 1 .. Len(c) : v[Len(ab) + i] = c[i]
    BY ONLY <1>5, <1>9, <1>10, Joined2
  <1>12. LayerSteps(l, cached) = [i \in DOMAIN v |-> <<v[i], l>>]
    BY <1>1, <1>7, <1>10 DEF LayerSteps
  <1>13. PICK y, z : y = <<"norm", l>> /\ z = <<"norm", l + 1>>
    OBVIOUS
  <1>14. ASSUME NEW w, NEW n \in Nat \ {0}, w = [i \in 1 .. n |-> <<v[i], l>>],
                \A i \in 1 .. n : v[i] \in S, v[1] = "norm",
                \A i \in 1 .. n : Then(<<v[i], l>>, cached) = IF i = n THEN z ELSE <<v[i + 1], l>>
         PROVE  Linked(w, y, z, cached) /\ InPlace(w)
    <2>1. Len(w) = n /\ w # <<>> /\ DOMAIN w = 1 .. n /\ 1 \in 1 .. n
      BY ONLY <1>14, n \in Nat \ {0}
    <2>2. \A i \in 1 .. n : w[i] = <<v[i], l>> /\ w[i][1] = v[i]
      BY ONLY <1>14
    <2>3. w[1] = y
      BY ONLY <1>13, <1>14, <2>1, <2>2
    <2>4. \A i \in 1 .. n : i # n => i + 1 \in 1 .. n
      OBVIOUS
    <2>5. \A i \in 1 .. n : Then(w[i], cached) = IF i = n THEN z ELSE w[i + 1]
      BY ONLY <1>14, <2>2, <2>4
    <2>6. Linked(w, y, z, cached)
      BY ONLY <2>1, <2>3, <2>5 DEF Linked
    <2>7. \A i \in 1 .. n : w[i][1] # "embed" /\ w[i][1] # "final_norm"
      BY <1>2, <1>14, <2>2
    <2>8. InPlace(w)
      BY <2>1, <2>7 DEF InPlace
    <2> QED BY <2>6, <2>8
  <1>15. /\ \A i \in 1 .. 6 : i = 1 \/ i = 2 \/ i = 3 \/ i = 4 \/ i = 5 \/ i = 6
         /\ \A i \in 1 .. 7 : i = 1 \/ i = 2 \/ i = 3 \/ i = 4 \/ i = 5 \/ i = 6 \/ i = 7
    OBVIOUS
  <1>16. CASE cached
    <2>1. b = <<"append">>
      BY <1>1, <1>16
    <2>2. Len(b) = 1 /\ b[1] = "append"
      BY <2>1
    <2>3. Len(ab) = 7 /\ Len(v) = 14 /\ DOMAIN v = 1 .. 14
      BY <1>3, <1>8, <1>11, <2>2
    <2>4. ab[1] = "norm" /\ ab[2] = "q" /\ ab[3] = "k" /\ ab[4] = "v" /\ ab[5] = "qk_norm"
          /\ ab[6] = "rope" /\ ab[7] = "append"
      BY ONLY <1>3, <1>8, <2>2
    <2>5. v[1] = "norm" /\ v[2] = "q" /\ v[3] = "k" /\ v[4] = "v" /\ v[5] = "qk_norm"
          /\ v[6] = "rope" /\ v[7] = "append"
      BY ONLY <1>11, <2>3, <2>4
    <2>6. v[8] = "attn" /\ v[9] = "oproj" /\ v[10] = "mlp_norm" /\ v[11] = "gate" /\ v[12] = "up"
          /\ v[13] = "act" /\ v[14] = "down"
      BY ONLY <1>3, <1>11, <2>3
    <2>7. \A i \in 1 .. 14 : v[i] \in S
      <3>1. \A T, u : \A k \in Nat : u \in Seq(T) /\ Len(u) = k => \A i \in 1 .. k : u[i] \in T
        OBVIOUS
      <3> QED BY ONLY <1>11, <2>3, <3>1
    <2>8. ASSUME NEW i \in 1 .. 14
          PROVE  Then(<<v[i], l>>, cached) = IF i = 14 THEN z ELSE <<v[i + 1], l>>
      <3>1. CASE i \in 1 .. 7
        <4>1. i = 1 \/ i = 2 \/ i = 3 \/ i = 4 \/ i = 5 \/ i = 6 \/ i = 7
          BY <3>1
        <4>2. /\ Then(<<"norm", l>>, cached) = <<"q", l>>
              /\ Then(<<"q", l>>, cached) = <<"k", l>> /\ Then(<<"k", l>>, cached) = <<"v", l>>
              /\ Then(<<"v", l>>, cached) = <<"qk_norm", l>> /\ Then(<<"qk_norm", l>>, cached) = <<"rope", l>>
              /\ Then(<<"rope", l>>, cached) = <<"append", l>>
              /\ Then(<<"append", l>>, cached) = <<"attn", l>>
          BY ONLY <1>16, ThenAttention, ThenRope
        <4> QED BY ONLY <2>5, <2>6, <4>1, <4>2
      <3>2. CASE i \in 8 .. 14
        <4>1. i = 8 \/ i = 9 \/ i = 10 \/ i = 11 \/ i = 12 \/ i = 13 \/ i = 14
          BY <3>2
        <4>2. /\ Then(<<"attn", l>>, cached) = <<"oproj", l>>
              /\ Then(<<"oproj", l>>, cached) = <<"mlp_norm", l>> /\ Then(<<"mlp_norm", l>>, cached) = <<"gate", l>>
              /\ Then(<<"gate", l>>, cached) = <<"up", l>> /\ Then(<<"up", l>>, cached) = <<"act", l>>
              /\ Then(<<"act", l>>, cached) = <<"down", l>> /\ Then(<<"down", l>>, cached) = z
          BY ONLY <1>13, ThenAttention, ThenMlp
        <4> QED BY ONLY <2>6, <4>1, <4>2
      <3> QED BY <3>1, <3>2
    <2>9. PICK w : w = LayerSteps(l, cached)
      OBVIOUS
    <2>10. w = [i \in 1 .. 14 |-> <<v[i], l>>] /\ 14 \in Nat \ {0}
      BY <1>12, <2>3, <2>9
    <2>11. Linked(w, y, z, cached) /\ InPlace(w)
      BY <1>14, <2>5, <2>7, <2>8, <2>10
    <2> QED BY <1>13, <2>9, <2>11
  <1>17. CASE ~cached
    <2>1. b = <<>>
      BY <1>1, <1>17
    <2>2. Len(b) = 0
      BY <2>1
    <2>3. Len(ab) = 6 /\ Len(v) = 13 /\ DOMAIN v = 1 .. 13
      BY <1>3, <1>8, <1>11, <2>2
    <2>4. ab[1] = "norm" /\ ab[2] = "q" /\ ab[3] = "k" /\ ab[4] = "v" /\ ab[5] = "qk_norm"
          /\ ab[6] = "rope"
      BY ONLY <1>3, <1>8, <2>2
    <2>5. v[1] = "norm" /\ v[2] = "q" /\ v[3] = "k" /\ v[4] = "v" /\ v[5] = "qk_norm"
          /\ v[6] = "rope"
      BY ONLY <1>11, <2>3, <2>4
    <2>6. v[7] = "attn" /\ v[8] = "oproj" /\ v[9] = "mlp_norm" /\ v[10] = "gate" /\ v[11] = "up"
          /\ v[12] = "act" /\ v[13] = "down"
      BY ONLY <1>3, <1>11, <2>3
    <2>7. \A i \in 1 .. 13 : v[i] \in S
      <3>1. \A T, u : \A k \in Nat : u \in Seq(T) /\ Len(u) = k => \A i \in 1 .. k : u[i] \in T
        OBVIOUS
      <3> QED BY ONLY <1>11, <2>3, <3>1
    <2>8. ASSUME NEW i \in 1 .. 13
          PROVE  Then(<<v[i], l>>, cached) = IF i = 13 THEN z ELSE <<v[i + 1], l>>
      <3>1. CASE i \in 1 .. 6
        <4>1. i = 1 \/ i = 2 \/ i = 3 \/ i = 4 \/ i = 5 \/ i = 6
          BY <3>1
        <4>2. /\ Then(<<"norm", l>>, cached) = <<"q", l>>
              /\ Then(<<"q", l>>, cached) = <<"k", l>> /\ Then(<<"k", l>>, cached) = <<"v", l>>
              /\ Then(<<"v", l>>, cached) = <<"qk_norm", l>> /\ Then(<<"qk_norm", l>>, cached) = <<"rope", l>>
              /\ Then(<<"rope", l>>, cached) = <<"attn", l>>
          BY ONLY <1>17, ThenAttention, ThenRope
        <4> QED BY ONLY <2>5, <2>6, <4>1, <4>2
      <3>2. CASE i \in 7 .. 13
        <4>1. i = 7 \/ i = 8 \/ i = 9 \/ i = 10 \/ i = 11 \/ i = 12 \/ i = 13
          BY <3>2
        <4>2. /\ Then(<<"attn", l>>, cached) = <<"oproj", l>>
              /\ Then(<<"oproj", l>>, cached) = <<"mlp_norm", l>> /\ Then(<<"mlp_norm", l>>, cached) = <<"gate", l>>
              /\ Then(<<"gate", l>>, cached) = <<"up", l>> /\ Then(<<"up", l>>, cached) = <<"act", l>>
              /\ Then(<<"act", l>>, cached) = <<"down", l>> /\ Then(<<"down", l>>, cached) = z
          BY ONLY <1>13, ThenAttention, ThenMlp
        <4> QED BY ONLY <2>6, <4>1, <4>2
      <3> QED BY <3>1, <3>2
    <2>9. PICK w : w = LayerSteps(l, cached)
      OBVIOUS
    <2>10. w = [i \in 1 .. 13 |-> <<v[i], l>>] /\ 13 \in Nat \ {0}
      BY <1>12, <2>3, <2>9
    <2>11. Linked(w, y, z, cached) /\ InPlace(w)
      BY <1>14, <2>5, <2>7, <2>8, <2>10
    <2> QED BY <1>13, <2>9, <2>11
  <1> QED BY <1>16, <1>17

\* A pass over layers first .. last - 1 begins with the embedding or where the
\* pass before it ended.
LEMMA RangeLinked ==
  ASSUME NEW first \in 0 .. Layers, NEW last \in 0 .. Layers, first < last, NEW cached \in BOOLEAN
  PROVE  /\ Linked(RangeSteps(first, last, cached), IF first = 0 THEN <<"embed", 0>> ELSE <<"norm", first>>,
                   <<"norm", last>>, cached)
         /\ InPlace(RangeSteps(first, last, cached)) /\ RangeSteps(first, last, cached) # <<>>
  <1>1. PICK S : S = Due(cached)
    OBVIOUS
  <1>2. PICK em, ls : /\ em = IF first = 0 THEN << <<"embed", 0>> >> ELSE <<>>
                      /\ ls = [i \in 1 .. last - first |-> LayerSteps(first + i - 1, cached)]
    OBVIOUS
  <1>3. RangeSteps(first, last, cached) = em \o FlattenSeq(ls)
    BY <1>2 DEF RangeSteps
  <1>4. Layers \in Nat /\ first \in Nat /\ last \in Nat /\ last - first \in Nat \ {0}
    BY Constants
  <1>5. PICK n \in Nat \ {0} : n = last - first
    BY <1>4
  <1>6. ASSUME NEW i \in 1 .. n
        PROVE  first + i - 1 \in 0 .. Layers - 1 /\ (first + i - 1) + 1 = first + i
    BY <1>4, <1>5
  <1>7. \A i \in 1 .. n : LayerSteps(first + i - 1, cached) \in Seq(S)
    BY <1>1, <1>6, LayerStepsAre
  <1>8. ls \in Seq(Seq(S)) /\ Len(ls) = n /\ \A i \in 1 .. n : ls[i] = LayerSteps(first + i - 1, cached)
    BY ONLY <1>2, <1>5, <1>7, n \in Nat \ {0}
  <1>9. PICK y : y = [i \in 1 .. n + 1 |-> <<"norm", first + i - 1>>]
    OBVIOUS
  <1>10. ASSUME NEW i \in 1 .. n
         PROVE  Linked(ls[i], y[i], y[i + 1], cached) /\ InPlace(ls[i])
    <2>1. PICK l : l = first + i - 1
      OBVIOUS
    <2>2. i \in 1 .. n + 1 /\ i + 1 \in 1 .. n + 1
      OBVIOUS
    <2>3. y[i] = <<"norm", l>>
      BY <1>9, <2>1, <2>2
    <2>4. l + 1 = first + (i + 1) - 1
      BY <1>4, <2>1
    <2>5. y[i + 1] = <<"norm", l + 1>>
      BY <1>9, <2>2, <2>4
    <2>6. ls[i] = LayerSteps(l, cached)
      BY <1>8, <2>1
    <2> QED BY <2>3, <2>5, <2>6, LayerLinked
  <1>11. PICK fl : fl = FlattenSeq(ls)
    OBVIOUS
  <1>12. Len(ls) > 0 /\ ls \in Seq(Seq(S))
    BY <1>8
  <1>13. \A i \in 1 .. Len(ls) : Linked(ls[i], y[i], y[i + 1], cached) /\ InPlace(ls[i])
    BY <1>8, <1>10
  <1>14. Linked(fl, y[1], y[n + 1], cached) /\ InPlace(fl)
    <2>1. Len(ls) > 0
      BY <1>12
    <2>2. ls \in Seq(Seq(S))
      BY <1>12
    <2> QED BY ONLY <1>8, <1>11, <1>13, <2>1, <2>2, LinkedFlat
  <1>15. fl \in Seq(S)
    <2>1. ls \in Seq(Seq(S))
      BY <1>12
    <2> QED BY ONLY <1>11, <2>1, FlattenedIn
  <1>16. y[1] = <<"norm", first>> /\ y[n + 1] = <<"norm", last>>
    <2>1. 1 \in 1 .. n + 1 /\ n + 1 \in 1 .. n + 1 /\ first + 1 - 1 = first /\ first + (n + 1) - 1 = last
      BY <1>4, <1>5
    <2> QED BY <1>9, <2>1
  <1>17. fl # <<>>
    <2>1. y[1] # y[n + 1]
      <3>1. first # last /\ <<"norm", first>>[2] = first /\ <<"norm", last>>[2] = last
        BY <1>4
      <3> QED BY <1>16, <3>1
    <2> QED BY <1>14, <2>1 DEF Linked
  <1>18. CASE first = 0
    <2>1. em = << <<"embed", 0>> >>
      BY <1>2, <1>18
    <2>2. PICK x, z : x = <<"embed", 0>> /\ z = <<"norm", last>>
      OBVIOUS
    <2>3. x \in S
      BY <1>1, <1>4, <2>2, StepsAre DEF Due
    <2>4. em = <<x>>
      BY <2>1, <2>2
    <2>5. em \in Seq(S) /\ Len(em) = 1 /\ em[1] = x /\ em # <<>> /\ DOMAIN em = {1}
      BY ONLY <2>3, <2>4
    <2>6. Then(x, cached) = y[1]
      BY ONLY <1>16, <1>18, <2>2, ThenStarts
    <2>7. \A i \in 1 .. 1 : i = 1
      OBVIOUS
    <2>8. Linked(em, x, y[1], cached)
      BY ONLY <2>5, <2>6, <2>7 DEF Linked
    <2>9. InPlace(em)
      <3>1. x[1] = "embed" /\ x[2] = 0
        BY <2>2
      <3> QED BY ONLY <2>5, <3>1 DEF InPlace
    <2>10. em \in Seq(S)
      BY <2>5
    <2>11. Linked(fl, y[1], z, cached)
      BY <1>14, <1>16, <2>2
    <2>12. Linked(em \o fl, x, z, cached)
      BY ONLY <1>15, <2>8, <2>10, <2>11, LinkedJoin
    <2>13. InPlace(fl)
      BY <1>14
    <2>14. InPlace(em \o fl)
      BY ONLY <1>15, <2>9, <2>10, <2>13, InPlaceJoin
    <2>15. em \o fl # <<>>
      BY ONLY <1>15, <2>5
    <2> QED BY <1>3, <1>11, <1>18, <2>2, <2>12, <2>14, <2>15
  <1>19. CASE first # 0
    <2>1. em = <<>>
      BY <1>2, <1>19
    <2>2. em \o fl = fl
      BY ONLY <1>15, <2>1
    <2> QED BY <1>3, <1>11, <1>14, <1>16, <1>17, <1>19, <2>2
  <1> QED BY <1>18, <1>19

-----------------------------------------------------------------------------
(* What the actions of the host leave.                                     *)

\* The caches have what they say.
CachesTrue ==
    \A d \in Held : \A l \in 0 .. Layers - 1 : \A which \in {"k", "v"} : \A j \in 0 .. cache[d].length - 1 :
        LET f == Kept(cache[d], which, l, cache[d].txt, j)
        IN  f[2] \in DOMAIN mem[f[1]] /\ mem[f[1]][f[2]] = f[3]

LEMMA KeptFields ==
  \A kv, which, l, txt, j :
    LET f == Kept(kv, which, l, txt, j) IN
    f[1] = kv.mem /\ f[2] = CacheRow(kv, which, l, j)
    /\ f[3] = Row(IF which = "k" THEN "k_rope" ELSE "v", l, txt, j)
  BY DEF Kept

LEMMA KnownTrue ==
  ASSUME NEW A, HoldsKept(A), CachesKeep(A)
  PROVE  CachesTrue
  <1> SUFFICES ASSUME NEW d \in Held, NEW l \in 0 .. Layers - 1, NEW which \in {"k", "v"},
                      NEW j \in 0 .. cache[d].length - 1
               PROVE  LET f == Kept(cache[d], which, l, cache[d].txt, j)
                      IN  f[2] \in DOMAIN mem[f[1]] /\ mem[f[1]][f[2]] = f[3]
    BY DEF CachesTrue
  <1>1. Kept(cache[d], which, l, cache[d].txt, j) \in A["kv"]
    BY DEF CachesKeep, KeptTo
  <1> QED BY <1>1 DEF HoldsKept

\* An idle device has nothing left to do.
LEMMA IdleIs ==
  ASSUME PassInv, DeviceIdle, NEW A, NEW B, \A r \in Alive : Runs(stream[r], A, B), Alive = {} => A = B
  PROVE  A = B
  <1>1. CASE Alive = {}
    BY <1>1
  <1>2. CASE Alive # {}
    <2>1. PICK r : r \in Alive
      BY <1>2
    <2>2. stream[r] = <<>>
      BY <2>1 DEF DeviceIdle, Alive
    <2>3. Runs(<<>>, A, B)
      BY <2>1, <2>2
    <2> QED BY <2>3, RunsNone
  <1> QED BY <1>1, <1>2

\* No kernel is queued where there is no runtime.
LEMMA DeadIsIdle ==
  ASSUME MemInv, DeviceInv, NEW r \in Runtimes, r \notin Alive
  PROVE  stream[r] = <<>>
  <1>1. PICK S : stream[r] \in Seq(S)
    BY DEF MemInv, QueueInv, IsQueue
  <1>2. DOMAIN stream[r] = {}
    <2>1. \A i \in DOMAIN stream[r] : KernelOK(stream[r][i], r)
      BY DEF DeviceInv
    <2> QED BY <2>1 DEF KernelOK
  <1>3. \A T : \A s \in Seq(T) : DOMAIN s = {} => s = <<>>
    OBVIOUS
  <1> QED BY <1>1, <1>2, <1>3

LEMMA HoldsStay ==
  ASSUME NEW A, Holds(A), KeepsRuntimes, UNCHANGED mem, Held' = Held,
         \A c \in Held : cache'[c].mem = cache[c].mem, \A r \in Alive : rt'[r].out = rt[r].out
  PROVE  Holds(A)'
  <1>1. ASSUME NEW r \in Alive PROVE HoldsRows(rt[r], A)'
    <2>1. HoldsRows(rt[r], A)
      BY DEF Holds
    <2>2. A["out"].n # 0 => rt'[r].out = TokenRow(A["out"], A["out"].n - 1)
      BY <2>1 DEF HoldsRows
    <2>3. mem'[rt[r].mem] = mem[rt[r].mem]
      OBVIOUS
    <2> QED BY <2>1, <2>2, <2>3, RowsKeep
  <1>2. HoldsKept(A)'
    BY KeptStays DEF Holds, HoldsKept
  <1> QED BY <1>1, <1>2 DEF Holds, KeepsRuntimes

LEMMA KernelStays ==
  ASSUME NEW k, NEW r, KernelOK(k, r), KeepsRuntimes, UNCHANGED global,
         \A c \in Held : /\ \E d \in Held' : cache'[d].mem = cache[c].mem
                         /\ DOMAIN mem'[cache[c].mem] = DOMAIN mem[cache[c].mem]
  PROVE  KernelOK(k, r)'
  <1>1. r \in Alive' /\ IsOf(k, r)'
    BY DEF KernelOK, IsOf, KeepsRuntimes
  <1>2. IsOp(k.op) /\ k.layer \in 0 .. Layers /\ k.base \in Nat
    BY DEF KernelOK
  <1>3. ASSUME k.op.kind = "append"
        PROVE  k.layer < Layers /\ HasRoom(k)' /\ \E c \in Held' : cache'[c].mem = k.kv.mem
    <2>1. k.layer < Layers /\ HasRoom(k)
      BY <1>3 DEF KernelOK
    <2>2. PICK c \in Held : cache[c].mem = k.kv.mem
      BY <1>3 DEF KernelOK
    <2>3. DOMAIN mem'[k.kv.mem] = DOMAIN mem[k.kv.mem]
      BY <2>2
    <2>4. HasRoom(k)'
      BY <2>1, <2>3 DEF HasRoom
    <2> QED BY <2>1, <2>2, <2>4
  <1> QED BY <1>1, <1>2, <1>3 DEF KernelOK

LEMMA DeviceStays ==
  ASSUME DeviceInv, KeepsRuntimes, UNCHANGED global,
         \A c \in Held : /\ \E d \in Held' : cache'[d].mem = cache[c].mem
                         /\ DOMAIN mem'[cache[c].mem] = DOMAIN mem[cache[c].mem],
         \A r \in Alive : FreqIn(r)',
         \A r \in Runtimes : \A i \in DOMAIN stream'[r] :
             KernelOK(stream'[r][i], r) \/ \E j \in DOMAIN stream[r] : stream'[r][i] = stream[r][j]
  PROVE  DeviceInv'
  <1>1. ASSUME NEW r \in Runtimes, NEW i \in DOMAIN stream'[r]
        PROVE  KernelOK(stream[r][i], r)'
    <2>1. PICK k : k = stream'[r][i]
      OBVIOUS
    <2>2. KernelOK(k, r)
      BY <2>1 DEF DeviceInv
    <2>3. KernelOK(k, r)'
      BY <2>2, KernelStays
    <2> QED BY <2>1, <2>3
  <1>2. \A r \in Alive' : FreqIn(r)'
    BY DEF KeepsRuntimes
  <1> QED BY <1>1, <1>2 DEF DeviceInv, FreqIn

\* A step of the host that touches no memory.
LEMMA DeviceSame ==
  ASSUME DeviceInv, KeepsRuntimes, UNCHANGED <<mem, global, stream>>, Held' = Held,
         \A c \in Held : cache'[c].mem = cache[c].mem
  PROVE  DeviceInv'
  <1>1. \A r \in Alive : FreqIn(r)'
    BY DEF DeviceInv, FreqIn, KeepsRuntimes, Row
  <1>2. \A c \in Held : /\ \E d \in Held' : cache'[d].mem = cache[c].mem
                        /\ DOMAIN mem'[cache[c].mem] = DOMAIN mem[cache[c].mem]
    OBVIOUS
  <1>3. \A r \in Runtimes : \A i \in DOMAIN stream'[r] :
           KernelOK(stream'[r][i], r) \/ \E j \in DOMAIN stream[r] : stream'[r][i] = stream[r][j]
    OBVIOUS
  <1>4. UNCHANGED global
    OBVIOUS
  <1> QED BY ONLY DeviceInv, KeepsRuntimes, <1>1, <1>2, <1>3, <1>4, DeviceStays

\* The queue takes what is there to what is expected, and both are said of a step.
LEMMA ChainStays ==
  ASSUME NEW A, NEW B, Holds(A)', Expected(B)', \A r \in Alive' : Runs(stream'[r], A, B),
         Alive' = {} => A = B
  PROVE  ChainInv'
  BY DEF ChainInv

-----------------------------------------------------------------------------
(* A pass begins.                                                          *)

LEMMA CallsAre == \A x : DOMAIN x = CallFields => x # Idle
  <1>1. DOMAIN Idle = {"r"} /\ "todo" \in CallFields
    BY DEF Idle, CallFields
  <1> QED BY <1>1

\* A pass that begins.
LEMMA BeginIs ==
  ASSUME PassInv, NEW r \in Alive, NEW c, NEW n, NEW base, NEW txt, NEW first, NEW last, NEW todo, NEW flags,
         Begin(r, c, n, base, txt, first, last, todo, flags)
  PROVE  /\ call'.r = r /\ call'.c = c /\ call'.n = n /\ call'.base = base /\ call'.txt = txt
         /\ call'.last = last /\ call'.kv = Pointers(c) /\ call'.todo = todo /\ call' # Idle
         /\ UNCHANGED mem /\ UNCHANGED global /\ UNCHANGED cache /\ UNCHANGED stream
         /\ rt'[r].ran.ok = FALSE /\ rt'[r].flags = flags /\ rt'[r].out = rt[r].out
         /\ \A s \in Alive \ {r} : rt'[s] = rt[s]
  <1>1. /\ call' = [r |-> r, c |-> c, n |-> n, base |-> base, txt |-> txt, last |-> last,
                    kv |-> Pointers(c), todo |-> todo]
        /\ rt' = [rt EXCEPT ![r].ran = NoRun, ![r].flags = flags]
        /\ UNCHANGED mem /\ UNCHANGED global /\ UNCHANGED cache /\ UNCHANGED stream
    BY DEF Begin
  <1>2. /\ call'.r = r /\ call'.c = c /\ call'.n = n /\ call'.base = base /\ call'.txt = txt
        /\ call'.last = last /\ call'.kv = Pointers(c) /\ call'.todo = todo
        /\ DOMAIN call' = CallFields
    BY <1>1 DEF CallFields
  <1>3. r \in Runtimes /\ DOMAIN rt = Runtimes /\ DOMAIN rt[r] = RuntimeFields /\ Alive \subseteq Runtimes
    BY DEF PassInv, RuntimesOK, RuntimeOK, Alive
  <1>4. /\ rt'[r].ran = NoRun /\ rt'[r].flags = flags /\ rt'[r].out = rt[r].out
        /\ \A s \in Alive \ {r} : rt'[s] = rt[s]
    BY <1>1, <1>3 DEF RuntimeFields
  <1>5. rt'[r].ran.ok = FALSE
    BY <1>4 DEF NoRun
  <1> QED BY ONLY <1>1, <1>2, <1>4, <1>5, CallsAre

LEMMA BeginForward ==
  ASSUME PassInv, MemInv, LaunchInv, DeviceInv, ChainInv, KeepsRuntimes, call = Idle,
         NEW r \in Alive, NEW c, NEW n, NEW base \in Nat, NEW txt,
         NEW first \in 0 .. Layers, NEW last \in 0 .. Layers, first < last,
         NEW cached \in BOOLEAN, cached = (c # "none"), NEW todo, todo = RangeSteps(first, last, cached),
         NEW flags, "final_norm" \notin flags, Begin(r, c, n, base, txt, first, last, todo, flags),
         cached => first = 0 /\ base = cache[c].length /\ txt = cache[c].txt /\ last = Layers,
         ~cached => base = 0,
         first > 0 => /\ ~cached /\ rt[r].ran.ok /\ rt[r].ran.last = first /\ rt[r].ran.n = n
                      /\ rt[r].ran.txt = txt /\ rt[r].ran.base = 0
  PROVE  LaunchInv' /\ DeviceInv' /\ ChainInv'
  <1>1. /\ call'.r = r /\ call'.c = c /\ call'.n = n /\ call'.base = base /\ call'.txt = txt
        /\ call'.last = last /\ call'.kv = Pointers(c) /\ call'.todo = todo /\ call' # Idle
        /\ UNCHANGED mem /\ UNCHANGED global /\ UNCHANGED cache /\ UNCHANGED stream
        /\ rt'[r].ran.ok = FALSE /\ rt'[r].flags = flags /\ rt'[r].out = rt[r].out
        /\ \A s \in Alive \ {r} : rt'[s] = rt[s]
    BY ONLY PassInv, r \in Alive, Begin(r, c, n, base, txt, first, last, todo, flags), BeginIs
  <1>2. Held' = Held /\ Alive' = Alive /\ (\A s \in Alive : rt'[s].out = rt[s].out)
    BY <1>1 DEF Held, KeepsRuntimes
  <1>3. PICK x, z : x = (IF first = 0 THEN <<"embed", 0>> ELSE <<"norm", first>>) /\ z = <<"norm", last>>
    OBVIOUS
  <1>4. Linked(todo, x, z, cached) /\ InPlace(todo) /\ todo # <<>> /\ todo \in Seq(Due(cached))
    BY <1>3, RangeLinked, RangeStepsAre
  <1>5. Head(todo) = x
    <2>1. \A T : \A s \in Seq(T) : s # <<>> => Head(s) = s[1]
      OBVIOUS
    <2> QED BY <1>4, <2>1 DEF Linked
  <1>6. Upcoming' = x /\ EndOf' = z
    BY <1>1, <1>3, <1>4, <1>5 DEF Upcoming, EndOf
  <1>7. LaunchInv'
    <2>1. \A s \in Alive' : rt'[s].ran.ok => rt'[s].ran.base \in Nat
      BY <1>1, <1>2 DEF LaunchInv
    <2>2. Linked(call'.todo, Upcoming', EndOf', call'.c # "none")
      BY <1>1, <1>4, <1>6
    <2>3. IF call'.c = "none" THEN call'.kv = NoKv /\ call'.base = 0
          ELSE call'.base = cache'[call'.c].length /\ call'.txt = cache'[call'.c].txt /\ call'.last = Layers
      BY <1>1 DEF Pointers
    <2> QED BY <1>1, <1>4, <2>1, <2>2, <2>3 DEF LaunchInv
  <1>8. DeviceInv'
    BY <1>1, <1>2, DeviceSame
  <1>9. PICK A, B : /\ Holds(A) /\ Expected(B) /\ (\A s \in Alive : Runs(stream[s], A, B))
                    /\ Alive = {} => A = B
    BY DEF ChainInv
  <1>10. Holds(A)'
    BY <1>1, <1>2, <1>9, HoldsStay
  <1>11. CachesKeep(B)'
    BY <1>1, <1>2, <1>9 DEF Expected, CachesKeep
  <1>12. Meets(Upcoming, B)'
    <2>1. CASE first = 0
      <3>1. Upcoming' = <<"embed", 0>>
        BY <1>3, <1>6, <2>1
      <3>2. Upcoming'[1] = "embed" /\ DOMAIN Needs["embed"] = {}
        <4>1. Needs["embed"] = <<>> /\ DOMAIN <<>> = {}
          BY DEF Needs
        <4> QED BY <3>1, <4>1
      <3> QED BY <3>2 DEF Meets
    <2>2. CASE first # 0
      <3>1. first > 0 /\ Upcoming' = <<"norm", first>>
        BY <1>3, <1>6, <2>2
      <3>2. Upcoming'[1] = "norm" /\ Upcoming'[2] = first
        BY <3>1
      <3>3. B["hidden"] = Left(rt[r].ran, "in", rt[r].ran.last)
        BY <1>9, <3>1 DEF Expected, RunKeeps
      <3>4. Left(rt[r].ran, "in", rt[r].ran.last) = Left(call', "in", first)
        BY <1>1, <3>1 DEF Left
      <3>5. PICK w : w = Needs["norm"]
        OBVIOUS
      <3>6. DOMAIN w = {"hidden"} /\ w["hidden"] = "in"
        BY <3>5 DEF Needs
      <3> QED BY <3>2, <3>3, <3>4, <3>5, <3>6 DEF Meets
    <2> QED BY <2>1, <2>2
  <1>13. Scored(call.r, call, B)'
    BY <1>1 DEF Scored
  <1>14. call'.c # "none" => KeptBelow(Appended(Upcoming), B)'
    <2>1. SUFFICES ASSUME call'.c # "none" PROVE KeptBelow(Appended(Upcoming), B)'
      OBVIOUS
    <2>2. first = 0
      BY <1>1, <2>1
    <2>3. Upcoming' = <<"embed", 0>> /\ <<"embed", 0>>[1] = "embed" /\ <<"embed", 0>>[2] = 0
      BY <1>3, <1>6, <2>2
    <2>4. Appended(Upcoming)' = 0
      BY <2>3 DEF Appended
    <2>5. \A i : i \notin 0 .. 0 - 1
      OBVIOUS
    <2> QED BY <2>4, <2>5 DEF KeptBelow
  <1>15. PassKeeps(B)'
    BY <1>12, <1>13, <1>14 DEF PassKeeps
  <1>16. RunKeeps(B)'
    BY <1>1 DEF RunKeeps
  <1>17. Expected(B)'
    BY <1>11, <1>15, <1>16 DEF Expected
  <1>18. ChainInv'
    BY <1>1, <1>2, <1>9, <1>10, <1>17, ChainStays
  <1> QED BY <1>7, <1>8, <1>18

\* What a step keeps.
ForwardKept == LaunchInv' /\ DeviceInv' /\ ChainInv'

LEMMA ForwardRunCached ==
  ASSUME PassInv, MemInv, LaunchInv, DeviceInv, ChainInv,
         NEW r \in Runtimes, NEW c \in Caches, NEW n \in TokenLimits, RunCached(r, c, n)
  PROVE  ForwardKept
  <1>1. /\ call = Idle /\ r \in Alive /\ c \in Held
        /\ Begin(r, c, n, cache[c].length, cache[c].txt, 0, Layers, RangeSteps(0, Layers, TRUE), FreshFlags(r, 0))
    BY DEF RunCached, Ready
  <1>2. PICK base, txt, todo, flags, first, last, cached :
           /\ base = cache[c].length /\ txt = cache[c].txt
           /\ todo = RangeSteps(0, Layers, TRUE) /\ flags = FreshFlags(r, 0) /\ first = 0 /\ last = Layers
           /\ cached = TRUE
    OBVIOUS
  <1>3. c # "none"
    BY RuntimeAssumption
  <1>4. base \in Nat
    <2>1. HeldOK(cache[c])
      BY <1>1 DEF MemInv, CacheInv
    <2> QED BY <1>2, <2>1 DEF HeldOK
  <1>5. KeepsRuntimes
    BY PassRunCached
  <1>6. first \in 0 .. Layers /\ last \in 0 .. Layers /\ first < last
    BY <1>2, Constants
  <1>7. first \in 0 .. Layers
    BY <1>6
  <1>8. last \in 0 .. Layers
    BY <1>6
  <1>9. first < last
    BY <1>6
  <1>10. cached \in BOOLEAN
    BY <1>2
  <1>11. cached = (c # "none")
    BY <1>2, <1>3
  <1>12. todo = RangeSteps(first, last, cached)
    BY <1>2
  <1>13. "final_norm" \notin flags
    BY <1>2 DEF FreshFlags
  <1>14. Begin(r, c, n, base, txt, first, last, todo, flags)
    BY <1>1, <1>2
  <1>15. cached => first = 0 /\ base = cache[c].length /\ txt = cache[c].txt /\ last = Layers
    BY <1>2
  <1>16. ~cached => base = 0
    BY <1>2
  <1>17. first > 0 => /\ ~cached /\ rt[r].ran.ok /\ rt[r].ran.last = first /\ rt[r].ran.n = n
                      /\ rt[r].ran.txt = txt /\ rt[r].ran.base = 0
    BY <1>2
  <1>18. call = Idle
    BY <1>1
  <1>19. r \in Alive
    BY <1>1
  <1>20. LaunchInv' /\ DeviceInv' /\ ChainInv'
    BY ONLY PassInv, MemInv, LaunchInv, DeviceInv, ChainInv, <1>4, <1>5, <1>7, <1>8, <1>9, <1>10, <1>11,
            <1>12, <1>13, <1>14, <1>15, <1>16, <1>17, <1>18, <1>19, BeginForward
  <1> QED BY <1>20 DEF ForwardKept

LEMMA ForwardRunUncached ==
  ASSUME PassInv, MemInv, LaunchInv, DeviceInv, ChainInv,
         NEW r \in Runtimes, NEW n \in TokenLimits, NEW txt \in Texts,
         NEW first \in 0 .. Layers, NEW last \in 0 .. Layers, RunUncached(r, n, txt, first, last)
  PROVE  ForwardKept
  <1>1. /\ call = Idle /\ r \in Alive /\ first < last
        /\ first > 0 => /\ rt[r].ran.ok /\ rt[r].ran.last = first
                        /\ rt[r].ran.n = n /\ rt[r].ran.txt = txt /\ rt[r].ran.base = 0
        /\ Begin(r, "none", n, 0, txt, first, last, RangeSteps(first, last, FALSE), FreshFlags(r, first))
    BY DEF RunUncached, Ready, Accepted
  <1>2. PICK base, todo, flags, c, cached :
           /\ base = 0 /\ todo = RangeSteps(first, last, FALSE) /\ flags = FreshFlags(r, first)
           /\ c = "none" /\ cached = FALSE
    OBVIOUS
  <1>4. base \in Nat
    BY <1>2
  <1>5. KeepsRuntimes
    BY PassRunUncached
  <1>9. first < last
    BY <1>1
  <1>10. cached \in BOOLEAN
    BY <1>2
  <1>11. cached = (c # "none")
    BY <1>2
  <1>12. todo = RangeSteps(first, last, cached)
    BY <1>2
  <1>13. "final_norm" \notin flags
    BY <1>2 DEF FreshFlags
  <1>14. Begin(r, c, n, base, txt, first, last, todo, flags)
    BY <1>1, <1>2
  <1>15. cached => first = 0 /\ base = cache[c].length /\ txt = cache[c].txt /\ last = Layers
    BY <1>2
  <1>16. ~cached => base = 0
    BY <1>2
  <1>17. first > 0 => /\ ~cached /\ rt[r].ran.ok /\ rt[r].ran.last = first /\ rt[r].ran.n = n
                      /\ rt[r].ran.txt = txt /\ rt[r].ran.base = 0
    BY <1>1, <1>2
  <1>18. call = Idle
    BY <1>1
  <1>19. r \in Alive
    BY <1>1
  <1>20. LaunchInv' /\ DeviceInv' /\ ChainInv'
    BY ONLY PassInv, MemInv, LaunchInv, DeviceInv, ChainInv, first \in 0 .. Layers, last \in 0 .. Layers,
            <1>4, <1>5, <1>9, <1>10, <1>11,
            <1>12, <1>13, <1>14, <1>15, <1>16, <1>17, <1>18, <1>19, BeginForward
  <1> QED BY <1>20 DEF ForwardKept

\* The final norm and the score begin where the last run ended.
LEMMA ForwardBehind ==
  ASSUME PassInv, MemInv, LaunchInv, DeviceInv, ChainInv,
         NEW r \in Runtimes, NEW step \in {"final_norm", "cand"}, Behind(r, step)
  PROVE  ForwardKept
  <1>1. PICK run : run = rt[r].ran
    OBVIOUS
  <1>2. /\ call = Idle /\ r \in Alive /\ run.ok /\ run.last = Layers
        /\ call' = [r |-> r, c |-> "none", n |-> run.n, base |-> run.base, txt |-> run.txt,
                    last |-> Layers, kv |-> NoKv, todo |-> << <<step, Layers>> >>]
        /\ UNCHANGED <<mem, global, rt, cache, stream>>
    BY <1>1 DEF Behind, Ready
  <1>3. PICK x, z : x = <<step, Layers>> /\ z = <<"norm", Layers>>
    OBVIOUS
  <1>4. /\ call'.r = r /\ call'.c = "none" /\ call'.n = run.n /\ call'.base = run.base /\ call'.txt = run.txt
        /\ call'.last = Layers /\ call'.kv = NoKv /\ call'.todo = <<x>> /\ DOMAIN call' = CallFields
    BY <1>2, <1>3 DEF CallFields
  <1>5. call' # Idle
    BY <1>4, CallsAre
  <1>6. KeepsRuntimes
    BY PassBehind
  <1>7. Upcoming' = x /\ EndOf' = z
    BY <1>3, <1>4 DEF Upcoming, EndOf
  <1>8. x[1] = step /\ x[2] = Layers
    BY <1>3
  <1>9. LaunchInv'
    <2>1. \A s \in Alive' : rt'[s].ran.ok => rt'[s].ran.base \in Nat
      BY <1>2, <1>6 DEF LaunchInv, KeepsRuntimes
    <2>2. call'.base \in Nat
      BY <1>1, <1>2, <1>4 DEF LaunchInv
    <2>3. PICK s : s = <<x>>
      OBVIOUS
    <2>4. Len(s) = 1 /\ s[1] = x /\ s # <<>> /\ DOMAIN s = {1} /\ \A i \in 1 .. 1 : i = 1
      BY <2>3
    <2>5. Then(x, FALSE) = z
      <3>1. Then(<<"final_norm", Layers>>, FALSE) = <<"norm", Layers>>
        BY ONLY ThenStarts
      <3>2. Then(<<"cand", Layers>>, FALSE) = <<"norm", Layers>>
        BY ONLY ThenStarts
      <3> QED BY <1>3, <3>1, <3>2
    <2>6. Linked(s, x, z, FALSE)
      BY ONLY <2>4, <2>5 DEF Linked
    <2>7. Linked(call'.todo, Upcoming', EndOf', call'.c # "none")
      <3>1. (call'.c # "none") = FALSE
        BY <1>4
      <3> QED BY <1>4, <1>7, <2>3, <2>6, <3>1
    <2>8. InPlace(s)
      BY ONLY <1>8, <2>4, step \in {"final_norm", "cand"} DEF InPlace
    <2>9. \A i \in DOMAIN call'.todo : call'.todo[i][1] # "attn"
      BY <1>4, <1>8, <2>3, <2>4
    <2>10. InPlace(call'.todo)
      BY <1>4, <2>3, <2>8
    <2> QED BY <1>4, <2>1, <2>2, <2>7, <2>9, <2>10 DEF LaunchInv
  <1>10. Held' = Held /\ Alive' = Alive
    BY <1>2 DEF Held, Alive
  <1>11. DeviceInv'
    BY <1>2, <1>6, <1>10, DeviceSame
  <1>12. PICK A, B : /\ Holds(A) /\ Expected(B) /\ (\A s \in Alive : Runs(stream[s], A, B))
                     /\ Alive = {} => A = B
    BY DEF ChainInv
  <1>13. Holds(A)'
    BY <1>2, <1>6, <1>10, <1>12, HoldsStay
  <1>14. CachesKeep(B)'
    BY <1>2, <1>10, <1>12 DEF Expected, CachesKeep
  <1>15. \A at, l : Left(call', at, l) = Left(run, at, l)
    BY <1>4 DEF Left
  <1>16. B["hidden"] = Left(run, "in", run.last) /\ Scored(r, run, B)
    BY <1>1, <1>2, <1>12 DEF Expected, RunKeeps
  <1>17. Meets(Upcoming, B)'
    <2>1. PICK w : w = Needs[step]
      OBVIOUS
    <2>2. DOMAIN w = {"hidden"} /\ w["hidden"] = "in"
      BY <2>1 DEF Needs
    <2>3. Upcoming'[1] = step /\ Upcoming'[2] = Layers
      BY <1>7, <1>8
    <2>4. B["hidden"] = Left(call', "in", Layers)
      BY <1>2, <1>15, <1>16
    <2> QED BY <2>1, <2>2, <2>3, <2>4 DEF Meets
  <1>18. Scored(call.r, call, B)'
    BY <1>2, <1>4, <1>15, <1>16 DEF Scored
  <1>19. PassKeeps(B)'
    BY <1>4, <1>17, <1>18 DEF PassKeeps
  <1>20. RunKeeps(B)'
    BY <1>5 DEF RunKeeps
  <1>21. Expected(B)'
    BY <1>14, <1>19, <1>20 DEF Expected
  <1>22. ChainInv'
    BY <1>2, <1>10, <1>12, <1>13, <1>21, ChainStays
  <1> QED BY <1>9, <1>11, <1>22 DEF ForwardKept

-----------------------------------------------------------------------------
(* A step is launched.                                                     *)

LEMMA LinkedTail ==
  ASSUME NEW S, NEW s \in Seq(S), s # <<>>, NEW x, NEW y, NEW cached, Linked(s, x, y, cached)
  PROVE  /\ Linked(Tail(s), Then(Head(s), cached), y, cached)
         /\ (IF Tail(s) = <<>> THEN y ELSE Head(Tail(s))) = Then(Head(s), cached)
         /\ \A i \in DOMAIN Tail(s) : \E j \in DOMAIN s : Tail(s)[i] = s[j]
  <1>1. PICK t, n : t = Tail(s) /\ n = Len(s)
    OBVIOUS
  <1>2. n \in Nat \ {0}
    BY <1>1
  <1>3. /\ t \in Seq(S) /\ Len(t) = n - 1 /\ DOMAIN t = 1 .. n - 1 /\ DOMAIN s = 1 .. n
        /\ \A i \in 1 .. n - 1 : t[i] = s[i + 1]
        /\ Head(s) = s[1]
        /\ t = <<>> <=> n = 1
        /\ t # <<>> => Head(t) = t[1]
    <2>1. /\ t \in Seq(S) /\ Len(t) = n - 1 /\ DOMAIN s = 1 .. n /\ Head(s) = s[1]
          /\ \A i \in 1 .. n - 1 : t[i] = s[i + 1]
      BY ONLY s \in Seq(S), s # <<>>, <1>1, <1>2
    <2>2. DOMAIN t = 1 .. n - 1
      BY ONLY <1>2, <2>1
    <2>3. t = <<>> <=> n = 1
      BY ONLY <1>2, <2>1
    <2>4. t # <<>> => Head(t) = t[1]
      BY ONLY <2>1
    <2> QED BY ONLY <2>1, <2>2, <2>3, <2>4
  <1>4. \A i \in 1 .. n : Then(s[i], cached) = IF i = n THEN y ELSE s[i + 1]
    BY <1>1 DEF Linked
  <1>5. PICK w : w = Then(s[1], cached)
    OBVIOUS
  <1>6. w = IF n = 1 THEN y ELSE s[2]
    <2>1. 1 \in 1 .. n
      BY <1>2
    <2> QED BY <1>4, <1>5, <2>1
  <1>7. t # <<>> => t[1] = w
    <2>1. n # 1 => 1 \in 1 .. n - 1
      BY <1>2
    <2> QED BY ONLY <1>3, <1>6, <2>1
  <1>8. ASSUME NEW i \in 1 .. n - 1
        PROVE  Then(t[i], cached) = IF i = n - 1 THEN y ELSE t[i + 1]
    <2>1. PICK j : j = i + 1
      OBVIOUS
    <2>2. j \in 1 .. n /\ (i = n - 1 <=> j = n) /\ (j # n => j \in 1 .. n - 1)
      BY ONLY <1>2, <2>1, i \in 1 .. n - 1
    <2>3. t[i] = s[j] /\ (j # n => t[j] = s[j + 1])
      BY ONLY <1>3, <2>1, <2>2, i \in 1 .. n - 1
    <2> QED BY ONLY <1>4, <2>1, <2>2, <2>3
  <1>9. t = <<>> => w = y
    BY <1>3, <1>6
  <1>10. Linked(t, w, y, cached)
    BY ONLY <1>3, <1>7, <1>8, <1>9 DEF Linked
  <1>11. \A i \in DOMAIN t : \E j \in DOMAIN s : t[i] = s[j]
    <2>1. \A i \in 1 .. n - 1 : i + 1 \in 1 .. n
      BY <1>2
    <2> QED BY ONLY <1>3, <2>1
  <1> QED BY <1>1, <1>3, <1>5, <1>7, <1>9, <1>10, <1>11

\* The kernels of a step are of the runtime that the pass is run on.
LEMMA KernelsOK ==
  ASSUME PassInv, MemInv, LaunchInv, call # Idle, call.todo # <<>>
  PROVE  \A i \in DOMAIN Kernels : KernelOK(Kernels[i], call.r)
  <1>1. PICK r : r = call.r
    OBVIOUS
  <1>2. /\ r \in Alive /\ call.n \in 1 .. rt[r].tokens
        /\ Head(call.todo) \in Due(call.c # "none")
        /\ Step \in StepNames /\ Head(call.todo)[2] \in 0 .. Layers
    BY <1>1, StepOfPass DEF PassInv
  <1>3. PICK s : s = Steps[Step]
    OBVIOUS
  <1>4. PICK ks : ks = Kernels
    OBVIOUS
  <1>5. ks = [i \in DOMAIN s |->
                [op |-> s[i], layer |-> Head(call.todo)[2], n |-> call.n, base |-> call.base,
                 txt |-> call.txt, ws |-> [mem |-> rt[r].mem, at |-> rt[r].at],
                 kv |-> call.kv, arena |-> global.arena]]
    BY <1>1, <1>3, <1>4 DEF Kernels
  <1>6. ASSUME NEW i \in DOMAIN s
        PROVE  KernelOK(ks[i], r)
    <2>1. PICK k : k = ks[i]
      OBVIOUS
    <2>2. /\ k.op = s[i] /\ k.layer = Head(call.todo)[2] /\ k.n = call.n /\ k.base = call.base
          /\ k.ws.mem = rt[r].mem /\ k.ws.at = rt[r].at /\ k.kv = call.kv /\ k.arena = global.arena
      BY <1>5, <2>1
    <2>3. IsOf(k, r)
      BY <1>2, <2>2 DEF IsOf
    <2>4. IsOp(k.op)
      BY <1>2, <1>3, <2>2 DEF IsOp
    <2>5. k.base \in Nat
      BY <2>2 DEF LaunchInv
    <2>6. k.op.kind = "append" => Step = "append"
      <3>1. ASSUME Step # "append" PROVE k.op.kind # "append"
        <4>1. s \in Seq(Others)
          BY <1>2, <1>3, <3>1, StepsAre
        <4>2. s[i] \in Others
          <5>1. \A T : \A u \in Seq(T) : \A j \in DOMAIN u : u[j] \in T
            OBVIOUS
          <5> QED BY <4>1, <5>1
        <4> QED BY <2>2, <4>2 DEF Others
      <3> QED BY <3>1
    <2>7. ASSUME Step = "append"
          PROVE  k.layer < Layers /\ HasRoom(k) /\ \E c \in Held : cache[c].mem = k.kv.mem
      <3>1. call.c # "none" /\ Head(call.todo)[2] < Layers
        BY <1>2, <2>7 DEF Due, Step
      <3>2. PICK c : c = call.c
        OBVIOUS
      <3>3. /\ c \in Held /\ cache[c].capacity \in Nat \ {0} /\ cache[c].length \in Nat
            /\ call.n \in Nat \ {0} /\ call.kv.mem = cache[c].mem /\ call.kv.capacity = cache[c].capacity
            /\ call.kv.length = cache[c].length
            /\ cache[c].length + call.n <= cache[c].capacity
        BY <3>1, <3>2, AppendsTo
      <3>4. cache[c].mem \in Addresses /\ DOMAIN mem[cache[c].mem] = 0 .. 2 * Layers * cache[c].capacity - 1
        BY <3>3 DEF MemInv, CacheInv, HeldOK
      <3>5. HasRoom(k)
        BY <2>2, <3>3, <3>4 DEF HasRoom
      <3> QED BY <2>2, <3>1, <3>3, <3>5
    <2> QED BY <1>2, <2>1, <2>2, <2>3, <2>4, <2>5, <2>6, <2>7 DEF KernelOK
  <1>7. DOMAIN ks = DOMAIN s
    BY <1>5
  <1> QED BY <1>1, <1>4, <1>6, <1>7

\* Kernels of the pass are queued.
LEMMA DeviceLaunch ==
  ASSUME PassInv, MemInv, LaunchInv, DeviceInv, call # Idle, call.todo # <<>>, KeepsRuntimes,
         UNCHANGED <<mem, global, cache>>, NEW n \in 0 .. Len(Kernels),
         stream' = [stream EXCEPT ![call.r] = @ \o SubSeq(Kernels, 1, n)]
  PROVE  DeviceInv' /\ IsQueue(SubSeq(Kernels, 1, n)) /\ IsQueue(stream[call.r])
  <1>1. PICK r, s, ks, u : r = call.r /\ s = stream[r] /\ ks = Kernels /\ u = SubSeq(ks, 1, n)
    OBVIOUS
  <1>2. /\ Len(ks) \in Nat /\ DOMAIN ks = 1 .. Len(ks) /\ IsQueue(ks)
    BY <1>1, KernelsSound
  <1>3. PICK S : ks \in Seq(S)
    BY <1>2 DEF IsQueue
  <1>4. /\ u \in Seq(S) /\ DOMAIN u = 1 .. n /\ \A i \in 1 .. n : u[i] = ks[i] /\ i \in DOMAIN ks
    BY <1>1, <1>2, <1>3
  <1>5. IsQueue(u) /\ \A i \in DOMAIN u : \E j \in DOMAIN ks : u[i] = ks[j]
    BY ONLY <1>4 DEF IsQueue
  <1>6. r \in Runtimes /\ r \in Alive
    BY <1>1, StepOfPass
  <1>7. IsQueue(s) /\ DOMAIN stream = Runtimes
    BY <1>1, <1>6 DEF MemInv, QueueInv
  <1>8. PICK v : v = s \o u
    OBVIOUS
  <1>9. \A i \in DOMAIN v : (\E j \in DOMAIN s : v[i] = s[j]) \/ (\E j \in DOMAIN u : v[i] = u[j])
    BY <1>5, <1>7, <1>8, QueueAppend
  <1>10. stream' = [stream EXCEPT ![r] = v]
    BY <1>1, <1>8
  <1>11. \A i \in DOMAIN ks : KernelOK(ks[i], r)
    BY <1>1, KernelsOK
  <1>12. ASSUME NEW q \in Runtimes, NEW i \in DOMAIN stream'[q]
         PROVE  KernelOK(stream'[q][i], q) \/ \E j \in DOMAIN stream[q] : stream'[q][i] = stream[q][j]
    <2>1. CASE q = r
      <3>1. stream'[q] = v
        BY <1>6, <1>7, <1>10, <2>1
      <3>2. CASE \E j \in DOMAIN s : v[i] = s[j]
        BY <1>1, <2>1, <3>1, <3>2
      <3>3. CASE \E j \in DOMAIN u : v[i] = u[j]
        <4>1. PICK j \in DOMAIN ks : v[i] = ks[j]
          BY <1>5, <3>3
        <4>2. KernelOK(v[i], r)
          BY <1>11, <4>1
        <4> QED BY <2>1, <3>1, <4>2
      <3>4. i \in DOMAIN v
        BY <3>1
      <3> QED BY <1>9, <3>2, <3>3, <3>4
    <2>2. CASE q # r
      BY <1>7, <1>10, <2>2
    <2> QED BY <2>1, <2>2
  <1>13. \A q \in Alive : FreqIn(q)'
    BY DEF DeviceInv, FreqIn, KeepsRuntimes, Row
  <1>14. \A c \in Held : /\ \E d \in Held' : cache'[d].mem = cache[c].mem
                         /\ DOMAIN mem'[cache[c].mem] = DOMAIN mem[cache[c].mem]
    BY DEF Held
  <1>15. UNCHANGED global
    OBVIOUS
  <1>16. DeviceInv'
    BY ONLY DeviceInv, KeepsRuntimes, <1>12, <1>13, <1>14, <1>15, DeviceStays
  <1> QED BY <1>1, <1>5, <1>7, <1>16

\* A step that is launched takes what is expected on to what the next one counts on.
LEMMA ForwardLaunchStep ==
  ASSUME PassInv, MemInv, LaunchInv, DeviceInv, ChainInv, call # Idle, call.todo # <<>>, LaunchStep,
         UNCHANGED <<mem, global, cache>>
  PROVE  ForwardKept
  <1>1. PICK r, ks, todo, cached : r = call.r /\ ks = Kernels /\ todo = call.todo /\ cached = (call.c # "none")
    OBVIOUS
  <1>2. /\ stream' = [stream EXCEPT ![r] = @ \o ks]
        /\ rt' = [rt EXCEPT ![r].events = @ \cup Recorded(Step).events, ![r].flags = @ \cup Recorded(Step).flags]
        /\ call' = [call EXCEPT !.todo = Tail(@)]
    BY <1>1 DEF LaunchStep
  <1>3. /\ r \in Alive /\ r \in Runtimes /\ DOMAIN call = CallFields /\ DOMAIN rt[r] = RuntimeFields
        /\ DOMAIN rt = Runtimes /\ todo \in Seq(Due(cached)) /\ Step \in StepNames
    BY <1>1, StepOfPass DEF PassInv, CallOK, RuntimesOK, RuntimeOK
  <1>4. /\ call'.r = r /\ call'.c = call.c /\ call'.n = call.n /\ call'.base = call.base
        /\ call'.txt = call.txt /\ call'.last = call.last /\ call'.kv = call.kv
        /\ call'.todo = Tail(todo) /\ DOMAIN call' = CallFields
    BY <1>1, <1>2, <1>3 DEF CallFields
  <1>5. call' # Idle
    BY <1>4, CallsAre
  <1>6. /\ rt'[r].ran = rt[r].ran /\ rt'[r].out = rt[r].out
        /\ rt'[r].flags = rt[r].flags \cup Recorded(Step).flags
        /\ \A s \in Runtimes \ {r} : rt'[s] = rt[s]
    BY <1>2, <1>3 DEF RuntimeFields
  <1>7. KeepsRuntimes
    BY PassLaunchStep
  <1>8. Alive' = Alive /\ Alive \subseteq Runtimes /\ Held' = Held /\ \A s \in Alive : s = r
    BY <1>3, <1>7 DEF KeepsRuntimes, Alive, Held, MemInv, WorkInv
  <1>9. /\ Len(ks) \in Nat /\ DOMAIN ks = 1 .. Len(ks) /\ IsQueue(ks)
    BY <1>1, KernelsSound
  <1>10. DeviceInv' /\ IsQueue(stream[r])
    <2>1. PICK S : ks \in Seq(S)
      BY <1>9 DEF IsQueue
    <2>2. SubSeq(ks, 1, Len(ks)) = ks
      BY <2>1
    <2>3. PICK n : n = Len(ks)
      OBVIOUS
    <2>4. n \in 0 .. Len(Kernels)
      BY <1>1, <1>9, <2>3
    <2>5. stream' = [stream EXCEPT ![call.r] = @ \o SubSeq(Kernels, 1, n)]
      BY <1>1, <1>2, <2>2, <2>3
    <2> QED BY <1>1, <1>7, <2>4, <2>5, DeviceLaunch
  <1>11. PICK y : y = Then(Head(todo), cached)
    OBVIOUS
  <1>12. /\ Linked(Tail(todo), y, EndOf, cached)
         /\ (IF Tail(todo) = <<>> THEN EndOf ELSE Head(Tail(todo))) = y
         /\ \A i \in DOMAIN Tail(todo) : \E j \in DOMAIN todo : Tail(todo)[i] = todo[j]
    <2>1. todo \in Seq(Due(cached))
      BY <1>3
    <2>2. todo # <<>>
      BY <1>1
    <2>3. PICK x, z : x = Upcoming /\ z = EndOf
      OBVIOUS
    <2>4. Linked(todo, x, z, cached)
      BY <1>1, <2>3 DEF LaunchInv
    <2> QED BY ONLY <1>11, <2>1, <2>2, <2>3, <2>4, LinkedTail
  <1>13. EndOf' = EndOf /\ Upcoming' = y
    BY <1>4, <1>12 DEF EndOf, Upcoming
  <1>14. LaunchInv'
    <2>1. \A s \in Alive' : rt'[s].ran.ok => rt'[s].ran.base \in Nat
      BY <1>6, <1>8 DEF LaunchInv
    <2>2. call'.base \in Nat
      BY <1>4 DEF LaunchInv
    <2>3. Linked(call'.todo, Upcoming', EndOf', call'.c # "none")
      BY <1>1, <1>4, <1>12, <1>13
    <2>4. InPlace(Tail(todo))
      BY <1>1, <1>12 DEF LaunchInv, InPlace
    <2>5. IF call.c = "none" THEN call.kv = NoKv /\ (call.base = 0 \/ \A i \in DOMAIN todo : todo[i][1] # "attn")
          ELSE call.base = cache[call.c].length /\ call.txt = cache[call.c].txt /\ call.last = Layers
      BY <1>1 DEF LaunchInv
    <2>6. IF call.c = "none"
          THEN call.kv = NoKv /\ (call.base = 0 \/ \A i \in DOMAIN Tail(todo) : Tail(todo)[i][1] # "attn")
          ELSE call.base = cache[call.c].length /\ call.txt = cache[call.c].txt /\ call.last = Layers
      BY <1>12, <2>5
    <2>7. IF call'.c = "none"
          THEN call'.kv = NoKv /\ (call'.base = 0 \/ \A i \in DOMAIN call'.todo : call'.todo[i][1] # "attn")
          ELSE call'.base = cache'[call'.c].length /\ call'.txt = cache'[call'.c].txt /\ call'.last = Layers
      BY <1>4, <2>6
    <2>8. InPlace(call'.todo)
      BY <1>4, <2>4
    <2> QED BY <2>1, <2>2, <2>3, <2>7, <2>8 DEF LaunchInv
  <1>15. PICK A, B : /\ Holds(A) /\ Expected(B) /\ (\A s \in Alive : Runs(stream[s], A, B))
                     /\ Alive = {} => A = B
    BY DEF ChainInv
  <1>16. CachesKeep(B) /\ PassKeeps(B)
    BY <1>15 DEF Expected
  <1>17. StepGoes(B)
    BY <1>16, StepGoesOn
  <1>18. PICK bs : /\ Walk(ks, bs) /\ bs[0] = B
                   /\ \A i \in 0 .. Len(ks) : CachesKeep(bs[i])
                   /\ Reached(B, bs[Len(ks)])
    BY <1>1, <1>17 DEF StepGoes
  <1>19. PICK C : C = bs[Len(ks)]
    OBVIOUS
  <1>20. Runs(ks, B, C) /\ CachesKeep(C) /\ Reached(B, C)
    BY <1>9, <1>18, <1>19 DEF Runs
  <1>21. Runs(stream'[r], A, C)
    <2>1. Runs(stream[r], A, B)
      BY <1>3, <1>15
    <2>2. PICK s : s = stream[r]
      OBVIOUS
    <2>3. IsQueue(s)
      BY <1>10, <2>2
    <2>4. IsQueue(ks)
      BY <1>9
    <2>5. Runs(s, A, B)
      BY <2>1, <2>2
    <2>6. Runs(ks, B, C)
      BY <1>20
    <2>7. Runs(s \o ks, A, C)
      BY ONLY <2>3, <2>4, <2>5, <2>6, RunsAppend
    <2>8. stream'[r] = s \o ks
      BY <1>2, <1>3, <2>2 DEF MemInv, QueueInv
    <2> QED BY <2>7, <2>8
  <1>22. Holds(A)'
    <2>1. \A s \in Alive : rt'[s].out = rt[s].out
      BY <1>6, <1>8
    <2>2. \A c \in Held : cache'[c].mem = cache[c].mem
      OBVIOUS
    <2> QED BY <1>7, <1>8, <1>15, <2>1, <2>2, HoldsStay
  <1>23. CachesKeep(C)'
    BY <1>8, <1>20 DEF CachesKeep
  <1>24. \A at, l : Left(call', at, l) = Left(call, at, l)
    BY <1>4 DEF Left
  <1>25. /\ Meets(y, C)
         /\ call.c # "none" => KeptBelow(Appended(y), C)
         /\ C["out"] = IF Step = "final_norm" THEN Left(call, "final", Layers) ELSE B["out"]
    BY <1>1, <1>11, <1>20 DEF Reached, Step
  <1>26. Meets(Upcoming, C)'
    BY <1>13, <1>24, <1>25 DEF Meets
  <1>27. call'.c # "none" => KeptBelow(Appended(Upcoming), C)'
    BY <1>4, <1>13, <1>25 DEF KeptBelow, Appended
  <1>28. Scored(call.r, call, C)'
    <2>1. SUFFICES ASSUME "final_norm" \in rt'[r].flags PROVE C["out"] = Left(call', "final", Layers)
      BY <1>4 DEF Scored
    <2>2. CASE Step = "final_norm"
      BY <1>24, <1>25, <2>2
    <2>3. CASE Step # "final_norm"
      <3>1. "final_norm" \notin Recorded(Step).flags
        BY <2>3 DEF Recorded
      <3>2. "final_norm" \in rt[r].flags
        BY <1>6, <2>1, <3>1
      <3>3. Scored(call.r, call, B)
        BY <1>16 DEF PassKeeps
      <3>4. B["out"] = Left(call, "final", Layers)
        BY <1>1, <3>2, <3>3 DEF Scored
      <3> QED BY <1>24, <1>25, <2>3, <3>4
    <2> QED BY <2>2, <2>3
  <1>29. PassKeeps(C)'
    BY <1>26, <1>27, <1>28 DEF PassKeeps
  <1>30. RunKeeps(C)'
    BY <1>5 DEF RunKeeps
  <1>31. Expected(C)'
    BY <1>23, <1>29, <1>30 DEF Expected
  <1>32. ChainInv'
    <2>1. \A s \in Alive' : Runs(stream'[s], A, C)
      BY <1>8, <1>21
    <2>2. Alive' = {} => A = C
      BY <1>3, <1>8
    <2> QED BY <1>22, <1>31, <2>1, <2>2, ChainStays
  <1> QED BY <1>10, <1>14, <1>32 DEF ForwardKept

\* A launch that fails leaves some of its kernels behind it, and no run.
LEMMA ForwardLaunchFails ==
  ASSUME PassInv, MemInv, LaunchInv, DeviceInv, ChainInv, call # Idle, call.todo # <<>>, LaunchFails,
         UNCHANGED <<mem, global, cache>>
  PROVE  ForwardKept
  <1>1. PICK r, ks : r = call.r /\ ks = Kernels
    OBVIOUS
  <1>2. PICK n : /\ n \in 0 .. Len(ks) - 1 /\ stream' = [stream EXCEPT ![r] = @ \o SubSeq(ks, 1, n)]
                 /\ rt' = [rt EXCEPT ![r].ran = NoRun] /\ call' = Idle
    BY <1>1 DEF LaunchFails
  <1>3. /\ r \in Alive /\ r \in Runtimes /\ DOMAIN rt[r] = RuntimeFields /\ DOMAIN rt = Runtimes
    BY <1>1, StepOfPass DEF PassInv, RuntimesOK, RuntimeOK
  <1>4. /\ rt'[r].ran = NoRun /\ rt'[r].out = rt[r].out
    BY <1>2, <1>3 DEF RuntimeFields
  <1>5. KeepsRuntimes
    BY PassLaunchFails
  <1>6. Alive' = Alive /\ Alive \subseteq Runtimes /\ Held' = Held /\ \A s \in Alive : s = r
    BY <1>3, <1>5 DEF KeepsRuntimes, Alive, Held, MemInv, WorkInv
  <1>7. /\ Len(ks) \in Nat /\ DOMAIN ks = 1 .. Len(ks) /\ IsQueue(ks)
    BY <1>1, KernelsSound
  <1>8. n \in 0 .. Len(ks)
    BY <1>2, <1>7
  <1>9. PICK u : u = SubSeq(ks, 1, n)
    OBVIOUS
  <1>10. DeviceInv' /\ IsQueue(u) /\ IsQueue(stream[r])
    <2>1. n \in 0 .. Len(Kernels)
      BY <1>1, <1>8
    <2>2. stream' = [stream EXCEPT ![call.r] = @ \o SubSeq(Kernels, 1, n)]
      BY <1>1, <1>2
    <2> QED BY <1>1, <1>5, <1>9, <2>1, <2>2, DeviceLaunch
  <1>11. \A s \in Alive' : rt'[s].ran.ok = FALSE
    BY <1>4, <1>6 DEF NoRun
  <1>12. LaunchInv'
    BY <1>2, <1>11 DEF LaunchInv
  <1>13. PICK A, B : /\ Holds(A) /\ Expected(B) /\ (\A s \in Alive : Runs(stream[s], A, B))
                     /\ Alive = {} => A = B
    BY DEF ChainInv
  <1>14. CachesKeep(B) /\ PassKeeps(B)
    BY <1>13 DEF Expected
  <1>15. StepGoes(B)
    BY <1>14, StepGoesOn
  <1>16. PICK bs : /\ Walk(ks, bs) /\ bs[0] = B
                   /\ \A i \in 0 .. Len(ks) : CachesKeep(bs[i])
    BY <1>1, <1>15 DEF StepGoes
  <1>17. PICK C : C = bs[n]
    OBVIOUS
  <1>18. CachesKeep(C)
    BY <1>8, <1>16, <1>17
  <1>19. Runs(u, B, C)
    <2>1. IsQueue(ks)
      BY <1>7
    <2>2. Walk(ks, bs)
      BY <1>16
    <2>3. Runs(SubSeq(ks, 1, n), bs[0], bs[n])
      BY ONLY <1>8, <2>1, <2>2, RunsPart
    <2> QED BY <1>9, <1>16, <1>17, <2>3
  <1>20. Runs(stream'[r], A, C)
    <2>1. PICK s : s = stream[r]
      OBVIOUS
    <2>2. IsQueue(s)
      BY <1>10, <2>1
    <2>3. IsQueue(u)
      BY <1>10
    <2>4. Runs(s, A, B)
      BY <1>3, <1>13, <2>1
    <2>5. Runs(s \o u, A, C)
      BY ONLY <1>19, <2>2, <2>3, <2>4, RunsAppend
    <2>6. stream'[r] = s \o u
      BY <1>2, <1>3, <1>9, <2>1 DEF MemInv, QueueInv
    <2> QED BY <2>5, <2>6
  <1>21. Holds(A)'
    <2>1. \A s \in Alive : rt'[s].out = rt[s].out
      BY <1>4, <1>6
    <2>2. \A c \in Held : cache'[c].mem = cache[c].mem
      OBVIOUS
    <2> QED BY <1>5, <1>6, <1>13, <2>1, <2>2, HoldsStay
  <1>22. Expected(C)'
    <2>1. CachesKeep(C)'
      BY <1>6, <1>18 DEF CachesKeep
    <2>2. PassKeeps(C)'
      BY <1>2 DEF PassKeeps
    <2>3. RunKeeps(C)'
      BY <1>11 DEF RunKeeps
    <2> QED BY <2>1, <2>2, <2>3 DEF Expected
  <1>23. ChainInv'
    <2>1. \A s \in Alive' : Runs(stream'[s], A, C)
      BY <1>6, <1>20
    <2>2. Alive' = {} => A = C
      BY <1>3, <1>6
    <2> QED BY <1>21, <1>22, <2>1, <2>2, ChainStays
  <1> QED BY <1>10, <1>12, <1>23 DEF ForwardKept

-----------------------------------------------------------------------------
(* A pass returns; a kernel runs.                                          *)

\* What is kept of a cache is known by where it lies.
LEMMA KeptIsSame ==
  ASSUME NEW kv, NEW lv, kv.mem = lv.mem, kv.capacity = lv.capacity
  PROVE  \A which, l, txt, j : Kept(kv, which, l, txt, j) = Kept(lv, which, l, txt, j)
  BY DEF Kept, CacheRow

\* A run that returns has left what the last step of its pass did.
LEMMA ForwardReturn ==
  ASSUME PassInv, MemInv, LaunchInv, DeviceInv, ChainInv, Return
  PROVE  ForwardKept
  <1>1. /\ call # Idle /\ call.todo = <<>>
        /\ cache' = IF call.c = "none" THEN cache ELSE [cache EXCEPT ![call.c].length = @ + call.n]
        /\ rt' = [rt EXCEPT ![call.r].ran =
             [ok |-> TRUE, n |-> call.n, base |-> call.base, txt |-> call.txt, last |-> call.last]]
        /\ call' = Idle /\ UNCHANGED mem /\ UNCHANGED global /\ UNCHANGED stream
    BY DEF Return
  <1>2. PICK r, c : r = call.r /\ c = call.c
    OBVIOUS
  <1>3. /\ r \in Alive /\ r \in Runtimes /\ DOMAIN rt[r] = RuntimeFields /\ DOMAIN rt = Runtimes
    BY <1>1, <1>2 DEF PassInv, CallOK, RuntimesOK, RuntimeOK, Alive
  <1>4. KeepsRuntimes
    BY PassReturn
  <1>5. Alive' = Alive /\ \A s \in Alive : s = r
    BY <1>3, <1>4 DEF KeepsRuntimes, MemInv, WorkInv
  <1>6. /\ rt'[r].ran.ok = TRUE /\ rt'[r].ran.n = call.n /\ rt'[r].ran.base = call.base
        /\ rt'[r].ran.txt = call.txt /\ rt'[r].ran.last = call.last
        /\ rt'[r].out = rt[r].out /\ rt'[r].flags = rt[r].flags
    BY <1>1, <1>2, <1>3 DEF RuntimeFields
  <1>7. \A at, l : Left(rt'[r].ran, at, l) = Left(call, at, l)
    BY <1>6 DEF Left
  <1>8. PICK A, B : /\ Holds(A) /\ Expected(B) /\ (\A s \in Alive : Runs(stream[s], A, B))
                    /\ Alive = {} => A = B
    BY DEF ChainInv
  <1>9. CachesKeep(B) /\ PassKeeps(B)
    BY <1>8 DEF Expected
  <1>10. Upcoming = <<"norm", call.last>>
    BY <1>1 DEF Upcoming, EndOf
  <1>11. /\ Meets(<<"norm", call.last>>, B) /\ Scored(r, call, B)
         /\ c # "none" => KeptBelow(Appended(<<"norm", call.last>>), B)
    BY <1>1, <1>2, <1>9, <1>10 DEF PassKeeps
  <1>12. B["hidden"] = Left(call, "in", call.last)
    BY <1>11, MeetsEnds
  <1>13. LaunchInv'
    <2>1. call.base \in Nat
      BY <1>1 DEF LaunchInv
    <2>2. \A s \in Alive' : rt'[s].ran.base \in Nat
      BY <1>5, <1>6, <2>1
    <2> QED BY <1>1, <2>2 DEF LaunchInv
  <1>14. ASSUME c # "none"
         PROVE  /\ Held' = Held /\ \A d \in Held \ {c} : cache'[d] = cache[d]
                /\ c \in Held /\ cache'[c].mem = cache[c].mem /\ cache'[c].capacity = cache[c].capacity
                /\ cache'[c].txt = cache[c].txt /\ cache'[c].length = call.base + call.n
                /\ call.kv.mem = cache[c].mem /\ call.kv.capacity = cache[c].capacity
                /\ call.txt = cache[c].txt /\ call.last = Layers
    <2>1. /\ c \in Held /\ call.kv.mem = cache[c].mem /\ call.kv.capacity = cache[c].capacity
          /\ call.base = cache[c].length /\ call.txt = cache[c].txt
      BY <1>1, <1>2, <1>14, AppendsTo
    <2>2. c \in Caches /\ DOMAIN cache = Caches /\ DOMAIN cache[c] = CacheFields
      BY <2>1 DEF MemInv, CacheInv, HeldOK, Held
    <2>3. cache' = [cache EXCEPT ![c].length = @ + call.n]
      BY <1>1, <1>2, <1>14
    <2>4. /\ cache'[c].mem = cache[c].mem /\ cache'[c].capacity = cache[c].capacity
          /\ cache'[c].txt = cache[c].txt /\ cache'[c].length = cache[c].length + call.n
          /\ DOMAIN cache'[c] = CacheFields
      BY <2>2, <2>3 DEF CacheFields
    <2>5. \A d \in Caches \ {c} : cache'[d] = cache[d]
      BY <2>2, <2>3
    <2>6. cache'[c] # NoCache
      BY <2>4, HeldLives
    <2>7. Held' = Held
      BY <2>1, <2>5, <2>6 DEF Held
    <2>8. call.last = Layers
      BY <1>1, <1>2, <1>14 DEF LaunchInv
    <2>9. \A d \in Held : d \in Caches
      BY DEF Held
    <2> QED BY <2>1, <2>4, <2>5, <2>7, <2>8, <2>9
  <1>15. Held' = Held /\ \A d \in Held : cache'[d].mem = cache[d].mem
    <2>1. CASE c = "none"
      BY <1>1, <1>2, <2>1 DEF Held
    <2>2. CASE c # "none"
      BY <1>14, <2>2
    <2> QED BY <2>1, <2>2
  <1>16. DeviceInv'
    BY <1>1, <1>4, <1>15, DeviceSame
  <1>17. Holds(A)'
    <2>1. \A s \in Alive : rt'[s].out = rt[s].out
      BY <1>5, <1>6
    <2> QED BY <1>1, <1>4, <1>8, <1>15, <2>1, HoldsStay
  <1>18. CachesKeep(B)'
    <2>1. CASE c = "none"
      BY <1>1, <1>2, <1>9, <2>1 DEF CachesKeep, Held
    <2>2. CASE c # "none"
      <3>1. PICK lv, kv : lv = cache'[c] /\ kv = call.kv
        OBVIOUS
      <3>2. lv.mem = kv.mem
        BY <1>14, <2>2, <3>1
      <3>3. lv.capacity = kv.capacity
        BY <1>14, <2>2, <3>1
      <3>4. \A which, l, txt, j : Kept(lv, which, l, txt, j) = Kept(kv, which, l, txt, j)
        BY ONLY <3>2, <3>3, KeptIsSame
      <3>5. KeptBelow(Layers, B)
        <4>1. Appended(<<"norm", call.last>>) = Layers
          BY ONLY <1>14, <2>2, AppendedBefore
        <4> QED BY <1>11, <2>2, <4>1
      <3>6. \A l \in 0 .. Layers - 1 : \A which \in {"k", "v"} :
               KeptTo(lv, which, l, lv.txt, lv.length, B)
        <4>1. lv.txt = call.txt /\ lv.length = call.base + call.n
          BY <1>14, <2>2, <3>1
        <4> QED BY <3>1, <3>4, <3>5, <4>1 DEF KeptBelow, KeptTo
      <3>7. \A d \in Held' : d # c => cache'[d] = cache[d] /\ d \in Held
        BY <1>14, <2>2
      <3> QED BY <1>9, <3>1, <3>6, <3>7 DEF CachesKeep
    <2> QED BY <2>1, <2>2
  <1>19. PassKeeps(B)'
    BY <1>1 DEF PassKeeps
  <1>20. RunKeeps(B)'
    <2>1. B["hidden"] = Left(rt'[r].ran, "in", rt'[r].ran.last)
      BY <1>6, <1>7, <1>12
    <2>2. "final_norm" \in rt'[r].flags => B["out"] = Left(rt'[r].ran, "final", Layers)
      BY <1>6, <1>7, <1>11 DEF Scored
    <2> QED BY <1>5, <2>1, <2>2 DEF RunKeeps, Scored
  <1>21. Expected(B)'
    BY <1>18, <1>19, <1>20 DEF Expected
  <1>22. ChainInv'
    <2>1. \A s \in Alive' : Runs(stream'[s], A, B)
      BY <1>1, <1>5, <1>8
    <2>2. Alive' = {} => A = B
      BY <1>5, <1>8
    <2> QED BY <1>17, <1>21, <2>1, <2>2, ChainStays
  <1> QED BY <1>13, <1>16, <1>22 DEF ForwardKept

\* A kernel that runs finds what it is meant to be given, and the rest of the
\* queue finds what it leaves.
LEMMA ForwardExecute ==
  ASSUME PassInv, MemInv, LaunchInv, DeviceInv, ChainInv, NEW r \in Runtimes, Execute(r)
  PROVE  ForwardKept
  <1>1. PICK s, k : s = stream[r] /\ k = Head(s)
    OBVIOUS
  <1>2. s # <<>> /\ stream' = [stream EXCEPT ![r] = Tail(s)]
        /\ UNCHANGED global /\ UNCHANGED cache /\ UNCHANGED call
    BY <1>1 DEF Execute
  <1>3. IsQueue(s) /\ DOMAIN stream = Runtimes /\ DOMAIN mem = Addresses
    BY <1>1 DEF MemInv, QueueInv, WorkInv
  <1>4. /\ 1 \in DOMAIN s /\ k = s[1] /\ IsQueue(Tail(s))
        /\ \A i \in DOMAIN Tail(s) : \E j \in DOMAIN s : Tail(s)[i] = s[j]
    BY <1>1, <1>2, <1>3, QueueTail
  <1>5. KernelOK(k, r) /\ Sound(k)
    BY <1>1, <1>4 DEF DeviceInv, MemInv, QueueInv
  <1>6. r \in Alive /\ ShapeOK(k.op) /\ FreqIn(r)
    BY <1>5, OpsShape DEF KernelOK, DeviceInv, FreqIn
  <1>7. \A region \in Written(k) : InBounds(region)
    BY <1>5 DEF Sound
  <1>8. /\ mem' = Effect(k)
        /\ rt' = IF k.op.kind # "last" THEN rt
                 ELSE [rt EXCEPT ![r].out = RowAt(k.ws.mem, BufferAt(k, "final", k.n - 1), Hidden)]
    BY <1>1, <1>7 DEF Execute
  <1>9. DOMAIN rt = Runtimes /\ DOMAIN rt[r] = RuntimeFields
    BY <1>6 DEF PassInv, RuntimesOK, RuntimeOK
  <1>10. KeepsRuntimes
    BY PassExecute
  <1>11. Alive' = Alive /\ \A q \in Alive : q = r
    BY <1>6, <1>10 DEF KeepsRuntimes, MemInv, WorkInv
  <1>12. /\ rt'[r].out = IF k.op.kind = "last" THEN RowAt(k.ws.mem, BufferAt(k, "final", k.n - 1), Hidden)
                         ELSE rt[r].out
         /\ rt'[r].ran = rt[r].ran /\ rt'[r].flags = rt[r].flags
    <2>1. CASE k.op.kind = "last"
      <3>1. rt' = [rt EXCEPT ![r].out = RowAt(k.ws.mem, BufferAt(k, "final", k.n - 1), Hidden)]
        BY <1>8, <2>1
      <3> QED BY <1>9, <2>1, <3>1 DEF RuntimeFields
    <2>2. CASE k.op.kind # "last"
      <3>1. rt' = rt
        BY <1>8, <2>2
      <3> QED BY <2>2, <3>1
    <2> QED BY <2>1, <2>2
  <1>13. PICK A, B : /\ Holds(A) /\ Expected(B) /\ (\A q \in Alive : Runs(stream[q], A, B))
                     /\ Alive = {} => A = B
    BY DEF ChainInv
  <1>14. Fed(k, A) /\ Runs(Tail(s), After(k, A), B)
    <2>1. Runs(s, A, B)
      BY <1>1, <1>6, <1>13
    <2>2. s # <<>>
      BY <1>2
    <2>3. IsQueue(s)
      BY <1>3
    <2>4. Fed(Head(s), A) /\ Runs(Tail(s), After(Head(s), A), B)
      BY ONLY <2>1, <2>2, <2>3, RunsTail
    <2> QED BY <1>1, <2>4
  <1>15. Holds(After(k, A))' /\ FreqIn(r)'
    <2>1. WorkInv
      BY DEF MemInv
    <2>2. CacheInv
      BY DEF MemInv
    <2>3. RuntimesOK
      BY DEF PassInv
    <2>4. r \in Alive
      BY <1>6
    <2>5. KernelOK(k, r)
      BY <1>5
    <2>6. ShapeOK(k.op)
      BY <1>6
    <2>7. Holds(A)
      BY <1>13
    <2>8. Fed(k, A)
      BY <1>14
    <2>9. FreqIn(r)
      BY <1>6
    <2>10. mem' = Effect(k)
      BY <1>8
    <2>11. UNCHANGED cache
      BY <1>2
    <2>12. rt'[r].out = IF k.op.kind = "last" THEN RowAt(k.ws.mem, BufferAt(k, "final", k.n - 1), Hidden)
                        ELSE rt[r].out
      BY <1>12
    <2> QED BY ONLY <1>10, <2>1, <2>2, <2>3, <2>4, <2>5, <2>6, <2>7, <2>8, <2>9, <2>10, <2>11, <2>12, HoldsAfter
  <1>16. KeepsMem
    BY <1>3, <1>8, EffectKeeps
  <1>17. \A d \in Held : DOMAIN mem'[cache[d].mem] = DOMAIN mem[cache[d].mem]
    BY <1>16, HeldCells
  <1>18. Held' = Held
    BY <1>2 DEF Held
  <1>19. DeviceInv'
    <2>1. \A c \in Held : /\ \E d \in Held' : cache'[d].mem = cache[c].mem
                          /\ DOMAIN mem'[cache[c].mem] = DOMAIN mem[cache[c].mem]
      BY <1>2, <1>17, <1>18
    <2>2. \A q \in Alive : FreqIn(q)'
      BY <1>11, <1>15
    <2>3. \A q \in Runtimes : \A i \in DOMAIN stream'[q] :
             KernelOK(stream'[q][i], q) \/ \E j \in DOMAIN stream[q] : stream'[q][i] = stream[q][j]
      <3>1. stream'[r] = Tail(s) /\ \A q \in Runtimes \ {r} : stream'[q] = stream[q]
        BY <1>2, <1>3
      <3>2. \A i \in DOMAIN stream'[r] : \E j \in DOMAIN stream[r] : stream'[r][i] = stream[r][j]
        BY ONLY <1>1, <1>4, <3>1
      <3>3. \A q \in Runtimes \ {r} : \A i \in DOMAIN stream'[q] : i \in DOMAIN stream[q] /\ stream'[q][i] = stream[q][i]
        BY ONLY <3>1
      <3>4. \A q \in Runtimes : \A i \in DOMAIN stream'[q] : \E j \in DOMAIN stream[q] : stream'[q][i] = stream[q][j]
        <4> SUFFICES ASSUME NEW q \in Runtimes, NEW i \in DOMAIN stream'[q]
                     PROVE  \E j \in DOMAIN stream[q] : stream'[q][i] = stream[q][j]
          OBVIOUS
        <4>1. CASE q = r
          BY ONLY <3>2, <4>1, i \in DOMAIN stream'[q]
        <4>2. CASE q # r
          <5>1. q \in Runtimes \ {r}
            BY <4>2
          <5> QED BY ONLY <3>3, <5>1, i \in DOMAIN stream'[q]
        <4> QED BY <4>1, <4>2
      <3> QED BY ONLY <3>4
    <2>4. UNCHANGED global
      BY <1>2
    <2> QED BY ONLY DeviceInv, <1>10, <2>1, <2>2, <2>3, <2>4, DeviceStays
  <1>20. LaunchInv'
    <2>1. Upcoming' = Upcoming /\ EndOf' = EndOf
      BY <1>2 DEF Upcoming, EndOf
    <2>2. \A q \in Alive' : rt'[q].ran.ok => rt'[q].ran.base \in Nat
      BY <1>11, <1>12 DEF LaunchInv
    <2> QED BY <1>2, <2>1, <2>2 DEF LaunchInv
  <1>21. Expected(B)'
    <2>1. CachesKeep(B) /\ PassKeeps(B) /\ RunKeeps(B)
      BY <1>13 DEF Expected
    <2>2. CachesKeep(B)'
      BY <1>2, <1>18, <2>1 DEF CachesKeep
    <2>4. PassKeeps(B)'
      <3>1. call.r \in Alive \/ call = Idle
        BY DEF PassInv, CallOK
      <3>2. call # Idle => call.r = r
        BY <1>11, <3>1
      <3>3. call # Idle => Scored(call.r, call, B)'
        BY <1>2, <1>12, <2>1, <3>2 DEF Scored, PassKeeps
      <3>4. Meets(Upcoming, B)' <=> Meets(Upcoming, B)
        BY <1>2 DEF Meets, Upcoming, EndOf
      <3>5. KeptBelow(Appended(Upcoming), B)' <=> KeptBelow(Appended(Upcoming), B)
        BY <1>2 DEF KeptBelow, Upcoming, EndOf
      <3> QED BY <1>2, <2>1, <3>3, <3>4, <3>5 DEF PassKeeps
    <2>5. RunKeeps(B)'
      BY <1>2, <1>11, <1>12, <2>1 DEF RunKeeps, Scored
    <2> QED BY <2>2, <2>4, <2>5 DEF Expected
  <1>22. ChainInv'
    <2>1. stream'[r] = Tail(s)
      BY <1>2, <1>3
    <2>2. \A q \in Alive' : Runs(stream'[q], After(k, A), B)
      BY <1>11, <1>14, <2>1
    <2>3. Alive' # {}
      BY <1>6, <1>11
    <2>4. PICK C : C = After(k, A)
      OBVIOUS
    <2>5. Holds(C)'
      BY <1>15, <2>4
    <2> QED BY <1>21, <2>2, <2>3, <2>4, <2>5, ChainStays
  <1> QED BY <1>19, <1>20, <1>22 DEF ForwardKept

-----------------------------------------------------------------------------
(* Caches and runtimes come, go and grow.                                  *)

KeptRows(kv, which, l) == {Kept(kv, which, l, kv.txt, j) : j \in 0 .. kv.length - 1}

\* All that caches say they have.
LEMMA KeptSet ==
  ASSUME NEW C, NEW H
  PROVE  \E K : /\ \A d \in H : \A l \in 0 .. Layers - 1 : \A which \in {"k", "v"} :
                      KeptRows(C[d], which, l) \subseteq K
                /\ \A f \in K : \E d \in H : \E l \in 0 .. Layers - 1 : \E which \in {"k", "v"} :
                      f \in KeptRows(C[d], which, l)
  <1> DEFINE of(d) == UNION {KeptRows(C[d], "k", l) \cup KeptRows(C[d], "v", l) : l \in 0 .. Layers - 1}
             all == UNION {of(d) : d \in H}
  <1>1. \A d : \A f : f \in of(d) <=>
           \E l \in 0 .. Layers - 1 : f \in KeptRows(C[d], "k", l) \/ f \in KeptRows(C[d], "v", l)
    OBVIOUS
  <1> HIDE DEF of
  <1>2. \A f : f \in all <=> \E d \in H : f \in of(d)
    OBVIOUS
  <1> HIDE DEF all
  <1>3. ASSUME NEW d \in H, NEW l \in 0 .. Layers - 1, NEW which \in {"k", "v"},
               NEW f \in KeptRows(C[d], which, l)
        PROVE  f \in all
    <2>1. f \in of(d)
      BY <1>1
    <2> QED BY <1>2, <2>1
  <1>4. ASSUME NEW f \in all
        PROVE  \E d \in H : \E l \in 0 .. Layers - 1 : \E which \in {"k", "v"} : f \in KeptRows(C[d], which, l)
    <2>1. PICK d \in H : f \in of(d)
      BY <1>2
    <2>2. PICK l \in 0 .. Layers - 1 : f \in KeptRows(C[d], "k", l) \/ f \in KeptRows(C[d], "v", l)
      BY <1>1, <2>1
    <2> QED BY <2>2
  <1> QED BY <1>3, <1>4

\* Caches are moved or freed while nothing is queued.
LEMMA CachesMove ==
  ASSUME PassInv, DeviceInv, ChainInv, DeviceIdle, call = Idle, UNCHANGED rt, UNCHANGED stream, UNCHANGED call,
         \A r \in Alive : mem'[rt[r].mem] = mem[rt[r].mem], CachesTrue'
  PROVE  DeviceInv' /\ ChainInv'
  <1>1. PICK A, B : /\ Holds(A) /\ Expected(B) /\ (\A r \in Alive : Runs(stream[r], A, B))
                    /\ Alive = {} => A = B
    BY DEF ChainInv
  <1>2. A = B
    BY <1>1, IdleIs
  <1>3. Alive' = Alive /\ KeepsRuntimes /\ Alive \subseteq Runtimes
    BY DEF KeepsRuntimes, Alive
  <1>4. PICK K : /\ \A d \in Held' : \A l \in 0 .. Layers - 1 : \A which \in {"k", "v"} :
                      KeptRows(cache'[d], which, l) \subseteq K
                 /\ \A f \in K : \E d \in Held' : \E l \in 0 .. Layers - 1 : \E which \in {"k", "v"} :
                      f \in KeptRows(cache'[d], which, l)
    BY KeptSet
  <1>5. PICK D : \A p \in Places : D[p] = IF p = "kv" THEN K ELSE A[p]
    <2>1. PICK D : D = [p \in Places |-> IF p = "kv" THEN K ELSE A[p]]
      OBVIOUS
    <2> QED BY <2>1
  <1>6. D["kv"] = K /\ D["out"] = A["out"] /\ D["hidden"] = A["hidden"] /\ \A p \in RowPlaces : D[p] = A[p]
    BY <1>5, Widths DEF Places, RowPlaces
  <1>7. \A r \in Alive : HoldsRows(rt[r], D)' /\ FreqIn(r)'
    <2> SUFFICES ASSUME NEW r \in Alive PROVE HoldsRows(rt[r], D)' /\ FreqIn(r)'
      OBVIOUS
    <2>1. HoldsRows(rt[r], A)
      BY <1>1 DEF Holds
    <2>2. D["out"].n # 0 => rt'[r].out = TokenRow(D["out"], D["out"].n - 1)
      BY <1>6, <2>1 DEF HoldsRows
    <2>3. mem'[rt[r].mem] = mem[rt[r].mem]
      OBVIOUS
    <2>4. \A p \in RowPlaces : D[p] = A[p]
      BY <1>6
    <2>5. FreqIn(r)
      BY DEF DeviceInv, FreqIn
    <2>6. KeepsRuntimes
      BY <1>3
    <2> QED BY ONLY r \in Alive, <2>1, <2>2, <2>3, <2>4, <2>5, <2>6, RowsKeep
  <1>8. HoldsKept(D)'
    <2> SUFFICES ASSUME NEW f \in K
                 PROVE  /\ \E c \in Held' : f[1] = cache'[c].mem
                        /\ f[2] \in DOMAIN mem'[f[1]] /\ mem'[f[1]][f[2]] = f[3]
      BY <1>6 DEF HoldsKept
    <2>1. PICK d \in Held', l \in 0 .. Layers - 1, which \in {"k", "v"} : f \in KeptRows(cache'[d], which, l)
      BY <1>4
    <2>2. PICK j \in 0 .. cache'[d].length - 1 : f = Kept(cache'[d], which, l, cache'[d].txt, j)
      BY <2>1 DEF KeptRows
    <2>3. f[1] = cache'[d].mem
      BY <2>2, KeptFields
    <2>4. f[2] \in DOMAIN mem'[f[1]] /\ mem'[f[1]][f[2]] = f[3]
      BY <2>1, <2>2 DEF CachesTrue
    <2> QED BY <2>3, <2>4
  <1>9. Holds(D)'
    BY <1>3, <1>7, <1>8 DEF Holds
  <1>10. CachesKeep(D)'
    <2> SUFFICES ASSUME NEW d \in Held', NEW l \in 0 .. Layers - 1, NEW which \in {"k", "v"},
                        NEW j \in 0 .. cache'[d].length - 1
                 PROVE  Kept(cache'[d], which, l, cache'[d].txt, j) \in K
      BY <1>6 DEF CachesKeep, KeptTo
    <2>1. Kept(cache'[d], which, l, cache'[d].txt, j) \in KeptRows(cache'[d], which, l)
      BY DEF KeptRows
    <2> QED BY <1>4, <2>1
  <1>11. PassKeeps(D)'
    BY DEF PassKeeps
  <1>12. RunKeeps(D)'
    <2>1. RunKeeps(A)
      BY <1>1, <1>2 DEF Expected
    <2> QED BY <1>3, <1>6, <2>1 DEF RunKeeps, Scored
  <1>13. Expected(D)'
    BY <1>10, <1>11, <1>12 DEF Expected
  <1>14. \A r \in Alive' : Runs(stream'[r], D, D)
    BY <1>3, RunsNone DEF DeviceIdle
  <1>15. ChainInv'
    BY <1>9, <1>13, <1>14, ChainStays
  <1>16. DeviceInv'
    BY <1>3, <1>7 DEF DeviceInv, FreqIn, DeviceIdle
  <1> QED BY <1>15, <1>16

LEMMA LaunchIdle ==
  ASSUME LaunchInv, UNCHANGED rt, call' = Idle
  PROVE  LaunchInv'
  BY DEF LaunchInv, Alive

LEMMA ForwardKvDestroy ==
  ASSUME PassInv, MemInv, LaunchInv, DeviceInv, ChainInv, NEW c \in Caches, KvDestroy(c)
  PROVE  ForwardKept
  <1>1. /\ call = Idle /\ c \in Held /\ DeviceIdle
        /\ mem' = [mem EXCEPT ![cache[c].mem] = NoMem] /\ cache' = [cache EXCEPT ![c] = NoCache]
        /\ UNCHANGED rt /\ UNCHANGED stream /\ UNCHANGED call
    BY DEF KvDestroy, Ready
  <1>2. PICK A, B : /\ Holds(A) /\ Expected(B) /\ (\A r \in Alive : Runs(stream[r], A, B))
                    /\ Alive = {} => A = B
    BY DEF ChainInv
  <1>3. CachesTrue
    <2>1. A = B
      BY <1>1, <1>2, IdleIs
    <2> QED BY <1>2, <2>1, KnownTrue DEF Holds, Expected
  <1>4. DOMAIN cache = Caches /\ Held \subseteq Caches
    BY DEF MemInv, CacheInv, Held
  <1>5. ASSUME NEW d \in Held'
        PROVE  d \in Held /\ cache'[d] = cache[d] /\ mem'[cache[d].mem] = mem[cache[d].mem]
    <2>1. d # c /\ d \in Held /\ cache'[d] = cache[d]
      BY <1>1, <1>4 DEF Held
    <2>2. cache[d].mem # cache[c].mem
      BY <1>1, <2>1 DEF MemInv, CacheInv
    <2> QED BY <1>1, <2>1, <2>2
  <1>6. CachesTrue'
    <2> SUFFICES ASSUME NEW d \in Held', NEW l \in 0 .. Layers - 1, NEW which \in {"k", "v"},
                        NEW j \in 0 .. cache'[d].length - 1, NEW f, f = Kept(cache'[d], which, l, cache'[d].txt, j)
                 PROVE  f[2] \in DOMAIN mem'[f[1]] /\ mem'[f[1]][f[2]] = f[3]
      BY DEF CachesTrue
    <2>1. f[1] = cache'[d].mem
      BY KeptFields
    <2>2. f[2] \in DOMAIN mem[f[1]] /\ mem[f[1]][f[2]] = f[3]
      BY <1>3, <1>5 DEF CachesTrue
    <2> QED BY <1>5, <2>1, <2>2
  <1>7. \A r \in Alive : mem'[rt[r].mem] = mem[rt[r].mem]
    BY <1>1 DEF MemInv, CacheInv
  <1>8. DeviceInv' /\ ChainInv'
    BY <1>1, <1>6, <1>7, CachesMove
  <1>9. LaunchInv'
    BY <1>1, LaunchIdle
  <1> QED BY <1>8, <1>9 DEF ForwardKept

\* The text of a cache begins anew, and what is queued for it goes on.
LEMMA ForwardKvReset ==
  ASSUME PassInv, MemInv, LaunchInv, DeviceInv, ChainInv, NEW c \in Caches, NEW txt \in Texts, KvReset(c, txt)
  PROVE  ForwardKept
  <1>1. /\ call = Idle /\ c \in Held /\ cache' = [cache EXCEPT ![c].length = 0, ![c].txt = txt]
        /\ UNCHANGED mem /\ UNCHANGED global /\ UNCHANGED rt /\ UNCHANGED stream /\ UNCHANGED call
    BY DEF KvReset, Ready
  <1>2. DOMAIN cache = Caches /\ Held \subseteq Caches /\ DOMAIN cache[c] = CacheFields
    BY <1>1 DEF MemInv, CacheInv, HeldOK, Held
  <1>3. /\ cache'[c].mem = cache[c].mem /\ cache'[c].length = 0 /\ DOMAIN cache'[c] = CacheFields
        /\ \A d \in Caches \ {c} : cache'[d] = cache[d]
    BY <1>1, <1>2 DEF CacheFields
  <1>4. Held' = Held
    <2>1. cache'[c] # NoCache
      BY <1>3, HeldLives
    <2> QED BY <1>1, <1>3, <2>1 DEF Held
  <1>5. \A d \in Held : cache'[d].mem = cache[d].mem
    BY <1>2, <1>3
  <1>6. KeepsRuntimes /\ Alive' = Alive
    BY <1>1 DEF KeepsRuntimes, Alive
  <1>7. PICK A, B : /\ Holds(A) /\ Expected(B) /\ (\A r \in Alive : Runs(stream[r], A, B))
                    /\ Alive = {} => A = B
    BY DEF ChainInv
  <1>8. Holds(A)'
    <2>1. \A r \in Alive : rt'[r].out = rt[r].out
      BY <1>1
    <2> QED BY <1>1, <1>4, <1>5, <1>6, <1>7, <2>1, HoldsStay
  <1>9. CachesKeep(B)'
    <2> SUFFICES ASSUME NEW d \in Held', NEW l \in 0 .. Layers - 1, NEW which \in {"k", "v"},
                        NEW j \in 0 .. cache'[d].length - 1
                 PROVE  Kept(cache'[d], which, l, cache'[d].txt, j) \in B["kv"]
      BY DEF CachesKeep, KeptTo
    <2>1. d # c
      <3>1. \A i : i \notin 0 .. 0 - 1
        OBVIOUS
      <3> QED BY <1>3, <3>1
    <2>2. cache'[d] = cache[d] /\ d \in Held
      BY <1>2, <1>3, <1>4, <2>1
    <2> QED BY <1>7, <2>2 DEF Expected, CachesKeep, KeptTo
  <1>10. PassKeeps(B)'
    BY <1>1 DEF PassKeeps
  <1>11. RunKeeps(B)'
    BY <1>1, <1>6, <1>7 DEF Expected, RunKeeps, Scored
  <1>12. Expected(B)'
    BY <1>9, <1>10, <1>11 DEF Expected
  <1>13. ChainInv'
    BY <1>1, <1>6, <1>7, <1>8, <1>12, ChainStays
  <1>14. DeviceInv'
    BY <1>1, <1>4, <1>5, <1>6, DeviceSame
  <1>15. LaunchInv'
    BY <1>1, LaunchIdle
  <1> QED BY <1>13, <1>14, <1>15 DEF ForwardKept

LEMMA ForwardKvInit ==
  ASSUME PassInv, MemInv, LaunchInv, DeviceInv, ChainInv,
         NEW c \in Caches, NEW n \in Capacities, NEW txt \in Texts, KvInit(c, n, txt)
  PROVE  ForwardKept
  <1>1. PICK a \in Unused :
           /\ mem' = [mem EXCEPT ![a] = Fresh(2 * Layers * n)]
           /\ cache' = [cache EXCEPT ![c] = [mem |-> a, capacity |-> n, length |-> 0, txt |-> txt]]
    BY DEF KvInit
  <1>2. /\ call = Idle /\ c \notin Held
        /\ UNCHANGED global /\ UNCHANGED rt /\ UNCHANGED stream /\ UNCHANGED call
    BY DEF KvInit, Ready
  <1>3. DOMAIN cache = Caches /\ Held \subseteq Caches /\ DOMAIN mem = Addresses
    BY DEF MemInv, CacheInv, Held, WorkInv
  <1>4. /\ a \in Addresses /\ (\A d \in Held : cache[d].mem # a) /\ (\A r \in Alive : rt[r].mem # a)
    BY UnusedIs
  <1>5. \A b : b # a => mem'[b] = mem[b]
    BY <1>1
  <1>6. /\ cache'[c].length = 0 /\ DOMAIN cache'[c] = CacheFields
        /\ \A d \in Caches \ {c} : cache'[d] = cache[d]
    BY <1>1, <1>3 DEF CacheFields
  <1>7. Held' = Held \cup {c} /\ \A d \in Held : cache'[d] = cache[d]
    <2>1. cache'[c] # NoCache
      BY <1>6, HeldLives
    <2>2. \A d \in Held : d # c /\ d \in Caches
      BY <1>2, <1>3
    <2> QED BY <1>6, <2>1, <2>2 DEF Held
  <1>8. KeepsRuntimes /\ Alive' = Alive
    BY <1>2 DEF KeepsRuntimes, Alive
  <1>9. PICK A, B : /\ Holds(A) /\ Expected(B) /\ (\A r \in Alive : Runs(stream[r], A, B))
                    /\ Alive = {} => A = B
    BY DEF ChainInv
  <1>10. \A r \in Alive : HoldsRows(rt[r], A)' /\ FreqIn(r)'
    <2> SUFFICES ASSUME NEW r \in Alive PROVE HoldsRows(rt[r], A)' /\ FreqIn(r)'
      OBVIOUS
    <2>1. HoldsRows(rt[r], A)
      BY <1>9 DEF Holds
    <2>2. A["out"].n # 0 => rt'[r].out = TokenRow(A["out"], A["out"].n - 1)
      BY <1>2, <2>1 DEF HoldsRows
    <2>3. mem'[rt[r].mem] = mem[rt[r].mem]
      BY <1>4, <1>5
    <2>4. \A p \in RowPlaces : A[p] = A[p]
      OBVIOUS
    <2>5. FreqIn(r)
      BY DEF DeviceInv, FreqIn
    <2>6. KeepsRuntimes
      BY <1>8
    <2> QED BY ONLY r \in Alive, <2>1, <2>2, <2>3, <2>4, <2>5, <2>6, RowsKeep
  <1>11. HoldsKept(A)'
    <2>1. HoldsKept(A)
      BY <1>9 DEF Holds
    <2>2. ASSUME NEW f \in A["kv"]
          PROVE  mem'[f[1]] = mem[f[1]] /\ \E d \in Held' : f[1] = cache'[d].mem
      <3>1. PICK d \in Held : f[1] = cache[d].mem
        BY <2>1 DEF HoldsKept
      <3>2. f[1] # a
        BY <1>4, <3>1
      <3> QED BY <1>5, <1>7, <3>1, <3>2
    <2>3. A["kv"] \subseteq A["kv"]
      OBVIOUS
    <2> QED BY <2>1, <2>2, <2>3, KeptStays
  <1>12. Holds(A)'
    BY <1>8, <1>10, <1>11 DEF Holds
  <1>13. CachesKeep(B)'
    <2> SUFFICES ASSUME NEW d \in Held', NEW l \in 0 .. Layers - 1, NEW which \in {"k", "v"},
                        NEW j \in 0 .. cache'[d].length - 1
                 PROVE  Kept(cache'[d], which, l, cache'[d].txt, j) \in B["kv"]
      BY DEF CachesKeep, KeptTo
    <2>1. d # c
      <3>1. \A i : i \notin 0 .. 0 - 1
        OBVIOUS
      <3> QED BY <1>6, <3>1
    <2>2. cache'[d] = cache[d] /\ d \in Held
      BY <1>7, <2>1
    <2> QED BY <1>9, <2>2 DEF Expected, CachesKeep, KeptTo
  <1>14. PassKeeps(B)'
    BY <1>2 DEF PassKeeps
  <1>15. RunKeeps(B)'
    BY <1>2, <1>8, <1>9 DEF Expected, RunKeeps, Scored
  <1>16. Expected(B)'
    BY <1>13, <1>14, <1>15 DEF Expected
  <1>17. ChainInv'
    BY <1>2, <1>8, <1>9, <1>12, <1>16, ChainStays
  <1>18. DeviceInv'
    <2>1. \A d \in Held : /\ \E e \in Held' : cache'[e].mem = cache[d].mem
                          /\ DOMAIN mem'[cache[d].mem] = DOMAIN mem[cache[d].mem]
      BY <1>4, <1>5, <1>7
    <2>2. \A r \in Alive : FreqIn(r)'
      BY <1>10
    <2>3. \A r \in Runtimes : \A i \in DOMAIN stream'[r] :
             KernelOK(stream'[r][i], r) \/ \E j \in DOMAIN stream[r] : stream'[r][i] = stream[r][j]
      BY <1>2
    <2>4. UNCHANGED global
      BY <1>2
    <2> QED BY ONLY DeviceInv, <1>8, <2>1, <2>2, <2>3, <2>4, DeviceStays
  <1>19. LaunchInv'
    BY <1>2, LaunchIdle
  <1> QED BY <1>17, <1>18, <1>19 DEF ForwardKept

LEMMA Divided ==
  ASSUME NEW w \in Nat \ {0}, NEW t \in Nat, NEW y \in 0 .. w - 1
  PROVE  (t * w + y) \div w = t /\ (t * w + y) % w = y
  <1>1. PICK n \in Nat : n = t + 1
    OBVIOUS
  <1>2. t \in 0 .. n - 1 /\ w \in Nat
    BY <1>1
  <1>3. t * w \in Nat /\ (t * w + y) \div w = t
    BY <1>2, CellOf
  <1>4. PICK x \in Nat : x = t * w + y
    BY <1>3
  <1>5. x = w * (x \div w) + (x % w) /\ x % w \in 0 .. w - 1
    BY <1>4
  <1>6. PICK m \in 0 .. w - 1 : m = x % w
    BY <1>5
  <1>7. w * t + m = w * t + y /\ w * t \in Nat
    BY <1>3, <1>4, <1>5, <1>6
  <1>8. m = y
    BY <1>7
  <1> QED BY <1>3, <1>4, <1>6, <1>8

\* Row j of a layer is where the new stride has it.
LEMMA GrownRow ==
  ASSUME NEW kv, NEW lv, kv.capacity \in Nat \ {0}, lv.capacity \in Nat \ {0}, NEW len \in Nat,
         len <= lv.capacity, NEW old, NEW g, g = Grown(old, kv.capacity, lv.capacity, len)
  PROVE  \A which \in {"k", "v"} : \A l \in 0 .. Layers - 1 : \A j \in 0 .. len - 1 :
            CacheRow(lv, which, l, j) \in DOMAIN g /\ g[CacheRow(lv, which, l, j)] = old[CacheRow(kv, which, l, j)]
  <1> SUFFICES ASSUME NEW which \in {"k", "v"}, NEW l \in 0 .. Layers - 1, NEW j \in 0 .. len - 1,
                      NEW y, y = CacheRow(lv, which, l, j), NEW x, x = CacheRow(kv, which, l, j)
               PROVE  y \in DOMAIN g /\ g[y] = old[x]
    OBVIOUS
  <1>1. PICK w, u, L : w = lv.capacity /\ u = kv.capacity /\ L = Layers
    OBVIOUS
  <1>2. w \in Nat \ {0} /\ u \in Nat \ {0} /\ L \in Nat \ {0} /\ l \in Nat /\ l < L
        /\ j \in Nat /\ j < len /\ j \in 0 .. w - 1
    BY <1>1, Constants
  <1>3. PICK m : m = (IF which = "k" THEN l ELSE L + l)
    OBVIOUS
  <1>4. m \in Nat
    BY <1>2, <1>3
  <1>5. \A v \in Nat : L * v \in Nat /\ l * v \in Nat /\ (L + l) * v = L * v + l * v
    BY <1>2
  <1>6. CacheRow(lv, which, l, j) = m * w + j /\ CacheRow(kv, which, l, j) = m * u + j
    <2>1. CASE which = "k"
      <3>1. CacheRow(lv, which, l, j) = 0 + l * w + j /\ CacheRow(kv, which, l, j) = 0 + l * u + j /\ m = l
        BY <1>1, <1>3, <2>1 DEF CacheRow
        <3>2. \A v \in Nat : 0 + l * v + j = l * v + j
        BY <1>2, <1>5
      <3> QED BY <1>2, <3>1, <3>2
    <2>2. CASE which # "k"
      <3>1. CacheRow(lv, which, l, j) = L * w + l * w + j /\ CacheRow(kv, which, l, j) = L * u + l * u + j /\ m = L + l
        BY <1>1, <1>3, <2>2 DEF CacheRow
      <3> QED BY <1>2, <1>5, <3>1
    <2> QED BY <2>1, <2>2
  <1>7. (m * w + j) \div w = m /\ (m * w + j) % w = j
    BY <1>2, <1>4, Divided
  <1>8. CacheRow(lv, which, l, j) \in 0 .. 2 * Layers * lv.capacity - 1
    <2>1. /\ CacheRow(lv, which, l, j) \in Nat /\ CacheRow(lv, which, l, j) + 1 <= 2 * Layers * lv.capacity
          /\ 2 * Layers * lv.capacity \in Nat
      <3>1. PICK one : one = 1
        OBVIOUS
      <3>2. one \in Nat
        BY <3>1
      <3>3. j + one <= lv.capacity
        BY <1>1, <1>2, <3>1
      <3>4. l \in Nat
        BY <1>2
      <3>5. l < Layers
        BY <1>1, <1>2
      <3>6. j \in Nat
        BY <1>2
      <3>7. /\ CacheRow(lv, which, l, j) \in Nat /\ CacheRow(lv, which, l, j) + one <= 2 * Layers * lv.capacity
            /\ 2 * Layers * lv.capacity \in Nat
        BY ONLY <3>2, <3>3, <3>4, <3>5, <3>6, lv.capacity \in Nat \ {0}, which \in {"k", "v"}, CacheRowIs
      <3> QED BY <3>1, <3>7
    <2>2. \A a, b \in Nat : a + 1 <= b => a \in 0 .. b - 1
      OBVIOUS
    <2> QED BY ONLY <2>1, <2>2
  <1>9. y \in DOMAIN g /\ g[y] = IF y % w < len THEN old[((y \div w) * u) + (y % w)] ELSE Junk
    <2>1. PICK T : T = 0 .. 2 * Layers * w - 1
      OBVIOUS
    <2>2. y \in T
      BY <1>1, <1>8, <2>1
    <2>3. g = [z \in T |-> IF z % w < len THEN old[((z \div w) * u) + (z % w)] ELSE Junk]
      BY <1>1, <2>1 DEF Grown
    <2> QED BY ONLY <2>2, <2>3
  <1>10. y % w = j /\ y \div w = m
    BY <1>6, <1>7
  <1>11. g[y] = old[m * u + j]
    BY ONLY <1>2, <1>9, <1>10
  <1> QED BY <1>6, <1>9, <1>11

LEMMA ForwardKvReserve ==
  ASSUME PassInv, MemInv, LaunchInv, DeviceInv, ChainInv, NEW c \in Caches, NEW n \in Capacities, KvReserve(c, n)
  PROVE  ForwardKept
  <1>1. PICK kv : kv = cache[c]
    OBVIOUS
  <1>2. PICK a \in Unused :
           /\ mem' = [mem EXCEPT ![kv.mem] = NoMem, ![a] = Grown(mem[kv.mem], kv.capacity, n, kv.length)]
           /\ cache' = [cache EXCEPT ![c].mem = a, ![c].capacity = n]
    BY <1>1 DEF KvReserve
  <1>3. /\ call = Idle /\ c \in Held /\ DeviceIdle /\ n > kv.capacity
        /\ UNCHANGED rt /\ UNCHANGED stream /\ UNCHANGED call
    BY <1>1 DEF KvReserve, Ready
  <1>4. /\ DOMAIN cache = Caches /\ Held \subseteq Caches /\ DOMAIN mem = Addresses
        /\ DOMAIN kv = CacheFields /\ kv.capacity \in Nat \ {0} /\ kv.length \in 0 .. kv.capacity
        /\ kv.mem \in Addresses
    BY <1>1, <1>3 DEF MemInv, CacheInv, HeldOK, Held, WorkInv
  <1>5. /\ a \in Addresses /\ (\A d \in Held : cache[d].mem # a) /\ (\A r \in Alive : rt[r].mem # a)
    BY UnusedIs
  <1>6. n \in Nat \ {0} /\ kv.length \in Nat /\ kv.length <= n
    BY <1>3, <1>4, Constants
  <1>7. /\ mem'[a] = Grown(mem[kv.mem], kv.capacity, n, kv.length)
        /\ \A b \in Addresses : b # a /\ b # kv.mem => mem'[b] = mem[b]
    <2>1. a # kv.mem
      BY <1>1, <1>3, <1>5
    <2>2. PICK g : g = Grown(mem[kv.mem], kv.capacity, n, kv.length)
      OBVIOUS
    <2>3. mem' = [mem EXCEPT ![kv.mem] = NoMem, ![a] = g]
      BY <1>2, <2>2
    <2> QED BY ONLY <1>4, <1>5, <2>1, <2>2, <2>3
  <1>8. PICK lv : lv = cache'[c]
    OBVIOUS
  <1>9. /\ lv.mem = a /\ lv.capacity = n /\ lv.length = kv.length /\ lv.txt = kv.txt
        /\ \A d \in Caches \ {c} : cache'[d] = cache[d]
    BY <1>1, <1>2, <1>4, <1>8 DEF CacheFields
  <1>10. PICK A, B : /\ Holds(A) /\ Expected(B) /\ (\A r \in Alive : Runs(stream[r], A, B))
                     /\ Alive = {} => A = B
    BY DEF ChainInv
  <1>11. CachesTrue
    <2>1. A = B
      BY <1>3, <1>10, IdleIs
    <2> QED BY <1>10, <2>1, KnownTrue DEF Holds, Expected
  <1>12. ASSUME NEW d \in Held', d # c
         PROVE  d \in Held /\ cache'[d] = cache[d] /\ mem'[cache[d].mem] = mem[cache[d].mem]
    <2>1. d \in Held /\ cache'[d] = cache[d]
      BY <1>9, <1>12 DEF Held
    <2>2. cache[d].mem # kv.mem /\ cache[d].mem # a /\ cache[d].mem \in Addresses
      BY <1>1, <1>3, <1>5, <1>12, <2>1 DEF MemInv, CacheInv, HeldOK
    <2> QED BY <1>7, <2>1, <2>2
  <1>13. CachesTrue'
    <2> SUFFICES ASSUME NEW d \in Held', NEW l \in 0 .. Layers - 1, NEW which \in {"k", "v"},
                        NEW j \in 0 .. cache'[d].length - 1, NEW f, f = Kept(cache'[d], which, l, cache'[d].txt, j)
                 PROVE  f[2] \in DOMAIN mem'[f[1]] /\ mem'[f[1]][f[2]] = f[3]
      BY DEF CachesTrue
    <2>1. CASE d # c
      <3>1. f[1] = cache'[d].mem
        BY KeptFields
      <3>2. f[2] \in DOMAIN mem[f[1]] /\ mem[f[1]][f[2]] = f[3]
        BY <1>11, <1>12, <2>1 DEF CachesTrue
      <3> QED BY <1>12, <2>1, <3>1, <3>2
    <2>2. CASE d = c
      <3>1. j \in 0 .. kv.length - 1 /\ f = Kept(lv, which, l, kv.txt, j)
        BY <1>8, <1>9, <2>2
      <3>2. PICK g : g = Kept(kv, which, l, kv.txt, j)
        OBVIOUS
      <3>3. g[2] \in DOMAIN mem[g[1]] /\ mem[g[1]][g[2]] = g[3]
        BY <1>1, <1>3, <1>11, <3>1, <3>2 DEF CachesTrue
      <3>4. g[1] = kv.mem /\ g[2] = CacheRow(kv, which, l, j) /\ g[3] = f[3]
        BY <3>1, <3>2, KeptFields
      <3>5. f[1] = a /\ f[2] = CacheRow(lv, which, l, j)
        BY <1>9, <3>1, KeptFields
      <3>6. PICK old, len, new, x, y :
              /\ old = mem[kv.mem] /\ len = kv.length /\ new = Grown(old, kv.capacity, lv.capacity, len)
              /\ y = CacheRow(lv, which, l, j) /\ x = CacheRow(kv, which, l, j)
        OBVIOUS
      <3>7. lv.capacity \in Nat \ {0} /\ len \in Nat /\ len <= lv.capacity /\ j \in 0 .. len - 1
        BY <1>6, <1>9, <3>1, <3>6
      <3>8. y \in DOMAIN new /\ new[y] = old[x]
        <4>1. lv.capacity \in Nat \ {0}
          BY <3>7
        <4>2. len \in Nat
          BY <3>7
        <4>3. len <= lv.capacity
          BY <3>7
        <4>4. j \in 0 .. len - 1
          BY <3>7
        <4>5. kv.capacity \in Nat \ {0}
          BY <1>4
        <4>6. new = Grown(old, kv.capacity, lv.capacity, len)
          BY <3>6
        <4>7. \A w \in {"k", "v"} : \A m \in 0 .. Layers - 1 : \A i \in 0 .. len - 1 :
                 CacheRow(lv, w, m, i) \in DOMAIN new /\ new[CacheRow(lv, w, m, i)] = old[CacheRow(kv, w, m, i)]
          BY ONLY <4>1, <4>2, <4>3, <4>5, <4>6, GrownRow
        <4> QED BY <3>6, <4>4, <4>7
      <3>9. mem'[a] = new
        BY <1>7, <1>9, <3>6
      <3> QED BY <3>3, <3>4, <3>5, <3>6, <3>8, <3>9
    <2> QED BY <2>1, <2>2
  <1>14. \A r \in Alive : mem'[rt[r].mem] = mem[rt[r].mem]
    <2>1. \A r \in Alive : rt[r].mem # kv.mem /\ rt[r].mem # a /\ rt[r].mem \in Addresses
      BY <1>1, <1>3, <1>5, RuntimeHas DEF MemInv, CacheInv
    <2> QED BY <1>7, <2>1
  <1>15. DeviceInv' /\ ChainInv'
    BY <1>3, <1>13, <1>14, CachesMove
  <1>16. LaunchInv'
    BY <1>3, LaunchIdle
  <1> QED BY <1>15, <1>16 DEF ForwardKept

\* The caches are what they were when a runtime is gone.
LEMMA ForwardDestroy ==
  ASSUME PassInv, MemInv, LaunchInv, DeviceInv, ChainInv, NEW r \in Runtimes, Destroy(r)
  PROVE  ForwardKept
  <1>1. /\ call = Idle /\ r \in Alive /\ DeviceIdle
        /\ mem' = [mem EXCEPT ![rt[r].mem] = NoMem] /\ rt' = [rt EXCEPT ![r] = NoRuntime]
        /\ UNCHANGED cache /\ UNCHANGED stream /\ UNCHANGED call
    BY DEF Destroy, Ready
  <1>2. DOMAIN rt = Runtimes /\ \A s \in Alive : s = r
    BY <1>1 DEF PassInv, RuntimesOK, MemInv, WorkInv
  <1>3. Alive' = {}
    BY <1>1, <1>2 DEF Alive
  <1>4. Held' = Held
    BY <1>1 DEF Held
  <1>5. PICK A, B : /\ Holds(A) /\ Expected(B) /\ (\A s \in Alive : Runs(stream[s], A, B))
                    /\ Alive = {} => A = B
    BY DEF ChainInv
  <1>6. A = B
    BY <1>1, <1>5, IdleIs
  <1>7. HoldsKept(A)'
    <2>1. HoldsKept(A)
      BY <1>5 DEF Holds
    <2>2. ASSUME NEW f \in A["kv"]
          PROVE  mem'[f[1]] = mem[f[1]] /\ \E d \in Held' : f[1] = cache'[d].mem
      <3>1. PICK d \in Held : f[1] = cache[d].mem
        BY <2>1 DEF HoldsKept
      <3>2. f[1] # rt[r].mem
        BY <1>1, <3>1 DEF MemInv, CacheInv
      <3> QED BY <1>1, <1>4, <3>1, <3>2
    <2>3. A["kv"] \subseteq A["kv"]
      OBVIOUS
    <2> QED BY <2>1, <2>2, <2>3, KeptStays
  <1>8. Holds(A)'
    BY <1>3, <1>7 DEF Holds
  <1>9. Expected(A)'
    <2>1. CachesKeep(A)
      BY <1>5, <1>6 DEF Expected
    <2>2. CachesKeep(A)'
      BY <1>1, <1>4, <2>1 DEF CachesKeep
    <2>3. PassKeeps(A)'
      BY <1>1 DEF PassKeeps
    <2>4. RunKeeps(A)'
      BY <1>3 DEF RunKeeps
    <2> QED BY <2>2, <2>3, <2>4 DEF Expected
  <1>10. ChainInv'
    BY <1>3, <1>8, <1>9, ChainStays
  <1>11. DeviceInv'
    BY <1>1, <1>3 DEF DeviceInv, DeviceIdle
  <1>12. LaunchInv'
    BY <1>1, <1>3 DEF LaunchInv
  <1> QED BY <1>10, <1>11, <1>12 DEF ForwardKept

\* A runtime that is made has left nothing yet.
LEMMA ForwardCreated ==
  ASSUME PassInv, MemInv, LaunchInv, DeviceInv, ChainInv, NEW r \in Runtimes, NEW tokens \in TokenLimits,
         call = Idle, Alive = {}, UNCHANGED cache, UNCHANGED stream, UNCHANGED call,
         NEW bytes \in Nat, NEW at, at = SliceAt(tokens, bytes), NEW a \in Unused,
         mem' = [mem EXCEPT ![a] =
             [Fresh(Total(tokens, bytes)) EXCEPT ![at["inv_freq"]] = Row("freq", 0, 0, 0)]],
         rt' = [rt EXCEPT ![r] = [mem |-> a, at |-> at, tokens |-> tokens, ran |-> NoRun,
                                  out |-> Junk, events |-> {}, flags |-> {}]]
  PROVE  ForwardKept
  <1>1. DOMAIN rt = Runtimes /\ tokens \in Nat \ {0}
    BY Constants DEF PassInv, RuntimesOK
  <1>2. PICK x : x = rt'[r]
    OBVIOUS
  <1>3. /\ x.mem = a /\ x.at = at /\ x.tokens = tokens /\ x.ran = NoRun /\ x.ran.ok = FALSE
        /\ DOMAIN x = RuntimeFields
    BY <1>1, <1>2 DEF RuntimeFields, NoRun
  <1>4. Alive' = {r}
    <2>1. x # NoRuntime
      BY <1>3, RuntimeLives
    <2>2. \A s \in Runtimes \ {r} : rt'[s] = rt[s] /\ rt[s] = NoRuntime
      BY <1>1 DEF Alive
    <2> QED BY <1>2, <2>1, <2>2 DEF Alive
  <1>5. \A s \in Runtimes : stream'[s] = <<>>
    BY DeadIsIdle
  <1>6. /\ a \in Addresses /\ DOMAIN mem = Addresses /\ (\A d \in Held : cache[d].mem # a)
    BY UnusedIs DEF MemInv, WorkInv
  <1>7. Held' = Held
    BY DEF Held
  <1>8. FreqIn(r)'
    <2>1. PICK i, T : i = at["inv_freq"] /\ T = Total(tokens, bytes)
      OBVIOUS
    <2>2. i \in Nat /\ T \in Nat /\ i + 1 <= T
      <3>1. "inv_freq" \in Names /\ SliceSize(tokens, bytes, "inv_freq") = 1
        BY Widths DEF Names, SliceSize
      <3>2. /\ SliceAt(tokens, bytes)["inv_freq"] \in Nat /\ Total(tokens, bytes) \in Nat
            /\ SliceAt(tokens, bytes)["inv_freq"] + SliceSize(tokens, bytes, "inv_freq") <= Total(tokens, bytes)
        BY <1>1, <3>1, SlicesApart
      <3> QED BY <2>1, <3>1, <3>2
    <2>3. i \in 0 .. T - 1
      BY <2>2
    <2>4. mem'[a] = [Fresh(T) EXCEPT ![i] = Row("freq", 0, 0, 0)]
      BY <1>6, <2>1
    <2>5. mem'[a][i] = Row("freq", 0, 0, 0)
      BY <2>3, <2>4 DEF Fresh
    <2>6. rt'[r].mem = a /\ rt'[r].at["inv_freq"] = i
      BY <1>2, <1>3, <2>1
    <2> QED BY <2>5, <2>6 DEF FreqIn, Row
  <1>9. DeviceInv'
    <2>1. \A s \in Alive' : FreqIn(s)'
      BY <1>4, <1>8
    <2> QED BY <1>5, <2>1 DEF DeviceInv, FreqIn
  <1>10. PICK A : Holds(A) /\ Expected(A)
    BY DEF ChainInv
  <1>11. PICK w : w = [at |-> "none", layer |-> 0, n |-> 0, base |-> 0, txt |-> "none", src |-> "normed"]
    OBVIOUS
  <1>12. w.n = 0 /\ w.src \in Products
    BY <1>11 DEF Products
  <1>13. PICK D : \A p \in Places : D[p] = IF p = "kv" THEN A["kv"] ELSE w
    <2>1. PICK D : D = [p \in Places |-> IF p = "kv" THEN A["kv"] ELSE w]
      OBVIOUS
    <2> QED BY <2>1
  <1>14. D["kv"] = A["kv"] /\ D["out"] = w /\ (\A p \in RowPlaces : D[p] = w) /\ D["arena"] = w
    BY <1>13, Widths DEF Places, RowPlaces
  <1>15. HoldsRows(rt[r], D)'
    <2>1. \A p \in RowPlaces : D[p].n \in 0 .. rt'[r].tokens
      BY <1>1, <1>2, <1>3, <1>12, <1>14
    <2>2. \A p \in RowPlaces : RowsAre(rt[r].mem, rt[r].at[p], Stride(p, D[p]), D[p])'
      <3>1. \A t : t \notin 0 .. w.n - 1
        BY <1>12
      <3> QED BY <1>14, <3>1 DEF RowsAre
    <2>3. D["arena"].src \in Products /\ D["out"].n = 0
      BY <1>12, <1>14
    <2> QED BY <2>1, <2>2, <2>3 DEF HoldsRows
  <1>16. HoldsKept(D)'
    <2>1. HoldsKept(A)
      BY <1>10 DEF Holds
    <2>2. ASSUME NEW f \in D["kv"]
          PROVE  mem'[f[1]] = mem[f[1]] /\ \E d \in Held' : f[1] = cache'[d].mem
      <3>1. PICK d \in Held : f[1] = cache[d].mem
        BY <1>14, <2>1 DEF HoldsKept
      <3>2. f[1] # a
        BY <1>6, <3>1
      <3> QED BY <1>7, <3>1, <3>2
    <2>3. D["kv"] \subseteq A["kv"]
      BY <1>14
    <2> QED BY <2>1, <2>2, <2>3, KeptStays
  <1>17. Holds(D)'
    BY <1>4, <1>15, <1>16 DEF Holds
  <1>18. Expected(D)'
    <2>1. CachesKeep(D)'
      BY <1>7, <1>10, <1>14 DEF Expected, CachesKeep, KeptTo
    <2>2. PassKeeps(D)'
      BY DEF PassKeeps
    <2>3. RunKeeps(D)'
      BY <1>2, <1>3, <1>4 DEF RunKeeps
    <2> QED BY <2>1, <2>2, <2>3 DEF Expected
  <1>19. ChainInv'
    <2>1. \A s \in Alive' : Runs(stream'[s], D, D)
      BY <1>4, <1>5, RunsNone
    <2> QED BY <1>17, <1>18, <2>1, ChainStays
  <1>20. LaunchInv'
    BY <1>2, <1>3, <1>4 DEF LaunchInv
  <1> QED BY <1>9, <1>19, <1>20 DEF ForwardKept

LEMMA ForwardCreate ==
  ASSUME Coexist = FALSE, PassInv, MemInv, LaunchInv, DeviceInv, ChainInv,
         NEW r \in Runtimes, NEW tokens \in TokenLimits, Create(r, tokens)
  PROVE  ForwardKept
  <1>1. PICK cells, bytes, at :
           /\ cells = ArenaCells(tokens) /\ bytes = (IF cells > global.bytes THEN cells ELSE global.bytes)
           /\ at = SliceAt(tokens, bytes)
    OBVIOUS
  <1>2. /\ call = Idle /\ Alive = {} /\ UNCHANGED cache /\ UNCHANGED stream /\ UNCHANGED call
    BY DEF Create, Ready
  <1>3. bytes \in Nat
    <2>1. tokens \in Nat
      BY Constants
    <2> QED BY <1>1, <2>1, ArenaCellsNat DEF MemInv, WorkInv
  <1>4. PICK a \in Unused :
           \/ /\ mem' = [mem EXCEPT ![a] =
                    [Fresh(Total(tokens, bytes)) EXCEPT ![at["inv_freq"]] = Row("freq", 0, 0, 0)]]
              /\ rt' = [rt EXCEPT ![r] = [mem |-> a, at |-> at, tokens |-> tokens, ran |-> NoRun,
                                          out |-> Junk, events |-> {}, flags |-> {}]]
           \/ UNCHANGED mem /\ UNCHANGED rt
    BY <1>1 DEF Create
  <1>5. CASE /\ mem' = [mem EXCEPT ![a] =
                   [Fresh(Total(tokens, bytes)) EXCEPT ![at["inv_freq"]] = Row("freq", 0, 0, 0)]]
             /\ rt' = [rt EXCEPT ![r] = [mem |-> a, at |-> at, tokens |-> tokens, ran |-> NoRun,
                                         out |-> Junk, events |-> {}, flags |-> {}]]
    BY <1>1, <1>2, <1>3, <1>5, ForwardCreated
  <1>6. CASE UNCHANGED mem /\ UNCHANGED rt
    <2>1. Alive' = {} /\ Held' = Held
      BY <1>2, <1>6 DEF Alive, Held
    <2>2. \A s \in Runtimes : stream'[s] = <<>>
      BY <1>2, DeadIsIdle
    <2>3. DeviceInv'
      BY <2>1, <2>2 DEF DeviceInv
    <2>4. LaunchInv'
      BY <1>2, <1>6, LaunchIdle
    <2>5. PICK A : Holds(A) /\ Expected(A)
      BY <1>2 DEF ChainInv
    <2>6. HoldsKept(A)'
      BY <1>2, <1>6, <2>1, <2>5 DEF Holds, HoldsKept
    <2>7. Holds(A)'
      BY <2>1, <2>6 DEF Holds
    <2>8. Expected(A)'
      <3>1. CachesKeep(A)'
        BY <1>2, <2>1, <2>5 DEF Expected, CachesKeep
      <3>2. PassKeeps(A)'
        BY <1>2 DEF PassKeeps
      <3>3. RunKeeps(A)'
        BY <2>1 DEF RunKeeps
      <3> QED BY <3>1, <3>2, <3>3 DEF Expected
    <2>9. ChainInv'
      BY <2>1, <2>7, <2>8, ChainStays
    <2> QED BY <2>3, <2>4, <2>9 DEF ForwardKept
  <1> QED BY <1>4, <1>5, <1>6

-----------------------------------------------------------------------------
(* The theorems about what runs and caches have.                           *)

ForwardInv == LaunchInv /\ DeviceInv /\ ChainInv

LEMMA ForwardInit == Init => ForwardInv
  <1> SUFFICES ASSUME Init PROVE ForwardInv
    OBVIOUS
  <1>1. Alive = {} /\ Held = {} /\ call = Idle /\ \A r \in Runtimes : stream[r] = <<>>
    BY DEF Init, Alive, Held
  <1>2. LaunchInv
    BY <1>1 DEF LaunchInv
  <1>3. DeviceInv
    BY <1>1 DEF DeviceInv
  <1>4. PICK A : A["kv"] = {}
    <2>1. PICK A : A = [p \in {"kv"} |-> {}]
      OBVIOUS
    <2> QED BY <2>1
  <1>5. Holds(A)
    BY <1>1, <1>4 DEF Holds, HoldsKept
  <1>6. Expected(A)
    BY <1>1 DEF Expected, CachesKeep, PassKeeps, RunKeeps
  <1>7. ChainInv
    BY <1>1, <1>5, <1>6 DEF ChainInv
  <1> QED BY <1>2, <1>3, <1>7 DEF ForwardInv

LEMMA ForwardStutters ==
  ASSUME LaunchInv, DeviceInv, ChainInv, UNCHANGED vars
  PROVE  ForwardKept
  <1>1. /\ UNCHANGED mem /\ UNCHANGED global /\ UNCHANGED rt /\ UNCHANGED cache /\ UNCHANGED stream
        /\ UNCHANGED call
    BY DEF vars
  <1>2. KeepsRuntimes /\ Alive' = Alive /\ Held' = Held
    BY <1>1 DEF KeepsRuntimes, Alive, Held
  <1>3. LaunchInv'
    BY <1>1, <1>2 DEF LaunchInv, Upcoming, EndOf
  <1>4. DeviceInv'
    BY <1>1, <1>2, DeviceSame
  <1>5. PICK A, B : /\ Holds(A) /\ Expected(B) /\ (\A r \in Alive : Runs(stream[r], A, B))
                    /\ Alive = {} => A = B
    BY DEF ChainInv
  <1>6. Holds(A)'
    BY <1>1, <1>2, <1>5, HoldsStay
  <1>7. CachesKeep(B)' /\ RunKeeps(B)'
    BY <1>1, <1>2, <1>5 DEF Expected, CachesKeep, RunKeeps, Scored
  <1>8. PassKeeps(B)'
    <2>1. Upcoming' = Upcoming
      BY <1>1 DEF Upcoming, EndOf
    <2> QED BY <1>1, <1>5, <2>1 DEF Expected, PassKeeps, Meets, Scored, KeptBelow
  <1>9. Expected(B)'
    BY <1>7, <1>8 DEF Expected
  <1>10. ChainInv'
    BY <1>1, <1>2, <1>5, <1>6, <1>9, ChainStays
  <1> QED BY <1>3, <1>4, <1>10 DEF ForwardKept

LEMMA ForwardNext ==
  ASSUME Coexist = FALSE, PassInv, MemInv, ForwardInv, [Next]_vars
  PROVE  ForwardInv'
  <1> SUFFICES ForwardKept
    BY DEF ForwardKept, ForwardInv
  <1>1. LaunchInv
    BY DEF ForwardInv
  <1>2. DeviceInv
    BY DEF ForwardInv
  <1>3. ChainInv
    BY DEF ForwardInv
  <1>4. CASE UNCHANGED vars
    BY <1>1, <1>2, <1>3, <1>4, ForwardStutters
  <1>5. ASSUME NEW r \in Runtimes,
               \/ \E tokens \in TokenLimits : Create(r, tokens)
               \/ Destroy(r)
               \/ \E c \in Caches, n \in TokenLimits : RunCached(r, c, n)
               \/ \E n \in TokenLimits, txt \in Texts, first, last \in 0 .. Layers :
                     RunUncached(r, n, txt, first, last)
               \/ FinalNorm(r) \/ Candidates(r) \/ Execute(r)
        PROVE  ForwardKept
    <2>1. CASE \E tokens \in TokenLimits : Create(r, tokens)
      BY <1>1, <1>2, <1>3, <2>1, ForwardCreate
    <2>2. CASE Destroy(r)
      BY <1>1, <1>2, <1>3, <2>2, ForwardDestroy
    <2>3. CASE \E c \in Caches, n \in TokenLimits : RunCached(r, c, n)
      BY <1>1, <1>2, <1>3, <2>3, ForwardRunCached
    <2>4. CASE \E n \in TokenLimits, txt \in Texts, first, last \in 0 .. Layers : RunUncached(r, n, txt, first, last)
      BY <1>1, <1>2, <1>3, <2>4, ForwardRunUncached
    <2>5. CASE FinalNorm(r) \/ Candidates(r)
      <3>1. PICK step \in {"final_norm", "cand"} : Behind(r, step)
        BY <2>5 DEF FinalNorm, Candidates
      <3> QED BY <1>1, <1>2, <1>3, <3>1, ForwardBehind
    <2>6. CASE Execute(r)
      BY <1>1, <1>2, <1>3, <2>6, ForwardExecute
    <2> QED BY <1>5, <2>1, <2>2, <2>3, <2>4, <2>5, <2>6
  <1>6. ASSUME NEW c \in Caches,
               \/ \E n \in Capacities, txt \in Texts : KvInit(c, n, txt)
               \/ \E n \in Capacities : KvReserve(c, n)
               \/ \E txt \in Texts : KvReset(c, txt)
               \/ KvDestroy(c)
        PROVE  ForwardKept
    <2>1. CASE \E n \in Capacities, txt \in Texts : KvInit(c, n, txt)
      BY <1>1, <1>2, <1>3, <2>1, ForwardKvInit
    <2>2. CASE \E n \in Capacities : KvReserve(c, n)
      BY <1>1, <1>2, <1>3, <2>2, ForwardKvReserve
    <2>3. CASE \E txt \in Texts : KvReset(c, txt)
      BY <1>1, <1>2, <1>3, <2>3, ForwardKvReset
    <2>4. CASE KvDestroy(c)
      BY <1>1, <1>2, <1>3, <2>4, ForwardKvDestroy
    <2> QED BY <1>6, <2>1, <2>2, <2>3, <2>4
  <1>7. CASE Launch
    <2>1. call # Idle /\ call.todo # <<>> /\ (LaunchStep \/ LaunchFails) /\ UNCHANGED <<mem, global, cache>>
      BY <1>7 DEF Launch
    <2> QED BY <1>1, <1>2, <1>3, <2>1, ForwardLaunchStep, ForwardLaunchFails
  <1>8. CASE Return
    BY <1>1, <1>2, <1>3, <1>8, ForwardReturn
  <1> QED BY <1>4, <1>5, <1>6, <1>7, <1>8 DEF Next

\* What an idle runtime's memory holds of its last run.
LEMMA RunLeft ==
  ASSUME PassInv, MemInv, ForwardInv, NEW r \in Alive, rt[r].ran.ok, stream[r] = <<>>, call = Idle
  PROVE  LET run == rt[r].ran IN
         /\ \A t \in 0 .. run.n - 1 :
               RowAt(rt[r].mem, rt[r].at["hidden"] + t * Hidden, Hidden)
                   = Row("in", run.last, run.txt, run.base + t)
         /\ "final_norm" \in rt[r].flags =>
               rt[r].out = Row("final", Layers, run.txt, run.base + run.n - 1)
  <1>1. PICK A, B : /\ Holds(A) /\ Expected(B) /\ (\A s \in Alive : Runs(stream[s], A, B))
                    /\ Alive = {} => A = B
    BY DEF ForwardInv, ChainInv
  <1>2. A = B
    <2>1. Runs(<<>>, A, B)
      BY <1>1
    <2> QED BY <2>1, RunsNone
  <1>3. PICK run, w, m, lo : run = rt[r].ran /\ w = A["hidden"] /\ m = rt[r].mem /\ lo = rt[r].at["hidden"]
    OBVIOUS
  <1>4. w = Left(run, "in", run.last) /\ Scored(r, run, A)
    BY <1>1, <1>2, <1>3 DEF Expected, RunKeeps
  <1>5. HoldsRows(rt[r], A)
    BY <1>1 DEF Holds
  <1>6. Stride("hidden", w) = Hidden /\ "hidden" \in RowPlaces
    <2>1. "hidden" \in Buffers /\ Width["hidden"] = Hidden
      BY Widths DEF Width
    <2> QED BY <2>1, StridesAre DEF RowPlaces
  <1>7. /\ run.n \in Nat \ {0} /\ run.base \in Nat /\ lo \in Nat /\ Hidden \in Nat \ {0}
    <2>1. rt[r].tokens \in Nat \ {0} /\ run.n \in 1 .. rt[r].tokens
      BY <1>3 DEF PassInv, RuntimesOK, RuntimeOK
    <2>2. run.base \in Nat
      BY <1>3 DEF ForwardInv, LaunchInv
    <2>3. lo \in Nat
      BY <1>3, Widths, WorkIs DEF MemInv, PassInv, Names
    <2> QED BY <2>1, <2>2, <2>3, Constants
  <1>8. ASSUME NEW t \in 0 .. run.n - 1
        PROVE  RowAt(m, lo + t * Hidden, Hidden) = Row("in", run.last, run.txt, run.base + t)
    <2>1. w.n = run.n /\ w.at = "in" /\ w.layer = run.last /\ w.txt = run.txt /\ w.base = run.base
      BY <1>4 DEF Left
    <2>2. TokenRow(w, t) = Row("in", run.last, run.txt, run.base + t)
      BY <2>1 DEF TokenRow
    <2>3. \A x \in 0 .. Hidden - 1 : mem[m][lo + (t * Hidden + x)] = TokenRow(w, t)
      BY <1>3, <1>5, <1>6, <2>1 DEF HoldsRows, RowsAre
    <2>4. PICK y \in Nat : y = t * Hidden
      BY <1>7
    <2>5. \A x \in 0 .. Hidden - 1 : lo + (y + x) = (lo + y) + x
      BY <1>7
    <2>6. \A x \in 0 .. Hidden - 1 : mem[m][(lo + y) + x] = TokenRow(w, t)
      BY <2>3, <2>4, <2>5
    <2>7. PICK ly \in Nat : ly = lo + y
      BY <1>7
    <2>8. PICK v : v = TokenRow(w, t)
      OBVIOUS
    <2>9. \A x \in 0 .. Hidden - 1 : mem[m][ly + x] = v
      BY <2>6, <2>7, <2>8
    <2>10. Hidden \in Nat \ {0}
      BY <1>7
    <2>11. RowAt(m, ly, Hidden) = v
      BY ONLY ly \in Nat, <2>9, <2>10, RowAtIs
    <2> QED BY <2>2, <2>4, <2>7, <2>8, <2>11
  <1>9. ASSUME "final_norm" \in rt[r].flags
        PROVE  rt[r].out = Row("final", Layers, run.txt, run.base + run.n - 1)
    <2>1. PICK o : o = A["out"]
      OBVIOUS
    <2>2. o = Left(run, "final", Layers)
      BY <1>4, <1>9, <2>1 DEF Scored
    <2>3. o.n = run.n /\ o.at = "final" /\ o.layer = Layers /\ o.txt = run.txt /\ o.base = run.base
      BY <2>2 DEF Left
    <2>4. rt[r].out = TokenRow(o, o.n - 1)
      BY <1>5, <1>7, <2>1, <2>3 DEF HoldsRows
    <2>5. run.base + (run.n - 1) = run.base + run.n - 1
      BY <1>7
    <2> QED BY <2>3, <2>4, <2>5 DEF TokenRow
  <1> QED BY <1>3, <1>8, <1>9

\* When its kernels have run, what a run has left is the forward pass of its text:
\* for every shape of a model, any number of texts and caches and any queue, in a
\* process that has one runtime at a time.
THEOREM RunsAreForward ==
  ASSUME Coexist = FALSE
  PROVE  Spec => []RunIsForward
  <1>1. PassInv /\ MemInv /\ ForwardInv /\ [Next]_vars => (PassInv /\ MemInv /\ ForwardInv)'
    BY PassNext, MemNext, ForwardNext
  <1>2. Init => PassInv /\ MemInv /\ ForwardInv
    BY PassInit, MemInit, ForwardInit
  <1>3. PassInv /\ MemInv /\ ForwardInv => RunIsForward
    BY RunLeft DEF RunIsForward
  <1> QED BY <1>1, <1>2, <1>3, PTL DEF Spec

\* A cache holds what it says after runs that continue one another, fail in
\* between, or make it grow.
THEOREM CachesHoldText ==
  ASSUME Coexist = FALSE
  PROVE  Spec => []CacheHoldsText
  <1>1. PassInv /\ MemInv /\ ForwardInv /\ [Next]_vars => (PassInv /\ MemInv /\ ForwardInv)'
    BY PassNext, MemNext, ForwardNext
  <1>2. Init => PassInv /\ MemInv /\ ForwardInv
    BY PassInit, MemInit, ForwardInit
  <1>3. PassInv /\ MemInv /\ ForwardInv => CacheHoldsText
    <2> SUFFICES ASSUME PassInv, MemInv, ForwardInv, NEW c \in Held, DeviceIdle, call = Idle
                 PROVE  LET kv == cache[c] IN
                        /\ kv.length <= kv.capacity
                        /\ \A l \in 0 .. Layers - 1 : \A j \in 0 .. kv.length - 1 :
                              /\ mem[kv.mem][CacheRow(kv, "k", l, j)] = Row("k_rope", l, kv.txt, j)
                              /\ mem[kv.mem][CacheRow(kv, "v", l, j)] = Row("v", l, kv.txt, j)
      BY DEF CacheHoldsText
    <2>1. cache[c].length <= cache[c].capacity
      BY DEF MemInv, CacheInv, HeldOK
    <2>2. PICK A, B : /\ Holds(A) /\ Expected(B) /\ (\A r \in Alive : Runs(stream[r], A, B))
                      /\ Alive = {} => A = B
      BY DEF ForwardInv, ChainInv
    <2>3. A = B
      BY <2>2, IdleIs
    <2>4. CachesTrue
      BY <2>2, <2>3, KnownTrue DEF Holds, Expected
    <2>5. ASSUME NEW l \in 0 .. Layers - 1, NEW which \in {"k", "v"}, NEW j \in 0 .. cache[c].length - 1
          PROVE  mem[cache[c].mem][CacheRow(cache[c], which, l, j)]
                    = Row(IF which = "k" THEN "k_rope" ELSE "v", l, cache[c].txt, j)
      <3>1. PICK f : f = Kept(cache[c], which, l, cache[c].txt, j)
        OBVIOUS
      <3>2. mem[f[1]][f[2]] = f[3]
        BY <2>4, <3>1 DEF CachesTrue
      <3>3. /\ f[1] = cache[c].mem /\ f[2] = CacheRow(cache[c], which, l, j)
            /\ f[3] = Row(IF which = "k" THEN "k_rope" ELSE "v", l, cache[c].txt, j)
        BY <3>1, KeptFields
      <3> QED BY <3>2, <3>3
    <2>6. ASSUME NEW l \in 0 .. Layers - 1, NEW j \in 0 .. cache[c].length - 1
          PROVE  /\ mem[cache[c].mem][CacheRow(cache[c], "k", l, j)] = Row("k_rope", l, cache[c].txt, j)
                 /\ mem[cache[c].mem][CacheRow(cache[c], "v", l, j)] = Row("v", l, cache[c].txt, j)
      <3>1. PICK which \in {"k", "v"} : which = "k"
        OBVIOUS
      <3>2. PICK other \in {"k", "v"} : other = "v"
        OBVIOUS
      <3>3. mem[cache[c].mem][CacheRow(cache[c], which, l, j)]
               = Row(IF which = "k" THEN "k_rope" ELSE "v", l, cache[c].txt, j)
        BY <2>5
      <3>4. mem[cache[c].mem][CacheRow(cache[c], other, l, j)]
               = Row(IF other = "k" THEN "k_rope" ELSE "v", l, cache[c].txt, j)
        BY <2>5
      <3> QED BY <3>1, <3>2, <3>3, <3>4
    <2> QED BY <2>1, <2>6
  <1> QED BY <1>1, <1>2, <1>3, PTL DEF Spec

=============================================================================
