------------------------- MODULE DecisionEngineProofs -------------------------
(***************************************************************************)
(* Proofs about DecisionEngine: what q3_decide_run() answers is what       *)
(* BatchDecisions promises, and no kernel reads a host array that is gone, *)
(* for all texts and sizes and with failures.                              *)
(*                                                                         *)
(* The invariant counts the kernels that were executed.  Behind the last   *)
(* accepted prefill, and the packed pass if there is one, the stream holds *)
(* exactly what is left of these passes (StreamInv), so the count tells    *)
(* which layer the memory has come to: what the residual stream, the rows  *)
(* of K and V and the logits hold then is PrefixMem and PackedMem.  After a*)
(* failed call nothing is said until the session is destroyed.  The count  *)
(* is needed because the host runs ahead: what it accepts is true of the   *)
(* memory only when the device has come so far.                            *)
(***************************************************************************)
EXTENDS DecisionEngine, FiniteSets, WellFoundedInduction, TLAPS

-----------------------------------------------------------------------------
(* Sequences that are put one behind another.                              *)

\* The least of a set of numbers.
LEMMA LeastIn ==
  ASSUME NEW S, S \subseteq Nat, S # {}
  PROVE  \E m \in S : \A n \in S : m <= n
  <1> DEFINE R == {e \in Nat \X Nat : e[1] < e[2]}
  <1>1. IsWellFoundedOn(R, Nat)
    BY NatLessThanWellFounded, Zenon DEF OpToRel
  <1>2. PICK m \in S : \A n \in S : ~(<<n, m>> \in R)
    <2> HIDE DEF R
    <2> QED BY <1>1, WFMin, Zenon
  <1>3. ASSUME NEW n \in S, n < m PROVE FALSE
    <2>1. <<n, m>> \in R
      BY <1>3
    <2> QED BY <1>2, <2>1, Zenon
  <1> QED BY <1>3

\* The elements of two sequences, one behind the other.
LEMMA Concatenated ==
  ASSUME NEW S, NEW u \in Seq(S), NEW v \in Seq(S)
  PROVE  /\ u \o v \in Seq(S) /\ Len(u \o v) = Len(u) + Len(v)
         /\ Len(u) \in Nat /\ Len(v) \in Nat
         /\ \A i \in 1 .. Len(u) : (u \o v)[i] = u[i]
         /\ \A j \in 1 .. Len(v) : (u \o v)[Len(u) + j] = v[j]
  OBVIOUS

\* The recursive function of FlattenSeq() exists.
LEMMA FlattenExists ==
  ASSUME NEW s, NEW n \in Nat
  PROVE  \E g : g = [i \in 1 .. n |-> IF i = 1 THEN s[i] ELSE g[i - 1] \o s[i]]
  <1> DEFINE Is(g, k) == g = [i \in 1 .. k |-> IF i = 1 THEN s[i] ELSE g[i - 1] \o s[i]]
             Bad == {k \in Nat : ~\E g : Is(g, k)}
  <1>1. SUFFICES ASSUME Bad # {} PROVE FALSE
    OBVIOUS
  <1>2. PICK k \in Bad : \A m \in Bad : k <= m
    BY <1>1, LeastIn
  <1>3. CASE k = 0
    <2> DEFINE g == [i \in 1 .. 0 |-> s[i]]
    <2>1. Is(g, 0)
      OBVIOUS
    <2> QED BY <1>2, <1>3, <2>1
  <1>4. CASE k # 0
    <2>1. k \in Nat /\ k - 1 \in Nat /\ k - 1 \notin Bad
      <3>1. k \in Nat
        BY <1>2
      <3>2. k - 1 \in Nat /\ ~(k <= k - 1)
        BY <1>4, <3>1
      <3> HIDE DEF Bad
      <3> QED BY <1>2, <3>1, <3>2
    <2>2. PICK g : Is(g, k - 1)
      <3>1. ~~\E g : Is(g, k - 1)
        BY <2>1, Zenon
      <3> QED BY <3>1
    <2> DEFINE h == [i \in 1 .. k |-> IF i \in 1 .. k - 1 THEN g[i]
                                     ELSE IF k = 1 THEN s[1] ELSE g[k - 1] \o s[k]]
    <2>3. \A i \in 1 .. k - 1 : g[i] = IF i = 1 THEN s[i] ELSE g[i - 1] \o s[i]
      BY <2>2
    <2>4. ASSUME NEW i \in 1 .. k
          PROVE  h[i] = IF i = 1 THEN s[i] ELSE h[i - 1] \o s[i]
      <3>1. CASE i = 1
        <4>1. CASE k = 1
          BY <3>1, <4>1
        <4>2. CASE k # 1
          <5>1. 1 \in 1 .. k - 1
            BY <2>1, <4>2
          <5> QED BY <2>3, <3>1, <5>1
        <4> QED BY <4>1, <4>2
      <3>2. CASE i # 1
        <4>1. i - 1 \in 1 .. k - 1 /\ i - 1 \in 1 .. k
          BY <2>1, <3>2
        <4>2. h[i - 1] = g[i - 1]
          BY <4>1
        <4>3. CASE i = k
          <5>1. i \notin 1 .. k - 1 /\ k # 1
            BY <2>1, <3>2, <4>3
          <5> QED BY <3>2, <4>2, <4>3, <5>1
        <4>4. CASE i # k
          <5>1. i \in 1 .. k - 1
            BY <2>1, <4>4
          <5> QED BY <2>3, <3>2, <4>2, <5>1
        <4> QED BY <4>3, <4>4
      <3> QED BY <3>1, <3>2
    <2>5. Is(h, k)
      <3> HIDE DEF h
      <3>1. DOMAIN h = 1 .. k /\ h = [i \in 1 .. k |-> h[i]]
        BY DEF h
      <3> QED BY <2>4, <3>1
    <2> QED BY <1>2, <2>5
  <1> QED BY <1>3, <1>4

\* What FlattenSeq() puts together, when off says where each part begins.
LEMMA Flattened ==
  ASSUME NEW S, NEW s \in Seq(Seq(S)), NEW off, off[0] = 0,
         \A b \in 0 .. Len(s) : off[b] \in Nat,
         \A b \in 1 .. Len(s) : off[b] = off[b - 1] + Len(s[b])
  PROVE  /\ FlattenSeq(s) \in Seq(S)
         /\ Len(FlattenSeq(s)) = off[Len(s)]
         /\ \A b \in 1 .. Len(s) : \A j \in 1 .. Len(s[b]) :
               FlattenSeq(s)[off[b - 1] + j] = s[b][j]
  <1> DEFINE n == Len(s)
             f == CHOOSE g : g = [i \in 1 .. n |-> IF i = 1 THEN s[i] ELSE g[i - 1] \o s[i]]
  <1>0. n \in Nat
    OBVIOUS
  <1>1. f = [i \in 1 .. n |-> IF i = 1 THEN s[i] ELSE f[i - 1] \o s[i]]
    <2>1. \E g : g = [i \in 1 .. n |-> IF i = 1 THEN s[i] ELSE g[i - 1] \o s[i]]
      BY <1>0, FlattenExists
    <2> QED BY <2>1
  <1>2. n # 0 => FlattenSeq(s) = f[n]
    BY DEF FlattenSeq
  <1>3. n = 0 => FlattenSeq(s) = s
    BY DEF FlattenSeq
  <1> HIDE DEF f
  <1>4. \A i \in 1 .. n : f[i] = IF i = 1 THEN s[i] ELSE f[i - 1] \o s[i]
    BY <1>1
  <1> DEFINE Good(k) ==
               /\ f[k] \in Seq(S) /\ Len(f[k]) = off[k]
               /\ \A b \in 0 .. k : off[b] <= off[k]
               /\ \A b \in 1 .. k : \A j \in 1 .. Len(s[b]) : f[k][off[b - 1] + j] = s[b][j]
             Bad == {k \in 1 .. n : ~Good(k)}
  <1>5. ASSUME NEW k \in 1 .. n, k # 1 => Good(k - 1) PROVE Good(k)
    <2>0. /\ s[k] \in Seq(S) /\ Len(s[k]) \in Nat /\ k \in Nat /\ off[k] = off[k - 1] + Len(s[k])
          /\ off[k] \in Nat /\ off[k - 1] \in Nat
      BY <1>0
    <2>1. CASE k = 1
      <3>1. f[1] = s[1] /\ off[1] = Len(s[1]) /\ off[1 - 1] = 0
        BY <1>4, <2>0, <2>1
      <3>2. \A j \in 1 .. Len(s[1]) : f[1][off[1 - 1] + j] = s[1][j]
        BY <3>1
      <3>3. \A b \in 0 .. 1 : off[b] <= off[1]
        <4>1. \A b \in 0 .. 1 : b = 0 \/ b = 1
          OBVIOUS
        <4> QED BY <2>0, <2>1, <3>1, <4>1
      <3>4. \A b \in 1 .. 1 : b = 1
        OBVIOUS
      <3> QED BY <2>0, <2>1, <3>1, <3>2, <3>3, <3>4
    <2>2. CASE k # 1
      <3>1. Good(k - 1)
        BY <1>5, <2>2
      <3>2. PICK u : u = f[k - 1]
        OBVIOUS
      <3>3. PICK v : v = s[k]
        OBVIOUS
      <3>4. f[k] = u \o v
        BY <1>4, <2>2, <3>2, <3>3
      <3>5. /\ u \in Seq(S) /\ Len(u) = off[k - 1]
            /\ \A b \in 0 .. k - 1 : off[b] <= off[k - 1]
            /\ \A b \in 1 .. k - 1 : \A j \in 1 .. Len(s[b]) : u[off[b - 1] + j] = s[b][j]
        BY <3>1, <3>2
      <3>6. /\ v \in Seq(S) /\ f[k] \in Seq(S) /\ Len(f[k]) = off[k]
            /\ Len(u) \in Nat /\ Len(v) \in Nat
            /\ \A i \in 1 .. Len(u) : f[k][i] = u[i]
            /\ \A j \in 1 .. Len(v) : f[k][Len(u) + j] = v[j]
        <4>1. v \in Seq(S) /\ Len(v) = Len(s[k])
          BY <2>0, <3>3
        <4>2. u \in Seq(S)
          BY <3>5
        <4>3. /\ u \o v \in Seq(S) /\ Len(u \o v) = Len(u) + Len(v)
              /\ Len(u) \in Nat /\ Len(v) \in Nat
              /\ \A i \in 1 .. Len(u) : (u \o v)[i] = u[i]
              /\ \A j \in 1 .. Len(v) : (u \o v)[Len(u) + j] = v[j]
          <5>1. u \in Seq(S)
            BY <4>2
          <5>2. v \in Seq(S)
            BY <4>1
          <5>3. u \o v \in Seq(S)
            BY <5>1, <5>2
          <5> QED BY <5>1, <5>2, <5>3
        <4>4. Len(u) + Len(v) = off[k]
          BY <2>0, <3>5, <4>1
        <4> HIDE DEF Good
        <4>5. /\ f[k] \in Seq(S) /\ Len(f[k]) = Len(u) + Len(v)
              /\ \A i \in 1 .. Len(u) : f[k][i] = u[i]
              /\ \A j \in 1 .. Len(v) : f[k][Len(u) + j] = v[j]
          BY ONLY <3>4, <4>3
        <4> QED BY <4>1, <4>3, <4>4, <4>5
      <3>7. ASSUME NEW b \in 0 .. k PROVE off[b] <= off[k]
        <4>1. CASE b = k
          BY <2>0, <4>1
        <4>2. CASE b # k
          <5>1. b \in 0 .. k - 1 /\ b \in 0 .. n
            BY <1>0, <2>0, <4>2
          <5>2. off[b] <= off[k - 1] /\ off[b] \in Nat
            BY <3>5, <5>1
          <5> QED BY <2>0, <5>2
        <4> QED BY <4>1, <4>2
      <3>8. ASSUME NEW b \in 1 .. k, NEW j \in 1 .. Len(s[b])
            PROVE  f[k][off[b - 1] + j] = s[b][j]
        <4>1. CASE b = k
          <5>1. j \in 1 .. Len(v) /\ off[b - 1] = Len(u) /\ s[b] = v
            BY <3>3, <3>5, <4>1
          <5> QED BY <3>6, <5>1
        <4>2. CASE b # k
          <5>1. b \in 1 .. k - 1 /\ b \in 0 .. k - 1 /\ b \in 1 .. n /\ b - 1 \in 0 .. n /\ b \in 0 .. n
            BY ONLY <1>0, <4>2, k \in 1 .. n, b \in 1 .. k
          <5>2. u[off[b - 1] + j] = s[b][j]
            BY <3>5, <5>1
          <5>3. off[b - 1] + j \in 1 .. Len(u)
            <6>1. /\ off[b] = off[b - 1] + Len(s[b]) /\ off[b] \in Nat /\ off[b - 1] \in Nat
                  /\ off[b] <= Len(u)
              BY <3>5, <5>1
            <6>2. Len(s[b]) \in Nat
              BY <5>1
            <6>3. \A x, y, z, e \in Nat : x = y + z /\ x <= e => \A i \in 1 .. z : y + i \in 1 .. e
              OBVIOUS
            <6> QED BY <3>6, <6>1, <6>2, <6>3
          <5> QED BY <3>6, <5>2, <5>3
        <4> QED BY <4>1, <4>2
      <3> QED BY <3>6, <3>7, <3>8
    <2> QED BY <2>1, <2>2
  <1> HIDE DEF Good
  <1>6. Bad = {}
    <2>1. SUFFICES ASSUME Bad # {} PROVE FALSE
      OBVIOUS
    <2>2. PICK k \in Bad : \A m \in Bad : k <= m
      <3>1. Bad \subseteq Nat
        BY <1>0
      <3> HIDE DEF Bad
      <3> QED BY <2>1, <3>1, LeastIn
    <2>3. k \in 1 .. n /\ ~Good(k)
      BY <2>2
    <2>4. k # 1 => k - 1 \in 1 .. n /\ ~(k <= k - 1)
      BY <1>0, <2>3
    <2>5. k # 1 => Good(k - 1)
      BY <2>2, <2>4
    <2> QED BY <1>5, <2>3, <2>5
  <1>7. CASE n = 0
    <2>1. s \in Seq(S) /\ Len(s) = 0
      BY <1>7
    <2> QED BY <1>3, <1>7, <2>1
  <1>8. CASE n # 0
    <2>1. Good(n)
      <3>1. n \in 1 .. n
        BY <1>0, <1>8
      <3> HIDE DEF n
      <3> QED BY <1>6, <3>1, Zenon
    <2> QED BY <1>2, <1>8, <2>1 DEF Good
  <1> QED BY <1>7, <1>8

-----------------------------------------------------------------------------
(* The constants, and the kernels of a pass.                               *)

LEMMA Constants ==
    /\ Layers \in Nat \ {0} /\ PrefixCapacity \in Nat \ {0} /\ MaxBranches \in Nat \ {0}
    /\ MaxSuffix \in Nat \ {0} /\ MaxTokens \in Nat \ {0} /\ MaxCandidates \in Nat \ {0}
    /\ MaxQueued \in Nat
    /\ \A t \in PrefixTexts \cup SuffixTexts \cup CandidateLists :
          t \in Seq(Nat) /\ Len(t) \in Nat \ {0} /\ t # <<>>
  <1>1. ASSUME NEW t \in PrefixTexts \cup SuffixTexts \cup CandidateLists
        PROVE  t \in Seq(Nat) /\ Len(t) \in Nat \ {0} /\ t # <<>>
    <2>1. t \in Seq(Nat) /\ Len(t) > 0
      BY EngineAssumption
    <2> QED BY <2>1
  <1> QED BY <1>1, EngineAssumption

\* Where a packed token lies, and what the arrays of a launch hold.
ViewRow == [branch : Branches, local : Nat, pos : Nat]
Host == Seq(Nat) \cup Seq(ViewRow)
Launchable == [kind : OpKinds, layer : Nat, array : {"state", "pack", "none"}, host : Host,
               n : Nat, base : Nat]
Asked == [branch : Branches, tokens : SuffixTexts, cands : CandidateLists]

\* Where the tokens of question b end in a batch.
Off(items, b) == Len(TokenIds(SubSeq(items, 1, b)))

\* The sums of the first of n numbers.
LEMMA SumsExist ==
  ASSUME NEW n \in Nat, NEW len, \A b \in 1 .. n : len[b] \in Nat
  PROVE  \E off : /\ off[0] = 0 /\ \A b \in 0 .. n : off[b] \in Nat
                  /\ \A b \in 1 .. n : off[b] = off[b - 1] + len[b]
  <1> DEFINE Is(off, k) == /\ off[0] = 0 /\ \A b \in 0 .. k : off[b] \in Nat
                           /\ \A b \in 1 .. k : off[b] = off[b - 1] + len[b]
             Bad == {k \in 0 .. n : ~\E off : Is(off, k)}
  <1>1. SUFFICES Bad = {}
    <2>1. n \in 0 .. n
      OBVIOUS
    <2>2. ~~\E off : Is(off, n)
      BY <1>1, <2>1, Zenon
    <2> QED BY <2>2
  <1>2. SUFFICES ASSUME Bad # {} PROVE FALSE
    OBVIOUS
  <1>3. PICK k \in Bad : \A m \in Bad : k <= m
    <2>1. Bad \subseteq Nat
      OBVIOUS
    <2> HIDE DEF Bad
    <2> QED BY <1>2, <2>1, LeastIn
  <1>4. k \in 0 .. n /\ ~\E off : Is(off, k)
    BY <1>3
  <1>5. CASE k = 0
    <2> DEFINE g == [b \in 0 .. 0 |-> 0]
    <2>1. Is(g, 0)
      OBVIOUS
    <2> QED BY <1>4, <1>5, <2>1
  <1>6. CASE k # 0
    <2>1. k - 1 \in 0 .. n /\ ~(k <= k - 1)
      BY <1>4, <1>6
    <2>2. k - 1 \notin Bad
      <3> HIDE DEF Bad
      <3> QED BY <1>3, <2>1
    <2>3. PICK g : Is(g, k - 1)
      <3>1. ~~\E g : Is(g, k - 1)
        BY <2>1, <2>2, Zenon
      <3> QED BY <3>1
    <2> DEFINE h == [b \in 0 .. k |-> IF b = k THEN g[k - 1] + len[k] ELSE g[b]]
    <2>4. h[0] = 0 /\ g[k - 1] \in Nat /\ len[k] \in Nat
      BY <1>4, <1>6, <2>3
    <2>5. \A b \in 0 .. k - 1 : h[b] = g[b] /\ h[b] \in Nat
      BY <1>4, <2>3
    <2>6. h[k] = g[k - 1] + len[k] /\ h[k] \in Nat
      BY <1>4, <2>4
    <2>7. \A b \in 0 .. k : h[b] \in Nat
      <3> HIDE DEF h
      <3>1. \A b \in 0 .. k : b = k \/ b \in 0 .. k - 1
        BY <1>4
      <3> QED BY <2>5, <2>6, <3>1
    <2>8. ASSUME NEW b \in 1 .. k PROVE h[b] = h[b - 1] + len[b]
      <3> HIDE DEF h
      <3>1. b - 1 \in 0 .. k - 1 /\ h[b - 1] = g[b - 1]
        BY <1>4, <2>5
      <3>2. CASE b = k
        BY <2>6, <3>1, <3>2
      <3>3. CASE b # k
        <4>1. b \in 1 .. k - 1 /\ b \in 0 .. k - 1
          BY <1>4, <3>3
        <4> QED BY <2>3, <2>5, <3>1, <4>1
      <3> QED BY <3>2, <3>3
    <2>9. Is(h, k)
      <3> HIDE DEF h
      <3> QED BY <2>4, <2>7, <2>8
    <2> QED BY <1>4, <2>9
  <1> QED BY <1>5, <1>6

\* A number below the last sum is in one of the parts.
LEMMA PartOf ==
  ASSUME NEW n \in Nat, NEW off, off[0] = 0, \A b \in 0 .. n : off[b] \in Nat,
         NEW t \in 1 .. off[n]
  PROVE  \E b \in 1 .. n : off[b - 1] < t /\ t <= off[b]
  <1> DEFINE S == {b \in 0 .. n : t <= off[b]}
  <1>1. S \subseteq Nat /\ n \in S
    OBVIOUS
  <1>2. PICK b \in S : \A m \in S : b <= m
    <2>1. S # {}
      BY <1>1
    <2> HIDE DEF S
    <2> QED BY <1>1, <2>1, LeastIn
  <1>3. b \in 0 .. n /\ t <= off[b] /\ b # 0
    BY <1>2
  <1>4. b - 1 \in 0 .. n /\ b - 1 \notin S
    <2>1. b - 1 \in 0 .. n /\ ~(b <= b - 1)
      BY <1>3
    <2> HIDE DEF S
    <2> QED BY <1>2, <2>1
  <1>5. b \in 1 .. n /\ off[b - 1] \in Nat /\ ~(t <= off[b - 1])
    BY <1>3, <1>4
  <1> QED BY <1>3, <1>5

\* The packed arrays of a batch.
LEMMA Packed ==
  ASSUME NEW items \in Seq(Asked), NEW P \in Nat
  PROVE  /\ Off(items, 0) = 0
         /\ \A b \in 0 .. Len(items) : Off(items, b) \in Nat
         /\ \A b \in 1 .. Len(items) : Off(items, b) = Off(items, b - 1) + Len(items[b].tokens)
         /\ TokenIds(items) \in Seq(Nat) /\ Len(TokenIds(items)) = Off(items, Len(items))
         /\ Pack(items, P) \in Seq(ViewRow) /\ Len(Pack(items, P)) = Off(items, Len(items))
         /\ \A b \in 1 .. Len(items) : \A j \in 1 .. Len(items[b].tokens) :
               /\ TokenIds(items)[Off(items, b - 1) + j] = items[b].tokens[j]
               /\ Pack(items, P)[Off(items, b - 1) + j] =
                     [branch |-> items[b].branch, local |-> j - 1, pos |-> P + j - 1]
  <1> DEFINE n == Len(items)
             toks == [b \in 1 .. n |-> items[b].tokens]
             views == [b \in 1 .. n |-> [j \in 1 .. Len(items[b].tokens) |->
                          [branch |-> items[b].branch, local |-> j - 1, pos |-> P + j - 1]]]
  <1>0. /\ n \in Nat
        /\ \A b \in 1 .. n : /\ items[b] \in Asked /\ items[b].branch \in Branches
                             /\ items[b].tokens \in Seq(Nat) /\ Len(items[b].tokens) \in Nat
    <2>1. \A b \in 1 .. n : items[b] \in Asked
      OBVIOUS
    <2>2. \A b \in 1 .. n : items[b].branch \in Branches /\ items[b].tokens \in SuffixTexts
      BY <2>1 DEF Asked
    <2> QED BY <2>1, <2>2, Constants
  <1>1. toks \in Seq(Seq(Nat)) /\ Len(toks) = n /\ \A b \in 1 .. n : toks[b] = items[b].tokens
    BY <1>0
  <1>2. PICK off : /\ off[0] = 0 /\ \A b \in 0 .. n : off[b] \in Nat
                   /\ \A b \in 1 .. n : off[b] = off[b - 1] + Len(items[b].tokens)
    <2> DEFINE len == [b \in 1 .. n |-> Len(items[b].tokens)]
    <2>1. \A b \in 1 .. n : len[b] \in Nat /\ len[b] = Len(items[b].tokens)
      BY <1>0
    <2>2. \E off : /\ off[0] = 0 /\ \A b \in 0 .. n : off[b] \in Nat
                   /\ \A b \in 1 .. n : off[b] = off[b - 1] + len[b]
      <3> HIDE DEF len, n
      <3> QED BY <1>0, <2>1, SumsExist
    <2> HIDE DEF len, n
    <2> QED BY <2>1, <2>2
  <1>3. /\ FlattenSeq(toks) \in Seq(Nat) /\ Len(FlattenSeq(toks)) = off[n]
        /\ \A b \in 1 .. n : \A j \in 1 .. Len(toks[b]) : FlattenSeq(toks)[off[b - 1] + j] = toks[b][j]
    <2> HIDE DEF toks, n
    <2>1. \A b \in 0 .. Len(toks) : off[b] \in Nat
      BY <1>1, <1>2
    <2>2. \A b \in 1 .. Len(toks) : off[b] = off[b - 1] + Len(toks[b])
      BY <1>1, <1>2
    <2>3. toks \in Seq(Seq(Nat))
      BY <1>1
    <2>4. off[0] = 0
      BY <1>2
    <2>5. /\ FlattenSeq(toks) \in Seq(Nat) /\ Len(FlattenSeq(toks)) = off[Len(toks)]
          /\ \A b \in 1 .. Len(toks) : \A j \in 1 .. Len(toks[b]) :
                FlattenSeq(toks)[off[b - 1] + j] = toks[b][j]
      <3>1. PICK S : S = Nat
        OBVIOUS
      <3>2. toks \in Seq(Seq(S))
        BY <2>3, <3>1
      <3>3. /\ FlattenSeq(toks) \in Seq(S) /\ Len(FlattenSeq(toks)) = off[Len(toks)]
            /\ \A b \in 1 .. Len(toks) : \A j \in 1 .. Len(toks[b]) :
                  FlattenSeq(toks)[off[b - 1] + j] = toks[b][j]
        BY <2>1, <2>2, <2>4, <3>2, Flattened
      <3> QED BY <3>1, <3>3
    <2> QED BY <1>1, <2>5, Zenon
  <1>4. TokenIds(items) = FlattenSeq(toks)
    BY DEF TokenIds
  <1>5. ASSUME NEW c \in 0 .. n PROVE Off(items, c) = off[c]
    <2> DEFINE front == SubSeq(items, 1, c)
               part == [b \in 1 .. Len(front) |-> front[b].tokens]
    <2>1. Len(front) = c /\ \A b \in 1 .. c : front[b] = items[b]
      BY <1>0
    <2>2. part \in Seq(Seq(Nat)) /\ Len(part) = c /\ \A b \in 1 .. c : part[b] = items[b].tokens
      <3>1. c \in Nat /\ \A b \in 1 .. c : b \in 1 .. n
        BY <1>0
      <3> HIDE DEF front, n
      <3> QED BY <1>0, <2>1, <3>1
    <2>3. Len(FlattenSeq(part)) = off[c]
      <3> HIDE DEF part, n
      <3>1. /\ \A b \in 0 .. Len(part) : off[b] \in Nat
            /\ \A b \in 1 .. Len(part) : off[b] = off[b - 1] + Len(part[b])
        <4>1. \A b \in 0 .. c : b \in 0 .. n
          BY <1>0
        <4>2. \A b \in 1 .. c : b \in 1 .. n
          BY <1>0
        <4> QED BY <1>2, <2>2, <4>1, <4>2
      <3> QED BY <1>2, <2>2, <3>1, Flattened
    <2> QED BY <2>3 DEF Off, TokenIds
  <1>6. views \in Seq(Seq(ViewRow)) /\ Len(views) = n
        /\ \A b \in 1 .. n : /\ Len(views[b]) = Len(items[b].tokens)
                             /\ \A j \in 1 .. Len(items[b].tokens) : views[b][j] =
                                  [branch |-> items[b].branch, local |-> j - 1, pos |-> P + j - 1]
    <2>1. ASSUME NEW b \in 1 .. n
          PROVE  /\ views[b] \in Seq(ViewRow) /\ Len(views[b]) = Len(items[b].tokens)
                 /\ \A j \in 1 .. Len(items[b].tokens) : views[b][j] =
                       [branch |-> items[b].branch, local |-> j - 1, pos |-> P + j - 1]
      <3> DEFINE v == [j \in 1 .. Len(items[b].tokens) |->
                          [branch |-> items[b].branch, local |-> j - 1, pos |-> P + j - 1]]
      <3>1. items[b].branch \in Branches /\ Len(items[b].tokens) \in Nat
        BY <1>0
      <3>2. \A j \in 1 .. Len(items[b].tokens) :
               [branch |-> items[b].branch, local |-> j - 1, pos |-> P + j - 1] \in ViewRow
        BY <3>1 DEF ViewRow
      <3>3. v \in Seq(ViewRow) /\ Len(v) = Len(items[b].tokens)
        BY <3>1, <3>2
      <3>4. views[b] = v
        OBVIOUS
      <3> QED BY <3>3, <3>4
    <2>2. views = [b \in 1 .. n |-> views[b]]
      OBVIOUS
    <2> HIDE DEF views
    <2> QED BY <1>0, <2>1, <2>2
  <1>7. /\ FlattenSeq(views) \in Seq(ViewRow) /\ Len(FlattenSeq(views)) = off[n]
        /\ \A b \in 1 .. n : \A j \in 1 .. Len(views[b]) :
              FlattenSeq(views)[off[b - 1] + j] = views[b][j]
    <2> HIDE DEF views, n
    <2>1. /\ \A b \in 0 .. Len(views) : off[b] \in Nat
          /\ \A b \in 1 .. Len(views) : off[b] = off[b - 1] + Len(views[b])
      BY <1>2, <1>6
    <2>2. \A b \in 1 .. Len(views) : off[b] = off[b - 1] + Len(views[b])
      BY <2>1
    <2>3. views \in Seq(Seq(ViewRow))
      BY <1>6
    <2>4. off[0] = 0
      BY <1>2
    <2>5. /\ FlattenSeq(views) \in Seq(ViewRow) /\ Len(FlattenSeq(views)) = off[Len(views)]
          /\ \A b \in 1 .. Len(views) : \A j \in 1 .. Len(views[b]) :
                FlattenSeq(views)[off[b - 1] + j] = views[b][j]
      <3>1. \A b \in 0 .. Len(views) : off[b] \in Nat
        BY <2>1
      <3> QED BY <2>2, <2>3, <2>4, <3>1, Flattened
    <2>6. Len(views) = n
      BY <1>6
    <2> QED BY <2>5, <2>6, Zenon
  <1>8. Pack(items, P) = FlattenSeq(views)
    BY DEF Pack
  <1>9. 0 \in 0 .. n /\ n \in 0 .. n /\ \A b \in 1 .. n : b \in 0 .. n /\ b - 1 \in 0 .. n
    BY <1>0
  <1> HIDE DEF toks, views, n
  <1>10. Off(items, 0) = 0 /\ Off(items, n) = off[n]
    BY <1>2, <1>5, <1>9
  <1>11. \A b \in 0 .. n : Off(items, b) \in Nat
    BY <1>2, <1>5
  <1>12. \A b \in 1 .. n : Off(items, b) = Off(items, b - 1) + Len(items[b].tokens)
    BY <1>2, <1>5, <1>9
  <1>13. TokenIds(items) \in Seq(Nat) /\ Len(TokenIds(items)) = Off(items, n)
    BY <1>3, <1>4, <1>10
  <1>14. Pack(items, P) \in Seq(ViewRow) /\ Len(Pack(items, P)) = Off(items, n)
    BY <1>7, <1>8, <1>10
  <1>15. ASSUME NEW b \in 1 .. n, NEW j \in 1 .. Len(items[b].tokens)
         PROVE  /\ TokenIds(items)[Off(items, b - 1) + j] = items[b].tokens[j]
                /\ Pack(items, P)[Off(items, b - 1) + j] =
                     [branch |-> items[b].branch, local |-> j - 1, pos |-> P + j - 1]
    <2>1. Off(items, b - 1) = off[b - 1]
      BY ONLY <1>5, <1>9, b \in 1 .. n
    <2>2. FlattenSeq(toks)[off[b - 1] + j] = items[b].tokens[j]
      <3>1. toks[b] = items[b].tokens
        BY ONLY <1>1, b \in 1 .. n
      <3>2. j \in 1 .. Len(toks[b])
        BY <3>1
      <3>3. FlattenSeq(toks)[off[b - 1] + j] = toks[b][j]
        BY ONLY <1>3, <3>2, b \in 1 .. n
      <3> QED BY <3>1, <3>3
    <2>3. FlattenSeq(views)[off[b - 1] + j] =
             [branch |-> items[b].branch, local |-> j - 1, pos |-> P + j - 1]
      <3>1. /\ Len(views[b]) = Len(items[b].tokens)
            /\ views[b][j] = [branch |-> items[b].branch, local |-> j - 1, pos |-> P + j - 1]
        BY <1>6
      <3>2. j \in 1 .. Len(views[b])
        BY <3>1
      <3>3. FlattenSeq(views)[off[b - 1] + j] = views[b][j]
        BY <1>7, <3>2
      <3> QED BY <3>1, <3>3, Zenon
    <2> QED BY <1>4, <1>8, <2>1, <2>2, <2>3
  <1> QED BY <1>10, <1>11, <1>12, <1>13, <1>14, <1>15 DEF n

\* Where each suffix of a batch ends, and what its candidates are.
LEMMA OffsetsAre ==
  ASSUME NEW items \in Seq(Asked)
  PROVE  /\ Offsets(items) \in Seq(Nat) /\ Len(Offsets(items)) = Len(items)
         /\ \A b \in 1 .. Len(items) : Offsets(items)[b] = Off(items, b)
  <1>1. Len(items) \in Nat /\ \A b \in 1 .. Len(items) : Off(items, b) \in Nat
    <2>1. \A b \in 1 .. Len(items) : b \in 0 .. Len(items)
      OBVIOUS
    <2>2. 0 \in Nat
      OBVIOUS
    <2> QED BY <2>1, <2>2, Packed
  <1>2. Offsets(items) = [b \in 1 .. Len(items) |-> Off(items, b)]
    BY DEF Offsets, Off
  <1> QED BY <1>1, <1>2

\* The candidates of a batch lie in rows of K.
LEMMA CandidatesAre ==
  ASSUME NEW items \in Seq(Asked), NEW K \in Nat,
         \A b \in 1 .. Len(items) : Len(items[b].cands) = K
  PROVE  /\ Candidates(items) \in Seq(Nat) /\ Len(Candidates(items)) = Len(items) * K
         /\ \A b \in 1 .. Len(items) : \A k \in 1 .. K :
               Candidates(items)[(b - 1) * K + k] = items[b].cands[k]
  <1> DEFINE n == Len(items)
             lists == [b \in 1 .. n |-> items[b].cands]
             off == [b \in 0 .. n |-> b * K]
  <1>0. n \in Nat /\ \A b \in 1 .. n : items[b].cands \in Seq(Nat)
    <2>1. \A b \in 1 .. n : items[b] \in Asked
      OBVIOUS
    <2>2. \A b \in 1 .. n : items[b].cands \in CandidateLists
      BY <2>1 DEF Asked
    <2> QED BY <2>2, Constants
  <1>1. PICK S : S = Nat
    OBVIOUS
  <1>2. lists \in Seq(Seq(S)) /\ Len(lists) = n
        /\ \A b \in 1 .. n : lists[b] = items[b].cands /\ Len(lists[b]) = K
    BY <1>0, <1>1
  <1>3. /\ off[0] = 0 /\ \A b \in 0 .. n : off[b] \in Nat /\ off[b] = b * K
        /\ \A b \in 1 .. n : off[b] = off[b - 1] + K /\ off[b - 1] = (b - 1) * K
    <2>1. \A b \in 1 .. n : b \in 0 .. n /\ b - 1 \in 0 .. n /\ b * K = (b - 1) * K + K
      BY <1>0
    <2>2. 0 \in 0 .. n /\ 0 * K = 0 /\ \A b \in 0 .. n : b * K \in Nat
      BY <1>0
    <2> QED BY <2>1, <2>2
  <1>4. /\ FlattenSeq(lists) \in Seq(S) /\ Len(FlattenSeq(lists)) = off[n]
        /\ \A b \in 1 .. n : \A j \in 1 .. Len(lists[b]) :
              FlattenSeq(lists)[off[b - 1] + j] = lists[b][j]
    <2> HIDE DEF lists, n, off
    <2>1. lists \in Seq(Seq(S))
      BY <1>2
    <2>2. off[0] = 0
      BY <1>3
    <2>3. \A b \in 0 .. Len(lists) : off[b] \in Nat
      BY <1>2, <1>3
    <2>4. \A b \in 1 .. Len(lists) : off[b] = off[b - 1] + Len(lists[b])
      BY <1>2, <1>3
    <2>5. /\ FlattenSeq(lists) \in Seq(S) /\ Len(FlattenSeq(lists)) = off[Len(lists)]
          /\ \A b \in 1 .. Len(lists) : \A j \in 1 .. Len(lists[b]) :
                FlattenSeq(lists)[off[b - 1] + j] = lists[b][j]
      BY ONLY <2>1, <2>2, <2>3, <2>4, Flattened, SMTT(20)
    <2> QED BY <1>2, <2>5
  <1>5. Candidates(items) = FlattenSeq(lists)
    BY DEF Candidates
  <1>6. n \in 0 .. n
    BY <1>0
  <1> HIDE DEF lists, off
  <1>7. ASSUME NEW b \in 1 .. n, NEW k \in 1 .. K
        PROVE  FlattenSeq(lists)[(b - 1) * K + k] = items[b].cands[k]
    <2>1. k \in 1 .. Len(lists[b]) /\ off[b - 1] = (b - 1) * K
      BY <1>2, <1>3
    <2>2. FlattenSeq(lists)[off[b - 1] + k] = lists[b][k]
      BY <1>4, <2>1
    <2> QED BY <1>2, <2>1, <2>2
  <1> QED BY <1>1, <1>3, <1>4, <1>5, <1>6, <1>7

\* Two kernels of each layer, one behind the other.
LEMMA Pairs ==
  ASSUME NEW S, NEW s \in Seq(Seq(S)), Len(s) = Layers, \A i \in 1 .. Layers : Len(s[i]) = 2
  PROVE  /\ FlattenSeq(s) \in Seq(S) /\ Len(FlattenSeq(s)) = 2 * Layers
         /\ \A i \in 1 .. Layers : /\ FlattenSeq(s)[2 * i - 1] = s[i][1]
                                   /\ FlattenSeq(s)[2 * i] = s[i][2]
  <1> DEFINE off == [b \in 0 .. Layers |-> 2 * b]
             F == FlattenSeq(s)
  <1>0. Layers \in Nat
    BY Constants
  <1>2. off[0] = 0 /\ \A b \in 0 .. Layers : off[b] \in Nat /\ off[b] = 2 * b
    BY <1>0
  <1>3. \A b \in 1 .. Layers : off[b] = off[b - 1] + 2 /\ off[b - 1] = 2 * b - 2
    BY <1>0
  <1> HIDE DEF off
  <1>5. /\ F \in Seq(S) /\ Len(F) = off[Len(s)]
        /\ \A b \in 1 .. Len(s) : \A j \in 1 .. Len(s[b]) : F[off[b - 1] + j] = s[b][j]
    <2>1. s \in Seq(Seq(S))
      OBVIOUS
    <2>2. off[0] = 0
      BY <1>2
    <2>3. \A b \in 0 .. Len(s) : off[b] \in Nat
      BY <1>2
    <2>4. \A b \in 1 .. Len(s) : off[b] = off[b - 1] + Len(s[b])
      BY <1>3
    <2> QED BY ONLY <2>1, <2>2, <2>3, <2>4, Flattened
  <1> HIDE DEF F
  <1>6. Layers \in 0 .. Layers
    BY <1>0
  <1>7. ASSUME NEW i \in 1 .. Layers PROVE F[2 * i - 1] = s[i][1] /\ F[2 * i] = s[i][2]
    <2>0. Len(s[i]) = 2 /\ i \in 1 .. Len(s)
      OBVIOUS
    <2>1. 1 \in 1 .. Len(s[i]) /\ 2 \in 1 .. Len(s[i])
      BY ONLY <2>0
    <2>2. F[off[i - 1] + 1] = s[i][1] /\ F[off[i - 1] + 2] = s[i][2]
      BY <1>5, <2>0, <2>1
    <2>3. off[i - 1] + 1 = 2 * i - 1 /\ off[i - 1] + 2 = 2 * i
      <3>1. off[i - 1] = 2 * i - 2 /\ i \in Int
        BY <1>3
      <3>2. \A x, y \in Int : x = 2 * y - 2 => x + 1 = 2 * y - 1 /\ x + 2 = 2 * y
        OBVIOUS
      <3>3. 2 * i - 2 \in Int
        BY <3>1
      <3> QED BY <3>1, <3>2, <3>3
    <2> QED BY <2>2, <2>3
  <1>8. Len(F) = 2 * Layers
    BY <1>2, <1>5, <1>6
  <1> QED BY <1>5, <1>7, <1>8 DEF F

\* ks is the one of first, then two for each of the layers, then rest.
IsPass(ks, first, s, rest) ==
    /\ Len(ks) = 2 * Layers + 1 + Len(rest) /\ ks[1] = first[1]
    /\ \A l \in 0 .. Layers - 1 : ks[2 * l + 2] = s[l + 1][1] /\ ks[2 * l + 3] = s[l + 1][2]
    /\ \A j \in 1 .. Len(rest) : ks[2 * Layers + 1 + j] = rest[j]

\* A pass is what comes first, two kernels for each layer, and the rest.
LEMMA LayerPairs ==
  ASSUME NEW S, NEW first \in Seq(S), Len(first) = 1,
         NEW s \in Seq(Seq(S)), Len(s) = Layers,
         \A i \in 1 .. Layers : Len(s[i]) = 2, NEW rest \in Seq(S),
         NEW ks, ks = first \o FlattenSeq(s) \o rest
  PROVE  ks \in Seq(S) /\ IsPass(ks, first, s, rest)
  <1>0. Layers \in Nat /\ Len(rest) \in Nat
    BY Constants
  <1>1. PICK F : F = FlattenSeq(s)
    OBVIOUS
  <1>2. /\ F \in Seq(S) /\ Len(F) = 2 * Layers
        /\ \A i \in 1 .. Layers : F[2 * i - 1] = s[i][1] /\ F[2 * i] = s[i][2]
    BY <1>1, Pairs
  <1>3. PICK u : u = first \o F
    OBVIOUS
  <1>4. ks = u \o rest
    BY <1>1, <1>3
  <1>5. /\ u \in Seq(S) /\ Len(u) = 2 * Layers + 1 /\ u[1] = first[1]
        /\ \A j \in 1 .. 2 * Layers : u[1 + j] = F[j]
    <2>1. Len(first) = 1
      OBVIOUS
    <2>2. first \in Seq(S)
      OBVIOUS
    <2>3. F \in Seq(S)
      BY <1>2
    <2>4. /\ first \o F \in Seq(S) /\ Len(first \o F) = 1 + Len(F)
          /\ \A i \in 1 .. 1 : (first \o F)[i] = first[i]
          /\ \A j \in 1 .. Len(F) : (first \o F)[1 + j] = F[j]
      <3>1. first \o F \in Seq(S)
        BY ONLY <2>2, <2>3
      <3>2. /\ Len(first \o F) = Len(first) + Len(F)
            /\ \A i \in 1 .. Len(first) : (first \o F)[i] = first[i]
            /\ \A j \in 1 .. Len(F) : (first \o F)[Len(first) + j] = F[j]
        BY ONLY <2>2, <2>3, <3>1, Concatenated
      <3> QED BY ONLY <2>1, <3>1, <3>2
    <2>5. 1 \in 1 .. 1 /\ 1 + 2 * Layers = 2 * Layers + 1
      BY <1>0
    <2> QED BY <1>2, <1>3, <2>1, <2>4, <2>5
  <1>6. /\ ks \in Seq(S) /\ Len(ks) = Len(u) + Len(rest)
        /\ \A i \in 1 .. Len(u) : ks[i] = u[i]
        /\ \A j \in 1 .. Len(rest) : ks[Len(u) + j] = rest[j]
    <2>1. u \in Seq(S)
      BY <1>5
    <2>2. rest \in Seq(S)
      OBVIOUS
    <2> QED BY ONLY <1>4, <2>1, <2>2, Concatenated
  <1>7. ks[1] = first[1]
    <2>1. 1 \in 1 .. Len(u)
      BY <1>0, <1>5
    <2> QED BY <1>5, <1>6, <2>1
  <1>8. ASSUME NEW l \in 0 .. Layers - 1
        PROVE  ks[2 * l + 2] = s[l + 1][1] /\ ks[2 * l + 3] = s[l + 1][2]
    <2>1. /\ l + 1 \in 1 .. Layers /\ 2 * l + 1 \in 1 .. 2 * Layers /\ 2 * l + 2 \in 1 .. 2 * Layers
          /\ 2 * (l + 1) - 1 = 2 * l + 1 /\ 2 * (l + 1) = 2 * l + 2
          /\ 1 + (2 * l + 1) = 2 * l + 2 /\ 1 + (2 * l + 2) = 2 * l + 3
          /\ 2 * l + 2 \in 1 .. 2 * Layers + 1 /\ 2 * l + 3 \in 1 .. 2 * Layers + 1
      BY <1>0
    <2>2. u[2 * l + 2] = F[2 * l + 1] /\ u[2 * l + 3] = F[2 * l + 2]
      BY <1>5, <2>1
    <2>3. F[2 * l + 1] = s[l + 1][1] /\ F[2 * l + 2] = s[l + 1][2]
      BY <1>2, <2>1
    <2> QED BY <1>5, <1>6, <2>1, <2>2, <2>3
  <1>9. Len(ks) = 2 * Layers + 1 + Len(rest) /\ \A j \in 1 .. Len(rest) : ks[2 * Layers + 1 + j] = rest[j]
    BY <1>5, <1>6
  <1> QED BY <1>6, <1>7, <1>8, <1>9 DEF IsPass

\* k is kernel m of the pass that prefills t.
IsPrefill(k, t, m) ==
    /\ m = 1 => k = Kernel("embed", 0, "state", t, Len(t), 0)
    /\ \A l \in 0 .. Layers - 1 :
          /\ m = 2 * l + 2 => k = Kernel("append", l, "none", Freed, Len(t), 0)
          /\ m = 2 * l + 3 => k = Kernel("attend", l, "none", Freed, Len(t), 0)

\* k is kernel m of the pass over a batch, behind a prefix of P tokens.
IsPacked(k, items, P, m) ==
    LET view == Pack(items, P) IN
    /\ m = 1 => k = Kernel("embed", 0, "pack", TokenIds(items), Len(view), P)
    /\ \A l \in 0 .. Layers - 1 :
          /\ m = 2 * l + 2 => k = Kernel("scatter", l, "pack", view, Len(view), P)
          /\ m = 2 * l + 3 => k = Kernel("segmented", l, "pack", view, Len(view), P)
    /\ m = 2 * Layers + 2 => k = Kernel("gather", 0, "pack", Offsets(items), Len(items), P)
    /\ m = 2 * Layers + 3 => k = Kernel("head", 0, "none", Candidates(items), Len(items), P)

\* What is launched is a kernel.
LEMMA KernelType ==
  ASSUME NEW kind \in OpKinds, NEW l \in Nat, NEW array \in {"state", "pack", "none"},
         NEW host \in Host, NEW n \in Nat, NEW base \in Nat
  PROVE  Kernel(kind, l, array, host, n, base) \in Launchable
  BY DEF Kernel, Launchable

\* q3_forward_run_range() launches 2 * Layers + 1 kernels, each at its place.
LEMMA PrefillShape ==
  ASSUME NEW t \in PrefixTexts
  PROVE  /\ PrefillKernels(t) \in Seq(Launchable) /\ Len(PrefillKernels(t)) = 2 * Layers + 1
         /\ \A m \in 1 .. 2 * Layers + 1 : IsPrefill(PrefillKernels(t)[m], t, m)
  <1> DEFINE e == Kernel("embed", 0, "state", t, Len(t), 0)
             u(l) == Kernel("append", l, "none", Freed, Len(t), 0)
             v(l) == Kernel("attend", l, "none", Freed, Len(t), 0)
             s == [i \in 1 .. Layers |-> <<u(i - 1), v(i - 1)>>]
             ks == PrefillKernels(t)
  <1>0. Layers \in Nat \ {0} /\ t \in Seq(Nat) /\ Len(t) \in Nat
    BY Constants
  <1>1. e \in Launchable /\ \A l \in Nat : u(l) \in Launchable /\ v(l) \in Launchable
    <2>1. t \in Host /\ Freed \in Host
      BY <1>0 DEF Host, Freed
    <2>2. {"embed", "append", "attend"} \subseteq OpKinds
      BY DEF OpKinds
    <2> QED BY <1>0, <2>1, <2>2, KernelType
  <1>2. PICK S : S = Launchable
    OBVIOUS
  <1> HIDE DEF e, u, v
  <1>3. /\ s \in Seq(Seq(S)) /\ Len(s) = Layers
        /\ \A i \in 1 .. Layers : s[i] = <<u(i - 1), v(i - 1)>> /\ Len(s[i]) = 2
    <2>1. \A i \in 1 .. Layers : u(i - 1) \in S /\ v(i - 1) \in S
      <3>1. \A i \in 1 .. Layers : i - 1 \in Nat
        BY <1>0
      <3> QED BY <1>1, <1>2, <3>1
    <2> QED BY <1>0, <2>1
  <1>4. PrefillKernels(t) = <<e>> \o FlattenSeq(s) \o <<>>
    <2>1. s = [i \in 1 .. Layers |->
                <<Kernel("append", i - 1, "none", Freed, Len(t), 0),
                  Kernel("attend", i - 1, "none", Freed, Len(t), 0)>>]
      BY DEF u, v
    <2>2. FlattenSeq(s) \in Seq(S)
      <3> HIDE DEF s
      <3> QED BY <1>3, Pairs
    <2>3. PICK F : F = FlattenSeq(s)
      OBVIOUS
    <2>4. <<e>> \in Seq(S) /\ F \in Seq(S)
      BY <1>1, <1>2, <2>2, <2>3
    <2>5. <<e>> \o F = <<e>> \o F \o <<>>
      BY <2>4
    <2>6. PrefillKernels(t) = <<e>> \o F
      BY <2>1, <2>3 DEF PrefillKernels, e
    <2> HIDE DEF s
    <2> QED BY <2>3, <2>5, <2>6
  <1> HIDE DEF s, ks
  <1>5. /\ ks \in Seq(S) /\ Len(ks) = 2 * Layers + 1 /\ ks[1] = e
        /\ \A l \in 0 .. Layers - 1 : ks[2 * l + 2] = s[l + 1][1] /\ ks[2 * l + 3] = s[l + 1][2]
    <2>1. PICK first : first = <<e>>
      OBVIOUS
    <2>2. s \in Seq(Seq(S))
      BY <1>3
    <2>3. Len(s) = Layers
      BY <1>3
    <2>4. \A i \in 1 .. Layers : Len(s[i]) = 2
      BY <1>3
    <2>5. PICK none : none = <<>>
      OBVIOUS
    <2>6. none \in Seq(S) /\ Len(none) = 0 /\ Len(first) = 1 /\ first[1] = e
      BY <2>1, <2>5
    <2>7. none \in Seq(S)
      BY <2>5
    <2>8. first \in Seq(S)
      BY <1>1, <1>2, <2>1
    <2>9. ks = first \o FlattenSeq(s) \o none
      BY <1>4, <2>1, <2>5 DEF ks
    <2>10. Len(first) = 1
      BY <2>6
    <2>11. /\ ks \in Seq(S) /\ Len(ks) = 2 * Layers + 1 + Len(none) /\ ks[1] = first[1]
           /\ \A l \in 0 .. Layers - 1 : ks[2 * l + 2] = s[l + 1][1] /\ ks[2 * l + 3] = s[l + 1][2]
      <3>1. ks \in Seq(S) /\ IsPass(ks, first, s, none)
        BY ONLY <2>2, <2>3, <2>4, <2>7, <2>8, <2>9, <2>10, LayerPairs
      <3> QED BY <3>1 DEF IsPass
    <2> QED BY <1>0, <2>6, <2>11
  <1>6. ASSUME NEW l \in 0 .. Layers - 1
        PROVE  ks[2 * l + 2] = u(l) /\ ks[2 * l + 3] = v(l)
    <2>1. l + 1 \in 1 .. Layers /\ (l + 1) - 1 = l
      BY <1>0
    <2>2. s[l + 1] = <<u(l), v(l)>>
      BY <1>3, <2>1
    <2> QED BY <1>5, <2>2
  <1>7. ASSUME NEW m \in 1 .. 2 * Layers + 1 PROVE IsPrefill(ks[m], t, m)
    BY <1>5, <1>6 DEF IsPrefill, e, u, v
  <1> QED BY <1>2, <1>5, <1>7 DEF ks

\* q3_forward_run_packed() and the scores launch 2 * Layers + 3 of them.
LEMMA PackedShape ==
  ASSUME NEW items \in Seq(Asked), NEW P \in Nat, NEW K \in Nat,
         \A b \in 1 .. Len(items) : Len(items[b].cands) = K
  PROVE  /\ PackedKernels(items, P) \in Seq(Launchable)
         /\ Len(PackedKernels(items, P)) = 2 * Layers + 3
         /\ \A m \in 1 .. 2 * Layers + 3 : IsPacked(PackedKernels(items, P)[m], items, P, m)
  <1> DEFINE view == Pack(items, P)
             T == Len(view)
             B == Len(items)
             e == Kernel("embed", 0, "pack", TokenIds(items), T, P)
             u(l) == Kernel("scatter", l, "pack", view, T, P)
             v(l) == Kernel("segmented", l, "pack", view, T, P)
             g == Kernel("gather", 0, "pack", Offsets(items), B, P)
             h == Kernel("head", 0, "none", Candidates(items), B, P)
             s == [i \in 1 .. Layers |-> <<u(i - 1), v(i - 1)>>]
             ks == PackedKernels(items, P)
  <1>0. /\ Layers \in Nat \ {0} /\ B \in Nat /\ TokenIds(items) \in Seq(Nat)
        /\ view \in Seq(ViewRow) /\ T \in Nat /\ Offsets(items) \in Seq(Nat)
        /\ Candidates(items) \in Seq(Nat)
    <2>1. TokenIds(items) \in Seq(Nat) /\ view \in Seq(ViewRow)
      BY Packed
    <2>2. Offsets(items) \in Seq(Nat)
      BY OffsetsAre
    <2>3. Candidates(items) \in Seq(Nat)
      BY CandidatesAre
    <2>4. T \in Nat /\ B \in Nat
      <3>1. T \in Nat
        <4> HIDE DEF view
        <4> QED BY <2>1
      <3> QED BY <3>1
    <2> QED BY <2>1, <2>2, <2>3, <2>4, Constants
  <1>1. /\ e \in Launchable /\ g \in Launchable /\ h \in Launchable
        /\ \A l \in Nat : u(l) \in Launchable /\ v(l) \in Launchable
    <2> HIDE DEF view, T, B
    <2>1. /\ TokenIds(items) \in Host /\ view \in Host /\ Offsets(items) \in Host
          /\ Candidates(items) \in Host
      BY <1>0 DEF Host
    <2>2. {"embed", "scatter", "segmented", "gather", "head"} \subseteq OpKinds
      BY DEF OpKinds
    <2> QED BY <1>0, <2>1, <2>2, KernelType
  <1>2. PICK S : S = Launchable
    OBVIOUS
  <1> HIDE DEF e, u, v, g, h
  <1>3. /\ s \in Seq(Seq(S)) /\ Len(s) = Layers
        /\ \A i \in 1 .. Layers : s[i] = <<u(i - 1), v(i - 1)>> /\ Len(s[i]) = 2
    <2>1. \A i \in 1 .. Layers : u(i - 1) \in S /\ v(i - 1) \in S
      <3>1. \A i \in 1 .. Layers : i - 1 \in Nat
        BY <1>0
      <3> QED BY <1>1, <1>2, <3>1
    <2> QED BY <1>0, <2>1
  <1>4. PackedKernels(items, P) = <<e>> \o FlattenSeq(s) \o <<g, h>>
    <2>1. s = [i \in 1 .. Layers |->
                <<Kernel("scatter", i - 1, "pack", view, T, P),
                  Kernel("segmented", i - 1, "pack", view, T, P)>>]
      BY DEF u, v
    <2>2. PICK F : F = FlattenSeq(s)
      OBVIOUS
    <2>3. PackedKernels(items, P) = <<e>> \o F \o <<g, h>>
      BY <2>1, <2>2 DEF PackedKernels, e, g, h
    <2> HIDE DEF s
    <2> QED BY <2>2, <2>3
  <1> HIDE DEF s, ks
  <1>5. /\ ks \in Seq(S) /\ Len(ks) = 2 * Layers + 3 /\ ks[1] = e
        /\ \A l \in 0 .. Layers - 1 : ks[2 * l + 2] = s[l + 1][1] /\ ks[2 * l + 3] = s[l + 1][2]
        /\ ks[2 * Layers + 2] = g /\ ks[2 * Layers + 3] = h
    <2>1. PICK first : first = <<e>>
      OBVIOUS
    <2>2. s \in Seq(Seq(S))
      BY <1>3
    <2>3. Len(s) = Layers
      BY <1>3
    <2>4. \A i \in 1 .. Layers : Len(s[i]) = 2
      BY <1>3
    <2>5. PICK rest : rest = <<g, h>>
      OBVIOUS
    <2>6. Len(rest) = 2 /\ rest[1] = g /\ rest[2] = h /\ Len(first) = 1 /\ first[1] = e
      BY <2>1, <2>5
    <2>7. rest \in Seq(S)
      BY <1>1, <1>2, <2>5
    <2>8. first \in Seq(S)
      BY <1>1, <1>2, <2>1
    <2>9. ks = first \o FlattenSeq(s) \o rest
      BY <1>4, <2>1, <2>5 DEF ks
    <2>10. Len(first) = 1
      BY <2>6
    <2>11. ks \in Seq(S) /\ IsPass(ks, first, s, rest)
      BY ONLY <2>2, <2>3, <2>4, <2>7, <2>8, <2>9, <2>10, LayerPairs
    <2>12. Len(ks) = 2 * Layers + 1 + 2 /\ \A j \in 1 .. 2 : ks[2 * Layers + 1 + j] = rest[j]
      BY <2>6, <2>11 DEF IsPass
    <2>13. 2 * Layers + 1 + 2 = 2 * Layers + 3 /\ 2 * Layers + 1 + 1 = 2 * Layers + 2
      BY <1>0
    <2>14. 1 \in 1 .. 2 /\ 2 \in 1 .. 2
      OBVIOUS
    <2>15. ks[2 * Layers + 1 + 1] = g /\ ks[2 * Layers + 1 + 2] = h
      BY <2>6, <2>12, <2>14
    <2> QED BY <2>6, <2>11, <2>12, <2>13, <2>15 DEF IsPass
  <1>6. ASSUME NEW l \in 0 .. Layers - 1
        PROVE  ks[2 * l + 2] = u(l) /\ ks[2 * l + 3] = v(l)
    <2>1. l + 1 \in 1 .. Layers /\ (l + 1) - 1 = l
      BY <1>0
    <2>2. s[l + 1] = <<u(l), v(l)>>
      BY <1>3, <2>1
    <2> QED BY <1>5, <2>2
  <1>7. ASSUME NEW m \in 1 .. 2 * Layers + 3 PROVE IsPacked(ks[m], items, P, m)
    <2>1. m = 1 => ks[m] = e
      BY <1>5
    <2>2. /\ m = 2 * Layers + 2 => ks[m] = g
          /\ m = 2 * Layers + 3 => ks[m] = h
      BY <1>5
    <2>3. \A l \in 0 .. Layers - 1 : /\ m = 2 * l + 2 => ks[m] = u(l)
                                     /\ m = 2 * l + 3 => ks[m] = v(l)
      BY <1>6
    <2> HIDE DEF ks
    <2> QED BY <2>1, <2>2, <2>3 DEF IsPacked, e, u, v, g, h
  <1> QED BY <1>2, <1>5, <1>7 DEF ks

-----------------------------------------------------------------------------
(* Rows.                                                                   *)

\* A row of a table of rows of the same length is that of one pair.
LEMMA OneRow ==
  ASSUME NEW C \in Nat, NEW l1 \in Nat, NEW l2 \in Nat,
         NEW j1 \in 0 .. C - 1, NEW j2 \in 0 .. C - 1,
         l1 * C + j1 = l2 * C + j2
  PROVE  l1 = l2 /\ j1 = j2
  <1>1. ASSUME NEW a \in Nat, NEW b \in Nat, a < b PROVE a * C + C <= b * C
    <2>1. PICK d \in Nat : b = a + 1 + d
      <3>1. b - a - 1 \in Nat /\ b = a + 1 + (b - a - 1)
        BY <1>1
      <3> QED BY <3>1
    <2>2. b * C = a * C + C + d * C /\ d * C \in Nat /\ a * C \in Nat
      BY <2>1
    <2>3. \A x, y, z \in Nat : x + y <= x + y + z
      OBVIOUS
    <2> QED BY <2>2, <2>3
  <1>2. l1 * C \in Nat /\ l2 * C \in Nat /\ j1 \in Nat /\ j2 \in Nat /\ j1 < C /\ j2 < C
    OBVIOUS
  <1>3. \A x, y, i, j, c \in Nat : i < c /\ j < c /\ x + i = y + j => ~(x + c <= y) /\ ~(y + c <= x)
    OBVIOUS
  <1>4. ~(l1 * C + C <= l2 * C) /\ ~(l2 * C + C <= l1 * C)
    BY <1>2, <1>3
  <1>5. ~(l1 < l2) /\ ~(l2 < l1)
    BY <1>1, <1>4
  <1>6. l1 = l2
    BY <1>5
  <1>7. \A x, i, j \in Nat : x + i = x + j => i = j
    OBVIOUS
  <1> QED BY <1>2, <1>6, <1>7

\* Such a row lies within the table.
LEMMA RowWithin ==
  ASSUME NEW C \in Nat, NEW N \in Nat, NEW l \in 0 .. N - 1, NEW j \in 0 .. C - 1
  PROVE  l * C + j \in 0 .. N * C - 1
  <1>1. PICK d \in Nat : N = l + 1 + d
    <2>1. N - l - 1 \in Nat /\ N = l + 1 + (N - l - 1)
      OBVIOUS
    <2> QED BY <2>1
  <1>2. l \in Nat /\ N * C = l * C + C + d * C /\ d * C \in Nat /\ l * C \in Nat
    BY <1>1
  <1>3. \A x, c, z \in Nat : \A i \in 0 .. c - 1 : x + i \in 0 .. x + c + z - 1
    OBVIOUS
  <1>4. l * C + j \in 0 .. l * C + C + d * C - 1
    BY <1>2, <1>3
  <1> QED BY <1>2, <1>4

\* The rows of the prefix.
LEMMA PrefixRowsApart ==
  /\ \A l \in 0 .. Layers - 1 : \A j \in 0 .. PrefixCapacity - 1 : KvRow(l, j) \in PrefixRows
  /\ \A l1, l2 \in 0 .. Layers - 1 : \A j1, j2 \in 0 .. PrefixCapacity - 1 :
        KvRow(l1, j1) = KvRow(l2, j2) => l1 = l2 /\ j1 = j2
  /\ \A l, j : PrefixRow(l, j) = KvRow(l, j)
  <1>0. Layers \in Nat /\ PrefixCapacity \in Nat
    BY Constants
  <1>1. ASSUME NEW l \in 0 .. Layers - 1, NEW j \in 0 .. PrefixCapacity - 1
        PROVE  KvRow(l, j) \in PrefixRows
    BY <1>0, RowWithin DEF KvRow, PrefixRows
  <1>2. ASSUME NEW l1 \in 0 .. Layers - 1, NEW l2 \in 0 .. Layers - 1,
               NEW j1 \in 0 .. PrefixCapacity - 1, NEW j2 \in 0 .. PrefixCapacity - 1,
               KvRow(l1, j1) = KvRow(l2, j2)
        PROVE  l1 = l2 /\ j1 = j2
    <2>1. l1 \in Nat /\ l2 \in Nat
      OBVIOUS
    <2>2. l1 * PrefixCapacity + j1 = l2 * PrefixCapacity + j2
      BY <1>2 DEF KvRow
    <2> QED BY <1>0, <2>1, <2>2, OneRow
  <1> QED BY <1>1, <1>2 DEF KvRow, PrefixRow

\* The rows of the suffixes.
LEMMA SuffixRowsApart ==
  /\ \A b \in Branches : \A l \in 0 .. Layers - 1 : \A j \in 0 .. MaxSuffix - 1 :
        SuffixRow(b, l, j) \in SuffixRows
  /\ \A b1, b2 \in Branches : \A l \in 0 .. Layers - 1 : \A j1, j2 \in 0 .. MaxSuffix - 1 :
        SuffixRow(b1, l, j1) = SuffixRow(b2, l, j2) => b1 = b2 /\ j1 = j2
  <1>0. Layers \in Nat /\ MaxSuffix \in Nat /\ MaxBranches \in Nat
    BY Constants
  <1>1. ASSUME NEW b \in Branches, NEW l \in 0 .. Layers - 1 PROVE b * Layers + l \in 0 .. MaxBranches * Layers - 1
    <2>1. b \in 0 .. MaxBranches - 1
      BY DEF Branches
    <2> QED BY <1>0, <2>1, RowWithin
  <1>2. MaxBranches * Layers \in Nat
    BY <1>0
  <1>3. ASSUME NEW b \in Branches, NEW l \in 0 .. Layers - 1, NEW j \in 0 .. MaxSuffix - 1
        PROVE  SuffixRow(b, l, j) \in SuffixRows
    <2>1. PICK r : r = b * Layers + l
      OBVIOUS
    <2>2. PICK N : N = MaxBranches * Layers
      OBVIOUS
    <2>3. r \in 0 .. N - 1 /\ N \in Nat
      BY <1>1, <1>2, <2>1, <2>2
    <2>4. r * MaxSuffix + j \in 0 .. N * MaxSuffix - 1
      BY <1>0, <2>3, RowWithin
    <2> QED BY <2>1, <2>2, <2>4 DEF SuffixRow, SuffixRows
  <1>4. ASSUME NEW b1 \in Branches, NEW b2 \in Branches, NEW l \in 0 .. Layers - 1,
               NEW j1 \in 0 .. MaxSuffix - 1, NEW j2 \in 0 .. MaxSuffix - 1,
               SuffixRow(b1, l, j1) = SuffixRow(b2, l, j2)
        PROVE  b1 = b2 /\ j1 = j2
    <2>1. PICK r1 : r1 = b1 * Layers + l
      OBVIOUS
    <2>2. PICK r2 : r2 = b2 * Layers + l
      OBVIOUS
    <2>3. r1 \in Nat /\ r2 \in Nat
      <3>1. r1 \in 0 .. MaxBranches * Layers - 1 /\ r2 \in 0 .. MaxBranches * Layers - 1
        BY <1>1, <2>1, <2>2
      <3> QED BY <1>2, <3>1
    <2>4. r1 * MaxSuffix + j1 = r2 * MaxSuffix + j2
      BY <1>4, <2>1, <2>2 DEF SuffixRow
    <2>5. r1 = r2 /\ j1 = j2
      BY <1>0, <2>3, <2>4, OneRow
    <2>6. b1 \in Nat /\ b2 \in Nat
      BY <1>0 DEF Branches
    <2>7. b1 * Layers + l = b2 * Layers + l
      BY <2>1, <2>2, <2>5
    <2>8. b1 = b2
      BY <1>0, <2>6, <2>7, OneRow
    <2> QED BY <2>5, <2>8
  <1> QED BY <1>3, <1>4

\* What Written() leaves in a memory, when no row is written twice.
LEMMA WrittenRows ==
  ASSUME NEW mem, NEW at, NEW rows
  PROVE  /\ DOMAIN Written(mem, at, rows) = DOMAIN mem
         /\ \A r \in DOMAIN mem :
               (\A t \in DOMAIN at : at[t] # r) => Written(mem, at, rows)[r] = mem[r]
         /\ \A t \in DOMAIN at :
               at[t] \in DOMAIN mem /\ (\A u \in DOMAIN at : at[u] = at[t] => u = t)
                  => Written(mem, at, rows)[at[t]] = rows[t]
  <1>1. ASSUME NEW t \in DOMAIN at, at[t] \in DOMAIN mem,
               \A u \in DOMAIN at : at[u] = at[t] => u = t
        PROVE  Written(mem, at, rows)[at[t]] = rows[t]
    <2>1. (CHOOSE u \in DOMAIN at : at[u] = at[t]) = t
      BY <1>1
    <2> QED BY <1>1, <2>1 DEF Written
  <1> QED BY <1>1 DEF Written

\* The rows of a text depend on its beginning alone.
LEMMA RowExtends ==
  ASSUME NEW u \in Seq(Nat), NEW v \in Seq(Nat), NEW l \in Nat, NEW j \in 0 .. Len(u) - 1
  PROVE  RowOf(u \o v, l, j) = RowOf(u, l, j)
  <1>0. /\ u \o v \in Seq(Nat) /\ Len(u \o v) = Len(u) + Len(v)
        /\ Len(u) \in Nat /\ Len(v) \in Nat
        /\ \A i \in 1 .. Len(u) : (u \o v)[i] = u[i]
    OBVIOUS
  <1>1. PICK w : w = u \o v
    OBVIOUS
  <1>2. w[j + 1] = u[j + 1]
    BY <1>0, <1>1
  <1>3. SubSeq(w, 1, j + 1) = SubSeq(u, 1, j + 1)
    <2>1. /\ w \in Seq(Nat) /\ j + 1 \in 1 .. Len(u) /\ j + 1 \in 1 .. Len(w)
          /\ \A i \in 1 .. j + 1 : w[i] = u[i]
      BY <1>0, <1>1
    <2> QED BY <2>1
  <1> QED BY <1>1, <1>2, <1>3 DEF RowOf

\* rows are the first n of a text for layer l.
AreRows(rows, F, l, n) ==
    /\ DOMAIN rows = 1 .. n /\ Len(rows) = n
    /\ \A j \in 1 .. n : rows[j] = RowOf(F, l, j - 1)

\* Attention over the first n rows of a text has seen these n tokens.
LEMMA AttentionSees ==
  ASSUME NEW F \in Seq(Nat), NEW n \in 1 .. Len(F), NEW l \in Nat,
         NEW rows, AreRows(rows, F, l, n), NEW own, own = rows[n].ctx
  PROVE  Attention(l, rows, own) = SubSeq(F, 1, n)
  <1> DEFINE text == [j \in DOMAIN rows |-> Last(rows[j].ctx)]
             G == SubSeq(F, 1, n)
  <1>0. /\ n \in Nat /\ Len(F) \in Nat /\ n \in 1 .. n
        /\ DOMAIN rows = 1 .. n /\ Len(rows) = n
        /\ \A j \in 1 .. n : rows[j] = RowOf(F, l, j - 1)
    BY DEF AreRows
  <1>1. G \in Seq(Nat) /\ Len(G) = n /\ \A j \in 1 .. n : G[j] = F[j]
    OBVIOUS
  <1>2. ASSUME NEW j \in 1 .. n
        PROVE  /\ rows[j].ctx # Junk /\ Last(rows[j].ctx) = F[j]
               /\ rows[j] = RowOf(G, l, j - 1)
    <2>1. j - 1 \in Nat /\ (j - 1) + 1 = j /\ j \in 1 .. Len(F)
      OBVIOUS
    <2>2. rows[j] = [ctx |-> IF l = 0 THEN <<F[j]>> ELSE SubSeq(F, 1, j), pos |-> j - 1]
      BY <1>0, <2>1 DEF RowOf
    <2>3. RowOf(G, l, j - 1) = [ctx |-> IF l = 0 THEN <<G[j]>> ELSE SubSeq(G, 1, j), pos |-> j - 1]
      BY <2>1 DEF RowOf
    <2>4. SubSeq(G, 1, j) = SubSeq(F, 1, j)
      <3> HIDE DEF G
      <3>1. \A i \in 1 .. j : G[i] = F[i]
        BY <1>1
      <3>2. j \in 1 .. Len(G) /\ G \in Seq(Nat)
        BY <1>1
      <3> QED BY <2>1, <3>1, <3>2
    <2>5. G[j] = F[j]
      BY <1>1
    <2>6. /\ SubSeq(F, 1, j) # <<>> /\ Last(SubSeq(F, 1, j)) = F[j]
          /\ <<F[j]>> # <<>> /\ Last(<<F[j]>>) = F[j]
      <3>1. PICK H : H = SubSeq(F, 1, j)
        OBVIOUS
      <3>2. H \in Seq(Nat) /\ Len(H) = j /\ H[j] = F[j]
        BY <2>1, <3>1
      <3>3. H # <<>> /\ H[Len(H)] = F[j]
        BY <3>2
      <3> QED BY <3>1, <3>3 DEF Last
    <2>7. rows[j].ctx = IF l = 0 THEN <<F[j]>> ELSE SubSeq(F, 1, j)
      BY <2>2
    <2> HIDE DEF G
    <2>8. RowOf(G, l, j - 1) = [ctx |-> IF l = 0 THEN <<F[j]>> ELSE SubSeq(F, 1, j), pos |-> j - 1]
      BY <2>3, <2>4, <2>5
    <2>9. rows[j] = RowOf(G, l, j - 1)
      BY <2>2, <2>8
    <2>10. rows[j].ctx # <<>> /\ Last(rows[j].ctx) = F[j]
      <3>1. CASE l = 0
        BY <2>6, <2>7, <3>1
      <3>2. CASE l # 0
        BY <2>6, <2>7, <3>2
      <3> QED BY <3>1, <3>2
    <2> QED BY <2>9, <2>10 DEF Junk
  <1>3. text = G
    <2>1. text = [j \in 1 .. n |-> F[j]]
      BY <1>0, <1>2
    <2>2. G = [j \in 1 .. n |-> F[j]]
      <3> HIDE DEF G
      <3> QED BY <1>0, <1>1
    <2> QED BY <2>1, <2>2
  <1>4. own = rows[Len(rows)].ctx
    BY <1>0
  <1> HIDE DEF text, G
  <1>5. \A j \in DOMAIN rows : rows[j].ctx # Junk /\ rows[j] = RowOf(text, l, j - 1)
    BY <1>0, <1>2, <1>3
  <1>6. Attention(l, rows, own) = text
    BY <1>4, <1>5 DEF Attention, text
  <1> QED BY <1>3, <1>6 DEF G

\* The kernels of a pass by their places.
LEMMA PassCases ==
  ASSUME NEW m \in 1 .. 2 * Layers + 3
  PROVE  \/ m = 1 \/ \E l \in 0 .. Layers - 1 : m = 2 * l + 2 \/ m = 2 * l + 3
         \/ m = 2 * Layers + 2 \/ m = 2 * Layers + 3
  <1>0. Layers \in Nat
    BY Constants
  <1>1. PICK q \in Int : m = 2 * q \/ m = 2 * q + 1
    <2>1. m \in Nat /\ \A x \in Nat : x \div 2 \in Int /\ (x = 2 * (x \div 2) \/ x = 2 * (x \div 2) + 1)
      BY <1>0
    <2> QED BY <2>1
  <1>2. CASE m = 1
    BY <1>2
  <1>3. CASE m # 1 /\ m <= 2 * Layers + 1
    <2>1. q - 1 \in 0 .. Layers - 1 /\ (m = 2 * (q - 1) + 2 \/ m = 2 * (q - 1) + 3)
      BY <1>0, <1>1, <1>3
    <2> QED BY <2>1
  <1>4. CASE m > 2 * Layers + 1
    BY <1>0, <1>4
  <1> QED BY <1>0, <1>2, <1>3, <1>4

-----------------------------------------------------------------------------
(* The inductive invariant.                                                *)

TypeInv ==
    /\ prefix \in [text : PrefixTexts \cup {<<>>}, sealed : BOOLEAN]
    /\ inUse \subseteq Branches
    /\ call \in {"none", "deciding", "failed"}
    /\ batch \in Seq(Asked)
    /\ stream \in Seq(Launchable)
    /\ DOMAIN pk = PrefixRows /\ DOMAIN sk = SuffixRows /\ DOMAIN hidden = 1 .. MaxTokens
    /\ DOMAIN last = Branches /\ DOMAIN logits = Scores

TextLen == Len(prefix.text)

\* The questions of a batch are on branches of their own.
Distinct(items) ==
    \A b, c \in 1 .. Len(items) : items[b].branch = items[c].branch => b = c

\* The host's view: only what was accepted is under way.
HostInv ==
    /\ prefix.sealed => prefix.text # <<>>
    /\ prefix.text # <<>> => PrefillFits(prefix.text)
    /\ call = "deciding" => Accepts(batch) /\ Distinct(batch)
    /\ call # "failed" /\ prefix.text = <<>> => call = "none" /\ stream = <<>>

PassLength   == 2 * Layers + 1
PackedLength == 2 * Layers + 3

\* How many kernels of the prefix's last prefill, and of the packed pass behind
\* it, were executed.  It is negative while the prefills that it replaced are
\* queued.
Done == PassLength + (IF call = "deciding" THEN PackedLength ELSE 0) - Len(stream)

\* The number of the first kernel of the stream, and in the packed pass.
Turn == Done + 1
PackedTurn == Turn - PassLength

Passing == call # "failed" /\ prefix.text # <<>>

\* A kernel of a prefill, whatever its text.
IsAny(k) ==
    /\ k.kind \in {"embed", "append", "attend"}
    /\ k.array # "none" => k.host # Freed

\* k is the m-th kernel, counted from the first of the prefix's last prefill.
IsDue(k, m) ==
    /\ m < 1 => IsAny(k)
    /\ m \in 1 .. PassLength => IsPrefill(k, prefix.text, m)
    /\ m > PassLength => IsPacked(k, batch, TextLen, m - PassLength)

\* The stream holds what is left of these passes, in order.
StreamInv == Passing => \A i \in DOMAIN stream : IsDue(stream[i], Done + i)

\* What the memory holds for layer l: the residual stream and K and V of the
\* prefix.
HiddenIs(l) == \A t \in 1 .. TextLen : hidden[t] = RowOf(prefix.text, l, t - 1).ctx
KvIs(l) == \A j \in 1 .. TextLen : pk[KvRow(l, j - 1)] = RowOf(prefix.text, l, j - 1)

PrefixMem ==
    Passing => \A l \in 0 .. Layers - 1 :
        /\ Done \in {2 * l + 1, 2 * l + 2} => HiddenIs(l)
        /\ Done >= 2 * l + 2 => KvIs(l)

\* What question b of the batch is about, and what the memory holds of it.
Full(b) == prefix.text \o batch[b].tokens
PackedIs(l) ==
    \A b \in 1 .. Len(batch) : \A j \in 1 .. Len(batch[b].tokens) :
        hidden[Off(batch, b - 1) + j] = RowOf(Full(b), l, TextLen + j - 1).ctx
SuffixIs(l) ==
    \A b \in 1 .. Len(batch) : \A j \in 1 .. Len(batch[b].tokens) :
        sk[SuffixRow(batch[b].branch, l, j - 1)] = RowOf(Full(b), l, TextLen + j - 1)
LastAre == \A b \in 1 .. Len(batch) : last[b - 1] = Full(b)
LogitsAre ==
    \A b \in 1 .. Len(batch) : \A k \in 1 .. Len(batch[b].cands) :
        logits[(b - 1) * Len(batch[1].cands) + k - 1] = [ctx |-> Full(b), cand |-> batch[b].cands[k]]

PackedMem ==
    call = "deciding" =>
        /\ \A l \in 0 .. Layers : Done - PassLength = 2 * l + 1 => PackedIs(l)
        /\ \A l \in 0 .. Layers - 1 : Done - PassLength = 2 * l + 2 => PackedIs(l) /\ SuffixIs(l)
        /\ Done - PassLength = 2 * Layers + 2 => LastAre
        /\ Done - PassLength >= 2 * Layers + 3 => LogitsAre

Inv == TypeInv /\ HostInv /\ StreamInv /\ PrefixMem /\ PackedMem

\* The types of what is counted.
LEMMA Lengths ==
  TypeInv => /\ Len(stream) \in Nat /\ Done \in Int /\ Layers \in Nat \ {0}
             /\ PassLength \in Nat /\ PackedLength \in Nat
             /\ prefix.text \in Seq(Nat) /\ TextLen \in Nat
  <1> SUFFICES ASSUME TypeInv PROVE /\ Len(stream) \in Nat /\ Done \in Int /\ Layers \in Nat \ {0}
             /\ PassLength \in Nat /\ PackedLength \in Nat
             /\ prefix.text \in Seq(Nat) /\ TextLen \in Nat
    OBVIOUS
  <1>1. Layers \in Nat \ {0}
    BY Constants
  <1>2. PassLength \in Nat /\ PackedLength \in Nat
    BY <1>1 DEF PassLength, PackedLength
  <1>3. Len(stream) \in Nat
    <2>1. stream \in Seq(Launchable)
      BY DEF TypeInv
    <2> QED BY <2>1
  <1>4. prefix.text \in Seq(Nat)
    <2>1. prefix.text \in PrefixTexts \cup {<<>>}
      BY DEF TypeInv
    <2>2. \A t \in PrefixTexts : t \in Seq(Nat)
      BY Constants
    <2>3. <<>> \in Seq(Nat)
      OBVIOUS
    <2> QED BY <2>1, <2>2, <2>3
  <1>5. Done \in Int
    BY <1>2, <1>3 DEF Done
  <1>6. TextLen \in Nat
    BY <1>4 DEF TextLen
  <1> QED BY <1>1, <1>2, <1>3, <1>4, <1>5, <1>6

\* The first of a sequence, and the rest.
LEMMA HeadAndTail ==
  ASSUME NEW S, NEW s \in Seq(S), s # <<>>
  PROVE  /\ Head(s) = s[1] /\ Head(s) \in S /\ Tail(s) \in Seq(S)
         /\ Len(s) \in Nat \ {0} /\ Len(Tail(s)) = Len(s) - 1
         /\ \A i \in 1 .. Len(s) - 1 : Tail(s)[i] = s[i + 1]
  OBVIOUS

\* When the first kernel is taken, the rest is one further.
LEMMA Popped ==
  Inv /\ stream # <<>> /\ stream' = Tail(stream) /\ UNCHANGED hostVars
    => /\ stream' \in Seq(Launchable) /\ Done' = Turn /\ Head(stream) \in Launchable
       /\ HostInv' /\ StreamInv'
  <1> SUFFICES ASSUME Inv, stream # <<>>, stream' = Tail(stream), UNCHANGED hostVars
               PROVE  /\ stream' \in Seq(Launchable) /\ Done' = Turn /\ Head(stream) \in Launchable
                      /\ HostInv' /\ StreamInv'
    OBVIOUS
  <1>0. stream \in Seq(Launchable) /\ TypeInv
    BY DEF Inv, TypeInv
  <1>1. /\ Head(stream) = stream[1] /\ Head(stream) \in Launchable /\ stream' \in Seq(Launchable)
        /\ Len(stream) \in Nat \ {0} /\ Len(stream') = Len(stream) - 1
        /\ \A i \in 1 .. Len(stream) - 1 : stream'[i] = stream[i + 1]
    BY <1>0, HeadAndTail
  <1>2. /\ prefix' = prefix /\ call' = call /\ batch' = batch
    BY DEF hostVars
  <1>3. PassLength \in Nat /\ PackedLength \in Nat /\ Done \in Int
    BY <1>0, Lengths
  <1>4. Done' = Done + 1
    <2>1. CASE call = "deciding"
      BY <1>1, <1>2, <1>3, <2>1 DEF Done, PassLength, PackedLength
    <2>2. CASE call # "deciding"
      BY <1>1, <1>2, <1>3, <2>2 DEF Done, PassLength, PackedLength
    <2> QED BY <2>1, <2>2
  <1>5. HostInv'
    <2>1. ~(call # "failed" /\ prefix.text = <<>>)
      BY DEF Inv, HostInv
    <2> QED BY <1>2, <2>1 DEF Inv, HostInv, Accepts, Distinct, PrefillFits
  <1>6. ASSUME Passing', NEW i \in DOMAIN stream'
        PROVE  IsDue(stream'[i], Done' + i)
    <2>1. Passing
      BY <1>2, <1>6 DEF Passing
    <2>2. i \in 1 .. Len(stream) - 1 /\ i + 1 \in DOMAIN stream /\ i \in Int
      <3>1. DOMAIN stream' = 1 .. Len(stream')
        BY <1>1
      <3>2. DOMAIN stream = 1 .. Len(stream)
        BY <1>0
      <3> QED BY <1>1, <3>1, <3>2
    <2>3. stream'[i] = stream[i + 1]
      BY <1>1, <2>2
    <2>4. Done' + i = Done + (i + 1)
      BY <1>3, <1>4, <2>2
    <2>5. IsDue(stream[i + 1], Done + (i + 1))
      BY <2>1, <2>2 DEF Inv, StreamInv
    <2> QED BY <2>3, <2>4, <2>5
  <1>7. StreamInv'
    <2>1. ASSUME Passing', NEW i \in DOMAIN stream' PROVE IsDue(stream[i], Done + i)'
      BY <1>2, <1>6, <2>1 DEF IsDue, TextLen
    <2> QED BY <2>1 DEF StreamInv
  <1> QED BY <1>1, <1>4, <1>5, <1>7 DEF Turn

\* Which kernel is the first.
LEMMA FirstKernel ==
  Inv /\ stream # <<>> /\ call # "failed"
    => /\ Passing
       /\ \/ Turn < 1 /\ IsAny(Head(stream))
          \/ Turn \in 1 .. PassLength /\ IsPrefill(Head(stream), prefix.text, Turn)
          \/ /\ call = "deciding" /\ PackedTurn \in 1 .. PackedLength
             /\ IsPacked(Head(stream), batch, TextLen, PackedTurn)
  <1> SUFFICES ASSUME Inv, stream # <<>>, call # "failed"
               PROVE  /\ Passing
                      /\ \/ Turn < 1 /\ IsAny(Head(stream))
                         \/ Turn \in 1 .. PassLength /\ IsPrefill(Head(stream), prefix.text, Turn)
                         \/ /\ call = "deciding" /\ PackedTurn \in 1 .. PackedLength
                            /\ IsPacked(Head(stream), batch, TextLen, PackedTurn)
    OBVIOUS
  <1>1. Passing
    BY DEF Inv, HostInv, Passing
  <1>2. stream \in Seq(Launchable) /\ TypeInv
    BY DEF Inv, TypeInv
  <1>3. Head(stream) = stream[1] /\ Len(stream) \in Nat \ {0} /\ 1 \in DOMAIN stream
    <2>1. Head(stream) = stream[1] /\ Len(stream) \in Nat \ {0}
      BY <1>2, HeadAndTail
    <2>2. DOMAIN stream = 1 .. Len(stream)
      BY <1>2
    <2> QED BY <2>1, <2>2
  <1>4. PassLength \in Nat /\ PackedLength \in Nat /\ Done \in Int
    BY <1>2, Lengths
  <1>5. IsDue(Head(stream), Turn)
    BY <1>1, <1>3 DEF Inv, StreamInv, Turn
  <1>6. Turn > PassLength => call = "deciding" /\ PackedTurn \in 1 .. PackedLength
    <2>1. CASE call = "deciding"
      <3>1. Done = PassLength + PackedLength - Len(stream)
        BY <2>1 DEF Done
      <3> QED BY <1>3, <1>4, <2>1, <3>1 DEF Turn, PackedTurn
    <2>2. CASE call # "deciding"
      <3>1. Done = PassLength + 0 - Len(stream)
        BY <2>2 DEF Done
      <3> QED BY <1>3, <1>4, <3>1 DEF Turn
    <2> QED BY <2>1, <2>2
  <1>7. Turn < 1 \/ Turn \in 1 .. PassLength \/ Turn > PassLength
    BY <1>4 DEF Turn
  <1>8. Turn > PassLength => IsPacked(Head(stream), batch, TextLen, PackedTurn)
    BY <1>5 DEF IsDue, PackedTurn
  <1>9. /\ Turn < 1 => IsAny(Head(stream))
        /\ Turn \in 1 .. PassLength => IsPrefill(Head(stream), prefix.text, Turn)
    BY <1>5 DEF IsDue
  <1> QED BY <1>1, <1>6, <1>7, <1>8, <1>9

\* Before a pass has begun nothing is said of the memory.
NothingSaid ==
  /\ Done \in Int /\ Done < 1 => PrefixMem
  /\ Done \in Int /\ Done <= PassLength => PackedMem
  /\ call # "deciding" => PackedMem
  /\ ~Passing => PrefixMem

\* The cases of NothingSaid.
LEMMA MemoryBefore == NothingSaid
  <1>0. Layers \in Nat /\ PassLength \in Nat
    BY Constants DEF PassLength
  <1>1. ASSUME Done \in Int, Done < 1 PROVE PrefixMem
    <2>1. \A l \in 0 .. Layers - 1 : /\ ~(Done \in {2 * l + 1, 2 * l + 2})
                                     /\ ~(Done >= 2 * l + 2)
      BY <1>0, <1>1
    <2> QED BY <2>1 DEF PrefixMem
  <1>2. ASSUME Done \in Int, Done <= PassLength PROVE PackedMem
    <2>1. \A l \in 0 .. Layers : Done - PassLength # 2 * l + 1 /\ Done - PassLength # 2 * l + 2
      BY <1>0, <1>2
    <2>2. Done - PassLength # 2 * Layers + 2 /\ ~(Done - PassLength >= 2 * Layers + 3)
      BY <1>0, <1>2
    <2>3. \A l \in 0 .. Layers - 1 : l \in 0 .. Layers
      BY <1>0
    <2> QED BY <2>1, <2>2, <2>3 DEF PackedMem
  <1>3. call # "deciding" => PackedMem
    BY DEF PackedMem
  <1>4. ~Passing => PrefixMem
    BY DEF PrefixMem
  <1> QED BY <1>1, <1>2, <1>3, <1>4 DEF NothingSaid

\* The same behind a step.
LEMMA MemoryAfter ==
  /\ Done' \in Int /\ Done' < 1 => PrefixMem'
  /\ Done' \in Int /\ Done' <= PassLength => PackedMem'
  /\ call' # "deciding" => PackedMem'
  /\ ~Passing' => PrefixMem'
  <1>1. PassLength' = PassLength
    BY DEF PassLength
  <1>2. NothingSaid'
    BY MemoryBefore, PTL
  <1> QED BY <1>1, <1>2 DEF NothingSaid

\* The kernels of a prefill, and of a packed pass, one by one.
LEMMA PrefillCases ==
  ASSUME NEW k, NEW t, NEW m \in 1 .. PassLength, IsPrefill(k, t, m)
  PROVE  \/ m = 1 /\ k = Kernel("embed", 0, "state", t, Len(t), 0)
         \/ \E l \in 0 .. Layers - 1 :
               \/ m = 2 * l + 2 /\ k = Kernel("append", l, "none", Freed, Len(t), 0)
               \/ m = 2 * l + 3 /\ k = Kernel("attend", l, "none", Freed, Len(t), 0)
  <1>0. Layers \in Nat
    BY Constants
  <1>1. m \in 1 .. 2 * Layers + 3 /\ m <= 2 * Layers + 1
    BY <1>0 DEF PassLength
  <1>2. m = 1 \/ \E l \in 0 .. Layers - 1 : m = 2 * l + 2 \/ m = 2 * l + 3
    <2>1. m # 2 * Layers + 2 /\ m # 2 * Layers + 3
      BY <1>0, <1>1
    <2> QED BY <1>1, <2>1, PassCases
  <1>3. CASE m = 1
    BY <1>3 DEF IsPrefill
  <1>4. CASE \E l \in 0 .. Layers - 1 : m = 2 * l + 2 \/ m = 2 * l + 3
    <2>1. PICK l \in 0 .. Layers - 1 : m = 2 * l + 2 \/ m = 2 * l + 3
      BY <1>4
    <2>2. /\ m = 2 * l + 2 => k = Kernel("append", l, "none", Freed, Len(t), 0)
          /\ m = 2 * l + 3 => k = Kernel("attend", l, "none", Freed, Len(t), 0)
      BY DEF IsPrefill
    <2> QED BY <2>1, <2>2
  <1> QED BY <1>2, <1>3, <1>4

\* The kernels of a packed pass by their kinds.
LEMMA PackedCases ==
  ASSUME NEW k, NEW items, NEW n, NEW m \in 1 .. PackedLength, IsPacked(k, items, n, m)
  PROVE  \E view : /\ view = Pack(items, n)
            /\ \/ m = 1 /\ k = Kernel("embed", 0, "pack", TokenIds(items), Len(view), n)
               \/ \E l \in 0 .. Layers - 1 :
                     \/ m = 2 * l + 2 /\ k = Kernel("scatter", l, "pack", view, Len(view), n)
                     \/ m = 2 * l + 3 /\ k = Kernel("segmented", l, "pack", view, Len(view), n)
               \/ m = 2 * Layers + 2 /\ k = Kernel("gather", 0, "pack", Offsets(items), Len(items), n)
               \/ m = 2 * Layers + 3 /\ k = Kernel("head", 0, "none", Candidates(items), Len(items), n)
  <1>0. Layers \in Nat /\ m \in 1 .. 2 * Layers + 3
    BY Constants DEF PackedLength
  <1>1. PICK view : view = Pack(items, n)
    OBVIOUS
  <1>2. /\ m = 1 => k = Kernel("embed", 0, "pack", TokenIds(items), Len(view), n)
        /\ \A l \in 0 .. Layers - 1 :
              /\ m = 2 * l + 2 => k = Kernel("scatter", l, "pack", view, Len(view), n)
              /\ m = 2 * l + 3 => k = Kernel("segmented", l, "pack", view, Len(view), n)
        /\ m = 2 * Layers + 2 => k = Kernel("gather", 0, "pack", Offsets(items), Len(items), n)
        /\ m = 2 * Layers + 3 => k = Kernel("head", 0, "none", Candidates(items), Len(items), n)
    BY <1>1 DEF IsPacked
  <1>3. \/ m = 1 \/ \E l \in 0 .. Layers - 1 : m = 2 * l + 2 \/ m = 2 * l + 3
        \/ m = 2 * Layers + 2 \/ m = 2 * Layers + 3
    BY <1>0, PassCases
  <1>4. CASE m = 1
    BY <1>1, <1>2, <1>4
  <1>5. CASE \E l \in 0 .. Layers - 1 : m = 2 * l + 2 \/ m = 2 * l + 3
    <2>1. PICK l \in 0 .. Layers - 1 : m = 2 * l + 2 \/ m = 2 * l + 3
      BY <1>5
    <2>2. \/ m = 2 * l + 2 /\ k = Kernel("scatter", l, "pack", view, Len(view), n)
          \/ m = 2 * l + 3 /\ k = Kernel("segmented", l, "pack", view, Len(view), n)
      BY <1>2, <2>1
    <2> QED BY <1>1, <2>2
  <1>6. CASE m = 2 * Layers + 2
    BY <1>1, <1>2, <1>6
  <1>7. CASE m = 2 * Layers + 3
    BY <1>1, <1>2, <1>7
  <1> QED BY <1>3, <1>4, <1>5, <1>6, <1>7

\* What is accepted.
LEMMA Accepted ==
  ASSUME NEW items \in Seq(Asked), Accepts(items)
  PROVE  /\ Len(items) \in 1 .. MaxBranches /\ Off(items, Len(items)) <= MaxTokens
         /\ \A b \in 1 .. Len(items) :
               /\ items[b].branch \in Branches /\ items[b].tokens \in Seq(Nat)
               /\ Len(items[b].tokens) \in 1 .. MaxSuffix
               /\ items[b].cands \in Seq(Nat) /\ Len(items[b].cands) = Len(items[1].cands)
         /\ Len(items[1].cands) \in 1 .. MaxCandidates
         /\ prefix.sealed
  <1>1. Len(items) \in 1 .. MaxBranches /\ prefix.sealed /\ Len(items[1].cands) \in 1 .. MaxCandidates
    BY DEF Accepts
  <1>2. Off(items, Len(items)) <= MaxTokens
    <2>1. Len(TokenIds(items)) = Off(items, Len(items))
      <3>1. 0 \in Nat
        OBVIOUS
      <3> QED BY <3>1, Packed
    <2> QED BY <2>1 DEF Accepts
  <1>3. ASSUME NEW b \in 1 .. Len(items)
        PROVE  /\ items[b].branch \in Branches /\ items[b].tokens \in Seq(Nat)
               /\ Len(items[b].tokens) \in 1 .. MaxSuffix
               /\ items[b].cands \in Seq(Nat) /\ Len(items[b].cands) = Len(items[1].cands)
    <2>1. items[b] \in Asked
      OBVIOUS
    <2>2. /\ items[b].branch \in Branches /\ items[b].tokens \in SuffixTexts
          /\ items[b].cands \in CandidateLists
      BY <2>1 DEF Asked
    <2>3. /\ Len(items[b].tokens) \in 1 .. MaxSuffix
          /\ Len(items[b].cands) = Len(items[1].cands)
      BY DEF Accepts
    <2>4. items[b].tokens \in Seq(Nat) /\ items[b].cands \in Seq(Nat)
      BY <2>2, Constants
    <2> QED BY <2>2, <2>3, <2>4
  <1> QED BY <1>1, <1>2, <1>3

\* What the actions of the device do.
LEMMA DeviceSteps ==
  /\ Embed => hidden' = [t \in 1 .. MaxTokens |->
        IF t <= Head(stream).n
        THEN IF Head(stream).host = Freed THEN Junk ELSE <<Head(stream).host[t]>> ELSE hidden[t]]
  /\ Attend => hidden' = [t \in 1 .. MaxTokens |->
        IF t <= Head(stream).n
        THEN Attention(Head(stream).layer,
                       [j \in 1 .. t |-> pk[KvRow(Head(stream).layer, j - 1)]], hidden[t])
        ELSE hidden[t]]
  /\ Segmented => hidden' = [t \in 1 .. MaxTokens |->
        IF t <= Head(stream).n
        THEN IF Head(stream).host = Freed THEN Junk
             ELSE Attention(Head(stream).layer, Visible(t), hidden[t]) ELSE hidden[t]]
  <1>1. Embed => hidden' = [t \in 1 .. MaxTokens |->
          IF t <= Head(stream).n
          THEN IF Head(stream).host = Freed THEN Junk ELSE <<Head(stream).host[t]>> ELSE hidden[t]]
    BY DEF Embed, Rows, op
  <1>2. Attend => hidden' = [t \in 1 .. MaxTokens |->
          IF t <= Head(stream).n
          THEN Attention(Head(stream).layer,
                         [j \in 1 .. t |-> pk[KvRow(Head(stream).layer, j - 1)]], hidden[t])
          ELSE hidden[t]]
    BY DEF Attend, Rows, op
  <1>3. Segmented => hidden' = [t \in 1 .. MaxTokens |->
          IF t <= Head(stream).n
          THEN IF Head(stream).host = Freed THEN Junk
               ELSE Attention(Head(stream).layer, Visible(t), hidden[t]) ELSE hidden[t]]
    BY DEF Segmented, Rows, op
  <1> QED BY <1>1, <1>2, <1>3

\* Sums of numbers grow.
LEMMA Growing ==
  ASSUME NEW n \in Nat, NEW off, NEW len, \A b \in 0 .. n : off[b] \in Nat,
         \A b \in 1 .. n : len[b] \in Nat /\ off[b] = off[b - 1] + len[b]
  PROVE  \A b, c \in 0 .. n : b <= c => off[b] <= off[c]
  <1> SUFFICES ASSUME NEW b \in 0 .. n PROVE \A c \in 0 .. n : b <= c => off[b] <= off[c]
    OBVIOUS
  <1> DEFINE Bad == {c \in 0 .. n : b <= c /\ ~(off[b] <= off[c])}
  <1>1. SUFFICES Bad = {}
    OBVIOUS
  <1>2. SUFFICES ASSUME Bad # {} PROVE FALSE
    OBVIOUS
  <1>3. PICK c \in Bad : \A m \in Bad : c <= m
    <2>1. Bad \subseteq Nat
      OBVIOUS
    <2> HIDE DEF Bad
    <2> QED BY <1>2, <2>1, LeastIn
  <1>4. c \in 0 .. n /\ b <= c /\ ~(off[b] <= off[c])
    BY <1>3
  <1>5. c # b
    BY <1>4
  <1>6. c - 1 \in 0 .. n /\ b <= c - 1 /\ ~(c <= c - 1) /\ c \in 1 .. n
    BY <1>4, <1>5
  <1>7. c - 1 \notin Bad
    <2> HIDE DEF Bad
    <2> QED BY <1>3, <1>6
  <1>8. off[b] <= off[c - 1]
    BY <1>6, <1>7
  <1>9. off[c] = off[c - 1] + len[c] /\ len[c] \in Nat /\ off[c - 1] \in Nat /\ off[b] \in Nat
    BY <1>6
  <1> QED BY <1>4, <1>8, <1>9

\* The text of a question.
LEMMA FullIs ==
  ASSUME prefix.text \in Seq(Nat), batch \in Seq(Asked), Accepts(batch),
         NEW b \in 1 .. Len(batch)
  PROVE  /\ Full(b) \in Seq(Nat) /\ Len(Full(b)) = TextLen + Len(batch[b].tokens)
         /\ \A j \in 1 .. Len(batch[b].tokens) : Full(b)[TextLen + j] = batch[b].tokens[j]
         /\ \A l \in Nat : \A j \in 0 .. TextLen - 1 : RowOf(Full(b), l, j) = RowOf(prefix.text, l, j)
  <1>1. PICK u : u = prefix.text
    OBVIOUS
  <1>2. PICK v : v = batch[b].tokens
    OBVIOUS
  <1>3. u \in Seq(Nat) /\ v \in Seq(Nat)
    BY <1>1, <1>2, Accepted
  <1>4. u \in Seq(Nat)
    BY <1>3
  <1>5. v \in Seq(Nat)
    BY <1>3
  <1>6. Full(b) = u \o v /\ TextLen = Len(u)
    BY <1>1, <1>2 DEF Full, TextLen
  <1>7. /\ u \o v \in Seq(Nat) /\ Len(u \o v) = Len(u) + Len(v)
        /\ \A j \in 1 .. Len(v) : (u \o v)[Len(u) + j] = v[j]
    BY <1>4, <1>5, Concatenated
  <1>8. \A l \in Nat : \A j \in 0 .. Len(u) - 1 : RowOf(u \o v, l, j) = RowOf(u, l, j)
    BY <1>4, <1>5, RowExtends
  <1> QED BY <1>1, <1>2, <1>6, <1>7, <1>8

\* Where its tokens lie among the packed ones.
LEMMA Position ==
  ASSUME NEW items \in Seq(Asked), Accepts(items)
  PROVE  /\ Off(items, Len(items)) \in 1 .. MaxTokens
         /\ \A b \in 1 .. Len(items) : \A j \in 1 .. Len(items[b].tokens) :
               Off(items, b - 1) + j \in 1 .. Off(items, Len(items))
         /\ \A b, c \in 1 .. Len(items) :
               \A i \in 1 .. Len(items[b].tokens) : \A j \in 1 .. Len(items[c].tokens) :
                  Off(items, b - 1) + i = Off(items, c - 1) + j => b = c /\ i = j
         /\ \A t \in 1 .. Off(items, Len(items)) : \E b \in 1 .. Len(items) :
               \E j \in 1 .. Len(items[b].tokens) : t = Off(items, b - 1) + j
  <1> DEFINE n == Len(items)
             off == [b \in 0 .. n |-> Off(items, b)]
             len == [b \in 1 .. n |-> Len(items[b].tokens)]
  <1>1. /\ Off(items, 0) = 0
        /\ \A b \in 0 .. n : Off(items, b) \in Nat
        /\ \A b \in 1 .. n : Off(items, b) = Off(items, b - 1) + Len(items[b].tokens)
    <2>1. 0 \in Nat
      OBVIOUS
    <2> QED BY <2>1, Packed
  <1>2. /\ n \in Nat \ {0} /\ Off(items, n) <= MaxTokens /\ MaxTokens \in Nat
        /\ \A b \in 1 .. n : Len(items[b].tokens) \in 1 .. MaxSuffix
    BY Accepted, Constants
  <1>3. \A b \in 1 .. n : len[b] \in Nat \ {0} /\ len[b] = Len(items[b].tokens)
    BY <1>2, Constants
  <1>4. off[0] = 0 /\ \A b \in 0 .. n : off[b] \in Nat /\ off[b] = Off(items, b)
    BY <1>1, <1>2
  <1>5. \A b \in 1 .. n : off[b] = off[b - 1] + len[b] /\ off[b - 1] = Off(items, b - 1)
    <2>1. \A b \in 1 .. n : b \in 0 .. n /\ b - 1 \in 0 .. n
      BY <1>2
    <2> QED BY <1>1, <1>3, <1>4, <2>1
  <1> HIDE DEF off, len, n
  <1>6. \A b, c \in 0 .. n : b <= c => off[b] <= off[c]
    <2>1. n \in Nat
      BY <1>2
    <2>2. \A b \in 0 .. n : off[b] \in Nat
      BY <1>4
    <2>3. \A b \in 1 .. n : len[b] \in Nat /\ off[b] = off[b - 1] + len[b]
      BY <1>3, <1>5
    <2> QED BY ONLY <2>1, <2>2, <2>3, Growing
  <1>7. /\ \A b \in 1 .. n : b \in 0 .. n /\ b - 1 \in 0 .. n /\ 1 <= b /\ b <= n
        /\ 0 \in 0 .. n /\ n \in 0 .. n /\ 1 \in 1 .. n
    BY <1>2
  <1>8. ASSUME NEW b \in 1 .. n, NEW j \in 1 .. len[b]
        PROVE  off[b - 1] + j \in 1 .. off[n] /\ off[b - 1] < off[b - 1] + j /\ off[b - 1] + j <= off[b]
    <2>1. off[b] <= off[n] /\ off[b] \in Nat /\ off[b - 1] \in Nat /\ off[n] \in Nat /\ len[b] \in Nat
      BY <1>3, <1>4, <1>6, <1>7
    <2>2. off[b] = off[b - 1] + len[b]
      BY <1>5
    <2>3. \A x, y, z, w \in Nat : x = y + z /\ x <= w =>
             \A i \in 1 .. z : y + i \in 1 .. w /\ y < y + i /\ y + i <= x
      OBVIOUS
    <2> QED BY <2>1, <2>2, <2>3
  <1>9. ASSUME NEW b \in 1 .. n, NEW c \in 1 .. n, NEW i \in 1 .. len[b], NEW j \in 1 .. len[c],
               off[b - 1] + i = off[c - 1] + j
        PROVE  b = c /\ i = j
    <2>1. ASSUME NEW x \in 1 .. n, NEW y \in 1 .. n, NEW e \in 1 .. len[x], NEW f \in 1 .. len[y],
                 off[x - 1] + e = off[y - 1] + f
          PROVE  ~(x < y)
      <3>1. SUFFICES ASSUME x < y PROVE FALSE
        OBVIOUS
      <3>2. x <= y - 1
        BY <1>2, <3>1
      <3>3. off[x] <= off[y - 1]
        BY <1>6, <1>7, <3>2
      <3>4. off[x - 1] + e <= off[x] /\ off[y - 1] < off[y - 1] + f
        BY <1>8
      <3>5. /\ off[x] \in Nat /\ off[y - 1] \in Nat /\ off[x - 1] + e \in Nat
            /\ off[y - 1] + f \in Nat
        <4>1. off[x] \in Nat /\ off[y - 1] \in Nat /\ off[n] \in Nat
          BY <1>4, <1>7
        <4>2. off[x - 1] + e \in 1 .. off[n] /\ off[y - 1] + f \in 1 .. off[n]
          BY <1>8
        <4>3. \A q \in Nat : \A z \in 1 .. q : z \in Nat
          OBVIOUS
        <4> QED BY <4>1, <4>2, <4>3
      <3>6. \A p, q, r, s \in Nat : p <= r /\ r <= q /\ q < s => p # s
        OBVIOUS
      <3> QED BY <2>1, <3>3, <3>4, <3>5, <3>6
    <2>2. ~(b < c) /\ ~(c < b)
      BY <1>9, <2>1
    <2>3. b = c
      BY <1>2, <2>2
    <2>4. off[b - 1] \in Nat /\ i \in Int /\ j \in Int
      BY <1>3, <1>4, <1>7
    <2> QED BY <1>9, <2>3, <2>4
  <1>10. ASSUME NEW t \in 1 .. off[n]
         PROVE  \E b \in 1 .. n : \E j \in 1 .. len[b] : t = off[b - 1] + j
    <2>1. n \in Nat
      BY <1>2
    <2>2. off[0] = 0
      BY <1>4
    <2>3. \A b \in 0 .. n : off[b] \in Nat
      BY <1>4
    <2>4. PICK b \in 1 .. n : off[b - 1] < t /\ t <= off[b]
      BY ONLY <2>1, <2>2, <2>3, PartOf
    <2>5. off[b - 1] \in Nat /\ len[b] \in Nat /\ off[b] = off[b - 1] + len[b] /\ t \in Int
      BY <1>3, <1>4, <1>5, <1>7
    <2>6. t - off[b - 1] \in 1 .. len[b] /\ t = off[b - 1] + (t - off[b - 1])
      BY <2>4, <2>5
    <2> QED BY <2>6
  <1>11. off[n] \in 1 .. MaxTokens
    <2>1. off[1] <= off[n] /\ off[1] = off[0] + len[1] /\ len[1] \in Nat \ {0} /\ off[n] \in Nat
      <3>1. 1 \in 1 .. n /\ 1 \in 0 .. n /\ 1 - 1 = 0 /\ 1 <= n
        BY <1>2
      <3> QED BY <1>3, <1>4, <1>5, <1>6, <1>7, <3>1
    <2>2. off[n] <= MaxTokens
      BY <1>2, <1>4, <1>7
    <2> QED BY <1>2, <1>4, <2>1, <2>2
  <1>12. off[n] = Off(items, n)
    BY <1>4, <1>7
  <1>13. \A b \in 1 .. n : off[b - 1] = Off(items, b - 1) /\ len[b] = Len(items[b].tokens)
    BY <1>3, <1>5
  <1>14. ASSUME NEW b \in 1 .. n, NEW j \in 1 .. Len(items[b].tokens)
         PROVE  Off(items, b - 1) + j \in 1 .. Off(items, n)
    BY <1>8, <1>12, <1>13
  <1>15. ASSUME NEW b \in 1 .. n, NEW c \in 1 .. n, NEW i \in 1 .. Len(items[b].tokens),
                NEW j \in 1 .. Len(items[c].tokens), Off(items, b - 1) + i = Off(items, c - 1) + j
         PROVE  b = c /\ i = j
    <2>1. i \in 1 .. len[b] /\ j \in 1 .. len[c] /\ off[b - 1] + i = off[c - 1] + j
      BY <1>13, <1>15
    <2> QED BY <1>9, <2>1
  <1>16. ASSUME NEW t \in 1 .. Off(items, n)
         PROVE  \E b \in 1 .. n : \E j \in 1 .. Len(items[b].tokens) : t = Off(items, b - 1) + j
    <2>1. t \in 1 .. off[n]
      BY <1>12
    <2>2. PICK b \in 1 .. n : \E j \in 1 .. len[b] : t = off[b - 1] + j
      BY <1>10, <2>1
    <2> QED BY <1>13, <2>2
  <1>17. Off(items, n) \in 1 .. MaxTokens
    BY <1>11, <1>12
  <1> QED BY <1>14, <1>15, <1>16, <1>17 DEF n

-----------------------------------------------------------------------------
(* The device keeps the invariant.                                         *)

\* K and V of the prefix stay as they are behind its pass.
LEMMA PrefixStays ==
  Inv /\ Passing /\ Turn > PassLength /\ Done' = Turn /\ UNCHANGED hostVars /\ pk' = pk
    => PrefixMem'
  <1> SUFFICES ASSUME Inv, Passing, Turn > PassLength, Done' = Turn, UNCHANGED hostVars, pk' = pk
               PROVE  PrefixMem'
    OBVIOUS
  <1>0. /\ Layers \in Nat /\ Done \in Int /\ PassLength = 2 * Layers + 1
        /\ prefix' = prefix /\ call' = call
    BY Lengths DEF Inv, PassLength, hostVars
  <1>1. Done' \in Int /\ Done' > 2 * Layers + 1 /\ Done >= 2 * Layers + 1
    BY <1>0 DEF Turn
  <1>2. ASSUME NEW l \in 0 .. Layers - 1
        PROVE  Done' \notin {2 * l + 1, 2 * l + 2} /\ KvIs(l)'
    <2>1. l \in Int /\ 2 * l + 2 < 2 * Layers + 1
      BY <1>0
    <2>2. Done' # 2 * l + 1 /\ Done' # 2 * l + 2 /\ Done >= 2 * l + 2
      BY <1>0, <1>1, <2>1
    <2>3. KvIs(l)
      BY <2>2 DEF Inv, PrefixMem
    <2>4. KvIs(l)'
      BY <1>0, <2>3 DEF KvIs, TextLen
    <2> QED BY <2>2, <2>4
  <1> QED BY <1>2 DEF PrefixMem

\* The first kernel of either pass puts the texts into the residual stream.
LEMMA EmbedStep == Inv /\ Embed => Inv'
  <1> SUFFICES ASSUME Inv, Embed PROVE Inv'
    OBVIOUS
  <1> DEFINE k == Head(stream)
  <1>1. /\ stream # <<>> /\ k.kind = "embed" /\ stream' = Tail(stream) /\ UNCHANGED hostVars
        /\ pk' = pk /\ sk' = sk /\ last' = last /\ logits' = logits
    BY DEF Embed, Runs
  <1>2. /\ stream' \in Seq(Launchable) /\ Done' = Turn /\ HostInv' /\ StreamInv'
    BY <1>1, Popped
  <1>3. hidden' = [t \in 1 .. MaxTokens |->
          IF t <= k.n THEN IF k.host = Freed THEN Junk ELSE <<k.host[t]>> ELSE hidden[t]]
    BY DeviceSteps
  <1>4. prefix' = prefix /\ inUse' = inUse /\ call' = call /\ batch' = batch
    BY <1>1 DEF hostVars
  <1>5. TypeInv'
    <2>1. TypeInv
      BY DEF Inv
    <2>2. DOMAIN hidden' = 1 .. MaxTokens
      BY <1>3
    <2> QED BY <1>1, <1>2, <1>4, <2>1, <2>2 DEF TypeInv
  <1>6. /\ PassLength \in Nat /\ Done \in Int /\ Layers \in Nat \ {0} /\ PassLength = 2 * Layers + 1
        /\ prefix.text \in Seq(Nat) /\ TextLen \in Nat /\ TextLen' = TextLen
        /\ Turn \in Int /\ PackedTurn = Turn - PassLength /\ MaxTokens \in Nat
    BY <1>4, Lengths, Constants DEF Inv, PassLength, Turn, PackedTurn, TextLen
  <1> HIDE DEF k
  <1>7. CASE call = "failed"
    <2>1. PrefixMem' /\ PackedMem'
      BY <1>4, <1>7, MemoryAfter DEF Passing
    <2> QED BY <1>2, <1>5, <2>1 DEF Inv
  <1>8. CASE call # "failed"
    <2>0. /\ Passing
          /\ \/ Turn < 1 /\ IsAny(k)
             \/ Turn \in 1 .. PassLength /\ IsPrefill(k, prefix.text, Turn)
             \/ /\ call = "deciding" /\ PackedTurn \in 1 .. PackedLength
                /\ IsPacked(k, batch, TextLen, PackedTurn)
      BY <1>1, <1>8, FirstKernel DEF k
    <2>1. CASE Turn < 1
      <3>1. PrefixMem' /\ PackedMem'
        BY <1>2, <1>6, <2>1, MemoryAfter
      <3> QED BY <1>2, <1>5, <3>1 DEF Inv
    <2>2. CASE Turn \in 1 .. PassLength /\ IsPrefill(k, prefix.text, Turn)
      <3>1. Turn = 1 /\ k = Kernel("embed", 0, "state", prefix.text, Len(prefix.text), 0)
        BY <1>1, <2>2, PrefillCases DEF Kernel, k
      <3>2. /\ k.host = prefix.text /\ k.n = TextLen /\ prefix.text # Freed
            /\ TextLen <= MaxTokens
        <4>1. k.host = prefix.text /\ k.n = TextLen
          BY <3>1 DEF Kernel, TextLen
        <4>2. prefix.text # <<>>
          BY <2>0 DEF Passing
        <4> QED BY <4>1, <4>2 DEF Freed, Inv, HostInv, PrefillFits, TextLen
      <3>3. HiddenIs(0)'
        <4>1. ASSUME NEW t \in 1 .. TextLen
              PROVE  hidden'[t] = RowOf(prefix.text, 0, t - 1).ctx
          <5>1. hidden'[t] = <<prefix.text[t]>>
            BY <1>3, <1>6, <3>2
          <5>2. (t - 1) + 1 = t
            BY <1>6
          <5> QED BY <5>1, <5>2 DEF RowOf
        <4> QED BY <1>4, <1>6, <4>1 DEF HiddenIs
      <3>4. \A l \in 0 .. Layers - 1 : /\ Done' \in {2 * l + 1, 2 * l + 2} => l = 0
                                       /\ ~(Done' >= 2 * l + 2)
        BY <1>2, <1>6, <3>1
      <3>5. PrefixMem'
        BY <3>3, <3>4 DEF PrefixMem
      <3>6. PackedMem'
        BY <1>2, <1>6, <2>2, MemoryAfter
      <3> QED BY <1>2, <1>5, <3>5, <3>6 DEF Inv
    <2>3. CASE call = "deciding" /\ PackedTurn \in 1 .. PackedLength
               /\ IsPacked(k, batch, TextLen, PackedTurn)
      <3>1. PICK view : /\ view = Pack(batch, TextLen) /\ PackedTurn = 1
                        /\ k = Kernel("embed", 0, "pack", TokenIds(batch), Len(view), TextLen)
        <4>1. k.kind = "embed"
          BY <1>1 DEF k
        <4> QED BY <2>3, <4>1, PackedCases DEF Kernel
      <3>2. batch \in Seq(Asked) /\ Accepts(batch)
        BY <2>3 DEF Inv, TypeInv, HostInv
      <3>3. PackedIs(0)'
        <4>1. ASSUME NEW b \in 1 .. Len(batch), NEW j \in 1 .. Len(batch[b].tokens)
              PROVE  hidden'[Off(batch, b - 1) + j] = RowOf(Full(b), 0, TextLen + j - 1).ctx
          <5>1. /\ TokenIds(batch) \in Seq(Nat) /\ Len(TokenIds(batch)) = Off(batch, Len(batch))
                /\ Len(view) = Off(batch, Len(batch))
                /\ TokenIds(batch)[Off(batch, b - 1) + j] = batch[b].tokens[j]
            <6>1. TextLen \in Nat
              BY <1>6
            <6>2. batch \in Seq(Asked)
              BY <3>2
            <6>3. view = Pack(batch, TextLen)
              BY <3>1
            <6> QED BY ONLY <6>1, <6>2, <6>3, b \in 1 .. Len(batch),
                            j \in 1 .. Len(batch[b].tokens), Packed
          <5>2. /\ Off(batch, b - 1) + j \in 1 .. Off(batch, Len(batch))
                /\ Off(batch, Len(batch)) \in 1 .. MaxTokens
            BY <1>6, <3>2, Position
          <5>3. k.host = TokenIds(batch) /\ k.n = Len(view) /\ k.host # Freed
            <6>1. k.host = TokenIds(batch) /\ k.n = Len(view)
              BY <3>1 DEF Kernel
            <6>2. Len(TokenIds(batch)) # 0
              BY <5>1, <5>2
            <6> QED BY <6>1, <6>2 DEF Freed
          <5>4. hidden'[Off(batch, b - 1) + j] = <<batch[b].tokens[j]>>
            <6>1. PICK t : t = Off(batch, b - 1) + j
              OBVIOUS
            <6>2. t \in 1 .. MaxTokens /\ t <= k.n
              BY <1>6, <5>1, <5>2, <5>3, <6>1
            <6> QED BY <1>3, <5>1, <5>3, <6>1, <6>2
          <5>5. RowOf(Full(b), 0, TextLen + j - 1).ctx = <<batch[b].tokens[j]>>
            <6>1. Full(b)[TextLen + j] = batch[b].tokens[j]
              BY <1>6, <3>2, FullIs
            <6>2. (TextLen + j - 1) + 1 = TextLen + j
              BY <1>6
            <6> QED BY <6>1, <6>2 DEF RowOf
          <5> QED BY <5>4, <5>5
        <4> QED BY <1>4, <1>6, <4>1 DEF PackedIs, Full
      <3>4. Done' - PassLength = 1
        BY <1>2, <1>6, <3>1
      <3>5. /\ \A l \in 0 .. Layers : Done' - PassLength = 2 * l + 1 => l = 0
            /\ \A l \in 0 .. Layers - 1 : Done' - PassLength # 2 * l + 2
            /\ Done' - PassLength # 2 * Layers + 2
            /\ ~(Done' - PassLength >= 2 * Layers + 3)
        BY <1>6, <3>4
      <3>6. PackedMem'
        <4>1. PassLength' = PassLength
          BY DEF PassLength
        <4> QED BY <3>3, <3>5, <4>1 DEF PackedMem
      <3>7. PrefixMem'
        <4>1. Turn > PassLength
          BY <1>6, <2>3, <3>1
        <4> QED BY <1>1, <1>2, <2>0, <4>1, PrefixStays
      <3> QED BY <1>2, <1>5, <3>6, <3>7 DEF Inv
    <2> QED BY <2>0, <2>1, <2>2, <2>3
  <1> QED BY <1>7, <1>8

\* A layer's K and V go behind each other, into rows no other layer has.
LEMMA AppendStep == Inv /\ AppendRows => Inv'
  <1> SUFFICES ASSUME Inv, AppendRows PROVE Inv'
    OBVIOUS
  <1> DEFINE k == Head(stream)
             at == [t \in 1 .. k.n |-> KvRow(k.layer, t - 1)]
             rows == [t \in 1 .. k.n |-> [ctx |-> hidden[t], pos |-> t - 1]]
  <1>1. /\ stream # <<>> /\ k.kind = "append" /\ stream' = Tail(stream) /\ UNCHANGED hostVars
        /\ hidden' = hidden /\ sk' = sk /\ last' = last /\ logits' = logits
    BY DEF AppendRows, Runs
  <1>2. stream' \in Seq(Launchable) /\ Done' = Turn /\ HostInv' /\ StreamInv'
    BY <1>1, Popped
  <1>3. pk' = Written(pk, at, rows)
    BY DEF AppendRows, op
  <1>4. prefix' = prefix /\ inUse' = inUse /\ call' = call /\ batch' = batch
    BY <1>1 DEF hostVars
  <1>5. TypeInv'
    <2>1. TypeInv
      BY DEF Inv
    <2>2. DOMAIN pk' = DOMAIN pk
      BY <1>3, WrittenRows
    <2> QED BY <1>1, <1>2, <1>4, <2>1, <2>2 DEF TypeInv
  <1>6. /\ PassLength \in Nat /\ Done \in Int /\ Layers \in Nat \ {0} /\ PassLength = 2 * Layers + 1
        /\ prefix.text \in Seq(Nat) /\ TextLen \in Nat /\ TextLen' = TextLen
        /\ Turn \in Int /\ Turn = Done + 1 /\ DOMAIN pk = PrefixRows
    BY <1>4, Lengths, Constants DEF Inv, TypeInv, PassLength, Turn, TextLen
  <1> HIDE DEF k, at, rows
  <1>7. CASE call = "failed"
    <2>1. PrefixMem' /\ PackedMem'
      BY <1>4, <1>7, MemoryAfter DEF Passing
    <2> QED BY <1>2, <1>5, <2>1 DEF Inv
  <1>8. CASE call # "failed"
    <2>0. /\ Passing
          /\ \/ Turn < 1 /\ IsAny(k)
             \/ Turn \in 1 .. PassLength /\ IsPrefill(k, prefix.text, Turn)
             \/ /\ call = "deciding" /\ PackedTurn \in 1 .. PackedLength
                /\ IsPacked(k, batch, TextLen, PackedTurn)
      BY <1>1, <1>8, FirstKernel DEF k
    <2>1. CASE Turn < 1
      <3>1. PrefixMem' /\ PackedMem'
        BY <1>2, <1>6, <2>1, MemoryAfter
      <3> QED BY <1>2, <1>5, <3>1 DEF Inv
    <2>2. CASE Turn \in 1 .. PassLength /\ IsPrefill(k, prefix.text, Turn)
      <3>1. PICK l \in 0 .. Layers - 1 :
               Turn = 2 * l + 2 /\ k = Kernel("append", l, "none", Freed, Len(prefix.text), 0)
        <4>1. k.kind = "append"
          BY <1>1 DEF k
        <4> QED BY <2>2, <4>1, PrefillCases DEF Kernel
      <3>2. k.n = TextLen /\ k.layer = l
        BY <3>1 DEF Kernel, TextLen
      <3>3. /\ DOMAIN at = 1 .. TextLen
            /\ \A t \in 1 .. TextLen : /\ at[t] = KvRow(l, t - 1)
                                       /\ rows[t] = [ctx |-> hidden[t], pos |-> t - 1]
        BY <3>2 DEF at, rows
      <3>4. TextLen <= PrefixCapacity /\ PrefixCapacity \in Nat
        <4>1. PrefillFits(prefix.text)
          BY <2>0 DEF Inv, HostInv, Passing
        <4> QED BY <4>1, Constants DEF PrefillFits, TextLen
      <3>5. \A t \in 1 .. TextLen : t - 1 \in 0 .. PrefixCapacity - 1 /\ t \in Int
        BY <1>6, <3>4
      <3>6. HiddenIs(l)
        <4>1. Done = 2 * l + 1
          BY <1>6, <3>1
        <4> QED BY <2>0, <4>1 DEF Inv, PrefixMem
      <3>7. ASSUME NEW t \in 1 .. TextLen PROVE pk'[KvRow(l, t - 1)] = RowOf(prefix.text, l, t - 1)
        <4>1. at[t] \in DOMAIN pk /\ t \in DOMAIN at
          <5>1. KvRow(l, t - 1) \in PrefixRows
            BY <3>5, PrefixRowsApart
          <5> QED BY <1>6, <3>3, <5>1
        <4>2. ASSUME NEW u \in DOMAIN at, at[u] = at[t] PROVE u = t
          <5>1. u \in 1 .. TextLen
            BY <3>3
          <5>2. KvRow(l, u - 1) = KvRow(l, t - 1)
            BY <3>3, <4>2, <5>1
          <5>3. u - 1 = t - 1
            BY <3>5, <5>1, <5>2, PrefixRowsApart
          <5> QED BY <3>5, <5>1, <5>3
        <4>3. pk'[at[t]] = rows[t]
          BY <1>3, <4>1, <4>2, WrittenRows
        <4>4. hidden[t] = RowOf(prefix.text, l, t - 1).ctx
          BY <3>6 DEF HiddenIs
        <4>5. [ctx |-> RowOf(prefix.text, l, t - 1).ctx, pos |-> t - 1] = RowOf(prefix.text, l, t - 1)
          BY DEF RowOf
        <4> QED BY <3>3, <4>3, <4>4, <4>5
      <3>8. ASSUME NEW i \in 0 .. Layers - 1, i < l, NEW j \in 1 .. TextLen
            PROVE  pk'[KvRow(i, j - 1)] = RowOf(prefix.text, i, j - 1)
        <4>1. KvRow(i, j - 1) \in DOMAIN pk
          BY <1>6, <3>5, PrefixRowsApart
        <4>2. ASSUME NEW u \in DOMAIN at PROVE at[u] # KvRow(i, j - 1)
          <5>1. u \in 1 .. TextLen /\ at[u] = KvRow(l, u - 1)
            BY <3>3
          <5>2. i # l
            BY <3>8
          <5> QED BY <3>5, <5>1, <5>2, PrefixRowsApart
        <4>3. pk'[KvRow(i, j - 1)] = pk[KvRow(i, j - 1)]
          BY <1>3, <4>1, <4>2, WrittenRows
        <4>4. Done >= 2 * i + 2
          BY <1>6, <3>1, <3>8
        <4>5. KvIs(i)
          BY <2>0, <4>4 DEF Inv, PrefixMem
        <4> QED BY <4>3, <4>5 DEF KvIs
      <3>9. ASSUME NEW i \in 0 .. Layers - 1
            PROVE  /\ Done' \in {2 * i + 1, 2 * i + 2} => HiddenIs(i)'
                   /\ Done' >= 2 * i + 2 => KvIs(i)'
        <4>1. Done' = 2 * l + 2 /\ l \in Int /\ i \in Int
          BY <1>2, <3>1
        <4>2. Done' \in {2 * i + 1, 2 * i + 2} => i = l
          BY <4>1
        <4>3. Done' >= 2 * i + 2 => i = l \/ i < l
          BY <4>1
        <4>4. HiddenIs(l)'
          BY <1>1, <1>4, <1>6, <3>6 DEF HiddenIs
        <4>5. KvIs(l)'
          BY <1>4, <1>6, <3>7 DEF KvIs
        <4>6. i < l => KvIs(i)'
          BY <1>4, <1>6, <3>8 DEF KvIs
        <4> QED BY <4>2, <4>3, <4>4, <4>5, <4>6
      <3>10. PrefixMem'
        BY <3>9 DEF PrefixMem
      <3>11. PackedMem'
        BY <1>2, <1>6, <2>2, MemoryAfter
      <3> QED BY <1>2, <1>5, <3>10, <3>11 DEF Inv
    <2>3. CASE PackedTurn \in 1 .. PackedLength /\ IsPacked(k, batch, TextLen, PackedTurn)
      <3>1. k.kind # "append"
        BY <2>3, PackedCases DEF Kernel
      <3> QED BY <1>1, <3>1 DEF k
    <2> QED BY <2>0, <2>1, <2>2, <2>3
  <1> QED BY <1>7, <1>8

\* A layer of the prefill extends what each row has seen.
LEMMA AttendStep == Inv /\ Attend => Inv'
  <1> SUFFICES ASSUME Inv, Attend PROVE Inv'
    OBVIOUS
  <1> DEFINE k == Head(stream)
             seen(t) == [j \in 1 .. t |-> pk[KvRow(k.layer, j - 1)]]
  <1>1. /\ stream # <<>> /\ k.kind = "attend" /\ stream' = Tail(stream) /\ UNCHANGED hostVars
        /\ pk' = pk /\ sk' = sk /\ last' = last /\ logits' = logits
    BY DEF Attend, Runs
  <1>2. stream' \in Seq(Launchable) /\ Done' = Turn /\ HostInv' /\ StreamInv'
    BY <1>1, Popped
  <1>3. hidden' = [t \in 1 .. MaxTokens |->
          IF t <= k.n THEN Attention(k.layer, seen(t), hidden[t]) ELSE hidden[t]]
    BY DeviceSteps
  <1>4. prefix' = prefix /\ inUse' = inUse /\ call' = call /\ batch' = batch
    BY <1>1 DEF hostVars
  <1>5. TypeInv'
    <2>1. TypeInv
      BY DEF Inv
    <2>2. DOMAIN hidden' = 1 .. MaxTokens
      <3> HIDE DEF seen
      <3> QED BY <1>3
    <2> QED BY <1>1, <1>2, <1>4, <2>1, <2>2 DEF TypeInv
  <1>6. /\ PassLength \in Nat /\ Done \in Int /\ Layers \in Nat \ {0} /\ PassLength = 2 * Layers + 1
        /\ prefix.text \in Seq(Nat) /\ TextLen \in Nat /\ TextLen' = TextLen
        /\ Turn \in Int /\ Turn = Done + 1 /\ MaxTokens \in Nat
    BY <1>4, Lengths, Constants DEF Inv, PassLength, Turn, TextLen
  <1>7. \A t \in Nat : DOMAIN seen(t) = 1 .. t /\ Len(seen(t)) = t
        /\ \A j \in 1 .. t : seen(t)[j] = pk[KvRow(k.layer, j - 1)]
    OBVIOUS
  <1> HIDE DEF k, seen
  <1>8. CASE call = "failed"
    <2>1. PrefixMem' /\ PackedMem'
      BY <1>4, <1>8, MemoryAfter DEF Passing
    <2> QED BY <1>2, <1>5, <2>1 DEF Inv
  <1>9. CASE call # "failed"
    <2>0. /\ Passing
          /\ \/ Turn < 1 /\ IsAny(k)
             \/ Turn \in 1 .. PassLength /\ IsPrefill(k, prefix.text, Turn)
             \/ /\ call = "deciding" /\ PackedTurn \in 1 .. PackedLength
                /\ IsPacked(k, batch, TextLen, PackedTurn)
      BY <1>1, <1>9, FirstKernel DEF k
    <2>1. CASE Turn < 1
      <3>1. PrefixMem' /\ PackedMem'
        BY <1>2, <1>6, <2>1, MemoryAfter
      <3> QED BY <1>2, <1>5, <3>1 DEF Inv
    <2>2. CASE Turn \in 1 .. PassLength /\ IsPrefill(k, prefix.text, Turn)
      <3>1. PICK l \in 0 .. Layers - 1 :
               Turn = 2 * l + 3 /\ k = Kernel("attend", l, "none", Freed, Len(prefix.text), 0)
        <4>1. k.kind = "attend"
          BY <1>1 DEF k
        <4> QED BY <2>2, <4>1, PrefillCases DEF Kernel
      <3>2. k.n = TextLen /\ k.layer = l /\ TextLen <= MaxTokens /\ l \in Nat
        <4>1. PrefillFits(prefix.text)
          BY <2>0 DEF Inv, HostInv, Passing
        <4> QED BY <3>1, <4>1 DEF Kernel, PrefillFits, TextLen
      <3>3. Done = 2 * l + 2 /\ HiddenIs(l) /\ KvIs(l)
        <4>1. Done = 2 * l + 2 /\ Done >= 2 * l + 2
          BY <1>6, <3>1
        <4> QED BY <2>0, <4>1 DEF Inv, PrefixMem
      <3>4. ASSUME NEW t \in 1 .. TextLen
            PROVE  hidden'[t] = RowOf(prefix.text, l + 1, t - 1).ctx
        <4>1. t \in Nat /\ t \in 1 .. MaxTokens /\ t <= k.n /\ t \in 1 .. Len(prefix.text)
          BY <1>6, <3>2 DEF TextLen
        <4>2. hidden'[t] = Attention(l, seen(t), hidden[t])
          BY <1>3, <3>2, <4>1
        <4>3. hidden[t] = RowOf(prefix.text, l, t - 1).ctx
          BY <3>3 DEF HiddenIs
        <4>4. \A j \in 1 .. t : seen(t)[j] = RowOf(prefix.text, l, j - 1)
          <5>1. ASSUME NEW j \in 1 .. t PROVE seen(t)[j] = RowOf(prefix.text, l, j - 1)
            <6>1. j \in 1 .. TextLen
              BY <1>6
            <6> QED BY <1>7, <3>2, <3>3, <4>1, <6>1 DEF KvIs
          <5> QED BY <5>1
        <4>5. PICK F : F = prefix.text
          OBVIOUS
        <4>6. PICK rows : rows = seen(t)
          OBVIOUS
        <4>7. PICK own : own = hidden[t]
          OBVIOUS
        <4>8. F \in Seq(Nat)
          BY <1>6, <4>5
        <4>9. t \in 1 .. Len(F) /\ l \in Nat
          BY <3>2, <4>1, <4>5
        <4>10. DOMAIN rows = 1 .. t /\ Len(rows) = t
          BY <1>7, <4>1, <4>6
        <4>11. AreRows(rows, F, l, t)
          BY <4>4, <4>5, <4>6, <4>10 DEF AreRows
        <4>12. own = rows[t].ctx
          BY <4>1, <4>3, <4>4, <4>6, <4>7
        <4>13. Attention(l, rows, own) = SubSeq(F, 1, t)
          <5>1. t \in 1 .. Len(F)
            BY <4>9
          <5>2. l \in Nat
            BY <4>9
          <5> QED BY ONLY <4>8, <5>1, <5>2, <4>11, <4>12, AttentionSees
        <4>14. RowOf(F, l + 1, t - 1).ctx = SubSeq(F, 1, t)
          <5>1. l + 1 # 0 /\ (t - 1) + 1 = t
            BY <3>2, <4>1
          <5> QED BY <5>1 DEF RowOf
        <4> QED BY <4>2, <4>5, <4>6, <4>7, <4>13, <4>14
      <3>5. HiddenIs(l + 1)'
        BY <1>4, <1>6, <3>4 DEF HiddenIs
      <3>6. ASSUME NEW i \in 0 .. Layers - 1
            PROVE  /\ Done' \in {2 * i + 1, 2 * i + 2} => HiddenIs(i)'
                   /\ Done' >= 2 * i + 2 => KvIs(i)'
        <4>1. Done' = 2 * l + 3 /\ l \in Int /\ i \in Int
          BY <1>2, <3>1
        <4>2. Done' \in {2 * i + 1, 2 * i + 2} => i = l + 1
          BY <4>1
        <4>3. Done' >= 2 * i + 2 => Done >= 2 * i + 2
          BY <3>3, <4>1
        <4>4. KvIs(i) => KvIs(i)'
          BY <1>1, <1>4, <1>6 DEF KvIs
        <4>5. Done >= 2 * i + 2 => KvIs(i)
          BY <2>0 DEF Inv, PrefixMem
        <4> QED BY <3>5, <4>2, <4>3, <4>4, <4>5
      <3>7. PrefixMem'
        BY <3>6 DEF PrefixMem
      <3>8. PackedMem'
        BY <1>2, <1>6, <2>2, MemoryAfter
      <3> QED BY <1>2, <1>5, <3>7, <3>8 DEF Inv
    <2>3. CASE PackedTurn \in 1 .. PackedLength /\ IsPacked(k, batch, TextLen, PackedTurn)
      <3>1. k.kind # "attend"
        BY <2>3, PackedCases DEF Kernel
      <3> QED BY <1>1, <3>1 DEF k
    <2> QED BY <2>0, <2>1, <2>2, <2>3
  <1> QED BY <1>8, <1>9

\* The kernels that only a packed pass has.
LEMMA InPackedPass ==
  Inv /\ stream # <<>> /\ call # "failed"
  /\ Head(stream).kind \in {"scatter", "segmented", "gather", "head"}
    => /\ Passing /\ call = "deciding" /\ PackedTurn \in 1 .. PackedLength /\ Turn > PassLength
       /\ IsPacked(Head(stream), batch, TextLen, PackedTurn)
       /\ batch \in Seq(Asked) /\ Accepts(batch) /\ Distinct(batch)
  <1> SUFFICES ASSUME Inv, stream # <<>>, call # "failed",
                      Head(stream).kind \in {"scatter", "segmented", "gather", "head"}
               PROVE  /\ Passing /\ call = "deciding" /\ PackedTurn \in 1 .. PackedLength /\ Turn > PassLength
                      /\ IsPacked(Head(stream), batch, TextLen, PackedTurn)
                      /\ batch \in Seq(Asked) /\ Accepts(batch) /\ Distinct(batch)
    OBVIOUS
  <1>1. /\ Passing
        /\ \/ Turn < 1 /\ IsAny(Head(stream))
           \/ Turn \in 1 .. PassLength /\ IsPrefill(Head(stream), prefix.text, Turn)
           \/ /\ call = "deciding" /\ PackedTurn \in 1 .. PackedLength
              /\ IsPacked(Head(stream), batch, TextLen, PackedTurn)
    BY FirstKernel
  <1>2. ~IsAny(Head(stream))
    BY DEF IsAny
  <1>3. ~(Turn \in 1 .. PassLength /\ IsPrefill(Head(stream), prefix.text, Turn))
    <2>1. PICK k : k = Head(stream)
      OBVIOUS
    <2>2. k.kind \in {"scatter", "segmented", "gather", "head"}
      BY <2>1
    <2>3. ~(Turn \in 1 .. PassLength /\ IsPrefill(k, prefix.text, Turn))
      BY <2>2, PrefillCases DEF Kernel
    <2> QED BY <2>1, <2>3
  <1>4. /\ call = "deciding" /\ PackedTurn \in 1 .. PackedLength
        /\ IsPacked(Head(stream), batch, TextLen, PackedTurn)
    BY <1>1, <1>2, <1>3
  <1>5. batch \in Seq(Asked) /\ Accepts(batch) /\ Distinct(batch)
    BY <1>4 DEF Inv, TypeInv, HostInv
  <1>6. Turn > PassLength
    <2>1. Turn \in Int /\ PassLength \in Nat /\ PackedTurn = Turn - PassLength
      BY Lengths DEF Inv, Turn, PackedTurn
    <2> QED BY <1>4, <2>1
  <1> QED BY <1>1, <1>4, <1>5, <1>6

\* What scatter and segmented attention read of the packed arrays.
LEMMA ViewAt ==
  ASSUME NEW items \in Seq(Asked), Accepts(items), NEW n \in Nat, NEW view, view = Pack(items, n)
  PROVE  /\ view # Freed /\ Len(view) = Off(items, Len(items)) /\ Len(view) \in 1 .. MaxTokens
         /\ \A b \in 1 .. Len(items) : \A j \in 1 .. Len(items[b].tokens) :
               /\ Off(items, b - 1) + j \in 1 .. Len(view)
               /\ view[Off(items, b - 1) + j] =
                     [branch |-> items[b].branch, local |-> j - 1, pos |-> n + j - 1]
         /\ \A t \in 1 .. Len(view) : \E b \in 1 .. Len(items) :
               \E j \in 1 .. Len(items[b].tokens) : t = Off(items, b - 1) + j
  <1>1. /\ view \in Seq(ViewRow) /\ Len(view) = Off(items, Len(items))
        /\ \A b \in 1 .. Len(items) : \A j \in 1 .. Len(items[b].tokens) :
              view[Off(items, b - 1) + j] =
                 [branch |-> items[b].branch, local |-> j - 1, pos |-> n + j - 1]
    BY Packed
  <1>2. /\ Off(items, Len(items)) \in 1 .. MaxTokens
        /\ \A b \in 1 .. Len(items) : \A j \in 1 .. Len(items[b].tokens) :
              Off(items, b - 1) + j \in 1 .. Off(items, Len(items))
        /\ \A t \in 1 .. Off(items, Len(items)) : \E b \in 1 .. Len(items) :
              \E j \in 1 .. Len(items[b].tokens) : t = Off(items, b - 1) + j
    BY Position
  <1>3. view # <<>>
    BY <1>1, <1>2
  <1> QED BY <1>1, <1>2, <1>3 DEF Freed

\* K and V of the suffixes go to rows of their branches: none is written twice,
\* because no two questions of a batch share a branch.
LEMMA ScatterStep == Inv /\ Scatter => Inv'
  <1> SUFFICES ASSUME Inv, Scatter PROVE Inv'
    OBVIOUS
  <1> DEFINE k == Head(stream)
             at == [t \in 1 .. k.n |-> SuffixRow(k.host[t].branch, k.layer, k.host[t].local)]
             rows == [t \in 1 .. k.n |-> [ctx |-> hidden[t], pos |-> k.host[t].pos]]
  <1>1. /\ stream # <<>> /\ k.kind = "scatter" /\ stream' = Tail(stream) /\ UNCHANGED hostVars
        /\ hidden' = hidden /\ last' = last /\ logits' = logits
    BY DEF Scatter, Runs
  <1>2. stream' \in Seq(Launchable) /\ Done' = Turn /\ HostInv' /\ StreamInv'
    BY <1>1, Popped
  <1>3. \/ k.host # Freed /\ sk' = Written(sk, at, rows) /\ pk' = pk
        \/ k.host = Freed /\ pk' = [r \in PrefixRows |-> JunkRow] /\ sk' = [r \in SuffixRows |-> JunkRow]
    BY DEF Scatter, op
  <1>4. prefix' = prefix /\ inUse' = inUse /\ call' = call /\ batch' = batch
    BY <1>1 DEF hostVars
  <1>5. TypeInv'
    <2>1. TypeInv
      BY DEF Inv
    <2>2. DOMAIN sk' = SuffixRows /\ DOMAIN pk' = PrefixRows
      <3> HIDE DEF at, rows, k
      <3> QED BY <1>3, <2>1, WrittenRows DEF TypeInv
    <2> QED BY <1>1, <1>2, <1>4, <2>1, <2>2 DEF TypeInv
  <1>6. /\ PassLength \in Nat /\ Done \in Int /\ Layers \in Nat \ {0} /\ PassLength = 2 * Layers + 1
        /\ prefix.text \in Seq(Nat) /\ TextLen \in Nat /\ TextLen' = TextLen
        /\ Turn \in Int /\ PackedTurn = Turn - PassLength /\ Turn = Done + 1
        /\ DOMAIN sk = SuffixRows
    BY <1>4, Lengths, Constants DEF Inv, TypeInv, PassLength, Turn, PackedTurn, TextLen
  <1> HIDE DEF k, at, rows
  <1>7. CASE call = "failed"
    <2>1. PrefixMem' /\ PackedMem'
      BY <1>4, <1>7, MemoryAfter DEF Passing
    <2> QED BY <1>2, <1>5, <2>1 DEF Inv
  <1>8. CASE call # "failed"
    <2>0. /\ Passing /\ call = "deciding" /\ PackedTurn \in 1 .. PackedLength /\ Turn > PassLength
          /\ IsPacked(k, batch, TextLen, PackedTurn)
          /\ batch \in Seq(Asked) /\ Accepts(batch) /\ Distinct(batch)
      BY <1>1, <1>8, InPackedPass DEF k
    <2>1. PICK view : /\ view = Pack(batch, TextLen)
                      /\ \E l \in 0 .. Layers - 1 : PackedTurn = 2 * l + 2
                            /\ k = Kernel("scatter", l, "pack", view, Len(view), TextLen)
      <3>1. k.kind = "scatter"
        BY <1>1 DEF k
      <3> QED BY <2>0, <3>1, PackedCases DEF Kernel
    <2>2. PICK l \in 0 .. Layers - 1 :
             PackedTurn = 2 * l + 2 /\ k = Kernel("scatter", l, "pack", view, Len(view), TextLen)
      BY <2>1
    <2>3. k.n = Len(view) /\ k.layer = l /\ k.host = view
      BY <2>2 DEF Kernel
    <2>4. /\ view # Freed /\ Len(view) = Off(batch, Len(batch)) /\ Len(view) \in 1 .. MaxTokens
          /\ \A b \in 1 .. Len(batch) : \A j \in 1 .. Len(batch[b].tokens) :
                /\ Off(batch, b - 1) + j \in 1 .. Len(view)
                /\ view[Off(batch, b - 1) + j] =
                      [branch |-> batch[b].branch, local |-> j - 1, pos |-> TextLen + j - 1]
          /\ \A t \in 1 .. Len(view) : \E b \in 1 .. Len(batch) :
                \E j \in 1 .. Len(batch[b].tokens) : t = Off(batch, b - 1) + j
      <3>1. batch \in Seq(Asked)
        BY <2>0
      <3>2. Accepts(batch)
        BY <2>0
      <3>3. TextLen \in Nat
        BY <1>6
      <3>4. view = Pack(batch, TextLen)
        BY <2>1
      <3> QED BY ONLY <3>1, <3>2, <3>3, <3>4, ViewAt, SMTT(20)
    <2>5. sk' = Written(sk, at, rows) /\ pk' = pk
      BY <1>3, <2>3, <2>4
    <2>6. PackedIs(l)
      <3>1. Done - PassLength = 2 * l + 1 /\ l \in 0 .. Layers
        BY <1>6, <2>2
      <3> QED BY <2>0, <3>1 DEF Inv, PackedMem
    <2>7. ASSUME NEW b \in 1 .. Len(batch), NEW j \in 1 .. Len(batch[b].tokens)
          PROVE  /\ Off(batch, b - 1) + j \in DOMAIN at
                 /\ at[Off(batch, b - 1) + j] = SuffixRow(batch[b].branch, l, j - 1)
                 /\ rows[Off(batch, b - 1) + j] =
                       [ctx |-> hidden[Off(batch, b - 1) + j], pos |-> TextLen + j - 1]
      <3>1. PICK t : t = Off(batch, b - 1) + j
        OBVIOUS
      <3>2. t \in 1 .. Len(view)
            /\ view[t] = [branch |-> batch[b].branch, local |-> j - 1, pos |-> TextLen + j - 1]
        BY <2>4, <3>1
      <3>3. /\ view[t].branch = batch[b].branch /\ view[t].local = j - 1
            /\ view[t].pos = TextLen + j - 1
        BY <3>2
      <3>4. t \in DOMAIN at /\ at[t] = SuffixRow(view[t].branch, l, view[t].local)
            /\ rows[t] = [ctx |-> hidden[t], pos |-> view[t].pos]
        BY <2>3, <3>2 DEF at, rows
      <3> QED BY <3>1, <3>3, <3>4
    <2>8. ASSUME NEW b \in 1 .. Len(batch), NEW j \in 1 .. Len(batch[b].tokens)
          PROVE  /\ batch[b].branch \in Branches /\ j - 1 \in 0 .. MaxSuffix - 1 /\ j \in Int
      BY <2>0, Accepted, Constants
    <2>9. ASSUME NEW b \in 1 .. Len(batch), NEW j \in 1 .. Len(batch[b].tokens)
          PROVE  sk'[SuffixRow(batch[b].branch, l, j - 1)] = RowOf(Full(b), l, TextLen + j - 1)
      <3>1. PICK t : t = Off(batch, b - 1) + j
        OBVIOUS
      <3>2. /\ t \in DOMAIN at /\ at[t] = SuffixRow(batch[b].branch, l, j - 1)
            /\ rows[t] = [ctx |-> hidden[t], pos |-> TextLen + j - 1]
        BY <2>7, <3>1
      <3>3. at[t] \in DOMAIN sk
        <4>1. SuffixRow(batch[b].branch, l, j - 1) \in SuffixRows
          BY <2>8, SuffixRowsApart
        <4> QED BY <1>6, <3>2, <4>1
      <3>4. ASSUME NEW u \in DOMAIN at, at[u] = at[t] PROVE u = t
        <4>1. u \in 1 .. Len(view)
          BY <2>3 DEF at
        <4>2. PICK c \in 1 .. Len(batch) : \E i \in 1 .. Len(batch[c].tokens) : u = Off(batch, c - 1) + i
          BY <2>4, <4>1
        <4>3. PICK i \in 1 .. Len(batch[c].tokens) : u = Off(batch, c - 1) + i
          BY <4>2
        <4>4. SuffixRow(batch[c].branch, l, i - 1) = SuffixRow(batch[b].branch, l, j - 1)
          BY <2>7, <3>2, <3>4, <4>3
        <4>5. batch[c].branch = batch[b].branch /\ i - 1 = j - 1
          BY <2>8, <4>4, SuffixRowsApart
        <4>6. c = b /\ i = j
          BY <2>0, <2>8, <4>5 DEF Distinct
        <4> QED BY <3>1, <4>3, <4>6
      <3>5. sk'[at[t]] = rows[t]
        BY <2>5, <3>2, <3>3, <3>4, WrittenRows
      <3>6. hidden[t] = RowOf(Full(b), l, TextLen + j - 1).ctx
        BY <2>6, <3>1 DEF PackedIs
      <3>7. [ctx |-> RowOf(Full(b), l, TextLen + j - 1).ctx, pos |-> TextLen + j - 1]
               = RowOf(Full(b), l, TextLen + j - 1)
        BY DEF RowOf
      <3> QED BY <3>2, <3>5, <3>6, <3>7
    <2>10. SuffixIs(l)' /\ PackedIs(l)'
      <3>1. SuffixIs(l)'
        BY <1>4, <1>6, <2>9 DEF SuffixIs, Full
      <3>2. PackedIs(l)'
        BY <1>1, <1>4, <1>6, <2>6 DEF PackedIs, Full
      <3> QED BY <3>1, <3>2
    <2>11. PackedMem'
      <3>1. PassLength' = PassLength /\ Done' - PassLength = 2 * l + 2 /\ l \in Int
        BY <1>2, <1>6, <2>2 DEF PassLength
      <3>2. /\ \A i \in 0 .. Layers : Done' - PassLength # 2 * i + 1
            /\ \A i \in 0 .. Layers - 1 : Done' - PassLength = 2 * i + 2 => i = l
            /\ Done' - PassLength # 2 * Layers + 2
            /\ ~(Done' - PassLength >= 2 * Layers + 3)
        BY <1>6, <3>1
      <3> QED BY <2>10, <3>1, <3>2 DEF PackedMem
    <2>12. PrefixMem'
      BY <1>1, <1>2, <2>0, <2>5, PrefixStays
    <2> QED BY <1>2, <1>5, <2>11, <2>12 DEF Inv
  <1> QED BY <1>7, <1>8

\* Each packed token attends over the prefix and its own suffix.
LEMMA SegmentedStep == Inv /\ Segmented => Inv'
  <1> SUFFICES ASSUME Inv, Segmented PROVE Inv'
    OBVIOUS
  <1> DEFINE k == Head(stream)
  <1>1. /\ stream # <<>> /\ k.kind = "segmented" /\ stream' = Tail(stream) /\ UNCHANGED hostVars
        /\ pk' = pk /\ sk' = sk /\ last' = last /\ logits' = logits
    BY DEF Segmented, Runs
  <1>2. stream' \in Seq(Launchable) /\ Done' = Turn /\ HostInv' /\ StreamInv'
    BY <1>1, Popped
  <1>3. hidden' = [t \in 1 .. MaxTokens |->
          IF t <= k.n
          THEN IF k.host = Freed THEN Junk ELSE Attention(k.layer, Visible(t), hidden[t])
          ELSE hidden[t]]
    BY DeviceSteps
  <1>4. prefix' = prefix /\ inUse' = inUse /\ call' = call /\ batch' = batch
    BY <1>1 DEF hostVars
  <1>5. TypeInv'
    <2>1. TypeInv
      BY DEF Inv
    <2>2. DOMAIN hidden' = 1 .. MaxTokens
      BY <1>3
    <2> QED BY <1>1, <1>2, <1>4, <2>1, <2>2 DEF TypeInv
  <1>6. /\ PassLength \in Nat /\ Done \in Int /\ Layers \in Nat \ {0} /\ PassLength = 2 * Layers + 1
        /\ prefix.text \in Seq(Nat) /\ TextLen \in Nat /\ TextLen' = TextLen
        /\ Turn \in Int /\ PackedTurn = Turn - PassLength /\ Turn = Done + 1 /\ MaxTokens \in Nat
    BY <1>4, Lengths, Constants DEF Inv, TypeInv, PassLength, Turn, PackedTurn, TextLen
  <1>7. \A t : Visible(t) = [j \in 1 .. k.base + k.host[t].local + 1 |->
            IF j <= k.base THEN pk[PrefixRow(k.layer, j - 1)]
            ELSE sk[SuffixRow(k.host[t].branch, k.layer, j - k.base - 1)]]
    BY DEF Visible, op
  <1> HIDE DEF k
  <1>8. CASE call = "failed"
    <2>1. PrefixMem' /\ PackedMem'
      BY <1>4, <1>8, MemoryAfter DEF Passing
    <2> QED BY <1>2, <1>5, <2>1 DEF Inv
  <1>9. CASE call # "failed"
    <2>0. /\ Passing /\ call = "deciding" /\ PackedTurn \in 1 .. PackedLength /\ Turn > PassLength
          /\ IsPacked(k, batch, TextLen, PackedTurn)
          /\ batch \in Seq(Asked) /\ Accepts(batch) /\ Distinct(batch)
      BY <1>1, <1>9, InPackedPass DEF k
    <2>1. PICK view : /\ view = Pack(batch, TextLen)
                      /\ \E l \in 0 .. Layers - 1 : PackedTurn = 2 * l + 3
                            /\ k = Kernel("segmented", l, "pack", view, Len(view), TextLen)
      <3>1. k.kind = "segmented"
        BY <1>1 DEF k
      <3> QED BY <2>0, <3>1, PackedCases DEF Kernel
    <2>2. PICK l \in 0 .. Layers - 1 :
             PackedTurn = 2 * l + 3 /\ k = Kernel("segmented", l, "pack", view, Len(view), TextLen)
      BY <2>1
    <2>3. k.n = Len(view) /\ k.layer = l /\ k.host = view /\ k.base = TextLen /\ l \in Nat
      BY <2>2 DEF Kernel
    <2>4. /\ view # Freed /\ Len(view) = Off(batch, Len(batch)) /\ Len(view) \in 1 .. MaxTokens
          /\ \A b \in 1 .. Len(batch) : \A j \in 1 .. Len(batch[b].tokens) :
                /\ Off(batch, b - 1) + j \in 1 .. Len(view)
                /\ view[Off(batch, b - 1) + j] =
                      [branch |-> batch[b].branch, local |-> j - 1, pos |-> TextLen + j - 1]
          /\ \A t \in 1 .. Len(view) : \E b \in 1 .. Len(batch) :
                \E j \in 1 .. Len(batch[b].tokens) : t = Off(batch, b - 1) + j
      <3>1. batch \in Seq(Asked)
        BY <2>0
      <3>2. Accepts(batch)
        BY <2>0
      <3>3. TextLen \in Nat
        BY <1>6
      <3>4. view = Pack(batch, TextLen)
        BY <2>1
      <3> QED BY ONLY <3>1, <3>2, <3>3, <3>4, ViewAt, SMTT(20)
    <2>5. Done - PassLength = 2 * l + 2
      BY <1>6, <2>2
    <2>6. PackedIs(l) /\ SuffixIs(l)
      BY <2>0, <2>5 DEF Inv, PackedMem
    <2>7. KvIs(l)
      <3>1. Done >= 2 * l + 2
        BY <1>6, <2>3, <2>5
      <3> QED BY <2>0, <3>1 DEF Inv, PrefixMem
    <2>8. ASSUME NEW b \in 1 .. Len(batch), NEW j \in 1 .. Len(batch[b].tokens)
          PROVE  hidden'[Off(batch, b - 1) + j] = RowOf(Full(b), l + 1, TextLen + j - 1).ctx
      <3>1. PICK t : t = Off(batch, b - 1) + j
        OBVIOUS
      <3>2. t \in 1 .. Len(view)
            /\ view[t] = [branch |-> batch[b].branch, local |-> j - 1, pos |-> TextLen + j - 1]
        BY <2>4, <3>1
      <3>3. view[t].branch = batch[b].branch /\ view[t].local = j - 1
        BY <3>2
      <3>4. hidden'[t] = Attention(l, Visible(t), hidden[t])
        <4>1. t \in 1 .. MaxTokens /\ t <= k.n
          BY <1>6, <2>3, <2>4, <3>2
        <4> QED BY <1>3, <2>3, <2>4, <4>1
      <3>5. PICK n : n = TextLen + j
        OBVIOUS
      <3>6. j \in Nat /\ n \in Nat /\ TextLen + (j - 1) + 1 = n /\ TextLen + j - 1 = n - 1
            /\ Len(batch[b].tokens) \in Nat
        <4>1. batch[b].tokens \in Seq(Nat)
          BY <2>0, Accepted
        <4>2. Len(batch[b].tokens) \in Nat
          BY <4>1
        <4> QED BY <1>6, <3>5, <4>2
      <3>7. Visible(t) = [i \in 1 .. n |->
               IF i <= TextLen THEN pk[PrefixRow(l, i - 1)]
               ELSE sk[SuffixRow(batch[b].branch, l, i - TextLen - 1)]]
        BY <1>7, <2>3, <3>3, <3>6
      <3>8. PICK rows : rows = Visible(t)
        OBVIOUS
      <3>9. DOMAIN rows = 1 .. n /\ Len(rows) = n
        BY <3>6, <3>7, <3>8
      <3>10. PICK F : F = Full(b)
        OBVIOUS
      <3>11. /\ F \in Seq(Nat) /\ Len(F) = TextLen + Len(batch[b].tokens)
             /\ \A i \in 0 .. TextLen - 1 : RowOf(F, l, i) = RowOf(prefix.text, l, i)
        BY <1>6, <2>0, <2>3, <3>10, FullIs
      <3>12. ASSUME NEW i \in 1 .. n PROVE rows[i] = RowOf(F, l, i - 1)
        <4>1. CASE i <= TextLen
          <5>1. rows[i] = pk[KvRow(l, i - 1)]
            BY <3>7, <3>8, <4>1, PrefixRowsApart
          <5>2. i \in 1 .. TextLen /\ i - 1 \in 0 .. TextLen - 1
            BY <1>6, <3>6, <4>1
          <5>3. pk[KvRow(l, i - 1)] = RowOf(prefix.text, l, i - 1)
            BY <2>7, <5>2 DEF KvIs
          <5> QED BY <3>11, <5>1, <5>2, <5>3
        <4>2. CASE ~(i <= TextLen)
          <5>1. rows[i] = sk[SuffixRow(batch[b].branch, l, i - TextLen - 1)]
            BY <3>7, <3>8, <4>2
          <5>2. PICK e : e = i - TextLen
            OBVIOUS
          <5>3. e \in 1 .. Len(batch[b].tokens) /\ TextLen + e - 1 = i - 1 /\ e - 1 = i - TextLen - 1
            BY <1>6, <3>5, <3>6, <4>2, <5>2
          <5>4. sk[SuffixRow(batch[b].branch, l, e - 1)] = RowOf(F, l, TextLen + e - 1)
            BY <2>6, <3>10, <5>3 DEF SuffixIs
          <5> QED BY <5>1, <5>3, <5>4
        <4> QED BY <4>1, <4>2
      <3>13. AreRows(rows, F, l, n)
        BY <3>9, <3>12 DEF AreRows
      <3>14. PICK own : own = hidden[t]
        OBVIOUS
      <3>15. own = rows[n].ctx
        <4>1. hidden[t] = RowOf(F, l, n - 1).ctx
          BY <2>6, <3>1, <3>6, <3>10 DEF PackedIs
        <4>2. n \in 1 .. n
          BY <1>6, <3>5, <3>6
        <4> QED BY <3>12, <3>14, <4>1, <4>2
      <3>16. n \in 1 .. Len(F)
        BY <1>6, <3>5, <3>6, <3>11
      <3>17. Attention(l, rows, own) = SubSeq(F, 1, n)
        <4>1. F \in Seq(Nat)
          BY <3>11
        <4>2. l \in Nat
          BY <2>3
        <4> QED BY ONLY <3>13, <3>15, <3>16, <4>1, <4>2, AttentionSees
      <3>18. RowOf(F, l + 1, n - 1).ctx = SubSeq(F, 1, n)
        <4>1. l + 1 # 0 /\ (n - 1) + 1 = n
          BY <2>3, <3>6
        <4> QED BY <4>1 DEF RowOf
      <3> QED BY <3>1, <3>4, <3>6, <3>8, <3>10, <3>14, <3>17, <3>18
    <2>9. PackedIs(l + 1)'
      BY <1>4, <1>6, <2>8 DEF PackedIs, Full
    <2>10. PackedMem'
      <3>1. PassLength' = PassLength /\ Done' - PassLength = 2 * l + 3 /\ l \in Int
        BY <1>2, <1>6, <2>2 DEF PassLength
      <3>2. /\ \A i \in 0 .. Layers : Done' - PassLength = 2 * i + 1 => i = l + 1
            /\ \A i \in 0 .. Layers - 1 : Done' - PassLength # 2 * i + 2
            /\ Done' - PassLength # 2 * Layers + 2
            /\ ~(Done' - PassLength >= 2 * Layers + 3)
        BY <1>6, <3>1
      <3> QED BY <2>9, <3>1, <3>2 DEF PackedMem
    <2>11. PrefixMem'
      BY <1>1, <1>2, <2>0, PrefixStays
    <2> QED BY <1>2, <1>5, <2>10, <2>11 DEF Inv
  <1> QED BY <1>8, <1>9

\* The last token of each suffix has seen the whole of its text.
LEMMA GatherStep == Inv /\ Gather => Inv'
  <1> SUFFICES ASSUME Inv, Gather PROVE Inv'
    OBVIOUS
  <1> DEFINE k == Head(stream)
  <1>1. /\ stream # <<>> /\ k.kind = "gather" /\ stream' = Tail(stream) /\ UNCHANGED hostVars
        /\ pk' = pk /\ sk' = sk /\ hidden' = hidden /\ logits' = logits
    BY DEF Gather, Runs
  <1>2. stream' \in Seq(Launchable) /\ Done' = Turn /\ HostInv' /\ StreamInv'
    BY <1>1, Popped
  <1>3. last' = [b \in Branches |->
          IF b >= k.n THEN last[b]
          ELSE IF k.host = Freed THEN Junk ELSE hidden[k.host[b + 1]]]
    BY DEF Gather, op
  <1>4. prefix' = prefix /\ inUse' = inUse /\ call' = call /\ batch' = batch
    BY <1>1 DEF hostVars
  <1>5. TypeInv'
    <2>1. TypeInv
      BY DEF Inv
    <2>2. DOMAIN last' = Branches
      BY <1>3
    <2> QED BY <1>1, <1>2, <1>4, <2>1, <2>2 DEF TypeInv
  <1>6. /\ PassLength \in Nat /\ Done \in Int /\ Layers \in Nat \ {0} /\ PassLength = 2 * Layers + 1
        /\ prefix.text \in Seq(Nat) /\ TextLen \in Nat /\ TextLen' = TextLen
        /\ Turn \in Int /\ PackedTurn = Turn - PassLength /\ Turn = Done + 1
        /\ MaxBranches \in Nat
    BY <1>4, Lengths, Constants DEF Inv, TypeInv, PassLength, Turn, PackedTurn, TextLen
  <1> HIDE DEF k
  <1>7. CASE call = "failed"
    <2>1. PrefixMem' /\ PackedMem'
      BY <1>4, <1>7, MemoryAfter DEF Passing
    <2> QED BY <1>2, <1>5, <2>1 DEF Inv
  <1>8. CASE call # "failed"
    <2>0. /\ Passing /\ call = "deciding" /\ PackedTurn \in 1 .. PackedLength /\ Turn > PassLength
          /\ IsPacked(k, batch, TextLen, PackedTurn)
          /\ batch \in Seq(Asked) /\ Accepts(batch) /\ Distinct(batch)
      BY <1>1, <1>8, InPackedPass DEF k
    <2>1. /\ PackedTurn = 2 * Layers + 2
          /\ k = Kernel("gather", 0, "pack", Offsets(batch), Len(batch), TextLen)
      <3>1. k.kind = "gather"
        BY <1>1 DEF k
      <3> QED BY <2>0, <3>1, PackedCases DEF Kernel
    <2>2. k.n = Len(batch) /\ k.host = Offsets(batch)
      BY <2>1 DEF Kernel
    <2>3. /\ Len(batch) \in 1 .. MaxBranches
          /\ \A b \in 1 .. Len(batch) : Len(batch[b].tokens) \in 1 .. MaxSuffix
          /\ MaxSuffix \in Nat
      BY <2>0, Accepted, Constants
    <2>4. /\ Offsets(batch) \in Seq(Nat) /\ Len(Offsets(batch)) = Len(batch)
          /\ \A b \in 1 .. Len(batch) : Offsets(batch)[b] = Off(batch, b)
      BY <2>0, OffsetsAre
    <2>5. k.host # Freed
      <3>1. Offsets(batch) # <<>>
        BY <2>3, <2>4
      <3> QED BY <2>2, <3>1 DEF Freed
    <2>6. PackedIs(Layers)
      <3>1. Done - PassLength = 2 * Layers + 1 /\ Layers \in 0 .. Layers
        BY <1>6, <2>1
      <3> QED BY <2>0, <3>1 DEF Inv, PackedMem
    <2>7. ASSUME NEW b \in 1 .. Len(batch) PROVE last'[b - 1] = Full(b)
      <3>1. PICK j : j = Len(batch[b].tokens)
        OBVIOUS
      <3>2. j \in 1 .. Len(batch[b].tokens) /\ j \in Nat \ {0}
        BY <2>3, <3>1
      <3>3. Off(batch, b) = Off(batch, b - 1) + j
        BY <1>6, <2>0, <3>1, Packed
      <3>4. hidden[Off(batch, b)] = RowOf(Full(b), Layers, TextLen + j - 1).ctx
        BY <2>6, <3>2, <3>3 DEF PackedIs
      <3>5. b - 1 \in Branches /\ ~(b - 1 >= k.n) /\ (b - 1) + 1 = b
        BY <1>6, <2>2, <2>3 DEF Branches
      <3>6. last'[b - 1] = hidden[Off(batch, b)]
        BY <1>3, <2>2, <2>4, <2>5, <3>5
      <3>7. PICK F : F = Full(b)
        OBVIOUS
      <3>8. F \in Seq(Nat) /\ Len(F) = TextLen + j
        BY <1>6, <2>0, <3>1, <3>7, FullIs
      <3>9. (TextLen + j - 1) + 1 = Len(F) /\ Layers # 0
        BY <1>6, <3>2, <3>8
      <3>10. RowOf(F, Layers, TextLen + j - 1).ctx = SubSeq(F, 1, Len(F))
        BY <3>9 DEF RowOf
      <3>11. SubSeq(F, 1, Len(F)) = F
        BY <3>8
      <3> QED BY <3>4, <3>6, <3>7, <3>10, <3>11
    <2>8. LastAre'
      BY <1>4, <2>7 DEF LastAre, Full
    <2>9. PackedMem'
      <3>1. PassLength' = PassLength /\ Done' - PassLength = 2 * Layers + 2
        BY <1>2, <1>6, <2>1 DEF PassLength
      <3>2. /\ \A i \in 0 .. Layers : Done' - PassLength # 2 * i + 1
            /\ \A i \in 0 .. Layers - 1 : Done' - PassLength # 2 * i + 2
            /\ ~(Done' - PassLength >= 2 * Layers + 3)
        BY <1>6, <3>1
      <3> QED BY <2>8, <3>1, <3>2 DEF PackedMem
    <2>10. PrefixMem'
      BY <1>1, <1>2, <2>0, PrefixStays
    <2> QED BY <1>2, <1>5, <2>9, <2>10 DEF Inv
  <1> QED BY <1>7, <1>8

\* The place of a score in the dense tile.
LEMMA TilePlace ==
  ASSUME NEW K \in Nat \ {0}, NEW B \in Nat \ {0}, NEW b \in 1 .. B, NEW j \in 1 .. K,
         NEW i, i = (b - 1) * K + j - 1
  PROVE  i \in 0 .. B * K - 1 /\ i \div K = b - 1 /\ i + 1 = (b - 1) * K + j
         /\ (B * K) \div B = K
  <1>1. PICK a \in Nat : a = b - 1
    OBVIOUS
  <1>2. a \in 0 .. B - 1 /\ j - 1 \in 0 .. K - 1
    BY <1>1
  <1>3. a * K + (j - 1) \in 0 .. B * K - 1
    BY <1>2, RowWithin
  <1>4. a * K \in Nat /\ i = a * K + (j - 1) /\ (b - 1) * K = a * K
    BY <1>1
  <1>5. i \div K = a
    <2>1. \A q, x, r \in Nat : x = q + r => x \in Nat
      OBVIOUS
    <2>2. i \in Nat /\ a * K <= i /\ i < a * K + K
      BY <1>2, <1>4
    <2> QED BY <1>2, <1>4, <2>2
  <1>6. (B * K) \div B = K
    <2>1. B * K = K * B /\ B * K \in Nat
      OBVIOUS
    <2> QED BY <2>1
  <1>7. i + 1 = (b - 1) * K + j
    BY <1>1, <1>4
  <1> QED BY <1>1, <1>3, <1>4, <1>5, <1>6, <1>7

\* The tile of the scores has one row per question.
LEMMA ScoreStep == Inv /\ ScoreCandidates => Inv'
  <1> SUFFICES ASSUME Inv, ScoreCandidates PROVE Inv'
    OBVIOUS
  <1> DEFINE k == Head(stream)
  <1>1. /\ stream # <<>> /\ k.kind = "head" /\ stream' = Tail(stream) /\ UNCHANGED hostVars
        /\ pk' = pk /\ sk' = sk /\ hidden' = hidden /\ last' = last
    BY DEF ScoreCandidates, Runs
  <1>2. stream' \in Seq(Launchable) /\ Done' = Turn /\ HostInv' /\ StreamInv'
    BY <1>1, Popped
  <1>3. logits' = [i \in Scores |->
          IF i >= Len(k.host) THEN logits[i]
          ELSE [ctx |-> last[i \div (Len(k.host) \div k.n)], cand |-> k.host[i + 1]]]
    BY DEF ScoreCandidates, op
  <1>4. prefix' = prefix /\ inUse' = inUse /\ call' = call /\ batch' = batch
    BY <1>1 DEF hostVars
  <1>5. TypeInv'
    <2>1. TypeInv
      BY DEF Inv
    <2>2. DOMAIN logits' = Scores
      BY <1>3
    <2> QED BY <1>1, <1>2, <1>4, <2>1, <2>2 DEF TypeInv
  <1>6. /\ PassLength \in Nat /\ Done \in Int /\ Layers \in Nat \ {0} /\ PassLength = 2 * Layers + 1
        /\ Turn \in Int /\ PackedTurn = Turn - PassLength /\ Turn = Done + 1
        /\ MaxBranches \in Nat /\ MaxCandidates \in Nat
    BY <1>4, Lengths, Constants DEF Inv, TypeInv, PassLength, Turn, PackedTurn, TextLen
  <1> HIDE DEF k
  <1>7. CASE call = "failed"
    <2>1. PrefixMem' /\ PackedMem'
      BY <1>4, <1>7, MemoryAfter DEF Passing
    <2> QED BY <1>2, <1>5, <2>1 DEF Inv
  <1>8. CASE call # "failed"
    <2>0. /\ Passing /\ call = "deciding" /\ PackedTurn \in 1 .. PackedLength /\ Turn > PassLength
          /\ IsPacked(k, batch, TextLen, PackedTurn)
          /\ batch \in Seq(Asked) /\ Accepts(batch) /\ Distinct(batch)
      BY <1>1, <1>8, InPackedPass DEF k
    <2>1. /\ PackedTurn = 2 * Layers + 3
          /\ k = Kernel("head", 0, "none", Candidates(batch), Len(batch), TextLen)
      <3>1. k.kind = "head"
        BY <1>1 DEF k
      <3> QED BY <2>0, <3>1, PackedCases DEF Kernel
    <2>2. PICK B : B = Len(batch)
      OBVIOUS
    <2>3. PICK K : K = Len(batch[1].cands)
      OBVIOUS
    <2>4. /\ B \in 1 .. MaxBranches /\ K \in 1 .. MaxCandidates /\ B \in Nat \ {0} /\ K \in Nat \ {0}
          /\ \A b \in 1 .. B : Len(batch[b].cands) = K
      BY <1>6, <2>0, <2>2, <2>3, Accepted
    <2>5. /\ Len(Candidates(batch)) = B * K
          /\ \A b \in 1 .. B : \A j \in 1 .. K : Candidates(batch)[(b - 1) * K + j] = batch[b].cands[j]
      BY <2>0, <2>2, <2>4, CandidatesAre
    <2>6. k.n = B /\ k.host = Candidates(batch) /\ Len(k.host) = B * K
      BY <2>1, <2>2, <2>5 DEF Kernel
    <2>7. LastAre
      <3>1. Done - PassLength = 2 * Layers + 2
        BY <1>6, <2>1
      <3> QED BY <2>0, <3>1 DEF Inv, PackedMem
    <2>8. B * K - 1 <= MaxBranches * MaxCandidates - 1 /\ B * K \in Nat
          /\ MaxBranches * MaxCandidates \in Nat
      <3>1. B - 1 \in 0 .. MaxBranches - 1 /\ K - 1 \in 0 .. MaxCandidates - 1
        BY <1>6, <2>4
      <3>2. (B - 1) * MaxCandidates + (K - 1) \in 0 .. MaxBranches * MaxCandidates - 1
        BY <1>6, <3>1, RowWithin
      <3>3. PICK a \in Nat : B = a + 1
        BY <2>4
      <3>4. PICK c \in Nat : MaxCandidates = K + c
        <4>1. MaxCandidates - K \in Nat /\ MaxCandidates = K + (MaxCandidates - K)
          BY <1>6, <2>4
        <4> QED BY <4>1
      <3>5. a * MaxCandidates = a * K + a * c /\ a * c \in Nat /\ a * K \in Nat /\ B * K = a * K + K
        BY <2>4, <3>3, <3>4
      <3>6. B - 1 = a
        BY <3>3
      <3>7. a * MaxCandidates + (K - 1) <= MaxBranches * MaxCandidates - 1
        BY <1>6, <3>2, <3>6
      <3>8. MaxBranches * MaxCandidates \in Nat
        BY <1>6
      <3>10. PICK x : x = a * MaxCandidates
        OBVIOUS
      <3>11. PICK y : y = a * K
        OBVIOUS
      <3>12. PICK z : z = a * c
        OBVIOUS
      <3>13. PICK M : M = MaxBranches * MaxCandidates
        OBVIOUS
      <3>14. PICK T : T = B * K
        OBVIOUS
      <3>15. /\ x = y + z /\ y \in Nat /\ z \in Nat /\ T = y + K /\ x + (K - 1) <= M - 1
             /\ M \in Nat
        BY <3>5, <3>7, <3>8, <3>10, <3>11, <3>12, <3>13, <3>14
      <3>16. T - 1 <= M - 1 /\ T \in Nat
        <4>1. K \in Nat
          BY <2>4
        <4> QED BY ONLY <3>15, <4>1
      <3> QED BY <3>8, <3>13, <3>14, <3>16
    <2>9. ASSUME NEW b \in 1 .. B, NEW j \in 1 .. K
          PROVE  logits'[(b - 1) * K + j - 1] = [ctx |-> Full(b), cand |-> batch[b].cands[j]]
      <3>1. PICK i : i = (b - 1) * K + j - 1
        OBVIOUS
      <3>2. /\ i \in 0 .. B * K - 1 /\ i \div K = b - 1 /\ i + 1 = (b - 1) * K + j
            /\ (B * K) \div B = K
        <4>1. K \in Nat \ {0}
          BY <2>4
        <4>2. B \in Nat \ {0}
          BY <2>4
        <4>3. b \in 1 .. B
          OBVIOUS
        <4>4. j \in 1 .. K
          OBVIOUS
        <4> QED BY ONLY <3>1, <4>1, <4>2, <4>3, <4>4, TilePlace
      <3>3. i \in Scores /\ ~(i >= B * K)
        BY <2>8, <3>2 DEF Scores
      <3>4. logits'[i] = [ctx |-> last[b - 1], cand |-> k.host[i + 1]]
        BY <1>3, <2>6, <3>2, <3>3
      <3>5. k.host[i + 1] = batch[b].cands[j]
        BY <2>5, <2>6, <3>2
      <3>6. last[b - 1] = Full(b)
        BY <2>2, <2>7 DEF LastAre
      <3> QED BY <3>1, <3>4, <3>5, <3>6
    <2>10. LogitsAre'
      <3>1. \A b \in 1 .. Len(batch) : \A j \in 1 .. Len(batch[b].cands) :
               logits'[(b - 1) * Len(batch[1].cands) + j - 1] =
                  [ctx |-> Full(b), cand |-> batch[b].cands[j]]
        BY <2>2, <2>3, <2>4, <2>9
      <3> QED BY <1>4, <3>1 DEF LogitsAre, Full
    <2>11. PackedMem'
      <3>1. PassLength' = PassLength /\ Done' - PassLength = 2 * Layers + 3
        BY <1>2, <1>6, <2>1 DEF PassLength
      <3>2. /\ \A i \in 0 .. Layers : Done' - PassLength # 2 * i + 1
            /\ \A i \in 0 .. Layers - 1 : Done' - PassLength # 2 * i + 2
            /\ Done' - PassLength # 2 * Layers + 2
        BY <1>6, <3>1
      <3> QED BY <2>10, <3>1, <3>2 DEF PackedMem
    <2>12. PrefixMem'
      BY <1>1, <1>2, <2>0, PrefixStays
    <2> QED BY <1>2, <1>5, <2>11, <2>12 DEF Inv
  <1> QED BY <1>7, <1>8

-----------------------------------------------------------------------------
(* The host keeps the invariant.                                           *)

LEMMA Initially == Init => Inv
  <1> SUFFICES ASSUME Init PROVE Inv
    OBVIOUS
  <1>1. TypeInv
    <2>1. <<>> \in Seq(Asked) /\ <<>> \in Seq(Launchable)
      OBVIOUS
    <2> QED BY <2>1 DEF Init, NoPrefix, TypeInv
  <1>2. HostInv
    BY DEF Init, NoPrefix, HostInv
  <1>3. ~Passing /\ call # "deciding"
    BY DEF Init, NoPrefix, Passing
  <1>4. StreamInv /\ PrefixMem /\ PackedMem
    BY <1>3 DEF StreamInv, PrefixMem, PackedMem
  <1> QED BY <1>1, <1>2, <1>4 DEF Inv

\* After a failure the passes are of no account.
LEMMA Failed == TypeInv' /\ HostInv' /\ call' = "failed" => Inv'
  <1> SUFFICES ASSUME TypeInv', HostInv', call' = "failed" PROVE Inv'
    OBVIOUS
  <1>1. ~Passing' /\ call' # "deciding"
    BY DEF Passing
  <1>2. StreamInv' /\ PrefixMem' /\ PackedMem'
    BY <1>1 DEF StreamInv, PrefixMem, PackedMem
  <1> QED BY <1>2 DEF Inv

\* Steps that leave the passes as they are.
LEMMA PassesStay ==
  Inv /\ prefix'.text = prefix.text /\ call' = call /\ batch' = batch /\ stream' = stream
  /\ UNCHANGED deviceVars
    => StreamInv' /\ PrefixMem' /\ PackedMem'
  <1> SUFFICES ASSUME Inv, prefix'.text = prefix.text, call' = call, batch' = batch,
                      stream' = stream, UNCHANGED deviceVars
               PROVE  StreamInv' /\ PrefixMem' /\ PackedMem'
    OBVIOUS
  <1>1. /\ Done' = Done /\ Passing' = Passing /\ TextLen' = TextLen /\ PassLength' = PassLength
        /\ pk' = pk /\ sk' = sk /\ hidden' = hidden /\ last' = last /\ logits' = logits
    BY DEF Done, Passing, TextLen, PassLength, PackedLength, deviceVars
  <1>2. StreamInv'
    <2>1. StreamInv
      BY DEF Inv
    <2>2. ASSUME Passing', NEW i \in DOMAIN stream' PROVE IsDue(stream[i], Done + i)'
      <3>1. IsDue(stream[i], Done + i)
        BY <1>1, <2>1, <2>2 DEF StreamInv
      <3> QED BY <1>1, <3>1 DEF IsDue
    <2> QED BY <2>2 DEF StreamInv
  <1>3. PrefixMem'
    <2>1. PrefixMem
      BY DEF Inv
    <2>2. \A l : (HiddenIs(l) => HiddenIs(l)') /\ (KvIs(l) => KvIs(l)')
      BY <1>1 DEF HiddenIs, KvIs
    <2> QED BY <1>1, <2>1, <2>2 DEF PrefixMem
  <1>4. PackedMem'
    <2>1. PackedMem
      BY DEF Inv
    <2>2. \A b : Full(b)' = Full(b)
      BY DEF Full
    <2>3. \A l : (PackedIs(l) => PackedIs(l)') /\ (SuffixIs(l) => SuffixIs(l)')
      BY <1>1, <2>2 DEF PackedIs, SuffixIs
    <2>4. (LastAre => LastAre') /\ (LogitsAre => LogitsAre')
      BY <1>1, <2>2 DEF LastAre, LogitsAre
    <2> QED BY <1>1, <2>1, <2>3, <2>4 DEF PackedMem
  <1> QED BY <1>2, <1>3, <1>4

\* Freeing an array changes no more than what the kernels that read it find.
LEMMA FreeIs ==
  ASSUME NEW s \in Seq(Launchable), NEW array
  PROVE  /\ Free(array, s) \in Seq(Launchable)
         /\ (\A i \in DOMAIN s : s[i].array # array) => Free(array, s) = s
  <1> DEFINE f(i) == IF s[i].array = array THEN [s[i] EXCEPT !.host = Freed] ELSE s[i]
  <1>1. ASSUME NEW i \in DOMAIN s PROVE f(i) \in Launchable
    <2>1. s[i] \in Launchable
      OBVIOUS
    <2>2. Freed \in Host
      BY DEF Freed, Host
    <2>3. [s[i] EXCEPT !.host = Freed] \in Launchable
      BY <2>1, <2>2 DEF Launchable
    <2> QED BY <2>1, <2>3
  <1>2. Free(array, s) = [i \in DOMAIN s |-> f(i)]
    BY DEF Free
  <1>3. Free(array, s) \in Seq(Launchable)
    <2> HIDE DEF f
    <2>1. Len(s) \in Nat /\ DOMAIN s = 1 .. Len(s)
      OBVIOUS
    <2> QED BY <1>1, <1>2, <2>1
  <1>4. (\A i \in DOMAIN s : s[i].array # array) => Free(array, s) = s
    <2>1. ASSUME \A i \in DOMAIN s : s[i].array # array PROVE Free(array, s) = s
      <3>1. \A i \in DOMAIN s : f(i) = s[i]
        BY <2>1
      <3>2. s = [i \in DOMAIN s |-> s[i]]
        OBVIOUS
      <3> HIDE DEF f
      <3> QED BY <1>2, <3>1, <3>2
    <2> QED BY <2>1
  <1> QED BY <1>3, <1>4

\* The first of the kernels that are launched.
LEMMA LaunchedIs ==
  ASSUME NEW s \in Seq(Launchable), NEW ks \in Seq(Launchable), NEW n \in 0 .. Len(ks)
  PROVE  /\ s \o SubSeq(ks, 1, n) \in Seq(Launchable)
         /\ n = Len(ks) => SubSeq(ks, 1, n) = ks
  <1>1. SubSeq(ks, 1, n) \in Seq(Launchable)
    OBVIOUS
  <1>2. n = Len(ks) => SubSeq(ks, 1, n) = ks
    OBVIOUS
  <1>3. PICK front : front = SubSeq(ks, 1, n)
    OBVIOUS
  <1>4. front \in Seq(Launchable)
    BY <1>1, <1>3
  <1>5. s \o front \in Seq(Launchable)
    BY <1>4
  <1> QED BY <1>2, <1>3, <1>5

\* A kernel of a prefill, when it is not known of which.
LEMMA PrefillIsAny ==
  ASSUME NEW k, NEW t, t # <<>>, NEW m \in 1 .. PassLength, IsPrefill(k, t, m)
  PROVE  IsAny(k)
  BY PrefillCases DEF Kernel, IsAny, Freed

\* Outside of a decision only prefills are queued.
LEMMA QueuedPrefills ==
  Inv /\ call = "none" => \A i \in DOMAIN stream : IsAny(stream[i])
  <1> SUFFICES ASSUME Inv, call = "none", NEW i \in DOMAIN stream PROVE IsAny(stream[i])
    OBVIOUS
  <1>1. stream \in Seq(Launchable) /\ TypeInv
    BY DEF Inv, TypeInv
  <1>2. Passing /\ prefix.text # <<>>
    BY DEF Inv, HostInv, Passing
  <1>3. PICK m : m = Done + i
    OBVIOUS
  <1>4. IsDue(stream[i], m)
    BY <1>2, <1>3 DEF Inv, StreamInv
  <1>5. m < 1 \/ m \in 1 .. PassLength
    <2>1. PassLength \in Nat /\ Len(stream) \in Nat /\ Done \in Int
      BY <1>1, Lengths
    <2>2. Done = PassLength - Len(stream)
      <3>1. Done = PassLength + 0 - Len(stream)
        BY DEF Done
      <3> QED BY <2>1, <3>1
    <2>3. i \in 1 .. Len(stream)
      BY <1>1
    <2> QED BY <1>3, <2>1, <2>2, <2>3
  <1>6. CASE m < 1
    BY <1>4, <1>6 DEF IsDue
  <1>7. CASE m \in 1 .. PassLength
    <2>1. IsPrefill(stream[i], prefix.text, m)
      BY <1>4, <1>7 DEF IsDue
    <2> QED BY <1>2, <1>7, <2>1, PrefillIsAny
  <1> QED BY <1>5, <1>6, <1>7

\* A prefill that was replaced is still executed before the new one.
LEMMA PrefillStep ==
  ASSUME NEW t \in PrefixTexts
  PROVE  Inv /\ Prefill(t) => Inv'
  <1> SUFFICES ASSUME Inv, Prefill(t) PROVE Inv'
    OBVIOUS
  <1>1. PICK ks : ks = PrefillKernels(t)
    OBVIOUS
  <1>2. /\ ks \in Seq(Launchable) /\ Len(ks) = PassLength
        /\ \A m \in 1 .. PassLength : IsPrefill(ks[m], t, m)
    BY <1>1, PrefillShape DEF PassLength
  <1>3. /\ call = "none" /\ inUse' = inUse /\ batch' = batch /\ UNCHANGED deviceVars
        /\ TypeInv /\ stream \in Seq(Launchable) /\ HostInv
    BY DEF Prefill, Inv, TypeInv
  <1>4. /\ pk' = pk /\ sk' = sk /\ hidden' = hidden /\ last' = last /\ logits' = logits
    BY <1>3 DEF deviceVars
  <1>5. /\ PassLength \in Nat /\ Len(stream) \in Nat
        /\ t \in Seq(Nat) /\ t # <<>>
    BY <1>3, Lengths, Constants
  <1>6. CASE ~prefix.sealed /\ PrefillFits(t) /\ Launched(ks, Len(ks))
             /\ prefix' = [prefix EXCEPT !.text = t] /\ UNCHANGED call
    <2>1. /\ prefix' \in [text : PrefixTexts \cup {<<>>}, sealed : BOOLEAN]
          /\ prefix'.text = t /\ prefix'.sealed = FALSE
      BY <1>3, <1>6 DEF TypeInv
    <2>2. stream' = stream \o ks /\ stream' \in Seq(Launchable)
      <3>1. Len(ks) \in 0 .. Len(ks)
        BY <1>2, <1>5
      <3> QED BY <1>2, <1>3, <1>6, <3>1, LaunchedIs DEF Launched
    <2>3. /\ Len(stream') = Len(stream) + PassLength
          /\ \A i \in 1 .. Len(stream) : stream'[i] = stream[i]
          /\ \A j \in 1 .. PassLength : stream'[Len(stream) + j] = ks[j]
      <3>1. stream \in Seq(Launchable)
        BY <1>3
      <3>2. ks \in Seq(Launchable)
        BY <1>2
      <3>3. /\ Len(stream \o ks) = Len(stream) + Len(ks)
            /\ \A i \in 1 .. Len(stream) : (stream \o ks)[i] = stream[i]
            /\ \A j \in 1 .. Len(ks) : (stream \o ks)[Len(stream) + j] = ks[j]
        BY ONLY <3>1, <3>2, Concatenated
      <3>4. stream' = stream \o ks /\ Len(ks) = PassLength
        BY <1>2, <2>2
      <3> QED BY ONLY <3>3, <3>4
    <2>4. TypeInv'
      BY <1>3, <1>4, <1>6, <2>1, <2>2 DEF TypeInv
    <2>5. HostInv'
      BY <1>3, <1>5, <1>6, <2>1 DEF HostInv, PrefillFits
    <2>6. Done' = 0 - Len(stream) /\ PassLength' = PassLength
      <3>1. Done' = PassLength + 0 - Len(stream')
        BY <1>3, <1>6 DEF Done, PassLength
      <3> QED BY <1>5, <2>3, <3>1 DEF PassLength
    <2>7. ASSUME NEW i \in DOMAIN stream' PROVE IsDue(stream[i], Done + i)'
      <3>1. i \in 1 .. Len(stream) + PassLength
        BY <2>2, <2>3
      <3>2. CASE i \in 1 .. Len(stream)
        <4>1. Done' + i < 1
          BY <1>5, <2>6, <3>2
        <4>2. IsAny(stream'[i])
          BY <1>3, <2>3, <3>2, QueuedPrefills
        <4>3. ~(Done' + i \in 1 .. PassLength) /\ ~(Done' + i > PassLength)
          BY <1>5, <2>6, <3>2
        <4> QED BY <2>6, <4>2, <4>3 DEF IsDue
      <3>3. CASE i \notin 1 .. Len(stream)
        <4>1. PICK m : m = i - Len(stream)
          OBVIOUS
        <4>2. m \in 1 .. PassLength /\ i = Len(stream) + m /\ Done' + i = m
          BY <1>5, <2>6, <3>1, <3>3, <4>1
        <4>3. IsPrefill(stream'[i], t, m)
          BY <1>2, <2>3, <4>2
        <4>4. ~(m < 1) /\ ~(m > PassLength)
          BY <1>5, <4>2
        <4> QED BY <2>1, <2>6, <4>2, <4>3, <4>4 DEF IsDue
      <3> QED BY <3>2, <3>3
    <2>8. StreamInv'
      BY <2>7 DEF StreamInv
    <2>9. PrefixMem' /\ PackedMem'
      <3>1. Done' \in Int /\ Done' < 1 /\ Done' <= PassLength
        BY <1>5, <2>6
      <3> QED BY <3>1, MemoryAfter
    <2> QED BY <2>4, <2>5, <2>8, <2>9 DEF Inv
  <1>7. CASE call' = "failed" /\ UNCHANGED <<stream, prefix, held>>
    <2>1. TypeInv' /\ HostInv'
      BY <1>3, <1>4, <1>7 DEF TypeInv, HostInv, PrefillFits
    <2> QED BY <1>7, <2>1, Failed
  <1>8. CASE /\ \E n \in 0 .. Len(ks) - 1 : Launched(ks, n)
             /\ call' = "failed" /\ UNCHANGED prefix
    <2>1. stream' \in Seq(Launchable)
      <3>1. PICK n \in 0 .. Len(ks) - 1 : Launched(ks, n)
        BY <1>8
      <3>2. n \in 0 .. Len(ks)
        BY <1>2, <1>5
      <3> QED BY <1>2, <1>3, <3>1, <3>2, LaunchedIs DEF Launched
    <2>2. TypeInv' /\ HostInv'
      BY <1>3, <1>4, <1>8, <2>1 DEF TypeInv, HostInv, PrefillFits
    <2> QED BY <1>8, <2>2, Failed
  <1> QED BY <1>1, <1>6, <1>7, <1>8 DEF Prefill


\* The steps of the host, one by one.
LEMMA SealStep == Inv /\ Seal => Inv'
  <1> SUFFICES ASSUME Inv, Seal PROVE Inv'
    OBVIOUS
  <1>1. /\ call = "none" /\ inUse' = inUse /\ batch' = batch /\ stream' = stream
        /\ UNCHANGED deviceVars /\ TypeInv /\ HostInv
    BY DEF Seal, Inv
  <1>2. pk' = pk /\ sk' = sk /\ hidden' = hidden /\ last' = last /\ logits' = logits
    BY <1>1 DEF deviceVars
  <1>3. CASE /\ prefix.text # <<>>
             /\ prefix' = [prefix EXCEPT !.sealed = TRUE] /\ UNCHANGED call
    <2>1. /\ prefix' \in [text : PrefixTexts \cup {<<>>}, sealed : BOOLEAN]
          /\ prefix'.text = prefix.text
      BY <1>1, <1>3 DEF TypeInv
    <2>2. TypeInv'
      BY <1>1, <1>2, <1>3, <2>1 DEF TypeInv
    <2>3. HostInv'
      BY <1>1, <1>3, <2>1 DEF HostInv, PrefillFits
    <2>4. call' = call
      BY <1>3
    <2> QED BY <1>1, <2>1, <2>2, <2>3, <2>4, PassesStay DEF Inv
  <1>4. CASE call' = "failed" /\ UNCHANGED prefix
    <2>1. TypeInv' /\ HostInv'
      BY <1>1, <1>2, <1>4 DEF TypeInv, HostInv, PrefillFits
    <2> QED BY <1>4, <2>1, Failed
  <1> QED BY <1>3, <1>4 DEF Seal

\* The steps of the host outside of a decision that touch neither the prefix
\* nor the stream.
LEMMA BranchesChange ==
  Inv /\ call = "none" /\ inUse' \subseteq Branches
  /\ UNCHANGED <<prefix, batch, stream, deviceVars>> /\ call' \in {"none", "failed"}
    => Inv'
  <1> SUFFICES ASSUME Inv, call = "none", inUse' \subseteq Branches,
                      UNCHANGED <<prefix, batch, stream, deviceVars>>, call' \in {"none", "failed"}
               PROVE  Inv'
    OBVIOUS
  <1>1. /\ prefix' = prefix /\ batch' = batch /\ stream' = stream /\ UNCHANGED deviceVars
        /\ prefix'.text = prefix.text /\ TypeInv /\ HostInv
    BY DEF Inv
  <1>2. pk' = pk /\ sk' = sk /\ hidden' = hidden /\ last' = last /\ logits' = logits
    BY <1>1 DEF deviceVars
  <1>3. TypeInv' /\ HostInv'
    <2>1. Branches' = Branches
      BY DEF Branches
    <2>2. TypeInv'
      BY <1>1, <1>2, <2>1 DEF TypeInv
    <2> QED BY <1>1, <2>2 DEF HostInv, PrefillFits
  <1>4. CASE call' = "failed"
    BY <1>3, <1>4, Failed
  <1>5. CASE call' = "none"
    <2>1. call' = call
      BY <1>5
    <2> QED BY <1>1, <1>3, <2>1, PassesStay DEF Inv
  <1> QED BY <1>4, <1>5

\* This is the step that needs the client to keep the token ids.
LEMMA FreeStateStep == FreesEarly = FALSE /\ Inv /\ FreeState => Inv'
  <1> SUFFICES ASSUME FreesEarly = FALSE, Inv, FreeState PROVE Inv'
    OBVIOUS
  <1>1. stream \in Seq(Launchable) /\ inUse \subseteq Branches
    BY DEF Inv, TypeInv
  <1>2. \A i \in DOMAIN stream : stream[i].array # "state"
    BY DEF FreeState
  <1>3. Free("state", stream) = stream
    BY ONLY <1>1, <1>2, FreeIs
  <1>4. /\ call = "none" /\ inUse' \subseteq Branches /\ call' \in {"none", "failed"}
        /\ UNCHANGED <<prefix, batch, stream, deviceVars>>
    BY <1>1, <1>3 DEF FreeState
  <1> QED BY <1>4, BranchesChange

\* q3_branch_acquire().
LEMMA AcquireStep == Inv /\ Acquire => Inv'
  <1> SUFFICES ASSUME Inv, Acquire PROVE Inv'
    OBVIOUS
  <1>1. inUse \subseteq Branches
    BY DEF Inv, TypeInv
  <1>2. /\ call = "none" /\ UNCHANGED <<prefix, batch, stream, deviceVars>>
        /\ call' \in {"none", "failed"}
    BY DEF Acquire
  <1>3. inUse' \subseteq Branches
    BY <1>1 DEF Acquire, FreeBranches, Branches
  <1> QED BY <1>2, <1>3, BranchesChange

\* q3_branch_release(): a batch is over before a branch can be released.
LEMMA ReleaseStep == \A b \in inUse : Inv /\ Release(b) => Inv'
  <1> SUFFICES ASSUME NEW b \in inUse, Inv, Release(b) PROVE Inv'
    OBVIOUS
  <1>1. inUse \subseteq Branches
    BY DEF Inv, TypeInv
  <1>2. /\ call = "none" /\ UNCHANGED <<prefix, batch, stream, deviceVars>>
        /\ call' \in {"none", "failed"} /\ inUse' \subseteq Branches
    BY <1>1 DEF Release
  <1> QED BY <1>2, BranchesChange

\* What the client may ask.
LEMMA BatchesAre ==
  ASSUME inUse \subseteq Branches, NEW items \in Batches
  PROVE  items \in Seq(Asked) /\ Distinct(items)
  <1>1. PICK n \in 1 .. MaxBranches :
          /\ items \in [1 .. n -> UNION {Items(b) : b \in inUse}]
          /\ \A i, j \in 1 .. n : items[i].branch = items[j].branch => i = j
    BY DEF Batches
  <1>2. n \in Nat
    BY Constants
  <1>3. \A b \in inUse : Items(b) \subseteq Asked
    BY DEF Items, Asked
  <1>4. UNION {Items(b) : b \in inUse} \subseteq Asked
    BY <1>3
  <1>5. items \in [1 .. n -> Asked]
    BY <1>1, <1>4
  <1>6. items \in Seq(Asked) /\ Len(items) = n
    BY <1>2, <1>5
  <1> QED BY <1>1, <1>6 DEF Distinct

\* q3_decide_run() up to its wait: the pass is put behind what is left of the
\* prefill.
LEMMA DecideStep ==
  ASSUME NEW items \in Batches
  PROVE  Inv /\ Decide(items) => Inv'
  <1> SUFFICES ASSUME Inv, Decide(items) PROVE Inv'
    OBVIOUS
  <1>1. PICK ks : ks = PackedKernels(items, Len(prefix.text))
    OBVIOUS
  <1>2. /\ call = "none" /\ prefix' = prefix /\ inUse' = inUse /\ UNCHANGED deviceVars
        /\ TypeInv /\ stream \in Seq(Launchable) /\ HostInv
    BY DEF Decide, Inv, TypeInv
  <1>3. pk' = pk /\ sk' = sk /\ hidden' = hidden /\ last' = last /\ logits' = logits
    BY <1>2 DEF deviceVars
  <1>4. items \in Seq(Asked) /\ Distinct(items)
    <2>1. inUse \subseteq Branches
      BY <1>2 DEF TypeInv
    <2> QED BY ONLY <2>1, BatchesAre, items \in Batches
  <1>5. /\ Len(stream) \in Nat /\ PassLength \in Nat /\ PackedLength \in Nat /\ TextLen \in Nat
        /\ Done \in Int
    BY <1>2, Lengths
  <1>6. ASSUME Accepts(items)
        PROVE  /\ ks \in Seq(Launchable) /\ Len(ks) = PackedLength
               /\ \A m \in 1 .. PackedLength : IsPacked(ks[m], items, TextLen, m)
    <2>1. PICK K : K = Len(items[1].cands)
      OBVIOUS
    <2>2. K \in Nat /\ \A b \in 1 .. Len(items) : Len(items[b].cands) = K
      <3>1. /\ \A b \in 1 .. Len(items) : Len(items[b].cands) = Len(items[1].cands)
            /\ Len(items[1].cands) \in 1 .. MaxCandidates
        BY ONLY <1>4, <1>6, Accepted
      <3> QED BY <2>1, <3>1
    <2>3. ks = PackedKernels(items, TextLen)
      BY <1>1 DEF TextLen
    <2>4. TextLen \in Nat
      BY <1>5
    <2> HIDE DEF TextLen
    <2>5. /\ PackedKernels(items, TextLen) \in Seq(Launchable)
          /\ Len(PackedKernels(items, TextLen)) = 2 * Layers + 3
          /\ \A m \in 1 .. 2 * Layers + 3 : IsPacked(PackedKernels(items, TextLen)[m], items, TextLen, m)
      BY ONLY <1>4, <2>2, <2>4, PackedShape
    <2> QED BY <2>3, <2>5 DEF PackedLength
  <1>7. CASE /\ Accepts(items) /\ Launched(ks, Len(ks))
             /\ call' = "deciding" /\ batch' = items
    <2>1. /\ ks \in Seq(Launchable) /\ Len(ks) = PackedLength
          /\ \A m \in 1 .. PackedLength : IsPacked(ks[m], items, TextLen, m)
      BY <1>6, <1>7
    <2>2. stream' = stream \o ks /\ stream' \in Seq(Launchable)
      <3>1. Len(ks) \in 0 .. Len(ks)
        BY <1>5, <2>1
      <3> QED BY <1>2, <1>7, <2>1, <3>1, LaunchedIs DEF Launched
    <2>3. /\ Len(stream') = Len(stream) + PackedLength
          /\ \A i \in 1 .. Len(stream) : stream'[i] = stream[i]
          /\ \A j \in 1 .. PackedLength : stream'[Len(stream) + j] = ks[j]
      <3>1. stream \in Seq(Launchable)
        BY <1>2
      <3>2. ks \in Seq(Launchable)
        BY <2>1
      <3>3. /\ Len(stream \o ks) = Len(stream) + Len(ks)
            /\ \A i \in 1 .. Len(stream) : (stream \o ks)[i] = stream[i]
            /\ \A j \in 1 .. Len(ks) : (stream \o ks)[Len(stream) + j] = ks[j]
        BY ONLY <3>1, <3>2, Concatenated
      <3>4. stream' = stream \o ks /\ Len(ks) = PackedLength
        BY <2>1, <2>2
      <3> QED BY ONLY <3>3, <3>4
    <2>4. TypeInv'
      BY <1>2, <1>3, <1>4, <1>7, <2>2 DEF TypeInv
    <2>5. HostInv'
      <3>1. Accepts(items)' /\ Distinct(items)'
        BY <1>2, <1>4, <1>7 DEF Accepts, Distinct
      <3>2. Accepts(batch)' /\ Distinct(batch)'
        BY <1>7, <3>1 DEF Accepts, Distinct
      <3>3. prefix.text # <<>>
        BY <1>2, <1>7 DEF Accepts, HostInv
      <3> QED BY <1>2, <3>2, <3>3 DEF HostInv, PrefillFits
    <2>6. /\ Done = PassLength - Len(stream) /\ Done' = Done /\ PassLength' = PassLength
          /\ TextLen' = TextLen
      <3>1. Done = PassLength + 0 - Len(stream)
        BY <1>2 DEF Done
      <3>2. Done' = PassLength + PackedLength - Len(stream')
        BY <1>7 DEF Done, PassLength, PackedLength
      <3>3. PassLength' = PassLength /\ TextLen' = TextLen
        BY <1>2 DEF PassLength, TextLen
      <3> QED BY <1>5, <2>3, <3>1, <3>2, <3>3
    <2>7. Passing
      BY <1>2, <1>7 DEF Passing, Accepts, HostInv
    <2>8. ASSUME NEW i \in DOMAIN stream' PROVE IsDue(stream[i], Done + i)'
      <3>1. i \in 1 .. Len(stream) + PackedLength
        BY <2>2, <2>3
      <3>2. CASE i \in 1 .. Len(stream)
        <4>1. i \in DOMAIN stream
          BY <1>2, <3>2
        <4>2. IsDue(stream[i], Done + i)
          BY <2>7, <4>1 DEF Inv, StreamInv
        <4>3. ~(Done + i > PassLength)
          BY <1>5, <2>6, <3>2
        <4>4. stream'[i] = stream[i]
          BY <2>3, <3>2
        <4> QED BY <1>2, <2>6, <4>2, <4>3, <4>4 DEF IsDue
      <3>3. CASE i \notin 1 .. Len(stream)
        <4>1. PICK m : m = i - Len(stream)
          OBVIOUS
        <4>2. m \in 1 .. PackedLength /\ i = Len(stream) + m /\ (Done + i) - PassLength = m
              /\ Done + i > PassLength /\ ~(Done + i < 1) /\ ~(Done + i \in 1 .. PassLength)
          <5>1. \A p, n, q \in Nat : \A d \in Int : \A e \in 1 .. n + q :
                   d = p - n /\ ~(e \in 1 .. n)
                     => /\ e - n \in 1 .. q /\ e = n + (e - n) /\ (d + e) - p = e - n
                        /\ d + e > p /\ ~(d + e < 1) /\ ~(d + e \in 1 .. p)
            OBVIOUS
          <5>2. Done = PassLength - Len(stream) /\ Done \in Int /\ PassLength \in Nat
                /\ Len(stream) \in Nat /\ PackedLength \in Nat
            BY <1>5, <2>6
          <5>3. /\ i - Len(stream) \in 1 .. PackedLength /\ i = Len(stream) + (i - Len(stream))
                /\ (Done + i) - PassLength = i - Len(stream)
                /\ Done + i > PassLength /\ ~(Done + i < 1) /\ ~(Done + i \in 1 .. PassLength)
            BY ONLY <3>1, <3>3, <5>1, <5>2
          <5> QED BY ONLY <4>1, <5>3
        <4>3. IsPacked(stream'[i], items, TextLen, m)
          BY <2>1, <2>3, <4>2
        <4>4. PICK s : s = Done + i
          OBVIOUS
        <4>5. s - PassLength = m /\ s > PassLength /\ ~(s < 1) /\ ~(s \in 1 .. PassLength)
              /\ s = Done' + i
          BY <2>6, <4>2, <4>4
        <4>6. batch' = items
          BY <1>7
        <4> QED BY ONLY <2>6, <4>3, <4>5, <4>6 DEF IsDue
      <3> QED BY <3>2, <3>3
    <2>9. StreamInv'
      BY <2>8 DEF StreamInv
    <2>10. PrefixMem'
      <3>1. \A l : (HiddenIs(l) => HiddenIs(l)') /\ (KvIs(l) => KvIs(l)')
        BY <1>2, <1>3, <2>6 DEF HiddenIs, KvIs
      <3>2. PrefixMem
        BY DEF Inv
      <3> QED BY <2>6, <2>7, <3>1, <3>2 DEF PrefixMem
    <2>11. PackedMem'
      <3>1. Done' \in Int /\ Done' <= PassLength
        BY <1>5, <2>6
      <3> QED BY <3>1, MemoryAfter
    <2> QED BY <2>4, <2>5, <2>9, <2>10, <2>11 DEF Inv
  <1>8. CASE call' = "failed" /\ UNCHANGED <<stream, batch>>
    <2>1. TypeInv' /\ HostInv'
      BY <1>2, <1>3, <1>8 DEF TypeInv, HostInv, PrefillFits
    <2> QED BY <1>8, <2>1, Failed
  <1>9. CASE /\ Accepts(items)
             /\ \E n \in 0 .. Len(ks) - 1 : stream' = Free("pack", stream \o SubSeq(ks, 1, n))
             /\ call' = "failed" /\ UNCHANGED batch
    <2>1. stream' \in Seq(Launchable)
      <3>1. PICK n \in 0 .. Len(ks) - 1 : stream' = Free("pack", stream \o SubSeq(ks, 1, n))
        BY <1>9
      <3>2. ks \in Seq(Launchable) /\ Len(ks) = PackedLength
        BY <1>6, <1>9
      <3>3. n \in 0 .. Len(ks) /\ stream \in Seq(Launchable)
        BY <1>2, <1>5, <3>2
      <3>4. stream \o SubSeq(ks, 1, n) \in Seq(Launchable)
        BY ONLY <3>2, <3>3, LaunchedIs
      <3>5. Free("pack", stream \o SubSeq(ks, 1, n)) \in Seq(Launchable)
        BY ONLY <3>4, FreeIs
      <3> QED BY <3>1, <3>5
    <2>2. TypeInv' /\ HostInv'
      BY <1>2, <1>3, <1>9, <2>1 DEF TypeInv, HostInv, PrefillFits
    <2> QED BY <1>9, <2>2, Failed
  <1> QED BY <1>1, <1>7, <1>8, <1>9 DEF Decide

\* The packed arrays are freed when nothing is queued.
LEMMA ReturnStep == Inv /\ Return => Inv'
  <1> SUFFICES ASSUME Inv, Return PROVE Inv'
    OBVIOUS
  <1>1. /\ call = "deciding" /\ stream = <<>> /\ call' = "none" /\ stream' = Free("pack", stream)
        /\ prefix' = prefix /\ inUse' = inUse /\ batch' = batch /\ UNCHANGED deviceVars
        /\ TypeInv /\ HostInv
    BY DEF Return, Drained, Inv
  <1>2. pk' = pk /\ sk' = sk /\ hidden' = hidden /\ last' = last /\ logits' = logits
    BY <1>1 DEF deviceVars
  <1>3. stream' = <<>>
    <2>1. stream \in Seq(Launchable)
      BY <1>1 DEF TypeInv
    <2>2. \A i \in DOMAIN stream : stream[i].array # "pack"
      BY <1>1
    <2>3. Free("pack", stream) = stream
      BY ONLY <2>1, <2>2, FreeIs
    <2> QED BY <1>1, <2>3
  <1>4. TypeInv' /\ HostInv'
    <2>1. stream' \in Seq(Launchable)
      BY <1>3
    <2>2. TypeInv'
      BY <1>1, <1>2, <2>1 DEF TypeInv
    <2> QED BY <1>1, <1>3, <2>2 DEF HostInv, PrefillFits
  <1>5. StreamInv'
    BY <1>3 DEF StreamInv
  <1>6. /\ Passing /\ Done = PassLength + PackedLength /\ Done' = PassLength
        /\ PassLength = 2 * Layers + 1 /\ PackedLength \in Nat /\ Layers \in Nat
        /\ TextLen' = TextLen
    <2>1. PassLength \in Nat /\ PackedLength \in Nat /\ Layers \in Nat
      BY <1>1, Lengths
    <2>2. Done = PassLength + PackedLength - 0
      BY <1>1 DEF Done
    <2>3. Done' = PassLength + 0 - 0
      BY <1>1, <1>3 DEF Done, PassLength
    <2> QED BY <1>1, <2>1, <2>2, <2>3 DEF Passing, HostInv, PassLength, TextLen
  <1>7. PrefixMem'
    <2>1. PrefixMem
      BY DEF Inv
    <2>2. ASSUME NEW l \in 0 .. Layers - 1
          PROVE  ~(Done' \in {2 * l + 1, 2 * l + 2}) /\ KvIs(l)'
      <3>1. /\ Done' # 2 * l + 1 /\ Done' # 2 * l + 2 /\ Done >= 2 * l + 2
        BY <1>6
      <3>2. KvIs(l)
        BY <1>6, <2>1, <3>1 DEF PrefixMem
      <3> QED BY <1>1, <1>2, <1>6, <3>1, <3>2 DEF KvIs
    <2> QED BY <2>2 DEF PrefixMem
  <1>8. PackedMem'
    <2>1. call' # "deciding"
      BY <1>1
    <2> QED BY <2>1, MemoryAfter
  <1> QED BY <1>4, <1>5, <1>7, <1>8 DEF Inv

\* After a failed wait nothing is promised.
LEMMA WaitFailsStep == Inv /\ WaitFails => Inv'
  <1> SUFFICES ASSUME Inv, WaitFails PROVE Inv'
    OBVIOUS
  <1>1. /\ call' = "failed" /\ stream' = Free("pack", stream)
        /\ prefix' = prefix /\ inUse' = inUse /\ batch' = batch /\ UNCHANGED deviceVars
        /\ TypeInv /\ HostInv /\ stream \in Seq(Launchable)
    BY DEF WaitFails, Inv, TypeInv
  <1>2. pk' = pk /\ sk' = sk /\ hidden' = hidden /\ last' = last /\ logits' = logits
    BY <1>1 DEF deviceVars
  <1>3. stream' \in Seq(Launchable)
    BY <1>1, FreeIs
  <1>4. TypeInv' /\ HostInv'
    BY <1>1, <1>2, <1>3 DEF TypeInv, HostInv, PrefillFits
  <1> QED BY <1>1, <1>4, Failed

\* The next session finds the memory of this one, and says nothing of it.
LEMMA DestroyStep == Inv /\ Destroy => Inv'
  <1> SUFFICES ASSUME Inv, Destroy PROVE Inv'
    OBVIOUS
  <1>1. /\ prefix' = NoPrefix /\ inUse' = {} /\ call' = "none" /\ batch' = <<>>
        /\ pk' = [r \in PrefixRows |-> JunkRow] /\ sk' = [r \in SuffixRows |-> JunkRow]
        /\ last' = [b \in Branches |-> Junk]
        /\ logits' = [i \in Scores |-> [ctx |-> Junk, cand |-> 0]]
        /\ stream' = stream /\ hidden' = hidden /\ stream = <<>> /\ TypeInv
    BY DEF Destroy, Inv
  <1>2. TypeInv'
    <2>1. <<>> \in Seq(Asked) /\ <<>> \in Seq(Launchable)
      OBVIOUS
    <2>2. NoPrefix \in [text : PrefixTexts \cup {<<>>}, sealed : BOOLEAN]
      BY DEF NoPrefix
    <2>3. DOMAIN hidden = 1 .. MaxTokens
      BY <1>1 DEF TypeInv
    <2> QED BY <1>1, <2>1, <2>2, <2>3 DEF TypeInv, PrefixRows, SuffixRows, Branches, Scores
  <1>3. HostInv'
    BY <1>1 DEF NoPrefix, HostInv
  <1>4. ~Passing' /\ call' # "deciding"
    BY <1>1 DEF NoPrefix, Passing
  <1>5. StreamInv' /\ PrefixMem' /\ PackedMem'
    BY <1>4 DEF StreamInv, PrefixMem, PackedMem
  <1> QED BY <1>2, <1>3, <1>5 DEF Inv

\* Every step keeps the invariant.
LEMMA Inductive == FreesEarly = FALSE /\ Inv /\ [Next]_vars => Inv'
  <1> SUFFICES ASSUME FreesEarly = FALSE, Inv, [Next]_vars PROVE Inv'
    OBVIOUS
  <1>1. CASE UNCHANGED vars
    <2>1. prefix' = prefix /\ call' = call /\ inUse' = inUse /\ batch' = batch /\ stream' = stream
          /\ UNCHANGED deviceVars /\ TypeInv /\ HostInv
      BY <1>1 DEF vars, hostVars, Inv
    <2>2. pk' = pk /\ sk' = sk /\ hidden' = hidden /\ last' = last /\ logits' = logits
      BY <2>1 DEF deviceVars
    <2>3. TypeInv'
      BY <2>1, <2>2 DEF TypeInv
    <2>4. HostInv'
      BY <2>1 DEF HostInv, PrefillFits, Accepts, Distinct
    <2>5. prefix'.text = prefix.text
      BY <2>1
    <2> QED BY <2>1, <2>3, <2>4, <2>5, PassesStay DEF Inv
  <1>2. ASSUME NEW t \in PrefixTexts, Prefill(t) PROVE Inv'
    BY <1>2, PrefillStep
  <1>3. CASE Seal
    BY <1>3, SealStep
  <1>4. CASE FreeState
    BY <1>4, FreeStateStep
  <1>5. CASE Acquire
    BY <1>5, AcquireStep
  <1>6. ASSUME NEW b \in inUse, Release(b) PROVE Inv'
    BY <1>6, ReleaseStep
  <1>7. ASSUME NEW items \in Batches, Decide(items) PROVE Inv'
    BY <1>7, DecideStep
  <1>8. CASE Return
    BY <1>8, ReturnStep
  <1>9. CASE WaitFails
    BY <1>9, WaitFailsStep
  <1>10. CASE Destroy
    BY <1>10, DestroyStep
  <1>11. CASE Execute
    BY <1>11, EmbedStep, AppendStep, AttendStep, ScatterStep, SegmentedStep, GatherStep, ScoreStep
       DEF Execute
  <1> QED BY <1>1, <1>2, <1>3, <1>4, <1>5, <1>6, <1>7, <1>8, <1>9, <1>10, <1>11 DEF Next

-----------------------------------------------------------------------------
(* The theorems.                                                           *)

\* The arrays of an accepted batch are not empty: what a kernel finds there is
\* not what a freed array leaves.
LEMMA PackedReads ==
  ASSUME NEW items \in Seq(Asked), Accepts(items), NEW n \in Nat,
         NEW m \in 1 .. PackedLength, NEW k, IsPacked(k, items, n, m)
  PROVE  k.array # "none" => k.host # Freed
  <1>1. PICK view : /\ view = Pack(items, n)
            /\ \/ m = 1 /\ k = Kernel("embed", 0, "pack", TokenIds(items), Len(view), n)
               \/ \E l \in 0 .. Layers - 1 :
                     \/ m = 2 * l + 2 /\ k = Kernel("scatter", l, "pack", view, Len(view), n)
                     \/ m = 2 * l + 3 /\ k = Kernel("segmented", l, "pack", view, Len(view), n)
               \/ m = 2 * Layers + 2 /\ k = Kernel("gather", 0, "pack", Offsets(items), Len(items), n)
               \/ m = 2 * Layers + 3 /\ k = Kernel("head", 0, "none", Candidates(items), Len(items), n)
    BY PackedCases
  <1>2. view # Freed
    BY <1>1, ViewAt
  <1>3. TokenIds(items) # Freed
    <2>1. Len(TokenIds(items)) = Off(items, Len(items))
      BY Packed
    <2>2. Off(items, Len(items)) \in 1 .. MaxTokens
      BY Position
    <2>3. Len(TokenIds(items)) # 0
      BY <2>1, <2>2
    <2> QED BY <2>3 DEF Freed
  <1>4. Offsets(items) # Freed
    <2>1. Len(Offsets(items)) = Len(items) /\ Len(items) \in 1 .. MaxBranches
      BY OffsetsAre, Accepted
    <2> QED BY <2>1 DEF Freed
  <1> HIDE DEF Freed
  <1> QED BY <1>1, <1>2, <1>3, <1>4 DEF Kernel

\* What is due is never a kernel whose array is gone.
LEMMA LiveMemory == Inv => KernelsReadLiveMemory
  <1> SUFFICES ASSUME Inv, call # "failed", NEW i \in DOMAIN stream
               PROVE  stream[i].array # "none" => stream[i].host # Freed
    BY DEF KernelsReadLiveMemory
  <1>1. stream \in Seq(Launchable) /\ TypeInv /\ HostInv
    BY DEF Inv, TypeInv
  <1>2. i \in 1 .. Len(stream) /\ stream # <<>>
    BY <1>1
  <1>3. Passing
    BY <1>1, <1>2 DEF HostInv, Passing
  <1>4. PICK s : s = Done + i
    OBVIOUS
  <1>5. IsDue(stream[i], s)
    BY <1>3, <1>4 DEF Inv, StreamInv
  <1>6. PassLength \in Nat /\ PackedLength \in Nat /\ Len(stream) \in Nat /\ Done \in Int /\ TextLen \in Nat
    BY <1>1, Lengths
  <1>7. s < 1 \/ s \in 1 .. PassLength \/ s > PassLength
    BY <1>2, <1>4, <1>6
  <1>8. CASE s < 1
    <2>1. IsAny(stream[i])
      BY <1>5, <1>8 DEF IsDue
    <2> QED BY <2>1 DEF IsAny
  <1>9. CASE s \in 1 .. PassLength
    <2>1. IsPrefill(stream[i], prefix.text, s)
      BY <1>5, <1>9 DEF IsDue
    <2>2. prefix.text # <<>>
      BY <1>3 DEF Passing
    <2>3. IsAny(stream[i])
      BY ONLY <1>9, <2>1, <2>2, PrefillIsAny
    <2> QED BY <2>3 DEF IsAny
  <1>10. CASE s > PassLength
    <2>1. call = "deciding"
      <3>1. CASE call # "deciding"
        <4>1. Done = PassLength + 0 - Len(stream)
          BY <3>1 DEF Done
        <4> QED BY <1>2, <1>4, <1>6, <1>10, <4>1
      <3> QED BY <3>1
    <2>2. Done = PassLength + PackedLength - Len(stream)
      BY <2>1 DEF Done
    <2>3. PICK m : m = s - PassLength
      OBVIOUS
    <2>4. m \in 1 .. PackedLength
      <3>1. \A p, q, n \in Nat : \A d \in Int : \A e \in 1 .. n :
               d = p + q - n /\ d + e > p => (d + e) - p \in 1 .. q
        OBVIOUS
      <3> QED BY ONLY <1>2, <1>4, <1>6, <1>10, <2>2, <2>3, <3>1
    <2>5. IsPacked(stream[i], batch, TextLen, m)
      BY <1>5, <1>10, <2>3 DEF IsDue
    <2>6. batch \in Seq(Asked) /\ Accepts(batch)
      BY <1>1, <2>1 DEF TypeInv, HostInv
    <2> QED BY ONLY <1>6, <2>4, <2>5, <2>6, PackedReads
  <1> QED BY <1>7, <1>8, <1>9, <1>10

\* The induction that both theorems rest on.
LEMMA Invariant == FreesEarly = FALSE /\ Spec => []Inv
  <1> SUFFICES ASSUME FreesEarly = FALSE PROVE Spec => []Inv
    OBVIOUS
  <1>1. Inv /\ [Next]_vars => Inv'
    BY Inductive
  <1> QED BY <1>1, Initially, PTL DEF Spec

\* q3_decide_run() and q3_prefix_prefill() leave kernels queued that read host
\* arrays where they lie.  A client that keeps the prefix's token ids until
\* they are read, and that destroys the session after a failure, never has
\* a kernel queued whose array is gone: the packed arrays, which are freed on
\* every return, are freed with the stream drained.
THEOREM ReadsLiveMemory ==
  ASSUME FreesEarly = FALSE
  PROVE  Spec => []KernelsReadLiveMemory
  <1>1. FreesEarly = FALSE
    OBVIOUS
  <1> QED BY <1>1, Invariant, LiveMemory, PTL

\* What the last kernel of the packed pass leaves is what the promise says.
LEMMA ReturnDecides ==
  Inv /\ Return => \E n \in 1 .. MaxBranches : \E b \in [1 .. n -> Promise!Questions] : Promise!Decide(b)
  <1> SUFFICES ASSUME Inv, Return
               PROVE  \E n \in 1 .. MaxBranches : \E b \in [1 .. n -> Promise!Questions] : Promise!Decide(b)
    OBVIOUS
  <1> DEFINE n == Len(batch)
             asked == [b \in 1 .. n |-> [tokens |-> batch[b].tokens, cands |-> batch[b].cands]]
             K == Len(batch[1].cands)
  <1>1. /\ call = "deciding" /\ stream = <<>> /\ prefix' = prefix
        /\ answers' = [b \in 1 .. n |-> [k \in 1 .. K |-> logits[(b - 1) * K + k - 1]]]
        /\ TypeInv /\ HostInv /\ PackedMem
    BY DEF Return, Drained, Inv
  <1>2. batch \in Seq(Asked) /\ Accepts(batch)
    BY <1>1 DEF TypeInv, HostInv
  <1>3. /\ n \in 1 .. MaxBranches /\ prefix.sealed
        /\ \A b \in 1 .. n : Len(batch[b].cands) = K
    BY <1>2, Accepted
  <1>4. LogitsAre
    <2>1. Done = PassLength + PackedLength - 0
      BY <1>1 DEF Done
    <2>2. PassLength \in Nat /\ PackedLength \in Nat /\ Layers \in Nat
      BY <1>1, Lengths
    <2>3. Done - PassLength >= 2 * Layers + 3
      BY <2>1, <2>2 DEF PackedLength
    <2> QED BY <1>1, <2>3 DEF PackedMem
  <1>5. ASSUME NEW b \in 1 .. n
        PROVE  Promise!Answer(asked[b]) = [k \in 1 .. K |-> logits[(b - 1) * K + k - 1]]
    <2>1. Promise!Answer(asked[b]) =
            [k \in 1 .. Len(batch[b].cands) |->
                [ctx |-> prefix.text \o batch[b].tokens, cand |-> batch[b].cands[k]]]
      BY DEF Promise!Answer
    <2>2. \A k \in 1 .. K : logits[(b - 1) * K + k - 1] =
                               [ctx |-> prefix.text \o batch[b].tokens, cand |-> batch[b].cands[k]]
      BY <1>3, <1>4 DEF LogitsAre, Full
    <2>3. Len(batch[b].cands) = K
      BY <1>3
    <2> HIDE DEF K, asked
    <2> QED BY <2>1, <2>2, <2>3
  <1>6. asked \in [1 .. n -> Promise!Questions]
    <2>1. ASSUME NEW b \in 1 .. n
          PROVE  [tokens |-> batch[b].tokens, cands |-> batch[b].cands] \in Promise!Questions
      <3>1. batch[b] \in Asked
        BY <1>2
      <3> QED BY <3>1 DEF Asked, Promise!Questions
    <2> QED BY <2>1
  <1>7. Len(asked) = n
    BY <1>3, Constants
  <1>8. answers' = [b \in 1 .. Len(asked) |-> Promise!Answer(asked[b])]
    <2> HIDE DEF asked, K
    <2> QED BY <1>1, <1>5, <1>7
  <1>9. Promise!Decide(asked)
    <2> HIDE DEF asked, K
    <2> QED BY <1>1, <1>3, <1>8 DEF Promise!Decide
  <1> HIDE DEF asked
  <1> QED BY <1>3, <1>6, <1>9

\* Every step of the engine is one of the promise, or none.
LEMMA PromisedStep == Inv /\ [Next]_vars => [Promise!Next]_(Promise!vars)
  <1> SUFFICES ASSUME Inv, [Next]_vars PROVE [Promise!Next]_(Promise!vars)
    OBVIOUS
  <1>0. prefix \in [text : PrefixTexts \cup {<<>>}, sealed : BOOLEAN]
    BY DEF Inv, TypeInv
  <1>1. CASE UNCHANGED <<prefix, answers>>
    BY <1>1 DEF Promise!vars
  <1>2. ASSUME NEW t \in PrefixTexts, Prefill(t) PROVE Promise!Next \/ UNCHANGED <<prefix, answers>>
    <2>1. CASE ~prefix.sealed /\ prefix' = [prefix EXCEPT !.text = t] /\ answers' = answers
      <3>1. prefix'.text = t /\ prefix'.sealed = prefix.sealed
        BY <1>0, <2>1
      <3> QED BY <2>1, <3>1 DEF Promise!Next, Promise!Prefill
    <2>2. CASE UNCHANGED <<prefix, answers>>
      BY <2>2
    <2> QED BY <1>2, <2>1, <2>2 DEF Prefill
  <1>3. ASSUME Seal PROVE Promise!Next \/ UNCHANGED <<prefix, answers>>
    <2>1. CASE /\ prefix.text # <<>> /\ prefix' = [prefix EXCEPT !.sealed = TRUE]
               /\ answers' = answers
      <3>1. prefix'.text = prefix.text /\ prefix'.sealed = TRUE
        BY <1>0, <2>1
      <3> QED BY <2>1, <3>1 DEF Promise!Next, Promise!Seal
    <2>2. CASE UNCHANGED <<prefix, answers>>
      BY <2>2
    <2> QED BY <1>3, <2>1, <2>2 DEF Seal
  <1>4. ASSUME Return PROVE Promise!Next
    BY <1>4, ReturnDecides DEF Promise!Next
  <1>5. ASSUME Destroy PROVE Promise!Next
    BY <1>5 DEF Destroy, NoPrefix, Promise!Next, Promise!Destroy
  <1>6. ASSUME NEW items \in Batches, Decide(items) PROVE UNCHANGED <<prefix, answers>>
    BY <1>6 DEF Decide
  <1>7. ASSUME NEW b \in inUse, Release(b) PROVE UNCHANGED <<prefix, answers>>
    BY <1>7 DEF Release
  <1>8. ASSUME FreeState \/ Acquire \/ WaitFails PROVE UNCHANGED <<prefix, answers>>
    BY <1>8 DEF FreeState, Acquire, WaitFails
  <1>9. ASSUME Execute PROVE UNCHANGED <<prefix, answers>>
    BY <1>9 DEF Execute, Embed, AppendRows, Attend, Scatter, Segmented, Gather, ScoreCandidates, hostVars
  <1>10. ASSUME UNCHANGED vars PROVE UNCHANGED <<prefix, answers>>
    BY <1>10 DEF vars, hostVars
  <1>11. Promise!Next \/ UNCHANGED <<prefix, answers>>
    BY <1>2, <1>3, <1>4, <1>5, <1>6, <1>7, <1>8, <1>9, <1>10 DEF Next
  <1> QED BY <1>1, <1>11

\* q3_decide.h: every question of a batch is scored against the prefix and its
\* own suffix.  The engine, with its packed rows, its borrowed caches, its one
\* stream and what earlier prefills, batches and failures have left in its
\* memory, decides as BatchDecisions does, whatever the texts, the questions
\* and the sizes are, as long as the client keeps the token ids of the prefix.
THEOREM DecidesAsPromised ==
  ASSUME FreesEarly = FALSE
  PROVE  Spec => ImplementsPromise
  <1>1. FreesEarly = FALSE
    OBVIOUS
  <1>2. Init => Promise!Init
    BY DEF Init, NoPrefix, Promise!Init
  <1>3. Inv /\ [Next]_vars => [Promise!Next]_(Promise!vars)
    BY PromisedStep
  <1> QED BY <1>1, <1>2, <1>3, Invariant, PTL DEF Spec, ImplementsPromise, Promise!Spec
=============================================================================
