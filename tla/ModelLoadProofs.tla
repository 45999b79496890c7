---------------------------- MODULE ModelLoadProofs ----------------------------
(* Proofs about ModelLoad and the GgufReader that it extends.              *)
EXTENDS ModelLoad, WellFoundedInduction, TLAPS

-----------------------------------------------------------------------------
(* What is allocated, and what of it is owned.                             *)

LEMMA OwnsNames == DOMAIN Owns = {"path", "gguf", "config", "loader", "weights", "layer",
                                  "runtime", "tokenizer"}
  BY DEF Owns

LEMMA OwnedAdds ==
  ASSUME NEW fs, NEW f
  PROVE  OwnedBy(fs \cup {f}) = OwnedBy(fs) \cup Owns[f]
  BY Zenon DEF OwnedBy

LEMMA OwnedNone == OwnedBy({}) = {}
  BY DEF OwnedBy

\* The fields that own one thing each, of the same name.
OneEach == {"config", "loader", "weights", "layer", "runtime", "tokenizer"}

LEMMA OwnedParts ==
    /\ OwnedBy({"path"}) = {"path"}
    /\ \A fs : /\ OwnedBy(fs \cup {"gguf"}) = OwnedBy(fs) \cup GgufParts
               /\ \A f \in OneEach :
                     OwnedBy(fs \cup {f}) = OwnedBy(fs) \cup {f}
  <1>1. Owns["path"] = {"path"} /\ Owns["gguf"] = GgufParts
        /\ \A f \in OneEach : Owns[f] = {f}
    BY DEF Owns, OneEach
  <1>2. OwnedBy({} \cup {"path"}) = {} \cup {"path"}
    BY <1>1, OwnedAdds, OwnedNone, Zenon
  <1>3. OwnedBy({"path"}) = {"path"}
    <2>1. {} \cup {"path"} = {"path"}
      OBVIOUS
    <2> QED BY <1>2, <2>1, Zenon
  <1>4. \A fs : OwnedBy(fs \cup {"gguf"}) = OwnedBy(fs) \cup GgufParts
    BY <1>1, OwnedAdds, Zenon
  <1>5. ASSUME NEW fs, NEW f \in OneEach
        PROVE  OwnedBy(fs \cup {f}) = OwnedBy(fs) \cup {f}
    <2>1. Owns[f] = {f}
      BY <1>1, Zenon
    <2> QED BY <2>1, OwnedAdds, Zenon
  <1> QED BY <1>3, <1>4, <1>5, Zenon

LEMMA ReadHeld == ASSUME HeldInv, Read, UNCHANGED loadVars PROVE HeldInv'
  <1> USE DEF HeldInv, loadVars
  <1>1. CASE Refuse /\ pc \in {"open", "header", "kv", "value", "tensor", "place"}
    BY <1>1 DEF Refuse, GgufParts
  <1>2. CASE OpenFile /\ ~Refuse
    BY <1>2 DEF OpenFile
  <1>3. CASE Header /\ ~Refuse
    BY <1>3 DEF Header
  <1>4. CASE (Key \/ Value \/ UnknownItem \/ ValueEnd) /\ ~Refuse
    BY <1>4 DEF Key, Value, UnknownItem, ValueEnd
  <1>5. CASE TensorTable /\ ~Refuse
    BY <1>5 DEF TensorTable, GgufParts
  <1>6. CASE (Tensor \/ DataStart \/ PlaceTensor \/ Opened) /\ ~Refuse
    BY <1>6 DEF Tensor, DataStart, PlaceTensor, Opened
  <1>7. pc \in {"open", "header", "kv", "value", "tensor", "place"}
    BY DEF Read, OpenFile, Header, Key, Value, UnknownItem, ValueEnd, TensorTable, Tensor,
           DataStart, PlaceTensor, Opened
  <1> QED BY <1>1, <1>2, <1>3, <1>4, <1>5, <1>6, <1>7 DEF Read

LEMMA LoadHeld ==
  ASSUME HeldInv, Start \/ Unread \/ Config \/ Load \/ Bind \/ Create \/ Tokens \/ Free
  PROVE  HeldInv'
  <1> USE DEF HeldInv, Owned, Return
  <1>1. CASE Start
    BY <1>1, OwnedNone, OwnedParts, OwnsNames DEF OneEach, Start
  <1>2. CASE Unread
    BY <1>2, OwnedParts DEF Unread
  <1>3. CASE Config
    <2>1. held = OwnedBy(fields \cup {"gguf"})
      BY <1>3, OwnedParts DEF Config
    <2>2. fields \cup {"gguf", "config"} = (fields \cup {"gguf"}) \cup {"config"}
      OBVIOUS
    <2>3. held \cup {"config"} = OwnedBy(fields \cup {"gguf", "config"})
      BY <2>1, <2>2, OwnedParts DEF OneEach
    <2>4. {"gguf", "config"} \subseteq DOMAIN Owns
      BY OwnsNames
    <2> QED BY <1>3, <2>1, <2>3, <2>4 DEF Config
  <1>4. CASE Load
    BY <1>4, OwnedParts, OwnsNames DEF OneEach, Load
  <1>5. CASE Bind
    <2>1. held = Owned /\ fields \subseteq DOMAIN Owns
      BY <1>5 DEF Bind
    <2>2. held \cup {"weights"} = OwnedBy(fields \cup {"weights"})
      BY <2>1, OwnedParts DEF OneEach
    <2>3. held \cup {"weights"} \cup {"layer"} = OwnedBy(fields \cup {"weights"} \cup {"layer"})
      BY <2>2, OwnedParts DEF OneEach
    <2>4. {"weights", "layer"} \subseteq DOMAIN Owns
      BY OwnsNames
    <2>5. held' = OwnedBy(fields') /\ fields' \subseteq DOMAIN Owns
      BY <1>5, <2>1, <2>2, <2>3, <2>4 DEF Bind, LayersLeft
    <2>6. pc' \in {"returned", "create"}
      BY <1>5 DEF Bind
    <2> QED BY <2>5, <2>6
  <1>6. CASE Create
    BY <1>6, OwnedParts, OwnsNames DEF OneEach, Create
  <1>7. CASE Tokens
    BY <1>7, OwnedParts, OwnsNames DEF OneEach, Tokens
  <1>8. CASE Free
    BY <1>8 DEF Free
  <1> QED BY <1>1, <1>2, <1>3, <1>4, <1>5, <1>6, <1>7, <1>8

\* Whatever fails, q3_model_load() returns with exactly what the model's fields
\* own, and q3_model_free() ends with nothing allocated.
THEOREM NothingIsLost == Spec => []OwnedIsHeld
  <1>1. Init => HeldInv
    BY DEF Init, ReadInit, HeldInv
  <1>2. HeldInv /\ [Next]_vars => HeldInv'
    <2>1. HeldInv /\ UNCHANGED vars => HeldInv'
      BY DEF HeldInv, vars, readVars, loadVars, Owned
    <2> QED BY <2>1, ReadHeld, LoadHeld DEF Next
  <1>3. HeldInv => OwnedIsHeld
    BY DEF HeldInv, OwnedIsHeld
  <1> QED BY <1>1, <1>2, <1>3, PTL DEF Spec

-----------------------------------------------------------------------------
(* Where the cursor is, and what the tables hold.                          *)

LEMMA WordFits == ASSUME NEW n \in 0 .. WordMax PROVE Word(n) = n
  BY ReaderAssumption DEF Word

LEMMA SizeFits ==
  ASSUME file \in Files
  PROVE  /\ file.size \in Nat /\ file.size + Word32Max <= WordMax
         /\ WordMax \in Nat /\ Word32Max \in Nat
         /\ file.nkv \in Nat /\ file.ntensors \in Nat
  BY ReaderAssumption DEF FileOK

LEMMA SkipMoves ==
  ASSUME file \in Files, pos \in Nat, pos <= file.size, NEW n \in Nat, Skip(n)
  PROVE  pos' \in Nat /\ pos <= pos' /\ pos' <= file.size
  <1>1. pos + n \in 0 .. WordMax /\ pos + n <= file.size
    <2>1. n <= file.size /\ pos <= file.size - n
      BY DEF Skip, Has
    <2>2. \A s, w, m \in Nat : n <= s /\ pos <= s - n /\ s + w <= m
                              => pos + n \in 0 .. m /\ pos + n <= s
      OBVIOUS
    <2> QED BY <2>1, <2>2, SizeFits
  <1> QED BY <1>1, WordFits DEF Skip

\* No value makes the cursor step back.
LEMMA ExtentIsNat == ASSUME NEW v, ValueOK(v), Skippable(v) PROVE Extent(v) \in Nat
  <1>1. U32 \in Nat /\ U64 \in Nat /\ WordMax \in Nat /\ \A t \in DOMAIN ScalarSize : ScalarSize[t] \in Nat
    BY ReaderAssumption
  <1>2. v.len \in Nat
    BY <1>1 DEF ValueOK
  <1>3. v.type \in DOMAIN ScalarSize \cup {"string", "array"}
    BY DEF Skippable
  <1>4. CASE v.type \in DOMAIN ScalarSize
    BY <1>1, <1>4 DEF Extent
  <1>5. CASE v.type \notin DOMAIN ScalarSize /\ v.type = "string"
    BY <1>1, <1>2, <1>5 DEF Extent
  <1>6. CASE v.type \notin DOMAIN ScalarSize /\ v.type # "string" /\ IsArrayOfCalls(v)
    BY <1>1, <1>6 DEF Extent
  <1>7. CASE v.type \notin DOMAIN ScalarSize /\ v.type # "string" /\ ~IsArrayOfCalls(v)
    <2>1. v.item \in DOMAIN ScalarSize
      BY <1>3, <1>7 DEF IsArrayOfCalls
    <2>2. ScalarSize[v.item] \in Nat
      BY <1>1, <2>1
    <2>3. \A a, b, c, d \in Nat : a + b + c * d \in Nat
      OBVIOUS
    <2>4. U32 + U64 + v.len * ScalarSize[v.item] \in Nat
      BY <1>1, <1>2, <2>2, <2>3
    <2>5. Extent(v) = U32 + U64 + v.len * ScalarSize[v.item]
      BY <1>7, Zenon DEF Extent
    <2> QED BY <2>4, <2>5
  <1> QED BY <1>4, <1>5, <1>6, <1>7

LEMMA KvGiven == ASSUME file \in Files, NEW k, NEW e \in KvAt(k) PROVE e \in AllKv /\ KvOK(e)
  BY ReaderAssumption DEF KvAt, AllKv, FileOK

LEMMA TensorGiven ==
  ASSUME file \in Files, NEW k, NEW t \in TensorAt(k) PROVE t \in AllTensors /\ TensorOK(t)
  BY ReaderAssumption DEF TensorAt, AllTensors, FileOK

LEMMA KvEntryOK == ASSUME NEW e \in KvEntries PROVE ValueOK(e.value)
  <1>1. \A x \in AllKv : KvOK(x)
    BY ReaderAssumption DEF AllKv, FileOK
  <1> QED BY <1>1 DEF KvEntries, KvOK

-----------------------------------------------------------------------------
(* The bytes of a tensor, computed in words that wrap.                     *)

LEMMA DivBounds ==
  ASSUME NEW n \in Nat, NEW b \in Nat \ {0}
  PROVE  n \div b \in Nat /\ b * (n \div b) <= n /\ n < b * (n \div b) + b
  OBVIOUS

LEMMA WordWraps ==
  ASSUME NEW e \in 0 .. WordMax, NEW b \in Nat \ {0}, e + b - 1 > WordMax
  PROVE  Word(e + b - 1) \in Nat /\ Word(e + b - 1) < b
  <1>1. WordMax \in Nat
    BY ReaderAssumption
  <1>2. CASE b <= WordMax
    <2>1. \A n, m \in Nat : n < m => (n + m) % m = n
      OBVIOUS
    <2>2. e + b - 1 - (WordMax + 1) \in Nat /\ e + b - 1 - (WordMax + 1) < WordMax + 1
      BY <1>1, <1>2
    <2>3. Word(e + b - 1) = e + b - 1 - (WordMax + 1)
      BY <1>1, <2>1, <2>2 DEF Word
    <2> QED BY <1>1, <2>2, <2>3
  <1>3. CASE b > WordMax
    <2>1. \A n, m \in Nat : m > 0 => n % m \in Nat /\ n % m < m
      OBVIOUS
    <2>2. Word(e + b - 1) \in Nat /\ Word(e + b - 1) < WordMax + 1
      BY <1>1, <2>1 DEF Word
    <2> QED BY <1>1, <1>3, <2>2
  <1> QED BY <1>1, <1>2, <1>3

\* n words of b make up e and no more than they must.
Covers(n, b, e) == n * b >= e /\ (n - 1) * b < e

LEMMA RoundUp ==
  ASSUME NEW e \in Nat, NEW b \in Nat \ {0}, (e + b - 1) \div b # 0
  PROVE  (e + b - 1) \div b \in 1 .. e /\ Covers((e + b - 1) \div b, b, e)
  <1> DEFINE q == (e + b - 1) \div b
  <1>1. q \in Nat /\ b * q <= e + b - 1 /\ e + b - 1 < b * q + b
    BY DivBounds, e + b - 1 \in Nat
  <1> HIDE DEF q
  <1>2. q # 0
    BY DEF q
  <1>3. PICK k \in Nat : q = k + 1
    <2>1. q - 1 \in Nat /\ q = (q - 1) + 1
      BY <1>1, <1>2
    <2> QED BY <2>1
  <1>4. b * (k + 1) = b * k + b /\ (k + 1) * b = b * k + b /\ k * b = b * k /\ b * k \in Nat
    OBVIOUS
  <1>5. k <= b * k
    OBVIOUS
  <1>6. b * k < e /\ b * k + b >= e
    BY <1>1, <1>3, <1>4
  <1>7. q \in 1 .. e
    BY <1>3, <1>4, <1>5, <1>6
  <1>8. q * b = b * k + b /\ (q - 1) * b = b * k
    <2>1. q - 1 = k
      BY <1>3
    <2> QED BY <1>3, <1>4, <2>1
  <1>9. Covers(q, b, e)
    BY <1>4, <1>6, <1>8 DEF Covers
  <1> QED BY <1>7, <1>9 DEF q

LEMMA BytesOfBlocks ==
  ASSUME NEW type, NEW e \in 0 .. WordMax
  PROVE  /\ TypeNbytes(type, e) \in Nat
         /\ TypeNbytes(type, e) # 0 =>
               \E blocks \in 1 .. e : /\ TypeNbytes(type, e) = blocks * TensorType[type].bytes
                                      /\ Covers(blocks, TensorType[type].elems, e)
  <1>1. CASE type \notin DOMAIN TensorType
    BY <1>1 DEF TypeNbytes
  <1>2. CASE type \in DOMAIN TensorType
    <2> DEFINE b == TensorType[type].elems
               size == TensorType[type].bytes
               blocks == Word(e + b - 1) \div b
    <2>1. b \in Nat \ {0} /\ size \in Nat \ {0} /\ WordMax \in Nat
      BY <1>2, ReaderAssumption
    <2>2. TypeNbytes(type, e) = IF blocks > WordMax \div size THEN 0 ELSE blocks * size
      BY <1>2 DEF TypeNbytes
    <2> HIDE DEF b, size
    <2>3. CASE e + b - 1 > WordMax
      <3>1. blocks = 0
        <4>1. \A n \in Nat : n < b => n \div b = 0
          BY <2>1
        <4> QED BY <2>1, <2>3, <4>1, WordWraps
      <3>2. blocks * size = 0
        BY <2>1, <3>1
      <3> QED BY <2>2, <3>2
    <2>4. CASE e + b - 1 <= WordMax
      <3>1. e + b - 1 \in 0 .. WordMax
        BY <2>1, <2>4
      <3>2. blocks = (e + b - 1) \div b
        BY <3>1, WordFits
      <3>3. e + b - 1 \in Nat
        BY <2>1
      <3>4. blocks \in Nat
        BY <2>1, <3>2, <3>3, DivBounds
      <3>5. blocks # 0 => blocks \in 1 .. e /\ Covers(blocks, b, e)
        BY <2>1, <3>2, RoundUp
      <3> HIDE DEF blocks
      <3>6. blocks * size \in Nat /\ (blocks = 0 => blocks * size = 0)
        BY <2>1, <3>4
      <3> QED BY <2>2, <3>5, <3>6 DEF b, size
    <2> QED BY <2>1, <2>3, <2>4
  <1> QED BY <1>1, <1>2

\* Described() says nothing of where the payload is: placing it changes that only.
LEMMA PlacedEntry ==
  ASSUME NEW u \in AllTensors, Acceptable(u), NEW a \in Nat, NEW x \in Nat
  PROVE  /\ [[Described(u) EXCEPT !.abs = a] EXCEPT !.abs = x] \in TensorEntries
         /\ Described(u) \in TensorEntries
  <1> DEFINE at(y) == [name |-> u.name, dims |-> u.dims, type |-> u.type, rel |-> u.rel,
                       elements |-> Elements(u.dims),
                       bytes |-> TypeNbytes(u.type, Elements(u.dims)), abs |-> y]
  <1>1. Described(u) = at(0)
    BY DEF Described
  <1>2. [at(0) EXCEPT !.abs = a] = at(a) /\ [at(a) EXCEPT !.abs = x] = at(x)
        /\ [at(0) EXCEPT !.abs = x] = at(x) /\ [at(0) EXCEPT !.abs = 0] = at(0)
    OBVIOUS
  <1> HIDE DEF at
  <1>3. [[Described(u) EXCEPT !.abs = a] EXCEPT !.abs = x] = [Described(u) EXCEPT !.abs = x]
    BY <1>1, <1>2, Zenon
  <1>4. Described(u) = [Described(u) EXCEPT !.abs = 0]
    BY <1>1, <1>2, Zenon
  <1>5. \A y \in Nat : [Described(u) EXCEPT !.abs = y] \in TensorEntries
    BY DEF TensorEntries
  <1>6. 0 \in Nat
    OBVIOUS
  <1> QED BY <1>3, <1>4, <1>5, <1>6, Zenon

LEMMA EntryOK ==
  ASSUME NEW t \in TensorEntries
  PROVE  /\ t.bytes \in Nat /\ t.rel \in Nat /\ t.abs \in Nat
         /\ t.elements = Elements(t.dims)
         /\ t.bytes # 0 =>
               \E blocks \in 1 .. t.elements : /\ t.bytes = blocks * TensorType[t.type].bytes
                                               /\ Covers(blocks, TensorType[t.type].elems, t.elements)
  <1>1. PICK u \in AllTensors, a \in Nat : Acceptable(u) /\ t = [Described(u) EXCEPT !.abs = a]
    BY DEF TensorEntries
  <1>2. TensorOK(u)
    BY ReaderAssumption DEF AllTensors, FileOK
  <1>3. /\ t.rel = u.rel /\ t.abs = a /\ t.dims = u.dims /\ t.type = u.type
        /\ t.elements = Elements(u.dims) /\ t.bytes = TypeNbytes(u.type, Elements(u.dims))
    BY <1>1 DEF Described
  <1>4. Len(u.dims) \in 1 .. Len(u.dims)
    BY <1>1, <1>2, ReaderAssumption DEF Acceptable, TensorOK
  <1>5. Elements(u.dims) \in 0 .. WordMax
    BY <1>1, <1>4 DEF Acceptable, Elements
  <1>6. u.rel \in Nat
    BY <1>2, ReaderAssumption DEF TensorOK
  <1> QED BY <1>3, <1>5, <1>6, BytesOfBlocks

-----------------------------------------------------------------------------
(* The reader's steps.                                                     *)

LEMMA RefuseKeeps == ASSUME ReaderInv, Refuse PROVE ReaderInv'
  BY DEF ReaderInv, Refuse, HasData

\* The table stays as it is, and so does where it was placed.
LEMMA SamePlaces ==
  ASSUME UNCHANGED <<file, dataPos, tensors>>
  PROVE  \A k : Placed(tensors[k])' <=> Placed(tensors[k])
  BY DEF Placed, InFile

LEMMA HeaderKeeps == ASSUME ReaderInv, Header PROVE ReaderInv'
  <1>1. CASE Refuse
    BY <1>1, RefuseKeeps
  <1>2. CASE ~Refuse
    <2>1. Skip(2 * U32 + 2 * U64) /\ 2 * U32 + 2 * U64 \in Nat
      BY <1>2, ReaderAssumption DEF Header
    <2>2. pos' \in Nat /\ pos' <= file.size
      BY <2>1, SkipMoves DEF ReaderInv
    <2>3. DefaultAlign \in 1 .. Word32Max
      BY ReaderAssumption
    <2> QED BY <1>2, <2>2, <2>3 DEF Header, ReaderInv, HasData
  <1> QED BY <1>1, <1>2

LEMMA KeyKeeps == ASSUME ReaderInv, Key PROVE ReaderInv'
  <1>1. CASE Refuse
    BY <1>1, RefuseKeeps
  <1>2. CASE ~Refuse
    <2>1. PICK e \in KvAt(i) :
            /\ Skip(U64 + e.klen + U32)
            /\ kv' = Append(kv, [key |-> e.key, value |-> e.value, pos |-> pos'])
            /\ align' = NewAlign(e)
            /\ pc' = "value"
            /\ UNCHANGED <<file, i, tensors, dataPos>>
      BY <1>2 DEF Key
    <2>2. e \in AllKv /\ KvOK(e)
      BY KvGiven DEF ReaderInv
    <2>3. U64 + e.klen + U32 \in Nat
      BY <2>2, ReaderAssumption DEF KvOK
    <2>4. pos' \in Nat /\ pos' <= file.size
      BY <2>1, <2>3, SkipMoves DEF ReaderInv
    <2>5. [key |-> e.key, value |-> e.value, pos |-> pos'] \in KvEntries
      BY <2>2, <2>4 DEF KvEntries
    <2>6. kv' \in Seq(KvEntries) /\ kv' # <<>>
      BY <2>1, <2>5 DEF ReaderInv
    <2>7. align' \in 1 .. Word32Max
      <3>1. align \in 1 .. Word32Max
        BY DEF ReaderInv, Key
      <3>2. e.value.type = "u32" => e.value.val \in 0 .. Word32Max
        BY <2>2 DEF KvOK, ValueOK
      <3>3. Word32Max \in Nat
        BY ReaderAssumption
      <3> QED BY <2>1, <3>1, <3>2, <3>3 DEF NewAlign
    <2> QED BY <2>1, <2>4, <2>6, <2>7 DEF ReaderInv, HasData
  <1> QED BY <1>1, <1>2

LEMMA ValueKeeps == ASSUME ReaderInv, Value PROVE ReaderInv'
  <1>1. CASE Refuse
    BY <1>1, RefuseKeeps
  <1>2. CASE ~Refuse
    <2>1. PICK v \in JunkValues \cup {kv[Len(kv)].value} :
            /\ Skippable(v) /\ Skip(Extent(v))
            /\ UNCHANGED <<file, pc, i, kv, align, tensors, dataPos>>
      BY <1>2 DEF Value
    <2>2. ValueOK(v)
      <3>1. kv \in Seq(KvEntries) /\ kv # <<>>
        BY DEF ReaderInv, Value
      <3>2. kv[Len(kv)] \in KvEntries
        BY <3>1
      <3> QED BY <3>2, KvEntryOK, ReaderAssumption
    <2>3. pos' \in Nat /\ pos' <= file.size
      BY <2>1, <2>2, ExtentIsNat, SkipMoves DEF ReaderInv
    <2>4. pc' = "value"
      BY <2>1 DEF Value
    <2> QED BY <2>1, <2>3, <2>4 DEF ReaderInv, HasData
  <1> QED BY <1>1, <1>2

LEMMA TensorKeeps == ASSUME ReaderInv, Tensor PROVE ReaderInv'
  <1>1. CASE Refuse
    BY <1>1, RefuseKeeps
  <1>2. CASE ~Refuse
    <2>1. PICK t \in TensorAt(i) :
            /\ Acceptable(t)
            /\ Skip(U64 + t.nlen + U32 + t.ndim * U64 + U32 + U64)
            /\ tensors' = Append(tensors, Described(t))
            /\ i' = i + 1
            /\ UNCHANGED <<file, pc, kv, align, dataPos>>
      BY <1>2 DEF Tensor
    <2>2. t \in AllTensors /\ TensorOK(t)
      BY TensorGiven DEF ReaderInv
    <2>3. U64 + t.nlen + U32 + t.ndim * U64 + U32 + U64 \in Nat
      <3>1. \A a, b, c, d \in Nat : a + b + c + d * a + c + a \in Nat
        OBVIOUS
      <3>2. U64 \in Nat /\ U32 \in Nat /\ t.nlen \in Nat /\ t.ndim \in Nat
        BY <2>2, ReaderAssumption DEF TensorOK
      <3> QED BY <3>1, <3>2
    <2>4. pos' \in Nat /\ pos' <= file.size
      BY <2>1, <2>3, SkipMoves DEF ReaderInv
    <2>5. Described(t) \in TensorEntries
      BY <2>1, <2>2, PlacedEntry
    <2>6. tensors' \in Seq(TensorEntries)
      BY <2>1, <2>5 DEF ReaderInv
    <2>7. pc' = "tensor" /\ i' \in Nat \ {0}
      BY <2>1 DEF Tensor, ReaderInv
    <2> QED BY <2>1, <2>4, <2>6, <2>7 DEF ReaderInv, HasData, Tensor
  <1> QED BY <1>1, <1>2

\* The data lie behind the descriptors: the alignment does not wrap.
LEMMA DataStartKeeps == ASSUME ReaderInv, DataStart PROVE ReaderInv'
  <1>1. align \in 1 .. Word32Max /\ pos \in Nat /\ pos <= file.size /\ file \in Files
    BY DEF ReaderInv, DataStart
  <1>2. AlignUp(pos, align) \in pos .. WordMax
    <2>1. \A n \in Nat, a \in Nat \ {0} : n % a \in Nat /\ n % a < a
      OBVIOUS
    <2>2. pos % align \in Nat /\ pos % align < align
      BY <1>1, <2>1, SizeFits
    <2>3. pos + align - (pos % align) \in pos .. WordMax /\ pos \in 0 .. WordMax
      BY <1>1, <2>2, SizeFits
    <2>4. pos + align - (pos % align) \in 0 .. WordMax
      BY <1>1, <2>3
    <2> QED BY <1>1, <2>3, <2>4, WordFits, SizeFits DEF AlignUp
  <1> QED BY <1>2 DEF DataStart, ReaderInv, HasData

LEMMA PlaceKeeps == ASSUME ReaderInv, PlaceTensor PROVE ReaderInv'
  <1>1. CASE Refuse
    BY <1>1, RefuseKeeps
  <1>2. CASE ~Refuse
    <2> DEFINE t == tensors[i]
    <2>1. /\ InFile(t) /\ pc = "place" /\ i \in 1 .. Len(tensors)
          /\ tensors' = [tensors EXCEPT ![i].abs = dataPos + t.rel]
          /\ i' = i + 1
          /\ UNCHANGED <<file, pc, pos, kv, align, dataPos>>
      BY <1>2 DEF PlaceTensor, ReaderInv
    <2>2. tensors \in Seq(TensorEntries) /\ t \in TensorEntries /\ dataPos \in Nat
      BY <2>1, SizeFits DEF ReaderInv, HasData
    <2>3. dataPos + t.rel \in Nat
      BY <2>2, EntryOK
    <2>4. [t EXCEPT !.abs = dataPos + t.rel] \in TensorEntries
      <3>1. PICK u \in AllTensors, a \in Nat : Acceptable(u) /\ t = [Described(u) EXCEPT !.abs = a]
        BY <2>2 DEF TensorEntries
      <3> QED BY <2>3, <3>1, PlacedEntry
    <2>5. /\ tensors' \in Seq(TensorEntries) /\ Len(tensors') = Len(tensors)
          /\ tensors'[i] = [t EXCEPT !.abs = dataPos + t.rel]
          /\ \A k \in 1 .. Len(tensors) : k # i => tensors'[k] = tensors[k]
      BY <2>1, <2>2, <2>4
    <2>6. \A k : k = i => Placed(tensors[k])'
      <3>1. t.abs \in Nat /\ tensors'[i].abs = dataPos + t.rel /\ tensors'[i].rel = t.rel
            /\ tensors'[i].bytes = t.bytes
        <4>1. PICK u \in AllTensors, a \in Nat : Acceptable(u) /\ t = [Described(u) EXCEPT !.abs = a]
          BY <2>2 DEF TensorEntries
        <4> QED BY <2>5, <4>1 DEF Described
      <3> SUFFICES ASSUME NEW k, k = i PROVE Placed(tensors[k])'
        OBVIOUS
      <3>2. tensors'[k] = tensors'[i] /\ InFile(t)
        BY <2>1
      <3> QED BY <2>1, <3>1, <3>2 DEF Placed, InFile
    <2>7. \A k \in 1 .. Len(tensors) : k < i => Placed(tensors[k])
      BY <2>1 DEF ReaderInv
    <2>8. \A k \in 1 .. Len(tensors) : k # i => (Placed(tensors[k])' <=> Placed(tensors[k]))
      BY <2>1, <2>5 DEF Placed, InFile
    <2>9. \A k \in 1 .. Len(tensors') : k < i' => Placed(tensors[k])'
      <3> SUFFICES ASSUME NEW k \in 1 .. Len(tensors'), k < i' PROVE Placed(tensors[k])'
        OBVIOUS
      <3>1. CASE k = i
        BY <2>6, <3>1
      <3>2. CASE k # i
        <4>1. k < i /\ k \in 1 .. Len(tensors)
          BY <2>1, <2>2, <2>5, <3>2
        <4> QED BY <2>7, <2>8, <3>2, <4>1
      <3> QED BY <3>1, <3>2
    <2>10. i' \in Nat \ {0}
      BY <2>1
    <2> QED BY <2>1, <2>5, <2>9, <2>10 DEF ReaderInv, HasData
  <1> QED BY <1>1, <1>2

LEMMA ReadKeeps == ASSUME ReaderInv, Read PROVE ReaderInv'
  <1>1. CASE OpenFile
    BY <1>1, RefuseKeeps DEF OpenFile, ReaderInv, HasData
  <1>2. CASE UnknownItem
    BY <1>2, RefuseKeeps DEF UnknownItem
  <1>3. CASE ValueEnd
    BY <1>3 DEF ValueEnd, ReaderInv, HasData
  <1>4. CASE TensorTable
    BY <1>4, RefuseKeeps DEF TensorTable, ReaderInv, HasData
  <1>5. CASE Opened
    <2>1. \A k \in 1 .. Len(tensors) : Placed(tensors[k])
      BY <1>5 DEF Opened, ReaderInv
    <2>2. \A k \in 1 .. Len(tensors) : Placed(tensors[k])'
      BY <1>5, <2>1, SamePlaces DEF Opened
    <2> QED BY <1>5, <2>2 DEF Opened, ReaderInv, HasData
  <1> QED BY <1>1, <1>2, <1>3, <1>4, <1>5, HeaderKeeps, KeyKeeps, ValueKeeps, TensorKeeps,
             DataStartKeeps, PlaceKeeps DEF Read

\* Nothing of the load after it touches what the reader has read.
LEMMA LoadKeeps ==
  ASSUME ReaderInv, Start \/ Unread \/ Config \/ Load \/ Bind \/ Create \/ Tokens \/ Free
  PROVE  ReaderInv'
  <1>1. UNCHANGED <<file, pos, i, kv, align, tensors, dataPos>>
    BY DEF Start, Unread, Config, Load, Bind, Create, Tokens, Free
  <1>2. /\ pc' \notin {"header", "kv", "value", "tensor", "place"}
        /\ pc' \in HasData => pc \in HasData \ {"place"}
    BY DEF Start, Unread, Config, Load, Bind, Create, Tokens, Free, Return, HasData
  <1>3. \A k : Placed(tensors[k])' <=> Placed(tensors[k])
    BY <1>1, SamePlaces
  <1> QED BY <1>1, <1>2, <1>3 DEF ReaderInv

\* Whatever a file says of itself, a tensor that has bytes has exactly those of
\* its elements, behind the descriptors and in the file.
THEOREM TensorsLieInTheFile == Spec => []TensorsInFile
  <1>1. Init => ReaderInv
    BY SizeFits DEF Init, ReadInit, ReaderInv, HasData
  <1>2. ReaderInv /\ [Next]_vars => ReaderInv'
    <2>1. ReaderInv /\ UNCHANGED vars => ReaderInv'
      BY SamePlaces DEF ReaderInv, vars, readVars
    <2> QED BY <2>1, ReadKeeps, LoadKeeps DEF Next
  <1>3. ReaderInv => TensorsInFile
    <2> SUFFICES ASSUME ReaderInv, pc = "opened",
                        NEW k \in 1 .. Len(tensors), tensors[k].bytes # 0
                 PROVE  LET t == tensors[k] IN
                        /\ t.abs >= pos /\ t.abs + t.bytes <= file.size
                        /\ \E blocks \in 1 .. t.elements :
                              /\ t.bytes = blocks * TensorType[t.type].bytes
                              /\ blocks * TensorType[t.type].elems >= t.elements
                              /\ (blocks - 1) * TensorType[t.type].elems < t.elements
                        /\ t.elements = Elements(t.dims)
      BY DEF TensorsInFile
    <2> DEFINE t == tensors[k]
    <2>1. t \in TensorEntries /\ Placed(t) /\ dataPos \in pos .. WordMax /\ pos \in Nat /\ file \in Files
      BY DEF ReaderInv, HasData
    <2>2. t.bytes \in Nat /\ t.rel \in Nat
      BY <2>1, EntryOK
    <2> HIDE DEF t
    <2>3. t.bytes # 0
      BY DEF t
    <2>4. t.abs = dataPos + t.rel /\ dataPos + t.rel <= file.size
          /\ t.bytes <= file.size - (dataPos + t.rel)
      BY <2>1, <2>3 DEF Placed, InFile
    <2>5. t.abs >= pos /\ t.abs + t.bytes <= file.size
      <3>1. \A d, r, b, n, m \in Nat : m <= d /\ d + r <= n /\ b <= n - (d + r)
                                     => d + r >= m /\ (d + r) + b <= n
        OBVIOUS
      <3>2. dataPos \in Nat /\ pos <= dataPos /\ file.size \in Nat
        BY <2>1, SizeFits
      <3> QED BY <2>1, <2>2, <2>4, <3>1, <3>2
    <2> QED BY <2>1, <2>3, <2>5, EntryOK DEF t, Covers
  <1> QED BY <1>1, <1>2, <1>3, PTL DEF Spec

-----------------------------------------------------------------------------
(* What the configuration and the weights say of each other.               *)

LEMMA MinExists ==
  ASSUME NEW S, S \subseteq Nat, S # {}
  PROVE  \E m \in S : \A n \in S : m <= n
  <1> DEFINE R == {ss \in Nat \X Nat : ss[1] < ss[2]}
  <1>1. IsWellFoundedOn(R, Nat)
    BY NatLessThanWellFounded, Zenon DEF OpToRel
  <1>2. PICK m \in S : \A n \in S : ~(<<n, m>> \in R)
    <2> HIDE DEF R
    <2> QED BY <1>1, WFMin, Zenon
  <1>3. ASSUME NEW n \in S, n < m PROVE FALSE
    <2>1. <<n, m>> \in R
      BY <1>3
    <2> QED BY <1>2, <2>1, Zenon
  <1> QED BY <1>3

LEMMA KvFound ==
  ASSUME NEW key, kv \in Seq(KvEntries), FindKv(key) # 0
  PROVE  FindKv(key) \in 1 .. Len(kv)
  <1> DEFINE at == {k \in 1 .. Len(kv) : kv[k].key = key}
  <1>1. at # {} /\ FindKv(key) = CHOOSE k \in at : \A j \in at : k <= j
    BY Zenon DEF FindKv
  <1>2. \E k \in at : \A j \in at : k <= j
    BY <1>1, MinExists, at \subseteq Nat
  <1>3. FindKv(key) \in at
    BY <1>1, <1>2, Zenon
  <1> QED BY <1>3

LEMMA LayersAreCounted ==
  ASSUME ReaderInv, HasConfig
  PROVE  ConfigOf.num_layers \in Nat \ {0}
  <1>1. GetU32("block_count") /\ ConfigOf.num_layers # 0
    BY DEF HasConfig, Required
  <1>2. kv[FindKv("block_count")] \in KvEntries
    BY <1>1, KvFound DEF GetU32, HasKv, ReaderInv
  <1>3. ValueOf("block_count").type = "u32" /\ ValueOK(ValueOf("block_count"))
    BY <1>1, <1>2, KvEntryOK DEF GetU32, HasKv, ValueOf
  <1>4. U32Of("block_count") \in Nat
    BY <1>3, ReaderAssumption DEF ValueOK, U32Of
  <1> QED BY <1>1, <1>4 DEF ConfigOf

Bound == Binds(config) /\ GeometryAgrees(config)

BoundInv ==
    /\ pc \in {"load", "bind", "create", "tokens"} =>
          Valid(config) /\ config.num_layers \in Nat \ {0}
    /\ pc \in {"create", "tokens"} => Bound
    /\ pc = "returned" /\ status = "ok" => Valid(config) /\ config.num_layers \in Nat \ {0} /\ Bound

\* The file's tensors, the configuration and what was checked of them stay.
LEMMA TensorsStay ==
  ASSUME UNCHANGED tensors
  PROVE  \A name : /\ FindTensor(name)' = FindTensor(name)
                   /\ TensorNamed(name)' = TensorNamed(name)
                   /\ \A d : Dim(name, d)' = Dim(name, d)
                   /\ HasMatrix(name)' <=> HasMatrix(name)
  <1>1. \A name : FindTensor(name)' = FindTensor(name)
    BY DEF FindTensor
  <1>2. \A name : TensorNamed(name)' = TensorNamed(name)
    BY <1>1 DEF TensorNamed
  <1>3. \A name, d : Dim(name, d)' = Dim(name, d)
    BY <1>2 DEF Dim
  <1>4. \A name : HasMatrix(name)' <=> HasMatrix(name)
    BY <1>1, <1>2 DEF HasMatrix
  <1> QED BY <1>1, <1>2, <1>3, <1>4

LEMMA StaysBound ==
  ASSUME UNCHANGED <<tensors, config>>
  PROVE  (Valid(config)' <=> Valid(config)) /\ (Bound' <=> Bound)
  <1>1. Valid(config)' <=> Valid(config)
    BY TensorsStay DEF Valid
  <1>2. \A name : BindsMatrix(name)' <=> BindsMatrix(name)
    BY TensorsStay DEF BindsMatrix, Resident
  <1>3. \A name, n : BindsVector(name, n)' <=> BindsVector(name, n)
    BY TensorsStay DEF BindsVector, Resident
  <1>4. Binds(config)' <=> Binds(config)
    BY <1>2, <1>3 DEF Binds, Vectors
  <1>5. GeometryAgrees(config)' <=> GeometryAgrees(config)
    <2>1. \A name : K(name)' = K(name) /\ N(name)' = N(name)
      BY TensorsStay DEF K, N
    <2>2. config' = config
      OBVIOUS
    <2> QED BY <2>1, <2>2 DEF GeometryAgrees
  <1> QED BY <1>1, <1>4, <1>5 DEF Bound

LEMMA BoundStep == ASSUME ReaderInv, BoundInv, Next PROVE BoundInv'
  <1>1. CASE Read /\ UNCHANGED loadVars
    <2>1. pc' \notin {"load", "bind", "create", "tokens", "returned"}
      BY <1>1 DEF Read, OpenFile, Header, Key, Value, UnknownItem, ValueEnd, TensorTable, Tensor,
                  DataStart, PlaceTensor, Opened, Refuse
    <2> QED BY <2>1 DEF BoundInv
  <1>2. CASE Start \/ Unread \/ Free
    BY <1>2 DEF Start, Unread, Free, Return, BoundInv
  <1>3. CASE Config
    <2>1. CASE pc' = "load"
      <3>1. HasConfig /\ Valid(ConfigOf) /\ config' = ConfigOf /\ tensors' = tensors
        BY <1>3, <2>1 DEF Config, Return
      <3>2. Valid(config)'
        BY <3>1, TensorsStay DEF Valid
      <3>3. config'.num_layers \in Nat \ {0}
        BY <3>1, LayersAreCounted
      <3> QED BY <2>1, <3>2, <3>3 DEF BoundInv
    <2>2. CASE pc' # "load"
      BY <1>3, <2>2 DEF Config, Return, BoundInv
    <2> QED BY <2>1, <2>2
  <1>4. CASE Load \/ Bind \/ Create \/ Tokens
    <2>1. UNCHANGED <<tensors, config>>
      BY <1>4 DEF Load, Bind, Create, Tokens
    <2>2. CASE Load
      BY <2>1, <2>2, StaysBound DEF Load, Return, BoundInv
    <2>3. CASE Bind
      <3>1. pc' = "create" => Bound
        BY <2>3 DEF Bind, Return, Bound
      <3> QED BY <2>1, <2>3, <3>1, StaysBound DEF Bind, Return, BoundInv
    <2>4. CASE Create
      BY <2>1, <2>4, StaysBound DEF Create, Return, BoundInv
    <2>5. CASE Tokens
      BY <2>1, <2>5, StaysBound DEF Tokens, Return, BoundInv
    <2> QED BY <1>4, <2>2, <2>3, <2>4, <2>5
  <1> QED BY <1>1, <1>2, <1>3, <1>4 DEF Next

\* A width that some tensor has is no wider than its word.
LEMMA WidthFits ==
  ASSUME NEW name, BindsMatrix(name), NEW width, Dim(name, 2) = width
  PROVE  Word32(width) = width
  <1>1. width \in 1 .. Word32Max
    BY DEF BindsMatrix, Dim, TensorNamed
  <1> QED BY <1>1, ReaderAssumption DEF Word32

LEMMA BoundFits ==
  ASSUME BoundInv, pc = "returned", status = "ok"
  PROVE  /\ \A l \in 0 .. config.num_layers - 1 :
              /\ \A m \in Matrices :
                    /\ N(Layer(m, l)) = Widths(config)[m][2]
                    /\ m # "ffn_up" => K(Layer(m, l)) = Widths(config)[m][1]
              /\ \A v \in DOMAIN Vectors(config) : K(Layer(v, l)) = Vectors(config)[v]
         /\ N(Output) = N(Embedding) /\ K(Output) = config.hidden
  <1> DEFINE c == config
             last == c.num_layers - 1
  <1>1. Valid(c) /\ Binds(c) /\ GeometryAgrees(c) /\ c.num_layers \in Nat \ {0}
    BY DEF BoundInv, Bound
  <1>2. last \in 0 .. c.num_layers - 1 /\ 0 \in 0 .. c.num_layers - 1
    BY <1>1
  <1>3. Word32(c.heads * c.head_dim) = c.heads * c.head_dim
    <2>1. BindsMatrix(Layer("attn_q", last)) /\ Dim(Layer("attn_q", last), 2) = c.heads * c.head_dim
      BY <1>1, <1>2 DEF Valid, Binds, Matrices
    <2> QED BY <2>1, WidthFits
  <1>4. Word32(c.kv_heads * c.head_dim) = c.kv_heads * c.head_dim
    <2>1. BindsMatrix(Layer("attn_k", 0)) /\ Dim(Layer("attn_k", 0), 2) = c.kv_heads * c.head_dim
      BY <1>1, <1>2 DEF Valid, Binds, Matrices
    <2> QED BY <2>1, WidthFits
  <1>5. ASSUME NEW l \in 0 .. c.num_layers - 1, NEW m \in Matrices
        PROVE  /\ N(Layer(m, l)) = Widths(c)[m][2]
               /\ m # "ffn_up" => K(Layer(m, l)) = Widths(c)[m][1]
    BY <1>1, <1>3, <1>4 DEF GeometryAgrees, Widths, Matrices
  <1>6. ASSUME NEW l \in 0 .. c.num_layers - 1, NEW v \in DOMAIN Vectors(c)
        PROVE  K(Layer(v, l)) = Vectors(c)[v]
    <2>1. BindsVector(Layer(v, l), Vectors(c)[v])
      BY <1>1 DEF Binds
    <2> QED BY <2>1 DEF BindsVector, K, Dim, TensorNamed
  <1>7. N(Output) = N(Embedding) /\ K(Output) = c.hidden
    BY <1>1 DEF Valid, GeometryAgrees, N
  <1> QED BY <1>5, <1>6, <1>7

\* A model that was loaded has matrices and norms that fit the buffers which
\* the forward pass slices by the configuration, in every layer.
THEOREM LoadedModelFits == Spec => []LayersFitBuffers
  <1>1. Init => ReaderInv /\ BoundInv
    BY SizeFits DEF Init, ReadInit, ReaderInv, HasData, BoundInv
  <1>2. ReaderInv /\ BoundInv /\ [Next]_vars => ReaderInv' /\ BoundInv'
    <2>1. ReaderInv /\ BoundInv /\ UNCHANGED vars => ReaderInv' /\ BoundInv'
      BY SamePlaces, StaysBound DEF ReaderInv, BoundInv, vars, readVars, loadVars
    <2>2. Next => (Read /\ UNCHANGED loadVars) \/ Start \/ Unread \/ Config \/ Load \/ Bind
                  \/ Create \/ Tokens \/ Free
      BY DEF Next
    <2> QED BY <2>1, <2>2, ReadKeeps, LoadKeeps, BoundStep
  <1>3. BoundInv => LayersFitBuffers
    BY BoundFits DEF LayersFitBuffers
  <1> QED BY <1>1, <1>2, <1>3, PTL DEF Spec
================================================================================
