------------------------------ MODULE GgufReader ------------------------------
(***************************************************************************)
(* q3_gguf_open() (src/q3_gguf.c): a file that nobody has checked is read  *)
(* with one cursor, first its header, then n_kv keys with their values,    *)
(* then n_tensors descriptors, whose payloads must lie in the file.        *)
(*                                                                         *)
(* A file is the list of what its bytes say.  Where a declared count goes  *)
(* beyond the list, the bytes are somebody else's and say anything (Junk). *)
(* The fields of an item are read one by one, each after cursor_has(): all *)
(* of them are in the file exactly if their sum is, which is what is       *)
(* tested here.  Sizes are counted in words of four bytes.                 *)
(***************************************************************************)
EXTENDS Integers, Sequences, FiniteSets

CONSTANTS
    Files,         \* see FileOK
    WordMax,       \* UINT64_MAX
    Word32Max,     \* UINT32_MAX
    U32, U64,      \* sizeof(uint32_t), sizeof(uint64_t)
    ScalarSize,    \* scalar_value_size() of the scalar value types
    TensorType,    \* gguf_types[]: block_elems and block_bytes of a known type
    MaxDims,       \* Q3_MAX_DIMS
    MaxNest,       \* how deep skip_value() calls itself (8)
    MinSize,       \* 32 bytes
    DefaultAlign,
    JunkKv, JunkValues, JunkTensors,
    MayFail        \* may open(), fstat(), mmap() or calloc() fail?

\* A value's type, what it holds (a scalar's number, a string's text), and for
\* a string its length, for an array its length and the type of its items.
ValueOK(v) == v.len \in 0 .. WordMax /\ (v.type = "u32" => v.val \in 0 .. Word32Max)
KvOK(e) == e.klen \in 0 .. WordMax /\ ValueOK(e.value)
TensorOK(t) ==
    /\ t.nlen \in 0 .. WordMax /\ t.rel \in 0 .. WordMax
    /\ t.ndim \in Nat /\ t.dims \in Seq(0 .. WordMax)
    /\ t.ndim \in 1 .. MaxDims => t.ndim = Len(t.dims)

FileOK(f) ==
    /\ f.size \in 0 .. WordMax - Word32Max   \* no file is nearly 2^64 bytes long
    /\ f.nkv \in 0 .. WordMax /\ f.ntensors \in 0 .. WordMax
    /\ \A k \in DOMAIN f.kv : KvOK(f.kv[k])
    /\ \A k \in DOMAIN f.tensors : TensorOK(f.tensors[k])

ASSUME ReaderAssumption ==
    /\ WordMax \in Nat /\ Word32Max \in Nat /\ U32 \in Nat \ {0} /\ U64 \in Nat \ {0}
    /\ MaxDims \in Nat /\ MaxNest \in Nat /\ MinSize \in Nat
    /\ 2 * U32 + 2 * U64 <= MinSize
    /\ DefaultAlign \in 1 .. Word32Max /\ MayFail \in BOOLEAN
    /\ \A t \in DOMAIN ScalarSize : ScalarSize[t] \in Nat \ {0}
    /\ DOMAIN ScalarSize \cap {"string", "array"} = {}
    /\ "u32" \in DOMAIN ScalarSize /\ ScalarSize["u32"] = U32
    /\ \A t \in DOMAIN TensorType :
          TensorType[t].elems \in Nat \ {0} /\ TensorType[t].bytes \in Nat \ {0}
    /\ \A f \in Files : FileOK(f)
    /\ \A e \in JunkKv : KvOK(e)
    /\ \A v \in JunkValues : ValueOK(v)
    /\ \A t \in JunkTensors : TensorOK(t)

VARIABLES
    file,
    pc,
    pos,       \* the cursor's position
    i,         \* the loops' counter
    todo,      \* the calls of skip_value(): what each array still has to skip
    kv,        \* m->kv, with the values that the accessors decode
    align,     \* m->alignment
    tensors,   \* m->tensors
    dataPos,   \* m->tensor_data_pos
    held       \* what is allocated

readVars == <<file, pc, pos, i, todo, kv, align, tensors, dataPos, held>>

Word(n) == n % (WordMax + 1)

\* cursor_has()
Has(n) == n <= file.size /\ pos <= file.size - n
Skip(n) == Has(n) /\ pos' = Word(pos + n)

\* align_up()
AlignUp(n, a) == IF n % a = 0 THEN n ELSE Word(n + a - (n % a))

\* MUTANT: the block count is not rounded up.
TruncatedNbytes(type, elements) ==
    IF type \notin DOMAIN TensorType THEN 0
    ELSE (elements \div TensorType[type].elems) * TensorType[type].bytes
\* q3_gguf_type_nbytes(), 0 where it answers false.
TypeNbytes(type, elements) ==
    IF type \notin DOMAIN TensorType THEN 0
    ELSE LET b      == TensorType[type].elems
             blocks == Word(elements + b - 1) \div b IN
         IF blocks > WordMax \div TensorType[type].bytes THEN 0
         ELSE blocks * TensorType[type].bytes

-----------------------------------------------------------------------------

ReadInit ==
    /\ file \in Files
    /\ pc = "start" /\ pos = 0 /\ i = 1 /\ todo = <<>>
    /\ kv = <<>> /\ align = 0 /\ tensors = <<>> /\ dataPos = 0 /\ held = {}

\* What q3_gguf_close() frees.
GgufParts == {"gguf", "fd", "map", "kv", "tensors"}

\* q3_gguf_close() of a file that is not accepted.
Refuse ==
    /\ pc' = "unread" /\ held' = held \ GgufParts
    /\ UNCHANGED <<file, pos, i, todo, kv, align, tensors, dataPos>>

OpenFile ==
    /\ pc = "open"
    /\ \/ /\ file.size >= MinSize
          /\ pc' = "header" /\ held' = held \cup {"gguf", "fd", "map"}
          /\ UNCHANGED <<file, pos, i, todo, kv, align, tensors, dataPos>>
       \/ (MayFail \/ file.size < MinSize) /\ Refuse

\* The header is in every file that is large enough; the check of the count
\* of keys and the table for them follow.
Header ==
    /\ pc = "header"
    /\ \/ /\ file.magic /\ file.version = 3
          /\ Skip(2 * U32 + 2 * U64)
          /\ file.nkv <= file.size - pos'
          /\ pc' = "kv" /\ i' = 1 /\ align' = DefaultAlign
          /\ held' = held \cup {"kv"}
          /\ UNCHANGED <<file, todo, kv, tensors, dataPos>>
       \/ /\ \/ ~file.magic \/ file.version # 3 \/ MayFail
             \/ file.nkv > file.size - (2 * U32 + 2 * U64)
          /\ Refuse

KvAt(k) == IF k \in DOMAIN file.kv THEN {file.kv[k]} ELSE JunkKv

\* Of several alignments the last one counts, whatever q3_gguf_find_kv() says.
NewAlign(e) ==
    IF e.key = "general.alignment" /\ e.value.type = "u32" /\ e.value.val # 0
    THEN e.value.val ELSE align

Key ==
    /\ pc = "kv" /\ i <= file.nkv
    /\ \E e \in KvAt(i) :
          LET n == U64 + e.klen + U32 IN
          \/ /\ Skip(n)
             /\ kv' = Append(kv, [key |-> e.key, value |-> e.value, pos |-> pos'])
             /\ align' = NewAlign(e)
             /\ todo' = <<[type |-> e.value.type, left |-> 1]>>
             /\ pc' = "value"
             /\ UNCHANGED <<file, i, tensors, dataPos, held>>
          \/ ~Has(n) /\ Refuse

-----------------------------------------------------------------------------
(* skip_value(): the head of todo is the array that is being skipped.      *)

Call == todo[1]
IsArrayOfCalls(v) == v.type = "array" /\ v.item \notin DOMAIN ScalarSize

\* The value at the cursor: the key's own, or an item of its array.
ValueHere(v) ==
    IF Len(todo) = 1 THEN v = kv[Len(kv)].value
    ELSE v \in JunkValues /\ v.type = Call.type

\* How far skip_value() goes before it calls itself.
Extent(v) ==
    IF v.type \in DOMAIN ScalarSize THEN ScalarSize[v.type]
    ELSE IF v.type = "string" THEN U64 + v.len
    ELSE IF IsArrayOfCalls(v) THEN U32 + U64
    ELSE U32 + U64 + v.len * ScalarSize[v.item]

Skippable(v) ==
    /\ Len(todo) - 1 <= MaxNest
    /\ v.type \in DOMAIN ScalarSize \cup {"string", "array"}
    /\ v.type = "array" /\ v.item \in DOMAIN ScalarSize =>
          v.len <= WordMax \div ScalarSize[v.item]

Value ==
    /\ pc = "value" /\ Call.left > 0
    /\ \E v \in JunkValues \cup {kv[Len(kv)].value} :
          /\ ValueHere(v)
          /\ \/ /\ Skippable(v) /\ Skip(Extent(v))
                /\ LET rest == <<[Call EXCEPT !.left = @ - 1]>> \o Tail(todo) IN
                   todo' = IF IsArrayOfCalls(v)
                           THEN <<[type |-> v.item, left |-> v.len]>> \o rest ELSE rest
                /\ UNCHANGED <<file, pc, i, kv, align, tensors, dataPos, held>>
             \/ (Skippable(v) => ~Has(Extent(v))) /\ Refuse

\* An item of an unknown type: JunkValues need not have one.
UnknownItem ==
    /\ pc = "value" /\ Call.left > 0 /\ Len(todo) > 1
    /\ Call.type \notin {"string", "array"}
    /\ Refuse

ValueEnd ==
    /\ pc = "value" /\ Call.left = 0
    /\ todo' = Tail(todo)
    /\ IF Len(todo) = 1 THEN pc' = "kv" /\ i' = i + 1 ELSE UNCHANGED <<pc, i>>
    /\ UNCHANGED <<file, pos, kv, align, tensors, dataPos, held>>

-----------------------------------------------------------------------------

TensorTable ==
    /\ pc = "kv" /\ i > file.nkv
    /\ \/ /\ file.ntensors <= file.size - pos
          /\ pc' = "tensor" /\ i' = 1 /\ held' = held \cup {"tensors"}
          /\ UNCHANGED <<file, pos, todo, kv, align, tensors, dataPos>>
       \/ (MayFail \/ file.ntensors > file.size - pos) /\ Refuse

\* The products of the first k dimensions; none may exceed a word.
Product(dims) ==
    LET p[k \in 0 .. Len(dims)] == IF k = 0 THEN 1 ELSE p[k - 1] * dims[k] IN p
Elements(dims) == Product(dims)[Len(dims)]

TensorAt(k) == IF k \in DOMAIN file.tensors THEN {file.tensors[k]} ELSE JunkTensors

Described(t) ==
    [name |-> t.name, dims |-> t.dims, type |-> t.type, rel |-> t.rel,
     elements |-> Elements(t.dims), bytes |-> TypeNbytes(t.type, Elements(t.dims)),
     abs |-> 0]

Acceptable(t) ==
    /\ t.ndim \in 1 .. MaxDims
    /\ \A k \in 1 .. Len(t.dims) : Product(t.dims)[k] \in 0 .. WordMax

Tensor ==
    /\ pc = "tensor" /\ i <= file.ntensors
    /\ \E t \in TensorAt(i) :
          LET n == U64 + t.nlen + U32 + t.ndim * U64 + U32 + U64 IN
          \/ /\ Acceptable(t) /\ Skip(n)
             /\ tensors' = Append(tensors, Described(t))
             /\ i' = i + 1
             /\ UNCHANGED <<file, pc, todo, kv, align, dataPos, held>>
          \/ (Acceptable(t) => ~Has(n)) /\ Refuse

DataStart ==
    /\ pc = "tensor" /\ i > file.ntensors
    /\ dataPos' = AlignUp(pos, align)
    /\ pc' = "place" /\ i' = 1
    /\ UNCHANGED <<file, pos, todo, kv, align, tensors, held>>

InFile(t) ==
    /\ t.rel <= WordMax - dataPos
    /\ t.bytes # 0 =>
          /\ dataPos + t.rel <= file.size
          /\ t.bytes <= file.size - (dataPos + t.rel)

PlaceTensor ==
    /\ pc = "place" /\ i <= Len(tensors)
    /\ \/ /\ InFile(tensors[i])
          /\ tensors' = [tensors EXCEPT ![i].abs = dataPos + tensors[i].rel]
          /\ i' = i + 1
          /\ UNCHANGED <<file, pc, pos, todo, kv, align, dataPos, held>>
       \/ ~InFile(tensors[i]) /\ Refuse

Opened ==
    /\ pc = "place" /\ i > Len(tensors)
    /\ pc' = "opened"
    /\ UNCHANGED <<file, pos, i, todo, kv, align, tensors, dataPos, held>>

Read ==
    \/ OpenFile \/ Header \/ Key \/ Value \/ UnknownItem \/ ValueEnd
    \/ TensorTable \/ Tensor \/ DataStart \/ PlaceTensor \/ Opened

-----------------------------------------------------------------------------
(* The accessors of a file that is open.                                   *)

\* q3_gguf_find_kv(): of several, the first.
FindKv(key) ==
    LET at == {k \in 1 .. Len(kv) : kv[k].key = key} IN
    IF at = {} THEN 0 ELSE CHOOSE k \in at : \A j \in at : k <= j

\* q3_gguf_get_string(), _get_u32(), _get_f32()
HasKv(key, types) == FindKv(key) # 0 /\ kv[FindKv(key)].value.type \in types
ValueOf(key) == kv[FindKv(key)].value

\* find_tensor() and find_index(), 0 for none.
FindTensor(name) ==
    LET at == {k \in 1 .. Len(tensors) : tensors[k].name = name} IN
    IF at = {} THEN 0 ELSE CHOOSE k \in at : \A j \in at : k <= j

-----------------------------------------------------------------------------
(* Properties.                                                             *)

\* What the reader has accepted when it returns can be used without another
\* check: a tensor that has bytes has exactly those of its elements, rounded up
\* to blocks, although both products are computed in words that wrap; they lie
\* behind the descriptors and in the file.
TensorsInFile ==
    pc = "opened" =>
        \A k \in 1 .. Len(tensors) :
            LET t == tensors[k] IN
            t.bytes # 0 =>
                /\ t.abs >= pos /\ t.abs + t.bytes <= file.size
                /\ \E blocks \in 1 .. t.elements :
                      /\ t.bytes = blocks * TensorType[t.type].bytes
                      /\ blocks * TensorType[t.type].elems >= t.elements
                      /\ (blocks - 1) * TensorType[t.type].elems < t.elements
                /\ t.elements = Elements(t.dims)
=============================================================================
