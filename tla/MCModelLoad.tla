------------------------------ MODULE MCModelLoad ------------------------------
(***************************************************************************)
(* Instances of ModelLoad for TLC: a small model that can be loaded, and   *)
(* the files that differ from it in one or two places, are cut off, or     *)
(* hold nothing that makes sense.  Words have 12 bits and half words 6, so *)
(* that products and sums of what a file declares do wrap.                 *)
(***************************************************************************)
EXTENDS ModelLoad, TLC

TheTensorTypes == "f32" :> [elems |-> 1, bytes |-> 1] @@ "q4_k" :> [elems |-> 2, bytes |-> 1]
                  @@ "f16" :> [elems |-> 3, bytes |-> 2]
TheScalars == [u32 |-> 1, f32 |-> 1, u64 |-> 2]
TheMatmul == {"q4_k"}

V(type, val) == [type |-> type, val |-> val, len |-> 0, item |-> "none"]
Str(val, len) == [type |-> "string", val |-> val, len |-> len, item |-> "none"]
Arr(item, len) == [type |-> "array", val |-> 0, len |-> len, item |-> item]
Kv(key, value) == [key |-> key, klen |-> 1, value |-> value]
T(name, type, dims, rel) ==
    [name |-> name, nlen |-> 1, ndim |-> Len(dims), dims |-> dims, type |-> type, rel |-> rel]

\* Hidden rows of 2, 2 heads of width 4, one of them for keys, 6 inner, 8 tokens.
GoodKv == <<
    Kv("general.architecture", Str("qwen3", 2)), Kv("block_count", V("u32", 1)),
    Kv("embedding_length", V("u32", 2)), Kv("feed_forward_length", V("u32", 6)),
    Kv("attention.head_count", V("u32", 2)), Kv("attention.head_count_kv", V("u32", 1)),
    Kv("attention.key_length", V("u32", 4)),
    Kv("attention.layer_norm_rms_epsilon", V("f32", 1)), Kv("rope.freq_base", V("f32", 2)),
    Kv("tokens", Arr("string", 2))>>

GoodTensors == <<
    T(Embedding, "q4_k", <<2, 8>>, 0), T(FinalNorm, "f32", <<2>>, 8),
    T(Output, "q4_k", <<2, 8>>, 10),
    T(Layer("attn_norm", 0), "f32", <<2>>, 18), T(Layer("attn_q", 0), "q4_k", <<2, 8>>, 20),
    T(Layer("attn_q_norm", 0), "f32", <<4>>, 28), T(Layer("attn_k", 0), "q4_k", <<2, 4>>, 32),
    T(Layer("attn_k_norm", 0), "f32", <<4>>, 36), T(Layer("attn_v", 0), "q4_k", <<2, 4>>, 40),
    T(Layer("attn_output", 0), "q4_k", <<8, 2>>, 44), T(Layer("ffn_norm", 0), "f32", <<2>>, 52),
    T(Layer("ffn_gate", 0), "q4_k", <<2, 6>>, 54), T(Layer("ffn_up", 0), "q4_k", <<2, 6>>, 60),
    T(Layer("ffn_down", 0), "q4_k", <<6, 2>>, 66)>>

\* The header 6, the keys 4 + a string's 4 or a scalar's 1, the array 7 + its
\* strings, the descriptors of up to 11, the alignment and 72 of payload.
Good == [size |-> 320, magic |-> TRUE, version |-> 3, nkv |-> 10, ntensors |-> 14,
         kv |-> GoodKv, tensors |-> GoodTensors]

Values == {V("u32", 0), V("u32", 3), V("u32", 40), V("f64", 1), V("u64", 2),
           Str("llama", 1), Str("qwen3", WordMax), Arr("u64", 2100)}
KvChanges ==
    {[Good EXCEPT !.kv[k].value = v] : k \in 1 .. 10, v \in Values}
    \cup {[Good EXCEPT !.kv[k].key = "other"] : k \in 1 .. 10}
    \cup {[Good EXCEPT !.kv[10] = Kv("general.alignment", v)] :
             v \in {V("u32", a) : a \in {0, 1, 7, Word32Max}}}
    \cup {[Good EXCEPT !.kv[10].value = Arr("array", 1), !.size = 74]}

Dims == {<<2>>, <<3, 6>>, <<2, 7>>, <<64, 64>>, <<2, 4, 1>>, <<2, 0>>, <<0, WordMax, WordMax>>,
         <<WordMax>>, <<64, 32, 2>>, <<40, 50, 3, 1>>}
TensorChanges ==
    UNION {{[Good EXCEPT !.tensors[k].dims = d, !.tensors[k].ndim = Len(d)],
            [Good EXCEPT !.tensors[k].type = "f32", !.tensors[k].dims = d,
                         !.tensors[k].ndim = Len(d)]} : k \in 1 .. 14, d \in Dims}
    \cup {[Good EXCEPT !.tensors[k].type = t] : k \in 1 .. 14, t \in {"f16", "nvfp4", "f32"}}
    \cup {[Good EXCEPT !.tensors[k].rel = r] : k \in 1 .. 14, r \in {0, 200, WordMax - 5, WordMax}}
    \cup {[Good EXCEPT !.tensors[k].name = n] : k \in 1 .. 14, n \in {Output, <<"other">>}}

\* Two places that belong together: another number of layers, and widths that
\* agree with each other; 8 heads of width 8 wrap in half a word.
WideHeads == [Good EXCEPT
    !.kv[5].value.val = 8, !.kv[7].value.val = 8, !.kv[6].value.val = 8,
    !.tensors[1].dims[2] = 64, !.tensors[3].dims[2] = 64, !.tensors[3].rel = 0,
    !.tensors[5].dims[2] = 64, !.tensors[7].dims[2] = 64,
    !.tensors[6].dims[1] = 8, !.tensors[8].dims[1] = 8]
Pairs ==
    {[Good EXCEPT !.tensors[10].dims = <<k, 2>>, !.kv[5].value.val = h] :
        k \in {4, 8}, h \in {1, 2}}
    \cup {[Good EXCEPT !.kv[2].value.val = l] : l \in {0, 2, Word32Max}}
    \cup {WideHeads, [WideHeads EXCEPT !.tensors[9].dims[2] = 64, !.tensors[10].dims[1] = 64],
          [WideHeads EXCEPT !.tensors[9].dims[2] = 0]}
    \cup {[Good EXCEPT !.kv[7].key = "other", !.kv[3].value.val = h] : h \in {2, 3, 8}}

Sizes == {[Good EXCEPT !.size = n] : n \in {7, 8, 60, 61, 62, 100, 200, 264, 265, 266, 267, 319}}
Counts == {[Good EXCEPT !.nkv = n] : n \in {0, 9, WordMax}}
          \cup {[Good EXCEPT !.nkv = 11, !.size = 74]}
          \cup {[Good EXCEPT !.ntensors = n] : n \in {0, 13, WordMax}}
          \cup {[Good EXCEPT !.ntensors = 15, !.size = 210]}
          \cup {[Good EXCEPT !.magic = FALSE], [Good EXCEPT !.version = 2]}
Junk == [size : {8, 12, 30}, magic : {TRUE}, version : {3}, nkv : {0, 1, 2}, ntensors : {0, 1, 2},
         kv : {<<>>}, tensors : {<<>>}]

TheFiles == {Good} \cup KvChanges \cup TensorChanges \cup Pairs \cup Sizes \cup Counts \cup Junk

TheJunkValues ==
    {Str("junk", n) : n \in {0, WordMax}} \cup {V("u32", 3), V("bad", 0), Arr("u64", 1)}
    \cup {Arr(t, n) : t \in {"string", "array"}, n \in {0, 2, WordMax}}
TheJunkKv == {[key |-> "general.alignment", klen |-> 0, value |-> v] : v \in TheJunkValues}
             \cup {[key |-> "junk", klen |-> WordMax - 8, value |-> V("u32", 1)]}
TheJunkTensors ==
    {[name |-> <<"junk">>, nlen |-> 0, ndim |-> Len(s), dims |-> s, type |-> "f16", rel |-> r] :
        s \in {<<>>, <<0>>, <<WordMax>>, <<5>>, <<2, 3>>}, r \in {0, 9, WordMax}}
=============================================================================
