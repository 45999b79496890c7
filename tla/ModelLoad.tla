------------------------------- MODULE ModelLoad -------------------------------
(***************************************************************************)
(* q3_model_load() and q3_model_free() (src/q3_systemone.cu): the file is  *)
(* opened and read (GgufReader), its metadata gives the model's geometry   *)
(* (q3_model.c), the payloads are made resident, the tensors are bound by  *)
(* name (q3_binder.c), and the forward runtime and the tokenizer are       *)
(* created.  Each part is owned by a field of the q3_model as soon as it   *)
(* is complete, and q3_model_free() frees what the fields own.             *)
(*                                                                         *)
(* The loader is seen from outside: it makes every tensor that has bytes   *)
(* resident, or fails.  The tokenizer and the runtime succeed or fail.     *)
(***************************************************************************)
EXTENDS GgufReader

CONSTANT
    Matmul       \* q3_binder_qtype_is_matmul()

ASSUME LoadAssumption == Matmul \subseteq DOMAIN TensorType

VARIABLES
    config,    \* q3_model_config; num_layers = 0 until it is read
    weights,   \* q3_weights: the index of the tensor that each use is bound to
    fields,    \* the fields of the q3_model that are not NULL
    status     \* what q3_model_load() returns

loadVars == <<config, weights, fields, status>>
vars == <<readVars, loadVars>>

\* What each field owns.
Owns == [
    path |-> {"path"}, gguf |-> GgufParts,
    config |-> {"config"}, loader |-> {"loader"}, weights |-> {"weights"},
    layer |-> {"layer"}, runtime |-> {"runtime"}, tokenizer |-> {"tokenizer"}]

OwnedBy(fs) == UNION {Owns[f] : f \in fs}
Owned == OwnedBy(fields)

\* "token_embd.weight", "output_norm.weight", "output.weight" and
\* "blk.<l>.<name>.weight".
Embedding == <<"token_embd">>
FinalNorm == <<"output_norm">>
Output    == <<"output">>
Layer(name, l) == <<name, l>>

NoConfig == [num_layers |-> 0]
NoWeights == <<>>

TypeOK ==
    /\ pc \in {"start", "open", "header", "kv", "value", "tensor", "place", "unread",
               "opened", "load", "bind", "create", "tokens", "returned", "freed"}
    /\ pos \in Nat /\ i \in Nat /\ align \in Nat /\ dataPos \in Nat
    /\ fields \subseteq DOMAIN Owns
    /\ held \subseteq UNION {Owns[f] : f \in DOMAIN Owns}
    /\ status \in {"none", "ok", "io", "oom", "runtime", "mismatch", "manifest"}

Init == ReadInit /\ config = NoConfig /\ weights = NoWeights /\ fields = {} /\ status = "none"

Return(s) == pc' = "returned" /\ status' = s

\* The path is duplicated and the device initialised before the file is opened.
Start ==
    /\ pc = "start"
    /\ \/ /\ pc' = "open" /\ fields' = {"path"} /\ held' = {"path"} /\ UNCHANGED status
       \/ /\ MayFail
          /\ \/ UNCHANGED <<fields, held>> /\ Return("oom")
             \/ fields' = {"path"} /\ held' = {"path"} /\ Return("runtime")
    /\ UNCHANGED <<file, pos, i, todo, kv, align, tensors, dataPos, config, weights>>

\* MUTANT: a file that cannot be read is opened again.
UnreadAgain ==
    /\ pc = "unread" /\ pc' = "open" /\ pos' = 0 /\ i' = 1 /\ todo' = <<>>
    /\ kv' = <<>> /\ tensors' = <<>> /\ align' = 0 /\ dataPos' = 0
    /\ UNCHANGED <<file, held, config, weights, fields, status>>
Unread ==
    /\ pc = "unread" /\ Return("io")
    /\ UNCHANGED <<file, pos, i, todo, kv, align, tensors, dataPos, held, config, weights, fields>>

-----------------------------------------------------------------------------
(* q3_model_config_from_gguf(); the keys without their prefix "qwen3.".    *)

GetU32(key) == HasKv(key, {"u32"})
U32Of(key) == ValueOf(key).val
F32Above(key, least) == HasKv(key, {"f32", "f64"}) /\ ValueOf(key).val > least

Required == {"block_count", "embedding_length", "feed_forward_length",
             "attention.head_count", "attention.head_count_kv"}

HeadDim ==
    IF GetU32("attention.key_length") THEN U32Of("attention.key_length")
    ELSE U32Of("embedding_length") \div U32Of("attention.head_count")

HeadDimGiven ==
    \/ GetU32("attention.key_length")
    \/ /\ U32Of("attention.head_count") # 0
       /\ U32Of("embedding_length") % U32Of("attention.head_count") = 0

ConfigOf == [
    num_layers |-> U32Of("block_count"), hidden |-> U32Of("embedding_length"),
    inter |-> U32Of("feed_forward_length"), heads |-> U32Of("attention.head_count"),
    kv_heads |-> U32Of("attention.head_count_kv"), head_dim |-> HeadDim]

HasConfig ==
    /\ HasKv("general.architecture", {"string"})
    /\ ValueOf("general.architecture").val = "qwen3"
    /\ \A f \in Required : GetU32(f)
    /\ HeadDimGiven
    /\ F32Above("attention.layer_norm_rms_epsilon", 0)
    /\ F32Above("rope.freq_base", 1)
    /\ LET c == ConfigOf IN
       /\ \A f \in {"hidden", "num_layers", "heads", "kv_heads", "head_dim"} : c[f] # 0
       /\ c.heads % c.kv_heads = 0

-----------------------------------------------------------------------------
(* q3_model_config_validate(): one tensor of each kind is looked at.       *)

TensorNamed(name) == tensors[FindTensor(name)]
Dim(name, d) == TensorNamed(name).dims[d]
HasMatrix(name) == FindTensor(name) # 0 /\ Len(TensorNamed(name).dims) >= 2

Valid(c) ==
    /\ HasMatrix(Embedding) /\ Dim(Embedding, 1) = c.hidden
    /\ LET q == Layer("attn_q", c.num_layers - 1) IN
       HasMatrix(q) /\ Dim(q, 1) = c.hidden /\ Dim(q, 2) = c.heads * c.head_dim
    /\ LET k == Layer("attn_k", 0) IN
       HasMatrix(k) /\ Dim(k, 2) = c.kv_heads * c.head_dim
    /\ LET g == Layer("ffn_gate", 0) IN
       HasMatrix(g) /\ Dim(g, 1) = c.hidden /\ Dim(g, 2) = c.inter
    /\ LET n == Layer("attn_q_norm", 0) IN
       FindTensor(n) # 0 /\ TensorNamed(n).dims = <<c.head_dim>>
    /\ HasMatrix(Output) /\ Dim(Output, 2) = Dim(Embedding, 2)
    /\ c.heads * c.head_dim <= Dim(Embedding, 2)

Config ==
    /\ pc = "opened"
    /\ \/ /\ MayFail
          /\ fields' = fields \cup {"gguf"} /\ Return("oom") /\ UNCHANGED <<config, held>>
       \/ /\ fields' = fields \cup {"gguf", "config"}
          /\ held' = held \cup {"config"}
          /\ IF HasConfig /\ Valid(ConfigOf)
             THEN config' = ConfigOf /\ pc' = "load" /\ UNCHANGED status
             ELSE Return("mismatch") /\ UNCHANGED config
    /\ UNCHANGED <<file, pos, i, todo, kv, align, tensors, dataPos, weights>>

-----------------------------------------------------------------------------

\* q3_loader_context_create() and q3_loader_load(): an empty file is refused,
\* and a context that could not load is destroyed at once.
Load ==
    /\ pc = "load"
    /\ \/ /\ tensors # <<>>
          /\ pc' = "bind" /\ fields' = fields \cup {"loader"} /\ held' = held \cup {"loader"}
          /\ UNCHANGED status
       \/ (MayFail \/ tensors = <<>>) /\ Return("io") /\ UNCHANGED <<fields, held>>
    /\ UNCHANGED <<file, pos, i, todo, kv, align, tensors, dataPos, config, weights>>

\* res->resident: the planner takes every tensor that has bytes.
Resident(t) == tensors[t].bytes # 0

\* bind_matrix() and bind_vector().
BindsMatrix(name) ==
    LET t == FindTensor(name) IN
    /\ t # 0 /\ Resident(t) /\ Len(tensors[t].dims) = 2 /\ tensors[t].type \in Matmul
    /\ \A d \in 1 .. 2 : tensors[t].dims[d] \in 1 .. Word32Max
BindsVector(name, expected) ==
    LET t == FindTensor(name) IN
    t # 0 /\ Resident(t) /\ tensors[t].type = "f32" /\ tensors[t].dims = <<expected>>

Matrices == {"attn_q", "attn_k", "attn_v", "attn_output", "ffn_gate", "ffn_up", "ffn_down"}
Vectors(c) == [attn_norm |-> c.hidden, attn_q_norm |-> c.head_dim,
               attn_k_norm |-> c.head_dim, ffn_norm |-> c.hidden]
Uses(c) == {Embedding, FinalNorm, Output} \cup
    {Layer(m, l) : m \in Matrices \cup DOMAIN Vectors(c), l \in 0 .. c.num_layers - 1}

Binds(c) ==
    /\ BindsMatrix(Embedding) /\ BindsVector(FinalNorm, c.hidden) /\ BindsMatrix(Output)
    /\ \A l \in 0 .. c.num_layers - 1 :
          /\ \A m \in Matrices : BindsMatrix(Layer(m, l))
          /\ \A v \in DOMAIN Vectors(c) : BindsVector(Layer(v, l), Vectors(c)[v])

K(name) == Dim(name, 1)
N(name) == Dim(name, 2)
Word32(n) == n % (Word32Max + 1)

\* The cross-check at the end of q3_weights_bind(); the widths are uint32_t.
\* MUTANT: the rows of the output projection are not compared.
NoOutputCheck(c) ==
    /\ \A l \in 0 .. c.num_layers - 1 :
        /\ K(Layer("attn_q", l)) = c.hidden /\ N(Layer("attn_q", l)) = Word32(c.heads * c.head_dim)
        /\ \A m \in {"attn_k", "attn_v"} :
              K(Layer(m, l)) = c.hidden /\ N(Layer(m, l)) = Word32(c.kv_heads * c.head_dim)
        /\ N(Layer("attn_output", l)) = c.hidden
        /\ K(Layer("ffn_gate", l)) = c.hidden /\ N(Layer("ffn_gate", l)) = c.inter
        /\ N(Layer("ffn_up", l)) = c.inter
        /\ K(Layer("ffn_down", l)) = c.inter /\ N(Layer("ffn_down", l)) = c.hidden
    /\ K(Embedding) = c.hidden /\ K(Output) = c.hidden
GeometryAgrees(c) ==
    /\ \A l \in 0 .. c.num_layers - 1 :
        /\ K(Layer("attn_q", l)) = c.hidden /\ N(Layer("attn_q", l)) = Word32(c.heads * c.head_dim)
        /\ \A m \in {"attn_k", "attn_v"} :
              K(Layer(m, l)) = c.hidden /\ N(Layer(m, l)) = Word32(c.kv_heads * c.head_dim)
        /\ K(Layer("attn_output", l)) = Word32(c.heads * c.head_dim)
        /\ N(Layer("attn_output", l)) = c.hidden
        /\ K(Layer("ffn_gate", l)) = c.hidden /\ N(Layer("ffn_gate", l)) = c.inter
        /\ N(Layer("ffn_up", l)) = c.inter
        /\ K(Layer("ffn_down", l)) = c.inter /\ N(Layer("ffn_down", l)) = c.hidden
    /\ K(Embedding) = c.hidden /\ K(Output) = c.hidden

\* A tensor that cannot be bound makes q3_weights_bind() free the layers; a
\* geometry that does not agree leaves them to the owner of the weights.
\* MUTANT: the layers are left when a tensor cannot be bound, and forgotten.
LostLayers(c) == {"layer"}
LayersLeft(c) == IF Binds(c) THEN {"layer"} ELSE {}

Bind ==
    /\ pc = "bind"
    /\ \/ /\ MayFail /\ Return("oom") /\ UNCHANGED <<fields, held, weights>>
       \/ /\ MayFail /\ Return("mismatch")
          /\ fields' = fields \cup {"weights"} /\ held' = held \cup {"weights"}
          /\ UNCHANGED weights
       \/ /\ fields' = fields \cup {"weights"} \cup (IF Binds(config) THEN {"layer"} ELSE {})
          /\ held' = held \cup {"weights"} \cup LayersLeft(config)
          /\ IF Binds(config) /\ GeometryAgrees(config)
             THEN /\ weights' = [u \in Uses(config) |-> FindTensor(u)]
                  /\ pc' = "create" /\ UNCHANGED status
             ELSE Return("mismatch") /\ UNCHANGED weights
    /\ UNCHANGED <<file, pos, i, todo, kv, align, tensors, dataPos, config>>

\* q3_forward_create()
Create ==
    /\ pc = "create"
    /\ \/ /\ pc' = "tokens" /\ fields' = fields \cup {"runtime"} /\ held' = held \cup {"runtime"}
          /\ UNCHANGED status
       \/ MayFail /\ Return("runtime") /\ UNCHANGED <<fields, held>>
    /\ UNCHANGED <<file, pos, i, todo, kv, align, tensors, dataPos, config, weights>>

\* q3_tokenizer_init_gguf(); a tokenizer that fails is destroyed with the model.
Tokens ==
    /\ pc = "tokens"
    /\ \/ MayFail /\ Return("oom") /\ UNCHANGED <<fields, held>>
       \/ /\ fields' = fields \cup {"tokenizer"} /\ held' = held \cup {"tokenizer"}
          /\ Return("ok") \/ Return("manifest")
    /\ UNCHANGED <<file, pos, i, todo, kv, align, tensors, dataPos, config, weights>>

\* q3_model_free(); the weights' layers are freed with the weights.
Free ==
    /\ pc = "returned"
    /\ pc' = "freed" /\ held' = held \ Owned /\ fields' = {}
    /\ weights' = NoWeights /\ config' = NoConfig
    /\ UNCHANGED <<file, pos, i, todo, kv, align, tensors, dataPos, status>>

Next ==
    \/ Read /\ UNCHANGED loadVars
    \/ Start \/ Unread \/ Config \/ Load \/ Bind \/ Create \/ Tokens \/ Free

Spec == Init /\ [][Next]_vars
\* The only thread of the load: it goes on while it can.
FairSpec == Spec /\ WF_vars(Next)

-----------------------------------------------------------------------------
(* Properties.                                                             *)

\* Whatever fails, at whatever point, what is still allocated when
\* q3_model_load() returns is exactly what the model's fields own: nothing is
\* lost and nothing that was freed is owned, so q3_model_free() ends with
\* nothing allocated and frees nothing twice.
OwnedIsHeld == /\ pc = "returned" => held = Owned
               /\ pc = "freed" => held = {}

\* The width that a matrix is multiplied with, and the width it fills, of the
\* buffers that q3_forward_create() slices by the configuration.
Widths(c) == [
    attn_q |-> <<c.hidden, c.heads * c.head_dim>>,
    attn_k |-> <<c.hidden, c.kv_heads * c.head_dim>>,
    attn_v |-> <<c.hidden, c.kv_heads * c.head_dim>>,
    attn_output |-> <<c.heads * c.head_dim, c.hidden>>,
    ffn_gate |-> <<c.hidden, c.inter>>, ffn_up |-> <<c.hidden, c.inter>>,
    ffn_down |-> <<c.inter, c.hidden>>]

\* In every layer, each matrix fills exactly its buffer and each but the up
\* projection is as wide as the rows it is multiplied with, the norms are as
\* long as the rows they scale, and every token that the embedding knows has
\* its row in the output; although the configuration was checked against one
\* layer only.
LayersFitBuffers ==
    status = "ok" /\ pc = "returned" =>
        /\ \A l \in 0 .. config.num_layers - 1 :
              /\ \A m \in Matrices :
                    /\ N(Layer(m, l)) = Widths(config)[m][2]
                    /\ m # "ffn_up" => K(Layer(m, l)) = Widths(config)[m][1]
              /\ \A v \in DOMAIN Vectors(config) : K(Layer(v, l)) = Vectors(config)[v]
        /\ N(Output) = N(Embedding) /\ K(Output) = config.hidden

\* No count that a file declares keeps the load from ending.
LoadReturns == <>(pc = "freed")

-----------------------------------------------------------------------------
(* The inductive invariant.                                                *)

AllKv == JunkKv \cup UNION {{f.kv[k] : k \in DOMAIN f.kv} : f \in Files}
AllTensors == JunkTensors \cup UNION {{f.tensors[k] : k \in DOMAIN f.tensors} : f \in Files}

\* What the tables can hold.
KvEntries == {[key |-> e.key, value |-> e.value, pos |-> p] : e \in AllKv, p \in Nat}
TensorEntries ==
    {[Described(t) EXCEPT !.abs = a] : t \in {u \in AllTensors : Acceptable(u)}, a \in Nat}

Placed(t) == InFile(t) /\ t.abs = dataPos + t.rel
HasData == {"place", "opened", "load", "bind", "create", "tokens"}

ReaderInv ==
    /\ file \in Files /\ pos \in Nat /\ pos <= file.size /\ i \in Nat \ {0}
    /\ kv \in Seq(KvEntries) /\ tensors \in Seq(TensorEntries)
    /\ pc \in {"kv", "value", "tensor"} => align \in 1 .. Word32Max
    /\ pc = "value" => kv # <<>>
    /\ pc \in HasData => dataPos \in pos .. WordMax
    /\ pc = "place" => \A k \in 1 .. Len(tensors) : k < i => Placed(tensors[k])
    /\ pc \in HasData \ {"place"} => \A k \in 1 .. Len(tensors) : Placed(tensors[k])

\* What is allocated at each point, and what of it is owned by a field.
HeldInv ==
    /\ pc = "start" => held = {} /\ fields = {}
    /\ pc \in {"open", "unread"} => held = {"path"}
    /\ pc = "header" => held = {"path", "gguf", "fd", "map"}
    /\ pc \in {"kv", "value"} => held = {"path", "gguf", "fd", "map", "kv"}
    /\ pc \in {"tensor", "place", "opened"} => held = {"path"} \cup GgufParts
    /\ pc \in {"open", "unread", "header", "kv", "value", "tensor", "place", "opened"} =>
          fields = {"path"}
    /\ pc \in {"load", "bind", "create", "tokens", "returned"} => held = Owned
    /\ fields \subseteq DOMAIN Owns
    /\ pc = "freed" => held = {}
=============================================================================
