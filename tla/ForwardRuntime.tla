---------------------------- MODULE ForwardRuntime ----------------------------
(***************************************************************************)
(* The forward runtime and the KV cache (src/q3_forward.cu), the linear    *)
(* layer they call (src/q3_q4_linear.cu) and its scratch arena             *)
(* (cuda/q3_mmq.cu), down to the addresses: a runtime slices one           *)
(* allocation, the arena is one of the slices, and the pointer to it is    *)
(* global to the process.                                                  *)
(*                                                                         *)
(* Device memory is cells.  A cell holds a part of a row, and a row is     *)
(* known by what it was computed from: the stage of the pass, the layer,   *)
(* the text and the position of its token.  A kernel that finds anything   *)
(* else than what it is meant to be given leaves Junk.                     *)
(***************************************************************************)
EXTENDS Integers, Sequences, SequencesExt, FiniteSets

CONSTANTS
    Runtimes, Caches,            \* those that a process makes
    Addresses,                   \* where cudaMalloc() puts allocations
    Coexist,                     \* may two runtimes be alive at a time?
    TokenLimits,                 \* max_tokens of a runtime
    Capacities,                  \* of a KV cache
    Texts,                       \* what clients run: a text is known by its name
    Layers,                      \* num_layers
    Hidden, Inter, QWidth, KvWidth,  \* the rows' widths; QWidth is heads * head_dim
    Alignment,                   \* of the slices and of the arena's pieces
    PadTo,                       \* MATRIX_ROW_PADDING
    Tile,                        \* get_mmq_x_max_host(): blocks read behind the last row
    FixupCells,                  \* the stream-K scratch of mul_mat_q_case()
    Slack,                       \* what q3_mmq_arena_bytes() adds
    VecBatch,                    \* Q3_MMVQ_MAX_BATCH
    MaxQueued,                   \* bound: a launch waits while so many kernels are queued
    MaxPasses, MaxFailures       \* bounds on a behaviour

ASSUME RuntimeAssumption ==
    /\ \A n \in {Layers, Hidden, Inter, QWidth, KvWidth, Alignment, PadTo, MaxQueued} :
          n \in Nat \ {0}
    /\ Tile \in Nat /\ FixupCells \in Nat /\ VecBatch \in Nat
    /\ Slack \in Nat /\ Slack >= 2 * (Alignment - 1)
    /\ TokenLimits \subseteq Nat \ {0} /\ Capacities \subseteq Nat \ {0}
    \* The arena is sized for the intermediate size alone.
    /\ Hidden <= Inter /\ QWidth <= Inter
    /\ Coexist \in BOOLEAN /\ MaxPasses \in Nat /\ MaxFailures \in Nat
    /\ "none" \notin Caches

VARIABLES
    mem,      \* the cells of each allocation; an address without one has none
    global,   \* g_workspace_bytes, and the arena: where it begins and its size
    rt,       \* the runtimes
    cache,    \* the KV caches
    stream,   \* the kernels queued on each runtime's stream
    call,     \* the pass that the host is launching
    crash,    \* the process has aborted or a kernel left its allocation
    passes, failures  \* so far

vars == <<mem, global, rt, cache, stream, call, crash, passes, failures>>

Junk == [at |-> "junk", layer |-> 0, txt |-> 0, pos |-> 0]
Row(at, l, txt, pos) == [at |-> at, layer |-> l, txt |-> txt, pos |-> pos]

NoMem == <<>>
Size(a) == Cardinality(DOMAIN mem[a])
Fresh(n) == [c \in 0 .. n - 1 |-> Junk]
Unused == {a \in Addresses : mem[a] = NoMem}

AlignUp(n) == ((n + Alignment - 1) \div Alignment) * Alignment
Padded(k) == ((k + PadTo - 1) \div PadTo) * PadTo

-----------------------------------------------------------------------------
(* The arena.                                                              *)

\* The Q8_1 stage of n rows of k values; the tile kernel reads beyond it.
StageCells(n, k) == n * Padded(k) + (IF n <= VecBatch THEN 0 ELSE Tile)

\* q3_mmq_arena_bytes()
ArenaCells(tokens) == FixupCells + tokens * Padded(Inter) + Tile + Slack

\* arena_begin() and arena_alloc(), then the alloc() of the pool: one cursor.
\* MUTANT: the pool has a cursor of its own.
FixupFromStart(n, k) == 0
FixupAt(n, k) == AlignUp(StageCells(n, k))
ArenaUse(n, k) ==
    AlignUp(StageCells(n, k)) + (IF n <= VecBatch THEN 0 ELSE AlignUp(FixupCells))

-----------------------------------------------------------------------------
(* The workspace of a runtime.                                             *)

Slices(tokens, arena) == <<
    <<"hidden", tokens * Hidden>>, <<"normed", tokens * Hidden>>,
    <<"q", tokens * QWidth>>, <<"k", tokens * KvWidth>>, <<"v", tokens * KvWidth>>,
    <<"attn", tokens * QWidth>>, <<"oproj", tokens * Hidden>>,
    <<"gate", tokens * Inter>>, <<"up", tokens * Inter>>, <<"down", tokens * Hidden>>,
    <<"final", tokens * Hidden>>, <<"logits", 1>>, <<"inv_freq", 1>>, <<"ids", 1>>,
    <<"arena", arena>> >>

Width == [hidden |-> Hidden, normed |-> Hidden, q |-> QWidth, k |-> KvWidth, v |-> KvWidth,
          attn |-> QWidth, oproj |-> Hidden, gate |-> Inter, up |-> Inter, down |-> Hidden,
          final |-> Hidden]

\* How far the first i slices go.
Extent(slices) ==
    LET e[i \in 0 .. Len(slices)] == IF i = 0 THEN 0 ELSE e[i - 1] + AlignUp(slices[i][2])
    IN  e

\* The total and the pointers are two lists in the code.
\* MUTANT: the total has the down projection once for two buffers of its size.
TotalForgets(tokens, arena) ==
    Extent(Slices(tokens, arena))[Len(Slices(tokens, arena))] - AlignUp(tokens * Hidden)
Total(tokens, arena) == Extent(Slices(tokens, arena))[Len(Slices(tokens, arena))]
SliceAt(tokens, arena) ==
    LET s == Slices(tokens, arena) IN
    [b \in {s[i][1] : i \in DOMAIN s} |->
        Extent(s)[(CHOOSE i \in DOMAIN s : s[i][1] = b) - 1]]

NoRuntime == [mem |-> "none"]
Alive == {r \in Runtimes : rt[r] # NoRuntime}
NoCache == [mem |-> "none"]
Held == {c \in Caches : cache[c] # NoCache}

NoArena == [mem |-> "none", lo |-> 0, size |-> 0]
Idle == [r |-> "none"]
Phases == {"embed", "norm", "q", "k", "v", "qk_norm", "rope", "attn", "oproj", "mlp_norm",
           "gate", "up", "act", "down", "final_norm", "cand"}

Init ==
    /\ mem = [a \in Addresses |-> NoMem]
    /\ global = [bytes |-> 0, arena |-> NoArena]
    /\ rt = [r \in Runtimes |-> NoRuntime]
    /\ cache = [c \in Caches |-> NoCache]
    /\ stream = [r \in Runtimes |-> <<>>]
    /\ call = Idle /\ crash = FALSE /\ passes = 0 /\ failures = 0

Ready == call = Idle /\ ~crash

\* cudaFree() returns when the device is idle.
DeviceIdle == \A r \in Runtimes : stream[r] = <<>>

NoRun == [ok |-> FALSE]

\* q3_forward_create(): the arena never shrinks and becomes this runtime's,
\* and stays what it is when the last allocation fails.
Create(r, tokens) ==
    /\ Ready /\ r \notin Alive /\ (Coexist \/ Alive = {})
    /\ LET cells == ArenaCells(tokens)
           bytes == IF cells > global.bytes THEN cells ELSE global.bytes
           at    == SliceAt(tokens, bytes)
       IN \E a \in Unused :
          LET arena == [mem |-> a, lo |-> at["arena"], size |-> bytes] IN
          \/ /\ mem' = [mem EXCEPT ![a] =
                    [Fresh(Total(tokens, bytes)) EXCEPT ![at["inv_freq"]] = Row("freq", 0, 0, 0)]]
             /\ global' = [bytes |-> bytes, arena |-> arena]
             /\ rt' = [rt EXCEPT ![r] =
                    [mem |-> a, at |-> at, tokens |-> tokens, ran |-> NoRun,
                     out |-> Junk, events |-> {}, flags |-> {}]]
             /\ UNCHANGED failures
          \/ /\ failures < MaxFailures /\ failures' = failures + 1
             /\ \/ global' = [global EXCEPT !.bytes = bytes]
                \/ global' = [bytes |-> bytes, arena |-> arena]
             /\ UNCHANGED <<mem, rt>>
    /\ UNCHANGED <<cache, stream, call, crash, passes>>

\* q3_forward_destroy(): nobody tells the arena.
Destroy(r) ==
    /\ Ready /\ r \in Alive /\ DeviceIdle
    /\ mem' = [mem EXCEPT ![rt[r].mem] = NoMem]
    /\ rt' = [rt EXCEPT ![r] = NoRuntime]
    /\ UNCHANGED <<global, cache, stream, call, crash, passes, failures>>

-----------------------------------------------------------------------------
(* The KV cache.                                                           *)

\* q3_kv_cache_init().  Keys and values are allocated and freed together: here
\* they are the halves of one allocation. The text that a client caches is its own
\* affair: the cache counts rows.
KvInit(c, capacity, txt) ==
    /\ Ready /\ c \notin Held
    /\ \E a \in Unused :
          /\ mem' = [mem EXCEPT ![a] = Fresh(2 * Layers * capacity)]
          /\ cache' = [cache EXCEPT ![c] =
                [mem |-> a, capacity |-> capacity, length |-> 0, txt |-> txt]]
    /\ UNCHANGED <<global, rt, stream, call, crash, passes, failures>>

\* MUTANT: the old rows are read with the new stride.
GrownWithNewStride(old, oldCapacity, capacity, length) ==
    [x \in 0 .. 2 * Layers * capacity - 1 |->
        IF x % capacity < length /\ x \in DOMAIN old THEN old[x] ELSE Junk]
\* Row j of each layer is where the new stride has it.
Grown(old, oldCapacity, capacity, length) ==
    [x \in 0 .. 2 * Layers * capacity - 1 |->
        IF x % capacity < length THEN old[((x \div capacity) * oldCapacity) + (x % capacity)]
        ELSE Junk]

\* q3_kv_cache_reserve(): the copies are on the default stream, which waits for
\* the others, and the old rows are freed behind them.
KvReserve(c, capacity) ==
    /\ Ready /\ c \in Held /\ capacity > cache[c].capacity /\ DeviceIdle
    /\ LET kv == cache[c] IN
       \E a \in Unused :
          /\ mem' = [mem EXCEPT
                ![kv.mem] = NoMem, ![a] = Grown(mem[kv.mem], kv.capacity, capacity, kv.length)]
          /\ cache' = [cache EXCEPT ![c].mem = a, ![c].capacity = capacity]
    /\ UNCHANGED <<global, rt, stream, call, crash, passes, failures>>

\* q3_kv_cache_reset(): the next text goes over the last one.
KvReset(c, txt) ==
    /\ Ready /\ c \in Held
    /\ cache' = [cache EXCEPT ![c].length = 0, ![c].txt = txt]
    /\ UNCHANGED <<mem, global, rt, stream, call, crash, passes, failures>>

KvDestroy(c) ==
    /\ Ready /\ c \in Held /\ DeviceIdle
    /\ mem' = [mem EXCEPT ![cache[c].mem] = NoMem]
    /\ cache' = [cache EXCEPT ![c] = NoCache]
    /\ UNCHANGED <<global, rt, stream, call, crash, passes, failures>>

-----------------------------------------------------------------------------
(* A pass, as the kernels that are launched for it.                        *)

\* A kernel reads rows of src at the stage from and leaves dst at the stage to.
Op(kind, src, from, dst, to) == [kind |-> kind, src |-> src, from |-> from, dst |-> dst, to |-> to]

\* q3_cuda_q4k_linear(): the rows are quantised into the arena, then multiplied.
Linear(src, from, dst, to) == <<Op("quant", src, from, dst, to), Op("mul", src, from, dst, to)>>
Map(src, from, dst, to) == <<Op("map", src, from, dst, to)>>
Add(src, from, to) == <<Op("add", src, from, "hidden", to)>>

Steps == [
    embed      |-> <<Op("embed", "none", "none", "hidden", "in")>>,
    norm       |-> Map("hidden", "in", "normed", "normed"),
    q          |-> Linear("normed", "normed", "q", "q"),
    k          |-> Linear("normed", "normed", "k", "k"),
    v          |-> Linear("normed", "normed", "v", "v"),
    qk_norm    |-> Map("q", "q", "q", "q_norm") \o Map("k", "k", "k", "k_norm"),
    rope       |-> <<Op("rope", "q", "q_norm", "q", "q_rope"), Op("rope", "k", "k_norm", "k", "k_rope")>>,
    append     |-> <<Op("append", "k", "k_rope", "none", "none"), Op("append", "v", "v", "none", "none")>>,
    attn       |-> <<Op("attn", "q", "q_rope", "attn", "attn")>>,
    oproj      |-> Linear("attn", "attn", "oproj", "oproj") \o Add("oproj", "oproj", "mid"),
    mlp_norm   |-> Map("hidden", "mid", "normed", "mlp_norm"),
    gate       |-> Linear("normed", "mlp_norm", "gate", "gate"),
    up         |-> Linear("normed", "mlp_norm", "up", "up"),
    act        |-> <<Op("act", "up", "up", "gate", "act")>>,
    down       |-> Linear("gate", "act", "down", "down") \o Add("down", "down", "in"),
    final_norm |-> Map("hidden", "in", "final", "final") \o <<Op("last", "final", "final", "none", "none")>>,
    cand       |-> <<Op("score", "none", "final", "none", "none")>>]

\* run_layer(): the rows go to the cache before the attention reads them.
LayerSteps(l, cached) ==
    LET names == <<"norm", "q", "k", "v", "qk_norm", "rope">>
                 \o (IF cached THEN <<"append">> ELSE <<>>)
                 \o <<"attn", "oproj", "mlp_norm", "gate", "up", "act", "down">>
    IN  [i \in DOMAIN names |-> <<names[i], l>>]

\* q3_forward_run_range()
RangeSteps(first, last, cached) ==
    (IF first = 0 THEN << <<"embed", 0>> >> ELSE <<>>)
    \o FlattenSeq([i \in 1 .. last - first |-> LayerSteps(first + i - 1, cached)])

NoKv == [mem |-> "none"]
Pointers(c) ==
    IF c = "none" THEN NoKv
    ELSE [mem |-> cache[c].mem, capacity |-> cache[c].capacity, length |-> cache[c].length]

\* MUTANT: what an earlier call recorded is taken for recorded by this one.
KeepsFlags(r, first) == rt[r].flags \cup {"final_norm", "cand"}
\* Which phases the run records of those that not every run does.
FreshFlags(r, first) == IF first = 0 THEN {"embed"} ELSE {}

\* The rest of a pass over n tokens of txt from position base on.
Begin(r, c, n, base, txt, first, last, todo, flags) ==
    /\ call' = [r |-> r, c |-> c, n |-> n, base |-> base, txt |-> txt, last |-> last,
                kv |-> Pointers(c), todo |-> todo]
    /\ rt' = [rt EXCEPT ![r].ran = NoRun, ![r].flags = flags]
    /\ passes < MaxPasses /\ passes' = passes + 1
    /\ UNCHANGED <<mem, global, cache, stream, crash, failures>>

Accepted(r, n, first, last) == n \in 1 .. rt[r].tokens /\ first < last /\ last <= Layers

\* A client continues the text of its cache where the cache ends, and has
\* reserved the rows: nothing checks either.
RunCached(r, c, n) ==
    /\ Ready /\ r \in Alive /\ c \in Held
    /\ Accepted(r, n, 0, Layers)
    /\ cache[c].length + n <= cache[c].capacity
    /\ Begin(r, c, n, cache[c].length, cache[c].txt, 0, Layers,
             RangeSteps(0, Layers, TRUE), FreshFlags(r, 0))

\* Without a cache a text is run from its start, and a range of layers may be
\* continued by the next one.
RunUncached(r, n, txt, first, last) ==
    /\ Ready /\ r \in Alive /\ Accepted(r, n, first, last)
    /\ first > 0 => /\ rt[r].ran.ok /\ rt[r].ran.last = first
                    /\ rt[r].ran.n = n /\ rt[r].ran.txt = txt /\ rt[r].ran.base = 0
    /\ Begin(r, "none", n, 0, txt, first, last, RangeSteps(first, last, FALSE), FreshFlags(r, first))

\* q3_forward_final_norm() and q3_candidate_logits(), behind a run of all layers.
Behind(r, step) ==
    /\ Ready /\ r \in Alive /\ rt[r].ran.ok /\ rt[r].ran.last = Layers
    /\ LET run == rt[r].ran IN
       call' = [r |-> r, c |-> "none", n |-> run.n, base |-> run.base, txt |-> run.txt,
                last |-> Layers, kv |-> NoKv, todo |-> << <<step, Layers>> >>]
    /\ UNCHANGED <<mem, global, rt, cache, stream, crash, passes, failures>>
FinalNorm(r) == Behind(r, "final_norm")
Candidates(r) == r \in Alive /\ "final_norm" \in rt[r].flags /\ Behind(r, "cand")

Step == Head(call.todo)[1]
Kernels ==
    [i \in DOMAIN Steps[Step] |->
        [op |-> Steps[Step][i], layer |-> Head(call.todo)[2], n |-> call.n, base |-> call.base,
         txt |-> call.txt, ws |-> [mem |-> rt[call.r].mem, at |-> rt[call.r].at],
         kv |-> call.kv, arena |-> global.arena]]

\* A linear layer aborts the process where the arena is too small for it.
TooLarge(k) == k.op.kind = "quant" /\ ArenaUse(k.n, Width[k.op.src]) > k.arena.size

Recorded(s) ==
    CASE s \in {"final_norm", "cand"} -> [flags |-> {s}, events |-> {s}]
      [] s = "append" -> [flags |-> {}, events |-> {}]
      [] OTHER -> [flags |-> {}, events |-> {s}]

LaunchFails ==
    /\ failures < MaxFailures /\ failures' = failures + 1
    /\ \E n \in 0 .. Len(Kernels) - 1 :
          stream' = [stream EXCEPT ![call.r] = @ \o SubSeq(Kernels, 1, n)]
    /\ rt' = [rt EXCEPT ![call.r].ran = NoRun]
    /\ call' = Idle

LaunchStep ==
    /\ stream' = [stream EXCEPT ![call.r] = @ \o Kernels]
    /\ rt' = [rt EXCEPT ![call.r].events = @ \cup Recorded(Step).events,
                        ![call.r].flags = @ \cup Recorded(Step).flags]
    /\ call' = [call EXCEPT !.todo = Tail(@)]
    /\ UNCHANGED failures

Launch ==
    /\ call # Idle /\ call.todo # <<>> /\ ~crash
    /\ Len(stream[call.r]) + Len(Kernels) <= MaxQueued
    /\ crash' = \E i \in DOMAIN Kernels : TooLarge(Kernels[i])
    /\ LaunchStep \/ LaunchFails
    /\ UNCHANGED <<mem, global, cache, passes>>

\* The run returns: the cache is longer from here on.
Return ==
    /\ call # Idle /\ call.todo = <<>> /\ ~crash
    /\ cache' = IF call.c = "none" THEN cache
                ELSE [cache EXCEPT ![call.c].length = @ + call.n]
    /\ rt' = [rt EXCEPT ![call.r].ran =
          [ok |-> TRUE, n |-> call.n, base |-> call.base, txt |-> call.txt, last |-> call.last]]
    /\ call' = Idle
    /\ UNCHANGED <<mem, global, stream, crash, passes, failures>>

-----------------------------------------------------------------------------
(* The device.                                                             *)

BufferAt(k, b, t) == k.ws.at[b] + t * Width[b]
Cells(a, lo, n) == [mem |-> a, lo |-> lo, hi |-> lo + n, end |-> Size(a)]
Region(k, b) == Cells(k.ws.mem, k.ws.at[b], k.n * Width[b])

\* The row in cells lo, lo + 1, ... of an allocation.
RowAt(a, lo, width) ==
    LET cs == {mem[a][x] : x \in lo .. lo + width - 1} IN
    IF Cardinality(cs) = 1 THEN CHOOSE v \in cs : TRUE ELSE Junk

Stage(k) == Cells(k.arena.mem, k.arena.lo, StageCells(k.n, Width[k.op.src]))
Fixup(k) == Cells(k.arena.mem, k.arena.lo + FixupAt(k.n, Width[k.op.src]),
                  IF k.n <= VecBatch THEN 0 ELSE FixupCells)

\* Where row j of a layer is in the keys ("k") or the values ("v").
CacheRow(kv, which, l, j) ==
    (IF which = "k" THEN 0 ELSE Layers * kv.capacity) + l * kv.capacity + j
CacheRows(k) ==
    [Cells(k.kv.mem, CacheRow(k.kv, k.op.src, k.layer, k.kv.length), k.n)
        EXCEPT !.end = Min({@, CacheRow(k.kv, k.op.src, Layers, 0)})]

Written(k) ==
    CASE k.op.kind = "quant" -> {Stage(k)}
      [] k.op.kind = "mul" -> {Fixup(k), Region(k, k.op.dst)}
      [] k.op.kind = "append" -> {CacheRows(k)}
      [] k.op.kind \in {"last", "score"} -> {}
      [] OTHER -> {Region(k, k.op.dst)}

InBounds(region) == region.lo < region.hi => region.hi <= region.end

\* v at the stage from in this layer becomes the stage to.
Advance(k, v) ==
    IF v.at = k.op.from /\ (v.layer = k.layer \/ v.at = "final")
    THEN [v EXCEPT !.at = k.op.to] ELSE Junk

\* What attention_kernel() reads for token t: the rows of the cache or, without
\* one, of this pass, up to the token's own.
KeyAt(k, which, j) ==
    IF k.kv # NoKv
    THEN mem[k.kv.mem][CacheRow(k.kv, which, k.layer, j)]
    ELSE RowAt(k.ws.mem, BufferAt(k, which, j), Width[which])
Attended(k, t) ==
    LET own     == RowAt(k.ws.mem, BufferAt(k, "q", t), Width["q"])
        visible == k.base + t + 1
        length  == IF k.kv # NoKv THEN k.kv.length + k.n ELSE k.n
        sane    == /\ visible <= length
                   /\ own.at = k.op.from /\ own.layer = k.layer /\ own.pos = visible - 1
                   /\ \A j \in 0 .. visible - 1 :
                         /\ KeyAt(k, "k", j) = Row("k_rope", k.layer, own.txt, j)
                         /\ KeyAt(k, "v", j) = Row("v", k.layer, own.txt, j)
    IN  IF sane THEN Row("attn", k.layer, own.txt, own.pos) ELSE Junk

\* Two rows of one token.
Joined(k, v, w, from, to) ==
    IF v.at = from /\ w.at = k.op.from /\ <<v.layer, v.txt, v.pos>> = <<w.layer, w.txt, w.pos>>
       /\ v.layer = k.layer
    THEN to ELSE Junk

\* The row that a kernel computes for token t.
Computed(k, t) ==
    LET src == IF k.op.src = "none" THEN Junk ELSE RowAt(k.ws.mem, BufferAt(k, k.op.src, t), Width[k.op.src])
        dst == IF k.op.dst = "none" THEN Junk ELSE RowAt(k.ws.mem, BufferAt(k, k.op.dst, t), Width[k.op.dst])
        hidden == IF k.op.to = "mid" THEN "in" ELSE "mid"
    IN  CASE k.op.kind = "embed" -> Row("in", 0, k.txt, k.base + t)
          [] k.op.kind = "map"   -> Advance(k, src)
          [] k.op.kind = "rope"  ->
                IF mem[k.ws.mem][k.ws.at["inv_freq"]].at = "freq" /\ src.pos = k.base + t
                THEN Advance(k, src) ELSE Junk
          [] k.op.kind = "attn"  -> Attended(k, t)
          [] k.op.kind = "act"   ->
                Joined(k, dst, src, "gate", Row("act", k.layer, src.txt, src.pos))
          [] k.op.kind = "add"   ->
                Joined(k, dst, src, hidden,
                       Row(k.op.to, IF k.op.to = "in" THEN k.layer + 1 ELSE k.layer, src.txt, src.pos))
          [] k.op.kind = "mul"   ->
                Advance(k, RowAt(k.arena.mem, k.arena.lo + t * Padded(Width[k.op.src]),
                                 Padded(Width[k.op.src])))
          [] OTHER -> Junk

Fill(region, new(_)) ==
    [mem EXCEPT ![region.mem] =
        [x \in DOMAIN @ |-> IF x \in region.lo .. region.hi - 1 THEN new(x - region.lo) ELSE @[x]]]

Clash(k) ==
    /\ k.op.kind = "mul" /\ Fixup(k).lo < Fixup(k).hi
    /\ Fixup(k).lo < k.arena.lo + StageCells(k.n, Width[k.op.src])

\* The stream-K scratch is written while the tile kernel still reads the stage.
Effect(k) ==
    CASE k.op.kind = "quant" ->
            LET w == Padded(Width[k.op.src]) IN
            Fill(Stage(k), LAMBDA x :
                IF x \div w >= k.n THEN Row("zero", 0, 0, 0)
                ELSE RowAt(k.ws.mem, BufferAt(k, k.op.src, x \div w), Width[k.op.src]))
      [] k.op.kind = "append" ->
            Fill(CacheRows(k), LAMBDA x :
                RowAt(k.ws.mem, BufferAt(k, k.op.src, x), Width[k.op.src]))
      [] k.op.kind \in {"last", "score"} -> mem
      [] OTHER ->
            Fill(Region(k, k.op.dst), LAMBDA x :
                IF Clash(k) THEN Junk ELSE Computed(k, x \div Width[k.op.dst]))

Execute(r) ==
    /\ stream[r] # <<>> /\ ~crash
    /\ LET k == Head(stream[r]) IN
       IF \A region \in Written(k) : InBounds(region)
       THEN /\ mem' = Effect(k)
            /\ rt' = IF k.op.kind # "last" THEN rt
                     ELSE [rt EXCEPT ![r].out =
                            RowAt(k.ws.mem, BufferAt(k, "final", k.n - 1), Hidden)]
            /\ UNCHANGED crash
       ELSE crash' = TRUE /\ UNCHANGED <<mem, rt>>
    /\ stream' = [stream EXCEPT ![r] = Tail(@)]
    /\ UNCHANGED <<global, cache, call, passes, failures>>

-----------------------------------------------------------------------------

Next ==
    \/ \E r \in Runtimes :
          \/ \E tokens \in TokenLimits : Create(r, tokens)
          \/ Destroy(r)
          \/ \E c \in Caches, n \in TokenLimits : RunCached(r, c, n)
          \/ \E n \in TokenLimits, txt \in Texts, first, last \in 0 .. Layers :
                RunUncached(r, n, txt, first, last)
          \/ FinalNorm(r) \/ Candidates(r)
          \/ Execute(r)
    \/ \E c \in Caches :
          \/ \E n \in Capacities, txt \in Texts : KvInit(c, n, txt)
          \/ \E n \in Capacities : KvReserve(c, n)
          \/ \E txt \in Texts : KvReset(c, txt)
          \/ KvDestroy(c)
    \/ Launch \/ Return

Spec == Init /\ [][Next]_vars

-----------------------------------------------------------------------------
(* Properties.                                                             *)

\* No pass aborts for want of scratch and no kernel leaves the allocation that
\* it was given, or writes to one that is gone.
NoCrash == ~crash

\* When its kernels have run, what a run has left is the forward pass of its
\* text: each token's row went through every layer once, in order, attended
\* to the rows before it of its own text, and met no other run's data in the
\* workspace or in the arena that all runs share.
RunIsForward ==
    \A r \in Alive :
        rt[r].ran.ok /\ stream[r] = <<>> /\ call = Idle =>
            LET run == rt[r].ran IN
            /\ \A t \in 0 .. run.n - 1 :
                  RowAt(rt[r].mem, rt[r].at["hidden"] + t * Hidden, Hidden)
                      = Row("in", run.last, run.txt, run.base + t)
            /\ "final_norm" \in rt[r].flags =>
                  rt[r].out = Row("final", Layers, run.txt, run.base + run.n - 1)

\* A cache holds what it says, in every layer it is used for, after runs that
\* continue one another, fail in between, or make it grow.
CacheHoldsText ==
    \A c \in Held :
        DeviceIdle /\ call = Idle =>
            LET kv == cache[c] IN
            /\ kv.length <= kv.capacity
            /\ \A l \in 0 .. Layers - 1 : \A j \in 0 .. kv.length - 1 :
                  /\ mem[kv.mem][CacheRow(kv, "k", l, j)] = Row("k_rope", l, kv.txt, j)
                  /\ mem[kv.mem][CacheRow(kv, "v", l, j)] = Row("v", l, kv.txt, j)

\* q3_forward_synchronize() reads the time of these phases.
PhasesRead(r) == (Phases \ {"embed", "final_norm", "cand"}) \cup rt[r].flags

\* Whenever a client may synchronise, the phases read have been recorded: "an
\* unrecorded event would raise a sticky CUDA error".
OnlyRecordedRead ==
    \A r \in Alive : rt[r].ran.ok => PhasesRead(r) \subseteq rt[r].events
=============================================================================
