--------------------------- MODULE DecisionEngine ---------------------------
(***************************************************************************)
(* The decision engine (src/q3_decide.cu) on the forward pass              *)
(* (src/q3_forward.cu): a prefix is prefilled and sealed, branches are     *)
(* acquired, and a batch of suffixes runs as one packed pass over          *)
(* [shared prefix | own suffix].                                           *)
(*                                                                         *)
(* The host enqueues kernels on one CUDA stream; the device executes them  *)
(* later, in order.  Kernels read the host's arrays where they lie (token  *)
(* ids, positions, branches, offsets), so what an array holds matters when *)
(* the kernel runs, not when it is launched.                               *)
(*                                                                         *)
(* Numbers are abstracted to what they were computed from.  A hidden row   *)
(* is the text it has seen; a row of K and V is such a text with the       *)
(* position it was rotated to.  Attention over rows that are not those of  *)
(* one text, in order, yields Junk, which stands for any content.          *)
(***************************************************************************)
EXTENDS Integers, Sequences, SequencesExt

CONSTANTS PrefixTexts, SuffixTexts, CandidateLists,  \* what clients give: sequences
          Layers,          \* num_layers
          PrefixCapacity,  \* of q3_prefix_create()
          MaxBranches,     \* of q3_branch_set_create()
          MaxSuffix,       \* of q3_branch_set_create()
          MaxTokens,       \* of the runtime
          MaxCandidates,   \* Q3_MAX_CANDIDATES
          MaxQueued,       \* a launch waits while so many kernels are queued
          FreesEarly,      \* does the client free the prefix's token ids once
                           \* it has sealed the prefix, or only when it is idle?
          MayFail          \* may a launch or a wait fail?

ASSUME EngineAssumption ==
    /\ \A n \in {Layers, PrefixCapacity, MaxBranches, MaxSuffix, MaxTokens,
                 MaxCandidates, MaxQueued} : n \in Nat \ {0}
    /\ FreesEarly \in BOOLEAN /\ MayFail \in BOOLEAN
    /\ \A s \in PrefixTexts \cup SuffixTexts \cup CandidateLists : s \in Seq(Nat) /\ Len(s) > 0

VARIABLES
    prefix,   \* q3_prefix_kv: the text (token_count is its length) and sealed
    inUse,    \* the branches that are in use
    held,     \* the client still has the array of the prefix's token ids
    call,     \* "none", "deciding" in q3_decide_run(), or a call has "failed"
    batch,    \* the batch of the last q3_decide_run()
    answers,  \* the results of the last one that returned true
    stream,   \* the kernels that are queued
    pk, sk,   \* the rows of the prefix and of the suffixes (K and V)
    hidden,   \* the residual stream, one row per token
    last,     \* hidden_per_branch
    logits    \* logits_dev

hostVars   == <<prefix, inUse, held, call, batch, answers>>
deviceVars == <<pk, sk, hidden, last, logits>>
vars       == <<hostVars, stream, deviceVars>>

-----------------------------------------------------------------------------
(* Memory.                                                                 *)

Junk    == <<>>
JunkRow == [ctx |-> Junk, pos |-> 0]

\* [layer][position], as the cache header of q3_kv_cache_alias() lays it out
\* for the append, and as the attention over the two segments reads it.
KvRow(l, j)     == l * PrefixCapacity + j
PrefixRow(l, j) == l * PrefixCapacity + j

\* [branch][layer][position].  MUTANT: the branch is missing.
SuffixRowShared(b, l, j) == l * MaxSuffix + j
SuffixRow(b, l, j)       == (b * Layers + l) * MaxSuffix + j

PrefixRows == 0 .. Layers * PrefixCapacity - 1
SuffixRows == 0 .. MaxBranches * Layers * MaxSuffix - 1
Scores     == 0 .. MaxBranches * MaxCandidates - 1
Branches   == 0 .. MaxBranches - 1

\* The row of layer l for the j-th token of a text (from 0): what enters the
\* first layer has seen its own token only.
RowOf(text, l, j) ==
    [ctx |-> IF l = 0 THEN <<text[j + 1]>> ELSE SubSeq(text, 1, j + 1), pos |-> j]

\* Attention over these rows, of a token whose own row is the last one.
Attention(l, rows, own) ==
    LET text == [j \in DOMAIN rows |-> Last(rows[j].ctx)]
        sane == /\ \A j \in DOMAIN rows : rows[j].ctx # Junk
                /\ \A j \in DOMAIN rows : rows[j] = RowOf(text, l, j - 1)
                /\ own = rows[Len(rows)].ctx
    IN  IF sane THEN text ELSE Junk

\* mem with rows[t] at at[t].
Written(mem, at, rows) ==
    [r \in DOMAIN mem |->
        IF \E t \in DOMAIN at : at[t] = r
        THEN rows[CHOOSE t \in DOMAIN at : at[t] = r] ELSE mem[r]]

-----------------------------------------------------------------------------
(* Kernels.  "array" is the host array a kernel reads, "host" what that     *)
(* array holds; "n" and "base" are passed by value.                         *)

Freed == <<>>

Kernel(kind, l, array, host, n, base) ==
    [kind |-> kind, layer |-> l, array |-> array, host |-> host, n |-> n, base |-> base]

\* Freeing an array leaves the kernels that still have to read it with
\* anything.
Free(array, s) ==
    [i \in DOMAIN s |-> IF s[i].array = array THEN [s[i] EXCEPT !.host = Freed] ELSE s[i]]

\* q3_forward_run_range() on the borrowed cache header, whose length is 0.
PrefillKernels(t) ==
    <<Kernel("embed", 0, "state", t, Len(t), 0)>>
    \o FlattenSeq([i \in 1 .. Layers |->
           <<Kernel("append", i - 1, "none", Freed, Len(t), 0),
             Kernel("attend", i - 1, "none", Freed, Len(t), 0)>>])

\* The packed tokens of a batch behind a prefix of P tokens.
Pack(items, P) ==
    FlattenSeq([b \in 1 .. Len(items) |->
        [j \in 1 .. Len(items[b].tokens) |->
            [branch |-> items[b].branch, local |-> j - 1, pos |-> P + j - 1]]])
TokenIds(items) == FlattenSeq([b \in 1 .. Len(items) |-> items[b].tokens])
Candidates(items) == FlattenSeq([b \in 1 .. Len(items) |-> items[b].cands])

\* branch_offsets without the leading 0: where each suffix ends.
Offsets(items) == [b \in 1 .. Len(items) |-> Len(TokenIds(SubSeq(items, 1, b)))]

\* q3_forward_run_packed() and q3_candidate_logits_batched(), whose candidate
\* ids are staged by the copy before it returns.
PackedKernels(items, P) ==
    LET view == Pack(items, P)
        T    == Len(view)
        B    == Len(items)
    IN  <<Kernel("embed", 0, "pack", TokenIds(items), T, P)>>
        \o FlattenSeq([i \in 1 .. Layers |->
               <<Kernel("scatter", i - 1, "pack", view, T, P),
                 Kernel("segmented", i - 1, "pack", view, T, P)>>])
        \o <<Kernel("gather", 0, "pack", Offsets(items), B, P),
             Kernel("head", 0, "none", Candidates(items), B, P)>>

-----------------------------------------------------------------------------
(* The host.                                                               *)

NoPrefix == [text |-> <<>>, sealed |-> FALSE]

Init ==
    /\ prefix = NoPrefix /\ inUse = {} /\ held = FALSE
    /\ call = "none" /\ batch = <<>> /\ answers = <<>>
    /\ stream = <<>>
    /\ pk = [r \in PrefixRows |-> JunkRow] /\ sk = [r \in SuffixRows |-> JunkRow]
    /\ hidden = [t \in 1 .. MaxTokens |-> Junk]
    /\ last = [b \in Branches |-> Junk]
    /\ logits = [i \in Scores |-> [ctx |-> Junk, cand |-> 0]]

\* The first n of the kernels were launched when a launch failed.
Launched(kernels, n) == stream' = stream \o SubSeq(kernels, 1, n)
HasRoom(kernels) == Len(stream) + Len(kernels) <= MaxQueued

PrefillFits(t) == Len(t) <= PrefixCapacity /\ Len(t) <= MaxTokens

\* A prefix that is not sealed may be prefilled again; token_count is set when
\* everything was launched, and nothing waits for the device.
Prefill(t) ==
    /\ call = "none"
    /\ LET kernels == PrefillKernels(t) IN
       \/ /\ ~prefix.sealed /\ PrefillFits(t) /\ HasRoom(kernels)
          /\ Launched(kernels, Len(kernels))
          /\ prefix' = [prefix EXCEPT !.text = t] /\ held' = TRUE
          /\ UNCHANGED call
       \/ /\ prefix.sealed \/ ~PrefillFits(t)
          /\ call' = "failed" /\ UNCHANGED <<stream, prefix, held>>
       \/ /\ MayFail /\ ~prefix.sealed /\ PrefillFits(t) /\ HasRoom(kernels)
          /\ \E n \in 0 .. Len(kernels) - 1 : Launched(kernels, n)
          /\ call' = "failed" /\ held' = TRUE /\ UNCHANGED prefix
    /\ UNCHANGED <<inUse, batch, answers, deviceVars>>

Seal ==
    /\ call = "none"
    /\ \/ /\ prefix.text # <<>>
          /\ prefix' = [prefix EXCEPT !.sealed = TRUE] /\ UNCHANGED call
       \/ prefix.text = <<>> /\ call' = "failed" /\ UNCHANGED prefix
    /\ UNCHANGED <<inUse, held, batch, answers, stream, deviceVars>>

\* The client frees the token ids of the prefix.  q3_systemone_run() does so
\* right behind the seal; a client that keeps them does so when none is read.
FreeState ==
    /\ call = "none" /\ held /\ prefix.sealed
    /\ FreesEarly \/ \A i \in DOMAIN stream : stream[i].array # "state"
    /\ held' = FALSE /\ stream' = Free("state", stream)
    /\ UNCHANGED <<prefix, inUse, call, batch, answers, deviceVars>>

FreeBranches == (0 .. MaxBranches - 1) \ inUse

Acquire ==
    /\ call = "none"
    /\ \/ /\ FreeBranches # {}
          /\ \E b \in FreeBranches :
                (\A c \in FreeBranches : b <= c) /\ inUse' = inUse \cup {b}
          /\ UNCHANGED call
       \/ FreeBranches = {} /\ call' = "failed" /\ UNCHANGED inUse
    /\ UNCHANGED <<prefix, held, batch, answers, stream, deviceVars>>

Release(b) ==
    /\ call = "none"
    /\ inUse' = inUse \ {b}
    /\ UNCHANGED <<prefix, held, call, batch, answers, stream, deviceVars>>

\* The checks of q3_decide_run().
Accepts(items) ==
    /\ Len(items) \in 1 .. MaxBranches
    /\ prefix.sealed
    /\ Len(items[1].cands) \in 1 .. MaxCandidates
    /\ \A b \in 1 .. Len(items) :
          /\ Len(items[b].tokens) \in 1 .. MaxSuffix
          /\ Len(items[b].cands) = Len(items[1].cands)
          /\ items[b].branch < MaxBranches
    /\ Len(TokenIds(items)) <= MaxTokens

\* The checks, the packing and the launches.  When a launch fails the packed
\* arrays are freed at once, with the kernels launched before it still queued.
Decide(items) ==
    /\ call = "none"
    /\ LET kernels == PackedKernels(items, Len(prefix.text)) IN
       \/ /\ Accepts(items) /\ HasRoom(kernels)
          /\ Launched(kernels, Len(kernels))
          /\ call' = "deciding" /\ batch' = items
       \/ ~Accepts(items) /\ call' = "failed" /\ UNCHANGED <<stream, batch>>
       \/ /\ MayFail /\ Accepts(items) /\ HasRoom(kernels)
          /\ \E n \in 0 .. Len(kernels) - 1 :
                stream' = Free("pack", stream \o SubSeq(kernels, 1, n))
          /\ call' = "failed" /\ UNCHANGED batch
    /\ UNCHANGED <<prefix, inUse, held, answers, deviceVars>>

\* q3_forward_synchronize().  MUTANT: it does not wait.
DoesNotWait == TRUE
Drained == stream = <<>>

\* The wait, the copy of the logits, the results; the packed arrays are freed.
Return ==
    /\ call = "deciding" /\ Drained
    /\ LET K == Len(batch[1].cands) IN
       answers' = [b \in 1 .. Len(batch) |-> [k \in 1 .. K |-> logits[(b - 1) * K + k - 1]]]
    /\ call' = "none" /\ stream' = Free("pack", stream)
    /\ UNCHANGED <<prefix, inUse, held, batch, deviceVars>>

WaitFails ==
    /\ MayFail /\ call = "deciding"
    /\ call' = "failed" /\ stream' = Free("pack", stream)
    /\ UNCHANGED <<prefix, inUse, held, batch, answers, deviceVars>>

\* q3_branch_set_destroy() and q3_prefix_destroy(): cudaFree() returns when the
\* device is idle.  A client does this after any failure; the next session
\* finds the runtime's workspace as it is.
Destroy ==
    /\ call \in {"none", "failed"} /\ stream = <<>>
    /\ prefix' = NoPrefix /\ inUse' = {} /\ held' = FALSE
    /\ call' = "none" /\ batch' = <<>> /\ answers' = <<>>
    /\ pk' = [r \in PrefixRows |-> JunkRow] /\ sk' = [r \in SuffixRows |-> JunkRow]
    /\ last' = [b \in Branches |-> Junk]
    /\ logits' = [i \in Scores |-> [ctx |-> Junk, cand |-> 0]]
    /\ UNCHANGED <<stream, hidden>>

-----------------------------------------------------------------------------
(* The device.                                                             *)

Runs(kind) == stream # <<>> /\ Head(stream).kind = kind /\ stream' = Tail(stream)
op == Head(stream)

\* Rows behind the n-th are left as they are.
Rows(new(_)) == [t \in 1 .. MaxTokens |-> IF t <= op.n THEN new(t) ELSE hidden[t]]

Embed ==
    /\ Runs("embed")
    /\ hidden' = Rows(LAMBDA t : IF op.host = Freed THEN Junk ELSE <<op.host[t]>>)
    /\ UNCHANGED <<hostVars, pk, sk, last, logits>>

\* K and V of the tokens go to the rows behind the cache's length.
AppendRows ==
    /\ Runs("append")
    /\ pk' = Written(pk, [t \in 1 .. op.n |-> KvRow(op.layer, t - 1)],
                         [t \in 1 .. op.n |-> [ctx |-> hidden[t], pos |-> t - 1]])
    /\ UNCHANGED <<hostVars, sk, hidden, last, logits>>

Attend ==
    /\ Runs("attend")
    /\ hidden' = Rows(LAMBDA t :
          Attention(op.layer, [j \in 1 .. t |-> pk[KvRow(op.layer, j - 1)]], hidden[t]))
    /\ UNCHANGED <<hostVars, pk, sk, last, logits>>

\* With its arrays freed the scatter writes anywhere, here: among the rows.
Scatter ==
    /\ Runs("scatter")
    /\ \/ /\ op.host # Freed
          /\ sk' = Written(sk,
                [t \in 1 .. op.n |-> SuffixRow(op.host[t].branch, op.layer, op.host[t].local)],
                [t \in 1 .. op.n |-> [ctx |-> hidden[t], pos |-> op.host[t].pos]])
          /\ UNCHANGED pk
       \/ /\ op.host = Freed
          /\ pk' = [r \in PrefixRows |-> JunkRow] /\ sk' = [r \in SuffixRows |-> JunkRow]
    /\ UNCHANGED <<hostVars, hidden, last, logits>>

\* [prefix | own suffix up to the token itself].
Visible(t) ==
    LET own == op.host[t]
        P   == op.base
    IN  [j \in 1 .. P + own.local + 1 |->
            IF j <= P THEN pk[PrefixRow(op.layer, j - 1)]
            ELSE sk[SuffixRow(own.branch, op.layer, j - P - 1)]]

Segmented ==
    /\ Runs("segmented")
    /\ hidden' = Rows(LAMBDA t :
          IF op.host = Freed THEN Junk ELSE Attention(op.layer, Visible(t), hidden[t]))
    /\ UNCHANGED <<hostVars, pk, sk, last, logits>>

Gather ==
    /\ Runs("gather")
    /\ last' = [b \in Branches |->
          IF b >= op.n THEN last[b]
          ELSE IF op.host = Freed THEN Junk ELSE hidden[op.host[b + 1]]]
    /\ UNCHANGED <<hostVars, pk, sk, hidden, logits>>

\* A dense [branch][candidate] tile.
ScoreCandidates ==
    /\ Runs("head")
    /\ logits' = [i \in Scores |->
          IF i >= Len(op.host) THEN logits[i]
          ELSE [ctx |-> last[i \div (Len(op.host) \div op.n)], cand |-> op.host[i + 1]]]
    /\ UNCHANGED <<hostVars, pk, sk, hidden, last>>

Execute ==
    \/ Embed \/ AppendRows \/ Attend \/ Scatter \/ Segmented \/ Gather \/ ScoreCandidates

-----------------------------------------------------------------------------

Items(b) == [branch : {b}, tokens : SuffixTexts, cands : CandidateLists]

\* Clients put one question on a branch they have acquired, in any order.
Batches ==
    UNION {{items \in [1 .. n -> UNION {Items(b) : b \in inUse}] :
               \A i, j \in 1 .. n : items[i].branch = items[j].branch => i = j} :
           n \in 1 .. MaxBranches}

Next ==
    \/ \E t \in PrefixTexts : Prefill(t)
    \/ Seal \/ FreeState
    \/ Acquire \/ \E b \in inUse : Release(b)
    \/ \E items \in Batches : Decide(items)
    \/ Return \/ WaitFails
    \/ Destroy
    \/ Execute

Spec == Init /\ [][Next]_vars

-----------------------------------------------------------------------------
(* Properties.                                                             *)

OpKinds == {"embed", "append", "attend", "scatter", "segmented", "gather", "head"}
RowOK(row) == DOMAIN row = {"ctx", "pos"} /\ row.pos \in Nat

\* The engine decides as if there were no rows, no packing, no stream and no
\* earlier batch: see BatchDecisions.
Promise == INSTANCE BatchDecisions WITH text <- prefix.text, sealed <- prefix.sealed
ImplementsPromise == Promise!Spec

\* Unless a call has failed, no kernel is queued that reads host memory which
\* has been freed: q3_decide_run() frees its arrays on every return, and the
\* kernels read them where they lie.
KernelsReadLiveMemory ==
    call # "failed" =>
        \A i \in DOMAIN stream : stream[i].array # "none" => stream[i].host # Freed

\* q3_decide.h: a decision attends "over [shared prefix | own suffix]".  What
\* was answered was computed from the state that the client gave, and from
\* the suffix of the question.
DecidedOnTheState ==
    call = "none" =>
        \A b \in 1 .. Len(answers) : \A k \in 1 .. Len(answers[b]) :
            answers[b][k].ctx = prefix.text \o batch[b].tokens
=============================================================================
