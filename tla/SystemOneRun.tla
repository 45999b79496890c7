---------------------------- MODULE SystemOneRun ----------------------------
(***************************************************************************)
(* q3_systemone_run() (src/q3_systemone.cu): one System One request is one *)
(* prefix prefill, one branch per question and one packed decision.        *)
(*                                                                         *)
(* What the caller must get right to reach q3_decide_run(), and what every *)
(* one of the many error returns must give back, is the subject here: the  *)
(* ledger counts the owners of every allocation.  Texts and tokens are     *)
(* known by their number of tokens; logits and probabilities are left out. *)
(* What the prefix and the branch set hold is DecisionEngine's subject;    *)
(* here they are the allocations they are made of.  The strings of one     *)
(* table of options are one resource, owned in part or in whole.  The model *)
(* is loaded: the server starts its worker after that, and ends it before  *)
(* it frees the model (Q3Server).                                          *)
(***************************************************************************)
EXTENDS Integers, Sequences, FiniteSetsExt

CONSTANTS MaxQ,           \* Q3_INFER_MAX_Q
          MaxSuffix,      \* Q3_SYSTEMONE_MAX_SUFFIX
          PrefixCapacity, \* Q3_SYSTEMONE_PREFIX_CAPACITY
          MaxCandidates,  \* Q3_MAX_CANDIDATES
          MayFail         \* may an allocation or a CUDA call fail?

QuestionTypes == {"choice", "score", "noul", "other"}
Shapes        == {"absent", "object", "array", "other"}
StateKinds    == {"absent", "null", "scalar", "string", "container", "oversized"}

\* "object" says whether the question is a JSON object, "options" are the
\* members of its criteria and "tokens" is the length of its encoded suffix.
QuestionOK(qn) ==
    /\ {"object", "type", "shape", "options", "tokens"} \subseteq DOMAIN qn
    /\ qn.object \in BOOLEAN /\ qn.type \in QuestionTypes /\ qn.shape \in Shapes
    /\ Len(qn.options) \in Nat /\ qn.tokens \in Nat \ {0}

RequestOK(r) ==
    /\ DOMAIN r = {"state", "stateTokens", "questions"}
    /\ r.state \in StateKinds /\ r.stateTokens \in Nat
    /\ Len(r.questions) \in Nat
    /\ \A i \in 1 .. Len(r.questions) : QuestionOK(r.questions[i])

\* What the constants are; SystemOneApi assumes it.
ConstantsOK ==
    /\ MaxQ \in Nat \ {0} /\ MaxSuffix \in Nat \ {0} /\ PrefixCapacity \in Nat \ {0}
    /\ MaxCandidates \in Nat \ {0, 1}
    /\ MayFail \in BOOLEAN

\* The largest packed suffix batch, and the capacity that q3_model_load()
\* gives the runtime.
MaxPacked     == MaxQ * MaxSuffix
RuntimeTokens == IF MaxPacked > PrefixCapacity THEN MaxPacked ELSE PrefixCapacity

VARIABLES
    request,   \* the parsed request
    pc,        \* where q3_systemone_run() is
    q,         \* the question being built: those before it are stored
    a,         \* the question being packed or answered
    total,     \* total_tokens
    sealed,    \* the prefix is sealed
    handles,   \* the branches acquired
    status,    \* the status returned
    ledger     \* how often each allocation is owned

B == Len(request.questions)
Question == request.questions[q]

Once(name)   == <<name, 0>>
Of(name, i)  == <<name, i>>
Tables       == {Once("res"), Once("items"), Once("dres"), Once("handles")}

\* The allocations of q3_prefix_create() and q3_branch_set_create(), in order.
PrefixParts  == <<"prefix", "prefix_k", "prefix_v">>
SetParts     == <<"set", "in_use", "suffix_k", "suffix_v", "scratch">>
Parts(names) == {Once(names[i]) : i \in 1 .. Len(names)}
Prefix       == Parts(PrefixParts)
BranchSet    == Parts(SetParts)

\* Three tables of a question's options, and the strings they point to.
OptionTables(i)  == {"keys", "labels", "texts"} \X {i}
OptionStrings(i) == {"key", "label", "text"} \X {i}
Options(i)       == OptionTables(i) \cup OptionStrings(i)

PerQuestion  == {"masked", "suffix", "sids", "cids", "probs", "logits"}
Resources    == Tables \cup Prefix \cup BranchSet
                \cup {Once("state_text"), Once("state_ids"), Once("padded")}
                \cup (PerQuestion \X (1 .. MaxQ))
                \cup UNION {Options(i) : i \in 1 .. MaxQ}

Stages == {"idle", "start", "dump", "encode", "prefix", "set", "prefill", "tables",
           "build", "mask", "options", "strings", "text", "unbuild", "suffix",
           "candidates", "acquire", "decide", "answers", "cleanup", "returned"}
Statuses == {"OK", "PARSE", "UNSUPPORTED", "RUNTIME", "OOM"}

Idle ==
    /\ q = 1 /\ a = 1 /\ total = 0 /\ sealed = FALSE /\ handles = <<>>
    /\ status = "OK" /\ ledger = [r \in Resources |-> 0]

Begins(r) == request = r /\ pc = "start" /\ Idle

-----------------------------------------------------------------------------

\* What a step allocates and what it frees.
Account(gets, frees) ==
    ledger' = [r \in Resources |-> ledger[r] + (IF r \in gets THEN 1 ELSE 0)
                                             - (IF r \in frees THEN 1 ELSE 0)]

Goes(from, to) == pc = from /\ pc' = to /\ UNCHANGED status
Fails(from, st, to) == pc = from /\ pc' = to /\ status' = st

\* Pointers are NULL until their allocation succeeds, and free(NULL) does nothing.
Had(S) == {r \in S : ledger[r] # 0}

loopVars == <<q, a, total, sealed, handles>>

\* What is wrong with the request as a whole.
Refusal ==
    IF request.state \in {"absent", "null"} \/ B = 0 THEN "PARSE"
    ELSE IF B > MaxQ THEN "UNSUPPORTED" ELSE "OK"

CheckRequest ==
    /\ \/ Refusal = "OK" /\ Goes("start", "dump")
       \/ Refusal # "OK" /\ Fails("start", Refusal, "returned")
    /\ UNCHANGED <<request, loopVars, ledger>>

\* The state's text: a string passes through, anything else is dumped into 64 KiB.
DumpState ==
    /\ \/ /\ request.state # "oversized"
          /\ Goes("dump", "encode") /\ Account({Once("state_text")}, {})
       \/ /\ request.state = "oversized" \/ MayFail
          /\ Fails("dump", IF request.state = "string" THEN "OOM" ELSE "PARSE", "returned")
          /\ UNCHANGED ledger
    /\ UNCHANGED <<request, loopVars>>

StateFits == request.stateTokens \in 1 .. PrefixCapacity

EncodeState ==
    /\ \/ /\ StateFits /\ Goes("encode", "prefix")
          /\ Account({Once("state_ids")}, {Once("state_text")})
       \/ /\ ~StateFits /\ Fails("encode", "UNSUPPORTED", "returned")
          /\ Account({}, {Once("state_text")})
       \/ /\ MayFail /\ Fails("encode", "RUNTIME", "returned")
          /\ Account({}, {Once("state_text")})
    /\ UNCHANGED <<request, loopVars>>

\* MUTANT: a branch set whose slabs fail to be allocated keeps its in_use.
KeepsInUse(S) == Had(S) \ {Once("in_use")}
\* What a create function that fails frees of its own.
Undo(S) == Had(S)

\* A create function makes its allocations one by one; the first that fails
\* undoes those before it, and q3_systemone_run() drops what it had itself.
Create(names, from, to, drops) ==
    LET n == Cardinality(Had(Parts(names))) + 1 IN
    \/ /\ Goes(from, IF n = Len(names) THEN to ELSE from)
       /\ Account({Once(names[n])}, {})
    \/ /\ MayFail /\ Fails(from, "RUNTIME", "returned")
       /\ Account({}, Undo(Parts(names)) \cup drops)

CreatePrefix ==
    /\ pc = "prefix"
    /\ Create(PrefixParts, "prefix", "set", {Once("state_ids")})
    /\ UNCHANGED <<request, loopVars>>

CreateBranchSet ==
    /\ pc = "set"
    /\ Create(SetParts, "set", "prefill", Prefix \cup {Once("state_ids")})
    /\ UNCHANGED <<request, loopVars>>

\* q3_prefix_prefill() and q3_prefix_seal(), then free(state_ids).
PrefillAccepts == request.stateTokens \in 1 .. RuntimeTokens

PrefillAndSeal ==
    /\ \/ /\ PrefillAccepts /\ Goes("prefill", "tables")
          /\ sealed' = TRUE /\ Account({}, {Once("state_ids")})
       \/ /\ MayFail \/ ~PrefillAccepts
          /\ Fails("prefill", "RUNTIME", "returned")
          /\ Account({}, BranchSet \cup Prefix \cup {Once("state_ids")})
          /\ UNCHANGED sealed
    /\ UNCHANGED <<request, q, a, total, handles>>

AllocateTables ==
    /\ \/ Goes("tables", "build") /\ Account(Tables, {})
       \/ /\ MayFail
          /\ \E S \in SUBSET Tables : S # Tables /\ Account(S, {})
          /\ Fails("tables", "OOM", "cleanup")
    /\ total' = request.stateTokens
    /\ UNCHANGED <<request, q, a, sealed, handles>>

-----------------------------------------------------------------------------
(* One question.                                                           *)

\* q3_build_decision_suffix(): the number of options, and when it refuses.
OptionCount(qn) == IF qn.type = "noul" THEN 2 ELSE Len(qn.options)

Builds(qn) ==
    CASE qn.type = "choice" -> qn.shape = "object" /\ OptionCount(qn) \in 2 .. MaxCandidates
      [] qn.type = "score"  -> qn.shape = "array" /\ OptionCount(qn) \in 2 .. MaxCandidates
      [] OTHER -> TRUE

\* The candidate of an option is its number: the tokenizer makes every digit a
\* token of its own.
TokensOf(number) == IF number < 10 THEN 1 ELSE 2
Scorable(qn) == \A k \in 1 .. OptionCount(qn) : TokensOf(k) = 1

StartQuestion ==
    /\ pc = "build" /\ q <= B
    /\ \/ Question.object /\ Question.type # "other" /\ Goes("build", "mask")
       \/ ~Question.object /\ Fails("build", "PARSE", "cleanup")
       \/ Question.object /\ Question.type = "other" /\ Fails("build", "UNSUPPORTED", "cleanup")
    /\ UNCHANGED <<request, loopVars, ledger>>

(* q3_build_decision_suffix(); all it fails with is PARSE.                 *)

MaskQuestion ==
    /\ \/ /\ Goes("mask", IF Builds(Question) THEN "options" ELSE "unbuild")
          /\ Account({Of("masked", q)}, {})
       \/ MayFail /\ Fails("mask", "PARSE", "cleanup") /\ UNCHANGED ledger
    /\ UNCHANGED <<request, loopVars>>

\* The three tables are allocated before the first is looked at.
AllocateOptions ==
    /\ \/ Goes("options", "strings") /\ Account(OptionTables(q), {})
       \/ /\ MayFail /\ Goes("options", "unbuild")
          /\ \E S \in SUBSET OptionTables(q) : S # OptionTables(q) /\ Account(S, {})
    /\ UNCHANGED <<request, loopVars>>

\* A copy that fails ends the loop, with some strings in some of the tables.
CopyOptions ==
    /\ \/ Goes("strings", "text") /\ Account(OptionStrings(q), {})
       \/ /\ MayFail /\ Goes("strings", "unbuild")
          /\ \E S \in SUBSET OptionStrings(q) : Account(S, {})
    /\ UNCHANGED <<request, loopVars>>

\* The question, its numbered options and the cue take the place of the
\* masked question.
WriteSuffix ==
    /\ \/ Goes("text", "suffix") /\ Account({Of("suffix", q)}, {Of("masked", q)})
       \/ MayFail /\ Goes("text", "unbuild") /\ UNCHANGED ledger
    /\ UNCHANGED <<request, loopVars>>

DropSuffix ==
    /\ Fails("unbuild", "PARSE", "cleanup")
    /\ Account({}, Had(Options(q) \cup {Of("masked", q)}))
    /\ UNCHANGED <<request, loopVars>>

(* Back in q3_systemone_run().                                             *)

\* MUTANT: a suffix of one token more is let through.
SuffixFitsAlmost(qn) == qn.tokens <= MaxSuffix + 1
SuffixFits(qn) == qn.tokens <= MaxSuffix

\* Encode the suffix, check its length, allocate the candidates.
EncodeSuffix ==
    /\ pc = "suffix"
    /\ \/ /\ SuffixFits(Question) /\ Goes("suffix", "candidates")
          /\ Account({Of("sids", q), Of("cids", q)}, {Of("suffix", q)})
       \/ /\ ~SuffixFits(Question) /\ Fails("suffix", "UNSUPPORTED", "cleanup")
          /\ Account({}, Options(q) \cup {Of("suffix", q)})
       \/ /\ MayFail /\ \E st \in {"RUNTIME", "OOM"} : Fails("suffix", st, "cleanup")
          /\ Account({}, Options(q) \cup {Of("suffix", q)})
    /\ UNCHANGED <<request, loopVars>>

\* The numbers of the options; the question is stored when all are one token.
EncodeCandidates ==
    /\ pc = "candidates"
    /\ \/ /\ Scorable(Question) /\ Goes("candidates", "build")
          /\ Account({}, {Of("texts", q), Of("text", q)})
          /\ q' = q + 1 /\ total' = total + Question.tokens
       \/ /\ ~Scorable(Question) \/ MayFail
          /\ Fails("candidates", "RUNTIME", "cleanup")
          /\ Account({}, Options(q) \cup {Of("sids", q), Of("cids", q)})
          /\ UNCHANGED <<q, total>>
    /\ UNCHANGED <<request, a, sealed, handles>>

-----------------------------------------------------------------------------
(* The packed batch.                                                       *)

\* The limit is compared with the tokens of the prefix and the suffixes.
WithinLimit == total <= MaxPacked

CheckPacked ==
    /\ pc = "build" /\ q = B + 1
    /\ \/ /\ WithinLimit /\ Goes("build", "acquire") /\ Account({Once("padded")}, {})
       \/ /\ ~WithinLimit /\ Fails("build", "UNSUPPORTED", "cleanup") /\ UNCHANGED ledger
       \/ /\ WithinLimit /\ MayFail /\ Fails("build", "OOM", "cleanup") /\ UNCHANGED ledger
    /\ UNCHANGED <<request, loopVars>>

InUse == {handles[i] : i \in 1 .. Len(handles)}

\* q3_branch_acquire(): the lowest branch that is not in use.
AcquireBranch ==
    /\ LET free == (0 .. MaxQ - 1) \ InUse IN
       \/ /\ free # {}
          /\ handles' = Append(handles, Min(free)) /\ UNCHANGED a
          /\ Goes("acquire", IF Len(handles') = B THEN "decide" ELSE "acquire")
       \/ /\ free = {}
          /\ Fails("acquire", "RUNTIME", "cleanup") /\ UNCHANGED <<handles, a>>
    /\ UNCHANGED <<request, q, total, sealed, ledger>>

\* Every item is padded to the longest list of candidates.
K == Max({OptionCount(request.questions[i]) : i \in 1 .. B})

\* The guards of q3_decide_run(): what it needs of the prefix, of the number
\* of branches and candidates, of every item, and of the packed batch.
DecideAccepts ==
    /\ sealed
    /\ B \in 1 .. MaxQ /\ Len(handles) = B
    /\ K \in 1 .. MaxCandidates
    /\ \A i \in 1 .. B : request.questions[i].tokens \in 1 .. MaxSuffix
    /\ total - request.stateTokens <= RuntimeTokens
    /\ \A i \in 1 .. B : handles[i] < MaxQ

Decide ==
    /\ pc = "decide"
    /\ \/ DecideAccepts /\ Goes("decide", "answers")
       \/ (MayFail \/ ~DecideAccepts) /\ Fails("decide", "RUNTIME", "cleanup")
    /\ UNCHANGED <<request, loopVars, ledger>>

Answer ==
    /\ \/ /\ Goes("answers", IF a = B THEN "cleanup" ELSE "answers")
          /\ a' = a + 1 /\ Account({Of("probs", a), Of("logits", a)}, {})
       \/ /\ MayFail /\ Fails("answers", "OOM", "cleanup") /\ UNCHANGED a
          /\ \E r \in {Of("probs", a), Of("logits", a)} :
                \E S \in {{}, {r}} : Account(S, {})
       \* so_softmax() found no distribution.
       \/ /\ MayFail /\ Fails("answers", "RUNTIME", "cleanup") /\ UNCHANGED a
          /\ Account({Of("probs", a), Of("logits", a)}, {})
    /\ UNCHANGED <<request, q, total, sealed, handles>>

\* The questions whose arrays the tables point to.
Stored == 1 .. q - 1

\* q3_systemone_results_free().
Results == {Once("res")}
           \cup ({"keys", "labels", "key", "label", "probs", "logits"} \X Stored)
Pointers == {Once("padded"), Once("items"), Once("dres"), Once("handles")}
            \cup BranchSet \cup Prefix

Cleanup ==
    /\ Goes("cleanup", "returned")
    /\ LET dropped == Pointers \cup (IF status = "OK" THEN {} ELSE Results)
       IN  Account({}, Had(dropped) \cup ({"sids", "cids"} \X Stored))
    /\ UNCHANGED <<request, loopVars>>

Next ==
    \/ CheckRequest \/ DumpState \/ EncodeState
    \/ CreatePrefix \/ CreateBranchSet \/ PrefillAndSeal
    \/ AllocateTables \/ StartQuestion \/ MaskQuestion \/ AllocateOptions
    \/ CopyOptions \/ WriteSuffix \/ DropSuffix \/ EncodeSuffix \/ EncodeCandidates
    \/ CheckPacked \/ AcquireBranch \/ Decide \/ Answer \/ Cleanup

-----------------------------------------------------------------------------
(* Properties.                                                             *)

\* Nothing is freed twice and nothing leaks, on whichever of its returns: in
\* the end the caller owns the results of a successful run, and nobody owns
\* anything else.
MemorySound ==
    /\ \A r \in Resources : ledger[r] \in {0, 1}
    /\ pc = "returned" =>
          \A r \in Resources : ledger[r] = 1 <=> status = "OK" /\ r \in Results

\* q3_decide_run() is never given a batch it would refuse, nor two questions
\* on one branch (which it does not look for), nor anything freed.
BatchIsAcceptable ==
    pc = "decide" =>
        /\ DecideAccepts
        /\ \A i, j \in 1 .. B : handles[i] = handles[j] => i = j
        /\ \A r \in Tables \cup ({"sids", "cids"} \X (1 .. B))
                    \cup Prefix \cup BranchSet \cup {Once("padded")} : ledger[r] = 1
=============================================================================
