---------------------------- MODULE SystemOneProofs ----------------------------
(***************************************************************************)
(* One request from the socket to the answer, for any limits and any set   *)
(* of requests: who owns what at every place of q3_systemone_run(), and    *)
(* therefore that each of its returns gives back what it must; that the    *)
(* decision engine gets no batch it would refuse; and that the server's    *)
(* validator lets nothing through that the runtime's checks turn down.     *)
(* LedgerInv, the heart of it, is a table: at each place of the program,   *)
(* the set of allocations that are owned, each once.                       *)
(***************************************************************************)
EXTENDS SystemOneApi, FiniteSetTheorems, FunctionTheorems, WellFoundedInduction, TLAPS

\* The allocations that are owned, which is owned once.
Owned  == {r \in Run!Resources : ledger[r] = 1}
Counts == ledger \in [Run!Resources -> {0, 1}]

\* What a run has from its tables on, what it keeps of the first n questions,
\* what it has of their answers, and the first k allocations of a create.
Base           == Run!Tables \cup Run!Prefix \cup Run!BranchSet
Kept(n)        == {"keys", "labels", "key", "label", "sids", "cids"} \X (1 .. n)
Answered(n)    == {"probs", "logits"} \X (1 .. n)
First(names, k) == {Run!Once(names[i]) : i \in 1 .. k}
StateIds       == {Run!Once("state_ids")}
Padded         == {Run!Once("padded")}

\* What is owned at each place of q3_systemone_run() before its tables exist...
SetupInv ==
    /\ pc \in {"idle", "start", "dump"} => Owned = {}
    /\ pc = "encode" => Owned = {Run!Once("state_text")}
    /\ pc = "prefix" => \E k \in 0 .. 2 : Owned = StateIds \cup First(Run!PrefixParts, k)
    /\ pc = "set" => \E k \in 0 .. 4 :
          Owned = StateIds \cup Run!Prefix \cup First(Run!SetParts, k)
    /\ pc = "prefill" => Owned = StateIds \cup Run!Prefix \cup Run!BranchSet
    /\ pc = "tables" => Owned = Run!Prefix \cup Run!BranchSet

\* ... while the questions are built one by one ...
BuildInv ==
    /\ pc \in {"build", "mask"} => Owned = Base \cup Kept(q - 1)
    /\ pc = "options" => Owned = Base \cup Kept(q - 1) \cup {Run!Of("masked", q)}
    /\ pc = "strings" =>
          Owned = Base \cup Kept(q - 1) \cup {Run!Of("masked", q)} \cup Run!OptionTables(q)
    /\ pc = "text" =>
          Owned = Base \cup Kept(q - 1) \cup {Run!Of("masked", q)} \cup Run!Options(q)
    /\ pc = "unbuild" =>
          /\ Base \cup Kept(q - 1) \cup {Run!Of("masked", q)} \subseteq Owned
          /\ Owned \subseteq Base \cup Kept(q - 1) \cup {Run!Of("masked", q)} \cup Run!Options(q)
    /\ pc = "suffix" =>
          Owned = Base \cup Kept(q - 1) \cup Run!Options(q) \cup {Run!Of("suffix", q)}
    /\ pc = "candidates" =>
          Owned = Base \cup Kept(q - 1) \cup Run!Options(q)
                  \cup {Run!Of("sids", q), Run!Of("cids", q)}

\* ... and from the packed batch to the return.
AnswerInv ==
    /\ pc \in {"acquire", "decide"} => Owned = Base \cup Kept(q - 1) \cup Padded
    /\ pc = "answers" => Owned = Base \cup Kept(q - 1) \cup Padded \cup Answered(a - 1)
    /\ pc = "cleanup" =>
          IF status = "OK"
          THEN Owned = Base \cup Kept(q - 1) \cup Padded \cup Answered(q - 1)
          ELSE /\ Kept(q - 1) \subseteq Owned
               /\ Owned \subseteq Base \cup Kept(q - 1) \cup Padded \cup Answered(q - 1)
    /\ pc = "returned" => Owned = IF status = "OK" THEN Run!Results ELSE {}

LedgerInv == Counts /\ SetupInv /\ BuildInv /\ AnswerInv

\* Where the loops of q3_systemone_run() are.
Building == {"mask", "options", "strings", "text", "unbuild", "suffix", "candidates"}
LoopInv ==
    /\ pc \in Run!Stages
    /\ Run!RequestOK(request)
    /\ status = "OK" \/ (status \in Run!Statuses /\ pc \in {"cleanup", "returned", "idle"})
    /\ pc \notin {"idle", "start", "returned"} => Run!B \in 1 .. MaxQ
    /\ q \in Nat \ {0} /\ a \in Nat \ {0}
    /\ pc \in {"start", "dump", "encode", "prefix", "set", "prefill", "tables"}
          => q = 1 /\ a = 1 /\ handles = <<>>
    /\ pc \in {"build"} \cup Building => a = 1 /\ handles = <<>>
    /\ pc = "build" => q <= Run!B + 1
    /\ pc \in Building => q <= Run!B
    /\ pc \in {"acquire", "decide"} => q = Run!B + 1 /\ a = 1
    /\ pc = "answers" => q = Run!B + 1 /\ a <= Run!B
    /\ pc = "cleanup" => q <= Run!B + 1
    /\ pc \in {"cleanup", "returned"} /\ status = "OK"
          => q = Run!B + 1 /\ a = Run!B + 1 /\ Run!B \in 1 .. MaxQ

\* What has been found out about the questions and the batch.
Sound(qn) == qn.type # "other" /\ Run!Builds(qn)
BatchInv ==
    /\ pc \in {"tables", "build", "acquire", "decide"} \cup Building => sealed
    /\ total \in Nat
    /\ pc \in {"build", "acquire", "decide"} \cup Building =>
          \A i \in 1 .. q - 1 :
              Sound(request.questions[i]) /\ request.questions[i].tokens <= MaxSuffix
    /\ pc \in Building => Run!Question.type # "other"
    /\ pc \in Building \ {"mask", "unbuild"} => Run!Builds(Run!Question)
    /\ pc = "candidates" => Run!SuffixFits(Run!Question)
    /\ pc \in {"acquire", "decide"} => total <= Run!MaxPacked
    /\ pc = "acquire" => Len(handles) < Run!B
    /\ pc = "decide" => Len(handles) = Run!B
    /\ pc \in {"acquire", "decide"} =>
          /\ handles \in Seq(0 .. MaxQ - 1)
          /\ \A i, j \in 1 .. Len(handles) : handles[i] = handles[j] => i = j

RunInv == LedgerInv /\ LoopInv /\ BatchInv

\* How far the request has come, around the run.
StageInv ==
    /\ stage \in {"request", "systemone", "queued", "running", "done"}
    /\ FromFile \/ HttpOK(http)
    /\ stage \in {"request", "systemone", "queued"} => ~FromFile /\ pc = "idle" /\ Run!Idle
    /\ stage = "queued" => ValidSchema
    /\ stage = "running" => pc # "idle"
    /\ stage = "running" /\ ~FromFile =>
          /\ ValidSchema
          /\ request = [state |-> Body.state, stateTokens |-> Body.stateTokens,
                        questions |-> Body.questions]
    /\ stage = "done" => pc = "idle"
    /\ stage = "done" /\ code = 200 /\ ~FromFile /\ http.path = "/v1/systemone" =>
          a = Len(Body.questions) + 1 /\ Len(Body.questions) > 0

IInv == RunInv /\ StageInv

-----------------------------------------------------------------------------

\* What a step allocates is owned afterwards, and what it frees is not.
LEMMA AccountKeeps ==
    ASSUME Counts, NEW G, NEW F, G \subseteq Run!Resources, G \cap Owned = {}, F \subseteq Owned,
           Run!Account(G, F)
    PROVE  Counts' /\ Owned' = (Owned \cup G) \ F
  <1> HIDE DEF Run!Resources
  <1>1. \A r \in Run!Resources :
          ledger'[r] = ledger[r] + (IF r \in G THEN 1 ELSE 0) - (IF r \in F THEN 1 ELSE 0)
    BY DEF Run!Account
  <1>2. \A r \in Run!Resources : ledger[r] = IF r \in Owned THEN 1 ELSE 0
    BY DEF Counts, Owned
  <1>3. \A r \in Run!Resources : ledger'[r] = IF r \in (Owned \cup G) \ F THEN 1 ELSE 0
    BY <1>1, <1>2
  <1>4. Counts'
    BY <1>3 DEF Run!Account, Counts
  <1>5. Owned' = {r \in Run!Resources : ledger'[r] = 1}
    BY DEF Owned
  <1>6. Owned \subseteq Run!Resources
    BY DEF Owned
  <1> QED
    BY <1>3, <1>4, <1>5, <1>6

\* A pointer that is not NULL points to what is owned.
LEMMA HadIsOwned ==
    ASSUME Counts, NEW S, S \subseteq Run!Resources
    PROVE  Run!Had(S) = S \cap Owned
  <1> HIDE DEF Run!Resources
  <1> QED
    BY DEF Counts, Owned, Run!Had

\* The parts of a prefix and of a branch set, one by one.
LEMMA PartsAre ==
    /\ Run!Prefix = {<<"prefix", 0>>, <<"prefix_k", 0>>, <<"prefix_v", 0>>}
    /\ Run!BranchSet = {<<"set", 0>>, <<"in_use", 0>>, <<"suffix_k", 0>>, <<"suffix_v", 0>>, <<"scratch", 0>>}
  BY DEF Run!Prefix, Run!BranchSet, Run!Parts, Run!PrefixParts, Run!SetParts, Run!Once


-----------------------------------------------------------------------------
\* The steps of q3_systemone_run() keep track of its loops.
LEMMA LoopStep ==
    ASSUME LoopInv, Run!Next
    PROVE  LoopInv'
  <1> USE ApiAssumption DEF LoopInv, Building, Run!Goes, Run!Fails, Run!loopVars, Run!Stages,
          Run!Statuses, Run!ConstantsOK
  <1>0. Run!B \in Nat
    BY DEF Run!RequestOK, Run!B
  <1>1. CASE Run!CheckRequest
    <2>1. Run!RequestOK(request)' /\ Run!B' = Run!B
      BY <1>1 DEF Run!CheckRequest, Run!B
    <2>2. Run!Refusal = "OK" => Run!B \in 1 .. MaxQ
      BY <1>0 DEF Run!Refusal
    <2>3. Run!Refusal \in {"OK", "PARSE", "UNSUPPORTED"}
      BY DEF Run!Refusal
    <2> HIDE DEF Run!Refusal
    <2> QED
      BY <1>0, <1>1, <2>1, <2>2, <2>3 DEF Run!CheckRequest
  <1>2. ASSUME UNCHANGED request
        PROVE  Run!RequestOK(request)' /\ Run!B' = Run!B
    BY <1>2 DEF Run!B
  <1> HIDE DEF Run!RequestOK, Run!B
  <1>3. CASE Run!DumpState \/ Run!EncodeState
    BY <1>0, <1>2, <1>3 DEF Run!DumpState, Run!EncodeState
  <1>4. CASE Run!CreatePrefix \/ Run!CreateBranchSet
    BY <1>0, <1>2, <1>4 DEF Run!CreatePrefix, Run!CreateBranchSet, Run!Create
  <1>5. CASE Run!PrefillAndSeal \/ Run!AllocateTables
    BY <1>0, <1>2, <1>5 DEF Run!PrefillAndSeal, Run!AllocateTables
  <1>6. CASE Run!StartQuestion
    BY <1>0, <1>2, <1>6 DEF Run!StartQuestion
  <1>7. CASE Run!MaskQuestion \/ Run!AllocateOptions \/ Run!CopyOptions \/ Run!WriteSuffix
             \/ Run!DropSuffix
    BY <1>0, <1>2, <1>7 DEF Run!MaskQuestion, Run!AllocateOptions, Run!CopyOptions,
       Run!WriteSuffix, Run!DropSuffix
  <1>8. CASE Run!EncodeSuffix
    BY <1>0, <1>2, <1>8 DEF Run!EncodeSuffix
  <1>9. CASE Run!EncodeCandidates
    BY <1>0, <1>2, <1>9 DEF Run!EncodeCandidates
  <1>10. CASE Run!CheckPacked
    BY <1>0, <1>2, <1>10 DEF Run!CheckPacked
  <1>11. CASE Run!AcquireBranch
    BY <1>0, <1>2, <1>11 DEF Run!AcquireBranch
  <1>12. CASE Run!Decide
    BY <1>0, <1>2, <1>12 DEF Run!Decide
  <1>13. CASE Run!Answer
    BY <1>0, <1>2, <1>13 DEF Run!Answer
  <1>14. CASE Run!Cleanup
    BY <1>0, <1>2, <1>14 DEF Run!Cleanup
  <1> QED
    BY <1>1, <1>3, <1>4, <1>5, <1>6, <1>7, <1>8, <1>9, <1>10, <1>11, <1>12, <1>13, <1>14
       DEF Run!Next

\* A set of numbers that is not empty has its least and, below a bound, its
\* largest member.
LEMMA LeastExists ==
    ASSUME NEW S, S \subseteq Nat, S # {}
    PROVE  \E m \in S : \A n \in S : m <= n
  <1> DEFINE Less == {p \in Nat \X Nat : p[1] < p[2]}
  <1>1. IsWellFoundedOn(Less, Nat)
    BY NatLessThanWellFounded, Zenon DEF OpToRel
  <1>2. PICK m \in S : \A n \in S : ~(<<n, m>> \in Less)
    <2> HIDE DEF Less
    <2> QED
      BY <1>1, WFMin, Zenon
  <1>3. ASSUME NEW n \in S, n < m PROVE FALSE
    <2>1. <<n, m>> \in Less
      BY <1>3
    <2> QED
      BY <1>2, <2>1, Zenon
  <1> QED
    BY <1>3

\* The branch that q3_branch_acquire() picks is one of those it looks at.
LEMMA MinIsMember ==
    ASSUME NEW S, S \subseteq Nat, S # {}
    PROVE  Run!Min(S) \in S
  BY LeastExists, Zenon DEF Run!Min

\* The longest list of candidates is the list of some question.
LEMMA MaxIsMember ==
    ASSUME NEW S, NEW n \in Nat, S \subseteq 0 .. n, S # {}
    PROVE  Run!Max(S) \in S
  <1> DEFINE T == {n - x : x \in S}
  <1>1. T \subseteq Nat /\ T # {}
    <2>1. \A x \in S : n - x \in Nat
      OBVIOUS
    <2>2. PICK x \in S : TRUE
      OBVIOUS
    <2>3. n - x \in T
      BY <2>2
    <2> QED
      BY <2>1, <2>3
  <1>2. PICK m \in T : \A k \in T : m <= k
    BY <1>1, LeastExists
  <1>3. PICK x \in S : m = n - x
    BY <1>2
  <1>4. \A y \in S : x >= y
    BY <1>2, <1>3
  <1> QED
    BY <1>4, Zenon DEF Run!Max

\* The capacity that the model is loaded with covers the packed batch and the
\* prefix.
LEMMA PackedIsNat == Run!MaxPacked \in Nat /\ Run!RuntimeTokens \in Nat
                     /\ Run!MaxPacked <= Run!RuntimeTokens /\ PrefixCapacity <= Run!RuntimeTokens
  <1>1. Run!MaxPacked \in Nat
    <2>1. \A m, n \in Nat : m * n \in Nat
      OBVIOUS
    <2> QED
      BY <2>1, ApiAssumption DEF Run!MaxPacked, Run!ConstantsOK
  <1> QED
    BY <1>1, ApiAssumption DEF Run!RuntimeTokens, Run!ConstantsOK

\* A branch that is acquired is in the set, and was not in use.
LEMMA AcquiredIsFree ==
    ASSUME handles \in Seq(0 .. MaxQ - 1),
           \A i, j \in 1 .. Len(handles) : handles[i] = handles[j] => i = j,
           NEW h \in (0 .. MaxQ - 1) \ Run!InUse, handles' = Append(handles, h)
    PROVE  /\ handles' \in Seq(0 .. MaxQ - 1) /\ Len(handles') = Len(handles) + 1
           /\ \A i, j \in 1 .. Len(handles') : handles'[i] = handles'[j] => i = j
  <1>1. Len(handles) \in Nat /\ handles' \in Seq(0 .. MaxQ - 1)
        /\ Len(handles') = Len(handles) + 1
    <2>1. h \in 0 .. MaxQ - 1
      OBVIOUS
    <2> HIDE DEF Run!InUse
    <2> QED
      BY <2>1
  <1>2. \A i \in 1 .. Len(handles) : handles'[i] = handles[i] /\ handles'[i] # h
    BY DEF Run!InUse
  <1>3. handles'[Len(handles) + 1] = h
    BY <1>1
  <1>4. \A i \in 1 .. Len(handles') : i \in 1 .. Len(handles) \/ i = Len(handles) + 1
    BY <1>1
  <1> QED
    BY <1>1, <1>2, <1>3, <1>4

\* The steps of q3_systemone_run() find out what the decision relies on.
LEMMA BatchStep ==
    ASSUME LoopInv, BatchInv, Run!Next
    PROVE  BatchInv'
  <1> USE ApiAssumption, PackedIsNat DEF BatchInv, Building, Run!Goes, Run!Fails, Run!loopVars,
          Run!Question
  <1>1. /\ request' = request
        /\ \A i \in 1 .. Run!B : /\ request.questions[i].tokens \in Nat
                                 /\ Run!QuestionOK(request.questions[i])
        /\ request.stateTokens \in Nat /\ q \in Nat \ {0} /\ Run!B \in Nat
    <2>1. request' = request
      BY DEF Run!Next, Run!CheckRequest, Run!DumpState, Run!EncodeState, Run!CreatePrefix,
         Run!CreateBranchSet, Run!PrefillAndSeal, Run!AllocateTables, Run!StartQuestion,
         Run!MaskQuestion, Run!AllocateOptions, Run!CopyOptions, Run!WriteSuffix,
         Run!DropSuffix, Run!EncodeSuffix, Run!EncodeCandidates, Run!CheckPacked,
         Run!AcquireBranch, Run!Decide, Run!Answer, Run!Cleanup
    <2> QED
      BY <2>1 DEF LoopInv, Run!RequestOK, Run!QuestionOK, Run!B
  <1>2. Run!B' = Run!B
    BY <1>1 DEF Run!B
  <1> HIDE DEF Run!MaxPacked, Run!RuntimeTokens, Run!B
  <1>3. CASE Run!CheckRequest \/ Run!DumpState \/ Run!EncodeState
    <2>1. pc' \in {"dump", "encode", "prefix", "returned"} /\ UNCHANGED total
      BY <1>3 DEF Run!CheckRequest, Run!DumpState, Run!EncodeState
    <2> QED
      BY <2>1
  <1>4. CASE Run!CreatePrefix \/ Run!CreateBranchSet
    <2>1. pc' \in {"prefix", "set", "prefill", "returned"} /\ UNCHANGED total
      BY <1>4 DEF Run!CreatePrefix, Run!CreateBranchSet, Run!Create
    <2> QED
      BY <2>1
  <1>5. CASE Run!PrefillAndSeal
    BY <1>5 DEF Run!PrefillAndSeal
  <1>6. CASE Run!AllocateTables
    BY <1>1, <1>6 DEF Run!AllocateTables, LoopInv
  <1>7. CASE Run!StartQuestion
    BY <1>1, <1>2, <1>7 DEF Run!StartQuestion
  <1>8. CASE Run!MaskQuestion
    BY <1>1, <1>2, <1>8 DEF Run!MaskQuestion
  <1>9. CASE Run!AllocateOptions \/ Run!CopyOptions \/ Run!WriteSuffix \/ Run!DropSuffix
    BY <1>1, <1>2, <1>9 DEF Run!AllocateOptions, Run!CopyOptions, Run!WriteSuffix,
       Run!DropSuffix
  <1>10. CASE Run!EncodeSuffix
    BY <1>1, <1>2, <1>10 DEF Run!EncodeSuffix
  <1>11. CASE Run!EncodeCandidates
    <2>1. CASE pc' = "build"
      <3>1. /\ pc = "candidates" /\ q' = q + 1 /\ total' = total + request.questions[q].tokens
            /\ UNCHANGED sealed
        BY <1>11, <2>1 DEF Run!EncodeCandidates
      <3>2. q \in 1 .. Run!B
        BY <3>1, <1>1 DEF LoopInv
      <3>3. Sound(request.questions[q]) /\ request.questions[q].tokens <= MaxSuffix
        BY <3>1 DEF Sound, Run!SuffixFits
      <3>4. \A i \in 1 .. q' - 1 : i \in 1 .. q - 1 \/ i = q
        BY <3>1, <1>1
      <3> QED
        BY <1>1, <1>2, <2>1, <3>1, <3>2, <3>3, <3>4
    <2>2. CASE pc' = "cleanup"
      BY <1>1, <1>11, <2>2 DEF Run!EncodeCandidates
    <2> QED
      BY <1>11, <2>1, <2>2 DEF Run!EncodeCandidates
  <1>12. CASE Run!CheckPacked
    BY <1>1, <1>2, <1>12 DEF Run!CheckPacked, Run!WithinLimit, LoopInv
  <1>13. CASE Run!AcquireBranch
    <2>1. CASE pc' = "cleanup"
      BY <1>13, <2>1 DEF Run!AcquireBranch
    <2>2. CASE pc' # "cleanup"
      <3>1. /\ (0 .. MaxQ - 1) \ Run!InUse # {} /\ pc = "acquire"
            /\ handles' = Append(handles, Run!Min((0 .. MaxQ - 1) \ Run!InUse))
            /\ pc' = IF Len(handles') = Run!B THEN "decide" ELSE "acquire"
            /\ UNCHANGED <<q, total, sealed>>
        BY <1>13, <2>2 DEF Run!AcquireBranch
      <3>2. Run!Min((0 .. MaxQ - 1) \ Run!InUse) \in (0 .. MaxQ - 1) \ Run!InUse
        <4>1. (0 .. MaxQ - 1) \ Run!InUse \subseteq Nat
          OBVIOUS
        <4> QED
          BY <3>1, <4>1, MinIsMember
      <3>3. /\ handles' \in Seq(0 .. MaxQ - 1) /\ Len(handles') = Len(handles) + 1
            /\ \A i, j \in 1 .. Len(handles') : handles'[i] = handles'[j] => i = j
        BY <3>1, <3>2, AcquiredIsFree
      <3>4. Len(handles) \in Nat /\ Len(handles) < Run!B
        BY <3>1
      <3>5. pc' = "acquire" => Len(handles') < Run!B
        BY <1>1, <3>1, <3>3, <3>4
      <3>6. pc' = "decide" => Len(handles') = Run!B
        BY <3>1
      <3>7. pc' \in {"acquire", "decide"} /\ total' <= Run!MaxPacked /\ total' \in Nat /\ sealed'
        BY <3>1
      <3>8. \A i \in 1 .. q' - 1 :
              Sound(request'.questions[i]) /\ request'.questions[i].tokens <= MaxSuffix
        BY <1>1, <3>1
      <3> HIDE DEF Sound, Run!MaxPacked
      <3> QED
        BY <1>1, <1>2, <3>3, <3>5, <3>6, <3>7, <3>8
    <2> QED
      BY <2>1, <2>2
  <1>14. CASE Run!Decide \/ Run!Answer \/ Run!Cleanup
    <2>1. pc' \in {"answers", "cleanup", "returned"} /\ UNCHANGED total
      BY <1>14 DEF Run!Decide, Run!Answer, Run!Cleanup
    <2> QED
      BY <2>1
  <1> QED
    BY <1>3, <1>4, <1>5, <1>6, <1>7, <1>8, <1>9, <1>10, <1>11, <1>12, <1>13, <1>14
       DEF Run!Next

-----------------------------------------------------------------------------
\* The allocations of the first MaxQ questions are resources.
LEMMA TheyAreResources ==
    /\ Base \cup StateIds \cup Padded \cup {Run!Once("state_text")} \subseteq Run!Resources
    /\ \A i \in 1 .. MaxQ :
          /\ Run!Options(i) \subseteq Run!Resources
          /\ Run!OptionTables(i) \cup Run!OptionStrings(i) \subseteq Run!Resources
          /\ {Run!Of(n, i) : n \in Run!PerQuestion} \subseteq Run!Resources
  BY DEF Base, StateIds, Padded, Run!Resources, Run!Of, Run!PerQuestion, Run!Options

\* A step that allocates nothing and frees nothing.
LEMMA LedgerKeeps ==
    ASSUME Counts, UNCHANGED ledger
    PROVE  Counts' /\ Owned' = Owned
  BY DEF Counts, Owned

\* From the check of the request to the tables of the answer.
LEMMA StartOfRun ==
    ASSUME LoopInv, BatchInv, LedgerInv,
           Run!CheckRequest \/ Run!DumpState \/ Run!EncodeState \/ Run!PrefillAndSeal
             \/ Run!AllocateTables
    PROVE  LedgerInv'
  <1> USE PartsAre DEF StateIds, Run!Once
  <1>0. Counts
    BY DEF LedgerInv
  <1>1. CASE Run!CheckRequest
    <2>1. Counts' /\ Owned' = {} /\ pc' \in {"dump", "returned"}
          /\ (pc' = "returned" => status' # "OK")
      BY <1>0, <1>1, LedgerKeeps DEF Run!CheckRequest, LedgerInv, SetupInv, Run!Goes, Run!Fails
    <2> QED
      BY <2>1 DEF LedgerInv, SetupInv, BuildInv, AnswerInv
  <1>2. CASE Run!DumpState
    <2>1. Owned = {} /\ pc = "dump"
      BY <1>2 DEF Run!DumpState, LedgerInv, SetupInv, Run!Goes, Run!Fails
    <2>2. CASE Run!Account({Run!Once("state_text")}, {}) /\ pc' = "encode"
      <3>1. Counts' /\ Owned' = {Run!Once("state_text")}
        BY <1>0, <2>1, <2>2, AccountKeeps, TheyAreResources
      <3> QED
        BY <2>2, <3>1 DEF LedgerInv, SetupInv, BuildInv, AnswerInv
    <2>3. CASE UNCHANGED ledger /\ pc' = "returned" /\ status' # "OK"
      <3>1. Counts' /\ Owned' = {}
        BY <1>0, <2>1, <2>3, LedgerKeeps
      <3> QED
        BY <2>3, <3>1 DEF LedgerInv, SetupInv, BuildInv, AnswerInv
    <2> QED
      BY <1>2, <2>2, <2>3 DEF Run!DumpState, Run!Goes, Run!Fails
  <1>3. CASE Run!EncodeState
    <2>1. Owned = {Run!Once("state_text")} /\ pc = "encode"
      BY <1>3 DEF Run!EncodeState, LedgerInv, SetupInv, Run!Goes, Run!Fails
    <2>2. CASE Run!Account({Run!Once("state_ids")}, {Run!Once("state_text")}) /\ pc' = "prefix"
      <3>1. Counts' /\ Owned' = StateIds
        BY <1>0, <2>1, <2>2, AccountKeeps, TheyAreResources
      <3>2. First(Run!PrefixParts, 0) = {}
        BY DEF First
      <3>3. \E k \in 0 .. 2 : Owned' = StateIds \cup First(Run!PrefixParts, k)
        BY <3>1, <3>2
      <3> QED
        BY <2>2, <3>1, <3>3 DEF LedgerInv, SetupInv, BuildInv, AnswerInv
    <2>3. CASE Run!Account({}, {Run!Once("state_text")}) /\ pc' = "returned" /\ status' # "OK"
      <3>1. Counts' /\ Owned' = {}
        BY <1>0, <2>1, <2>3, AccountKeeps, TheyAreResources
      <3> QED
        BY <2>3, <3>1 DEF LedgerInv, SetupInv, BuildInv, AnswerInv
    <2> QED
      BY <1>3, <2>2, <2>3 DEF Run!EncodeState, Run!Goes, Run!Fails
  <1>4. CASE Run!PrefillAndSeal
    <2>1. Owned = StateIds \cup Run!Prefix \cup Run!BranchSet /\ pc = "prefill"
      BY <1>4 DEF Run!PrefillAndSeal, LedgerInv, SetupInv, Run!Goes, Run!Fails
    <2>2. CASE Run!Account({}, {Run!Once("state_ids")}) /\ pc' = "tables"
      <3>1. Counts' /\ Owned' = Run!Prefix \cup Run!BranchSet
        BY <1>0, <2>1, <2>2, AccountKeeps, TheyAreResources
      <3> QED
        BY <2>2, <3>1 DEF LedgerInv, SetupInv, BuildInv, AnswerInv
    <2>3. CASE /\ Run!Account({}, Run!BranchSet \cup Run!Prefix \cup {Run!Once("state_ids")})
               /\ pc' = "returned" /\ status' # "OK"
      <3>1. Counts' /\ Owned' = {}
        BY <1>0, <2>1, <2>3, AccountKeeps, TheyAreResources
      <3> QED
        BY <2>3, <3>1 DEF LedgerInv, SetupInv, BuildInv, AnswerInv
    <2> QED
      BY <1>4, <2>2, <2>3 DEF Run!PrefillAndSeal, Run!Goes, Run!Fails
  <1>5. CASE Run!AllocateTables
    <2>1. Owned = Run!Prefix \cup Run!BranchSet /\ pc = "tables" /\ q' = q /\ q = 1
      BY <1>5 DEF Run!AllocateTables, LedgerInv, SetupInv, LoopInv, Run!Goes, Run!Fails
    <2>2. Kept(q' - 1) = {}
      BY <2>1 DEF Kept
    <2>3. CASE Run!Account(Run!Tables, {}) /\ pc' = "build"
      <3>1. Counts' /\ Owned' = Base
        <4>1. Run!Tables \subseteq Run!Resources /\ Run!Tables \cap Owned = {}
          BY <2>1 DEF Run!Resources, Run!Tables
        <4> QED
          BY <1>0, <2>1, <2>3, <4>1, AccountKeeps DEF Base
      <3> QED
        BY <2>2, <2>3, <3>1 DEF LedgerInv, SetupInv, BuildInv, AnswerInv
    <2>4. CASE /\ \E S \in SUBSET Run!Tables : Run!Account(S, {})
               /\ pc' = "cleanup" /\ status' # "OK"
      <3>1. PICK S \in SUBSET Run!Tables : Run!Account(S, {})
        BY <2>4
      <3>2. S \subseteq Run!Resources /\ S \cap Owned = {}
        BY <2>1 DEF Run!Resources, Run!Tables
      <3>3. Counts' /\ Owned' \subseteq Base
        BY <1>0, <2>1, <3>1, <3>2, AccountKeeps DEF Base
      <3> QED
        BY <2>2, <2>4, <3>3 DEF LedgerInv, SetupInv, BuildInv, AnswerInv
    <2> QED
      BY <1>5, <2>3, <2>4 DEF Run!AllocateTables, Run!Goes, Run!Fails
  <1> QED
    BY <1>1, <1>2, <1>3, <1>4, <1>5

\* What building a question needs to know of the allocations: they are
\* different ones for every question.
LEMMA BuildOfQuestion ==
    ASSUME LoopInv, BatchInv, LedgerInv,
           Run!StartQuestion \/ Run!MaskQuestion \/ Run!AllocateOptions \/ Run!CopyOptions
             \/ Run!WriteSuffix \/ Run!DropSuffix
    PROVE  LedgerInv'
  <1> DEFINE old == Base \cup Kept(q - 1)
             masked == {Run!Of("masked", q)}
  <1> USE DEF Run!Goes, Run!Fails
  <1>0. Counts /\ q \in Nat /\ q' = q /\ pc \in {"build"} \cup Building
    BY DEF LedgerInv, LoopInv, Building, Run!StartQuestion, Run!MaskQuestion,
       Run!AllocateOptions, Run!CopyOptions, Run!WriteSuffix, Run!DropSuffix, Run!loopVars
  <1>1. Kept(q' - 1) = Kept(q - 1)
    BY <1>0
  <1>2. /\ masked \subseteq Run!Resources /\ Run!Options(q) \subseteq Run!Resources
        /\ Run!OptionTables(q) \subseteq Run!Resources
        /\ Run!OptionStrings(q) \subseteq Run!Resources
        /\ {Run!Of("suffix", q)} \subseteq Run!Resources
    <2>1. pc # "build" => q \in 1 .. MaxQ
      BY <1>0, ApiAssumption DEF LoopInv, Run!ConstantsOK, Building
    <2>2. CASE pc # "build"
      BY <2>1, <2>2, TheyAreResources DEF Run!PerQuestion
    <2>3. CASE pc = "build"
      <3>1. q <= MaxQ
        BY <2>3, <1>0, ApiAssumption
           DEF LoopInv, Run!ConstantsOK, Run!StartQuestion, Run!MaskQuestion,
               Run!AllocateOptions, Run!CopyOptions, Run!WriteSuffix, Run!DropSuffix
      <3>2. q \in 1 .. MaxQ
        BY <3>1, <1>0 DEF LoopInv
      <3> QED
        BY <3>2, TheyAreResources DEF Run!PerQuestion
    <2> QED
      BY <2>2, <2>3
  <1>3. /\ old \cap masked = {} /\ old \cap Run!Options(q) = {}
        /\ masked \cap Run!Options(q) = {}
        /\ Run!Of("suffix", q) \notin old \cup masked \cup Run!Options(q)
        /\ Run!OptionTables(q) \cap Run!OptionStrings(q) = {}
        /\ Run!Options(q) = Run!OptionTables(q) \cup Run!OptionStrings(q)
    BY <1>0, PartsAre DEF Base, Kept, Run!Tables, Run!Of, Run!Once, Run!Options,
       Run!OptionTables, Run!OptionStrings
  <1> HIDE DEF masked
  <1>4. CASE Run!StartQuestion
    <2>1. Counts' /\ Owned' = old /\ pc = "build"
      BY <1>0, <1>4, LedgerKeeps DEF Run!StartQuestion, LedgerInv, BuildInv
    <2>2. pc' = "mask" \/ (pc' = "cleanup" /\ status' # "OK")
      BY <1>4 DEF Run!StartQuestion
    <2> QED
      BY <1>1, <2>1, <2>2 DEF LedgerInv, SetupInv, BuildInv, AnswerInv
  <1>5. CASE Run!MaskQuestion
    <2>1. Owned = old /\ pc = "mask"
      BY <1>5 DEF Run!MaskQuestion, LedgerInv, BuildInv
    <2>2. CASE Run!Account(masked, {}) /\ pc' \in {"options", "unbuild"}
      <3>1. Counts' /\ Owned' = old \cup masked
        BY <1>0, <1>2, <1>3, <2>1, <2>2, AccountKeeps
      <3>2. masked = {Run!Of("masked", q')}
        BY <1>0 DEF masked
      <3> QED
        BY <1>1, <2>2, <3>1, <3>2 DEF LedgerInv, SetupInv, BuildInv, AnswerInv
    <2>3. CASE UNCHANGED ledger /\ pc' = "cleanup" /\ status' # "OK"
      BY <1>0, <1>1, <2>1, <2>3, LedgerKeeps DEF LedgerInv, SetupInv, BuildInv, AnswerInv
    <2> QED
      BY <1>5, <2>2, <2>3 DEF Run!MaskQuestion, masked
  <1>6. CASE Run!AllocateOptions
    <2>1. Owned = old \cup masked /\ pc = "options"
      BY <1>6 DEF Run!AllocateOptions, LedgerInv, BuildInv, masked
    <2>2. PICK S \in SUBSET Run!OptionTables(q) : Run!Account(S, {})
      BY <1>6 DEF Run!AllocateOptions
    <2>3. Counts' /\ Owned' = old \cup masked \cup S
      BY <1>0, <1>2, <1>3, <2>1, <2>2, AccountKeeps
    <2>4. CASE pc' = "unbuild"
      BY <1>0, <1>1, <1>3, <2>3, <2>4 DEF LedgerInv, SetupInv, BuildInv, AnswerInv, masked
    <2>5. CASE Run!Account(Run!OptionTables(q), {}) /\ pc' = "strings"
      <3>1. Counts' /\ Owned' = old \cup masked \cup Run!OptionTables(q)
        BY <1>0, <1>2, <1>3, <2>1, <2>5, AccountKeeps
      <3> QED
        BY <1>0, <1>1, <2>5, <3>1 DEF LedgerInv, SetupInv, BuildInv, AnswerInv, masked
    <2> QED
      BY <1>6, <2>4, <2>5 DEF Run!AllocateOptions
  <1>7. CASE Run!CopyOptions
    <2>1. Owned = old \cup masked \cup Run!OptionTables(q) /\ pc = "strings"
      BY <1>7 DEF Run!CopyOptions, LedgerInv, BuildInv, masked
    <2>2. PICK S \in SUBSET Run!OptionStrings(q) : Run!Account(S, {})
      BY <1>7 DEF Run!CopyOptions
    <2>3. Counts' /\ Owned' = old \cup masked \cup Run!OptionTables(q) \cup S
      BY <1>0, <1>2, <1>3, <2>1, <2>2, AccountKeeps
    <2>4. CASE pc' = "unbuild"
      BY <1>0, <1>1, <1>3, <2>3, <2>4 DEF LedgerInv, SetupInv, BuildInv, AnswerInv, masked
    <2>5. CASE Run!Account(Run!OptionStrings(q), {}) /\ pc' = "text"
      <3>1. Counts' /\ Owned' = old \cup masked \cup Run!Options(q)
        BY <1>0, <1>2, <1>3, <2>1, <2>5, AccountKeeps
      <3> QED
        BY <1>0, <1>1, <2>5, <3>1 DEF LedgerInv, SetupInv, BuildInv, AnswerInv, masked
    <2> QED
      BY <1>7, <2>4, <2>5 DEF Run!CopyOptions
  <1>8. CASE Run!WriteSuffix
    <2>1. Owned = old \cup masked \cup Run!Options(q) /\ pc = "text"
      BY <1>8 DEF Run!WriteSuffix, LedgerInv, BuildInv, masked
    <2>2. CASE Run!Account({Run!Of("suffix", q)}, masked) /\ pc' = "suffix"
      <3>1. Counts' /\ Owned' = old \cup Run!Options(q) \cup {Run!Of("suffix", q)}
        BY <1>0, <1>2, <1>3, <2>1, <2>2, AccountKeeps DEF masked
      <3> QED
        BY <1>0, <1>1, <2>2, <3>1 DEF LedgerInv, SetupInv, BuildInv, AnswerInv
    <2>3. CASE UNCHANGED ledger /\ pc' = "unbuild"
      BY <1>0, <1>1, <2>1, <2>3, LedgerKeeps DEF LedgerInv, SetupInv, BuildInv, AnswerInv, masked
    <2> QED
      BY <1>8, <2>2, <2>3 DEF Run!WriteSuffix, masked
  <1>9. CASE Run!DropSuffix
    <2>1. /\ old \cup masked \subseteq Owned
          /\ Owned \subseteq old \cup masked \cup Run!Options(q)
      BY <1>9 DEF Run!DropSuffix, LedgerInv, BuildInv, masked
    <2>2. /\ Run!Account({}, (Run!Options(q) \cup masked) \cap Owned)
          /\ pc' = "cleanup" /\ status' # "OK"
      <3>1. Run!Had(Run!Options(q) \cup masked) = (Run!Options(q) \cup masked) \cap Owned
        BY <1>0, <1>2, HadIsOwned
      <3> QED
        BY <1>9, <3>1 DEF Run!DropSuffix, masked
    <2>3. Counts' /\ Owned' = old
      BY <1>0, <1>2, <1>3, <2>1, <2>2, AccountKeeps
    <2> QED
      BY <1>1, <2>2, <2>3 DEF LedgerInv, SetupInv, BuildInv, AnswerInv
  <1> QED
    BY <1>4, <1>5, <1>6, <1>7, <1>8, <1>9

\* A question that is stored leaves what q3_systemone_run() keeps of it.
LEMMA EncodeOfQuestion ==
    ASSUME LoopInv, BatchInv, LedgerInv, Run!EncodeSuffix \/ Run!EncodeCandidates
    PROVE  LedgerInv'
  <1> DEFINE old == Base \cup Kept(q - 1)
             encoded == {Run!Of("sids", q), Run!Of("cids", q)}
             suffix == {Run!Of("suffix", q)}
             written == {Run!Of("texts", q), Run!Of("text", q)}
  <1> USE DEF Run!Goes, Run!Fails
  <1>0. Counts /\ q \in 1 .. MaxQ /\ pc \in {"suffix", "candidates"}
    BY ApiAssumption DEF LedgerInv, LoopInv, Building, Run!EncodeSuffix, Run!EncodeCandidates,
       Run!ConstantsOK
  <1>1. /\ suffix \subseteq Run!Resources /\ Run!Options(q) \subseteq Run!Resources
        /\ encoded \subseteq Run!Resources
    BY <1>0, TheyAreResources DEF Run!PerQuestion
  <1>2. /\ old \cap suffix = {} /\ old \cap Run!Options(q) = {} /\ old \cap encoded = {}
        /\ suffix \cap Run!Options(q) = {} /\ encoded \cap Run!Options(q) = {}
        /\ suffix \cap encoded = {}
        /\ written \subseteq Run!Options(q)
    BY <1>0, PartsAre DEF Base, Kept, Run!Tables, Run!Of, Run!Once, Run!Options,
       Run!OptionTables, Run!OptionStrings
  <1>3. (old \cup Run!Options(q) \cup encoded) \ written = Base \cup Kept(q)
    BY <1>0, PartsAre DEF Base, Kept, Run!Tables, Run!Of, Run!Once, Run!Options,
       Run!OptionTables, Run!OptionStrings
  <1>4. ASSUME Counts', Owned' = old, pc' = "cleanup", status' # "OK", q' = q
        PROVE  LedgerInv'
    <2>1. Kept(q' - 1) = Kept(q - 1)
      BY <1>4
    <2> QED
      BY <1>4, <2>1 DEF LedgerInv, SetupInv, BuildInv, AnswerInv
  <1>5. CASE Run!EncodeSuffix
    <2> HIDE DEF encoded, suffix, written
    <2>1. Owned = old \cup Run!Options(q) \cup suffix /\ q' = q
      BY <1>5 DEF Run!EncodeSuffix, LedgerInv, BuildInv, Run!loopVars, suffix
    <2>2. CASE Run!Account(encoded, suffix) /\ pc' = "candidates"
      <3>1. Counts' /\ Owned' = old \cup Run!Options(q) \cup encoded
        BY <1>0, <1>1, <1>2, <2>1, <2>2, AccountKeeps
      <3>2. Kept(q' - 1) = Kept(q - 1)
        BY <2>1
      <3> QED
        BY <2>1, <2>2, <3>1, <3>2 DEF LedgerInv, SetupInv, BuildInv, AnswerInv, encoded
    <2>3. CASE Run!Account({}, Run!Options(q) \cup suffix) /\ pc' = "cleanup" /\ status' # "OK"
      <3>1. Counts' /\ Owned' = old
        BY <1>0, <1>1, <1>2, <2>1, <2>3, AccountKeeps
      <3> QED
        BY <1>4, <2>1, <2>3, <3>1
    <2> QED
      BY <1>5, <2>2, <2>3 DEF Run!EncodeSuffix, encoded, suffix
  <1>6. CASE Run!EncodeCandidates
    <2> HIDE DEF encoded, suffix, written
    <2>1. Owned = old \cup Run!Options(q) \cup encoded
      BY <1>6 DEF Run!EncodeCandidates, LedgerInv, BuildInv, encoded
    <2>2. CASE Run!Account({}, written) /\ pc' = "build" /\ q' = q + 1
      <3>1. Counts' /\ Owned' = (old \cup Run!Options(q) \cup encoded) \ written
        BY <1>0, <1>1, <1>2, <2>1, <2>2, AccountKeeps
      <3>2. Owned' = Base \cup Kept(q' - 1)
        <4>1. q' - 1 = q
          BY <1>0, <2>2
        <4> QED
          BY <1>3, <3>1, <4>1
      <3> QED
        BY <2>2, <3>1, <3>2 DEF LedgerInv, SetupInv, BuildInv, AnswerInv
    <2>3. CASE /\ Run!Account({}, Run!Options(q) \cup encoded)
               /\ pc' = "cleanup" /\ status' # "OK" /\ q' = q
      <3>1. Counts' /\ Owned' = old
        BY <1>0, <1>1, <1>2, <2>1, <2>3, AccountKeeps
      <3> QED
        BY <1>4, <2>1, <2>3, <3>1
    <2>4. \/ Run!Account({}, written) /\ pc' = "build" /\ q' = q + 1
          \/ /\ Run!Account({}, Run!Options(q) \cup encoded)
             /\ pc' = "cleanup" /\ status' # "OK" /\ q' = q
      <3>1. CASE pc' = "build"
        BY <1>6, <3>1 DEF Run!EncodeCandidates, written
      <3>2. CASE pc' # "build"
        BY <1>6, <3>2 DEF Run!EncodeCandidates, encoded
      <3> QED
        BY <3>1, <3>2
    <2> QED
      BY <2>2, <2>3, <2>4
  <1> QED
    BY <1>5, <1>6

\* From the check of the packed batch to the last answer.
LEMMA BatchOfQuestions ==
    ASSUME LoopInv, BatchInv, LedgerInv,
           Run!CheckPacked \/ Run!AcquireBranch \/ Run!Decide \/ Run!Answer
    PROVE  LedgerInv'
  <1> DEFINE old == Base \cup Kept(q - 1)
  <1> USE DEF Run!Goes, Run!Fails
  <1>0. Counts /\ q' = q /\ q \in Nat /\ a \in Nat \ {0}
    BY DEF LedgerInv, LoopInv, Run!CheckPacked, Run!AcquireBranch, Run!Decide, Run!Answer,
       Run!loopVars
  <1>1. Kept(q' - 1) = Kept(q - 1) /\ Answered(q' - 1) = Answered(q - 1)
    BY <1>0
  <1>2. Padded \subseteq Run!Resources /\ Padded \cap old = {}
    <2>1. Padded \cap old = {}
      BY PartsAre DEF Padded, Base, Kept, Run!Tables, Run!Once
    <2> QED
      BY <2>1, TheyAreResources
  <1>3. CASE Run!CheckPacked
    <2>1. Owned = old
      BY <1>3 DEF Run!CheckPacked, LedgerInv, BuildInv
    <2>2. CASE Run!Account(Padded, {}) /\ pc' = "acquire"
      <3>1. Counts' /\ Owned' = old \cup Padded
        BY <1>0, <1>2, <2>1, <2>2, AccountKeeps
      <3> QED
        BY <1>1, <2>2, <3>1 DEF LedgerInv, SetupInv, BuildInv, AnswerInv
    <2>3. CASE UNCHANGED ledger /\ pc' = "cleanup" /\ status' # "OK"
      BY <1>0, <1>1, <2>1, <2>3, LedgerKeeps DEF LedgerInv, SetupInv, BuildInv, AnswerInv
    <2> QED
      BY <1>3, <2>2, <2>3 DEF Run!CheckPacked, Padded
  <1>4. CASE Run!AcquireBranch
    <2>1. Owned = old \cup Padded /\ UNCHANGED ledger
      BY <1>4 DEF Run!AcquireBranch, LedgerInv, AnswerInv
    <2>2. Counts' /\ Owned' = old \cup Padded
      BY <1>0, <2>1, LedgerKeeps
    <2>3. pc' \in {"acquire", "decide"} \/ (pc' = "cleanup" /\ status' # "OK")
      BY <1>4 DEF Run!AcquireBranch
    <2> QED
      BY <1>1, <2>2, <2>3 DEF LedgerInv, SetupInv, BuildInv, AnswerInv
  <1>5. CASE Run!Decide
    <2>1. Owned = old \cup Padded /\ UNCHANGED ledger /\ a' = a /\ a = 1
      BY <1>5 DEF Run!Decide, LedgerInv, AnswerInv, LoopInv, Run!loopVars
    <2>2. Counts' /\ Owned' = old \cup Padded
      BY <1>0, <2>1, LedgerKeeps
    <2>3. Answered(a' - 1) = {}
      BY <2>1 DEF Answered
    <2>4. pc' = "answers" \/ (pc' = "cleanup" /\ status' # "OK")
      BY <1>5 DEF Run!Decide
    <2> QED
      BY <1>1, <2>2, <2>3, <2>4 DEF LedgerInv, SetupInv, BuildInv, AnswerInv
  <1>6. CASE Run!Answer
    <2> DEFINE new == {Run!Of("probs", a), Run!Of("logits", a)}
    <2>1. /\ Owned = old \cup Padded \cup Answered(a - 1)
          /\ q = Run!B + 1 /\ a <= Run!B /\ a \in 1 .. MaxQ /\ Run!B \in Nat /\ pc = "answers"
      BY <1>0, <1>6, ApiAssumption DEF Run!Answer, LedgerInv, AnswerInv, LoopInv, Run!ConstantsOK
    <2>2. new \subseteq Run!Resources
      BY <2>1, TheyAreResources DEF Run!PerQuestion
    <2>3. new \cap (old \cup Padded \cup Answered(a - 1)) = {}
      BY <2>1, PartsAre DEF Base, Kept, Run!Tables, Run!Of, Run!Once, Padded, Answered
    <2>4. Answered(a - 1) \cup new = Answered(a)
      BY <2>1 DEF Answered, Run!Of
    <2>5. Answered(a) \subseteq Answered(q - 1)
      BY <2>1 DEF Answered
    <2>6. /\ (old \cup Padded \cup Answered(a - 1)) \cup new
                = (old \cup Padded \cup Answered(a))
      BY <2>4
    <2> HIDE DEF new
    <2>7. CASE Run!Account(new, {}) /\ pc' \in {"answers", "cleanup"} /\ status' = "OK"
               /\ a' = a + 1 /\ (pc' = "cleanup" => a = Run!B)
      <3>1. Counts' /\ Owned' = old \cup Padded \cup Answered(a)
        BY <1>0, <2>1, <2>2, <2>3, <2>6, <2>7, AccountKeeps
      <3>2. a' - 1 = a /\ (pc' = "cleanup" => q - 1 = a)
        BY <2>1, <2>7
      <3>3. Answered(a' - 1) = Answered(a) /\ (pc' = "cleanup" => Answered(q - 1) = Answered(a))
        BY <3>2
      <3> QED
        BY <1>1, <2>7, <3>1, <3>3 DEF LedgerInv, SetupInv, BuildInv, AnswerInv
    <2>8. CASE /\ \E S \in SUBSET new : Run!Account(S, {})
               /\ pc' = "cleanup" /\ status' # "OK"
      <3>1. PICK S \in SUBSET new : Run!Account(S, {})
        BY <2>8
      <3>2. Counts' /\ Owned' = old \cup Padded \cup Answered(a - 1) \cup S
        BY <1>0, <2>1, <2>2, <2>3, <3>1, AccountKeeps
      <3> QED
        BY <1>1, <2>4, <2>5, <2>8, <3>2 DEF LedgerInv, SetupInv, BuildInv, AnswerInv
    <2>9. status = "OK"
      BY <2>1 DEF LoopInv
    <2>10. pc' = "cleanup" /\ status' # "OK" => \E S \in SUBSET new : Run!Account(S, {})
      BY <1>6, <2>9 DEF Run!Answer, new
    <2>11. pc' \in {"answers", "cleanup"} /\ (pc' = "answers" => status' = "OK")
      BY <1>6, <2>9 DEF Run!Answer
    <2>12. status' = "OK" => /\ Run!Account(new, {}) /\ a' = a + 1
                             /\ (pc' = "cleanup" => a = Run!B)
      BY <1>6, <2>9 DEF Run!Answer, new
    <2> QED
      BY <2>7, <2>8, <2>10, <2>11, <2>12
  <1> QED
    BY <1>3, <1>4, <1>5, <1>6

\* At the end, what is not the caller's has been freed.
LEMMA CleanupOfRun ==
    ASSUME LoopInv, BatchInv, LedgerInv, Run!Cleanup
    PROVE  LedgerInv'
  <1> DEFINE dropped == Run!Pointers \cup (IF status = "OK" THEN {} ELSE Run!Results)
             encoded == {"sids", "cids"} \X Run!Stored
  <1> USE PartsAre DEF Run!Once, Run!Stored, Base, Kept, Padded, Answered, Run!Tables
  <1>0. /\ Counts /\ q \in Nat \ {0} /\ q - 1 \in 0 .. MaxQ /\ UNCHANGED <<q, status>>
        /\ pc' = "returned" /\ pc = "cleanup" /\ Run!Account({}, Run!Had(dropped) \cup encoded)
    BY ApiAssumption DEF LedgerInv, LoopInv, Run!Cleanup, Run!Goes, Run!loopVars, Run!ConstantsOK
  <1>1. dropped \subseteq Run!Resources
    <2>1. Run!Pointers \subseteq Run!Resources
      BY DEF Run!Pointers, Run!Resources
    <2>2. Run!Results \subseteq Run!Resources
      <3>1. \A i \in Run!Stored : i \in 1 .. MaxQ
        BY <1>0, ApiAssumption DEF Run!ConstantsOK
      <3>2. {"keys", "labels", "key", "label"} \X Run!Stored \subseteq Run!Resources
        BY <3>1 DEF Run!Resources, Run!Options, Run!OptionTables, Run!OptionStrings
      <3>3. {"probs", "logits"} \X Run!Stored \subseteq Run!Resources
        BY <3>1 DEF Run!Resources, Run!PerQuestion
      <3>4. Run!Once("res") \in Run!Resources
        BY DEF Run!Resources
      <3> QED
        BY <3>2, <3>3, <3>4 DEF Run!Results
    <2> QED
      BY <2>1, <2>2
  <1>2. Run!Had(dropped) = dropped \cap Owned
    BY <1>0, <1>1, HadIsOwned
  <1>3. encoded \subseteq Owned
    BY <1>0 DEF LedgerInv, AnswerInv
  <1>4. Counts' /\ Owned' = Owned \ (dropped \cup encoded)
    <2> HIDE DEF dropped, encoded
    <2>1. Run!Account({}, (dropped \cap Owned) \cup encoded)
      BY <1>0, <1>2
    <2> QED
      BY <1>0, <1>3, <2>1, AccountKeeps
  <1>5. Owned' = IF status' = "OK" THEN Run!Results ELSE {}
    <2>1. CASE status = "OK"
      <3>1. Owned = Base \cup Kept(q - 1) \cup Padded \cup Answered(q - 1)
        BY <1>0, <2>1 DEF LedgerInv, AnswerInv
      <3>2. Owned' = Run!Results
        BY <1>4, <2>1, <3>1 DEF Run!Results, Run!Pointers
      <3> QED
        BY <1>0, <2>1, <3>2
    <2>2. CASE status # "OK"
      <3>1. Owned \subseteq Base \cup Kept(q - 1) \cup Padded \cup Answered(q - 1)
        BY <1>0, <2>2 DEF LedgerInv, AnswerInv
      <3>2. Owned' = {}
        BY <1>4, <2>2, <3>1 DEF Run!Results, Run!Pointers
      <3> QED
        BY <1>0, <2>2, <3>2
    <2> QED
      BY <2>1, <2>2
  <1>6. Run!Results' = Run!Results
    BY <1>0 DEF Run!Results
  <1> QED
    BY <1>0, <1>4, <1>5, <1>6 DEF LedgerInv, SetupInv, BuildInv, AnswerInv

-----------------------------------------------------------------------------
\* A create function counts what it has by its first pointer that is NULL.
LEMMA FirstCounts ==
    ASSUME NEW names, Len(names) \in Nat, NEW k \in 0 .. Len(names),
           \A i, j \in 1 .. Len(names) : names[i] = names[j] => i = j
    PROVE  Run!Cardinality(First(names, k)) = k
  <1> DEFINE f == [i \in 1 .. k |-> Run!Once(names[i])]
  <1>1. f \in [1 .. k -> First(names, k)]
    BY DEF First
  <1>2. \A i, j \in 1 .. k : f[i] = f[j] => i = j
    BY DEF Run!Once
  <1>3. \A r \in First(names, k) : \E i \in 1 .. k : f[i] = r
    BY DEF First
  <1>4. f \in Bijection(1 .. k, First(names, k))
    <2> HIDE DEF f
    <2> QED
      BY <1>1, <1>2, <1>3, Fun_IsBij, Zenon
  <1>5. Cardinality(First(names, k)) = k
    <2>1. ExistsBijection(1 .. k, First(names, k))
      BY <1>4, Zenon DEF ExistsBijection
    <2>2. k \in Nat
      OBVIOUS
    <2> QED
      BY <2>1, <2>2, FS_CountingElements, Zenon
  <1> QED
    BY <1>5, Zenon DEF Run!Cardinality, Cardinality

\* Either the next allocation succeeds, or all that there are have been undone
\* and the caller has dropped what it had itself.
LEMMA CreateStep ==
    ASSUME Counts, NEW names, Len(names) \in Nat, NEW k \in 0 .. Len(names) - 1,
           \A i, j \in 1 .. Len(names) : names[i] = names[j] => i = j,
           NEW D, D \cap Run!Parts(names) = {}, Run!Parts(names) \subseteq Run!Resources,
           Owned = D \cup First(names, k),
           NEW from, NEW to, NEW drops, drops \subseteq D,
           Run!Create(names, from, to, drops)
    PROVE  /\ Counts'
           /\ \/ /\ pc' = (IF k + 1 = Len(names) THEN to ELSE from)
                 /\ Owned' = D \cup First(names, k + 1)
              \/ pc' = "returned" /\ status' # "OK" /\ Owned' = D \ drops
  <1>1. First(names, k) \subseteq Run!Parts(names)
    BY DEF First, Run!Parts
  <1>2. Run!Had(Run!Parts(names)) = First(names, k)
    <2>1. Run!Had(Run!Parts(names)) = Run!Parts(names) \cap Owned
      BY HadIsOwned, Zenon
    <2> HIDE DEF Run!Parts, First, Owned
    <2> QED
      BY <1>1, <2>1
  <1>3. Run!Cardinality(Run!Had(Run!Parts(names))) + 1 = k + 1
    BY <1>2, FirstCounts
  <1>4. CASE /\ pc' = (IF k + 1 = Len(names) THEN to ELSE from)
             /\ Run!Account({Run!Once(names[k + 1])}, {})
    <2>1. Run!Once(names[k + 1]) \in Run!Parts(names)
      BY DEF Run!Parts
    <2>2. Run!Once(names[k + 1]) \notin First(names, k)
      BY DEF First, Run!Once
    <2>3. First(names, k + 1) = First(names, k) \cup {Run!Once(names[k + 1])}
      BY DEF First
    <2>4. Counts' /\ Owned' = Owned \cup {Run!Once(names[k + 1])}
      BY <1>4, <2>1, <2>2, AccountKeeps
    <2> QED
      BY <1>4, <2>3, <2>4
  <1>5. CASE /\ pc' = "returned" /\ status' # "OK"
             /\ Run!Account({}, First(names, k) \cup drops)
    <2>1. Counts' /\ Owned' = Owned \ (First(names, k) \cup drops)
      BY <1>5, AccountKeeps
    <2> QED
      BY <1>1, <1>5, <2>1
  <1> QED
    BY <1>2, <1>3, <1>4, <1>5 DEF Run!Create, Run!Undo, Run!Goes, Run!Fails

\* q3_prefix_create() and q3_branch_set_create().
LEMMA CreateOfRun ==
    ASSUME LoopInv, BatchInv, LedgerInv, Run!CreatePrefix \/ Run!CreateBranchSet
    PROVE  LedgerInv'
  <1>0. Counts
    BY DEF LedgerInv
  <1>1. CASE Run!CreatePrefix
    <2> DEFINE names == Run!PrefixParts
    <2>1. /\ Len(names) = 3
          /\ \A i, j \in 1 .. Len(names) : names[i] = names[j] => i = j
      <3>1. Len(names) = 3
        BY DEF Run!PrefixParts
      <3>2. names[1] = "prefix" /\ names[2] = "prefix_k" /\ names[3] = "prefix_v"
        BY DEF Run!PrefixParts
      <3> HIDE DEF names
      <3>3. \A i \in 1 .. 3 : i = 1 \/ i = 2 \/ i = 3
        OBVIOUS
      <3>4. \A i, j \in 1 .. 3 : names[i] = names[j] => i = j
        BY <3>2, <3>3
      <3> QED
        BY <3>1, <3>4
    <2>2. /\ Run!Parts(names) = Run!Prefix /\ First(names, 3) = Run!Prefix
          /\ First(names, 0) = {}
      BY <2>1 DEF Run!Prefix, Run!Parts, First
    <2>3. PICK k \in 0 .. 2 : Owned = StateIds \cup First(names, k)
      BY <1>1 DEF Run!CreatePrefix, LedgerInv, SetupInv
    <2>4. Run!Parts(names) \subseteq Run!Resources /\ StateIds \cap Run!Parts(names) = {}
      BY <2>2, PartsAre DEF Run!Resources, StateIds, Run!Once
    <2>5. Run!Create(names, "prefix", "set", StateIds)
      BY <1>1 DEF Run!CreatePrefix, StateIds
    <2> HIDE DEF names
    <2>6. /\ Counts'
          /\ \/ /\ pc' = (IF k + 1 = 3 THEN "set" ELSE "prefix")
                /\ Owned' = StateIds \cup First(names, k + 1)
             \/ pc' = "returned" /\ status' # "OK" /\ Owned' = StateIds \ StateIds
      <3>1. Len(names) \in Nat /\ k \in 0 .. Len(names) - 1 /\ StateIds \subseteq StateIds
        BY <2>1
      <3>2. /\ Counts'
            /\ \/ /\ pc' = (IF k + 1 = Len(names) THEN "set" ELSE "prefix")
                  /\ Owned' = StateIds \cup First(names, k + 1)
               \/ pc' = "returned" /\ status' # "OK" /\ Owned' = StateIds \ StateIds
        BY <1>0, <2>1, <2>3, <2>4, <2>5, <3>1, CreateStep, Zenon
      <3> QED
        BY <2>1, <3>2
    <2>7. CASE pc' = "prefix"
      <3>1. k + 1 \in 0 .. 2 /\ Owned' = StateIds \cup First(names, k + 1)
        BY <2>6, <2>7
      <3> QED
        BY <2>6, <2>7, <3>1 DEF LedgerInv, SetupInv, BuildInv, AnswerInv, names
    <2>8. CASE pc' = "set"
      <3>1. Owned' = StateIds \cup Run!Prefix
        BY <2>2, <2>6, <2>8
      <3>2. First(Run!SetParts, 0) = {}
        BY DEF First
      <3>3. \E n \in 0 .. 4 : Owned' = StateIds \cup Run!Prefix \cup First(Run!SetParts, n)
        BY <3>1, <3>2
      <3> QED
        BY <2>6, <2>8, <3>3 DEF LedgerInv, SetupInv, BuildInv, AnswerInv
    <2>9. CASE pc' = "returned"
      BY <2>6, <2>9 DEF LedgerInv, SetupInv, BuildInv, AnswerInv
    <2> QED
      BY <2>6, <2>7, <2>8, <2>9
  <1>2. CASE Run!CreateBranchSet
    <2> DEFINE names == Run!SetParts
               had == StateIds \cup Run!Prefix
    <2>1. /\ Len(names) = 5
          /\ \A i, j \in 1 .. Len(names) : names[i] = names[j] => i = j
      <3>1. Len(names) = 5
        BY DEF Run!SetParts
      <3>2. /\ names[1] = "set" /\ names[2] = "in_use" /\ names[3] = "suffix_k"
            /\ names[4] = "suffix_v" /\ names[5] = "scratch"
        BY DEF Run!SetParts
      <3> HIDE DEF names
      <3>3. \A i \in 1 .. 5 : i = 1 \/ i = 2 \/ i = 3 \/ i = 4 \/ i = 5
        OBVIOUS
      <3>4. \A i, j \in 1 .. 5 : names[i] = names[j] => i = j
        BY <3>2, <3>3
      <3> QED
        BY <3>1, <3>4
    <2>2. Run!Parts(names) = Run!BranchSet /\ First(names, 5) = Run!BranchSet
      BY <2>1 DEF Run!BranchSet, Run!Parts, First
    <2>3. PICK k \in 0 .. 4 : Owned = had \cup First(names, k)
      BY <1>2 DEF Run!CreateBranchSet, LedgerInv, SetupInv
    <2>4. Run!Parts(names) \subseteq Run!Resources /\ had \cap Run!Parts(names) = {}
      BY <2>2, PartsAre DEF Run!Resources, StateIds, Run!Once
    <2>5. Run!Create(names, "set", "prefill", had)
      <3>1. Run!Prefix \cup {Run!Once("state_ids")} = had
        BY DEF StateIds
      <3> QED
        BY <1>2, <3>1 DEF Run!CreateBranchSet
    <2> HIDE DEF names, had
    <2>6. /\ Counts'
          /\ \/ /\ pc' = (IF k + 1 = 5 THEN "prefill" ELSE "set")
                /\ Owned' = had \cup First(names, k + 1)
             \/ pc' = "returned" /\ status' # "OK" /\ Owned' = had \ had
      <3>1. Len(names) \in Nat /\ k \in 0 .. Len(names) - 1 /\ had \subseteq had
        BY <2>1
      <3>2. /\ Counts'
            /\ \/ /\ pc' = (IF k + 1 = Len(names) THEN "prefill" ELSE "set")
                  /\ Owned' = had \cup First(names, k + 1)
               \/ pc' = "returned" /\ status' # "OK" /\ Owned' = had \ had
        <4>1. \A i, j \in 1 .. Len(names) : names[i] = names[j] => i = j
          BY <2>1, Zenon
        <4>2. had \cap Run!Parts(names) = {} /\ Run!Parts(names) \subseteq Run!Resources
          BY <2>4, Zenon
        <4> QED
          BY <1>0, <2>3, <2>5, <3>1, <4>1, <4>2, CreateStep, ZenonT(60)
      <3> QED
        BY <2>1, <3>2
    <2>7. CASE pc' = "set"
      <3>1. k + 1 \in 0 .. 4 /\ Owned' = had \cup First(names, k + 1)
        BY <2>6, <2>7
      <3> QED
        BY <2>6, <2>7, <3>1 DEF LedgerInv, SetupInv, BuildInv, AnswerInv, names, had
    <2>8. CASE pc' = "prefill"
      <3>1. Owned' = had \cup Run!BranchSet
        BY <2>2, <2>6, <2>8
      <3> QED
        BY <2>6, <2>8, <3>1 DEF LedgerInv, SetupInv, BuildInv, AnswerInv, had
    <2>9. CASE pc' = "returned"
      BY <2>6, <2>9 DEF LedgerInv, SetupInv, BuildInv, AnswerInv
    <2> QED
      BY <2>6, <2>7, <2>8, <2>9
  <1> QED
    BY <1>1, <1>2

\* Every step of q3_systemone_run() does to the ledger what its table says.
LEMMA LedgerStep ==
    ASSUME LoopInv, BatchInv, LedgerInv, Run!Next
    PROVE  LedgerInv'
  BY StartOfRun, CreateOfRun, BuildOfQuestion, EncodeOfQuestion, BatchOfQuestions, CleanupOfRun
     DEF Run!Next

-----------------------------------------------------------------------------
\* The steps of the run keep all that is known of it, and the request.
LEMMA RunKeeps ==
    ASSUME RunInv, Run!Next
    PROVE  RunInv' /\ request' = request /\ pc # "idle" /\ pc' # "idle"
  <1>1. RunInv'
    BY LedgerStep, LoopStep, BatchStep DEF RunInv
  <1>2. request' = request /\ pc # "idle" /\ pc' # "idle"
    BY DEF Run!Next, Run!CheckRequest, Run!DumpState, Run!EncodeState, Run!CreatePrefix,
       Run!CreateBranchSet, Run!PrefillAndSeal, Run!AllocateTables, Run!StartQuestion,
       Run!MaskQuestion, Run!AllocateOptions, Run!CopyOptions, Run!WriteSuffix,
       Run!DropSuffix, Run!EncodeSuffix, Run!EncodeCandidates, Run!CheckPacked,
       Run!AcquireBranch, Run!Decide, Run!Answer, Run!Cleanup, Run!Create, Run!Goes, Run!Fails
  <1> QED
    BY <1>1, <1>2

\* All that is known of the run depends on its own variables.
LEMMA RunStutters == RunInv /\ UNCHANGED runVars => RunInv'
  BY DEF runVars, RunInv, LedgerInv, Counts, Owned, SetupInv, BuildInv, AnswerInv, LoopInv,
     BatchInv, Run!B, Run!Question, Run!RequestOK, Run!QuestionOK, Run!Results, Run!Stored,
     Run!SuffixFits

\* What a run begins with.
LEMMA BeginsWell ==
    Run!RequestOK(request) /\ Run!Idle /\ pc \in {"idle", "start"} => RunInv
  <1> SUFFICES ASSUME Run!RequestOK(request), Run!Idle, pc \in {"idle", "start"}
               PROVE  RunInv
    OBVIOUS
  <1>1. Counts /\ Owned = {}
    <2> HIDE DEF Run!Resources
    <2> QED
      BY DEF Run!Idle, Counts, Owned
  <1>2. LedgerInv
    BY <1>1 DEF LedgerInv, SetupInv, BuildInv, AnswerInv
  <1>3. LoopInv
    <2> HIDE DEF Run!RequestOK
    <2> QED
      BY DEF Run!Idle, LoopInv, Run!Stages, Building
  <1>4. BatchInv
    BY DEF Run!Idle, BatchInv, Building
  <1> QED
    BY <1>2, <1>3, <1>4 DEF RunInv

\* A request read from a file is not taken for one from a socket.
LEMMA FileIsNoHttp == HttpOK(http) => ~FromFile
  BY DEF HttpOK, Methods, FromFile, NoHttp

\* A request begins with nothing allocated, from the socket or from a file.
THEOREM InitOfRequest == Init => IInv
  <1> SUFFICES ASSUME Init PROVE IInv
    OBVIOUS
  <1>1. CASE http \in HttpRequests /\ stage = "request" /\ request = NoRequest /\ pc = "idle"
             /\ Run!Idle
    <2>1. HttpOK(http) /\ ~FromFile
      BY <1>1, ApiAssumption, FileIsNoHttp
    <2>2. Run!RequestOK(request)
      BY <1>1 DEF NoRequest, Run!RequestOK, Run!StateKinds
    <2>3. RunInv
      BY <1>1, <2>2, BeginsWell
    <2>4. StageInv
      <3> HIDE DEF Run!Idle, HttpOK, FromFile
      <3> QED
        BY <1>1, <2>1 DEF StageInv
    <2> QED
      BY <2>3, <2>4 DEF IInv
  <1>2. CASE http = NoHttp /\ stage = "running" /\ \E r \in FileRequests : Run!Begins(r)
    <2>1. Run!RequestOK(request) /\ Run!Idle /\ pc = "start"
      BY <1>2, ApiAssumption DEF Run!Begins
    <2>2. RunInv
      BY <2>1, BeginsWell
    <2>3. StageInv
      BY <1>2, <2>1 DEF StageInv, FromFile
    <2> QED
      BY <2>2, <2>3 DEF IInv
  <1> QED
    BY <1>1, <1>2 DEF Init

\* Nobody changes the request, so what was found out about it stays.
LEMMA HttpKeeps ==
    UNCHANGED http => /\ FromFile' = FromFile /\ HttpOK(http)' = HttpOK(http)
                      /\ ValidSchema' = ValidSchema /\ Body' = Body
  BY DEF FromFile, HttpOK, BodyOK, ValidSchema, ValidState, ValidQuestion, ValidChoice,
     ValidScore, ValidNoul, Body, Run!QuestionOK

\* The handlers do not touch the run.
LEMMA HandlersKeep ==
    ASSUME IInv, HandleRequest \/ HandleSystemOne
    PROVE  IInv'
  <1>1. RunInv'
    BY RunStutters DEF IInv, HandleRequest, HandleSystemOne
  <1>2. UNCHANGED <<http, runVars>>
    BY DEF HandleRequest, HandleSystemOne
  <1>3. /\ FromFile' = FromFile /\ HttpOK(http)' = HttpOK(http) /\ ValidSchema' = ValidSchema
        /\ Run!Idle' = Run!Idle /\ Body' = Body
    BY <1>2, HttpKeeps DEF runVars, Run!Idle
  <1>4. pc = "idle" /\ ~FromFile /\ Run!Idle /\ stage \in {"request", "systemone"}
    BY DEF IInv, StageInv, HandleRequest, HandleSystemOne
  <1>5. \/ stage' = "systemone"
        \/ stage' = "queued" /\ ValidSchema
        \/ stage' = "done" /\ (code' = 200 => http.path # "/v1/systemone")
    <2>1. CASE HandleRequest
      BY <2>1 DEF HandleRequest, Respond, Proceed, IsHealth, IsModels
    <2>2. CASE HandleSystemOne
      BY <2>2 DEF HandleSystemOne, Respond, Proceed
    <2> QED
      BY <2>1, <2>2
  <1>6. StageInv'
    <2> HIDE DEF FromFile, HttpOK, ValidSchema, Run!Idle
    <2> QED
      BY <1>2, <1>3, <1>4, <1>5 DEF IInv, StageInv, runVars
  <1> QED
    BY <1>1, <1>6 DEF IInv

\* The request that the worker writes out is one that the runtime can be given.
LEMMA StartKeeps ==
    ASSUME IInv, StartJob
    PROVE  IInv'
  <1>1. /\ pc = "idle" /\ ~FromFile /\ Run!Idle /\ stage = "queued" /\ ValidSchema /\ HttpOK(http)
        /\ Run!Idle' /\ pc' \in {"idle", "start"} /\ UNCHANGED http
    BY DEF IInv, StageInv, StartJob, Run!Idle
  <1>2. FromFile' = FromFile /\ HttpOK(http)' = HttpOK(http) /\ ValidSchema' = ValidSchema /\ Body' = Body
    BY <1>1, HttpKeeps, Zenon
  <1>3. Run!RequestOK(request)'
    <2>1. CASE request' = request
      BY <2>1 DEF IInv, RunInv, LoopInv, Run!RequestOK, Run!QuestionOK
    <2>2. CASE request' = [state |-> Body.state, stateTokens |-> Body.stateTokens,
                           questions |-> Body.questions]
      BY <1>1, <2>2 DEF HttpOK, BodyOK, Body, Run!RequestOK
    <2> QED
      BY <2>1, <2>2 DEF StartJob
  <1>4. RunInv'
    <2>1. (Run!RequestOK(request) /\ Run!Idle /\ pc \in {"idle", "start"} => RunInv)'
      BY BeginsWell, PTL
    <2> QED
      BY <1>1, <1>3, <2>1
  <1>5. StageInv'
    <2>1. \/ /\ stage' = "running" /\ pc' = "start"
             /\ request' = [state |-> Body.state, stateTokens |-> Body.stateTokens,
                            questions |-> Body.questions]
          \/ stage' = "done" /\ code' = 500 /\ pc' = pc
      BY DEF StartJob, Respond, Proceed
    <2> HIDE DEF FromFile, HttpOK, ValidSchema, Run!Idle, Body
    <2> QED
      BY <1>1, <1>2, <2>1 DEF StageInv
  <1> QED
    BY <1>4, <1>5 DEF IInv

\* The results of a success are freed when the job is done.
LEMMA FinishKeeps ==
    ASSUME IInv, FinishJob
    PROVE  IInv'
  <1>1. /\ pc = "returned" /\ pc' = "idle" /\ UNCHANGED <<http, request, q, a, total, sealed, handles, status>>
        /\ stage = "running" /\ Run!Account({}, FreedResults)
        /\ Counts /\ Owned = FreedResults
    BY DEF FinishJob, IInv, RunInv, LedgerInv, AnswerInv, FreedResults
  <1>2. Counts' /\ Owned' = {}
    BY <1>1, AccountKeeps
  <1>3. LedgerInv'
    BY <1>1, <1>2 DEF LedgerInv, SetupInv, BuildInv, AnswerInv
  <1>4. LoopInv'
    BY <1>1 DEF IInv, RunInv, LoopInv, Run!B, Run!RequestOK, Run!QuestionOK, Run!Stages, Building
  <1>5. BatchInv'
    BY <1>1 DEF IInv, RunInv, BatchInv, Building
  <1>6. /\ FromFile' = FromFile /\ HttpOK(http)' = HttpOK(http) /\ Body' = Body
        /\ (FromFile \/ HttpOK(http))
    BY <1>1, HttpKeeps, Zenon DEF IInv, StageInv
  <1>7. stage' = "done" /\ (code' = 200 /\ ~FromFile => status = "OK")
    BY <1>1 DEF FinishJob, Respond
  <1>8. status = "OK" => a = Run!B + 1 /\ Run!B \in 1 .. MaxQ
    BY <1>1 DEF IInv, RunInv, LoopInv
  <1>9. ~FromFile => Run!B = Len(Body.questions)
    BY <1>1 DEF IInv, StageInv, Run!B
  <1>10. StageInv'
    <2> HIDE DEF FromFile, HttpOK, Body, Run!B
    <2>1. Run!B \in 1 .. MaxQ => Run!B > 0
      BY ApiAssumption DEF Run!ConstantsOK
    <2> QED
      BY <1>1, <1>6, <1>7, <1>8, <1>9, <2>1 DEF StageInv
  <1> QED
    BY <1>3, <1>4, <1>5, <1>10 DEF IInv, RunInv

\* Every handler and every step of the run keeps the invariant.
THEOREM StepOfRequest == IInv /\ [Next]_vars => IInv'
  <1> SUFFICES ASSUME IInv, [Next]_vars PROVE IInv'
    OBVIOUS
  <1>1. CASE HandleRequest \/ HandleSystemOne
    BY <1>1, HandlersKeep
  <1>2. CASE StartJob
    BY <1>2, StartKeeps
  <1>3. CASE FinishJob
    BY <1>3, FinishKeeps
  <1>4. CASE RunStep
    <2>1. RunInv' /\ request' = request /\ pc' # "idle" /\ UNCHANGED <<http, stage, code>>
          /\ stage = "running"
      BY <1>4, RunKeeps DEF RunStep, IInv
    <2>2. FromFile' = FromFile /\ HttpOK(http)' = HttpOK(http) /\ ValidSchema' = ValidSchema /\ Body' = Body
      BY <2>1, HttpKeeps, Zenon
    <2>3. StageInv'
      <3> HIDE DEF FromFile, HttpOK, ValidSchema, Body, Run!Idle
      <3> QED
        BY <2>1, <2>2 DEF StageInv, IInv
    <2> QED
      BY <2>1, <2>3 DEF IInv
  <1>5. CASE UNCHANGED vars
    <2>1. RunInv'
      BY <1>5, RunStutters DEF vars, IInv
    <2>2. StageInv'
      <3>1. /\ FromFile' = FromFile /\ HttpOK(http)' = HttpOK(http)
            /\ ValidSchema' = ValidSchema /\ Body' = Body
        BY <1>5, HttpKeeps, Zenon DEF vars
      <3>2. UNCHANGED <<stage, code, http>> /\ UNCHANGED runVars /\ Run!Idle' = Run!Idle
        BY <1>5 DEF vars, runVars, Run!Idle
      <3> HIDE DEF FromFile, HttpOK, ValidSchema, Body, Run!Idle
      <3> QED
        BY <3>1, <3>2 DEF StageInv, IInv, runVars
    <2> QED
      BY <2>1, <2>2 DEF IInv
  <1> QED
    BY <1>1, <1>2, <1>3, <1>4, <1>5 DEF Next

\* The induction that all of them rest on.
THEOREM Inductive == Spec => []IInv
  BY InitOfRequest, StepOfRequest, PTL DEF Spec

-----------------------------------------------------------------------------
\* The table of the ledger at the return.
LEMMA IInvIsSound == IInv => MemorySound
  <1> SUFFICES ASSUME IInv PROVE MemorySound
    OBVIOUS
  <1>1. Counts /\ (pc = "returned" => Owned = IF status = "OK" THEN Run!Results ELSE {})
    BY DEF IInv, RunInv, LedgerInv, AnswerInv
  <1> HIDE DEF Run!Resources, Run!Results
  <1>2. \A r \in Run!Resources : ledger[r] \in {0, 1}
    BY <1>1 DEF Counts
  <1>3. ASSUME pc = "returned", NEW r \in Run!Resources
        PROVE  ledger[r] = 1 <=> status = "OK" /\ r \in Run!Results
    <2>1. ledger[r] = 1 <=> r \in Owned
      BY DEF Owned
    <2> QED
      BY <1>1, <1>3, <2>1
  <1> QED
    BY <1>2, <1>3 DEF MemorySound, Run!MemorySound

\* Nothing that q3_systemone_run() allocates is freed twice or forgotten,
\* wherever it fails: on each of its returns the caller owns the results of a
\* success and nobody owns anything else.
THEOREM NothingIsLeaked == Spec => []MemorySound
  BY Inductive, IInvIsSound, PTL

\* The table of the ledger, and the loop of the answers, after the response.
LEMMA IInvIsClean == IInv => AnsweredAndClean
  <1> SUFFICES ASSUME IInv, stage = "done"
               PROVE  /\ \A r \in Run!Resources : ledger[r] = 0
                      /\ code = 200 /\ ~FromFile /\ http.path = "/v1/systemone" =>
                            a = Len(Body.questions) + 1 /\ Len(Body.questions) > 0
    BY DEF AnsweredAndClean
  <1>1. Counts /\ Owned = {}
    BY DEF IInv, StageInv, RunInv, LedgerInv, SetupInv
  <1>2. \A r \in Run!Resources : ledger[r] = 0
    <2> HIDE DEF Run!Resources
    <2> QED
      BY <1>1 DEF Counts, Owned
  <1> QED
    BY <1>2 DEF IInv, StageInv

\* A request that has been answered keeps no memory of the runtime, and one
\* that was answered 200 had every one of its questions decided.
THEOREM AnsweredMeansDecided == Spec => []AnsweredAndClean
  BY Inductive, IInvIsClean, PTL

\* The longest list of candidates is one that q3_decide_run() takes.
LEMMA CandidatesFit ==
    ASSUME LoopInv, BatchInv, pc = "decide"
    PROVE  Run!K \in 1 .. MaxCandidates
  <1> DEFINE counts == {Run!OptionCount(request.questions[i]) : i \in 1 .. Run!B}
  <1>1. Run!B \in 1 .. MaxQ /\ q = Run!B + 1 /\ MaxQ \in Nat
    BY ApiAssumption DEF LoopInv, Run!ConstantsOK
  <1>2. ASSUME NEW i \in 1 .. Run!B
        PROVE  Run!OptionCount(request.questions[i]) \in 1 .. MaxCandidates
    <2>1. Sound(request.questions[i]) /\ Run!QuestionOK(request.questions[i])
      <3>1. i \in 1 .. q - 1
        BY <1>1
      <3> QED
        BY <1>1, <3>1 DEF BatchInv, LoopInv, Run!RequestOK, Run!B
    <2> QED
      BY <2>1, ApiAssumption DEF Sound, Run!Builds, Run!OptionCount, Run!QuestionOK,
         Run!QuestionTypes, Run!ConstantsOK
  <1>3. counts \subseteq 1 .. MaxCandidates /\ counts # {}
    <2>1. 1 \in 1 .. Run!B
      BY <1>1
    <2> QED
      BY <1>2, <2>1
  <1>4. counts \subseteq 0 .. MaxCandidates /\ MaxCandidates \in Nat
    BY <1>3, ApiAssumption DEF Run!ConstantsOK
  <1>5. Run!Max(counts) \in counts
    <2> HIDE DEF counts
    <2> QED
      BY <1>3, <1>4, MaxIsMember
  <1> QED
    BY <1>3, <1>5 DEF Run!K

\* What the decision asks for is what the loops have found out.
LEMMA IInvIsAcceptable == IInv => BatchIsAcceptable
  <1> SUFFICES ASSUME IInv, pc = "decide"
               PROVE  /\ Run!DecideAccepts
                      /\ \A i, j \in 1 .. Run!B : handles[i] = handles[j] => i = j
                      /\ \A r \in Run!Tables \cup ({"sids", "cids"} \X (1 .. Run!B))
                            \cup Run!Prefix \cup Run!BranchSet \cup {Run!Once("padded")} :
                               ledger[r] = 1
    BY DEF BatchIsAcceptable, Run!BatchIsAcceptable
  <1>1. LoopInv /\ BatchInv /\ LedgerInv
    BY DEF IInv, RunInv
  <1>2. /\ Run!B \in 1 .. MaxQ /\ q = Run!B + 1 /\ MaxQ \in Nat /\ sealed
        /\ Len(handles) = Run!B /\ handles \in Seq(0 .. MaxQ - 1)
    BY <1>1, ApiAssumption DEF LoopInv, BatchInv, Run!ConstantsOK
  <1>3. \A i, j \in 1 .. Run!B : handles[i] = handles[j] => i = j
    BY <1>1, <1>2 DEF BatchInv
  <1>4. \A i \in 1 .. Run!B : handles[i] < MaxQ
    <2>1. \A i \in 1 .. Run!B : handles[i] \in 0 .. MaxQ - 1
      BY <1>2
    <2> QED
      BY <1>2, <2>1
  <1>5. \A i \in 1 .. Run!B : request.questions[i].tokens \in 1 .. MaxSuffix
    <2> SUFFICES ASSUME NEW i \in 1 .. Run!B
                 PROVE  request.questions[i].tokens \in 1 .. MaxSuffix
      OBVIOUS
    <2>1. request.questions[i].tokens \in Nat \ {0}
      BY <1>1 DEF LoopInv, Run!RequestOK, Run!QuestionOK, Run!B
    <2>2. i \in 1 .. q - 1
      BY <1>2
    <2>3. request.questions[i].tokens <= MaxSuffix
      BY <1>1, <2>2 DEF BatchInv
    <2> QED
      BY <2>1, <2>3, ApiAssumption DEF Run!ConstantsOK
  <1>6. total - request.stateTokens <= Run!RuntimeTokens
    <2>1. total \in Nat /\ total <= Run!MaxPacked /\ request.stateTokens \in Nat
      BY <1>1 DEF BatchInv, LoopInv, Run!RequestOK
    <2> HIDE DEF Run!MaxPacked, Run!RuntimeTokens
    <2> QED
      BY <2>1, PackedIsNat
  <1>7. Run!K \in 1 .. MaxCandidates
    BY <1>1, CandidatesFit
  <1>8. Run!DecideAccepts
    <2> HIDE DEF Run!K, Run!RuntimeTokens, Run!B
    <2> QED
      BY <1>2, <1>4, <1>5, <1>6, <1>7 DEF Run!DecideAccepts
  <1>9. ASSUME NEW r \in Run!Tables \cup ({"sids", "cids"} \X (1 .. Run!B))
                     \cup Run!Prefix \cup Run!BranchSet \cup {Run!Once("padded")}
        PROVE  ledger[r] = 1
    <2>1. Owned = Base \cup Kept(q - 1) \cup Padded
      BY <1>1 DEF LedgerInv, AnswerInv
    <2>2. q - 1 = Run!B
      BY <1>2
    <2>3. r \in Base \cup Kept(Run!B) \cup Padded
      <3>1. {"sids", "cids"} \X (1 .. Run!B) \subseteq Kept(Run!B)
        BY DEF Kept
      <3> QED
        BY <1>9, <3>1 DEF Base, Padded
    <2>4. r \in Owned
      BY <2>1, <2>2, <2>3
    <2> QED
      BY <2>4 DEF Owned
  <1> QED
    BY <1>3, <1>8, <1>9

\* q3_decide_run() gets no batch that its guards refuse, none that uses a
\* branch twice, which it does not look for, and none that has been freed.
THEOREM DecisionIsAccepted == Spec => []BatchIsAcceptable
  BY Inductive, IInvIsAcceptable, PTL

\* The schema of the server implies every check of the runtime's.
LEMMA IInvAgrees == IInv => RuntimeAgrees
  <1> SUFFICES ASSUME IInv, stage = "running", ~FromFile
               PROVE  /\ Run!Refusal = "OK"
                      /\ \A i \in 1 .. Run!B :
                            /\ request.questions[i].object
                            /\ request.questions[i].type # "other"
                            /\ Run!Builds(request.questions[i])
    BY DEF RuntimeAgrees
  <1>1. /\ ValidSchema /\ HttpOK(http)
        /\ request = [state |-> Body.state, stateTokens |-> Body.stateTokens,
                      questions |-> Body.questions]
    BY DEF IInv, StageInv
  <1>2. Run!B = Len(Body.questions) /\ Run!B \in 1 .. MaxQ /\ MaxQ \in Nat
    BY <1>1, ApiAssumption DEF Run!B, ValidSchema, Run!ConstantsOK
  <1>3. Run!Refusal = "OK"
    <2> HIDE DEF Run!B
    <2> QED
      BY <1>1, <1>2 DEF Run!Refusal, ValidSchema, ValidState
  <1>4. ASSUME NEW i \in 1 .. Run!B
        PROVE  /\ request.questions[i].object
               /\ request.questions[i].type # "other"
               /\ Run!Builds(request.questions[i])
    <2>1. PICK qn : qn = Body.questions[i]
      OBVIOUS
    <2>2. request.questions[i] = qn
      BY <1>1, <2>1
    <2>3. ValidQuestion(qn) /\ Len(qn.options) \in Nat
      BY <1>1, <1>2, <2>1 DEF ValidSchema, HttpOK, BodyOK, Body, Run!QuestionOK
    <2>4. qn.object /\ qn.type # "other" /\ Run!Builds(qn)
      <3>1. qn.object
        BY <2>3, Zenon DEF ValidQuestion
      <3>2. \/ /\ qn.type = "choice" /\ qn.shape = "object"
               /\ Len(qn.options) \in 2 .. MaxCandidates
            \/ qn.type = "score" /\ qn.shape = "array" /\ Len(qn.options) \in 2 .. 10
            \/ qn.type = "noul"
        BY <2>3, Zenon DEF ValidQuestion, ValidChoice, ValidScore
      <3>3. MaxCandidates \in Nat /\ MaxCandidates >= 10
        BY ApiAssumption DEF Run!ConstantsOK
      <3>4. qn.type # "other" /\ Run!Builds(qn)
        <4>1. CASE qn.type = "choice" /\ qn.shape = "object"
                   /\ Len(qn.options) \in 2 .. MaxCandidates
          BY <4>1 DEF Run!Builds, Run!OptionCount
        <4>2. CASE qn.type = "score" /\ qn.shape = "array" /\ Len(qn.options) \in 2 .. 10
          <5>1. Len(qn.options) \in 2 .. MaxCandidates
            <6>1. \A n, m \in Nat : n \in 2 .. 10 /\ m >= 10 => n \in 2 .. m
              OBVIOUS
            <6> QED
              BY <2>3, <3>3, <4>2, <6>1, Zenon
          <5> QED
            BY <4>2, <5>1 DEF Run!Builds, Run!OptionCount
        <4>3. CASE qn.type = "noul"
          BY <4>3 DEF Run!Builds
        <4> QED
          BY <3>2, <4>1, <4>2, <4>3
      <3> QED
        BY <3>1, <3>4
    <2> QED
      BY <2>2, <2>4
  <1> QED
    BY <1>3, <1>4

\* The server's validator and the runtime's agree: a request that the server
\* has accepted and written out is refused by no check of the runtime's on its
\* shape, its types of question or its number of options.
THEOREM ValidatorsAgree == Spec => []RuntimeAgrees
  BY Inductive, IInvAgrees, PTL
=============================================================================
