--------------------------- MODULE BatchDecisions ---------------------------
(***************************************************************************)
(* What the decision engine (src/q3_decide.h) promises, without a device:  *)
(* a prefix is given and sealed, and then every question of a batch is     *)
(* scored against the prefix and its own suffix alone, whatever the other  *)
(* questions of the batch are, whatever was asked before, and whichever    *)
(* branches are used.                                                      *)
(***************************************************************************)
EXTENDS Integers, Sequences

CONSTANTS PrefixTexts, SuffixTexts, CandidateLists, MaxBranches

VARIABLES text,     \* the prefix; <<>> when there is none
          sealed,
          answers   \* the results of the last batch that was decided

vars == <<text, sealed, answers>>

Init == text = <<>> /\ sealed = FALSE /\ answers = <<>>

Prefill(t) == ~sealed /\ text' = t /\ UNCHANGED <<sealed, answers>>

Seal == text # <<>> /\ sealed' = TRUE /\ UNCHANGED <<text, answers>>

\* A score is known by the text and the candidate it is the score of.
Answer(question) ==
    [k \in 1 .. Len(question.cands) |->
        [ctx |-> text \o question.tokens, cand |-> question.cands[k]]]

Questions == [tokens : SuffixTexts, cands : CandidateLists]

Decide(batch) ==
    /\ sealed
    /\ answers' = [b \in 1 .. Len(batch) |-> Answer(batch[b])]
    /\ UNCHANGED <<text, sealed>>

Destroy == text' = <<>> /\ sealed' = FALSE /\ answers' = <<>>

Next ==
    \/ \E t \in PrefixTexts : Prefill(t)
    \/ Seal
    \/ \E n \in 1 .. MaxBranches : \E batch \in [1 .. n -> Questions] : Decide(batch)
    \/ Destroy

Spec == Init /\ [][Next]_vars
=============================================================================
