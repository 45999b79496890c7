-------------------------- MODULE MCDecisionEngine --------------------------
(* An instance of DecisionEngine small enough for TLC: texts of one token   *)
(* and of the most that fit, one that is too long of each kind, and fewer   *)
(* candidates than fit (the row of a branch in the logits is as long as     *)
(* the batch's candidate lists) or too many.                                *)
EXTENDS DecisionEngine

SomePrefixes   == {<<1>>, <<2, 1>>, <<1, 1, 1>>}
SomeSuffixes   == {<<1>>, <<2, 1>>, <<1, 1, 2>>}
SomeCandidates == {<<7, 8>>, <<7, 8, 9, 10>>}
=============================================================================
