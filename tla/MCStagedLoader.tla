--------------------------- MODULE MCStagedLoader ---------------------------
(* Instances of StagedLoader small enough for TLC. *)
EXTENDS StagedLoader

\* Spans of one, two and three tensors; more spans than twice the slots, so
\* that every slot is reused more than once.
FiveSpans == [s \in 0 .. 4 |-> 1 + (s % 3)]
=============================================================================
