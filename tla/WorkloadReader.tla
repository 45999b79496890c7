---------------------------- MODULE WorkloadReader ----------------------------
(***************************************************************************)
(* q3_workload_load() (src/q3_workload.c): the reader of decision          *)
(* workloads.  The file is what the next members turn out to be; how keys, *)
(* strings and numbers are spelled is left out, and so is the order of the *)
(* checks of what is then one failure.  Tokens are only counted.           *)
(***************************************************************************)
EXTENDS Integers, FiniteSets

CONSTANTS MaxBranches,    \* Q3_MAX_BRANCHES
          MaxCandidates,  \* Q3_MAX_CANDIDATES
          FirstCapacity,  \* of the questions: 16
          MaxIds,         \* bound: no list of the file is longer
          MaxQuestions    \* bound: nor are there more questions

ASSUME WorkloadAssumption ==
    /\ MaxBranches \in Nat \ {0} /\ MaxCandidates \in Nat \ {0} /\ FirstCapacity \in Nat \ {0}
    /\ MaxIds \in Nat /\ MaxQuestions \in Nat

VARIABLES
    place,       \* where the reader is
    heap,        \* the blocks it has
    lost,        \* has it overwritten its only pointer to a block?
    misused,     \* has it freed a block twice or written outside of one?
    w,           \* the q3_workload, and the capacity of its questions
    q,           \* the question that is read
    lists        \* how often there was a list of questions

workloadVars == <<place, heap, lost, misused, w, q, lists>>

Zero == [suffix |-> 0, candidates |-> 0, expected |-> 0]

WorkloadInit ==
    /\ place = "start" /\ heap = {} /\ lost = FALSE /\ misused = FALSE /\ q = Zero /\ lists = 0
    /\ w = [state |-> 0, count |-> 0, cap |-> 0, max |-> 0, questions |-> <<>>]

Text == <<"text">>
Suffix(k) == <<"suffix", k>>

\* The file is there and not empty, or it is not.
OpenWorkload ==
    /\ place = "start"
    /\ \/ place' = "top" /\ heap' = {Text, <<"w">>}
       \/ place' = "null" /\ UNCHANGED heap
    /\ UNCHANGED <<lost, misused, w, q, lists>>

\* free() of the blocks named, each once.
Free(blocks) ==
    /\ heap' = heap \ blocks
    /\ misused' = (misused \/ ~(blocks \subseteq heap))

\* What q3_workload_free() frees; pointers are NULL where there was no block.
Freed == {<<"w">>} \cup ({<<"state">>, <<"questions">>} \cap heap)
         \cup {Suffix(k) : k \in {k \in 0 .. w.count - 1 : k \in DOMAIN w.questions /\ w.questions[k].suffix > 0}}

\* goto fail.
Abandon ==
    /\ Free({Text} \cup Freed) /\ place' = "null"
    /\ UNCHANGED <<lost, w, q, lists>>

\* Whatever is not as expected, or no memory for a list.
Malformed ==
    /\ place \in {"top", "questions", "question"}
    /\ Abandon

ReadState ==
    /\ place = "top"
    /\ \E n \in 0 .. MaxIds : w' = [w EXCEPT !.state = n]
    /\ heap' = heap \cup {<<"state">>}
    /\ lost' = (lost \/ <<"state">> \in heap)
    /\ UNCHANGED <<place, misused, q, lists>>

\* A second list of questions takes the place of the first, whose number stays.
OpenQuestions ==
    /\ place = "top" /\ lists < 2
    /\ lists' = lists + 1 /\ place' = "questions"
    /\ w' = [w EXCEPT !.cap = FirstCapacity, !.questions = [k \in 0 .. FirstCapacity - 1 |-> Zero]]
    /\ heap' = {b \in heap : b[1] # "suffix"} \cup {<<"questions">>}
    /\ lost' = (lost \/ <<"questions">> \in heap)
    /\ UNCHANGED <<misused, q>>

\* The questions, in twice the room.
Grown == [w EXCEPT !.cap = 2 * @, !.questions = [k \in 0 .. 2 * w.cap - 1 |->
             IF k < w.cap THEN w.questions[k] ELSE Zero]]

BeginQuestion ==
    /\ place = "questions" /\ w.count < MaxQuestions
    /\ place' = "question" /\ q' = Zero
    /\ w' = IF w.count = w.cap THEN Grown ELSE w
    /\ misused' = (misused \/ w.count > w.cap)
    /\ UNCHANGED <<heap, lost, lists>>

\* One member of a question.
ReadSuffix ==
    /\ place = "question"
    /\ \E n \in 0 .. MaxIds : q' = [q EXCEPT !.suffix = n]
    /\ heap' = heap \cup {Suffix(w.count)}
    /\ lost' = (lost \/ Suffix(w.count) \in heap)
    /\ UNCHANGED <<place, misused, w, lists>>

ReadCandidates ==
    /\ place = "question"
    /\ \E n \in 0 .. MaxIds :
          IF n \in 1 .. MaxCandidates
          THEN q' = [q EXCEPT !.candidates = n] /\ UNCHANGED <<place, heap, lost, misused, w, lists>>
          ELSE Abandon

ReadExpected ==
    /\ place = "question"
    /\ \E n \in 0 .. MaxIds : q' = [q EXCEPT !.expected = n]
    /\ UNCHANGED <<place, heap, lost, misused, w, lists>>

Usable(r) == r.suffix > 0 /\ r.candidates > 0 /\ r.expected < r.candidates

\* MUTANT: the longest suffix is the last one's.
KeptLast == [w EXCEPT !.questions[w.count] = q, !.count = @ + 1, !.max = q.suffix]
Kept == [w EXCEPT !.questions[w.count] = q, !.count = @ + 1,
                  !.max = IF q.suffix > @ THEN q.suffix ELSE @]

\* A question that is not usable is not counted, and its suffix not freed.
EndQuestion ==
    /\ place = "question"
    /\ IF Usable(q)
       THEN place' = "questions" /\ w' = Kept /\ UNCHANGED <<heap, lost, misused, q, lists>>
       ELSE Abandon

EndQuestions ==
    /\ place = "questions" /\ place' = "top"
    /\ UNCHANGED <<heap, lost, misused, w, q, lists>>

\* The end of the object: the text is no longer needed.
EndWorkload ==
    /\ place = "top" /\ place' = "check" /\ Free({Text})
    /\ UNCHANGED <<lost, w, q, lists>>

Check ==
    /\ place = "check"
    /\ IF w.state > 0 /\ w.count \in 1 .. MaxBranches
       THEN place' = "returned" /\ UNCHANGED <<heap, lost, misused, w, q, lists>>
       ELSE Abandon

WorkloadNext ==
    \/ OpenWorkload \/ ReadState \/ OpenQuestions \/ BeginQuestion \/ ReadSuffix \/ ReadCandidates
    \/ ReadExpected \/ EndQuestion \/ EndQuestions \/ EndWorkload \/ Check \/ Malformed

WorkloadSpec == WorkloadInit /\ [][WorkloadNext]_workloadVars

-----------------------------------------------------------------------------
(* Properties.                                                             *)

\* A workload that is returned from a file that has no list twice has
\* questions that can all be asked, in buffers of the size it names, and no
\* other blocks than q3_workload_free() will free.
WorkloadWhole ==
    place = "returned" /\ lists = 1 /\ ~lost =>
        /\ \A k \in 0 .. w.count - 1 : Usable(w.questions[k]) /\ w.questions[k].suffix <= w.max
        /\ \E k \in 0 .. w.count - 1 : w.questions[k].suffix = w.max
        /\ heap = Freed /\ ~misused

\* q3_workload.h: "Returns NULL and fills `error` on any malformed input":
\* nothing is freed twice, and nothing is written where there is no block.
MalformedIsRefused == ~misused
=============================================================================
