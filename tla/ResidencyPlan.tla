---------------------------- MODULE ResidencyPlan ----------------------------
(***************************************************************************)
(* q3_residency_plan_build() (src/q3_residency_plan.c): the tensors of a   *)
(* file, but for the excluded ones (PLE), are put in file order and read   *)
(* in spans.  A span takes the next tensor when the gap before it and the  *)
(* span with it stay within limits and no excluded tensor is in between.   *)
(*                                                                         *)
(* A step is one turn of one of the two loops.  The totals of the excluded *)
(* tensors are left out.  Offsets need no wrapping: no tensor that is      *)
(* collected ends behind the file, and the file's size is an uint64_t.     *)
(***************************************************************************)
EXTENDS Integers, Sequences, FiniteSets

CONSTANTS Models,     \* the files: see ModelOK
          MaxGap,     \* max_gap_bytes
          MaxSpan,    \* max_span_bytes
          WordMax,    \* UINT64_MAX
          MayFail     \* may calloc() fail?

\* "ple" is what is_ple() says of the tensor.
TensorRecord == [offset : 0 .. WordMax, bytes : 0 .. WordMax, ple : BOOLEAN]

ModelOK(m) ==
    /\ m.size \in 0 .. WordMax
    /\ m.tensors \in Seq(TensorRecord)

ASSUME PlanAssumption ==
    /\ MaxGap \in Nat /\ MaxSpan \in Nat \ {0} /\ WordMax \in Nat
    /\ MayFail \in BOOLEAN
    /\ \A m \in Models : ModelOK(m)

VARIABLES
    model,
    pc,
    i,          \* the next tensor to collect, then the next entry to place
    resident,   \* the tensors collected
    total,      \* plan.resident_bytes
    entries,    \* plan.entries once sorted: tensors in file order
    spans       \* plan.spans

vars == <<model, pc, i, resident, total, entries, spans>>

Tensors == 1 .. Len(model.tensors)
Offset(t) == model.tensors[t].offset
Size(t)   == model.tensors[t].bytes
End(t)    == Offset(t) + Size(t)
IsPle(t)  == model.tensors[t].ple

Span == [offset : Nat, bytes : Nat, first : Nat, count : Nat]

TypeOK ==
    /\ ModelOK(model)
    /\ pc \in {"collect", "sort", "place", "built", "failed"}
    /\ i \in Nat \ {0}
    /\ resident \subseteq Tensors
    /\ total \in 0 .. WordMax
    /\ entries \in Seq(Tensors)
    /\ spans \in Seq(Span)

Empty ==
    /\ pc = "collect" /\ i = 1 /\ resident = {} /\ total = 0
    /\ entries = <<>> /\ spans = <<>>

Init == model \in Models /\ Empty

\* q3_residency_plan_destroy(): a plan that fails is left empty.
Destroy ==
    /\ pc' = "failed"
    /\ resident' = {} /\ total' = 0 /\ entries' = <<>> /\ spans' = <<>>
    /\ UNCHANGED <<model, i>>

-----------------------------------------------------------------------------

\* calloc() of the entries or, when there are any, of the spans.
OutOfMemory ==
    /\ MayFail
    /\ \/ pc = "collect" /\ i = 1
       \/ pc = "sort" /\ resident # {}
    /\ Destroy

Inside(t) == Offset(t) <= model.size /\ Size(t) <= model.size - Offset(t)

Wanted(t) == Size(t) # 0 /\ ~IsPle(t)
Take(t) == resident' = resident \cup {t} /\ total' = total + Size(t)

Collect ==
    /\ pc = "collect" /\ i \in Tensors
    /\ Size(i) # 0 => Inside(i)
    /\ \/ ~Wanted(i) /\ UNCHANGED <<resident, total>>
       \/ Wanted(i) /\ total + Size(i) <= WordMax /\ Take(i)
    /\ i' = i + 1
    /\ pc' = IF i' \in Tensors THEN "collect" ELSE "sort"
    /\ UNCHANGED <<model, entries, spans>>

Reject ==
    /\ pc = "collect" /\ i \in Tensors /\ Size(i) # 0
    /\ ~Inside(i) \/ (Wanted(i) /\ total + Size(i) > WordMax)
    /\ Destroy

\* compare_entries()
Before(t, u) == Offset(t) < Offset(u) \/ (Offset(t) = Offset(u) /\ t < u)

\* qsort()
Sorted(S) ==
    {s \in [1 .. Cardinality(S) -> S] :
        /\ \A t \in S : \E k \in DOMAIN s : s[k] = t
        /\ \A k, l \in DOMAIN s : k < l => Before(s[k], s[l])}

Sort ==
    /\ pc = "sort" \/ (pc = "collect" /\ Tensors = {})
    /\ entries' \in Sorted(resident)
    /\ i' = 1
    /\ pc' = IF resident = {} THEN "built" ELSE "place"
    /\ UNCHANGED <<model, resident, total, spans>>

-----------------------------------------------------------------------------

SpanEnd(s) == s.offset + s.bytes

Overlap(s, t) ==
    s.bytes # 0 /\ Size(t) # 0 /\ s.offset < End(t) /\ Offset(t) < SpanEnd(s)

\* span_has_ple_between().  MUTANT: only overlaps count.
PleOverlapping(s, next) ==
    \E t \in Tensors : Size(t) # 0 /\ IsPle(t) /\ Overlap(s, t)
PleBetween(s, next) ==
    \E t \in Tensors :
        /\ Size(t) # 0 /\ IsPle(t)
        /\ Overlap(s, t) \/ Offset(t) \in SpanEnd(s) .. next

\* MUTANT: a tensor that begins inside of the span fits.
FitsUnordered(s, t) ==
    /\ Offset(t) - SpanEnd(s) <= MaxGap
    /\ End(t) - s.offset <= MaxSpan
    /\ ~PleBetween(s, Offset(t))
Fits(s, t) ==
    /\ Offset(t) >= SpanEnd(s)
    /\ Offset(t) - SpanEnd(s) <= MaxGap
    /\ End(t) - s.offset <= MaxSpan
    /\ ~PleBetween(s, Offset(t))

Alone(t)     == [offset |-> Offset(t), bytes |-> Size(t), first |-> i, count |-> 1]
\* MUTANT: the gap is not counted.
LongerBySize(s, t) == [s EXCEPT !.bytes = @ + Size(t), !.count = @ + 1]
Longer(s, t) == [s EXCEPT !.bytes = End(t) - s.offset, !.count = @ + 1]
LastSpan     == spans[Len(spans)]

Place ==
    /\ pc = "place"
    /\ LET t == entries[i] IN
       \/ /\ spans # <<>> /\ Fits(LastSpan, t)
          /\ spans' = [spans EXCEPT ![Len(spans)] = Longer(@, t)]
       \/ /\ spans # <<>> => ~Fits(LastSpan, t)
          /\ spans' = Append(spans, Alone(t))
    /\ i' = i + 1
    /\ pc' = IF i = Len(entries) THEN "built" ELSE "place"
    /\ UNCHANGED <<model, resident, total, entries>>

Next == OutOfMemory \/ Collect \/ Reject \/ Sort \/ Place

Spec == Init /\ [][Next]_vars

-----------------------------------------------------------------------------
(* Properties.                                                             *)

Holds(s, t) == s.offset <= Offset(t) /\ End(t) <= SpanEnd(s)
Listed(s)   == s.first .. s.first + s.count - 1

\* A plan that is built reads every tensor that has bytes and is not excluded,
\* in exactly one span, which holds all of its bytes.
EveryTensorInOneSpan ==
    pc = "built" =>
        \A t \in Tensors :
            LET of == {k \in 1 .. Len(spans) : \E j \in Listed(spans[k]) : entries[j] = t} IN
            IF Wanted(t)
            THEN \E k \in of : of = {k} /\ Holds(spans[k], t)
            ELSE of = {}

\* "Spans may include small non-tensor gaps, but never cross an excluded PLE
\* range": the bytes of a span outside the tensors it lists are of no
\* excluded tensor, even in a file whose tensors overlap.
GapsHoldNoPle ==
    \A k \in 1 .. Len(spans) : \A t \in Tensors :
        Size(t) # 0 /\ IsPle(t) =>
            \A x \in Offset(t) .. End(t) - 1 :
                x \in spans[k].offset .. SpanEnd(spans[k]) - 1 =>
                    \E j \in Listed(spans[k]) : x \in Offset(entries[j]) .. End(entries[j]) - 1

\* A span of several tensors is within the limit and has no large gap, and its
\* tensors do not overlap: what fits in a staging slot is decided here.
SpansWithinLimits ==
    \A k \in 1 .. Len(spans) :
        /\ spans[k].count > 1 => spans[k].bytes <= MaxSpan
        /\ \A j \in Listed(spans[k]) : j + 1 \in Listed(spans[k]) =>
              Offset(entries[j + 1]) - End(entries[j]) \in 0 .. MaxGap
-----------------------------------------------------------------------------
(* The inductive invariant.                                                *)

\* What the loops have collected and sorted.
CollectInv ==
    /\ pc \in {"collect", "sort"} => entries = <<>> /\ spans = <<>>
    /\ pc = "collect" => i \in 1 .. Len(model.tensors) + 1
                         /\ resident = {t \in 1 .. i - 1 : Wanted(t)}
    /\ pc \in {"sort", "place", "built"} => resident = {t \in Tensors : Wanted(t)}
    /\ pc \in {"place", "built"} => entries \in Sorted(resident)
    /\ pc = "place" => i \in 1 .. Len(entries)
    /\ pc = "failed" => entries = <<>> /\ spans = <<>>

\* How many entries are in spans.
Placed == CASE pc = "place" -> i - 1 [] pc = "built" -> Len(entries) [] OTHER -> 0

\* The spans list those entries once, in order.
ChainInv ==
    /\ \A k \in 1 .. Len(spans) :
          spans[k].first >= 1 /\ spans[k].count >= 1
          /\ spans[k].first + spans[k].count <= Placed + 1
    /\ spans # <<>> => LastSpan.first + LastSpan.count = Placed + 1
    /\ \A k, l \in 1 .. Len(spans) :
          k < l => spans[k].first + spans[k].count <= spans[l].first
    /\ \A j \in 1 .. Placed : \E k \in 1 .. Len(spans) : j \in Listed(spans[k])

\* A span ends where its last tensor ends, and holds all that it lists.
HoldInv ==
    \A k \in 1 .. Len(spans) :
        /\ spans[k].bytes > 0
        /\ SpanEnd(spans[k]) = End(entries[spans[k].first + spans[k].count - 1])
        /\ \A j \in Listed(spans[k]) : Holds(spans[k], entries[j])

IInv == TypeOK /\ CollectInv /\ ChainInv /\ HoldInv /\ GapsHoldNoPle /\ SpansWithinLimits
=============================================================================
