------------------------------- MODULE Programs -------------------------------
(***************************************************************************)
(* The programs of the repository other than the server, with what they    *)
(* run inside of a command: --memory-plan the residency planner, whose     *)
(* plan it then checks, --bench-q4-linear the product of the vendored      *)
(* kernels; and two of the test programs: the one that excludes tensors    *)
(* from a plan, and the one that reads decision workloads.  A process runs *)
(* one program, and only one part of it at a time.                         *)
(***************************************************************************)
EXTENDS CommandLine, ResidencyPlan, StreamK, WorkloadReader

CONSTANTS
    PlanLine,         \* the command line that plans every one of the models
    MaxVectorBatch    \* Q3_MMVQ_MAX_BATCH: fewer columns take another kernel

ASSUME ProgramsAssumption == PlanLine \in Arguments /\ MaxVectorBatch \in Nat

VARIABLE program      \* "q3", "test_q3_decide" or "test_q3_residency_plan"

programsVars == <<program, commandVars, vars, streamVars, workloadVars>>

\* Does the command line ask for one product only?
BenchesOne(a) ==
    /\ Len(a) = 4 /\ a[1] = "--bench-q4-linear" /\ a[3] = "--batch"
    /\ Len(Batches(a[4])) = 1 /\ Batches(a[4])[1] > MaxVectorBatch

\* plan_exclude_none(): the program's own plans exclude no tensor.
ExcludeNone(m) == \A t \in DOMAIN m.tensors : ~m.tensors[t].ple

\* A file or a product that no part looks at.
NoModel   == [size |-> 0, tensors |-> <<>>]
NoProduct == [rows |-> 1, cols |-> 1, blocks |-> Step, sms |-> 1]

ProgramsInit ==
    /\ program \in {"q3", "test_q3_decide", "test_q3_residency_plan"}
    /\ CommandInit /\ (program # "q3" => args = <<>>)
    /\ diagnose => args # <<>> /\ args[1] = "--forward"
    /\ model \in IF program = "test_q3_residency_plan" THEN Models
                 ELSE IF args = PlanLine THEN {m \in Models : ExcludeNone(m)}
                 ELSE {NoModel}
    /\ product \in IF BenchesOne(args) THEN {p \in Products : Batches(args[4]) = <<p.cols>>}
                   ELSE {NoProduct}
    /\ Empty /\ Launched /\ WorkloadInit

\* plan_validate()
PlanValid ==
    /\ \A k \in 2 .. Len(entries) : Offset(entries[k]) >= Offset(entries[k - 1])
    /\ \A k \in 1 .. Len(entries) : End(entries[k]) <= WordMax
    /\ \A k \in 1 .. Len(spans) :
          /\ SpanEnd(spans[k]) <= WordMax
          /\ \A j \in Listed(spans[k]) : Holds(spans[k], entries[j])
    /\ \A k \in 2 .. Len(spans) : spans[k].offset >= SpanEnd(spans[k - 1])

\* What the next call of the command does, where it is modelled here.
Runs(name) == program = "q3" /\ Calling(name)
CommandStep ==
    /\ program = "q3" /\ CommandNext
    /\ Runs("build") /\ args = PlanLine => pc = IF at' > at THEN "built" ELSE "failed"
    /\ Runs("validate") /\ args = PlanLine => PlanValid = (at' > at)
    /\ Runs("product") /\ BenchesOne(args) => phase = "done"
    /\ UNCHANGED <<program, vars, streamVars, workloadVars>>

PlanStep ==
    /\ (Runs("build") /\ args = PlanLine) \/ program = "test_q3_residency_plan"
    /\ Next
    /\ UNCHANGED <<program, commandVars, streamVars, workloadVars>>

ProductStep ==
    /\ Runs("product") /\ BenchesOne(args) /\ StreamNext
    /\ UNCHANGED <<program, commandVars, vars, workloadVars>>

WorkloadStep ==
    /\ program = "test_q3_decide" /\ WorkloadNext
    /\ UNCHANGED <<program, commandVars, vars, streamVars>>

ProgramsNext == CommandStep \/ PlanStep \/ ProductStep \/ WorkloadStep

ProgramsSpec == ProgramsInit /\ [][ProgramsNext]_programsVars

-----------------------------------------------------------------------------
(* Properties.                                                             *)

\* --memory-plan refuses exactly the files in which tensors that are planned
\* overlap, as the planner keeps them in file order but in different spans.
PlanValidUnlessOverlap ==
    pc = "built" /\ ExcludeNone(model) =>
        (PlanValid <=> \A s, t \in resident : s # t => End(s) <= Offset(t) \/ End(t) <= Offset(s))
=============================================================================
