----------------------------- MODULE CommandLine -----------------------------
(***************************************************************************)
(* The q3 program: main() of src/q3_main.c reads its arguments, runs one   *)
(* command and gives the device back.  A command is a straight sequence of *)
(* calls, most of which may fail, and after each the code has a list of    *)
(* its own, written by hand, of what to give back before it returns.  The  *)
(* tables below are these lists; what is printed is left out.              *)
(***************************************************************************)
EXTENDS Integers, Sequences, FiniteSets

CONSTANTS
    Arguments,     \* the command lines: sequences of strings
    ListOf,        \* the numbers that strtol() finds in an argument
    MaxBatches,    \* the length of q3_options.batches
    IntMax,        \* INT_MAX
    Layers         \* cfg.num_layers

ASSUME CommandLineAssumption ==
    /\ \A a \in Arguments :
          /\ a \in Seq(STRING)
          /\ \A k \in 2 .. Len(a) : a[k - 1] = "--batch" => a[k] \in DOMAIN ListOf
    /\ \A v \in DOMAIN ListOf : ListOf[v] \in Seq(Int)
    /\ MaxBatches \in Nat \ {0} /\ IntMax \in Nat \ {0} /\ Layers \in Nat

VARIABLES
    args,       \* argv without the program's name
    next_arg,   \* i of main()
    options,    \* q3_options and the mode
    diagnose,   \* is Q3_DIAG_LAYERS set?
    at,         \* the next call of the command
    held,       \* what it has and must give back
    taken,      \* what it has had
    release,    \* what it is giving back, in order
    initialized,\* g_cuda_initialized
    stage,      \* "parse", "run", "leave", "exit"
    code        \* the exit code

given  == <<args, diagnose>>
parsed == <<next_arg, options>>
gotten == <<held, taken, initialized>>
left   == <<stage, code>>

commandVars == <<given, parsed, gotten, left, at, release>>

-----------------------------------------------------------------------------
(* The calls of each command.                                              *)

\* A call takes what it gives, and when it succeeds gives back what it drops;
\* when it fails, the command gives back undo and goes on after skip more
\* calls, or returns rc.
Call(name, gives, drops, undo, rc, skip) ==
    [name |-> name, gives |-> gives, drops |-> drops, undo |-> undo, rc |-> rc, skip |-> skip]
Must(name, gives, undo)    == Call(name, gives, {}, undo, 1, 0)
Refuse(name, undo)         == Call(name, {}, {}, undo, 2, 0)
Try(name, gives)           == Call(name, gives, {}, <<>>, 0, 0)
Break(name, gives, undo, skip) == Call(name, gives, {}, undo, 0, skip)
Drop(what)                 == Call("close", {}, what, <<>>, 0, 0)

\* malloc() whose result is written to without a look at it.
Unchecked == {"fallback", "host_in", "host_h"}
\* Calls that set g_cuda_initialized, some of which may fail after that.
Initialize == {"probe", "init", "load model"}

File    == <<"file">>
Context == <<"context", "file">>
Weights == <<"weights">> \o Context

Open == <<Must("open", {"file"}, <<>>)>>
Probe(undo) == Must("probe", {}, undo)
\* MUTANT: the file stays open when there is no context.
LoadLeaking == <<Must("init", {}, File), Must("context", {"context"}, <<>>),
                 Must("load", {}, Context)>>
Load == <<Must("init", {}, File), Must("context", {"context"}, File),
          Must("load", {}, Context)>>

\* q3_residency_plan_build() destroys what it built when it fails.
MemoryPlan ==
    Open \o <<Must("build", {"plan"}, File), Must("validate", {}, <<"plan", "file">>),
              Try("probe", {})>>

LoadOnly == Open \o <<Probe(File)>> \o Load \o <<Try("probe", {}), Must("coverage", {}, Context)>>

ReadTokens ==
    <<Must("fopen", {"fh"}, Weights), Must("size", {}, <<"fh">> \o Weights),
      Must("malloc", {"tokens"}, <<"fh">> \o Weights),
      Must("fread", {}, <<"tokens", "fh">> \o Weights), Drop({"fh"})>>

\* What goes back from the token ids on, and then from the caches on.
Tokens == <<"tokens">> \o Weights
Cache  == <<"kv", "rt">> \o Tokens
Outputs == <<"logits", "hidden">> \o Cache

\* One layer of the Q3_DIAG_LAYERS scan: with its own runtime and cache, and a
\* failure ends the scan.
DiagnoseLayer(more) ==
    <<Break("create", {"lrt"}, <<>>, more + 5), Break("kv", {"lkv"}, <<"lrt">>, more + 4),
      Break("run range", {}, <<"lkv", "lrt">>, more + 3), Must("host_h", {}, <<>>),
      Break("nan", {}, <<"lkv", "lrt">>, more + 1), Drop({"lkv", "lrt"})>>
DiagnoseLayers[n \in 0 .. Layers] ==
    IF n = 0 THEN <<>> ELSE DiagnoseLayer(6 * (n - 1)) \o DiagnoseLayers[n - 1]

Forward(o, diag) ==
    Open \o <<Must("config", {}, File), Must("validate config", {}, File)>> \o Load
    \o <<Must("bind", {"weights"}, Context)>>
    \o (IF "--tokens" \in DOMAIN o.given THEN ReadTokens ELSE <<Must("fallback", {"tokens"}, <<>>)>>)
    \o (IF "--candidate-token-ids" \in DOMAIN o.given THEN <<Refuse("candidates", Tokens)>> ELSE <<>>)
    \o <<Must("create", {"rt"}, Tokens), Must("kv", {"kv"}, <<"rt">> \o Tokens),
         Must("hidden", {"hidden"}, Cache), Must("logits", {"logits"}, Cache),
         Must("run", {}, Outputs), Must("candidate logits", {}, Outputs)>>
    \o (IF diag THEN DiagnoseLayers[Layers] ELSE <<>>)
    \o <<Must("synchronize", {}, Outputs), Must("malloc", {"host_logits"}, Outputs)>>

\* The calls from the stream on are not checked, but for the product's: its
\* error is printed, and the benchmark goes on to the next batch.
Bench(o) ==
    Open \o Load
    \o <<Must("find tensor", {}, Context), Must("resident", {}, Context),
         Must("geometry", {}, Context), Must("linear init", {}, Context),
         Must("workspace", {"workspace"}, Context),
         Must("set workspace", {}, <<"workspace">> \o Context),
         Try("stream", {"stream"}), Try("input", {"input"}), Try("output", {"output"}),
         Must("host_in", {"host_in"}, <<>>)>>
    \o [b \in 1 .. Len(o.batches) |-> Try("product", {})]

BenchDecisions ==
    <<Must("fopen", {"fh"}, <<>>), Must("seek", {}, <<"fh">>), Must("size", {}, <<"fh">>),
      Must("malloc", {"text"}, <<"fh">>), Drop({"fh"}),
      Call("parse", {"request"}, {"text"}, <<"text">>, 1, 0),
      Must("load model", {"model"}, <<"request">>),
      Must("run", {"results"}, <<"model", "request">>)>>

Program(o, diag) ==
    CASE o.mode = "--platform"        -> <<Probe(<<>>)>>
      [] o.mode = "--inspect"         -> Open
      [] o.mode = "--list-tensors"    -> Open
      [] o.mode = "--memory-plan"     -> MemoryPlan
      [] o.mode = "--load-only"       -> LoadOnly
      [] o.mode = "--forward"         -> Forward(o, diag)
      [] o.mode = "--bench-q4-linear" -> Bench(o)
      [] o.mode = "--bench-decisions" -> BenchDecisions

\* What a command gives back when all is done.
AtEnd(o) ==
    CASE o.mode = "--platform"        -> <<>>
      [] o.mode \in {"--inspect", "--list-tensors"} -> File
      [] o.mode = "--memory-plan"     -> <<"plan", "file">>
      [] o.mode = "--load-only"       -> Context
      [] o.mode = "--forward"         -> <<"host_logits">> \o Outputs
      [] o.mode = "--bench-q4-linear" ->
            <<"host_in", "input", "output", "stream", "workspace">> \o Context
      [] o.mode = "--bench-decisions" -> <<"results", "model", "request">>

-----------------------------------------------------------------------------
(* main(): the arguments                                                   *)

ModeOptions == {"--inspect", "--list-tensors", "--memory-plan", "--load-only",
                "--bench-q4-linear", "--forward", "--bench-decisions"}
Valued == ModeOptions \cup {"--workload", "--tokens", "--candidate-token-ids", "--tensor", "--batch"}
Flags == {"--json", "--verbose"}

\* The numbers of --batch, up to the first that is not positive; the rest of
\* a number that has more bits than an int is lost.
Batches(v) ==
    LET ns == ListOf[v]
        bad == {k \in DOMAIN ns : ns[k] <= 0} \cup {MaxBatches + 1, Len(ns) + 1}
        n == (CHOOSE k \in bad : \A j \in bad : k <= j) - 1
    IN [k \in 1 .. n |-> ((ns[k] + IntMax + 1) % (2 * IntMax + 2)) - IntMax - 1]

CommandInit ==
    /\ args \in Arguments /\ diagnose \in BOOLEAN
    /\ next_arg = 1
    /\ options = [mode |-> "none", path |-> "NULL", given |-> <<>>, batches |-> <<1, 4, 16, 32>>]
    /\ at = 1 /\ release = <<>> /\ held = {} /\ taken = {} /\ initialized = FALSE
    /\ stage = "parse" /\ code = 0

Usage(rc) ==
    /\ stage' = "exit" /\ code' = rc
    /\ UNCHANGED <<given, parsed, gotten, at, release>>

Set(a, v) == [k \in DOMAIN options.given \cup {a} |-> IF k = a THEN v ELSE options.given[k]]

\* What an option with a value sets.
WithValue(a, v) ==
    IF a \in ModeOptions THEN [options EXCEPT !.mode = a, !.path = v]
    ELSE IF a = "--batch" THEN [options EXCEPT !.batches = Batches(v)]
    ELSE [options EXCEPT !.given = Set(a, v)]

Takes(a, v) == a \in Valued /\ (a = "--batch" => Batches(v) # <<>>)

ReadArgument ==
    /\ stage = "parse" /\ next_arg <= Len(args)
    /\ LET a == args[next_arg] IN
       \/ /\ a \in Flags \cup {"--platform"}
          /\ options' = [options EXCEPT !.mode = IF a = "--platform" THEN a ELSE @]
          /\ next_arg' = next_arg + 1
          /\ UNCHANGED <<given, gotten, left, at, release>>
       \/ /\ next_arg < Len(args) /\ Takes(a, args[next_arg + 1])
          /\ options' = WithValue(a, args[next_arg + 1])
          /\ next_arg' = next_arg + 2
          /\ UNCHANGED <<given, gotten, left, at, release>>
       \/ a = "--help" /\ Usage(0)
       \/ /\ a \notin Flags \cup {"--platform", "--help"}
          /\ next_arg < Len(args) => ~Takes(a, args[next_arg + 1])
          /\ Usage(2)

Dispatch ==
    /\ stage = "parse" /\ next_arg > Len(args)
    /\ IF options.mode = "none" THEN Usage(2)
       ELSE stage' = "run" /\ UNCHANGED <<given, parsed, gotten, at, release, code>>

-----------------------------------------------------------------------------
(* The command                                                             *)

Calls == Program(options, diagnose)
Running == stage = "run" /\ release = <<>> /\ at <= Len(Calls)
Calling(name) == Running /\ Calls[at].name = name

Succeed ==
    /\ Running
    /\ held' = (held \cup Calls[at].gives) \ Calls[at].drops
    /\ taken' = taken \cup Calls[at].gives
    /\ initialized' = (initialized \/ Calls[at].name \in Initialize)
    /\ at' = at + 1
    /\ UNCHANGED <<given, parsed, left, release>>

Fail ==
    /\ Running /\ Calls[at].name \notin {"close"} \cup Unchecked
    /\ release' = Calls[at].undo
    /\ IF Calls[at].rc = 0
       THEN at' = at + 1 + Calls[at].skip /\ UNCHANGED left
       ELSE stage' = "leave" /\ code' = Calls[at].rc /\ UNCHANGED at
    /\ initialized' \in {initialized, initialized \/ Calls[at].name \in Initialize \ {"init"}}
    /\ UNCHANGED <<given, parsed, held, taken>>

\* 128 + SIGSEGV.
Crashed == 139

Crash ==
    /\ Running /\ Calls[at].name \in Unchecked
    /\ stage' = "exit" /\ code' = Crashed
    /\ UNCHANGED <<given, parsed, gotten, at, release>>

Finish ==
    /\ stage = "run" /\ release = <<>> /\ at > Len(Calls)
    /\ release' = AtEnd(options) /\ stage' = "leave" /\ code' = 0
    /\ UNCHANGED <<given, parsed, gotten, at>>

GiveBack ==
    /\ release # <<>>
    /\ held' = held \ {Head(release)} /\ release' = Tail(release)
    /\ UNCHANGED <<given, parsed, left, at, taken, initialized>>

\* What cudaDeviceReset() makes the device forget.
OnDevice == {"hidden", "logits", "input", "output", "workspace", "stream"}
CleanedUp == IF initialized THEN held \ OnDevice ELSE held

\* main() returns, after q3_cuda_cleanup().
Leave ==
    /\ stage = "leave" /\ release = <<>>
    /\ stage' = "exit" /\ held' = CleanedUp /\ initialized' = FALSE
    /\ UNCHANGED <<given, parsed, taken, at, release, code>>

CommandNext ==
    ReadArgument \/ Dispatch \/ Succeed \/ Fail \/ Crash \/ Finish \/ GiveBack \/ Leave

CommandSpec == CommandInit /\ [][CommandNext]_commandVars /\ WF_commandVars(CommandNext)

-----------------------------------------------------------------------------
(* Properties.                                                             *)

\* What each thing looks at while it lives, or when it is given back: the
\* tensors of a context are named in the file, the bound weights and a
\* runtime's are the context's, a result's text is the request's.
Uses(r) ==
    CASE r = "context" -> {"file"}
      [] r = "plan" -> {"file"}
      [] r = "weights" -> {"context"}
      [] r \in {"rt", "lrt"} -> {"weights"}
      [] r = "results" -> {"request"}
      [] OTHER -> {}

\* Each exit of each command, wherever it fails, gives back each thing once,
\* and nothing that is still used; what it does not give back itself, the
\* device forgets.
GivenBackInOrder ==
    /\ \A r \in held : Uses(r) \subseteq held
    /\ release # <<>> => Head(release) \in held \cup (OnDevice \ taken)
    /\ stage = "exit" /\ code # Crashed => held = {}
=============================================================================
