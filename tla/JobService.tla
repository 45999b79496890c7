----------------------------- MODULE JobService -----------------------------
(***************************************************************************)
(* What the inference queue of q3-server promises, without threads, locks  *)
(* or a ring buffer: a bounded first-in first-out line of jobs in front of *)
(* one worker.  A job that was accepted is run exactly once, jobs are run  *)
(* one at a time in the order in which they were accepted, and closing     *)
(* the line stops new jobs but not the ones already in it.  Only the end   *)
(* of the process may cut the line short.                                  *)
(***************************************************************************)
EXTENDS Naturals, Sequences

CONSTANTS Jobs,        \* the jobs that may be submitted
          Depth,       \* how many jobs may wait (--queue-depth), at least 1
          NoJob        \* nothing is running; not one of Jobs

VARIABLES waiting,     \* the accepted jobs that have not been started
          running,     \* the job being run, or NoJob
          finished,    \* the jobs that have been run
          open,        \* new jobs are still accepted
          alive        \* the process exists

vars == <<waiting, running, finished, open, alive>>

InLine == {waiting[i] : i \in 1 .. Len(waiting)}

Init ==
    /\ waiting = <<>>
    /\ running = NoJob
    /\ finished = {}
    /\ open = TRUE
    /\ alive = TRUE

Accept(j) ==
    /\ alive /\ open
    /\ Len(waiting) < Depth
    /\ j \notin InLine \cup {running} \cup finished
    /\ waiting' = Append(waiting, j)
    /\ UNCHANGED <<running, finished, open, alive>>

Start ==
    /\ alive
    /\ running = NoJob
    /\ waiting # <<>>
    /\ running' = Head(waiting)
    /\ waiting' = Tail(waiting)
    /\ UNCHANGED <<finished, open, alive>>

Finish ==
    /\ alive
    /\ running # NoJob
    /\ finished' = finished \cup {running}
    /\ running' = NoJob
    /\ UNCHANGED <<waiting, open, alive>>

Close ==
    /\ alive /\ open
    /\ open' = FALSE
    /\ UNCHANGED <<waiting, running, finished, alive>>

Halt ==
    /\ alive
    /\ alive' = FALSE
    /\ UNCHANGED <<waiting, running, finished, open>>

Next ==
    \/ \E j \in Jobs : Accept(j)
    \/ Start
    \/ Finish
    \/ Close
    \/ Halt

\* The safety part: what no step may do.
Safety == Init /\ [][Next]_vars

\* With the worker's progress: an accepted job is run unless the process ends.
Spec == Safety /\ WF_vars(Start) /\ WF_vars(Finish)
=============================================================================
