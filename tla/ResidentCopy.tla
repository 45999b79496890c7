---------------------------- MODULE ResidentCopy ----------------------------
(***************************************************************************)
(* What q3_loader_load() promises, without staging buffers or streams: the *)
(* planned tensors become resident one by one in file order, each with its *)
(* own bytes, and the load reports success only when all of them are.      *)
(* After a failure, copies that were already under way may still land.     *)
(***************************************************************************)
EXTENDS Naturals

CONSTANTS Tensors,        \* the tensors of the residency plan
          Before(_, _)    \* file order between two of them

VARIABLES resident,       \* the tensors whose device copy is complete
          outcome         \* "loading", "loaded" or "failed"

Init == resident = {} /\ outcome = "loading"

Place(t) ==
    /\ outcome # "loaded"
    /\ t \notin resident
    /\ \A u \in Tensors : Before(u, t) => u \in resident
    /\ resident' = resident \cup {t}
    /\ UNCHANGED outcome

Succeed == /\ outcome = "loading" /\ resident = Tensors
           /\ outcome' = "loaded" /\ UNCHANGED resident

Fail == outcome = "loading" /\ outcome' = "failed" /\ UNCHANGED resident

Next == (\E t \in Tensors : Place(t)) \/ Succeed \/ Fail

Spec == Init /\ [][Next]_<<resident, outcome>>
=============================================================================
