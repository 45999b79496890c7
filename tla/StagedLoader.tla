---------------------------- MODULE StagedLoader ----------------------------
(***************************************************************************)
(* q3_loader_load() (cuda/q3_model_loader_cuda.cu): the planned spans of   *)
(* the mapped file go through pinned staging slots and paired device       *)
(* transfer buffers into one device allocation per tensor.                 *)
(*                                                                         *)
(* The host only enqueues; the stream runs behind it, in order.  So what   *)
(* is queued is known from how far each has come: the host has enqueued    *)
(* the operations of all spans before `span` and the first `step` of       *)
(* `span`; the stream has executed all before `gspan` and the first        *)
(* `gstep` of `gspan`.  Operation 0 of a span is its upload, 1..Copies[s]  *)
(* copy its tensors out, and the last one records the slot's event.        *)
(*                                                                         *)
(* Bytes are known by the span they belong to; a slot that is being        *)
(* written by the host's memcpy() holds the bytes of no span.              *)
(***************************************************************************)
EXTENDS Integers

CONSTANTS SpanCount,    \* plan.span_count
          Copies,       \* Copies[s]: the number of tensors in span s
          Slots,        \* Q3_STAGE_SLOTS
          CudaMayFail   \* may a CUDA call return an error?

ASSUME LoaderAssumption ==
    /\ SpanCount \in Nat
    /\ Copies \in [0 .. SpanCount - 1 -> Nat \ {0}]
    /\ Slots \in Nat \ {0}
    /\ CudaMayFail \in BOOLEAN

SpanIds == 0 .. SpanCount - 1
SlotIds == 0 .. Slots - 1
NoSpan  == -1          \* the bytes of no span
Bytes   == SpanIds \cup {NoSpan}
Tensors == UNION {{s} \X (1 .. Copies[s]) : s \in SpanIds}

\* The number of operations of a span before its event record.
Last(s) == IF s < SpanCount THEN Copies[s] + 1 ELSE 0

VARIABLES
    pc,          \* where the host is in q3_loader_load()
    span, step,  \* what it has enqueued
    gspan, gstep, \* what the stream has executed
    stage,       \* stage_buffers: what each pinned slot holds
    transfer,    \* transfer_buffers: what each device slot holds
    recorded,    \* the span whose record of the slot's event was enqueued last
    completed,   \* the span whose record of the slot's event was executed last
    tensor       \* what each tensor's device allocation holds

hostVars   == <<pc, span, step, stage, recorded>>
streamVars == <<gspan, gstep, transfer, completed, tensor>>
vars == <<hostVars, streamVars>>

Pcs == {"allocate", "wait", "fill", "filled", "enqueue", "sync", "loaded", "failed"}

TypeOK ==
    /\ pc \in Pcs
    /\ span \in 0 .. SpanCount /\ step \in 0 .. Last(span)
    /\ gspan \in 0 .. SpanCount /\ gstep \in 0 .. Last(gspan)
    /\ stage \in [SlotIds -> Bytes] /\ transfer \in [SlotIds -> Bytes]
    /\ recorded \in [SlotIds -> Bytes] /\ completed \in [SlotIds -> Bytes]
    /\ tensor \in [Tensors -> Bytes]

Init ==
    /\ pc = "allocate"
    /\ span = 0 /\ step = 0 /\ gspan = 0 /\ gstep = 0
    /\ stage = [k \in SlotIds |-> NoSpan] /\ transfer = [k \in SlotIds |-> NoSpan]
    /\ recorded = [k \in SlotIds |-> NoSpan] /\ completed = [k \in SlotIds |-> NoSpan]
    /\ tensor = [t \in Tensors |-> NoSpan]

Goes(from, to) == pc = from /\ pc' = to

\* MUTANT: every span uses the slot of the one before it.
OneSlot(s) == 0
Slot(s) == s % Slots

-----------------------------------------------------------------------------
(* The host.                                                               *)

\* The plan, one cudaMalloc() per tensor, the staging slots and their events.
Allocate ==
    /\ Goes("allocate", IF SpanCount = 0 THEN "sync" ELSE "wait")
    /\ UNCHANGED <<span, step, stage, recorded, streamVars>>

\* cudaEventSynchronize() returns when the last record enqueued on the event
\* was executed.  MUTANT: the host waits one span too late.
ReusableLate == span <= Slots \/ completed[Slot(span)] = recorded[Slot(span)]
Reusable == span < Slots \/ completed[Slot(span)] = recorded[Slot(span)]

WaitForSlot ==
    /\ Goes("wait", "fill")
    /\ Reusable
    /\ UNCHANGED <<span, step, stage, recorded, streamVars>>

\* memcpy() from the mapped file into the slot.
BeginFill ==
    /\ Goes("fill", "filled")
    /\ stage' = [stage EXCEPT ![Slot(span)] = NoSpan]
    /\ UNCHANGED <<span, step, recorded, streamVars>>

EndFill ==
    /\ Goes("filled", "enqueue")
    /\ stage' = [stage EXCEPT ![Slot(span)] = span]
    /\ UNCHANGED <<span, step, recorded, streamVars>>

CopiesLeft == step <= Copies[span]

\* cudaMemcpyAsync() of the span, then one for each of its tensors.
EnqueueCopy ==
    /\ Goes("enqueue", "enqueue")
    /\ CopiesLeft
    /\ step' = step + 1
    /\ UNCHANGED <<span, stage, recorded, streamVars>>

\* MUTANT: the loop over the span's tensors does not start at the first one.
RecordNoReset ==
    /\ pc = "enqueue" /\ step = Copies[span] + 1
    /\ recorded' = [recorded EXCEPT ![Slot(span)] = span]
    /\ span' = span + 1
    /\ pc' = IF span' < SpanCount THEN "wait" ELSE "sync"
    /\ UNCHANGED <<step, stage, streamVars>>

\* cudaEventRecord(), and on to the next span.
RecordReuse ==
    /\ pc = "enqueue"
    /\ step = Copies[span] + 1
    /\ recorded' = [recorded EXCEPT ![Slot(span)] = span]
    /\ span' = span + 1 /\ step' = 0
    /\ pc' = IF span' < SpanCount THEN "wait" ELSE "sync"
    /\ UNCHANGED <<stage, streamVars>>

\* cudaStreamSynchronize().  MUTANT: the load does not wait for the stream.
StreamLeft == TRUE
StreamIdle == gspan = span /\ gstep = step

Synchronize ==
    /\ Goes("sync", "loaded")
    /\ StreamIdle
    /\ UNCHANGED <<span, step, stage, recorded, streamVars>>

\* Any of the CUDA calls above returns an error; q3_loader_load() returns false.
CallFails ==
    /\ CudaMayFail
    /\ pc \in {"allocate", "wait", "enqueue", "sync"}
    /\ pc = "wait" => Slots <= span
    /\ pc' = "failed"
    /\ UNCHANGED <<span, step, stage, recorded, streamVars>>

HostGoesOn == \/ Allocate \/ WaitForSlot \/ BeginFill \/ EndFill \/ EnqueueCopy
              \/ RecordReuse \/ Synchronize
Host == HostGoesOn \/ CallFails

-----------------------------------------------------------------------------
(* The stream: in order, at its own pace.                                  *)

Queued == gspan < span \/ (gspan = span /\ gstep < step)

Upload ==
    /\ Queued /\ gstep = 0
    /\ transfer' = [transfer EXCEPT ![Slot(gspan)] = stage[Slot(gspan)]]
    /\ gstep' = 1
    /\ UNCHANGED <<hostVars, gspan, completed, tensor>>

PlaceTensor ==
    /\ Queued /\ gstep \in 1 .. Copies[gspan]
    /\ tensor' = [tensor EXCEPT ![<<gspan, gstep>>] = transfer[Slot(gspan)]]
    /\ gstep' = gstep + 1
    /\ UNCHANGED <<hostVars, gspan, transfer, completed>>

SignalReuse ==
    /\ Queued /\ gstep = Copies[gspan] + 1
    /\ completed' = [completed EXCEPT ![Slot(gspan)] = gspan]
    /\ gspan' = gspan + 1 /\ gstep' = 0
    /\ UNCHANGED <<hostVars, transfer, tensor>>

Stream == Upload \/ PlaceTensor \/ SignalReuse

Next == Host \/ Stream

Safety == Init /\ [][Next]_vars

\* The loading thread is scheduled and the device executes what is queued.  No
\* call owes a failure: a wait for ever is not ended by one.
Spec == Safety /\ WF_vars(HostGoesOn) /\ WF_vars(Stream)

-----------------------------------------------------------------------------
(* Properties.                                                             *)

\* The upload of span s is queued and was not executed yet.
PendingUpload(s) ==
    /\ s < span \/ (s = span /\ step > 0)
    /\ s > gspan \/ (s = gspan /\ gstep = 0)

\* The host never writes a pinned slot that the stream has still to read:
\* every queued upload finds the bytes of its own span.
UploadsIntact ==
    \A s \in SpanIds : PendingUpload(s) => stage[Slot(s)] = s

\* When q3_loader_load() returns true every tensor holds its own bytes, and
\* at no time, not even after a failure, does one hold those of another span.
ResidentIsFile ==
    \A t \in Tensors : IF pc = "loaded" THEN tensor[t] = t[1]
                       ELSE tensor[t] \in {NoSpan, t[1]}

InFileOrder(t, u) == t[1] < u[1] \/ (t[1] = u[1] /\ t[2] < u[2])

\* Behind the two slots and the stream there is a plain copy in file order.
Copy == INSTANCE ResidentCopy WITH
    Before <- InFileOrder,
    resident <- {t \in Tensors : tensor[t] = t[1]},
    outcome <- IF pc \in {"loaded", "failed"} THEN pc ELSE "loading"
ImplementsCopy == Copy!Spec

\* The host never waits for an event that will not come: the load ends.
LoadEnds == <>(pc \in {"loaded", "failed"})

-----------------------------------------------------------------------------
(* The inductive invariant behind UploadsIntact and ResidentIsFile.        *)

\* The stream is behind the host, by no more spans than there are slots, and
\* by one less from the moment the host has waited.
LagInv ==
    /\ gspan < span \/ (gspan = span /\ gstep <= step)
    /\ span - gspan <= Slots
    /\ pc \in {"fill", "filled", "enqueue"} => span - gspan < Slots
    /\ pc = "allocate" => span = 0
    /\ pc \notin {"enqueue", "failed"} => step = 0
    /\ pc \in {"wait", "fill", "filled", "enqueue"} => span < SpanCount
    /\ pc \in {"sync", "loaded"} => span = SpanCount
    /\ pc = "loaded" => gspan = span

\* The events tell the host how far the stream has come.
EventInv ==
    /\ \A s \in SpanIds : s < span /\ span <= s + Slots => recorded[Slot(s)] = s
    /\ \A k \in SlotIds : completed[k] < gspan

\* The slots hold what the stream has still to read.
SlotInv ==
    /\ \A s \in SpanIds : gspan <= s /\ s < span /\ (s = gspan => gstep = 0) => stage[Slot(s)] = s
    /\ pc = "enqueue" => stage[Slot(span)] = span
    /\ pc = "failed" /\ step > 0 => stage[Slot(span)] = span
    /\ gstep > 0 => transfer[Slot(gspan)] = gspan

\* What the stream has placed is right, and the rest untouched.
TensorInv ==
    \A t \in Tensors :
        tensor[t] = IF t[1] < gspan \/ (t[1] = gspan /\ t[2] < gstep)
                    THEN t[1] ELSE NoSpan

IInv == TypeOK /\ LagInv /\ EventInv /\ SlotInv /\ TensorInv
=============================================================================
