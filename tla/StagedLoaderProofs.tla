-------------------------- MODULE StagedLoaderProofs --------------------------
(***************************************************************************)
(* For any number of spans, tensors per span and staging slots: the host   *)
(* never overwrites a slot that the stream has still to read, and what is  *)
(* resident in the end is the file.                                        *)
(***************************************************************************)
EXTENDS StagedLoader, TLAPS

\* A span number modulo the number of slots is a slot.
LEMMA SlotIsSlot ==
    ASSUME NEW s \in Nat
    PROVE  Slot(s) \in SlotIds
  BY LoaderAssumption, SMT DEF Slot, SlotIds

\* Two spans share a slot only when they are a multiple of the number of slots
\* apart: fewer spans than slots apart they do not.
LEMMA SlotsDiffer ==
    ASSUME NEW s \in Nat, NEW u \in Nat, s < u, u < s + Slots
    PROVE  Slot(s) # Slot(u)
  <1> DEFINE q == s \div Slots   r == s % Slots
  <1>1. q \in Nat /\ r \in 0 .. Slots - 1 /\ s = Slots * q + r
    BY LoaderAssumption, SMT
  <1> HIDE DEF q, r
  <1>2. PICK d \in 1 .. Slots - 1 : u = s + d
    <2>1. u - s \in 1 .. Slots - 1 /\ u = s + (u - s)
      BY LoaderAssumption
    <2> QED
      BY <2>1
  <1> QED
    BY <1>1, <1>2, LoaderAssumption, SMT DEF Slot

\* One round of the slots later the same slot comes again.
LEMMA SlotComesAgain ==
    ASSUME NEW s \in Nat, Slots <= s
    PROVE  s - Slots \in Nat /\ Slot(s - Slots) = Slot(s)
  <1> DEFINE b == s - Slots
             q == s \div Slots   r == s % Slots
             e == b \div Slots   f == b % Slots
  <1>0. b \in Nat
    BY LoaderAssumption
  <1>1. q \in Nat /\ r \in 0 .. Slots - 1 /\ s = Slots * q + r
    BY LoaderAssumption, SMT
  <1>2. e \in Nat /\ f \in 0 .. Slots - 1 /\ b = Slots * e + f
    BY <1>0, LoaderAssumption, SMT
  <1>3. Slot(s) = r /\ Slot(b) = f
    BY DEF Slot
  <1>4. s = b + Slots
    BY LoaderAssumption
  <1> HIDE DEF b, q, r, e, f
  <1>5. Slots * (q - (e + 1)) = f - r
    BY <1>0, <1>1, <1>2, <1>4, LoaderAssumption, SMT
  <1>6. q - (e + 1) = 0
    BY <1>1, <1>2, <1>5, LoaderAssumption, SMT
  <1>7. f = r
    BY <1>1, <1>2, <1>5, <1>6, LoaderAssumption, SMT
  <1> QED
    BY <1>0, <1>3, <1>7 DEF b

\* A tensor is a span with one of its copies.
LEMMA TensorIsPair ==
    /\ \A s \in SpanIds : \A j \in 1 .. Copies[s] : <<s, j>> \in Tensors
    /\ \A t \in Tensors :
          t[1] \in SpanIds /\ t[2] \in 1 .. Copies[t[1]] /\ t = <<t[1], t[2]>>
  BY DEF Tensors

-----------------------------------------------------------------------------
\* The load starts with nothing queued and nothing placed.
LEMMA InitInv == Init => IInv
  <1> SUFFICES ASSUME Init PROVE IInv
    OBVIOUS
  <1> USE LoaderAssumption DEF Init
  <1>1. TypeOK
    BY DEF TypeOK, Pcs, Last, Bytes
  <1>2. LagInv
    BY DEF LagInv
  <1>3. EventInv
    BY DEF EventInv, SpanIds, NoSpan
  <1>4. SlotInv
    BY DEF SlotInv, SpanIds
  <1>5. TensorInv
    BY TensorIsPair DEF TensorInv, SpanIds
  <1> QED
    BY <1>1, <1>2, <1>3, <1>4, <1>5 DEF IInv

\* Every step of the host and of the stream keeps the variables in range.
LEMMA TypeStep == TypeOK /\ LagInv /\ [Next]_vars => TypeOK'
  <1> SUFFICES ASSUME TypeOK, LagInv, [Next]_vars PROVE TypeOK'
    OBVIOUS
  <1> USE LoaderAssumption DEF TypeOK, LagInv, Pcs, Last, Goes, hostVars, streamVars
  <1>0. span \in Nat /\ gspan \in Nat /\ Slot(span) \in SlotIds /\ Slot(gspan) \in SlotIds
    BY SlotIsSlot
  <1>1. CASE Allocate \/ WaitForSlot \/ Synchronize \/ CallFails
    BY <1>1 DEF Allocate, WaitForSlot, Synchronize, CallFails
  <1>2. CASE BeginFill
    BY <1>2 DEF BeginFill, Bytes
  <1>3. CASE EndFill
    <2>1. span \in Bytes
      BY <1>3 DEF EndFill, Bytes, SpanIds
    <2> QED
      BY <1>3, <2>1 DEF EndFill
  <1>4. CASE EnqueueCopy
    BY <1>4 DEF EnqueueCopy, CopiesLeft
  <1>5. CASE RecordReuse
    <2>1. span \in SpanIds
      BY <1>5 DEF RecordReuse, SpanIds
    <2>2. recorded' \in [SlotIds -> Bytes]
      BY <1>5, <2>1 DEF RecordReuse, Bytes
    <2>3. span' \in 0 .. SpanCount /\ step' \in 0 .. Last(span)'
      BY <1>5 DEF RecordReuse
    <2> QED
      BY <1>5, <2>2, <2>3 DEF RecordReuse
  <1>6. CASE Upload \/ PlaceTensor \/ SignalReuse
    <2>1. gspan \in SpanIds /\ gstep \in 0 .. Copies[gspan] + 1
      BY <1>6 DEF Upload, PlaceTensor, SignalReuse, Queued, SpanIds
    <2>2. CASE Upload
      BY <2>1, <2>2, <1>0 DEF Upload, SpanIds
    <2>3. CASE PlaceTensor
      BY <2>1, <2>3, <1>0, TensorIsPair DEF PlaceTensor, SpanIds
    <2>4. CASE SignalReuse
      BY <2>1, <2>4, <1>0 DEF SignalReuse, SpanIds, Bytes
    <2> QED
      BY <1>6, <2>2, <2>3, <2>4
  <1>7. CASE UNCHANGED vars
    BY <1>7 DEF vars
  <1> QED
    BY <1>1, <1>2, <1>3, <1>4, <1>5, <1>6, <1>7 DEF Next, Host, HostGoesOn, Stream

\* The host waits long enough: when it may fill a slot again, the stream is
\* done with what the slot held.
LEMMA WaitedEnough ==
    ASSUME TypeOK, LagInv, EventInv, pc = "wait", Reusable
    PROVE  span - gspan < Slots
  <1> USE LoaderAssumption DEF TypeOK, LagInv
  <1>1. CASE span < Slots
    BY <1>1
  <1>2. CASE Slots <= span
    <2>1. completed[Slot(span)] = recorded[Slot(span)]
      BY <1>2 DEF Reusable
    <2>2. span - Slots \in Nat /\ Slot(span - Slots) = Slot(span) /\ Slot(span) \in SlotIds
      BY <1>2, SlotComesAgain, SlotIsSlot
    <2>3. recorded[Slot(span)] = span - Slots
      <3>1. span - Slots \in SpanIds /\ span - Slots < span /\ span <= (span - Slots) + Slots
        BY <2>2 DEF SpanIds
      <3> QED
        BY <3>1, <2>2 DEF EventInv
    <2>4. completed[Slot(span)] < gspan
      BY <2>2 DEF EventInv
    <2> QED
      BY <2>1, <2>2, <2>3, <2>4
  <1> QED
    BY <1>1, <1>2

\* The steps of the host keep the rest of the invariant.
LEMMA HostStep ==
    ASSUME TypeOK, LagInv, EventInv, SlotInv, TensorInv, Host
    PROVE  (LagInv /\ EventInv /\ SlotInv /\ TensorInv)'
  <1> USE LoaderAssumption DEF TypeOK, Goes, hostVars, streamVars
  <1>0. span \in Nat /\ gspan \in Nat /\ Slot(span) \in SlotIds
    BY SlotIsSlot
  <1>1. UNCHANGED <<gspan, gstep, transfer, completed, tensor>>
    BY DEF Host, HostGoesOn, Allocate, WaitForSlot, BeginFill, EndFill, EnqueueCopy, RecordReuse,
       Synchronize, CallFails
  <1>2. TensorInv'
    BY <1>1 DEF TensorInv
  <1>3. \A s \in SpanIds : gspan <= s /\ s < span /\ span - gspan < Slots
                           => Slot(s) # Slot(span)
    BY <1>0, SlotsDiffer DEF SpanIds
  <1>4. CASE Allocate \/ WaitForSlot \/ Synchronize \/ CallFails
    <2>1. UNCHANGED <<span, step, stage, recorded>>
      BY <1>4 DEF Allocate, WaitForSlot, Synchronize, CallFails
    <2>2. LagInv'
      <3>1. CASE Allocate
        BY <1>1, <2>1, <3>1 DEF LagInv, Allocate
      <3>2. CASE WaitForSlot
        BY <1>1, <2>1, <3>2, WaitedEnough DEF LagInv, WaitForSlot
      <3>3. CASE Synchronize
        BY <1>1, <2>1, <3>3 DEF LagInv, Synchronize, StreamIdle
      <3>4. CASE CallFails
        BY <1>1, <2>1, <3>4 DEF LagInv, CallFails
      <3> QED
        BY <1>4, <3>1, <3>2, <3>3, <3>4
    <2>3. EventInv'
      BY <1>1, <2>1 DEF EventInv, Slot
    <2>4. SlotInv'
      <3>1. pc' # "enqueue" /\ (pc' = "failed" /\ step > 0 => pc = "enqueue" \/ pc = "failed")
        BY <1>4 DEF Allocate, WaitForSlot, Synchronize, CallFails, LagInv
      <3> QED
        BY <1>1, <2>1, <3>1 DEF SlotInv, Slot
    <2> QED
      BY <1>2, <2>2, <2>3, <2>4
  <1>5. CASE BeginFill \/ EndFill
    <2>1. UNCHANGED <<span, step, recorded>> /\ pc \in {"fill", "filled"} /\ step = 0
      BY <1>5 DEF BeginFill, EndFill, LagInv
    <2>2. LagInv'
      BY <1>1, <1>5, <2>1 DEF LagInv, BeginFill, EndFill
    <2>3. EventInv'
      BY <1>1, <2>1 DEF EventInv, Slot
    <2>4. SlotInv'
      <3>1. \A s \in SpanIds : gspan <= s /\ s < span => Slot(s) # Slot(span)
        BY <1>3, <2>1 DEF LagInv
      <3>2. \A s \in SpanIds : Slot(s) \in SlotIds /\ Slot(s)' = Slot(s)
        <4>1. \A s \in SpanIds : Slot(s) \in SlotIds
          BY SlotIsSlot DEF SpanIds
        <4> QED
          BY <4>1 DEF Slot
      <3>3. \A s \in SpanIds : gspan <= s /\ s < span => stage'[Slot(s)] = stage[Slot(s)]
        BY <1>5, <3>1, <3>2 DEF BeginFill, EndFill
      <3>4. pc' = "enqueue" => stage'[Slot(span)] = span
        BY <1>0, <1>5 DEF BeginFill, EndFill
      <3>5. pc' # "failed" /\ Slot(span)' = Slot(span) /\ Slot(gspan)' = Slot(gspan)
        BY <1>1, <1>5, <2>1 DEF BeginFill, EndFill, Slot
      <3> QED
        BY <1>1, <2>1, <3>2, <3>3, <3>4, <3>5 DEF SlotInv
    <2> QED
      BY <1>2, <2>2, <2>3, <2>4
  <1>6. CASE EnqueueCopy
    <2>1. UNCHANGED <<span, stage, recorded, pc>> /\ step' = step + 1 /\ pc = "enqueue"
      BY <1>6 DEF EnqueueCopy
    <2>2. LagInv'
      BY <1>1, <2>1 DEF LagInv, Last
    <2>3. EventInv' /\ SlotInv'
      BY <1>1, <2>1 DEF EventInv, SlotInv, Slot
    <2> QED
      BY <1>2, <2>2, <2>3
  <1>7. CASE RecordReuse
    <2>1. /\ pc = "enqueue" /\ span' = span + 1 /\ step' = 0 /\ UNCHANGED stage
          /\ pc' = IF span' < SpanCount THEN "wait" ELSE "sync"
          /\ recorded' = [recorded EXCEPT ![Slot(span)] = span]
          /\ step = Copies[span] + 1
      BY <1>7 DEF RecordReuse
    <2>2. span \in SpanIds /\ span - gspan < Slots
      BY <2>1 DEF LagInv, SpanIds
    <2>3. LagInv'
      BY <1>1, <2>1, <2>2 DEF LagInv, SpanIds, Last
    <2>4. \A s \in SpanIds : Slot(s) \in SlotIds /\ Slot(s)' = Slot(s)
      <3>1. \A s \in SpanIds : Slot(s) \in SlotIds
        BY SlotIsSlot DEF SpanIds
      <3> QED
        BY <3>1 DEF Slot
    <2>5. EventInv'
      <3>1. ASSUME NEW s \in SpanIds, s < span', span' <= s + Slots
            PROVE  recorded'[Slot(s)'] = s
        <4>1. CASE s = span
          BY <2>1, <2>4, <4>1
        <4>2. CASE s < span
          <5>1. Slot(s) # Slot(span)
            BY <3>1, <2>1, <4>2, <1>0, SlotsDiffer DEF SpanIds
          <5>2. recorded[Slot(s)] = s
            BY <3>1, <2>1, <4>2 DEF EventInv, SpanIds
          <5> QED
            BY <2>1, <2>4, <5>1, <5>2
        <4> QED
          BY <3>1, <2>1, <4>1, <4>2 DEF SpanIds
      <3> QED
        BY <1>1, <3>1 DEF EventInv
    <2>6. SlotInv'
      <3>1. stage[Slot(span)] = span
        BY <2>1 DEF SlotInv
      <3>2. Slot(gspan)' = Slot(gspan)
        BY <1>1 DEF Slot
      <3>3. pc' # "enqueue" /\ pc' # "failed"
        BY <2>1
      <3>4. ASSUME NEW s \in SpanIds, gspan <= s, s < span', s = gspan => gstep = 0
            PROVE  stage[Slot(s)] = s
        BY <3>1, <3>4, <2>1 DEF SlotInv, SpanIds
      <3> QED
        BY <1>1, <2>1, <2>4, <3>2, <3>3, <3>4 DEF SlotInv
    <2> QED
      BY <1>2, <2>3, <2>5, <2>6
  <1> QED
    BY <1>4, <1>5, <1>6, <1>7 DEF Host, HostGoesOn

\* So do the steps of the stream.
LEMMA StreamStep ==
    ASSUME TypeOK, LagInv, EventInv, SlotInv, TensorInv, Stream
    PROVE  (LagInv /\ EventInv /\ SlotInv /\ TensorInv)'
  <1> USE LoaderAssumption DEF TypeOK, hostVars
  <1>1. UNCHANGED <<pc, span, step, stage, recorded>> /\ Queued
    BY DEF Stream, Upload, PlaceTensor, SignalReuse
  <1>2. gspan \in SpanIds /\ gspan \in Nat /\ Slot(gspan) \in SlotIds
    BY <1>1, SlotIsSlot DEF Queued, SpanIds, Last
  <1>3. \A s : Slot(s)' = Slot(s)
    BY DEF Slot
  <1>4. CASE Upload
    <2>1. /\ gstep = 0 /\ gstep' = 1 /\ UNCHANGED <<gspan, completed, tensor>>
          /\ transfer' = [transfer EXCEPT ![Slot(gspan)] = stage[Slot(gspan)]]
      BY <1>4 DEF Upload
    <2>2. stage[Slot(gspan)] = gspan
      <3>1. CASE gspan < span
        BY <1>2, <2>1, <3>1 DEF SlotInv
      <3>2. CASE gspan = span /\ gstep < step
        <4>1. pc = "enqueue" \/ pc = "failed"
          BY <2>1, <3>2 DEF LagInv
        <4> QED
          BY <2>1, <3>2, <4>1 DEF SlotInv
      <3> QED
        BY <1>1, <3>1, <3>2 DEF Queued
    <2>3. LagInv'
      BY <1>1, <2>1 DEF LagInv, Queued
    <2>4. EventInv'
      BY <1>1, <1>3, <2>1 DEF EventInv
    <2>5. SlotInv'
      <3>1. transfer'[Slot(gspan)] = gspan
        BY <1>2, <2>1, <2>2
      <3>2. Slot(gspan)' = Slot(gspan) /\ Slot(span)' = Slot(span)
        BY <1>1, <2>1 DEF Slot
      <3> QED
        BY <1>1, <1>3, <2>1, <3>1, <3>2 DEF SlotInv
    <2>6. TensorInv'
      BY <2>1, TensorIsPair DEF TensorInv, SpanIds
    <2> QED
      BY <2>3, <2>4, <2>5, <2>6
  <1>5. CASE PlaceTensor
    <2>1. /\ gstep \in 1 .. Copies[gspan] /\ gstep' = gstep + 1
          /\ UNCHANGED <<gspan, completed, transfer>>
          /\ tensor' = [tensor EXCEPT ![<<gspan, gstep>>] = transfer[Slot(gspan)]]
      BY <1>5 DEF PlaceTensor
    <2>2. transfer[Slot(gspan)] = gspan /\ <<gspan, gstep>> \in Tensors
      BY <1>2, <2>1, TensorIsPair DEF SlotInv
    <2>3. LagInv'
      BY <1>1, <2>1 DEF LagInv, Queued
    <2>4. EventInv' /\ SlotInv'
      <3>1. Slot(gspan)' = Slot(gspan) /\ Slot(span)' = Slot(span)
        BY <1>1, <2>1 DEF Slot
      <3> QED
        BY <1>1, <1>3, <2>1, <3>1 DEF EventInv, SlotInv
    <2>5. TensorInv'
      <3>1. ASSUME NEW t \in Tensors
            PROVE  tensor'[t] = IF t[1] < gspan \/ (t[1] = gspan /\ t[2] < gstep + 1)
                                THEN t[1] ELSE NoSpan
        <4>1. t = <<t[1], t[2]>> /\ t[1] \in Nat /\ t[2] \in Nat
          BY TensorIsPair DEF SpanIds
        <4>2. CASE t[1] = gspan /\ t[2] = gstep
          <5>1. tensor'[t] = gspan
            BY <2>1, <2>2, <4>1, <4>2
          <5> QED
            BY <2>1, <4>2, <5>1
        <4>3. CASE ~(t[1] = gspan /\ t[2] = gstep)
          <5>1. tensor'[t] = tensor[t]
            BY <2>1, <2>2, <4>1, <4>3
          <5>2. t[1] = gspan => (t[2] < gstep <=> t[2] < gstep + 1)
            BY <2>1, <4>1, <4>3
          <5>3. tensor[t] = IF t[1] < gspan \/ (t[1] = gspan /\ t[2] < gstep)
                            THEN t[1] ELSE NoSpan
            BY DEF TensorInv
          <5> QED
            BY <5>1, <5>2, <5>3
        <4> QED
          BY <4>2, <4>3
      <3> QED
        BY <2>1, <3>1 DEF TensorInv
    <2> QED
      BY <2>3, <2>4, <2>5
  <1>6. CASE SignalReuse
    <2>1. /\ gstep = Copies[gspan] + 1 /\ gstep' = 0 /\ gspan' = gspan + 1
          /\ UNCHANGED <<transfer, tensor>>
          /\ completed' = [completed EXCEPT ![Slot(gspan)] = gspan]
      BY <1>6 DEF SignalReuse
    <2>2. gspan < span
      BY <1>1, <1>2, <2>1 DEF Queued, Last, SpanIds
    <2>3. LagInv'
      BY <1>1, <2>1, <2>2 DEF LagInv
    <2>4. EventInv'
      <3>1. ASSUME NEW k \in SlotIds PROVE completed'[k] < gspan + 1
        <4>1. completed[k] \in Int /\ completed[k] < gspan
          BY DEF EventInv, Bytes, SpanIds, NoSpan
        <4> QED
          BY <1>2, <2>1, <4>1
      <3> QED
        BY <1>1, <1>3, <2>1, <3>1 DEF EventInv
    <2>5. SlotInv'
      <3>1. Slot(span)' = Slot(span)
        BY <1>1 DEF Slot
      <3>2. \A s \in SpanIds : gspan + 1 <= s /\ s < span => stage[Slot(s)] = s
        BY <1>2 DEF SlotInv, SpanIds
      <3> QED
        BY <1>1, <1>3, <2>1, <3>1, <3>2 DEF SlotInv
    <2>6. TensorInv'
      <3>1. ASSUME NEW t \in Tensors
            PROVE  tensor[t] = IF t[1] < gspan + 1 \/ (t[1] = gspan + 1 /\ t[2] < 0)
                               THEN t[1] ELSE NoSpan
        <4>1. t[1] \in Nat /\ t[2] \in Nat /\ t[2] <= Copies[t[1]]
          BY TensorIsPair DEF SpanIds
        <4>2. t[1] = gspan => t[2] < gstep
          <5>1. SUFFICES ASSUME t[1] = gspan PROVE t[2] < gstep
            OBVIOUS
          <5>2. t[2] <= Copies[gspan] /\ gstep \in Nat /\ Copies[gspan] \in Nat
            BY <4>1, <5>1, <1>2, <2>2, LoaderAssumption DEF SpanIds
          <5> QED
            BY <4>1, <5>2, <2>1
        <4>3. t[1] < gspan + 1 <=> t[1] < gspan \/ t[1] = gspan
          <5>1. \A a, b \in Nat : a < b + 1 <=> a < b \/ a = b
            OBVIOUS
          <5> QED
            BY <1>2, <4>1, <5>1
        <4>4. ~(t[2] < 0)
          BY <4>1
        <4>5. tensor[t] = IF t[1] < gspan \/ (t[1] = gspan /\ t[2] < gstep)
                          THEN t[1] ELSE NoSpan
          BY DEF TensorInv
        <4> QED
          BY <4>2, <4>3, <4>4, <4>5
      <3> QED
        BY <2>1, <3>1 DEF TensorInv
    <2> QED
      BY <2>3, <2>4, <2>5, <2>6
  <1> QED
    BY <1>4, <1>5, <1>6 DEF Stream

-----------------------------------------------------------------------------
\* IInv is inductive.
THEOREM Inductive == Spec => []IInv
  <1>1. IInv /\ [Next]_vars => IInv'
    <2> SUFFICES ASSUME IInv, [Next]_vars PROVE IInv'
      OBVIOUS
    <2>1. TypeOK'
      BY TypeStep DEF IInv
    <2>2. CASE Host
      BY <2>1, <2>2, HostStep DEF IInv
    <2>3. CASE Stream
      BY <2>1, <2>3, StreamStep DEF IInv
    <2>4. CASE UNCHANGED vars
      BY <2>4 DEF vars, hostVars, streamVars, IInv, TypeOK, LagInv, EventInv, SlotInv,
         TensorInv, Slot, Last
    <2> QED
      BY <2>2, <2>3, <2>4 DEF Next
  <1> QED
    BY <1>1, InitInv, PTL DEF Spec, Safety

\* The loader's state has the right types.
THEOREM TypeCorrect == Spec => []TypeOK
  BY Inductive, PTL DEF IInv

\* With any number of slots and spans the host never overwrites a pinned slot
\* whose upload the stream has still to execute.
THEOREM UploadsStayIntact == Spec => []UploadsIntact
  <1>1. IInv => UploadsIntact
    <2> SUFFICES ASSUME IInv, NEW s \in SpanIds, PendingUpload(s) PROVE stage[Slot(s)] = s
      BY DEF UploadsIntact
    <2> USE DEF IInv, TypeOK, PendingUpload
    <2>1. CASE s < span
      BY <2>1 DEF SlotInv, SpanIds
    <2>2. CASE s = span /\ step > 0
      <3>1. pc = "enqueue" \/ pc = "failed"
        BY <2>2 DEF LagInv
      <3> QED
        BY <2>2, <3>1 DEF SlotInv
    <2> QED
      BY <2>1, <2>2
  <1> QED
    BY <1>1, Inductive, PTL

\* When q3_loader_load() succeeds, what is resident is the file.
THEOREM LoadedIsFile == Spec => []ResidentIsFile
  <1>1. IInv => ResidentIsFile
    <2> SUFFICES ASSUME IInv, NEW t \in Tensors
                 PROVE  IF pc = "loaded" THEN tensor[t] = t[1] ELSE tensor[t] \in {NoSpan, t[1]}
      BY DEF ResidentIsFile
    <2>1. t[1] \in SpanIds
      BY TensorIsPair
    <2>2. pc = "loaded" => t[1] < gspan
      BY <2>1, LoaderAssumption DEF IInv, LagInv, SpanIds
    <2> QED
      BY <2>2 DEF IInv, TensorInv
  <1> QED
    BY <1>1, Inductive, PTL

-----------------------------------------------------------------------------
(* Behind slots, events and stream there is the plain copy of ResidentCopy.  *)

Resident == {t \in Tensors : tensor[t] = t[1]}
Outcome  == IF pc \in {"loaded", "failed"} THEN pc ELSE "loading"

\* What is resident is what lies before the stream's place in the file.
LEMMA ResidentIsPlaced ==
    ASSUME IInv, NEW t \in Tensors
    PROVE  t \in Resident <=> t[1] < gspan \/ (t[1] = gspan /\ t[2] < gstep)
  <1>1. t[1] # NoSpan
    BY TensorIsPair DEF SpanIds, NoSpan
  <1> QED
    BY <1>1 DEF Resident, IInv, TensorInv

\* The stream places the next tensor in file order, and none twice.
LEMMA PlaceIsPlace ==
    ASSUME IInv, PlaceTensor
    PROVE  \E t \in Tensors : Copy!Place(t)
  <1> USE LoaderAssumption DEF IInv, TypeOK
  <1> DEFINE new == <<gspan, gstep>>
  <1>1. gspan \in SpanIds /\ gstep \in 1 .. Copies[gspan] /\ gstep > 0
    <2>1. Queued /\ gstep \in 1 .. Copies[gspan]
      BY DEF PlaceTensor
    <2>2. gspan \in SpanIds
      BY <2>1 DEF Queued, SpanIds, Last
    <2>3. Copies[gspan] \in Nat
      BY <2>2 DEF SpanIds
    <2> QED
      BY <2>1, <2>2, <2>3
  <1>2. new \in Tensors /\ new[1] = gspan /\ new[2] = gstep
    BY <1>1, TensorIsPair
  <1>3. tensor' = [tensor EXCEPT ![new] = transfer[Slot(gspan)]] /\ UNCHANGED pc
    BY DEF PlaceTensor, hostVars
  <1>4. transfer[Slot(gspan)] = gspan
    BY <1>1 DEF SlotInv
  <1> HIDE DEF new
  <1>5. new \notin Resident
    BY <1>1, <1>2, ResidentIsPlaced DEF SpanIds
  <1>6. Resident' = Resident \cup {new}
    <2>1. \A t \in Tensors : tensor'[t] = IF t = new THEN gspan ELSE tensor[t]
      BY <1>2, <1>3, <1>4
    <2>2. \A t \in Tensors : tensor'[t] = t[1] <=> tensor[t] = t[1] \/ t = new
      BY <1>2, <2>1
    <2> QED
      BY <1>2, <2>2 DEF Resident
  <1>7. \A u \in Tensors : InFileOrder(u, new) => u \in Resident
    BY <1>2, ResidentIsPlaced DEF InFileOrder
  <1>8. Outcome' = Outcome /\ Outcome # "loaded"
    <2>1. pc # "loaded"
      BY DEF PlaceTensor, Queued, LagInv
    <2> QED
      BY <1>3, <2>1 DEF Outcome
  <1> QED
    BY <1>2, <1>5, <1>6, <1>7, <1>8 DEF Copy!Place, Resident, Outcome

\* Every step of the loader is a step of the copy or invisible to it.
LEMMA StepOfCopy ==
    ASSUME IInv, [Next]_vars
    PROVE  [Copy!Next]_<<Resident, Outcome>>
  <1> USE DEF Goes, hostVars, streamVars
  <1>1. CASE Allocate \/ WaitForSlot \/ BeginFill \/ EndFill \/ EnqueueCopy \/ RecordReuse
    BY <1>1 DEF Allocate, WaitForSlot, BeginFill, EndFill, EnqueueCopy, RecordReuse,
       Resident, Outcome
  <1>2. CASE Synchronize
    <2>1. pc = "sync" /\ pc' = "loaded" /\ UNCHANGED tensor /\ gspan = span
      BY <1>2 DEF Synchronize, StreamIdle
    <2>2. \A t \in Tensors : t[1] < gspan
      BY <2>1, TensorIsPair, LoaderAssumption DEF IInv, LagInv, SpanIds
    <2>3. Resident = Tensors
      <3>1. \A t \in Tensors : t \in Resident
        BY <2>2, ResidentIsPlaced
      <3> QED
        BY <3>1 DEF Resident
    <2> QED
      BY <2>1, <2>3 DEF Copy!Next, Copy!Succeed, Resident, Outcome
  <1>3. CASE CallFails
    BY <1>3 DEF CallFails, Copy!Next, Copy!Fail, Resident, Outcome
  <1>4. CASE Upload \/ SignalReuse
    BY <1>4 DEF Upload, SignalReuse, Resident, Outcome
  <1>5. CASE PlaceTensor
    BY <1>5, PlaceIsPlace DEF Copy!Next
  <1>6. CASE UNCHANGED vars
    BY <1>6 DEF vars, Resident, Outcome
  <1> QED
    BY <1>1, <1>2, <1>3, <1>4, <1>5, <1>6 DEF Next, Host, HostGoesOn, Stream

\* q3_loader_load() implements ResidentCopy: the planned tensors become
\* resident one by one in file order, each with its own bytes, and success is
\* reported only when all of them are.
THEOREM LoaderIsCopy == Spec => ImplementsCopy
  <1>1. Init => Copy!Init
    <2> SUFFICES ASSUME Init PROVE Copy!Init
      OBVIOUS
    <2>1. \A t \in Tensors : tensor[t] # t[1]
      BY TensorIsPair DEF Init, SpanIds, NoSpan
    <2> QED
      BY <2>1 DEF Copy!Init, Init
  <1>2. IInv /\ [Next]_vars => [Copy!Next]_<<Resident, Outcome>>
    BY StepOfCopy
  <1> QED
    BY <1>1, <1>2, Inductive, PTL DEF Spec, Safety, ImplementsCopy, Copy!Spec, Resident, Outcome
=============================================================================
