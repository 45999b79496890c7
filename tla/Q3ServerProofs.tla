--------------------------- MODULE Q3ServerProofs ---------------------------
(***************************************************************************)
(* What TLC checks on two connections and a ring of one, proved for any    *)
(* set of connections and signals and any queue depth: the types, and the  *)
(* lifetime of jobs, model and queue.                                      *)
(***************************************************************************)
EXTENDS Q3Server, TLAPS

\* A ring index stays in the ring, and one more step of the head is one more
\* step of every offset.
LEMMA SlotInRing ==
    ASSUME NEW h \in 0 .. QueueDepth - 1, NEW i \in Nat
    PROVE  (h + i) % QueueDepth \in 0 .. QueueDepth - 1
  BY SMT, ServerAssumption

LEMMA SlotAfterHead ==
    ASSUME NEW h \in 0 .. QueueDepth - 1, NEW i \in 0 .. QueueDepth - 1
    PROVE  (((h + 1) % QueueDepth) + i) % QueueDepth = (h + (i + 1)) % QueueDepth
  <1>1. CASE h + 1 < QueueDepth
    <2>1. (h + 1) % QueueDepth = h + 1
      BY <1>1, ServerAssumption, SMT
    <2> QED
      BY <2>1, ServerAssumption, SMT
  <1>2. CASE h + 1 = QueueDepth
    <2>1. (h + 1) % QueueDepth = 0
      BY <1>2, ServerAssumption, SMT
    <2>2. i % QueueDepth = i
      BY ServerAssumption, SMT
    <2>3. (QueueDepth + i) % QueueDepth = i
      BY ServerAssumption, SMT
    <2> QED
      BY <1>2, <2>1, <2>2, <2>3, ServerAssumption, SMT
  <1> QED
    BY <1>1, <1>2, ServerAssumption, SMT

\* Two different offsets of less than the size are two different slots.
LEMMA SlotsDiffer ==
    ASSUME NEW h \in 0 .. QueueDepth - 1,
           NEW i \in 0 .. QueueDepth - 1, NEW j \in 0 .. QueueDepth - 1,
           (h + i) % QueueDepth = (h + j) % QueueDepth
    PROVE  i = j
  <1>1. (h + i) % QueueDepth = IF h + i < QueueDepth THEN h + i ELSE h + i - QueueDepth
    BY ServerAssumption, SMT
  <1>2. (h + j) % QueueDepth = IF h + j < QueueDepth THEN h + j ELSE h + j - QueueDepth
    BY ServerAssumption, SMT
  <1> QED
    BY <1>1, <1>2, ServerAssumption, SMT

-----------------------------------------------------------------------------
\* TypeOK is inductive on its own: every step keeps every variable, and so the
\* ring indices of q3_server.c, in its range.
LEMMA TypeStep == TypeOK /\ [Next]_vars => TypeOK'
  <1> SUFFICES ASSUME TypeOK, [Next]_vars PROVE TypeOK'
    OBVIOUS
  <1> USE DEF TypeOK, MainPcs, HandlerPcs, WorkerPcs, ClientPcs, Replies, vars, mainVars,
          listenVars, sigVars, queueVars, workVars, jobVars, connVars, MainGoes, WorkerGoes,
          Goes, HandlerGoes, WakeWorker
  <1>1. CASE LoadModel
    <2>1. ready' \in BOOLEAN
      BY <1>1 DEF LoadModel
    <2> QED
      BY <1>1, <2>1 DEF LoadModel
  <1>2. CASE Listen
    <2>1. listening' \in BOOLEAN
      BY <1>2 DEF Listen
    <2> QED
      BY <1>2, <2>1 DEF Listen
  <1>3. CASE PublishListenFd
    BY <1>3 DEF PublishListenFd
  <1>4. CASE SpawnWorker
    <2>1. listening' \in BOOLEAN
      BY <1>4 DEF SpawnWorker
    <2> QED
      BY <1>4, <2>1 DEF SpawnWorker
  <1>5. CASE PollListener \/ PollFails
    BY <1>5 DEF PollListener, PollFails
  <1>6. CASE AcceptClient
    BY <1>6 DEF AcceptClient
  <1>7. CASE TestListenFd
    BY <1>7 DEF TestListenFd
  <1>8. CASE CloseListener
    BY <1>8 DEF CloseListener
  <1>9. CASE ForgetListenFd
    <2>1. listenFd' \in BOOLEAN
      BY <1>9 DEF ForgetListenFd
    <2> QED
      BY <1>9, <2>1 DEF ForgetListenFd
  <1>10. CASE QueueStop
    BY <1>10 DEF QueueStop
  <1>11. CASE JoinWorker
    BY <1>11 DEF JoinWorker
  <1>12. CASE FreeModel
    BY <1>12 DEF FreeModel
  <1>13. CASE FreeQueue
    <2>1. ready' \in BOOLEAN /\ ringFreed' \in BOOLEAN
      BY <1>13 DEF FreeQueue
    <2> QED
      BY <1>13, <2>1 DEF FreeQueue
  <1>14. CASE Return
    BY <1>14 DEF Return
  <1>15. CASE SpuriousWakeup
    BY <1>15 DEF SpuriousWakeup
  <1>16. ASSUME NEW s \in Signals, DeliverSignal(s) PROVE TypeOK'
    BY <1>16 DEF DeliverSignal
  <1>17. ASSUME NEW s \in Signals, RequestStop(s) PROVE TypeOK'
    BY <1>17 DEF RequestStop
  <1>18. ASSUME NEW s \in Signals, HandlerTestsFd(s) PROVE TypeOK'
    BY <1>18 DEF HandlerTestsFd
  <1>19. ASSUME NEW s \in Signals, HandlerClearsFd(s) PROVE TypeOK'
    <2>1. listenFd' \in BOOLEAN
      BY <1>19 DEF HandlerClearsFd
    <2> QED
      BY <1>19, <2>1 DEF HandlerClearsFd
  <1>20. ASSUME NEW s \in Signals, HandlerClosesFd(s) PROVE TypeOK'
    <2>1. listening' \in BOOLEAN
      BY <1>20 DEF HandlerClosesFd
    <2> QED
      BY <1>20, <2>1 DEF HandlerClosesFd
  <1>21. CASE Dequeue
    <2>1. wjob' \in Clients \cup {NoJob} /\ len' \in 0 .. QueueDepth
      BY <1>21, ServerAssumption DEF Dequeue, Oldest
    <2>2. head' \in 0 .. QueueDepth - 1
      <3>1. Slot(1) \in 0 .. QueueDepth - 1
        BY SlotInRing DEF Slot
      <3> QED
        BY <1>21, <3>1 DEF Dequeue
    <2>3. wpc' \in WorkerPcs
      BY <1>21 DEF Dequeue
    <2> QED
      BY <1>21, <2>1, <2>2, <2>3 DEF Dequeue
  <1>22. CASE RunJob
    <2>1. reply' \in [Clients -> Replies] /\ wpc' \in WorkerPcs
      BY <1>22 DEF RunJob
    <2> QED
      BY <1>22, <2>1 DEF RunJob
  <1>23. CASE LockJob
    <2>1. mu' \in [Clients -> BOOLEAN]
      BY <1>23 DEF LockJob
    <2> QED
      BY <1>23, <2>1 DEF LockJob
  <1>24. CASE FinishJob
    <2>1. done' \in [Clients -> BOOLEAN]
      BY <1>24 DEF FinishJob
    <2> QED
      BY <1>24, <2>1 DEF FinishJob
  <1>25. CASE UnlockJob
    <2>1. mu' \in [Clients -> BOOLEAN]
      BY <1>25 DEF UnlockJob
    <2> QED
      BY <1>25, <2>1 DEF UnlockJob
  <1>26. ASSUME NEW c \in Clients, Connect(c) PROVE TypeOK'
    BY <1>26 DEF Connect
  <1>27. ASSUME NEW c \in Clients, PeerStops(c) PROVE TypeOK'
    BY <1>27 DEF PeerStops
  <1>28. ASSUME NEW c \in Clients, HandleRequest(c) PROVE TypeOK'
    BY <1>28 DEF HandleRequest
  <1>29. ASSUME NEW c \in Clients, SendHealth(c) PROVE TypeOK'
    BY <1>29 DEF SendHealth
  <1>30. ASSUME NEW c \in Clients, Dispatch(c) PROVE TypeOK'
    <2>1. CASE Goes(c, "dispatch", "wait") /\ MayEnqueue /\ Put(c) /\ UNCHANGED reply
      <3>1. ring' \in [0 .. QueueDepth - 1 -> Clients \cup {NoJob}]
        BY <2>1 DEF Put
      <3>2. len' \in 0 .. QueueDepth
        BY <2>1, ServerAssumption DEF MayEnqueue, Put
      <3>3. pc' \in [Clients -> ClientPcs] /\ wpc' \in WorkerPcs
        BY <2>1 DEF Put
      <3> QED
        BY <1>30, <2>1, <3>1, <3>2, <3>3 DEF Dispatch, Put
    <2>2. CASE ~(MayEnqueue /\ Put(c))
      BY <1>30, <2>2 DEF Dispatch
    <2> QED
      BY <1>30, <2>1, <2>2 DEF Dispatch
  <1>31. ASSUME NEW c \in Clients, WaitForJob(c) PROVE TypeOK'
    <2>1. cancelled' \in [Clients -> BOOLEAN]
      BY <1>31 DEF WaitForJob
    <2> QED
      BY <1>31, <2>1 DEF WaitForJob
  <1>32. ASSUME NEW c \in Clients, SendHead(c) PROVE TypeOK'
    BY <1>32 DEF SendHead
  <1>33. ASSUME NEW c \in Clients, SendBody(c) PROVE TypeOK'
    BY <1>33 DEF SendBody
  <1>34. ASSUME NEW c \in Clients, EndConnection(c) PROVE TypeOK'
    BY <1>34 DEF EndConnection
  <1>35. CASE UNCHANGED vars
    BY <1>35
  <1> QED
    BY <1>1, <1>2, <1>3, <1>4, <1>5, <1>6, <1>7, <1>8, <1>9, <1>10, <1>11, <1>12,
       <1>13, <1>14, <1>15, <1>16, <1>17, <1>18, <1>19, <1>20, <1>21, <1>22, <1>23,
       <1>24, <1>25, <1>26, <1>27, <1>28, <1>29, <1>30, <1>31, <1>32, <1>33, <1>34,
       <1>35 DEF Next, Main, WorkerStep, HandlerStep, ClientStep

\* main() starts with every variable in its range.
LEMMA InitTyped == Init => TypeOK
  <1> SUFFICES ASSUME Init PROVE TypeOK
    OBVIOUS
  <1>1. /\ ready \in BOOLEAN /\ listening \in BOOLEAN /\ listenFd \in BOOLEAN
        /\ stop \in BOOLEAN /\ ringFreed \in BOOLEAN /\ stopping \in BOOLEAN
    BY DEF Init
  <1>2. /\ mu \in [Clients -> BOOLEAN] /\ done \in [Clients -> BOOLEAN]
        /\ cancelled \in [Clients -> BOOLEAN]
    BY DEF Init
  <1>3. head \in 0 .. QueueDepth - 1 /\ len \in 0 .. QueueDepth
    BY ServerAssumption DEF Init
  <1> QED
    BY <1>1, <1>2, <1>3 DEF Init, TypeOK, MainPcs, HandlerPcs, WorkerPcs, ClientPcs, Replies

\* The server's state has the right types for every number of connections and
\* signals, every queue depth, and with or without a failing poll().
THEOREM TypeCorrect == Spec => []TypeOK
  BY InitTyped, TypeStep, PTL DEF Spec, Safety

-----------------------------------------------------------------------------
(* The inductive invariant.  Most steps leave the queue, the worker and the *)
(* jobs alone: three frame lemmas say so once.                              *)

JobInv == ConnectionInv /\ RingInv /\ WorkerInv /\ WaitInv

\* main() and the signal handlers.
LEMMA FrameMain ==
    ASSUME JobInv, UNCHANGED <<ring, head, len, wpc, wjob, job, mu, done, pc>>
    PROVE  JobInv'
  BY DEF JobInv, ConnectionInv, RingInv, WorkerInv, WaitInv, InRing, Slot, Running,
         WorkerHolds

\* The worker wakes up, or is started: it holds no job before or after.
LEMMA FrameIdle ==
    ASSUME JobInv, wpc \notin WorkerHolds, wpc' \notin WorkerHolds,
           UNCHANGED <<ring, head, len, wjob, job, mu, done, pc>>
    PROVE  JobInv'
  BY DEF JobInv, ConnectionInv, RingInv, WorkerInv, WaitInv, InRing, Slot, Running,
         WorkerHolds

\* A connection moves outside the wait: neither the ring nor the worker knows it.
LEMMA FrameConnection ==
    ASSUME TypeOK, JobInv, NEW c \in Clients, NEW to,
           pc[c] # "wait", to # "wait", pc' = [pc EXCEPT ![c] = to], ConnectionInv',
           UNCHANGED <<ring, head, len, wpc, wjob, mu, done>>
    PROVE  JobInv'
  <1> USE DEF JobInv, InRing, Slot, Running, WorkerHolds
  <1>1. \A d \in Clients : pc'[d] = "wait" <=> pc[d] = "wait"
    BY DEF TypeOK
  <1>2. RingInv'
    BY <1>1 DEF RingInv
  <1>3. WorkerInv'
    BY <1>1 DEF WorkerInv
  <1>4. WaitInv'
    BY <1>1 DEF WaitInv
  <1> QED
    BY <1>2, <1>3, <1>4

\* enqueue(): the new job is in the ring, once, and waits.
LEMMA PutKeeps ==
    ASSUME TypeOK, TypeOK', JobInv, NEW c \in Clients,
           Goes(c, "dispatch", "wait"), MayEnqueue, Put(c), UNCHANGED <<job, mu, done>>
    PROVE  JobInv'
  <1> USE DEF TypeOK, JobInv, Goes, Put
  <1> DEFINE At(i) == (head + i) % QueueDepth
  <1>1. len < QueueDepth /\ len' = len + 1 /\ head' = head
    BY DEF MayEnqueue
  <1>2. \A i \in 0 .. QueueDepth - 1 : At(i) \in 0 .. QueueDepth - 1
    BY SlotInRing
  <1>3. \A i \in 0 .. len - 1 : At(i) # At(len)
    <2>1. \A i \in 0 .. len - 1 : i \in 0 .. QueueDepth - 1 /\ i # len
      BY <1>1, ServerAssumption
    <2>2. len \in 0 .. QueueDepth - 1
      BY <1>1, ServerAssumption
    <2> QED
      BY <2>1, <2>2, SlotsDiffer
  <1>4. ring' = [ring EXCEPT ![At(len)] = c]
    BY DEF Slot
  <1>5. /\ ring'[At(len)] = c
        /\ \A i \in 0 .. len - 1 : ring'[At(i)] = ring[At(i)]
    <2>1. \A i \in 0 .. len : i \in 0 .. QueueDepth - 1
      BY <1>1, ServerAssumption
    <2>2. DOMAIN ring = 0 .. QueueDepth - 1 /\ len \in 0 .. len
      BY <1>1
    <2>3. \A i \in 0 .. len - 1 : i \in 0 .. len
      OBVIOUS
    <2> HIDE DEF At
    <2> QED
      BY <1>2, <1>3, <1>4, <2>1, <2>2, <2>3
  <1>6. \A i : Slot(i) = At(i) /\ Slot(i)' = At(i)
    BY <1>1 DEF Slot
  <1> HIDE DEF At
  <1>7. pc[c] = "dispatch" /\ ~done[c] /\ pc' = [pc EXCEPT ![c] = "wait"]
    BY DEF ConnectionInv
  <1>8. \A i \in 0 .. len - 1 : ring[At(i)] \in Clients \ {c}
    BY <1>6, <1>7 DEF RingInv
  <1>9. \A i \in (0 .. len - 1)' : i \in 0 .. len - 1 \/ i = len
    BY <1>1
  <1>10. ConnectionInv'
    BY <1>7 DEF ConnectionInv
  <1>11. RingInv'
    <2>1. ASSUME NEW i \in (0 .. len - 1)'
          PROVE  (/\ ring[Slot(i)] \in Clients
                  /\ pc[ring[Slot(i)]] = "wait"
                  /\ ~done[ring[Slot(i)]])'
      <3>1. CASE i = len
        BY <3>1, <1>5, <1>6, <1>7
      <3>2. CASE i \in 0 .. len - 1
        <4>1. ring[At(i)] \in Clients \ {c} /\ pc[ring[At(i)]] = "wait" /\ ~done[ring[At(i)]]
          BY <3>2, <1>6, <1>8 DEF RingInv
        <4> QED
          BY <3>2, <4>1, <1>5, <1>6, <1>7
      <3> QED
        BY <3>1, <3>2, <1>9
    <2>2. ASSUME NEW i \in (0 .. len - 1)', NEW j \in (0 .. len - 1)',
                 (ring[Slot(i)] = ring[Slot(j)])'
          PROVE  i = j
      <3>1. ring'[At(i)] = ring'[At(j)]
        BY <2>2, <1>6
      <3>2. CASE i \in 0 .. len - 1 /\ j \in 0 .. len - 1
        BY <3>1, <3>2, <1>5, <1>6 DEF RingInv
      <3>3. CASE ~(i \in 0 .. len - 1 /\ j \in 0 .. len - 1)
        BY <3>1, <3>3, <1>5, <1>8, <1>9
      <3> QED
        BY <3>2, <3>3
    <2> QED
      BY <2>1, <2>2 DEF RingInv
  <1>12. wpc' \in WorkerHolds <=> wpc \in WorkerHolds
    BY DEF WorkerHolds, WakeWorker
  <1>13. wpc \in WorkerHolds => wpc' = wpc /\ wjob' = wjob
    BY DEF WorkerHolds, WakeWorker
  <1>14. wpc \in WorkerHolds => wjob # c
    BY <1>7 DEF WorkerInv
  <1>15. \A d \in Clients : InRing(d)' <=> InRing(d) \/ d = c
    <2> TAKE d \in Clients
    <2>1. InRing(d)' => InRing(d) \/ d = c
      BY <1>5, <1>6, <1>9 DEF InRing
    <2>2. InRing(d) => InRing(d)'
      <3> SUFFICES ASSUME NEW i \in 0 .. len - 1, ring[At(i)] = d PROVE InRing(d)'
        BY <1>6 DEF InRing
      <3>1. i \in (0 .. len - 1)' /\ ring'[At(i)] = d
        BY <1>1, <1>5
      <3> QED
        BY <3>1, <1>6 DEF InRing
    <2>3. d = c => InRing(d)'
      <3>1. len \in (0 .. len - 1)'
        BY <1>1
      <3> QED
        BY <3>1, <1>5, <1>6 DEF InRing
    <2> QED
      BY <2>1, <2>2, <2>3
  <1>16. WorkerInv'
    <2>1. (wpc \in WorkerHolds <=> wjob \in Clients)'
      BY <1>12, <1>13 DEF WorkerInv, Put
    <2>2. (wpc \in WorkerHolds => pc[wjob] = "wait" /\ ~InRing(wjob))'
      BY <1>7, <1>12, <1>13, <1>14, <1>15 DEF WorkerInv
    <2>3. (wpc \in Running => ~done[wjob])' /\ (wpc = "unlock" => done[wjob])'
      BY <1>12, <1>13 DEF WorkerInv, Running, WorkerHolds, WakeWorker
    <2>4. (\A d \in Clients : mu[d] <=> wjob = d /\ wpc \in {"finish", "unlock"})'
      BY <1>12, <1>13 DEF WorkerInv, WorkerHolds, WakeWorker
    <2> QED
      BY <2>1, <2>2, <2>3, <2>4 DEF WorkerInv
  <1>17. WaitInv'
    BY <1>7, <1>12, <1>13, <1>15 DEF WaitInv, Running, WorkerHolds
  <1> QED
    BY <1>10, <1>11, <1>16, <1>17

\* dequeue() that takes a job: the oldest one leaves the ring, and everything
\* behind it moves up by one.
LEMMA TakeKeeps ==
    ASSUME TypeOK, JobInv, wpc = "dequeue", wpc' = "run", len > 0,
           wjob' = ring[head], head' = Slot(1), len' = len - 1,
           UNCHANGED <<ring, job, mu, done, pc>>
    PROVE  JobInv'
  <1> USE DEF TypeOK, JobInv
  <1>1. \A i \in 0 .. len - 2 : Slot(i)' = Slot(i + 1)
    <2> TAKE i \in 0 .. len - 2
    <2>1. i \in 0 .. QueueDepth - 1
      BY ServerAssumption
    <2> QED
      BY <2>1, SlotAfterHead DEF Slot
  <1>2. Slot(0) = head
    <2>1. \A h, m \in Nat : h < m => (h + 0) % m = h
      OBVIOUS
    <2>2. head \in Nat /\ QueueDepth \in Nat /\ head < QueueDepth
      BY ServerAssumption
    <2> QED
      BY ONLY <2>1, <2>2 DEF Slot
  <1>3. \A i \in (0 .. len - 1)' : i \in 0 .. len - 2 /\ i + 1 \in 0 .. len - 1 /\ i + 1 # 0
    OBVIOUS
  <1>4. 0 \in 0 .. len - 1
    OBVIOUS
  <1>5. /\ wjob' = ring[Slot(0)]
        /\ wjob' \in Clients /\ pc[wjob'] = "wait" /\ ~done[wjob']
    BY <1>2, <1>4 DEF RingInv
  <1>6. RingInv'
    <2>1. ASSUME NEW i \in (0 .. len - 1)'
          PROVE  (/\ ring[Slot(i)] \in Clients
                  /\ pc[ring[Slot(i)]] = "wait"
                  /\ ~done[ring[Slot(i)]])'
      BY <1>1, <1>3 DEF RingInv
    <2>2. ASSUME NEW i \in (0 .. len - 1)', NEW j \in (0 .. len - 1)',
                 (ring[Slot(i)] = ring[Slot(j)])'
          PROVE  i = j
      <3>1. i + 1 = j + 1
        BY <2>2, <1>1, <1>3 DEF RingInv
      <3> QED
        BY <3>1
    <2> QED
      BY <2>1, <2>2 DEF RingInv
  <1>7. ~InRing(wjob)'
    <2> SUFFICES ASSUME NEW i \in (0 .. len - 1)', ring[Slot(i)'] = wjob' PROVE FALSE
      BY DEF InRing
    <2>1. ring[Slot(i + 1)] = ring[Slot(0)] /\ i + 1 \in 0 .. len - 1 /\ i + 1 # 0
      BY <1>1, <1>3, <1>5
    <2> QED
      BY <2>1, <1>4 DEF RingInv
  <1>8. \A c \in Clients : InRing(c) => InRing(c)' \/ c = wjob'
    <2> SUFFICES ASSUME NEW c \in Clients, NEW i \in 0 .. len - 1, ring[Slot(i)] = c,
                        c # wjob'
                 PROVE  InRing(c)'
      BY DEF InRing
    <2>1. i # 0 /\ i - 1 \in (0 .. len - 1)' /\ i - 1 \in 0 .. len - 2 /\ (i - 1) + 1 = i
      BY <1>5
    <2>2. Slot(i - 1)' = Slot(i)
      BY <2>1, <1>1
    <2> QED
      BY <2>1, <2>2 DEF InRing
  <1>9. WorkerInv'
    <2>1. (\A c \in Clients : mu[c] <=> wjob = c /\ wpc \in {"finish", "unlock"})'
      BY DEF WorkerInv
    <2> QED
      BY <2>1, <1>5, <1>7 DEF WorkerInv, WorkerHolds, Running
  <1>10. WaitInv'
    BY <1>8 DEF WaitInv, Running
  <1>11. ConnectionInv'
    BY DEF ConnectionInv
  <1> QED
    BY <1>6, <1>9, <1>10, <1>11

\* The worker goes on with the job it holds.
LEMMA RunKeeps ==
    ASSUME JobInv, wpc \in Running, wpc' \in Running,
           \A c \in Clients : mu'[c] <=> wjob = c /\ wpc' \in {"finish", "unlock"},
           UNCHANGED <<ring, head, len, wjob, job, done, pc>>
    PROVE  JobInv'
  BY DEF JobInv, ConnectionInv, RingInv, WorkerInv, WaitInv, InRing, Slot, Running,
         WorkerHolds

\* done = true under j->mu: the thread still waits, for it cannot have the mutex.
LEMMA FinishKeeps ==
    ASSUME TypeOK, JobInv, FinishJob
    PROVE  JobInv'
  <1> USE DEF TypeOK, JobInv, FinishJob, WorkerGoes, jobVars, queueVars, connVars
  <1>1. wjob \in Clients /\ pc[wjob] = "wait" /\ ~InRing(wjob)
    BY DEF WorkerInv, WorkerHolds
  <1>2. \A c \in Clients : done'[c] <=> done[c] \/ c = wjob
    OBVIOUS
  <1>3. \A i : Slot(i)' = Slot(i)
    BY DEF Slot
  <1>4. \A c : InRing(c)' <=> InRing(c)
    BY <1>3 DEF InRing
  <1>5. \A i \in 0 .. len - 1 : ring[Slot(i)] # wjob
    BY <1>1 DEF InRing
  <1>6. ConnectionInv'
    BY <1>1, <1>2 DEF ConnectionInv
  <1>7. RingInv'
    BY <1>2, <1>3, <1>5 DEF RingInv
  <1>8. WorkerInv'
    BY <1>1, <1>2, <1>4 DEF WorkerInv, WorkerHolds, Running
  <1>9. WaitInv'
    BY <1>2, <1>4 DEF WaitInv, Running
  <1> QED
    BY <1>6, <1>7, <1>8, <1>9

\* The worker lets go of the job for good.
LEMMA UnlockKeeps ==
    ASSUME TypeOK, JobInv, UnlockJob
    PROVE  JobInv'
  <1> USE DEF TypeOK, JobInv, UnlockJob, WorkerGoes, queueVars, connVars
  <1>1. wjob \in Clients /\ done[wjob] /\ wjob' = NoJob /\ NoJob \notin Clients
    BY ServerAssumption DEF WorkerInv, WorkerHolds
  <1>2. \A c \in Clients : ~mu'[c]
    BY DEF WorkerInv
  <1>3. \A i : Slot(i)' = Slot(i)
    BY DEF Slot
  <1>4. \A c : InRing(c)' <=> InRing(c)
    BY <1>3 DEF InRing
  <1>5. ConnectionInv' /\ RingInv'
    BY <1>3 DEF ConnectionInv, RingInv
  <1>6. WorkerInv'
    BY <1>1, <1>2 DEF WorkerInv, WorkerHolds, Running
  <1>7. WaitInv'
    BY <1>1, <1>4 DEF WaitInv, Running
  <1> QED
    BY <1>5, <1>6, <1>7

\* A thread leaves the wait only with its job done, out of the ring and out of
\* the worker's hands: j->mu is free.
LEMMA LeaveKeeps ==
    ASSUME TypeOK, JobInv, NEW c \in Clients, NEW to \in {"finish", "head"},
           ~mu[c], done[c], Goes(c, "wait", to),
           UNCHANGED <<ring, head, len, wpc, wjob, job, mu, done>>
    PROVE  JobInv'
  <1> USE DEF TypeOK, JobInv, Goes
  <1>1. \A i : Slot(i)' = Slot(i)
    BY DEF Slot
  <1>2. \A d : InRing(d)' <=> InRing(d)
    BY <1>1 DEF InRing
  <1>3. \A i \in 0 .. len - 1 : ring[Slot(i)] # c
    BY DEF RingInv
  <1>4. wpc \in WorkerHolds => wjob # c
    BY DEF WorkerInv, WorkerHolds, Running
  <1>5. ConnectionInv'
    BY DEF ConnectionInv
  <1>6. RingInv'
    BY <1>1, <1>3 DEF RingInv
  <1>7. WorkerInv'
    BY <1>2, <1>4 DEF WorkerInv, WorkerHolds, Running
  <1>8. WaitInv'
    BY <1>2 DEF WaitInv
  <1> QED
    BY <1>5, <1>6, <1>7, <1>8

-----------------------------------------------------------------------------
\* The job invariant is kept by every step that main() does not take.
LEMMA JobStep ==
    ASSUME TypeOK, TypeOK', JobInv, MainInv, [Next]_vars
    PROVE  JobInv'
  <1> USE DEF mainVars, listenVars, sigVars, queueVars, workVars, jobVars, connVars,
          MainGoes, WorkerGoes, Goes, HandlerGoes
  <1>1. CASE LoadModel \/ Listen \/ PublishListenFd \/ PollListener \/ PollFails \/ TestListenFd
             \/ CloseListener \/ ForgetListenFd \/ JoinWorker \/ FreeModel \/ FreeQueue
             \/ Return
    <2>1. UNCHANGED <<ring, head, len, wpc, wjob, job, mu, done, pc>>
      BY <1>1 DEF LoadModel, Listen, PublishListenFd, PollListener, PollFails, TestListenFd,
         CloseListener, ForgetListenFd, JoinWorker, FreeModel, FreeQueue, Return
    <2> QED
      BY <2>1, FrameMain
  <1>2. CASE SpawnWorker
    <2>1. wpc = "none" /\ wpc' \in {"none", "dequeue"}
      BY <1>2 DEF SpawnWorker, MainInv
    <2>2. UNCHANGED <<ring, head, len, wjob, job, mu, done, pc>>
      BY <1>2 DEF SpawnWorker
    <2> QED
      BY <2>1, <2>2, FrameIdle DEF WorkerHolds
  <1>3. CASE AcceptClient
    <2>0. UNCHANGED <<ring, head, len, wpc, wjob, job, mu, done>>
      BY <1>3 DEF AcceptClient
    <2>1. CASE UNCHANGED pc
      BY <2>0, <2>1, FrameMain
    <2>2. CASE ~UNCHANGED pc
      <3>1. PICK c \in Clients, to \in {"request", "dropped"} :
                pc[c] = "backlog" /\ pc' = [pc EXCEPT ![c] = to]
        BY <1>3, <2>2 DEF AcceptClient
      <3>2. ConnectionInv'
        BY <2>0, <3>1 DEF TypeOK, JobInv, ConnectionInv
      <3>3. pc[c] # "wait" /\ to # "wait"
        BY <3>1
      <3> QED
        BY <2>0, <3>1, <3>2, <3>3, FrameConnection
    <2> QED
      BY <2>1, <2>2
  <1>4. CASE QueueStop
    <2>1. UNCHANGED <<ring, head, len, wjob, job, mu, done, pc>>
      BY <1>4 DEF QueueStop
    <2>2. CASE wpc = "sleep"
      <3>1. wpc \notin WorkerHolds /\ wpc' \notin WorkerHolds
        BY <1>4, <2>2 DEF QueueStop, WakeWorker, WorkerHolds
      <3> QED
        BY <2>1, <3>1, FrameIdle
    <2>3. CASE wpc # "sleep"
      <3>1. UNCHANGED wpc
        BY <1>4, <2>3 DEF QueueStop, WakeWorker
      <3> QED
        BY <2>1, <3>1, FrameMain
    <2> QED
      BY <2>2, <2>3
  <1>5. ASSUME NEW s \in Signals, DeliverSignal(s) \/ HandlerStep(s) PROVE JobInv'
    <2>1. UNCHANGED <<ring, head, len, wpc, wjob, job, mu, done, pc>>
      BY <1>5 DEF DeliverSignal, HandlerStep, RequestStop, HandlerTestsFd, HandlerClearsFd,
         HandlerClosesFd
    <2> QED
      BY <2>1, FrameMain
  <1>6. CASE Dequeue
    <2>1. CASE wpc' = "run"
      <3>1. /\ wpc = "dequeue" /\ len > 0 /\ wjob' = ring[head] /\ head' = Slot(1)
            /\ len' = len - 1
        BY <1>6, <2>1 DEF Dequeue, Oldest
      <3>2. UNCHANGED <<ring, job, mu, done, pc>>
        BY <1>6 DEF Dequeue
      <3> QED
        BY <2>1, <3>1, <3>2, TakeKeeps
    <2>2. CASE wpc' # "run"
      <3>1. wpc \notin WorkerHolds /\ wpc' \notin WorkerHolds
        BY <1>6, <2>2 DEF Dequeue, WorkerHolds
      <3>2. UNCHANGED <<ring, head, len, wjob, job, mu, done, pc>>
        BY <1>6, <2>2 DEF Dequeue
      <3> QED
        BY <3>1, <3>2, FrameIdle
    <2> QED
      BY <2>1, <2>2
  <1>7. CASE SpuriousWakeup
    <2>1. wpc \notin WorkerHolds /\ wpc' \notin WorkerHolds
      BY <1>7 DEF SpuriousWakeup, WorkerHolds
    <2>2. UNCHANGED <<ring, head, len, wjob, job, mu, done, pc>>
      BY <1>7 DEF SpuriousWakeup
    <2> QED
      BY <2>1, <2>2, FrameIdle
  <1>8. CASE RunJob
    <2>1. /\ wpc \in Running /\ wpc' \in Running
          /\ UNCHANGED <<ring, head, len, wjob, job, mu, done, pc>>
      BY <1>8 DEF RunJob, Running
    <2>2. \A c \in Clients : mu'[c] <=> wjob = c /\ wpc' \in {"finish", "unlock"}
      BY <1>8 DEF RunJob, JobInv, WorkerInv
    <2> QED
      BY <2>1, <2>2, RunKeeps
  <1>9. CASE LockJob
    <2>1. /\ wpc \in Running /\ wpc' \in Running
          /\ UNCHANGED <<ring, head, len, wjob, job, done, pc>>
      BY <1>9 DEF LockJob, Running
    <2>2. \A c \in Clients : mu'[c] <=> wjob = c /\ wpc' \in {"finish", "unlock"}
      BY <1>9 DEF LockJob, JobInv, WorkerInv, TypeOK
    <2> QED
      BY <2>1, <2>2, RunKeeps
  <1>10. CASE FinishJob
    BY <1>10, FinishKeeps
  <1>11. CASE UnlockJob
    BY <1>11, UnlockKeeps
  <1>12. ASSUME NEW c \in Clients, Connect(c) \/ SendHealth(c) \/ SendHead(c) \/ SendBody(c)
         PROVE  JobInv'
    <2>1. UNCHANGED <<ring, head, len, wpc, wjob, job, mu, done>>
      BY <1>12 DEF Connect, SendHealth, SendHead, SendBody
    <2>2. PICK to \in {"backlog", "head", "body", "finish"} :
              /\ pc' = [pc EXCEPT ![c] = to]
              /\ pc[c] \in {"none", "health", "head", "body"}
              /\ to = "backlog" <=> pc[c] = "none"
      BY <1>12 DEF Connect, SendHealth, SendHead, SendBody
    <2>3. ConnectionInv'
      BY <2>1, <2>2 DEF TypeOK, JobInv, ConnectionInv
    <2>4. pc[c] # "wait" /\ to # "wait"
      BY <2>2
    <2> QED
      BY <2>1, <2>2, <2>3, <2>4, FrameConnection
  <1>13. ASSUME NEW c \in Clients, PeerStops(c) PROVE JobInv'
    <2>1. UNCHANGED <<ring, head, len, wpc, wjob, job, mu, done, pc>>
      BY <1>13 DEF PeerStops
    <2> QED
      BY <2>1, FrameMain
  <1>14. ASSUME NEW c \in Clients, HandleRequest(c) PROVE JobInv'
    <2>1. UNCHANGED <<ring, head, len, wpc, wjob, mu, done>>
      BY <1>14 DEF HandleRequest
    <2>2. PICK to \in {"head", "health", "dispatch"} :
              pc[c] = "request" /\ pc' = [pc EXCEPT ![c] = to]
      BY <1>14 DEF HandleRequest
    <2>3. pc'[c] = to /\ job[c] = "none"
      BY <2>2 DEF TypeOK, JobInv, ConnectionInv
    <2>4. /\ job'[c] = IF to = "dispatch" THEN "live" ELSE "none"
          /\ \A d \in Clients \ {c} : job'[d] = job[d]
      BY <1>14, <2>3 DEF HandleRequest, TypeOK
    <2>5. ConnectionInv'
      BY <2>1, <2>2, <2>4 DEF TypeOK, JobInv, ConnectionInv
    <2>6. pc[c] # "wait" /\ to # "wait"
      BY <2>2
    <2> QED
      BY <2>1, <2>2, <2>5, <2>6, FrameConnection
  <1>15. ASSUME NEW c \in Clients, Dispatch(c) PROVE JobInv'
    <2>1. UNCHANGED <<job, mu, done>>
      BY <1>15 DEF Dispatch
    <2>2. CASE Goes(c, "dispatch", "wait") /\ MayEnqueue /\ Put(c)
      BY <2>1, <2>2, PutKeeps
    <2>3. CASE Goes(c, "dispatch", "head") /\ UNCHANGED <<queueVars, workVars>>
      <3>1. ConnectionInv'
        BY <2>1, <2>3 DEF TypeOK, JobInv, ConnectionInv
      <3> QED
        BY <2>1, <2>3, <3>1, FrameConnection
    <2> QED
      BY <1>15, <2>2, <2>3 DEF Dispatch
  <1>16. ASSUME NEW c \in Clients, WaitForJob(c) PROVE JobInv'
    <2>1. UNCHANGED <<ring, head, len, wpc, wjob, job, mu, done>>
      BY <1>16 DEF WaitForJob
    <2>2. CASE Goes(c, "wait", "wait")
      <3>1. pc' = pc
        BY <2>2 DEF TypeOK
      <3> QED
        BY <2>1, <3>1, FrameMain
    <2>3. CASE ~Goes(c, "wait", "wait")
      <3>1. PICK to \in {"finish", "head"} : Goes(c, "wait", to)
        BY <1>16, <2>3 DEF WaitForJob
      <3>2. ~mu[c] /\ done[c]
        BY <1>16, <2>3 DEF WaitForJob, JobSettled
      <3> QED
        BY <2>1, <3>1, <3>2, LeaveKeeps
    <2> QED
      BY <2>2, <2>3
  <1>17. ASSUME NEW c \in Clients, EndConnection(c) PROVE JobInv'
    <2>1. UNCHANGED <<ring, head, len, wpc, wjob, mu, done>>
      BY <1>17 DEF EndConnection
    <2>2. /\ pc[c] = "finish" /\ pc' = [pc EXCEPT ![c] = "closed"]
          /\ \A d \in Clients \ {c} : job'[d] = job[d]
      BY <1>17 DEF EndConnection, TypeOK
    <2>3. ConnectionInv'
      BY <2>1, <2>2 DEF TypeOK, JobInv, ConnectionInv
    <2> QED
      BY <2>1, <2>2, <2>3, FrameConnection
  <1>18. CASE UNCHANGED vars
    BY <1>18, FrameMain DEF vars
  <1> QED
    BY <1>1, <1>2, <1>3, <1>4, <1>5, <1>6, <1>7, <1>8, <1>9, <1>10, <1>11, <1>12, <1>13,
       <1>14, <1>15, <1>16, <1>17, <1>18 DEF Next, Main, WorkerStep, ClientStep

\* How far main() has come, for the worker, the model and the queue: kept too.
LEMMA MainStep ==
    ASSUME TypeOK, JobInv, MainInv, [Next]_vars
    PROVE  MainInv'
  <1> USE DEF MainInv, mainVars, listenVars, sigVars, queueVars, workVars, jobVars,
          connVars, MainGoes, WorkerGoes, Goes, HandlerGoes
  <1>1. CASE LoadModel \/ Listen \/ PublishListenFd \/ PollListener \/ PollFails \/ TestListenFd
             \/ CloseListener \/ ForgetListenFd \/ Return
    BY <1>1 DEF LoadModel, Listen, PublishListenFd, PollListener, PollFails, TestListenFd,
       CloseListener, ForgetListenFd, Return
  <1>2. CASE SpawnWorker
    BY <1>2 DEF SpawnWorker
  <1>3. CASE AcceptClient
    <2>1. CASE UNCHANGED pc
      BY <1>3, <2>1 DEF AcceptClient
    <2>2. CASE ~UNCHANGED pc
      BY <1>3, <2>2 DEF AcceptClient
    <2> QED
      BY <2>1, <2>2
  <1>4. CASE QueueStop
    BY <1>4 DEF QueueStop, WakeWorker
  <1>5. CASE JoinWorker \/ FreeModel \/ FreeQueue
    BY <1>5 DEF JoinWorker, WorkerJoined, FreeModel, FreeQueue
  <1>6. ASSUME NEW s \in Signals, DeliverSignal(s) \/ HandlerStep(s) PROVE MainInv'
    BY <1>6 DEF DeliverSignal, HandlerStep, RequestStop, HandlerTestsFd, HandlerClearsFd,
       HandlerClosesFd
  <1>7. CASE WorkerStep \/ SpuriousWakeup
    BY <1>7 DEF WorkerStep, SpuriousWakeup, Dequeue, RunJob, LockJob, FinishJob, UnlockJob,
       TypeOK
  <1>8. ASSUME NEW c \in Clients, Connect(c) PROVE MainInv'
    BY <1>8 DEF Connect, TypeOK
  <1>9. ASSUME NEW c \in Clients, PeerStops(c) PROVE MainInv'
    BY <1>9 DEF PeerStops
  <1>10. ASSUME NEW c \in Clients, HandleRequest(c) \/ SendHealth(c) \/ WaitForJob(c)
                                   \/ SendHead(c) \/ SendBody(c) \/ EndConnection(c)
         PROVE  MainInv'
    <2>1. pc[c] \notin {"none", "backlog"}
      BY <1>10 DEF HandleRequest, SendHealth, WaitForJob, SendHead, SendBody, EndConnection
    <2>2. UNCHANGED <<mainpc, model, ringFreed, len, stopping, wpc>>
      BY <1>10 DEF HandleRequest, SendHealth, WaitForJob, SendHead, SendBody, EndConnection
    <2> QED
      BY <2>1, <2>2
  <1>11. ASSUME NEW c \in Clients, Dispatch(c) PROVE MainInv'
    <2>1. wpc # "none" /\ UNCHANGED <<mainpc, model, ringFreed, stopping>>
      BY <1>11 DEF Dispatch, Put
    <2>2. CASE MayEnqueue /\ Put(c)
      <3>1. wpc # "end" /\ wpc' \notin {"none", "end"}
        BY <2>1, <2>2 DEF MayEnqueue, Put, WakeWorker
      <3> QED
        BY <2>1, <3>1
    <2>3. CASE UNCHANGED <<queueVars, workVars>>
      BY <2>1, <2>3
    <2> QED
      BY <1>11, <2>2, <2>3 DEF Dispatch
  <1>12. CASE UNCHANGED vars
    BY <1>12 DEF vars
  <1> QED
    BY <1>1, <1>2, <1>3, <1>4, <1>5, <1>6, <1>7, <1>8, <1>9, <1>10, <1>11, <1>12
       DEF Next, Main, ClientStep

-----------------------------------------------------------------------------
\* IInv is inductive: it holds when q3-server starts and every step keeps it.
THEOREM Inductive == Spec => []IInv
  <1>1. Init => IInv
    <2> SUFFICES ASSUME Init PROVE IInv
      OBVIOUS
    <2>1. TypeOK
      BY InitTyped
    <2>2. ConnectionInv
      BY DEF Init, ConnectionInv
    <2>3. RingInv /\ WorkerInv /\ WaitInv
      <3>1. 0 .. len - 1 = {}
        BY DEF Init
      <3>2. NoJob \notin Clients
        BY ServerAssumption
      <3> QED
        BY <3>1, <3>2 DEF Init, RingInv, WorkerInv, WaitInv, InRing, Running, WorkerHolds
    <2>4. MainInv
      BY DEF Init, MainInv
    <2> QED
      BY <2>1, <2>2, <2>3, <2>4 DEF IInv
  <1>2. IInv /\ [Next]_vars => IInv'
    <2> SUFFICES ASSUME IInv, [Next]_vars PROVE IInv'
      OBVIOUS
    <2>1. TypeOK /\ JobInv /\ MainInv
      BY DEF IInv, JobInv
    <2>2. TypeOK'
      BY <2>1, TypeStep
    <2>3. JobInv'
      BY <2>1, <2>2, JobStep
    <2>4. MainInv'
      BY <2>1, MainStep
    <2> QED
      BY <2>2, <2>3, <2>4 DEF IInv, JobInv
  <1> QED
    BY <1>1, <1>2, PTL DEF Spec, Safety

\* The worker never touches a job that its connection thread has freed, with
\* any number of connections and any --queue-depth.
THEOREM JobsOutliveTheWorker == Spec => []NoDanglingJob
  <1>1. IInv => NoDanglingJob
    <2> SUFFICES ASSUME IInv PROVE NoDanglingJob
      OBVIOUS
    <2> USE DEF IInv, ConnectionInv
    <2>1. ASSUME NEW i \in 1 .. len PROVE Pending[i] \in Clients /\ job[Pending[i]] = "live"
      <3>1. i - 1 \in 0 .. len - 1 /\ Pending[i] = ring[Slot(i - 1)]
        BY DEF Pending, TypeOK
      <3>2. ring[Slot(i - 1)] \in Clients /\ pc[ring[Slot(i - 1)]] = "wait"
        BY <3>1 DEF RingInv
      <3> QED
        BY <3>1, <3>2
    <2>2. wpc \in WorkerHolds => wjob \in Clients /\ job[wjob] = "live"
      BY DEF WorkerInv
    <2> QED
      BY <2>1, <2>2 DEF NoDanglingJob
  <1> QED
    BY <1>1, Inductive, PTL

\* No connection thread is left waiting for a worker that has returned.
THEOREM NobodyIsOrphaned == Spec => []NoOrphan
  <1>1. IInv => NoOrphan
    <2> SUFFICES ASSUME IInv, wpc = "end" PROVE len = 0 /\ \A c \in Clients : pc[c] = "wait" => done[c]
      BY DEF NoOrphan
    <2>1. len = 0
      BY DEF IInv, MainInv
    <2>2. \A c \in Clients : ~InRing(c)
      BY <2>1 DEF InRing
    <2> QED
      BY <2>1, <2>2 DEF IInv, WaitInv, Running
  <1> QED
    BY <1>1, Inductive, PTL

\* After free(g_queue) no thread can reach g_queue.
THEOREM FreedQueueIsUnreachable == Spec => []NoUseOfFreedQueue
  <1>1. IInv => NoUseOfFreedQueue
    BY DEF IInv, MainInv, NoUseOfFreedQueue, MayEnqueue
  <1> QED
    BY <1>1, Inductive, PTL

\* q3_model_free() finds the worker gone and the ring empty.
THEOREM ModelOutlivesItsJobs == Spec => []ModelOutlivesJobs
  <1>1. IInv => ModelOutlivesJobs
    BY DEF IInv, MainInv, ModelOutlivesJobs
  <1> QED
    BY <1>1, Inductive, PTL

\* Neither the model nor the queue is freed under a thread that uses it.
THEOREM NothingIsFreedEarly == Spec => []FreedLast
  BY FreedQueueIsUnreachable, ModelOutlivesItsJobs, PTL DEF FreedLast

-----------------------------------------------------------------------------
\* A thread that is to close its connection has sent all of the response,
\* unless its client is not reading or a stop was requested; and only a client
\* that has gone makes its thread give the answer up.
SentInv ==
    \A c \in Clients :
        /\ cancelled[c] => peer[c] = "gone"
        /\ pc[c] \in {"finish", "closed"} /\ peer[c] = "reading" /\ ~stop => sent[c] = "all"

\* Neither a client that has stopped reading nor a stop is ever taken back.
LEMMA SentStep == TypeOK /\ SentInv /\ [Next]_vars => SentInv'
  <1> SUFFICES ASSUME TypeOK, SentInv, [Next]_vars, NEW d \in Clients
               PROVE  /\ cancelled'[d] => peer'[d] = "gone"
                      /\ pc'[d] \in {"finish", "closed"} /\ peer'[d] = "reading" /\ ~stop'
                         => sent'[d] = "all"
    BY DEF SentInv
  <1> USE DEF TypeOK, SentInv, mainVars, listenVars, sigVars, queueVars, workVars, jobVars,
          connVars, MainGoes, WorkerGoes, Goes, HandlerGoes
  <1>1. CASE Main \/ PollFails
    <2>1. UNCHANGED <<cancelled, peer, sent, stop>>
      BY <1>1 DEF Main, LoadModel, Listen, PublishListenFd, SpawnWorker, PollListener,
         AcceptClient, TestListenFd, CloseListener, ForgetListenFd, QueueStop, JoinWorker,
         FreeModel, FreeQueue, Return, PollFails
    <2>2. pc'[d] \in {"finish", "closed"} => pc'[d] = pc[d]
      <3>1. CASE AcceptClient
        <4>1. CASE UNCHANGED pc
          BY <4>1
        <4>2. CASE \E c \in Clients : \E to \in {"request", "dropped"} :
                      pc[c] = "backlog" /\ pc' = [pc EXCEPT ![c] = to]
          BY <4>2
        <4> QED
          BY <3>1, <4>1, <4>2 DEF AcceptClient
      <3>2. CASE ~AcceptClient
        <4>1. UNCHANGED pc
          BY <1>1, <3>2 DEF Main, LoadModel, Listen, PublishListenFd, SpawnWorker,
             PollListener, TestListenFd, CloseListener, ForgetListenFd, QueueStop,
             JoinWorker, FreeModel, FreeQueue, Return, PollFails
        <4> QED
          BY <4>1
      <3> QED
        BY <3>1, <3>2
    <2> QED
      BY <2>1, <2>2
  <1>2. CASE WorkerStep \/ SpuriousWakeup
    <2>1. UNCHANGED <<cancelled, peer, sent, stop, pc>>
      BY <1>2 DEF WorkerStep, Dequeue, RunJob, LockJob, FinishJob, UnlockJob, SpuriousWakeup
    <2> QED
      BY <2>1
  <1>3. ASSUME NEW s \in Signals, DeliverSignal(s) \/ HandlerStep(s)
        PROVE  UNCHANGED <<cancelled, peer, sent, pc>> /\ (stop => stop')
    BY <1>3 DEF DeliverSignal, HandlerStep, RequestStop, HandlerTestsFd, HandlerClearsFd,
       HandlerClosesFd
  <1>4. ASSUME NEW c \in Clients, Connect(c) \/ ClientStep(c) \/ PeerStops(c), d # c
        PROVE  UNCHANGED <<cancelled[d], pc[d], sent[d], peer[d], stop>> \/ peer'[d] = "gone"
    BY <1>4 DEF Connect, PeerStops, ClientStep, HandleRequest, SendHealth, Dispatch,
       WaitForJob, SendHead, SendBody, EndConnection
  <1>5. CASE Connect(d) \/ HandleRequest(d) \/ SendHealth(d) \/ Dispatch(d)
    <2>1. UNCHANGED <<cancelled, peer, sent, stop>> /\ pc'[d] \notin {"finish", "closed"}
      BY <1>5 DEF Connect, HandleRequest, SendHealth, Dispatch
    <2> QED
      BY <2>1
  <1>6. CASE PeerStops(d)
    <2>1. /\ UNCHANGED <<cancelled, pc, sent, stop>>
          /\ peer[d] # "gone" /\ peer'[d] # "reading"
      BY <1>6 DEF PeerStops
    <2> QED
      BY <2>1
  <1>7. CASE WaitForJob(d)
    <2>1. CASE Goes(d, "wait", IF cancelled[d] THEN "finish" ELSE "head") /\ UNCHANGED cancelled
      <3>1. UNCHANGED <<peer, sent, stop>>
        BY <1>7 DEF WaitForJob
      <3>2. pc'[d] = IF cancelled[d] THEN "finish" ELSE "head"
        BY <2>1
      <3> QED
        BY <2>1, <3>1, <3>2
    <2>2. CASE peer[d] = "gone" /\ UNCHANGED peer
      BY <2>2
    <2> QED
      BY <1>7, <2>1, <2>2 DEF WaitForJob, Disconnected
  <1>8. CASE SendHead(d) \/ SendBody(d)
    <2>1. UNCHANGED <<cancelled, peer, stop>>
      BY <1>8 DEF SendHead, SendBody
    <2>2. pc'[d] \in {"finish", "closed"} /\ peer[d] = "reading" /\ ~stop => sent'[d] = "all"
      BY <1>8 DEF SendHead, SendBody, CanSend, MustSend
    <2> QED
      BY <2>1, <2>2
  <1>9. CASE EndConnection(d)
    BY <1>9 DEF EndConnection
  <1>10. CASE UNCHANGED vars
    BY <1>10 DEF vars
  <1> QED
    BY <1>1, <1>2, <1>3, <1>4, <1>5, <1>6, <1>7, <1>8, <1>9, <1>10 DEF Next, ClientStep

\* A client that keeps reading gets its whole response, however many clients
\* there are, unless the server was told to stop.
THEOREM ReadersAreAnswered == Spec => []AnsweredUnlessStopped
  <1>1. Init => SentInv
    <2>1. Init => \A c \in Clients : pc[c] = "none" /\ ~cancelled[c]
      BY DEF Init
    <2> QED
      BY <2>1 DEF SentInv
  <1>2. SentInv => AnsweredUnlessStopped
    BY DEF SentInv, AnsweredUnlessStopped
  <1> QED
    BY <1>1, <1>2, TypeCorrect, SentStep, PTL DEF Spec, Safety
-----------------------------------------------------------------------------
(* The ring, its mutex and the worker take no step that the bounded first-in *)
(* first-out service of JobService does not take.                           *)

\* What the service sees of the worker and of the results.
InService == IF wpc \in {"run", "lock", "finish"} THEN wjob ELSE NoJob
Finished  == {c \in Clients : done[c]}

\* The jobs in line are a sequence, from the slot at the head on.
InLineInv ==
    /\ Pending \in Seq(Clients \cup {NoJob})
    /\ Len(Pending) = len /\ DOMAIN Pending = 1 .. len
    /\ \A i \in 1 .. len : Pending[i] = ring[Slot(i - 1)]

LEMMA PendingIsSeq == TypeOK => InLineInv
  <1> SUFFICES ASSUME TypeOK PROVE InLineInv
    OBVIOUS
  <1>1. len \in Nat /\ len \in Int
    BY ServerAssumption DEF TypeOK
  <1>2. ASSUME NEW i \in 1 .. len PROVE ring[Slot(i - 1)] \in Clients \cup {NoJob}
    <2>1. i - 1 \in Nat
      BY <1>1
    <2>2. Slot(i - 1) \in 0 .. QueueDepth - 1
      BY <2>1, SlotInRing DEF Slot, TypeOK
    <2> QED
      BY <2>2 DEF TypeOK
  <1>3. Pending = [i \in 1 .. len |-> ring[Slot(i - 1)]]
    BY DEF Pending
  <1>4. Pending \in [1 .. len -> Clients \cup {NoJob}]
    BY <1>2, <1>3
  <1> QED
    BY <1>1, <1>3, <1>4 DEF InLineInv

\* A step that leaves ring, worker, results, stop and process alone.
LEMMA StutterOfService ==
    ASSUME UNCHANGED <<ring, head, len, done, stopping, Alive, InService>>
    PROVE  UNCHANGED Service!vars
  <1>1. Pending' = Pending
    BY DEF Pending, Slot
  <1> QED
    BY <1>1 DEF Service!vars, InService

\* enqueue() puts the job behind all of the others, and none is in line twice.
LEMMA EnqueueIsAccept ==
    ASSUME TypeOK, TypeOK', JobInv, NEW c \in Clients, Alive, Alive',
           Goes(c, "dispatch", "wait"), MayEnqueue, Put(c), UNCHANGED done
    PROVE  Service!Accept(c)
  <1>0. InLineInv /\ InLineInv'
    BY PendingIsSeq, PTL
  <1>1. len < QueueDepth /\ ~stopping /\ len' = len + 1 /\ head' = head /\ len \in Nat
    BY ServerAssumption DEF MayEnqueue, Put, TypeOK
  <1>2. \A i \in 0 .. len : Slot(i) \in 0 .. QueueDepth - 1
    <2>1. \A i \in 0 .. len : i \in Nat
      BY <1>1
    <2>2. head \in 0 .. QueueDepth - 1
      BY DEF TypeOK
    <2> QED
      BY <2>1, <2>2, SlotInRing DEF Slot
  <1>3. \A i \in 0 .. len - 1 : Slot(i) # Slot(len)
    <2>1. \A i \in 0 .. len - 1 : i \in 0 .. QueueDepth - 1 /\ i # len
      BY <1>1, ServerAssumption
    <2>2. len \in 0 .. QueueDepth - 1 /\ head \in 0 .. QueueDepth - 1
      BY <1>1, ServerAssumption DEF TypeOK
    <2> QED
      BY <2>1, <2>2, SlotsDiffer DEF Slot
  <1>4. \A i : Slot(i)' = Slot(i)
    BY <1>1 DEF Slot
  <1>5. /\ ring'[Slot(len)] = c
        /\ \A i \in 0 .. len - 1 : ring'[Slot(i)] = ring[Slot(i)]
    <2>1. ring' = [ring EXCEPT ![Slot(len)] = c]
      BY DEF Put
    <2>2. len \in 0 .. len /\ \A i \in 0 .. len - 1 : i \in 0 .. len
      BY <1>1
    <2> HIDE DEF Slot
    <2> QED
      BY <1>2, <1>3, <2>1, <2>2 DEF TypeOK
  <1>6. Pending' = Append(Pending, c)
    <2>1. \A i \in 1 .. len : i - 1 \in 0 .. len - 1 /\ i # len + 1
      BY <1>1
    <2>2. Pending' = [i \in 1 .. len + 1 |-> ring'[Slot(i - 1)]]
      BY <1>1, <1>4 DEF Pending
    <2>3. \A i \in 1 .. len : Pending'[i] = Pending[i]
      <3> TAKE i \in 1 .. len
      <3>1. i \in 1 .. len + 1
        BY <1>1
      <3>2. Pending'[i] = ring'[Slot(i - 1)]
        BY <2>2, <3>1
      <3> QED
        BY <1>0, <1>5, <2>1, <3>2 DEF InLineInv
    <2>4. Pending'[len + 1] = c
      <3>1. len + 1 \in 1 .. len + 1 /\ (len + 1) - 1 = len
        BY <1>1
      <3> QED
        BY <1>5, <2>2, <3>1
    <2>5. /\ Pending \in Seq(Clients \cup {NoJob}) /\ Len(Pending) = len
          /\ Pending' \in Seq(Clients \cup {NoJob}) /\ Len(Pending') = len + 1
      BY <1>0, <1>1 DEF InLineInv
    <2> HIDE DEF Slot, Pending
    <2> QED
      BY <1>1, <2>3, <2>4, <2>5
  <1>7. c \notin Service!InLine \cup {InService} \cup Finished
    <2>1. pc[c] = "dispatch"
      BY DEF Goes
    <2>2. \A i \in 1 .. len : Pending[i] # c
      <3> TAKE i \in 1 .. len
      <3>1. i - 1 \in 0 .. len - 1 /\ Pending[i] = ring[Slot(i - 1)]
        BY <1>0, <1>1 DEF InLineInv
      <3> QED
        BY <2>1, <3>1 DEF JobInv, RingInv
    <2>3. c \notin Service!InLine
      BY <1>0, <2>2 DEF InLineInv, Service!InLine
    <2>4. InService # c
      BY <2>1, ServerAssumption DEF InService, JobInv, WorkerInv, WorkerHolds
    <2>5. ~done[c]
      BY <2>1 DEF JobInv, ConnectionInv
    <2> QED
      BY <2>3, <2>4, <2>5 DEF Finished
  <1>8. InService' = InService
    BY DEF InService, Put, WakeWorker
  <1> QED
    BY <1>0, <1>1, <1>6, <1>7, <1>8 DEF InLineInv, Service!Accept, InService, Finished, Put

\* dequeue() takes the job that has waited longest.
LEMMA DequeueIsStart ==
    ASSUME TypeOK, TypeOK', JobInv, Alive, Alive', wpc = "dequeue", wpc' = "run", len > 0,
           wjob' = Oldest, head' = Slot(1), len' = len - 1, UNCHANGED <<ring, done, stopping>>
    PROVE  Service!Start
  <1>0. InLineInv /\ InLineInv'
    BY PendingIsSeq, PTL
  <1>1. len \in Nat \ {0} /\ head \in 0 .. QueueDepth - 1 /\ len <= QueueDepth
    BY ServerAssumption DEF TypeOK
  <1>2. Slot(0) = head
    <2>1. \A h, m \in Nat : h < m => (h + 0) % m = h
      OBVIOUS
    <2>2. head \in Nat /\ QueueDepth \in Nat /\ head < QueueDepth
      BY <1>1, ServerAssumption
    <2> QED
      BY ONLY <2>1, <2>2 DEF Slot
  <1>3. \A i \in 0 .. len - 2 : Slot(i)' = Slot(i + 1)
    <2> TAKE i \in 0 .. len - 2
    <2>1. i \in 0 .. QueueDepth - 1
      BY <1>1, ServerAssumption
    <2> QED
      BY <1>1, <2>1, SlotAfterHead DEF Slot
  <1>4. /\ Pending \in Seq(Clients \cup {NoJob}) /\ Len(Pending) = len
        /\ Pending' \in Seq(Clients \cup {NoJob}) /\ Len(Pending') = len - 1
    BY <1>0, <1>1 DEF InLineInv
  <1>5. Pending[1] = Oldest
    BY <1>0, <1>1, <1>2 DEF InLineInv, Oldest
  <1>6. \A i \in 1 .. len - 1 : Pending'[i] = Pending[i + 1]
    <2> TAKE i \in 1 .. len - 1
    <2>1. Pending' = [k \in 1 .. len - 1 |-> ring[Slot(k - 1)']]
      BY DEF Pending, Slot
    <2>2. i - 1 \in 0 .. len - 2 /\ i + 1 \in 1 .. len /\ (i + 1) - 1 = (i - 1) + 1
      BY <1>1
    <2>3. Pending'[i] = ring[Slot((i - 1) + 1)]
      BY <1>3, <2>1, <2>2
    <2>4. Pending[i + 1] = ring[Slot((i + 1) - 1)]
      BY <1>0, <2>2 DEF InLineInv
    <2> QED
      BY <2>2, <2>3, <2>4
  <1> HIDE DEF Pending
  <1>7. Pending' = Tail(Pending) /\ Head(Pending) = Oldest /\ Pending # <<>>
    BY <1>1, <1>4, <1>5, <1>6
  <1>8. InService = NoJob /\ InService' = Oldest
    BY DEF InService
  <1> QED
    BY <1>7, <1>8 DEF Service!Start, InService

\* job_run() has ended: what runs is run.
LEMMA FinishIsFinish ==
    ASSUME TypeOK, JobInv, Alive, Alive', FinishJob
    PROVE  Service!Finish
  <1>1. wpc = "finish" /\ wpc' = "unlock" /\ wjob \in Clients
    BY DEF FinishJob, WorkerGoes, JobInv, WorkerInv, WorkerHolds
  <1>2. done' = [done EXCEPT ![wjob] = TRUE] /\ UNCHANGED <<ring, head, len, stopping>>
    BY DEF FinishJob, queueVars
  <1>3. Pending' = Pending
    BY <1>2 DEF Pending, Slot
  <1>4. InService = wjob /\ InService' = NoJob /\ wjob # NoJob
    BY <1>1, ServerAssumption DEF InService
  <1>5. Finished' = Finished \cup {wjob}
    BY <1>1, <1>2 DEF Finished, TypeOK
  <1> QED
    BY <1>2, <1>3, <1>4, <1>5 DEF Service!Finish, InService, Finished

\* Every step of q3-server is a step of the service or invisible to it.
LEMMA StepOfService ==
    ASSUME TypeOK, TypeOK', JobInv, MainInv, [Next]_vars
    PROVE  [Service!Next]_(Service!vars)
  <1> USE DEF mainVars, listenVars, sigVars, queueVars, workVars, jobVars, connVars,
          MainGoes, WorkerGoes, Goes, HandlerGoes
  <1>1. CASE \/ LoadModel \/ Listen \/ SpawnWorker \/ Return
             \/ \E s \in Signals : DeliverSignal(s)
    <2>1. UNCHANGED <<ring, head, len, done, stopping, InService>> /\ Alive
      BY <1>1 DEF LoadModel, Listen, SpawnWorker, Return, DeliverSignal, Alive, InService,
         MainInv
    <2>2. CASE Alive'
      BY <2>1, <2>2, StutterOfService
    <2>3. CASE ~Alive'
      <3>1. Alive' = FALSE /\ Pending' = Pending
        BY <2>1, <2>3 DEF Alive, Pending, Slot
      <3>2. Service!Halt
        BY <2>1, <3>1 DEF Service!Halt, InService
      <3> QED
        BY <3>2 DEF Service!Next
    <2> QED
      BY <2>2, <2>3
  <1>2. CASE \/ PublishListenFd \/ PollListener \/ PollFails \/ TestListenFd
             \/ CloseListener \/ ForgetListenFd \/ JoinWorker \/ FreeModel \/ FreeQueue
             \/ AcceptClient
    BY <1>2, StutterOfService DEF PublishListenFd, PollListener, PollFails, TestListenFd,
       CloseListener, ForgetListenFd, JoinWorker, FreeModel, FreeQueue, AcceptClient,
       Alive, InService
  <1>3. CASE QueueStop
    <2>1. UNCHANGED <<ring, head, len, done, InService>> /\ Alive /\ Alive' /\ stopping'
      BY <1>3 DEF QueueStop, WakeWorker, Alive, InService
    <2>2. CASE stopping
      <3>1. stopping' = stopping
        BY <1>3, <2>2 DEF QueueStop, TypeOK
      <3> QED
        BY <2>1, <3>1, StutterOfService
    <2>3. CASE ~stopping
      BY <2>1, <2>3 DEF Service!Next, Service!Close, Pending, Slot, InService
    <2> QED
      BY <2>2, <2>3
  <1>4. ASSUME NEW s \in Signals, HandlerStep(s) PROVE UNCHANGED Service!vars
    BY <1>4, StutterOfService DEF HandlerStep, RequestStop, HandlerTestsFd, HandlerClearsFd,
       HandlerClosesFd, Alive, InService
  <1>5. CASE Dequeue
    <2>1. Alive /\ Alive'
      BY <1>5 DEF Dequeue, Alive
    <2>2. CASE wpc' = "run"
      BY <1>5, <2>1, <2>2, DequeueIsStart DEF Dequeue, Service!Next
    <2>3. CASE wpc' # "run"
      BY <1>5, <2>1, <2>3, StutterOfService DEF Dequeue, InService
    <2> QED
      BY <2>2, <2>3
  <1>6. CASE RunJob \/ LockJob \/ UnlockJob \/ SpuriousWakeup
    BY <1>6, StutterOfService DEF RunJob, LockJob, UnlockJob, SpuriousWakeup, Alive, InService
  <1>7. CASE FinishJob
    <2>1. Alive /\ Alive'
      BY <1>7 DEF FinishJob, Alive
    <2> QED
      BY <1>7, <2>1, FinishIsFinish DEF Service!Next
  <1>8. ASSUME NEW c \in Clients, \/ Connect(c) \/ PeerStops(c) \/ HandleRequest(c)
               \/ SendHealth(c) \/ WaitForJob(c) \/ SendHead(c) \/ SendBody(c)
               \/ EndConnection(c)
        PROVE  UNCHANGED Service!vars
    BY <1>8, StutterOfService DEF Connect, PeerStops, HandleRequest, SendHealth, WaitForJob,
       SendHead, SendBody, EndConnection, Alive, InService
  <1>9. ASSUME NEW c \in Clients, Dispatch(c) PROVE [Service!Next]_(Service!vars)
    <2>1. Alive /\ Alive' /\ UNCHANGED done
      BY <1>9 DEF Dispatch, Alive
    <2>2. CASE Goes(c, "dispatch", "wait") /\ MayEnqueue /\ Put(c)
      BY <2>1, <2>2, EnqueueIsAccept DEF Service!Next
    <2>3. CASE UNCHANGED <<queueVars, workVars>>
      BY <2>1, <2>3, StutterOfService DEF InService
    <2> QED
      BY <1>9, <2>2, <2>3 DEF Dispatch
  <1>10. CASE UNCHANGED vars
    BY <1>10, StutterOfService DEF vars, Alive, InService
  <1> QED
    BY <1>1, <1>2, <1>3, <1>4, <1>5, <1>6, <1>7, <1>8, <1>9, <1>10
       DEF Next, Main, WorkerStep, ClientStep

\* The inference queue of q3-server implements the safety part of JobService,
\* for any number of connections and any --queue-depth: an accepted job is run
\* once, one at a time, in the order of acceptance, and a stop cuts nothing
\* that was accepted.
THEOREM QueueIsService == Spec => Service!Safety
  <1>1. Init => Service!Init
    <2> SUFFICES ASSUME Init PROVE Service!Init
      OBVIOUS
    <2>1. Pending = <<>>
      BY DEF Init, Pending
    <2>2. \A c \in Clients : ~done[c]
      BY DEF Init
    <2>3. InService = NoJob /\ Finished = {} /\ Alive /\ ~stopping
      BY <2>2 DEF Init, InService, Finished, Alive
    <2> QED
      BY <2>1, <2>3 DEF Service!Init, InService, Finished
  <1>2. IInv /\ IInv' /\ [Next]_vars => [Service!Next]_(Service!vars)
    BY StepOfService DEF IInv, JobInv
  <1> QED
    BY <1>1, <1>2, Inductive, PTL DEF Spec, Safety, Service!Safety

=============================================================================
