------------------------------ MODULE Q3Server ------------------------------
(***************************************************************************)
(* q3-server (src/server/q3_server.c): the main thread, the signal         *)
(* handler, one detached thread per connection and the single GPU worker,  *)
(* around the bounded ring of jobs.                                        *)
(*                                                                         *)
(* A connection stands for its thread and for the one job the thread may   *)
(* submit.  What a request contains is left to HttpRead and SystemOneApi:  *)
(* here it ends in a response of the connection thread alone ("static"),   *)
(* in the health response, or in a job.                                    *)
(*                                                                         *)
(* A section under a mutex that does not block is one step.  Only the      *)
(* worker's section under j->mu is split, and the mutex explicit there,    *)
(* because the connection thread frees the mutex with the job.             *)
(***************************************************************************)
EXTENDS Integers, Sequences

CONSTANTS Clients,      \* the connections that may be opened (bounds a run)
          Fickle,       \* the clients that may stop reading or leave
          Requests,     \* what clients may ask for: see RequestKinds
          Signals,      \* the SIGINT / SIGTERM that may be delivered, each once
          QueueDepth,   \* g_queue_cap
          NoJob,        \* no job: the worker's NULL, an unused slot
          PollMayFail   \* may poll() on the listening socket fail for good?

RequestKinds == {"static", "health", "job"}

ASSUME ServerAssumption ==
    /\ Fickle \subseteq Clients
    /\ Requests \subseteq RequestKinds
    /\ QueueDepth \in Nat \ {0}     \* main() makes 0 or less 1
    /\ NoJob \notin Clients
    /\ PollMayFail \in BOOLEAN

VARIABLES
    mainpc,       \* where main() is
    model,        \* g_model: "absent", "loaded" or "freed"
    ready,        \* g_model_ready
    listening,    \* the listening socket is open
    listenFd,     \* g_listen_fd >= 0
    stop,         \* g_stop_requested
    handler,      \* where the handler of each signal is
    ring,         \* g_queue
    ringFreed,    \* free(g_queue) has been called
    head,         \* g_queue_head
    len,          \* g_queue_len
    stopping,     \* g_queue_stopping
    wpc,          \* where worker_main() is
    wjob,         \* the worker's job
    pc,           \* where each connection is
    peer,         \* what each client is doing with its end of the connection
    job,          \* the memory of each connection's job
    mu,           \* j->mu is held by the worker
    done,         \* j->done
    cancelled,    \* j->cancelled
    reply,        \* the response each connection has settled on
    sent          \* how much of it send_all() has written

mainVars   == <<mainpc, model, ready>>
listenVars == <<listening, listenFd>>
sigVars    == <<stop, handler>>
queueVars  == <<ring, ringFreed, head, len, stopping>>
workVars   == <<wpc, wjob>>
jobVars    == <<job, mu, done, cancelled>>
connVars   == <<pc, peer, reply, sent>>
vars == <<mainVars, listenVars, sigVars, queueVars, workVars, jobVars, connVars>>

Alive == mainpc \notin {"returned", "killed"}

MainPcs    == {"load", "listen", "publish", "spawn", "poll", "accept", "close",
               "closing", "forget", "stop", "join", "free", "unready",
               "returned", "killed"}
HandlerPcs == {"none", "set", "test", "clear", "close", "end"}
WorkerPcs  == {"none", "dequeue", "sleep", "run", "lock", "finish", "unlock", "end"}
ClientPcs  == {"none", "backlog", "dropped", "request", "health", "dispatch",
               "wait", "head", "body", "finish", "closed"}
\* "full" and "refused" are the same 429 on the wire: the model remembers
\* whether the queue was full or stopping when enqueue() failed.
Replies    == {"none", "static", "ready", "notready", "full", "refused", "result"}

TypeOK ==
    /\ mainpc \in MainPcs
    /\ model \in {"absent", "loaded", "freed"}
    /\ ready \in BOOLEAN
    /\ listening \in BOOLEAN /\ listenFd \in BOOLEAN
    /\ stop \in BOOLEAN
    /\ handler \in [Signals -> HandlerPcs]
    /\ ring \in [0 .. QueueDepth - 1 -> Clients \cup {NoJob}]
    /\ ringFreed \in BOOLEAN
    /\ head \in 0 .. QueueDepth - 1
    /\ len \in 0 .. QueueDepth
    /\ stopping \in BOOLEAN
    /\ wpc \in WorkerPcs
    /\ wjob \in Clients \cup {NoJob}
    /\ pc \in [Clients -> ClientPcs]
    /\ peer \in [Clients -> {"reading", "stalled", "gone"}]
    /\ job \in [Clients -> {"none", "live", "freed"}]
    /\ mu \in [Clients -> BOOLEAN]
    /\ done \in [Clients -> BOOLEAN]
    /\ cancelled \in [Clients -> BOOLEAN]
    /\ reply \in [Clients -> Replies]
    /\ sent \in [Clients -> {"nothing", "head", "all", "lost"}]

Init ==
    /\ mainpc = "load" /\ model = "absent" /\ ready = FALSE
    /\ listening = FALSE /\ listenFd = FALSE
    /\ stop = FALSE /\ handler = [s \in Signals |-> "none"]
    /\ ring = [i \in 0 .. QueueDepth - 1 |-> NoJob] /\ ringFreed = FALSE
    /\ head = 0 /\ len = 0 /\ stopping = FALSE
    /\ wpc = "none" /\ wjob = NoJob
    /\ pc = [c \in Clients |-> "none"] /\ peer = [c \in Clients |-> "reading"]
    /\ job = [c \in Clients |-> "none"] /\ mu = [c \in Clients |-> FALSE]
    /\ done = [c \in Clients |-> FALSE] /\ cancelled = [c \in Clients |-> FALSE]
    /\ reply = [c \in Clients |-> "none"] /\ sent = [c \in Clients |-> "nothing"]

MainGoes(from, to)   == mainpc = from /\ mainpc' = to
WorkerGoes(from, to) == Alive /\ wpc = from /\ wpc' = to
Goes(c, from, to)    == Alive /\ pc[c] = from /\ pc' = [pc EXCEPT ![c] = to]

-----------------------------------------------------------------------------
(* main(): load, listen, start the worker, accept, shut down.              *)

LoadModel ==
    /\ \/ MainGoes("load", "listen") /\ model' = "loaded" /\ ready' = TRUE
       \/ MainGoes("load", "returned") /\ UNCHANGED <<model, ready>>
    /\ UNCHANGED <<listenVars, sigVars, queueVars, workVars, jobVars, connVars>>

Listen ==
    /\ \/ MainGoes("listen", "publish") /\ listening' = TRUE /\ UNCHANGED model
       \/ MainGoes("listen", "returned") /\ model' = "freed" /\ UNCHANGED listening
    /\ UNCHANGED <<ready, listenFd, sigVars, queueVars, workVars, jobVars, connVars>>

\* g_listen_fd = listen_fd: from here on the handler can close the socket.
PublishListenFd ==
    /\ MainGoes("publish", "spawn")
    /\ listenFd' = TRUE
    /\ UNCHANGED <<model, ready, listening, sigVars, queueVars, workVars, jobVars,
                   connVars>>

SpawnWorker ==
    /\ \/ MainGoes("spawn", "poll") /\ wpc' = "dequeue" /\ UNCHANGED <<model, listening>>
       \/ /\ MainGoes("spawn", "returned")
          /\ model' = "freed" /\ listening' = FALSE
          /\ UNCHANGED wpc
    /\ UNCHANGED <<ready, listenFd, sigVars, queueVars, wjob, jobVars, connVars>>

\* The loop condition and the test after poll(): a connection is waiting (or
\* the socket is gone) and no stop was seen.
PollListener ==
    /\ \/ MainGoes("poll", "close") /\ stop
       \/ /\ MainGoes("poll", "accept") /\ ~stop
          /\ ~listening \/ \E c \in Clients : pc[c] = "backlog"
    /\ UNCHANGED <<model, ready, listenVars, sigVars, queueVars, workVars, jobVars,
                   connVars>>

PollFails ==
    /\ PollMayFail
    /\ MainGoes("poll", "close")
    /\ UNCHANGED <<model, ready, listenVars, sigVars, queueVars, workVars, jobVars,
                   connVars>>

\* accept() fails with EBADF once the handler has closed the socket.  A
\* connection whose thread cannot be created is closed without a word.
AcceptClient ==
    /\ \/ /\ listening
          /\ MainGoes("accept", "poll")
          /\ \E c \in Clients : \E to \in {"request", "dropped"} :
                pc[c] = "backlog" /\ pc' = [pc EXCEPT ![c] = to]
       \/ MainGoes("accept", "close") /\ ~listening /\ UNCHANGED pc
    /\ UNCHANGED <<model, ready, listenVars, sigVars, queueVars, workVars, jobVars,
                   peer, reply, sent>>

\* if (g_listen_fd >= 0) { close(g_listen_fd); g_listen_fd = -1; }
TestListenFd ==
    /\ MainGoes("close", IF listenFd THEN "closing" ELSE "stop")
    /\ UNCHANGED <<model, ready, listenVars, sigVars, queueVars, workVars, jobVars,
                   connVars>>

CloseListener ==
    /\ MainGoes("closing", "forget")
    /\ listening' = (listening /\ ~listenFd)
    /\ UNCHANGED <<model, ready, listenFd, sigVars, queueVars, workVars, jobVars,
                   connVars>>

ForgetListenFd ==
    /\ MainGoes("forget", "stop")
    /\ listenFd' = FALSE
    /\ UNCHANGED <<model, ready, listening, sigVars, queueVars, workVars, jobVars,
                   connVars>>

\* pthread_cond_signal() / _broadcast() on g_queue_cv.  MUTANT: not signalled.
WakeNobody == wpc
WakeWorker == IF wpc = "sleep" THEN "dequeue" ELSE wpc

\* queue_stop(): the broadcast wakes the worker if it sleeps.
QueueStop ==
    /\ MainGoes("stop", "join")
    /\ stopping' = TRUE
    /\ wpc' = WakeWorker
    /\ UNCHANGED <<model, ready, listenVars, sigVars, ring, ringFreed, head, len,
                   wjob, jobVars, connVars>>

\* pthread_join().  MUTANT: wait until no job is running instead.
WorkerIdle == wjob = NoJob
WorkerJoined == wpc = "end"

JoinWorker ==
    /\ MainGoes("join", "free")
    /\ WorkerJoined
    /\ UNCHANGED <<model, ready, listenVars, sigVars, queueVars, workVars, jobVars,
                   connVars>>

FreeModel ==
    /\ MainGoes("free", "unready")
    /\ model' = "freed"
    /\ UNCHANGED <<ready, listenVars, sigVars, queueVars, workVars, jobVars, connVars>>

\* g_model_ready = false; free(g_queue); the return of main() comes later, and
\* the detached connection threads still run in between.
FreeQueue ==
    /\ mainpc = "unready" /\ ~ringFreed
    /\ ready' = FALSE /\ ringFreed' = TRUE
    /\ UNCHANGED <<mainpc, model, listenVars, sigVars, ring, head, len, stopping,
                   workVars, jobVars, connVars>>

Return ==
    /\ MainGoes("unready", "returned") /\ ringFreed
    /\ UNCHANGED <<model, ready, listenVars, sigVars, queueVars, workVars, jobVars,
                   connVars>>

Main == \/ LoadModel \/ Listen \/ PublishListenFd \/ SpawnWorker \/ PollListener
        \/ AcceptClient \/ TestListenFd \/ CloseListener \/ ForgetListenFd
        \/ QueueStop \/ JoinWorker \/ FreeModel \/ FreeQueue \/ Return

-----------------------------------------------------------------------------
(* stop_signal_handler(): runs on whichever thread the kernel picks, so its *)
(* steps interleave with those of every thread.                             *)

HandlerGoes(s, from, to) ==
    /\ Alive
    /\ handler[s] = from
    /\ handler' = [handler EXCEPT ![s] = to]

\* The signals are caught from before the model is loaded.  A second one ends
\* the process with _exit(130).
DeliverSignal(s) ==
    /\ HandlerGoes(s, "none", IF stop THEN "end" ELSE "set")
    /\ mainpc' = IF stop THEN "killed" ELSE mainpc
    /\ UNCHANGED <<model, ready, listenVars, stop, queueVars, workVars, jobVars,
                   connVars>>

RequestStop(s) ==
    /\ HandlerGoes(s, "set", "test")
    /\ stop' = TRUE
    /\ UNCHANGED <<mainVars, listenVars, queueVars, workVars, jobVars, connVars>>

HandlerTestsFd(s) ==
    /\ HandlerGoes(s, "test", IF listenFd THEN "clear" ELSE "end")
    /\ UNCHANGED <<mainVars, listenVars, stop, queueVars, workVars, jobVars, connVars>>

HandlerClearsFd(s) ==
    /\ HandlerGoes(s, "clear", "close")
    /\ listenFd' = FALSE
    /\ UNCHANGED <<mainVars, listening, stop, queueVars, workVars, jobVars, connVars>>

HandlerClosesFd(s) ==
    /\ HandlerGoes(s, "close", "end")
    /\ listening' = FALSE
    /\ UNCHANGED <<mainVars, listenFd, stop, queueVars, workVars, jobVars, connVars>>

HandlerStep(s) == \/ RequestStop(s) \/ HandlerTestsFd(s)
                  \/ HandlerClearsFd(s) \/ HandlerClosesFd(s)

-----------------------------------------------------------------------------
(* The bounded queue.                                                      *)

Slot(i) == (head + i) % QueueDepth

\* The jobs in the ring, oldest first.
Pending == [i \in 1 .. len |-> ring[Slot(i - 1)]]

\* MUTANT: enqueue() does not look at g_queue_stopping.
MayEnqueueIfRoom == len < QueueDepth
MayEnqueue == ~stopping /\ len < QueueDepth

\* enqueue(): also signals g_queue_cv.
Put(c) ==
    /\ ring' = [ring EXCEPT ![Slot(len)] = c]
    /\ len' = len + 1
    /\ wpc' = WakeWorker
    /\ UNCHANGED <<ringFreed, head, stopping, wjob>>

-----------------------------------------------------------------------------
(* worker_main(), dequeue() and job_run().                                 *)

Oldest == ring[head]

\* dequeue() gives up only when the ring is empty: what was accepted before
\* the stop is still run.
Dequeue ==
    /\ \/ /\ WorkerGoes("dequeue", "run") /\ len > 0
          /\ wjob' = Oldest
          /\ head' = Slot(1) /\ len' = len - 1
       \/ WorkerGoes("dequeue", "end") /\ len = 0 /\ stopping /\ UNCHANGED <<wjob, head, len>>
       \/ WorkerGoes("dequeue", "sleep") /\ len = 0 /\ ~stopping /\ UNCHANGED <<wjob, head, len>>
    /\ UNCHANGED <<mainVars, listenVars, sigVars, ring, ringFreed, stopping, jobVars,
                   connVars>>

\* pthread_cond_wait() may return without a signal.
SpuriousWakeup ==
    /\ WorkerGoes("sleep", "dequeue")
    /\ UNCHANGED <<mainVars, listenVars, sigVars, queueVars, wjob, jobVars, connVars>>

\* job_run(): whether the request parses and the model runs or not, the job has
\* a status, and a body or an error message, when job_run() returns.
RunJob ==
    /\ WorkerGoes("run", "lock")
    /\ reply' = [reply EXCEPT ![wjob] = "result"]
    /\ UNCHANGED <<mainVars, listenVars, sigVars, queueVars, wjob, jobVars, pc, peer,
                   sent>>

LockJob ==
    /\ WorkerGoes("lock", "finish")
    /\ ~mu[wjob]
    /\ mu' = [mu EXCEPT ![wjob] = TRUE]
    /\ UNCHANGED <<mainVars, listenVars, sigVars, queueVars, wjob, job, done,
                   cancelled, connVars>>

FinishJob ==
    /\ WorkerGoes("finish", "unlock")
    /\ done' = [done EXCEPT ![wjob] = TRUE]
    /\ UNCHANGED <<mainVars, listenVars, sigVars, queueVars, wjob, job, mu, cancelled,
                   connVars>>

UnlockJob ==
    /\ WorkerGoes("unlock", "dequeue")
    /\ mu' = [mu EXCEPT ![wjob] = FALSE]
    /\ wjob' = NoJob
    /\ UNCHANGED <<mainVars, listenVars, sigVars, queueVars, job, done, cancelled,
                   connVars>>

WorkerStep == \/ Dequeue \/ RunJob \/ LockJob \/ FinishJob \/ UnlockJob

-----------------------------------------------------------------------------
(* The clients, outside the program.                                       *)

Connect(c) ==
    /\ Goes(c, "none", "backlog")
    /\ listening
    /\ UNCHANGED <<mainVars, listenVars, sigVars, queueVars, workVars, jobVars, peer,
                   reply, sent>>

\* A client stops reading, or shuts its end down, at any moment.
PeerStops(c) ==
    /\ Alive /\ c \in Fickle
    /\ pc[c] \notin {"none", "closed", "dropped"}
    /\ peer[c] # "gone"
    /\ \E p \in {"stalled", "gone"} \ {peer[c]} : peer' = [peer EXCEPT ![c] = p]
    /\ UNCHANGED <<mainVars, listenVars, sigVars, queueVars, workVars, jobVars, pc,
                   reply, sent>>

-----------------------------------------------------------------------------
(* client_main(), handle_request(), dispatch_job().                        *)

\* read_http_request() and the routing: HttpRead and SystemOneApi say which end
\* in which response.
HandleRequest(c) ==
    /\ \/ /\ "static" \in Requests /\ Goes(c, "request", "head")
          /\ reply' = [reply EXCEPT ![c] = "static"]
       \/ "health" \in Requests /\ Goes(c, "request", "health") /\ UNCHANGED reply
       \/ "job" \in Requests /\ Goes(c, "request", "dispatch") /\ UNCHANGED reply
    /\ job' = [job EXCEPT ![c] = IF pc'[c] = "dispatch" THEN "live" ELSE @]
    /\ UNCHANGED <<mainVars, listenVars, sigVars, queueVars, workVars, mu, done,
                   cancelled, peer, sent>>

\* send_health() reads g_model_ready into the body before anything is sent.
SendHealth(c) ==
    /\ Goes(c, "health", "head")
    /\ reply' = [reply EXCEPT ![c] = IF ready THEN "ready" ELSE "notready"]
    /\ UNCHANGED <<mainVars, listenVars, sigVars, queueVars, workVars, jobVars, peer,
                   sent>>

Dispatch(c) ==
    /\ \/ Goes(c, "dispatch", "wait") /\ MayEnqueue /\ Put(c) /\ UNCHANGED reply
       \/ /\ Goes(c, "dispatch", "head") /\ ~MayEnqueue
          /\ reply' = [reply EXCEPT ![c] = IF len < QueueDepth THEN "refused" ELSE "full"]
          /\ UNCHANGED <<queueVars, workVars>>
    /\ UNCHANGED <<mainVars, listenVars, sigVars, jobVars, peer, sent>>

\* The condition of the wait loop.  MUTANT: leave it when the client has gone.
DoneOrCancelled(c) == done[c] \/ cancelled[c]
JobSettled(c) == done[c]

\* client_socket_disconnected().  MUTANT: a poll() that times out counts too.
DisconnectedOrQuiet(c) == TRUE
Disconnected(c) == peer[c] = "gone"

\* wait_for_job_or_disconnect(), each time j->mu is taken (at first, and after
\* at most 100 ms or a broadcast): leave when the job is done; else note that
\* the client has gone, and wait on.
WaitForJob(c) ==
    /\ ~mu[c]
    /\ \/ /\ JobSettled(c) /\ Goes(c, "wait", IF cancelled[c] THEN "finish" ELSE "head")
          /\ UNCHANGED cancelled
       \/ /\ ~done[c] /\ Disconnected(c) /\ Goes(c, "wait", "wait")
          /\ cancelled' = [cancelled EXCEPT ![c] = TRUE]
    /\ UNCHANGED <<mainVars, listenVars, sigVars, queueVars, workVars, job, mu, done,
                   peer, reply, sent>>

\* send_all(): refuses to send once a stop was requested; a client that does
\* not read may stall it until its 2 s deadline, or make it fail.
CanSend(c) == ~stop
MustSend(c) == ~stop /\ peer[c] = "reading"

SendHead(c) ==
    /\ \/ CanSend(c) /\ Goes(c, "head", "body") /\ sent' = [sent EXCEPT ![c] = "head"]
       \/ /\ ~MustSend(c) /\ Goes(c, "head", "finish")
          /\ sent' = [sent EXCEPT ![c] = "lost"]
    /\ UNCHANGED <<mainVars, listenVars, sigVars, queueVars, workVars, jobVars, peer,
                   reply>>

\* The body is a send_all() of its own: a stop in between truncates the response.
SendBody(c) ==
    /\ Goes(c, "body", "finish")
    /\ \/ CanSend(c) /\ sent' = [sent EXCEPT ![c] = "all"]
       \/ ~MustSend(c) /\ UNCHANGED sent
    /\ UNCHANGED <<mainVars, listenVars, sigVars, queueVars, workVars, jobVars, peer,
                   reply>>

\* server_job_free() if a job was made, and close(fd).
EndConnection(c) ==
    /\ Goes(c, "finish", "closed")
    /\ job' = [job EXCEPT ![c] = IF @ = "live" THEN "freed" ELSE @]
    /\ UNCHANGED <<mainVars, listenVars, sigVars, queueVars, workVars, mu, done,
                   cancelled, peer, reply, sent>>

ClientStep(c) ==
    \/ HandleRequest(c) \/ SendHealth(c) \/ Dispatch(c)
    \/ WaitForJob(c) \/ SendHead(c) \/ SendBody(c) \/ EndConnection(c)

-----------------------------------------------------------------------------

Next ==
    \/ Main \/ PollFails
    \/ WorkerStep
    \/ SpuriousWakeup
    \/ \E s \in Signals : DeliverSignal(s) \/ HandlerStep(s)
    \/ \E c \in Clients : Connect(c) \/ PeerStops(c) \/ ClientStep(c)

Safety == Init /\ [][Next]_vars

\* Every thread of the process is scheduled, a forward ends, and recv() and
\* send() time out.  Clients, signals, spurious wakeups and a poll() that fails owe
\* nothing.
Fairness ==
    /\ WF_vars(Main)
    /\ WF_vars(WorkerStep)
    /\ \A s \in Signals : WF_vars(HandlerStep(s))
    /\ \A c \in Clients : WF_vars(ClientStep(c))

Spec == Safety /\ Fairness

-----------------------------------------------------------------------------
(* Properties.                                                             *)

WorkerHolds == {"run", "lock", "finish", "unlock"}

\* The worker never touches a job that its connection thread has freed: every
\* job pointer in the used part of g_queue, and the one the worker holds from
\* dequeue() until it has unlocked j->mu, is allocated memory.
NoDanglingJob ==
    /\ \A i \in 1 .. len : Pending[i] \in Clients /\ job[Pending[i]] = "live"
    /\ wpc \in WorkerHolds => wjob \in Clients /\ job[wjob] = "live"

\* No one is left waiting for a worker that has gone: once worker_main() has
\* returned, the ring is empty and every job a thread waits for is done.  (A
\* job enqueued after queue_stop() would leave its thread waiting for ever.)
NoOrphan ==
    wpc = "end" => len = 0 /\ \A c \in Clients : pc[c] = "wait" => done[c]

\* After free(g_queue) no thread can reach g_queue any more: enqueue() must
\* find the queue stopping and the worker must be gone, although detached
\* connection threads are still running.
NoUseOfFreedQueue == ringFreed => ~MayEnqueue /\ wpc = "end"

\* q3_model_free() runs on the main thread: never while the worker is inside
\* a forward, nor before a job that would still need the model.
ModelOutlivesJobs ==
    model # "loaded" => wpc \in {"none", "end"} /\ len = 0

\* What main() frees, it frees behind everyone who could still use it,
\* although it waits for the worker only and detached threads go on.
FreedLast == ModelOutlivesJobs /\ NoUseOfFreedQueue

\* A client that keeps reading gets its whole response, whatever the other
\* clients, the worker and the queue do, unless the server was told to stop.
AnsweredUnlessStopped ==
    \A c \in Clients :
        pc[c] = "closed" /\ peer[c] = "reading" /\ ~stop => sent[c] = "all"

\* The ring, its mutex and the worker implement the bounded first-in
\* first-out service, including that an accepted job is run in the end.
Service == INSTANCE JobService WITH
    Jobs <- Clients, Depth <- QueueDepth,
    waiting <- Pending,
    running <- IF wpc \in {"run", "lock", "finish"} THEN wjob ELSE NoJob,
    finished <- {c \in Clients : done[c]},
    open <- ~stopping,
    alive <- Alive
ImplementsService == Service!Spec

\* Every connection that was accepted is closed in the end, or the process ends.
ConnectionEnds ==
    \A c \in Clients : pc[c] = "request" ~> pc[c] = "closed" \/ ~Alive

-----------------------------------------------------------------------------
(* The inductive invariant behind the first four properties.               *)

Running == {"run", "lock", "finish"}

InRing(c) == \E i \in 0 .. len - 1 : ring[Slot(i)] = c

\* A job exists from dispatch on, and cannot be done before it was enqueued.
ConnectionInv ==
    \A c \in Clients :
        /\ pc[c] \in {"none", "backlog", "dropped", "request", "health"} => job[c] = "none"
        /\ pc[c] \in {"dispatch", "wait"} => job[c] = "live"
        /\ pc[c] \in {"none", "backlog", "dropped", "request", "health", "dispatch"}
           => ~done[c]

\* The used slots hold different jobs, whose threads wait for them.
RingInv ==
    /\ \A i \in 0 .. len - 1 :
          /\ ring[Slot(i)] \in Clients
          /\ pc[ring[Slot(i)]] = "wait"
          /\ ~done[ring[Slot(i)]]
    /\ \A i, j \in 0 .. len - 1 : ring[Slot(i)] = ring[Slot(j)] => i = j

\* The worker's job has left the ring, its thread waits for it, and the worker
\* holds j->mu exactly around done = true.
WorkerInv ==
    /\ wpc \in WorkerHolds <=> wjob \in Clients
    /\ wpc \in WorkerHolds => pc[wjob] = "wait" /\ ~InRing(wjob)
    /\ wpc \in Running => ~done[wjob]
    /\ wpc = "unlock" => done[wjob]
    /\ \A c \in Clients : mu[c] <=> wjob = c /\ wpc \in {"finish", "unlock"}

\* Every thread that waits for an unfinished job waits for the ring or for the
\* worker.
WaitInv ==
    \A c \in Clients :
        pc[c] = "wait" /\ ~done[c] => InRing(c) \/ (wjob = c /\ wpc \in Running)

\* How far main() has come, for the worker, the model and the queue.
MainInv ==
    /\ mainpc \in {"listen", "publish", "spawn", "poll", "accept", "close", "closing",
                   "forget", "stop", "join", "free"} => model = "loaded"
    /\ mainpc \in {"load", "listen", "publish", "spawn"} => wpc = "none"
    /\ mainpc \in {"poll", "accept", "close", "closing", "forget", "stop", "join"}
       => wpc # "none"
    /\ mainpc \in {"free", "unready"} => wpc = "end"
    /\ wpc = "none" => len = 0 /\ \A c \in Clients : pc[c] \in {"none", "backlog"}
    /\ wpc = "end" => len = 0 /\ stopping
    /\ model # "loaded" => wpc \in {"none", "end"}
    /\ ringFreed => wpc = "end"

IInv ==
    /\ TypeOK
    /\ ConnectionInv
    /\ RingInv
    /\ WorkerInv
    /\ WaitInv
    /\ MainInv
=============================================================================
