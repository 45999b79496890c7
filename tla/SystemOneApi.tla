---------------------------- MODULE SystemOneApi ----------------------------
(***************************************************************************)
(* One request through q3-server (src/server/q3_server.c): routing, key,   *)
(* schema, model, queue, worker, response.  The worker's part is           *)
(* SystemOneRun on the request that the server has written out for it.     *)
(* q3_cmd_bench_decisions() (src/q3_decide_cli.cu) calls the same runtime  *)
(* on a request read from a file, without the server and its checks.       *)
(*                                                                         *)
(* A body is known by what the checks look at.  Each question is the       *)
(* record of SystemOneRun with an "id"; an option is a member of the       *)
(* criteria, with a key (objects only) and a value.                        *)
(***************************************************************************)
EXTENDS Integers, Sequences

CONSTANTS HttpRequests,   \* the requests a client may send: see HttpOK
          FileRequests,   \* the requests the command line may read from a file
          KeyConfigured,  \* was the server started with --api-key?
          MaxQ, MaxSuffix, PrefixCapacity, MaxCandidates, MayFail

VARIABLES
    http,     \* the request, as http_request and its parsed body hold it;
              \* NoHttp when the request comes from a file
    stage,    \* how far it has come
    code,     \* the response's status code; 0 before there is a response
    request, pc, q, a, total, sealed, handles, status, ledger

runVars == <<request, pc, q, a, total, sealed, handles, status, ledger>>
vars == <<http, stage, code, runVars>>

Run == INSTANCE SystemOneRun

Methods  == {"GET", "POST", "OPTIONS", "other"}
\* "/health" stands for "/healthz" too.
Paths    == {"/health", "/v1/models", "/v1/systemone", "other"}
Models   == {"absent", "empty", "served", "alias", "unknown", "notString"}
Values   == {"text", "empty", "null", "other"}
Keys     == {"empty", "true", "false", "name"}

BodyOK(b) ==
    /\ b.json \in BOOLEAN        \* hd_json_parse() accepts it
    /\ b.huge \in BOOLEAN        \* its state has a number no double can hold
    /\ b.huge => b.state \in {"container", "oversized"}
    /\ b.model \in Models
    /\ b.state \in Run!StateKinds /\ b.stateTokens \in Nat
    /\ b.questionsAre \in {"absent", "object", "other"}
    /\ Len(b.questions) \in Nat
    /\ \A i \in 1 .. Len(b.questions) :
          /\ Run!QuestionOK(b.questions[i])
          /\ b.questions[i].id \in {"empty", "name"}
          /\ \A k \in 1 .. Len(b.questions[i].options) :
                b.questions[i].options[k] \in [key : Keys, value : Values]

HttpOK(h) ==
    /\ h.method \in Methods /\ h.path \in Paths
    /\ h.key \in {"none", "wrong", "right"}
    /\ h.contentType \in {"none", "json", "other"}
    /\ BodyOK(h.body)

\* Q3_MAX_CANDIDATES is 30: the ten options that a score may have fit.
ASSUME ApiAssumption ==
    /\ Run!ConstantsOK /\ MaxCandidates >= 10
    /\ KeyConfigured \in BOOLEAN
    /\ \A r \in FileRequests : Run!RequestOK(r)
    /\ \A h \in HttpRequests : HttpOK(h)

NoHttp   == [method |-> "none"]
FromFile == http = NoHttp

NoRequest == [state |-> "absent", stateTokens |-> 0, questions |-> <<>>]

Init ==
    /\ code = 0
    /\ \/ /\ http \in HttpRequests /\ stage = "request"
          /\ request = NoRequest /\ pc = "idle" /\ Run!Idle
       \/ http = NoHttp /\ stage = "running"
          /\ \E r \in FileRequests : Run!Begins(r)

Respond(c) == stage' = "done" /\ code' = c
Proceed(to) == stage' = to /\ UNCHANGED code

-----------------------------------------------------------------------------
(* handle_request().                                                       *)

IsHealth == http.method = "GET" /\ http.path = "/health"
IsModels == http.method = "GET" /\ http.path = "/v1/models"

Authorized == KeyConfigured => http.key = "right"

HandleRequest ==
    /\ stage = "request"
    /\ \/ (http.method = "OPTIONS") /\ Respond(204)
       \/ IsHealth /\ Respond(200)
       \/ /\ http.method # "OPTIONS" /\ ~IsHealth
          /\ \/ ~Authorized /\ Respond(401)
             \/ /\ Authorized
                /\ \/ IsModels /\ Respond(200)
                   \/ /\ http.path = "/v1/systemone"
                      /\ \/ http.method # "POST" /\ Respond(405)
                         \/ http.method = "POST" /\ Proceed("systemone")
                   \/ ~IsModels /\ http.path # "/v1/systemone" /\ Respond(404)
    /\ UNCHANGED <<http, runVars>>

-----------------------------------------------------------------------------
(* handle_systemone() and parse_systemone().                               *)

Body == http.body

ModelMatches == Body.model \in {"absent", "empty", "served", "alias"}

ValidState == Body.state \in {"string", "container", "oversized"}

\* hd_json strings, the empty one included.
IsString(v) == v \in {"text", "empty"}

ValidChoice(qn) ==
    /\ qn.shape = "object"
    /\ Len(qn.options) \in 2 .. MaxCandidates
    /\ \A k \in 1 .. Len(qn.options) :
          qn.options[k].key # "empty" /\ IsString(qn.options[k].value)

\* MUTANT: the lower limit on the criteria of a score is gone.
ValidScoreAny(qn) ==
    /\ qn.shape = "array"
    /\ Len(qn.options) <= 10
    /\ \A k \in 1 .. Len(qn.options) : IsString(qn.options[k].value)
ValidScore(qn) ==
    /\ qn.shape = "array"
    /\ Len(qn.options) \in 2 .. 10
    /\ \A k \in 1 .. Len(qn.options) : IsString(qn.options[k].value)

ValidNoul(qn) ==
    \/ qn.shape = "absent"
    \/ /\ qn.shape = "object"
       /\ \A k \in 1 .. Len(qn.options) :
             qn.options[k].key \in {"true", "false"} /\ IsString(qn.options[k].value)

ValidQuestion(qn) ==
    /\ qn.id # "empty" /\ qn.object
    /\ \/ qn.type = "choice" /\ ValidChoice(qn)
       \/ qn.type = "score" /\ ValidScore(qn)
       \/ qn.type = "noul" /\ ValidNoul(qn)

ValidSchema ==
    /\ ValidState
    /\ Body.questionsAre = "object"
    /\ Len(Body.questions) \in 1 .. MaxQ
    /\ \A i \in 1 .. Len(Body.questions) : ValidQuestion(Body.questions[i])

\* A refusal comes from the first check that fails; the model comes last.
HandleSystemOne ==
    /\ stage = "systemone"
    /\ \/ http.contentType = "other" /\ Respond(415)
       \/ /\ http.contentType # "other"
          /\ \/ ~Body.json /\ Respond(400)
             \/ Body.json /\ ~ValidSchema /\ Respond(422)
             \/ Body.json /\ ValidSchema /\ ~ModelMatches /\ Respond(404)
             \/ /\ Body.json /\ ValidSchema /\ ModelMatches
                /\ \/ Proceed("queued")
                   \/ MayFail /\ Respond(429)     \* the queue is full
    /\ UNCHANGED <<http, runVars>>

-----------------------------------------------------------------------------
(* The worker: job_run().                                                  *)

\* serialize_runtime_request() writes a number that overflowed as "inf",
\* which hd_json_parse() does not accept.
Reparses == ~Body.huge

\* Only the state and the questions are written out for the runtime.
StartJob ==
    /\ stage = "queued"
    /\ \/ /\ Reparses /\ Proceed("running")
          /\ request' = [state |-> Body.state, stateTokens |-> Body.stateTokens,
                         questions |-> Body.questions]
          /\ pc' = "start"
       \/ ~Reparses /\ Respond(500) /\ UNCHANGED <<request, pc>>
    /\ UNCHANGED <<http, q, a, total, sealed, handles, status, ledger>>

RunStep ==
    /\ stage = "running"
    /\ Run!Next
    /\ UNCHANGED <<http, stage, code>>

\* MUTANT: the results are not freed.
FreesNothing == {}
FreedResults == IF status = "OK" THEN Run!Results ELSE {}

\* job_run() and q3_cmd_bench_decisions() both free the results of a success.
FinishJob ==
    /\ stage = "running" /\ pc = "returned"
    /\ Respond(IF FromFile THEN 0 ELSE IF status = "OK" THEN 200 ELSE 500)
    /\ Run!Account({}, FreedResults)
    /\ pc' = "idle"
    /\ UNCHANGED <<http, request, q, a, total, sealed, handles, status>>

Next == HandleRequest \/ HandleSystemOne \/ StartJob \/ RunStep \/ FinishJob

\* The threads that serve the request go on.
Spec == Init /\ [][Next]_vars /\ WF_vars(Next)

-----------------------------------------------------------------------------
(* Properties.                                                             *)

\* The two validators agree: what the server has accepted and written out,
\* the runtime's own checks never refuse for its shape, its question types or
\* the number of its options.
RuntimeAgrees ==
    stage = "running" /\ ~FromFile =>
        /\ Run!Refusal = "OK"
        /\ \A i \in 1 .. Run!B :
              LET qn == request.questions[i] IN
              qn.object /\ qn.type # "other" /\ Run!Builds(qn)

\* Whatever fails on the way, a request that has been answered keeps no
\* memory of the runtime, and one that was answered 200 had all its questions
\* decided.
AnsweredAndClean ==
    stage = "done" =>
        /\ \A r \in Run!Resources : ledger[r] = 0
        /\ code = 200 /\ ~FromFile /\ http.path = "/v1/systemone" =>
              a = Len(Body.questions) + 1 /\ Len(Body.questions) > 0

\* On whichever of its returns, q3_systemone_run() has freed nothing twice and
\* leaked nothing: in the end its caller owns the results of a success.
MemorySound == Run!MemorySound

\* q3_decide_run() is never given a batch it would refuse, nor one that uses
\* a branch twice (which it does not look for), nor anything freed.
BatchIsAcceptable == Run!BatchIsAcceptable

\* What a request can be too long in.
TooLong ==
    \/ Body.stateTokens \notin 1 .. PrefixCapacity
    \/ \E i \in 1 .. Len(Body.questions) : Body.questions[i].tokens > MaxSuffix
    \/ total > Run!MaxPacked
=============================================================================
