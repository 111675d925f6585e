------------------------------- MODULE Layagate -------------------------------
(* go/layagate/main.go: the gateway that batches requests for Python         *)
(* backends. Handlers queue requests, the batcher groups them by number, and *)
(* one dispatch goroutine per batch, named by the first request of it, posts *)
(* the batch to a backend and hands out the answers by request id.           *)
EXTENDS BatchBackend, Lists, FiniteSets

CONSTANTS
    Req,           (* one HTTP request each, with a state of its own           *)
    Bodies,        (* the question sets of requests, or Malformed              *)
    ClientIds,     (* ids: n > 0 is the string "r<n>", 0 is none or no string  *)
    BatchMax,      (* BATCH_MAX, the cap on the requests of one call           *)
    QueueCap,      (* the capacity of reqCh                                    *)
    Backends,      (* the number of backendURLs                                *)
    None           (* Go's nil                                                 *)

ASSUME GateAssumption ==
    /\ BatchMax \in Nat /\ QueueCap \in Nat \ {0} /\ Backends \in Nat \ {0}
    /\ ClientIds \subseteq Nat
    /\ None \notin Req

VARIABLES
    id, questions, (* of each request, as posted to the backend                *)
    hpc, resp,     (* its handler, and what that wrote to the client           *)
    respCh,        (* its channel of capacity one                              *)
    seq,           (* the number of ids generated                              *)
    queue,         (* reqCh                                                    *)
    bpc, batch, expired,   (* the batcher, its batch, its window               *)
    launched,      (* the batches handed to dispatch so far, in order          *)
    dpc, dbatch, next,     (* dispatch goroutines, their batch and reply index *)
    backend,       (* the backend each of them posts to                        *)
    reply,         (* what that backend has answered, None before              *)
    answers,       (* the answers it works with, an empty map after an error    *)
    backendSeq,
    statTotal, statBatches, statBatchSum, statErrors

requestVars == <<id, questions, seq, hpc, resp, statTotal>>
batcherVars == <<bpc, batch, expired, launched, statBatches, statBatchSum>>
callVars == <<dbatch, backend, reply, answers, backendSeq>>
dispatchVars == <<dpc, next, callVars, statErrors>>
vars == <<requestVars, respCh, queue, batcherVars, dispatchVars>>

Init ==
    /\ id = [r \in Req |-> 0] /\ questions = [r \in Req |-> {}] /\ seq = 0
    /\ hpc = [r \in Req |-> "idle"] /\ resp = [r \in Req |-> None]
    /\ respCh = [r \in Req |-> None]
    /\ queue = <<>>
    /\ bpc = "first" /\ batch = <<>> /\ expired = FALSE /\ launched = <<>>
    /\ dpc = [d \in Req |-> "none"] /\ dbatch = [d \in Req |-> <<>>]
    /\ next = [d \in Req |-> 1]
    /\ backend = [d \in Req |-> 0] /\ reply = [d \in Req |-> None]
    /\ answers = [d \in Req |-> NoReply] /\ backendSeq = 0
    /\ statTotal = 0 /\ statBatches = 0 /\ statBatchSum = 0 /\ statErrors = 0

-----------------------------------------------------------------------------
(* handlePredict *)

Failed(c) == [code |-> c, answers |-> None]
Answered(a) == [code |-> 200, answers |-> a]

(* An answer is named by the state it is about, that of one request.         *)
AnswerSet == UNION {[S -> Req] : S \in SUBSET UNION (Bodies \ {Malformed})}
Response == [code : {0, 200, 400, 502, 503}, answers : AnswerSet \cup {None}]

ASSUME NilAssumption == None \notin Response

Respond(r, out) ==
    /\ hpc' = [hpc EXCEPT ![r] = "done"]
    /\ resp' = [resp EXCEPT ![r] = out]

BadJson(r) ==
    /\ hpc[r] = "idle"
    /\ Respond(r, Failed(400))
    /\ UNCHANGED <<id, questions, seq, statTotal, respCh, queue, batcherVars, dispatchVars>>

(* The body "null" decodes to a nil map; storing the generated id into it    *)
(* panics, net/http recovers, and the client's connection is closed (code 0).*)
NullBody(r) ==
    /\ hpc[r] = "idle"
    /\ seq' = seq + 1
    /\ Respond(r, Failed(0))
    /\ UNCHANGED <<id, questions, statTotal, respCh, queue, batcherVars, dispatchVars>>

Accept(r) ==
    /\ hpc[r] = "idle"
    /\ \E qs \in Bodies : questions' = [questions EXCEPT ![r] = qs]
    /\ \E i \in ClientIds :
         /\ seq' = IF i = 0 THEN seq + 1 ELSE seq
         /\ id' = [id EXCEPT ![r] = IF i = 0 THEN seq' ELSE i]
    /\ statTotal' = statTotal + 1
    /\ hpc' = [hpc EXCEPT ![r] = "send"]
    /\ UNCHANGED <<resp, respCh, queue, batcherVars, dispatchVars>>

Enqueue(r) ==
    /\ hpc[r] = "send" /\ Len(queue) < QueueCap
    /\ queue' = Append(queue, r)
    /\ hpc' = [hpc EXCEPT ![r] = "wait"]
    /\ UNCHANGED <<id, questions, seq, resp, statTotal, respCh, batcherVars, dispatchVars>>

QueueFull(r) ==
    /\ hpc[r] = "send" /\ Len(queue) >= QueueCap
    /\ Respond(r, Failed(503))
    /\ UNCHANGED <<id, questions, seq, statTotal, respCh, queue, batcherVars, dispatchVars>>

Receive(r) ==
    /\ hpc[r] = "wait" /\ respCh[r] # None
    /\ Respond(r, respCh[r])
    /\ respCh' = [respCh EXCEPT ![r] = None]
    /\ UNCHANGED <<id, questions, seq, statTotal, queue, batcherVars, dispatchVars>>

Handler(r) ==
    BadJson(r) \/ NullBody(r) \/ Accept(r) \/ Enqueue(r) \/ QueueFull(r) \/ Receive(r)

-----------------------------------------------------------------------------
(* batcher *)

Goto(label) ==
    /\ bpc' = label
    /\ UNCHANGED <<batch, expired, launched, statBatches, statBatchSum,
                   requestVars, respCh, queue, dispatchVars>>

(* The next request of reqCh joins the batch.                                *)
TakeNext ==
    /\ queue # <<>>
    /\ queue' = Tail(queue)
    /\ batch' = Append(batch, Head(queue))

Open ==
    /\ bpc = "first" /\ TakeNext
    /\ expired' = FALSE
    /\ bpc' = "fill"
    /\ UNCHANGED <<launched, statBatches, statBatchSum, requestVars, respCh, dispatchVars>>

(* time.Until(deadline) <= 0, from any moment on.                            *)
Expire ==
    /\ bpc \in {"fill", "wait"} /\ ~expired
    /\ expired' = TRUE
    /\ UNCHANGED <<bpc, batch, launched, statBatches, statBatchSum,
                   requestVars, respCh, queue, dispatchVars>>

Full == Len(batch) >= BatchMax
FillFull  == bpc = "fill" /\ Full /\ Goto("launch")
FillWait  == bpc = "fill" /\ ~Full /\ ~expired /\ Goto("wait")
FillDrain == bpc = "fill" /\ ~Full /\ expired /\ Goto("drain")

Take ==
    /\ bpc = "wait" /\ TakeNext
    /\ bpc' = "fill"
    /\ UNCHANGED <<expired, launched, statBatches, statBatchSum,
                   requestVars, respCh, dispatchVars>>

(* The timer only sends the batcher back to the top of the loop.             *)
TimerFires == bpc = "wait" /\ expired /\ Goto("fill")

(* Fault: the inner loop does not count.                                     *)
DrainUncounted ==
    /\ bpc = "drain" /\ TakeNext
    /\ UNCHANGED <<bpc, expired, launched, statBatches, statBatchSum,
                   requestVars, respCh, dispatchVars>>

(* Past the window, the batcher takes what is there and does not wait.       *)
Drain ==
    /\ bpc = "drain" /\ ~Full /\ TakeNext
    /\ UNCHANGED <<bpc, expired, launched, statBatches, statBatchSum,
                   requestVars, respCh, dispatchVars>>
DrainEnds == bpc = "drain" /\ (Full \/ queue = <<>>) /\ Goto("launch")

CountBatch ==
    /\ bpc = "launch"
    /\ statBatches' = statBatches + 1
    /\ bpc' = "send"
    /\ UNCHANGED <<batch, expired, launched, statBatchSum,
                   requestVars, respCh, queue, dispatchVars>>

(* statBatchSum.Add, then go dispatch(batch): the goroutine starts later.    *)
Launch ==
    /\ bpc = "send"
    /\ statBatchSum' = statBatchSum + Len(batch)
    /\ launched' = Append(launched, batch)
    /\ dbatch' = [dbatch EXCEPT ![Head(batch)] = batch]
    /\ dpc' = [dpc EXCEPT ![Head(batch)] = "post"]
    /\ batch' = <<>>
    /\ bpc' = "first"
    /\ UNCHANGED <<expired, requestVars, respCh, queue, next, backend, reply, answers,
                   backendSeq, statBatches, statErrors>>

BatcherStep ==
    \/ Open \/ FillFull \/ FillWait \/ FillDrain \/ Take \/ TimerFires
    \/ Drain \/ DrainEnds \/ CountBatch \/ Launch

-----------------------------------------------------------------------------
(* dispatch *)

Enter(d, label) == dpc' = [dpc EXCEPT ![d] = label]

(* nextBackend(), and the request is on its way.                             *)
Post(d) ==
    /\ dpc[d] = "post"
    /\ backend' = [backend EXCEPT ![d] = (backendSeq % Backends) + 1]
    /\ backendSeq' = backendSeq + 1
    /\ Enter(d, "await")
    /\ UNCHANGED <<dbatch, reply, answers, next, statErrors, requestVars, respCh, queue, batcherVars>>

(* The backend answers in its own time, also when nobody listens any more.   *)
Payload(b) == [i \in DOMAIN b |-> [id |-> id[b[i]], state |-> b[i], questions |-> questions[b[i]]]]
Serve(d) ==
    /\ backend[d] # 0 /\ reply[d] = None
    /\ reply' = [reply EXCEPT ![d] = PredictBatch(Payload(dbatch[d]))]
    /\ UNCHANGED <<dpc, next, dbatch, backend, answers, backendSeq, statErrors,
                   requestVars, respCh, queue, batcherVars>>

(* The reply arrives; any status but 200 is an error of the whole batch.     *)
Arrive(d) ==
    /\ dpc[d] = "await" /\ reply[d] # None
    /\ answers' = IF reply[d].status = 200 THEN [answers EXCEPT ![d] = reply[d].answers]
                  ELSE answers
    /\ Enter(d, IF reply[d].status = 200 THEN "reply" ELSE "fail")
    /\ UNCHANGED <<dbatch, next, backend, reply, backendSeq, statErrors,
                   requestVars, respCh, queue, batcherVars>>

(* Fault: a call that has begun has no timeout.                              *)
LoseUnlessRunning(d) ==
    /\ dpc[d] = "await" /\ reply[d] # None
    /\ Enter(d, "fail")
    /\ UNCHANGED <<callVars, next, statErrors, requestVars, respCh, queue, batcherVars>>

(* No connection, the timeout of httpClient, or a body cut short (whose read *)
(* error is ignored and which does not parse).                               *)
Lose(d) ==
    /\ dpc[d] = "await"
    /\ Enter(d, "fail")
    /\ UNCHANGED <<callVars, next, statErrors, requestVars, respCh, queue, batcherVars>>

(* Fault: a failed call is counted, not its requests.                        *)
CountErrorsByCall(d) ==
    /\ dpc[d] = "fail"
    /\ statErrors' = statErrors + 1
    /\ Enter(d, "reply")
    /\ UNCHANGED <<callVars, next, requestVars, respCh, queue, batcherVars>>

CountErrors(d) ==
    /\ dpc[d] = "fail"
    /\ statErrors' = statErrors + Len(dbatch[d])
    /\ Enter(d, "reply")
    /\ UNCHANGED <<callVars, next, requestVars, respCh, queue, batcherVars>>

Outcome(d, r) ==
    IF id[r] \in DOMAIN answers[d]
    THEN Answered(answers[d][id[r]])
    ELSE Failed(502)

Send(d) ==
    /\ dpc[d] = "reply" /\ next[d] <= Len(dbatch[d])
    /\ LET r == dbatch[d][next[d]] IN
         /\ respCh[r] = None
         /\ respCh' = [respCh EXCEPT ![r] = Outcome(d, r)]
    /\ next' = [next EXCEPT ![d] = @ + 1]
    /\ UNCHANGED <<dpc, callVars, statErrors, requestVars, queue, batcherVars>>

Finish(d) ==
    /\ dpc[d] = "reply" /\ next[d] > Len(dbatch[d])
    /\ Enter(d, "done")
    /\ UNCHANGED <<callVars, next, statErrors, requestVars, respCh, queue, batcherVars>>

DispatchStep(d) == Post(d) \/ Arrive(d) \/ CountErrors(d) \/ Send(d) \/ Finish(d)

-----------------------------------------------------------------------------

Quiet ==
    /\ \A r \in Req : hpc[r] = "done"
    /\ bpc = "first"
    /\ \A d \in Req : dpc[d] \in {"none", "done"}
Rest == Quiet /\ UNCHANGED vars

Next ==
    \/ \E r \in Req : Handler(r)
    \/ BatcherStep
    \/ Expire
    \/ \E d \in Req : DispatchStep(d) \/ Serve(d) \/ Lose(d)
    \/ Rest

Spec == Init /\ [][Next]_vars

-----------------------------------------------------------------------------
(* Properties *)

(* What was sent to the client or waits in its channel.                      *)
Out(r) == IF respCh[r] # None THEN respCh[r] ELSE resp[r]
HasCode(r, c) == Out(r) # None /\ Out(r).code = c

(* "-> per-request answers": an answered request gets an answer to each of   *)
(* its own questions, about its own state, and to nothing else.              *)
OwnAnswers(r) == HasCode(r, 200) => Out(r).answers = [q \in questions[r] |-> r]

(* The same, for every request whose id no other request of its batch has:   *)
(* sharing a batch, a timeout or a truncation never mixes states.            *)
SharesId(r) == \E i \in DOMAIN launched : \E s \in Elems(launched[i]) \ {r} :
                   r \in Elems(launched[i]) /\ id[s] = id[r]
AnswersOwnUnlessIdShared == \A r \in Req : SharesId(r) \/ OwnAnswers(r)

(* No error is seen before /stats counts it; and once the gateway is quiet   *)
(* "requests_total" splits into answers, "errors" and requests shed with 503,*)
(* while every request that was not shed was in one batch, posted once.      *)
With(c) == Cardinality({r \in Req : HasCode(r, c)})
CountersAddUp ==
    /\ With(502) <= statErrors
    /\ Quiet => /\ statTotal = With(200) + With(503) + statErrors
                /\ statBatchSum = statTotal - With(503)
                /\ statBatches = backendSeq

(* Requests reach the backends first come first served, each in one batch of *)
(* at most BatchMax: the batcher implements the line of the other gateway,   *)
(* with every request of weight one.                                         *)
Line == INSTANCE BatchQueue WITH
    Question <- {0}, Kind <- [q \in {0} |-> "ok"], Bodies <- {<<0>>},
    keys <- [r \in Req |-> IF hpc[r] = "idle" THEN <<>> ELSE <<0>>],
    line <- batch \o queue, sent <- launched
ImplementsLine == Line!Spec

(* A backend that is hung or dead stops nobody: while anyone waits for a     *)
(* response the gateway has a step of its own to take, and no step of it can *)
(* be taken twice by the same batch, so every queued request is answered.    *)
GatewayStep ==
    \/ \E r \in Req : hpc[r] # "idle" /\ Handler(r)
    \/ BatcherStep \/ Expire
    \/ \E d \in Req : DispatchStep(d) \/ Lose(d)
NeverWaitsOnBackend == (\E r \in Req : hpc[r] \in {"send", "wait"}) => ENABLED GatewayStep
=============================================================================
