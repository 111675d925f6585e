------------------------------- MODULE Batcher --------------------------------
(* handlePredict, the channel reqCh and the batcher goroutine of             *)
(* go/goserve/main.go: requests are validated, queued and grouped into the   *)
(* batches that "go dispatch(batch)" is called with.                         *)
EXTENDS ServeTypes

VARIABLES
    hpc,           (* where the handler of each request is                     *)
    resp,          (* what each handler wrote to its client, None before       *)
    queue,         (* the contents of reqCh                                    *)
    bpc,           (* where the batcher is                                     *)
    carry,         (* the request held over for the next batch, or None        *)
    batch,         (* the batch being filled                                   *)
    totalQ,        (* its number of questions                                  *)
    expired,       (* time.Until(deadline) <= 0                                *)
    launched,      (* the batches handed to dispatch so far, in order          *)
    statReq, statBatch, statBatchSum

handlerVars == <<keys, hpc, resp, statReq>>
batcherVars == <<bpc, carry, batch, totalQ, expired, launched, statBatch, statBatchSum>>
vars == <<handlerVars, batcherVars, queue, respCh>>

-----------------------------------------------------------------------------
(* handlePredict *)

Init ==
    /\ keys = [r \in Req |-> <<>>]
    /\ respCh = [r \in Req |-> None]
    /\ hpc = [r \in Req |-> "idle"]
    /\ resp = [r \in Req |-> None]
    /\ queue = <<>>
    /\ bpc = "first"
    /\ carry = None
    /\ batch = <<>>
    /\ totalQ = 0
    /\ expired = FALSE
    /\ launched = <<>>
    /\ statReq = 0 /\ statBatch = 0 /\ statBatchSum = 0

(* The body is refused: not JSON, not an object, no questions, no state (all *)
(* of them the empty list here) or more questions than one batch may hold.   *)
Refusable(ks) == ks = <<>> \/ Len(ks) > BatchMax

Respond(r, reply) ==
    /\ hpc' = [hpc EXCEPT ![r] = "done"]
    /\ resp' = [resp EXCEPT ![r] = reply]

Refuse(r) ==
    /\ hpc[r] = "idle"
    /\ \E ks \in Bodies : Refusable(ks) /\ keys' = [keys EXCEPT ![r] = ks]
    /\ Respond(r, Failed(400))
    /\ UNCHANGED <<statReq, batcherVars, queue, respCh>>

Accept(r) ==
    /\ hpc[r] = "idle"
    /\ \E ks \in Bodies : ~Refusable(ks) /\ keys' = [keys EXCEPT ![r] = ks]
    /\ hpc' = [hpc EXCEPT ![r] = "send"]
    /\ statReq' = statReq + 1
    /\ UNCHANGED <<resp, batcherVars, queue, respCh>>

Enqueue(r) ==
    /\ hpc[r] = "send"
    /\ Len(queue) < QueueCap
    /\ queue' = Append(queue, r)
    /\ hpc' = [hpc EXCEPT ![r] = "wait"]
    /\ UNCHANGED <<keys, resp, statReq, batcherVars, respCh>>

QueueFull(r) ==
    /\ hpc[r] = "send"
    /\ Len(queue) >= QueueCap
    /\ Respond(r, Failed(503))
    /\ UNCHANGED <<keys, statReq, batcherVars, queue, respCh>>

Receive(r) ==
    /\ hpc[r] = "wait"
    /\ respCh[r] # None
    /\ Respond(r, respCh[r])
    /\ respCh' = [respCh EXCEPT ![r] = None]
    /\ UNCHANGED <<keys, statReq, batcherVars, queue>>

Handler(r) == Refuse(r) \/ Accept(r) \/ Enqueue(r) \/ QueueFull(r) \/ Receive(r)

-----------------------------------------------------------------------------
(* batcher *)

(* The head of the loop: a batch of one request and a fresh deadline.        *)
Open(r) ==
    /\ batch' = <<r>>
    /\ totalQ' = Len(keys[r])
    /\ expired' = FALSE
    /\ bpc' = "fill"
    /\ UNCHANGED <<launched, statBatch, statBatchSum>>

(* Fault: carry is not reset.                                                *)
OpenCarriedKept ==
    /\ bpc = "first" /\ carry # None
    /\ Open(carry)
    /\ UNCHANGED <<carry, handlerVars, queue, respCh>>

OpenCarried ==
    /\ bpc = "first" /\ carry # None
    /\ carry' = None
    /\ Open(carry)
    /\ UNCHANGED <<handlerVars, queue, respCh>>

(* Fault: the channel is read before carry is looked at.                     *)
OpenQueuedFirst ==
    /\ bpc = "first" /\ queue # <<>>
    /\ queue' = Tail(queue)
    /\ Open(Head(queue))
    /\ UNCHANGED <<carry, handlerVars, respCh>>

OpenQueued ==
    /\ bpc = "first" /\ carry = None /\ queue # <<>>
    /\ queue' = Tail(queue)
    /\ Open(Head(queue))
    /\ UNCHANGED <<carry, handlerVars, respCh>>

(* The window closes, at any time.                                           *)
Expire ==
    /\ bpc \in {"fill", "wait"} /\ ~expired
    /\ expired' = TRUE
    /\ UNCHANGED <<bpc, carry, batch, totalQ, launched, statBatch, statBatchSum,
                   handlerVars, queue, respCh>>

Goto(label) ==
    /\ bpc' = label
    /\ UNCHANGED <<carry, batch, totalQ, expired, launched, statBatch, statBatchSum,
                   handlerVars, queue, respCh>>

(* "for totalQ < batchMax", then the reading of the clock: inside the window *)
(* the batcher blocks in a select on reqCh and a timer, past it it polls.    *)
FillFullEarly == bpc = "fill" /\ totalQ + 1 >= BatchMax /\ Goto("count")  (* Fault *)
FillFull    == bpc = "fill" /\ totalQ >= BatchMax /\ Goto("count")
FillWait    == bpc = "fill" /\ totalQ < BatchMax /\ ~expired /\ Goto("wait")
FillExpired == bpc = "fill" /\ totalQ < BatchMax /\ expired /\ Goto("poll")

TimerFires == bpc = "wait" /\ expired /\ Goto("count")
PollEmpty  == bpc = "poll" /\ queue = <<>> /\ Goto("count")

FitsAsOne(r) == totalQ + 1 <= BatchMax      (* Fault: requests are counted  *)
Fits(r) == totalQ + Len(keys[r]) <= BatchMax

(* Fault: no break after carry = r, the request is appended all the same.    *)
TakeTwice ==
    /\ bpc \in {"wait", "poll"} /\ queue # <<>>
    /\ queue' = Tail(queue)
    /\ LET r == Head(queue) IN
         /\ carry' = IF Fits(r) THEN carry ELSE r
         /\ bpc' = IF Fits(r) THEN "fill" ELSE "count"
         /\ batch' = Append(batch, r)
         /\ totalQ' = totalQ + Len(keys[r])
    /\ UNCHANGED <<expired, launched, statBatch, statBatchSum, handlerVars, respCh>>

Take ==
    /\ bpc \in {"wait", "poll"} /\ queue # <<>>
    /\ queue' = Tail(queue)
    /\ LET r == Head(queue) IN
         \/ /\ Fits(r)
            /\ batch' = Append(batch, r)
            /\ totalQ' = totalQ + Len(keys[r])
            /\ bpc' = "fill"
            /\ UNCHANGED carry
         \/ /\ ~Fits(r)
            /\ carry' = r
            /\ bpc' = "count"
            /\ UNCHANGED <<batch, totalQ>>
    /\ UNCHANGED <<expired, launched, statBatch, statBatchSum, handlerVars, respCh>>

(* The two counters are bumped one after the other.                          *)
CountBatch ==
    /\ bpc = "count"
    /\ statBatch' = statBatch + 1
    /\ bpc' = "launch"
    /\ UNCHANGED <<carry, batch, totalQ, expired, launched, statBatchSum,
                   handlerVars, queue, respCh>>

(* statBatchSum.Add, then go dispatch(batch): the goroutine starts later.    *)
Launch ==
    /\ bpc = "launch"
    /\ statBatchSum' = statBatchSum + Len(batch)
    /\ launched' = Append(launched, batch)
    /\ batch' = <<>> /\ totalQ' = 0
    /\ bpc' = "first"
    /\ UNCHANGED <<carry, expired, statBatch, handlerVars, queue, respCh>>

BatcherStep ==
    \/ OpenCarried \/ OpenQueued
    \/ FillFull \/ FillWait \/ FillExpired
    \/ Take \/ TimerFires \/ PollEmpty
    \/ CountBatch \/ Launch

-----------------------------------------------------------------------------
(* What dispatch does for this module: it replies once to every request of a *)
(* launched batch.                                                           *)
Sent(r) == \E i \in DOMAIN launched : r \in Elems(launched[i])

Deliver(r, reply) ==
    /\ Sent(r) /\ hpc[r] = "wait" /\ respCh[r] = None
    /\ respCh' = [respCh EXCEPT ![r] = reply]
    /\ UNCHANGED <<handlerVars, batcherVars, queue>>

Dispatched(r) ==
    \E reply \in {Answered(NoAnswers), Failed(400), Failed(502)} : Deliver(r, reply)

(* Every request has its response and the batcher waits for the next one.    *)
Idle == \A r \in Req : hpc[r] = "done"
Rest == Idle /\ bpc = "first" /\ UNCHANGED vars

Next ==
    \/ BatcherStep
    \/ Expire
    \/ \E r \in Req : Handler(r) \/ Dispatched(r)
    \/ Rest

Spec == Init /\ [][Next]_vars

-----------------------------------------------------------------------------
(* Properties *)

CarrySeq == IF carry = None THEN <<>> ELSE <<carry>>

(* Every request accepted and not yet handed to dispatch, oldest first.      *)
Pipeline == batch \o CarrySeq \o queue

(* Types of the variables of handlePredict, reqCh and batcher.               *)
TypeOK ==
    /\ keys \in [Req -> Seq(Question)]
    /\ hpc \in [Req -> {"idle", "send", "wait", "done"}]
    /\ resp \in [Req -> Reply \cup {None}]
    /\ respCh \in [Req -> Reply \cup {None}]
    /\ queue \in Seq(Req) /\ Len(queue) <= QueueCap
    /\ bpc \in {"first", "fill", "wait", "poll", "count", "launch"}
    /\ carry \in Req \cup {None}
    /\ batch \in Seq(Req)
    /\ totalQ \in Nat
    /\ expired \in BOOLEAN
    /\ launched \in Seq(Seq(Req))
    /\ statReq \in Nat /\ statBatch \in Nat /\ statBatchSum \in Nat

(* "batchMax caps the total number of questions": no batch, being filled or  *)
(* handed to dispatch, holds more than BatchMax questions, and totalQ is     *)
(* exactly what the batch holds.                                             *)
WithinCap(b) == Cardinality(Slots(b)) <= BatchMax
BatchWithinCap ==
    /\ totalQ = Cardinality(Slots(batch))
    /\ WithinCap(batch)
    /\ \A i \in DOMAIN launched : WithinCap(launched[i])

(* A request whose handler waits is in exactly one place: once in the        *)
(* pipeline (queue, carry or batch) or once in one launched batch; so is one *)
(* that dispatch answered, and no other request is in either.                *)
PlacesIn(pipe, sent, r) ==
    {<<0, i>> : i \in {j \in DOMAIN pipe : pipe[j] = r}}
        \cup UNION {{i} \X {j \in DOMAIN sent[i] : sent[i][j] = r} : i \in DOMAIN sent}
Places(r) == PlacesIn(Pipeline, launched, r)
Held(r) ==
    \/ hpc[r] = "wait"
    \/ hpc[r] = "done" /\ ~Refusable(keys[r]) /\ resp[r].code # 503
InOnePlace ==
    \A r \in Req : Cardinality(Places(r)) = (IF Held(r) THEN 1 ELSE 0)

(* What makes the two facts above inductive: the shape of the batcher's      *)
(* variables at each of its program points, and who may have a response.     *)
PhaseOK ==
    /\ bpc = "first" <=> batch = <<>>
    /\ bpc = "first" => totalQ = 0
    /\ bpc \in {"fill", "wait", "poll"} => carry = None
HandlerOK ==
    \A r \in Req :
        /\ hpc[r] \in {"send", "wait"} => ~Refusable(keys[r])
        /\ respCh[r] # None => hpc[r] = "wait" /\ respCh[r].code # 503
PlaceOK ==
    \A r \in Req : IF Held(r) THEN \E p \in Places(r) : Places(r) = {p}
                    ELSE Places(r) = {}
BatcherInv == TypeOK /\ PhaseOK /\ HandlerOK /\ PlaceOK

(* A batch is closed only when it is full, when its window is over, or when  *)
(* the next request in line does not fit: never earlier.                     *)
ClosedForAReason ==
    [][bpc # "count" /\ bpc' = "count" =>
          \/ totalQ >= BatchMax
          \/ expired
          \/ carry' # None /\ totalQ + Len(keys[carry']) > BatchMax]_vars

(* The batcher as a FIFO line that launches prefixes of itself.              *)
Line == INSTANCE BatchQueue WITH line <- Pipeline, sent <- launched
ImplementsLine == Line!Spec

=============================================================================
