---------------------------- MODULE LayagateProofs ----------------------------
(* What layagate guarantees for every number of requests, batches and        *)
(* backends, whatever the ids its clients choose.                            *)
EXTENDS Layagate, ListLemmas

-----------------------------------------------------------------------------
(* The inductive invariant *)

Spawned == UNION {Elems(dbatch[d]) : d \in Req}
Distinct(s) == \A i, j \in DOMAIN s : s[i] = s[j] => i = j
SizeOK(b) == Len(b) <= BatchMax \/ Len(b) = 1

TypeOK ==
    /\ id \in [Req -> Nat] /\ DOMAIN questions = Req
    /\ hpc \in [Req -> {"idle", "send", "wait", "done"}]
    /\ resp \in [Req -> Response \cup {None}]
    /\ respCh \in [Req -> Response \cup {None}]
    /\ seq \in Nat
    /\ queue \in Seq(Req) /\ batch \in Seq(Req) /\ launched \in Seq(Seq(Req))
    /\ bpc \in {"first", "fill", "wait", "drain", "launch", "send"}
    /\ dpc \in [Req -> {"none", "post", "await", "fail", "reply", "done"}]
    /\ dbatch \in [Req -> Seq(Req)]
    /\ next \in [Req -> Nat \ {0}]
    /\ DOMAIN backend = Req /\ DOMAIN reply = Req /\ DOMAIN answers = Req
    /\ statTotal \in Nat /\ statBatches \in Nat /\ statBatchSum \in Nat
    /\ statErrors \in Nat /\ backendSeq \in Nat

(* The batch and the queue hold requests whose handlers wait, each once, and *)
(* none that was handed to dispatch.                                         *)
LineOK ==
    /\ Distinct(batch) /\ Distinct(queue) /\ Elems(batch) \cap Elems(queue) = {}
    /\ \A r \in Elems(batch) \cup Elems(queue) :
          r \notin Spawned /\ hpc[r] = "wait" /\ respCh[r] = None
    /\ bpc = "first" <=> batch = <<>>
    /\ bpc = "wait" => Len(batch) < BatchMax
    /\ SizeOK(batch)

(* Where the handler of a request is, and what it can have been told.        *)
Turned == {Failed(0), Failed(400)}
HandlerOK ==
    \A r \in Req :
       /\ hpc[r] # "idle" /\ resp[r] \notin Turned => questions[r] \in Bodies
       /\ hpc[r] = "done" <=> resp[r] # None
       /\ hpc[r] = "wait" => r \in Elems(batch) \cup Elems(queue) \cup Spawned
       /\ r \in Spawned => hpc[r] \in {"wait", "done"} /\ resp[r] \notin Turned
       /\ respCh[r] # None => hpc[r] = "wait" /\ respCh[r] \notin Turned
       /\ r \notin Spawned =>
             /\ respCh[r] = None
             /\ hpc[r] = "done" => resp[r] \in Turned \cup {Failed(503)}

(* Batches are disjoint, and each was launched as it is.                     *)
BatchOK ==
    /\ \A d \in Req : IF dpc[d] = "none" THEN dbatch[d] = <<>> ELSE d \in Elems(dbatch[d])
    /\ \A d, f \in Req : d # f => Elems(dbatch[d]) \cap Elems(dbatch[f]) = {}
    /\ \A d \in Req : Distinct(dbatch[d]) /\ SizeOK(dbatch[d])
    /\ \A d \in Req : dpc[d] # "none" => \E i \in DOMAIN launched : launched[i] = dbatch[d]
    /\ \A i \in DOMAIN launched : Elems(launched[i]) \subseteq Spawned

(* What a goroutine works with is what its backend made of its batch.        *)
Prediction(d) == PredictBatch(Payload(dbatch[d]))
CallOK ==
    \A d \in Req :
       /\ backend[d] # 0 => dpc[d] \notin {"none", "post"}
       /\ reply[d] # None => dpc[d] \notin {"none", "post"} /\ reply[d] = Prediction(d)
       /\ \/ answers[d] = NoReply
          \/ /\ dpc[d] \in {"reply", "done"}
             /\ Prediction(d).status = 200 /\ answers[d] = Prediction(d).answers

(* Replies go out in the order of the batch, each once.                      *)
SentOK ==
    \A d \in Req :
       /\ dpc[d] \notin {"reply", "done"} => next[d] = 1
       /\ dpc[d] = "done" => next[d] > Len(dbatch[d])
       /\ \A i \in DOMAIN dbatch[d] :
             /\ i >= next[d] => Out(dbatch[d][i]) = None
             /\ i < next[d] => Out(dbatch[d][i]) = Outcome(d, dbatch[d][i])

-----------------------------------------------------------------------------
(* What a backend returns *)

LEMMA AskedLast ==
    ASSUME NEW n \in Nat, NEW b, DOMAIN b = 1..n, NEW x, NEW q,
           NEW k \in 1..n, b[k].id = x, q \in b[k].questions
    PROVE  /\ LastAsker(b, x, q) \in 1..n
           /\ b[LastAsker(b, x, q)].id = x
<1> DEFINE askers == {i \in DOMAIN b : b[i].id = x /\ q \in b[i].questions}
<1>1. askers \in SUBSET (1..n) /\ askers # {}
  OBVIOUS
<1>2. \E i \in askers : \A j \in askers : j <= i
  BY <1>1, LastOf
<1>3. LastAsker(b, x, q) = CHOOSE i \in askers : \A j \in askers : j <= i
  BY DEF LastAsker
<1> HIDE DEF askers
<1>4. LastAsker(b, x, q) \in askers
  BY <1>2, <1>3
<1> QED
  BY <1>4 DEF askers

(* Whether the call of a batch succeeds, and how many of its requests reach  *)
(* the model then: all but the tail that a backend cuts off.                 *)
Served(b) == PredictBatch(Payload(b)).status = 200
Heard(b) == IF Len(b) < MaxReqPerBatch THEN Len(b) ELSE MaxReqPerBatch

LEMMA HeardPart ==
    ASSUME NEW b \in Seq(Req), Served(b)
    PROVE  /\ Heard(b) \in 0..Len(b) /\ Len(b) \in Nat /\ DOMAIN b = 1..Len(b)
           /\ \E pb : /\ DOMAIN pb = 1..Heard(b)
                      /\ \A i \in 1..Heard(b) : /\ pb[i].id = id[b[i]] /\ pb[i].state = b[i]
                                                /\ pb[i].questions = questions[b[i]]
                      /\ PredictBatch(Payload(b)).answers = RunBatch(pb).answers
                      /\ RunBatch(pb).status = 200
           /\ \A i \in DOMAIN b : questions[b[i]] # Malformed
<1> DEFINE n == Heard(b)
           w == Payload(b)
           pb == SubSeq(w, 1, n)
           R == {w[i] : i \in 1..Len(b)}
<1>1. Len(b) \in Nat /\ DOMAIN b = 1..Len(b) /\ n \in 0..Len(b)
  BY BackendAssumption, LenProperties DEF Heard
<1>2. \A i \in 1..Len(b) : w[i].id = id[b[i]] /\ w[i].state = b[i] /\ w[i].questions = questions[b[i]]
  BY <1>1 DEF Payload
<1>3. DOMAIN w = 1..Len(b) /\ w = [i \in 1..Len(b) |-> w[i]]
  BY <1>1 DEF Payload
<1>4. PredictBatch(w) = IF \E i \in DOMAIN w : w[i].questions = Malformed THEN Status(422)
                        ELSE RunBatch(SubSeq(w, 1, IF Len(w) < MaxReqPerBatch THEN Len(w) ELSE MaxReqPerBatch))
  BY DEF PredictBatch
<1>5. n = IF Len(b) < MaxReqPerBatch THEN Len(b) ELSE MaxReqPerBatch
  BY DEF Heard
<1> HIDE DEF w, n
<1>6. w \in [1..Len(b) -> R]
  BY <1>3
<1>7. w \in Seq(R)
  BY <1>1, <1>6, SeqDef
<1>8. Len(w) = Len(b)
  <2>1. 1..Len(w) = 1..Len(b) /\ Len(w) \in Nat
    BY <1>3, <1>7, LenProperties
  <2> QED
    BY <1>1, <2>1
<1>9. DOMAIN pb = 1..n /\ \A i \in 1..n : pb[i] = w[i]
  <2>1. \A i \in 1..n : w[i] \in R
    BY <1>1
  <2>2. pb \in Seq(R) /\ Len(pb) = n /\ \A i \in 1..n : pb[i] = w[i]
    BY <1>1, <2>1, SubSeqProperties
  <2> QED
    BY <2>2, LenProperties
<1>10. /\ ~(\E i \in DOMAIN w : w[i].questions = Malformed)
       /\ PredictBatch(w) = RunBatch(pb)
  <2>1. PredictBatch(w).status = 200
    BY DEF w, Served
  <2>2. Status(422).status # 200
    BY DEF Status
  <2> QED
    BY <1>4, <1>5, <1>8, <2>1, <2>2
<1>11. /\ \A i \in 1..n : /\ pb[i].id = id[b[i]] /\ pb[i].state = b[i]
                           /\ pb[i].questions = questions[b[i]]
       /\ \A i \in DOMAIN b : questions[b[i]] # Malformed
  BY <1>1, <1>2, <1>3, <1>9, <1>10
<1>12. PredictBatch(Payload(b)) = RunBatch(pb)
  BY <1>10 DEF w
<1> HIDE DEF pb
<1> QED
  BY <1>1, <1>9, <1>11, <1>12 DEF n, Served

(* With status 200 there are answers for the requests heard and no other.    *)
LEMMA PredictionAnswers ==
    ASSUME NEW b \in Seq(Req), Served(b),
           \A r \in Elems(b) : questions[r] \in Bodies
    PROVE  /\ DOMAIN PredictBatch(Payload(b)).answers = {id[b[i]] : i \in 1..Heard(b)}
           /\ \A i \in 1..Heard(b) :
                 PredictBatch(Payload(b)).answers[id[b[i]]] \in AnswerSet
           /\ \A r \in Elems(b) :
                 /\ id[r] \in DOMAIN PredictBatch(Payload(b)).answers
                 /\ \A s \in Elems(b) \ {r} : id[s] # id[r]
                 => PredictBatch(Payload(b)).answers[id[r]] = [q \in questions[r] |-> r]
<1> DEFINE n == Heard(b)
           A == PredictBatch(Payload(b)).answers
<1>1. /\ n \in 0..Len(b) /\ Len(b) \in Nat /\ DOMAIN b = 1..Len(b)
      /\ \A i \in DOMAIN b : questions[b[i]] # Malformed
  BY HeardPart
<1>2. PICK pb : /\ DOMAIN pb = 1..n
                /\ \A i \in 1..n : /\ pb[i].id = id[b[i]] /\ pb[i].state = b[i]
                                    /\ pb[i].questions = questions[b[i]]
                /\ PredictBatch(Payload(b)).answers = RunBatch(pb).answers
                /\ RunBatch(pb).status = 200
  BY HeardPart
<1> DEFINE Asked(x) == UNION {pb[i].questions : i \in {j \in DOMAIN pb : pb[j].id = x}}
           Ids == {pb[i].id : i \in DOMAIN pb}
<1>3. A = [x \in Ids |-> [q \in Asked(x) |-> pb[LastAsker(pb, x, q)].state]]
  BY <1>2 DEF RunBatch, Status
<1> HIDE DEF A, n
<1>4. Ids = {id[b[i]] : i \in 1..n}
  BY <1>2
<1>d. n \in Nat /\ \A x, q : q \in Asked(x) <=>
          \E k \in 1..n : pb[k].id = x /\ q \in pb[k].questions
  BY <1>1, <1>2
<1> HIDE DEF Asked, Ids
<1>5. ASSUME NEW x, NEW q \in Asked(x)
      PROVE  /\ LastAsker(pb, x, q) \in 1..n
             /\ pb[LastAsker(pb, x, q)].id = x
             /\ pb[LastAsker(pb, x, q)].state \in Req
  <2>1. PICK k \in 1..n : pb[k].id = x /\ q \in pb[k].questions
    BY <1>5, <1>d
  <2>2. n \in Nat /\ DOMAIN pb = 1..n
    BY <1>1, <1>2
  <2>3. LastAsker(pb, x, q) \in 1..n /\ pb[LastAsker(pb, x, q)].id = x
    BY <2>1, <2>2, AskedLast
  <2>4. b[LastAsker(pb, x, q)] \in Req
    BY <1>1, <2>3, ElementOfSeq
  <2> QED
    BY <1>2, <2>3, <2>4
<1>6. \A x \in Ids : /\ DOMAIN A[x] = Asked(x) /\ A[x] = [q \in DOMAIN A[x] |-> A[x][q]]
                     /\ \A q \in Asked(x) : A[x][q] = pb[LastAsker(pb, x, q)].state
  BY <1>3
<1>7. ASSUME NEW i \in 1..n
      PROVE  A[id[b[i]]] \in AnswerSet
  <2> DEFINE x == id[b[i]]
  <2>1. x \in Ids
    BY <1>4
  <2>2. Asked(x) \subseteq UNION (Bodies \ {Malformed})
    <3>1. ASSUME NEW j \in 1..n PROVE pb[j].questions \in Bodies \ {Malformed}
      <4>1. j \in DOMAIN b /\ pb[j].questions = questions[b[j]] /\ b[j] \in Elems(b)
        BY <1>1, <1>2 DEF Elems
      <4> QED
        BY <1>1, <4>1
    <3> QED
      BY <1>d, <3>1
  <2> HIDE DEF x
  <2>5. \A q \in Asked(x) : A[x][q] \in Req
    <3>1. ASSUME NEW q \in Asked(x) PROVE A[x][q] \in Req
      <4>1. A[x][q] = pb[LastAsker(pb, x, q)].state
        BY <1>6, <2>1, Zenon
      <4>2. pb[LastAsker(pb, x, q)].state \in Req
        BY <1>5
      <4> QED
        BY <4>1, <4>2
    <3> QED
      BY <3>1
  <2>6. DOMAIN A[x] = Asked(x) /\ A[x] = [q \in DOMAIN A[x] |-> A[x][q]]
    BY <1>6, <2>1
  <2>3. A[x] \in [Asked(x) -> Req]
    BY <2>5, <2>6
  <2>4. A[x] \in AnswerSet
    BY <2>2, <2>3 DEF AnswerSet
  <2> QED
    BY <2>4 DEF x
<1>8. ASSUME NEW r \in Elems(b), id[r] \in Ids, \A s \in Elems(b) \ {r} : id[s] # id[r]
      PROVE  A[id[r]] = [q \in questions[r] |-> r]
  <2>1. PICK k \in 1..n : id[b[k]] = id[r]
    BY <1>4, <1>8
  <2>2. \A j \in 1..n : b[j] \in Elems(b)
    BY <1>1 DEF Elems
  <2>3. \A j \in 1..n : id[b[j]] = id[r] => b[j] = r
    BY <1>8, <2>2
  <2>4. Asked(id[r]) = questions[r]
    <3>1. \A j \in 1..n : pb[j].id = id[r] => pb[j].questions = questions[r]
      BY <1>2, <2>3
    <3>2. pb[k].id = id[r]
      BY <1>2, <2>1
    <3>3. Asked(id[r]) \subseteq questions[r]
      BY <1>d, <3>1
    <3>4. questions[r] \subseteq Asked(id[r])
      <4>1. pb[k].questions = questions[r]
        BY <3>1, <3>2
      <4> QED
        BY <1>d, <3>2, <4>1
    <3> QED
      BY <3>3, <3>4, Zenon
  <2>5. \A q \in Asked(id[r]) : pb[LastAsker(pb, id[r], q)].state = r
    BY <1>2, <1>5, <2>3
  <2>7. /\ DOMAIN A[id[r]] = Asked(id[r])
        /\ A[id[r]] = [q \in DOMAIN A[id[r]] |-> A[id[r]][q]]
        /\ \A q \in Asked(id[r]) : A[id[r]][q] = pb[LastAsker(pb, id[r], q)].state
    BY <1>6, <1>8
  <2>6. \A q \in questions[r] : A[id[r]][q] = r
    BY <2>4, <2>5, <2>7
  <2> QED
    BY <2>4, <2>6, <2>7
<1>9. DOMAIN A = {id[b[i]] : i \in 1..n}
  BY <1>3, <1>4
<1>10. \A r \in Elems(b) :
         id[r] \in DOMAIN A /\ (\A s \in Elems(b) \ {r} : id[s] # id[r])
            => A[id[r]] = [q \in questions[r] |-> r]
  BY <1>4, <1>8, <1>9
<1> QED
  BY <1>7, <1>9, <1>10 DEF A, n
-----------------------------------------------------------------------------
(* Every step keeps the invariant *)

LGInv == TypeOK /\ LineOK /\ HandlerOK /\ BatchOK /\ CallOK /\ SentOK

(* A request keeps its id and its questions once it stands in the line, so   *)
(* that a payload built later is the one the invariant speaks of.            *)
LEMMA SamePayload ==
    ASSUME TypeOK, NEW r \in Req, NEW b \in Seq(Req), r \notin Elems(b),
           \A s \in Req \ {r} : id'[s] = id[s] /\ questions'[s] = questions[s]
    PROVE  Payload(b)' = Payload(b) /\ PredictBatch(Payload(b))' = PredictBatch(Payload(b))
<1>1. \A i \in DOMAIN b : b[i] \in Req /\ b[i] # r
  BY ElementOfSeq, LenProperties DEF Elems
<1>2. \A i \in DOMAIN b : id'[b[i]] = id[b[i]] /\ questions'[b[i]] = questions[b[i]]
  BY <1>1
<1>3. Payload(b)' = Payload(b)
  BY <1>2 DEF Payload
<1>4. PredictBatch(Payload(b))' = PredictBatch(Payload(b)')
  OBVIOUS
<1> QED
  BY <1>3, <1>4
LEMMA IdleKeeps ==
    ASSUME LGInv, NEW r \in Req, BadJson(r) \/ NullBody(r) \/ Accept(r)
    PROVE  LGInv'
<1> USE DEF LGInv
<1>1. /\ hpc[r] = "idle" /\ resp[r] = None /\ respCh[r] = None
      /\ r \notin Spawned /\ r \notin Elems(batch) \cup Elems(queue)
  <2>1. hpc[r] = "idle"
    BY DEF BadJson, NullBody, Accept
  <2> QED
    BY <2>1 DEF HandlerOK, LineOK
<1>2. /\ UNCHANGED <<respCh, queue, bpc, batch, launched, statBatches, statBatchSum,
                     dpc, dbatch, next, backend, reply, answers, backendSeq, statErrors>>
      /\ \A s \in Req \ {r} : /\ id'[s] = id[s] /\ questions'[s] = questions[s]
                              /\ hpc'[s] = hpc[s] /\ resp'[s] = resp[s]
      /\ id' \in [Req -> Nat] /\ DOMAIN questions' = Req
      /\ hpc' = [hpc EXCEPT ![r] = hpc'[r]] /\ resp' = [resp EXCEPT ![r] = resp'[r]]
      /\ seq' \in Nat /\ statTotal' \in Nat
      /\ \/ hpc'[r] = "send" /\ resp'[r] = None /\ questions'[r] \in Bodies
         \/ hpc'[r] = "done" /\ resp'[r] \in Turned
  <2>1. CASE BadJson(r)
    BY <2>1, <1>1 DEF BadJson, Respond, Turned, TypeOK, batcherVars, dispatchVars, callVars
  <2>2. CASE NullBody(r)
    BY <2>2, <1>1 DEF NullBody, Respond, Turned, TypeOK, batcherVars, dispatchVars, callVars
  <2>3. CASE Accept(r)
    BY <2>3, <1>1, GateAssumption DEF Accept, Turned, TypeOK, batcherVars, dispatchVars, callVars
  <2> QED
    BY <2>1, <2>2, <2>3
<1>3. Turned \subseteq Response /\ None \notin Response
  BY NilAssumption DEF Turned, Failed, Response
<1>4. TypeOK'
  <2>1. hpc' \in [Req -> {"idle", "send", "wait", "done"}] /\ resp' \in [Req -> Response \cup {None}]
    <3>1. hpc'[r] \in {"idle", "send", "wait", "done"} /\ resp'[r] \in Response \cup {None}
      BY <1>2, <1>3
    <3>2. hpc' = [hpc EXCEPT ![r] = hpc'[r]] /\ resp' = [resp EXCEPT ![r] = resp'[r]]
      BY <1>2
    <3>3. hpc' \in [Req -> {"idle", "send", "wait", "done"}]
      BY <3>1, <3>2 DEF TypeOK
    <3>4. resp' \in [Req -> Response \cup {None}]
      BY <3>1, <3>2 DEF TypeOK
    <3> QED
      BY <3>3, <3>4
  <2>2. UNCHANGED <<respCh, queue, bpc, batch, launched, statBatches, statBatchSum,
                    dpc, dbatch, next, backend, reply, answers, backendSeq, statErrors>>
    BY <1>2
  <2> QED
    BY <1>2, <2>1, <2>2 DEF TypeOK
<1>5. Spawned' = Spawned
  BY <1>2 DEF Spawned
<1>6. LineOK'
  <2>1. \A s \in Elems(batch) \cup Elems(queue) : s # r /\ s \in Req
    BY <1>1, ElemsType DEF TypeOK
  <2>2. UNCHANGED <<respCh, queue, bpc, batch>>
    BY <1>2
  <2> QED
    BY <1>2, <1>5, <2>1, <2>2 DEF LineOK
<1>7. HandlerOK'
  <2>1. \A s \in Req \ {r} :
           /\ (s \in Elems(batch) \cup Elems(queue) \cup Spawned)' <=> s \in Elems(batch) \cup Elems(queue) \cup Spawned
           /\ (s \in Spawned)' <=> s \in Spawned
           /\ respCh'[s] = respCh[s]
    BY <1>2, <1>5
  <2> QED
    BY <1>1, <1>2, <1>3, <1>5, <2>1 DEF HandlerOK, Turned
<1>8. BatchOK'
  <2>1. UNCHANGED <<dpc, dbatch, launched>>
    BY <1>2
  <2> QED
    BY <1>5, <2>1 DEF BatchOK
<1>9. \A d \in Req : /\ r \notin Elems(dbatch[d]) /\ dbatch[d] \in Seq(Req)
                     /\ Prediction(d)' = Prediction(d)
  <2>1. ASSUME NEW d \in Req
        PROVE  r \notin Elems(dbatch[d]) /\ dbatch[d] \in Seq(Req)
    BY <1>1 DEF Spawned, TypeOK
  <2>2. ASSUME NEW d \in Req PROVE Prediction(d)' = Prediction(d)
    <3>1. PICK b \in Seq(Req) : b = dbatch[d] /\ b = dbatch'[d]
      BY <1>2, <2>1
    <3>2. Payload(b)' = Payload(b) /\ PredictBatch(Payload(b))' = PredictBatch(Payload(b))
      BY <1>2, <2>1, <3>1, SamePayload
    <3> QED
      BY <3>1, <3>2 DEF Prediction, Payload
  <2> QED
    BY <2>1, <2>2
<1>10. CallOK'
  BY <1>2, <1>9 DEF CallOK
<1>11. SentOK'
  <2>1. UNCHANGED <<dpc, next, dbatch, answers, respCh>>
    BY <1>2
  <2>2. ASSUME NEW d \in Req, NEW i \in DOMAIN dbatch[d]
        PROVE  Out(dbatch[d][i])' = Out(dbatch[d][i]) /\ Outcome(d, dbatch[d][i])' = Outcome(d, dbatch[d][i])
    <3>1. dbatch[d][i] \in Req \ {r}
      BY <1>9, ElementOfSeq, LenProperties DEF Elems
    <3> QED
      BY <1>2, <2>1, <3>1 DEF Out, Outcome
  <2> QED
    BY <2>1, <2>2 DEF SentOK
<1> QED
  BY <1>4, <1>6, <1>7, <1>8, <1>10, <1>11
(* What a step that leaves the batches, the calls or the replies alone keeps.*)
LEMMA BatchesKept ==
    ASSUME BatchOK, UNCHANGED <<dpc, dbatch, launched>>
    PROVE  BatchOK' /\ Spawned' = Spawned
<1>1. Spawned' = Spawned
  BY DEF Spawned
<1> QED
  BY <1>1 DEF BatchOK

LEMMA CallsKept ==
    ASSUME CallOK, UNCHANGED <<id, questions, dpc, dbatch, backend, reply, answers>>
    PROVE  CallOK'
<1>1. \A d \in Req : Prediction(d)' = Prediction(d)
  BY DEF Prediction, Payload
<1> QED
  BY <1>1 DEF CallOK

LEMMA RepliesKept ==
    ASSUME SentOK, UNCHANGED <<id, dpc, dbatch, next, answers, respCh, resp>>
    PROVE  SentOK'
BY DEF SentOK, Out, Outcome

LEMMA EnqueueKeeps ==
    ASSUME LGInv, NEW r \in Req, Enqueue(r)
    PROVE  LGInv'
<1> USE DEF LGInv
<1>1. /\ hpc[r] = "send" /\ queue' = Append(queue, r)
      /\ hpc' = [hpc EXCEPT ![r] = "wait"]
      /\ UNCHANGED <<id, questions, seq, resp, statTotal, respCh, bpc, batch, expired,
                     launched, statBatches, statBatchSum, dpc, next, dbatch, backend,
                     reply, answers, backendSeq, statErrors>>
  BY DEF Enqueue, batcherVars, dispatchVars, callVars
<1>2. TypeOK'
  <2>1. queue' \in Seq(Req) /\ hpc' \in [Req -> {"idle", "send", "wait", "done"}]
    BY <1>1, AppendProperties DEF TypeOK
  <2> QED
    BY <1>1, <2>1 DEF TypeOK
<1>3. BatchOK' /\ Spawned' = Spawned
  BY <1>1, BatchesKept
<1>4. CallOK'
  BY <1>1, CallsKept
<1>5. SentOK'
  BY <1>1, RepliesKept
<1>6. Elems(queue)' = Elems(queue) \cup {r}
  BY <1>1, ElemsAppend DEF TypeOK
<1>7. /\ r \notin Elems(batch) \cup Elems(queue) /\ r \notin Spawned
      /\ respCh[r] = None /\ resp[r] = None
  BY <1>1 DEF LineOK, HandlerOK
<1>8. Distinct(queue')
  <2>1. /\ \A i \in DOMAIN queue' : queue'[i] = IF i = Len(queue) + 1 THEN r ELSE queue[i]
        /\ DOMAIN queue' = 1..(Len(queue) + 1) /\ DOMAIN queue = 1..Len(queue)
        /\ Len(queue) \in Nat
    BY <1>1, AppendProperties, LenProperties DEF TypeOK
  <2>2. \A i \in DOMAIN queue : queue[i] # r
    BY <1>7 DEF Elems
  <2> QED
    BY <2>1, <2>2 DEF LineOK, Distinct
<1>9. LineOK'
  <2>1. UNCHANGED <<respCh, bpc, batch>>
    BY <1>1
  <2>2. \A s \in Elems(batch) \cup Elems(queue) \cup {r} :
           s \notin Spawned /\ hpc'[s] = "wait" /\ respCh[s] = None
    <3>1. Elems(batch) \cup Elems(queue) \subseteq Req
      BY ElemsType DEF TypeOK
    <3> QED
      BY <1>1, <1>7, <3>1 DEF LineOK, TypeOK
  <2> QED
    BY <1>3, <1>6, <1>7, <1>8, <2>1, <2>2 DEF LineOK
<1>10. HandlerOK'
  <2>1. UNCHANGED <<respCh, resp, questions, batch>>
    BY <1>1
  <2>2. \A s \in Req : hpc'[s] = IF s = r THEN "wait" ELSE hpc[s]
    BY <1>1 DEF TypeOK
  <2> QED
    BY <1>1, <1>3, <1>6, <1>7, <2>1, <2>2 DEF HandlerOK
<1> QED
  BY <1>2, <1>3, <1>4, <1>5, <1>9, <1>10

LEMMA QueueFullKeeps ==
    ASSUME LGInv, NEW r \in Req, QueueFull(r)
    PROVE  LGInv'
<1> USE DEF LGInv
<1>1. /\ hpc[r] = "send"
      /\ hpc' = [hpc EXCEPT ![r] = "done"] /\ resp' = [resp EXCEPT ![r] = Failed(503)]
      /\ UNCHANGED <<id, questions, seq, statTotal, respCh, queue, bpc, batch, expired,
                     launched, statBatches, statBatchSum, dpc, next, dbatch, backend,
                     reply, answers, backendSeq, statErrors>>
  BY DEF QueueFull, Respond, batcherVars, dispatchVars, callVars
<1>2. /\ Failed(503) \in Response /\ Failed(503) # None /\ Failed(503) \notin Turned
      /\ None \notin Turned
  BY NilAssumption DEF Response, Failed, Turned
<1>3. TypeOK'
  <2>1. resp' \in [Req -> Response \cup {None}] /\ hpc' \in [Req -> {"idle", "send", "wait", "done"}]
    BY <1>1, <1>2 DEF TypeOK
  <2> QED
    BY <1>1, <2>1 DEF TypeOK
<1>4. BatchOK' /\ Spawned' = Spawned
  BY <1>1, BatchesKept
<1>5. CallOK'
  BY <1>1, CallsKept
<1>6. /\ r \notin Elems(batch) \cup Elems(queue) /\ r \notin Spawned
      /\ respCh[r] = None /\ resp[r] = None
  BY <1>1 DEF LineOK, HandlerOK
<1>7. SentOK'
  <2>1. UNCHANGED <<id, dpc, dbatch, next, answers, respCh>>
    BY <1>1
  <2>2. ASSUME NEW d \in Req, NEW i \in DOMAIN dbatch[d]
        PROVE  Out(dbatch[d][i])' = Out(dbatch[d][i]) /\ Outcome(d, dbatch[d][i])' = Outcome(d, dbatch[d][i])
    <3>1. dbatch[d][i] \in Spawned
      BY DEF Spawned, Elems
    <3>2. dbatch[d][i] # r
      BY <1>6, <3>1
    <3> QED
      BY <1>1, <2>1, <3>2 DEF Out, Outcome, TypeOK
  <2> QED
    BY <2>1, <2>2 DEF SentOK
<1>8. LineOK'
  <2>1. UNCHANGED <<respCh, bpc, batch, queue>>
    BY <1>1
  <2>2. \A s \in Elems(batch) \cup Elems(queue) : hpc'[s] = hpc[s]
    <3>1. Elems(batch) \cup Elems(queue) \subseteq Req
      BY ElemsType DEF TypeOK
    <3> QED
      BY <1>1, <1>6, <3>1 DEF TypeOK
  <2> QED
    BY <1>4, <2>1, <2>2 DEF LineOK
<1>9. HandlerOK'
  <2>1. UNCHANGED <<respCh, questions, batch, queue>>
    BY <1>1
  <2>2. \A s \in Req : /\ hpc'[s] = IF s = r THEN "done" ELSE hpc[s]
                       /\ resp'[s] = IF s = r THEN Failed(503) ELSE resp[s]
    BY <1>1 DEF TypeOK
  <2> QED
    BY <1>1, <1>2, <1>4, <1>6, <2>1, <2>2 DEF HandlerOK
<1> QED
  BY <1>3, <1>4, <1>5, <1>7, <1>8, <1>9

LEMMA ReceiveKeeps ==
    ASSUME LGInv, NEW r \in Req, Receive(r)
    PROVE  LGInv'
<1> USE DEF LGInv
<1>1. /\ hpc[r] = "wait" /\ respCh[r] # None
      /\ hpc' = [hpc EXCEPT ![r] = "done"] /\ resp' = [resp EXCEPT ![r] = respCh[r]]
      /\ respCh' = [respCh EXCEPT ![r] = None]
      /\ UNCHANGED <<id, questions, seq, statTotal, queue, bpc, batch, expired,
                     launched, statBatches, statBatchSum, dpc, next, dbatch, backend,
                     reply, answers, backendSeq, statErrors>>
  BY DEF Receive, Respond, batcherVars, dispatchVars, callVars
<1>2. /\ r \in Spawned /\ r \notin Elems(batch) \cup Elems(queue) /\ respCh[r] \in Response
      /\ resp[r] = None /\ respCh[r] \notin Turned /\ None \notin Turned
  BY <1>1, NilAssumption, SMTT(20) DEF HandlerOK, LineOK, TypeOK, Turned, Failed, Response
<1>3. TypeOK'
  <2>1. /\ resp' \in [Req -> Response \cup {None}] /\ respCh' \in [Req -> Response \cup {None}]
        /\ hpc' \in [Req -> {"idle", "send", "wait", "done"}]
    BY <1>1, <1>2 DEF TypeOK
  <2> QED
    BY <1>1, <2>1 DEF TypeOK
<1>4. BatchOK' /\ Spawned' = Spawned
  BY <1>1, BatchesKept
<1>5. CallOK'
  BY <1>1, CallsKept
<1>6. \A s \in Req : Out(s)' = Out(s)
  BY <1>1, <1>2 DEF Out, TypeOK
<1>7. SentOK'
  <2>1. UNCHANGED <<id, dpc, dbatch, next, answers>>
    BY <1>1
  <2>2. \A d \in Req : \A i \in DOMAIN dbatch[d] : dbatch[d][i] \in Req
    BY ElementOfSeq, LenProperties DEF TypeOK
  <2>3. \A d, s : Outcome(d, s)' = Outcome(d, s)
    BY <2>1 DEF Outcome
  <2> QED
    BY <1>6, <2>1, <2>2, <2>3 DEF SentOK
<1>8. LineOK'
  <2>1. UNCHANGED <<bpc, batch, queue>>
    BY <1>1
  <2>2. \A s \in Elems(batch) \cup Elems(queue) : hpc'[s] = hpc[s] /\ respCh'[s] = respCh[s]
    <3>1. Elems(batch) \cup Elems(queue) \subseteq Req
      BY ElemsType DEF TypeOK
    <3> QED
      BY <1>1, <1>2, <3>1 DEF TypeOK
  <2> QED
    BY <1>4, <2>1, <2>2 DEF LineOK
<1>9. HandlerOK'
  <2>1. UNCHANGED <<questions, batch, queue>>
    BY <1>1
  <2>2. \A s \in Req : /\ hpc'[s] = IF s = r THEN "done" ELSE hpc[s]
                       /\ resp'[s] = IF s = r THEN respCh[r] ELSE resp[s]
                       /\ respCh'[s] = IF s = r THEN None ELSE respCh[s]
    BY <1>1 DEF TypeOK
  <2> QED
    BY <1>1, <1>2, <1>4, <2>1, <2>2 DEF HandlerOK
<1> QED
  BY <1>3, <1>4, <1>5, <1>7, <1>8, <1>9
LEMMA TakeKeeps ==
    ASSUME LGInv, Open \/ Take \/ Drain
    PROVE  LGInv'
<1> USE DEF LGInv
<1>1. /\ queue # <<>> /\ queue' = Tail(queue) /\ batch' = Append(batch, Head(queue))
      /\ bpc' \in {"fill", "drain"}
      /\ Len(batch) < BatchMax \/ batch = <<>>
      /\ UNCHANGED <<id, questions, seq, hpc, resp, statTotal, respCh, launched,
                     statBatches, statBatchSum, dpc, next, dbatch, backend,
                     reply, answers, backendSeq, statErrors>>
  <2>1. CASE Open
    BY <2>1 DEF Open, TakeNext, requestVars, dispatchVars, callVars, LineOK
  <2>2. CASE Take
    BY <2>2 DEF Take, TakeNext, requestVars, dispatchVars, callVars, LineOK
  <2>3. CASE Drain
    <3>1. Len(batch) < BatchMax
      BY <2>3, LenProperties, GateAssumption DEF Drain, Full, TypeOK
    <3> QED
      BY <2>3, <3>1 DEF Drain, TakeNext, requestVars, dispatchVars, callVars
  <2> QED
    BY <2>1, <2>2, <2>3
<1>2. /\ Head(queue) \in Req /\ Tail(queue) \in Seq(Req) /\ Head(queue) = queue[1]
      /\ Elems(queue) = {Head(queue)} \cup Elems(Tail(queue))
      /\ DOMAIN queue = 1..Len(queue) /\ Len(queue) \in Nat /\ Len(queue) > 0
      /\ Len(Tail(queue)) = Len(queue) - 1 /\ DOMAIN Tail(queue) = 1..(Len(queue) - 1)
      /\ \A i \in DOMAIN Tail(queue) : Tail(queue)[i] = queue[i + 1]
  <2>1. queue \in Seq(Req)
    BY DEF TypeOK
  <2> QED
    BY <1>1, <2>1, ElemsHeadTail, HeadTailProperties, EmptySeq, LenProperties
<1>3. /\ Elems(queue') = Elems(queue) \ {Head(queue)} /\ Distinct(queue')
      /\ Head(queue) \in Elems(queue)
  <2>1. \A i, j \in DOMAIN queue : queue[i] = queue[j] => i = j
    BY DEF LineOK, Distinct
  <2>2. \A i \in DOMAIN queue' : /\ i + 1 \in DOMAIN queue /\ queue'[i] = queue[i + 1]
                                 /\ i \in Nat \ {0}
    BY <1>1, <1>2
  <2>3. Distinct(queue')
    <3>1. ASSUME NEW i \in DOMAIN queue', NEW j \in DOMAIN queue', queue'[i] = queue'[j]
          PROVE  i = j
      <4>1. queue[i + 1] = queue[j + 1]
        BY <2>2, <3>1
      <4>2. i + 1 = j + 1
        BY <2>1, <2>2, <4>1
      <4> QED
        BY <2>2, <4>2
    <3> QED
      BY <3>1 DEF Distinct
  <2>4. \A i \in DOMAIN queue' : queue'[i] # Head(queue)
    <3>1. ASSUME NEW i \in DOMAIN queue' PROVE queue'[i] # Head(queue)
      <4>1. 1 \in DOMAIN queue /\ i + 1 # 1
        BY <1>2, <2>2
      <4> QED
        BY <1>2, <2>1, <2>2, <4>1
    <3> QED
      BY <3>1
  <2>5. Head(queue) \notin Elems(queue')
    BY <2>4 DEF Elems
  <2> QED
    BY <1>1, <1>2, <2>3, <2>5
<1>4. /\ batch' \in Seq(Req) /\ Elems(batch') = Elems(batch) \cup {Head(queue)}
      /\ Len(batch') = Len(batch) + 1 /\ Len(batch) \in Nat
      /\ DOMAIN batch = 1..Len(batch) /\ DOMAIN batch' = 1..(Len(batch) + 1)
      /\ \A i \in DOMAIN batch' : batch'[i] = IF i = Len(batch) + 1 THEN Head(queue) ELSE batch[i]
  <2>1. batch \in Seq(Req)
    BY DEF TypeOK
  <2> QED
    BY <1>1, <1>2, <2>1, ElemsAppend, AppendProperties, LenProperties
<1>5. TypeOK'
  BY <1>1, <1>2, <1>4 DEF TypeOK
<1>6. BatchOK' /\ Spawned' = Spawned
  BY <1>1, BatchesKept
<1>7. CallOK'
  BY <1>1, CallsKept
<1>8. SentOK'
  BY <1>1, RepliesKept
<1>9. Elems(batch') \cup Elems(queue') = Elems(batch) \cup Elems(queue)
  BY <1>3, <1>4
<1>10. HandlerOK'
  <2>1. UNCHANGED <<hpc, resp, respCh, questions>>
    BY <1>1
  <2>2. \A s : s \in Elems(batch') \cup Elems(queue') \cup Spawned
                  <=> s \in Elems(batch) \cup Elems(queue) \cup Spawned
    BY <1>9
  <2> QED
    BY <1>6, <2>1, <2>2 DEF HandlerOK
<1>11. LineOK'
  <2>1. Head(queue) \notin Elems(batch)
    BY <1>3 DEF LineOK
  <2>2. Distinct(batch')
    <3>1. \A i \in DOMAIN batch : batch[i] # Head(queue)
      BY <2>1 DEF Elems
    <3> QED
      BY <1>4, <3>1 DEF LineOK, Distinct
  <2>3. Elems(batch') \cap Elems(queue') = {}
    BY <1>3, <1>4 DEF LineOK
  <2>4. SizeOK(batch')
    BY <1>1, <1>4, GateAssumption, EmptySeq DEF SizeOK
  <2>5. batch' # <<>>
    BY <1>4, EmptySeq
  <2>6. \A s \in Elems(batch') \cup Elems(queue') :
           (s \notin Spawned /\ hpc[s] = "wait" /\ respCh[s] = None)'
    BY <1>1, <1>6, <1>9 DEF LineOK
  <2> QED
    BY <1>1, <1>3, <2>2, <2>3, <2>4, <2>5, <2>6 DEF LineOK
<1> QED
  BY <1>5, <1>6, <1>7, <1>8, <1>10, <1>11

LEMMA GotoKeeps ==
    ASSUME LGInv, \/ FillFull \/ FillWait \/ FillDrain \/ TimerFires \/ DrainEnds
                  \/ CountBatch \/ Expire
    PROVE  LGInv'
<1> USE DEF LGInv
<1>1. /\ bpc # "first" /\ bpc' \in {"fill", "wait", "drain", "launch", "send"}
      /\ bpc' = "wait" => Len(batch) < BatchMax
      /\ statBatches' \in Nat
      /\ UNCHANGED <<id, questions, seq, hpc, resp, statTotal, respCh, launched, queue, batch,
                     statBatchSum, dpc, next, dbatch, backend,
                     reply, answers, backendSeq, statErrors>>
  <2>1. CASE FillFull
    BY <2>1 DEF FillFull, Goto, requestVars, dispatchVars, callVars, TypeOK
  <2>2. CASE FillWait
    <3>1. Len(batch) < BatchMax
      BY <2>2, LenProperties, GateAssumption DEF FillWait, Full, TypeOK
    <3> QED
      BY <2>2, <3>1 DEF FillWait, Goto, requestVars, dispatchVars, callVars, TypeOK
  <2>3. CASE FillDrain
    BY <2>3 DEF FillDrain, Goto, requestVars, dispatchVars, callVars, TypeOK
  <2>4. CASE TimerFires
    BY <2>4 DEF TimerFires, Goto, requestVars, dispatchVars, callVars, TypeOK
  <2>5. CASE DrainEnds
    BY <2>5 DEF DrainEnds, Goto, requestVars, dispatchVars, callVars, TypeOK
  <2>6. CASE CountBatch
    BY <2>6 DEF CountBatch, requestVars, dispatchVars, callVars, TypeOK
  <2>7. CASE Expire
    BY <2>7 DEF Expire, requestVars, dispatchVars, callVars, TypeOK, LineOK
  <2> QED
    BY <2>1, <2>2, <2>3, <2>4, <2>5, <2>6, <2>7
<1>2. TypeOK'
  BY <1>1 DEF TypeOK
<1>3. BatchOK' /\ Spawned' = Spawned
  BY <1>1, BatchesKept
<1>4. CallOK'
  BY <1>1, CallsKept
<1>5. SentOK'
  BY <1>1, RepliesKept
<1>6. LineOK'
  BY <1>1, <1>3 DEF LineOK
<1>7. HandlerOK'
  BY <1>1, <1>3 DEF HandlerOK
<1> QED
  BY <1>2, <1>3, <1>4, <1>5, <1>6, <1>7

LEMMA LaunchKeeps ==
    ASSUME LGInv, Launch
    PROVE  LGInv'
<1> USE DEF LGInv
<1> DEFINE e == Head(batch)
<1>1. /\ bpc = "send" /\ bpc' = "first" /\ batch' = <<>>
      /\ statBatchSum' = statBatchSum + Len(batch)
      /\ launched' = Append(launched, batch)
      /\ dbatch' = [dbatch EXCEPT ![e] = batch]
      /\ dpc' = [dpc EXCEPT ![e] = "post"]
      /\ UNCHANGED <<id, questions, seq, hpc, resp, statTotal, respCh, queue, next, backend,
                     reply, answers, backendSeq, statBatches, statErrors>>
  BY DEF Launch, requestVars
<1>2. /\ batch \in Seq(Req) /\ batch # <<>> /\ e \in Req /\ e \in Elems(batch)
      /\ Len(batch) \in Nat /\ DOMAIN batch = 1..Len(batch)
  <2>1. batch \in Seq(Req) /\ batch # <<>>
    BY <1>1 DEF LineOK, TypeOK
  <2> QED
    BY <2>1, ElemsHeadTail, LenProperties
<1>3. dpc[e] = "none" /\ dbatch[e] = <<>>
  <2>1. e \notin Elems(dbatch[e])
    BY <1>2 DEF LineOK, Spawned
  <2> QED
    BY <1>2, <2>1 DEF BatchOK
<1>4. \A d \in Req : /\ dbatch'[d] = IF d = e THEN batch ELSE dbatch[d]
                     /\ dpc'[d] = IF d = e THEN "post" ELSE dpc[d]
  BY <1>1 DEF TypeOK
<1>5. Spawned' = Spawned \cup Elems(batch)
  <2>1. Elems(dbatch[e]) = {}
    BY <1>3, ElemsEmpty
  <2>2. \A d \in Req : Elems(dbatch'[d]) = IF d = e THEN Elems(batch) ELSE Elems(dbatch[d])
    BY <1>4
  <2> QED
    BY <1>2, <2>1, <2>2 DEF Spawned
<1> HIDE DEF e
<1>6. \A i \in DOMAIN batch : /\ batch[i] \in Elems(batch) /\ batch[i] \in Req
                              /\ Out(batch[i]) = None
  <2>1. ASSUME NEW i \in DOMAIN batch
        PROVE  batch[i] \in Elems(batch) /\ batch[i] \in Req /\ Out(batch[i]) = None
    <3>1. batch[i] \in Elems(batch) /\ batch[i] \in Req
      BY <1>2, ElemsType DEF Elems
    <3>2. hpc[batch[i]] = "wait" /\ respCh[batch[i]] = None
      BY <3>1 DEF LineOK
    <3>3. resp[batch[i]] = None
      BY <3>1, <3>2 DEF HandlerOK
    <3> QED
      BY <3>1, <3>2, <3>3 DEF Out
  <2> QED
    BY <2>1
<1>7. TypeOK'
  <2>1. launched' \in Seq(Seq(Req)) /\ statBatchSum' \in Nat /\ batch' \in Seq(Req)
    BY <1>1, <1>2, AppendProperties, EmptySeq DEF TypeOK
  <2>2. dbatch' \in [Req -> Seq(Req)]
        /\ dpc' \in [Req -> {"none", "post", "await", "fail", "reply", "done"}]
    BY <1>1, <1>2 DEF TypeOK
  <2> QED
    BY <1>1, <2>1, <2>2 DEF TypeOK
<1>8. LineOK'
  <2>1. /\ Elems(batch') = {} /\ Distinct(batch') /\ Len(batch') = 0
    BY <1>1, ElemsEmpty, EmptySeq, LenProperties DEF Distinct
  <2>2. UNCHANGED <<queue, hpc, respCh>>
    BY <1>1
  <2>3. \A s \in Elems(queue) : s \notin Spawned'
    BY <1>5 DEF LineOK
  <2>4. SizeOK(batch')
    BY <2>1, GateAssumption DEF SizeOK
  <2> QED
    BY <1>1, <2>1, <2>2, <2>3, <2>4 DEF LineOK
<1>9. HandlerOK'
  <2>1. UNCHANGED <<questions, queue, hpc, respCh, resp>>
    BY <1>1
  <2>2. Elems(batch') = {}
    BY <1>1, ElemsEmpty
  <2>3. \A s \in Elems(batch) : hpc[s] = "wait" /\ resp[s] \notin Turned /\ s \in Req
    <3>1. ASSUME NEW s \in Elems(batch) PROVE hpc[s] = "wait" /\ resp[s] \notin Turned /\ s \in Req
      <4>1. hpc[s] = "wait" /\ s \in Req
        BY <1>2, ElemsType DEF LineOK
      <4>2. resp[s] = None
        BY <4>1 DEF HandlerOK
      <4> QED
        BY <4>1, <4>2, NilAssumption DEF Turned, Failed, Response
    <3> QED
      BY <3>1
  <2> QED
    BY <1>5, <2>1, <2>2, <2>3 DEF HandlerOK
<1>10. BatchOK'
  <2>1. \A d \in Req : IF dpc'[d] = "none" THEN dbatch'[d] = <<>> ELSE d \in Elems(dbatch'[d])
    BY <1>2, <1>4 DEF BatchOK
  <2>2. \A d, f \in Req : d # f => Elems(dbatch'[d]) \cap Elems(dbatch'[f]) = {}
    <3>1. \A d \in Req : Elems(dbatch[d]) \subseteq Spawned
      BY DEF Spawned
    <3>2. Elems(batch) \cap Spawned = {}
      BY DEF LineOK
    <3> QED
      BY <1>4, <3>1, <3>2 DEF BatchOK
  <2>3. \A d \in Req : Distinct(dbatch'[d]) /\ SizeOK(dbatch'[d])
    BY <1>4 DEF BatchOK, LineOK
  <2>4. /\ DOMAIN launched = 1..Len(launched) /\ DOMAIN launched' = 1..(Len(launched) + 1)
        /\ Len(launched) \in Nat /\ launched'[Len(launched) + 1] = batch
        /\ \A i \in DOMAIN launched : launched'[i] = launched[i]
    <3>1. launched \in Seq(Seq(Req)) /\ launched' = Append(launched, batch)
      BY <1>1 DEF TypeOK
    <3>2. DOMAIN launched = 1..Len(launched) /\ Len(launched) \in Nat
      BY <3>1, LenProperties
    <3>3. /\ launched' \in Seq(Seq(Req)) /\ Len(launched') = Len(launched) + 1
          /\ \A i \in 1..Len(launched) : launched'[i] = launched[i]
          /\ launched'[Len(launched) + 1] = batch
      BY <1>2, <3>1, AppendProperties
    <3>4. DOMAIN launched' = 1..Len(launched')
      BY <3>3, LenProperties
    <3> QED
      BY <3>2, <3>3, <3>4
  <2>5. \A d \in Req : dpc'[d] # "none" => \E i \in DOMAIN launched' : launched'[i] = dbatch'[d]
    <3>1. ASSUME NEW d \in Req, dpc'[d] # "none"
          PROVE  \E i \in DOMAIN launched' : launched'[i] = dbatch'[d]
      <4>1. CASE d = e
        BY <1>4, <2>4, <4>1
      <4>2. CASE d # e
        <5>1. PICK i \in DOMAIN launched : launched[i] = dbatch[d]
          BY <1>4, <3>1, <4>2 DEF BatchOK
        <5> QED
          BY <1>4, <2>4, <4>2, <5>1
      <4> QED
        BY <4>1, <4>2
    <3> QED
      BY <3>1
  <2>6. \A i \in DOMAIN launched' : Elems(launched'[i]) \subseteq Spawned'
    BY <1>5, <2>4 DEF BatchOK
  <2> QED
    BY <2>1, <2>2, <2>3, <2>5, <2>6 DEF BatchOK
<1>11. CallOK'
  <2>1. \A d \in Req \ {e} : Prediction(d)' = Prediction(d)
    BY <1>1, <1>4 DEF Prediction, Payload
  <2>2. backend[e] = 0 /\ reply[e] = None /\ answers[e] = NoReply
    BY <1>2, <1>3 DEF CallOK
  <2>3. UNCHANGED <<backend, reply, answers>>
    BY <1>1
  <2> QED
    BY <1>4, <2>1, <2>2, <2>3 DEF CallOK
<1>12. SentOK'
  <2>1. UNCHANGED <<next, answers, respCh, resp, id>>
    BY <1>1
  <2>2. next[e] = 1
    BY <1>2, <1>3 DEF SentOK
  <2>3. \A s : Out(s)' = Out(s) /\ \A d : Outcome(d, s)' = Outcome(d, s)
    BY <2>1 DEF Out, Outcome
  <2> QED
    BY <1>2, <1>4, <1>6, <2>1, <2>2, <2>3 DEF SentOK
<1> QED
  BY <1>7, <1>8, <1>9, <1>10, <1>11, <1>12
(* The steps of a call: the line and the handlers are not involved.          *)
LEMMA CallFrame ==
    ASSUME LGInv, \A f \in Req : dpc'[f] = "none" <=> dpc[f] = "none",
           UNCHANGED <<hpc, resp, respCh, questions, queue, bpc, batch, launched, dbatch>>
    PROVE  LineOK' /\ HandlerOK' /\ BatchOK'
<1>1. Spawned' = Spawned
  BY DEF Spawned
<1>2. LineOK'
  BY <1>1 DEF LGInv, LineOK
<1>3. HandlerOK'
  BY <1>1 DEF LGInv, HandlerOK
<1>4. BatchOK'
  BY <1>1 DEF LGInv, BatchOK
<1> QED
  BY <1>2, <1>3, <1>4

LEMMA CallKeeps ==
    ASSUME LGInv, NEW d \in Req,
           Post(d) \/ Serve(d) \/ Arrive(d) \/ Lose(d) \/ CountErrors(d) \/ Finish(d)
    PROVE  LGInv'
<1> USE DEF LGInv
<1>1. /\ UNCHANGED <<id, questions, seq, hpc, resp, statTotal, respCh, queue, bpc, batch,
                     launched, statBatches, statBatchSum, dbatch, next>>
      /\ statErrors' \in Nat /\ backendSeq' \in Nat
      /\ \A f \in Req \ {d} : /\ dpc'[f] = dpc[f] /\ backend'[f] = backend[f]
                              /\ reply'[f] = reply[f] /\ answers'[f] = answers[f]
      /\ DOMAIN backend' = Req /\ DOMAIN reply' = Req /\ DOMAIN answers' = Req
      /\ dpc' = [dpc EXCEPT ![d] = dpc'[d]] /\ dpc'[d] \in {"post", "await", "fail", "reply", "done"}
      /\ dpc[d] # "none"
      /\ dpc'[d] = "done" => next[d] > Len(dbatch[d])
      /\ dpc[d] \in {"reply", "done"} => dpc'[d] \in {"reply", "done"} /\ answers'[d] = answers[d]
      /\ dpc'[d] # "post"
      /\ reply'[d] # None => reply'[d] = Prediction(d)
      /\ \/ answers'[d] = NoReply
         \/ /\ dpc'[d] \in {"reply", "done"}
            /\ Prediction(d).status = 200 /\ answers'[d] = Prediction(d).answers
  <2> USE DEF requestVars, batcherVars, callVars, Enter, TypeOK
  <2>0. dbatch[d] \in Seq(Req) /\ Len(dbatch[d]) \in Nat
    BY LenProperties
  <2>1. CASE Post(d)
    <3>1. /\ dpc[d] = "post" /\ reply[d] = None /\ answers[d] = NoReply
      BY <2>1 DEF Post, CallOK
    <3>2. /\ dpc' = [dpc EXCEPT ![d] = "await"] /\ backendSeq' = backendSeq + 1
          /\ backend' = [backend EXCEPT ![d] = (backendSeq % Backends) + 1]
          /\ UNCHANGED <<id, questions, seq, hpc, resp, statTotal, respCh, queue, bpc, batch,
                         launched, statBatches, statBatchSum, dbatch, next, reply, answers,
                         statErrors>>
      BY <2>1 DEF Post
    <3>3. dpc'[d] = "await" /\ reply'[d] = None /\ answers'[d] = NoReply
      BY <3>1, <3>2
    <3>4. /\ \A f \in Req \ {d} : dpc'[f] = dpc[f] /\ backend'[f] = backend[f]
          /\ DOMAIN backend' = Req /\ dpc' = [dpc EXCEPT ![d] = dpc'[d]]
      BY <3>2
    <3> QED
      BY <3>1, <3>2, <3>3, <3>4
  <2>2. CASE Serve(d)
    BY <2>2 DEF Serve, CallOK, SentOK, Prediction
  <2>3. CASE Arrive(d)
    BY <2>3 DEF Arrive, CallOK
  <2>4. CASE Lose(d)
    BY <2>4, ZenonT(20) DEF Lose, CallOK
  <2>5. CASE CountErrors(d)
    BY <2>0, <2>5 DEF CountErrors, CallOK
  <2>6. CASE Finish(d)
    BY <2>6 DEF Finish, CallOK
  <2> QED
    BY <2>1, <2>2, <2>3, <2>4, <2>5, <2>6
<1>2. TypeOK'
  <2>1. dpc' \in [Req -> {"none", "post", "await", "fail", "reply", "done"}]
    BY <1>1, ZenonT(20) DEF TypeOK
  <2>2. /\ UNCHANGED <<id, questions, seq, hpc, resp, statTotal, respCh, queue, bpc, batch,
                       launched, statBatches, statBatchSum, dbatch, next>>
        /\ statErrors' \in Nat /\ backendSeq' \in Nat
        /\ DOMAIN backend' = Req /\ DOMAIN reply' = Req /\ DOMAIN answers' = Req
    BY <1>1
  <2> QED
    BY <2>1, <2>2 DEF TypeOK
<1>3. LineOK' /\ HandlerOK' /\ BatchOK'
  BY <1>1, CallFrame
<1>4. CallOK'
  <2>1. \A f \in Req : Prediction(f)' = Prediction(f)
    BY <1>1 DEF Prediction, Payload
  <2> QED
    BY <1>1, <2>1 DEF CallOK
<1>5. SentOK'
  <2>1. \A s : Out(s)' = Out(s)
    BY <1>1 DEF Out
  <2>2. \A f \in Req \ {d} : \A s : Outcome(f, s)' = Outcome(f, s)
    BY <1>1 DEF Outcome
  <2>3. dpc[d] \in {"reply", "done"} => \A s : Outcome(d, s)' = Outcome(d, s)
    BY <1>1 DEF Outcome
  <2>4. dpc[d] \notin {"reply", "done"} => next[d] = 1 /\ \A i \in DOMAIN dbatch[d] : ~(i < 1)
    BY LenProperties DEF SentOK, TypeOK
  <2>5. UNCHANGED <<dbatch, next>>
    BY <1>1
  <2> QED
    BY <1>1, <2>1, <2>2, <2>3, <2>4, <2>5 DEF SentOK
<1> QED
  BY <1>2, <1>3, <1>4, <1>5

LEMMA SendKeeps ==
    ASSUME LGInv, NEW d \in Req, Send(d)
    PROVE  LGInv'
<1> USE DEF LGInv
<1> DEFINE r == dbatch[d][next[d]]
<1>1. /\ dpc[d] = "reply" /\ next[d] \in DOMAIN dbatch[d] /\ respCh[r] = None
      /\ respCh' = [respCh EXCEPT ![r] = Outcome(d, r)]
      /\ next' = [next EXCEPT ![d] = next[d] + 1]
      /\ UNCHANGED <<id, questions, seq, hpc, resp, statTotal, queue, bpc, batch, launched,
                     statBatches, statBatchSum, dpc, dbatch, backend,
                     reply, answers, backendSeq, statErrors>>
  <2>1. /\ dpc[d] = "reply" /\ next[d] <= Len(dbatch[d]) /\ respCh[r] = None
        /\ respCh' = [respCh EXCEPT ![r] = Outcome(d, r)]
        /\ next' = [next EXCEPT ![d] = next[d] + 1]
        /\ UNCHANGED <<id, questions, seq, hpc, resp, statTotal, queue, bpc, batch, launched,
                       statBatches, statBatchSum, dpc, dbatch, backend,
                       reply, answers, backendSeq, statErrors>>
    BY DEF Send, requestVars, batcherVars, callVars
  <2>2. next[d] \in Nat \ {0} /\ Len(dbatch[d]) \in Nat /\ DOMAIN dbatch[d] = 1..Len(dbatch[d])
    BY LenProperties DEF TypeOK
  <2> QED
    BY <2>1, <2>2
<1>2. r \in Elems(dbatch[d]) /\ r \in Req /\ r \in Spawned /\ dbatch[d] \in Seq(Req)
  <2>1. dbatch[d] \in Seq(Req)
    BY DEF TypeOK
  <2>2. r \in Elems(dbatch[d])
    BY <1>1 DEF Elems
  <2>3. Elems(dbatch[d]) \subseteq Req
    BY <2>1, ElemsType
  <2> QED
    BY <2>1, <2>2, <2>3 DEF Spawned
<1>3. Out(r) = None /\ hpc[r] = "wait" /\ resp[r] = None
  <2>1. next[d] \in Nat
    BY DEF TypeOK
  <2>2. Out(r) = None
    BY <1>1, <2>1 DEF SentOK
  <2>3. resp[r] = None
    BY <1>1, <2>2 DEF Out
  <2> QED
    BY <1>2, <2>2, <2>3 DEF HandlerOK
<1>4. /\ Outcome(d, r) \in Response
      /\ Outcome(d, r) \notin Turned /\ Outcome(d, r) # None
  <2>1. CASE id[r] \notin DOMAIN answers[d]
    <3>1. Outcome(d, r) = [code |-> 502, answers |-> None]
      BY <2>1 DEF Outcome, Failed
    <3> QED
      BY <3>1, NilAssumption DEF Response, Turned, Failed
  <2>2. CASE id[r] \in DOMAIN answers[d]
    <3>1. answers[d] # NoReply
      BY <2>2 DEF NoReply
    <3>2. Prediction(d).status = 200 /\ answers[d] = Prediction(d).answers
      BY <3>1 DEF CallOK
    <3>3. \A s \in Elems(dbatch[d]) : questions[s] \in Bodies
      <4>1. \A s \in Elems(dbatch[d]) : s \in Spawned /\ s \in Req
        BY <1>2, ElemsType DEF Spawned
      <4> QED
        BY <4>1 DEF HandlerOK
    <3>4. /\ DOMAIN answers[d] = {id[dbatch[d][i]] : i \in 1..Heard(dbatch[d])}
          /\ \A i \in 1..Heard(dbatch[d]) : answers[d][id[dbatch[d][i]]] \in AnswerSet
      BY <1>2, <3>2, <3>3, PredictionAnswers DEF Prediction, Served
    <3>5. answers[d][id[r]] \in AnswerSet
      BY <2>2, <3>4
    <3>6. Outcome(d, r) = [code |-> 200, answers |-> answers[d][id[r]]]
      BY <2>2 DEF Outcome, Answered
    <3> QED
      BY <3>5, <3>6, NilAssumption DEF Response, Turned, Failed
  <2> QED
    BY <2>1, <2>2
<1>5. \A i \in DOMAIN dbatch[d] : dbatch[d][i] = r => i = next[d]
  BY <1>1 DEF BatchOK, Distinct
<1>6. \A f \in Req \ {d} : r \notin Elems(dbatch[f])
  BY <1>2, ZenonT(20) DEF BatchOK
<1> HIDE DEF r
<1>7. \A s \in Req : respCh'[s] = IF s = r THEN Outcome(d, r) ELSE respCh[s]
  BY <1>1 DEF TypeOK
<1>8. TypeOK'
  <2>1. respCh' \in [Req -> Response \cup {None}] /\ next' \in [Req -> Nat \ {0}]
    <3>1. next' \in [Req -> Nat \ {0}]
      BY <1>1, SMTT(20) DEF TypeOK
    <3>2. respCh' = [respCh EXCEPT ![r] = Outcome(d, r)]
      BY <1>1 DEF r
    <3> QED
      BY <1>2, <1>4, <3>1, <3>2 DEF TypeOK
  <2> QED
    BY <1>1, <2>1 DEF TypeOK
<1>9. BatchOK' /\ Spawned' = Spawned
  BY <1>1, BatchesKept
<1>10. CallOK'
  BY <1>1, CallsKept
<1>11. LineOK'
  <2>1. \A s \in Elems(batch) \cup Elems(queue) : s \in Req /\ s # r
    BY <1>2, ElemsType DEF LineOK, TypeOK
  <2>2. UNCHANGED <<bpc, batch, queue, hpc>>
    BY <1>1
  <2> QED
    BY <1>7, <1>9, <2>1, <2>2 DEF LineOK
<1>12. HandlerOK'
  <2>1. UNCHANGED <<hpc, resp, questions, batch, queue>>
    BY <1>1
  <2> QED
    BY <1>2, <1>3, <1>4, <1>7, <1>9, <2>1 DEF HandlerOK
<1>13. SentOK'
  <2>1. UNCHANGED <<dpc, dbatch, id, answers, resp>>
    BY <1>1
  <2>2. \A f, s : Outcome(f, s)' = Outcome(f, s)
    BY <2>1 DEF Outcome
  <2>3. \A s \in Req : Out(s)' = IF s = r THEN Outcome(d, r) ELSE Out(s)
    BY <1>3, <1>4, <1>7, <2>1 DEF Out
  <2>4. \A f \in Req : next'[f] = IF f = d THEN next[d] + 1 ELSE next[f]
    BY <1>1 DEF TypeOK
  <2>5. \A f \in Req : \A i \in DOMAIN dbatch[f] :
           /\ dbatch[f][i] \in Req /\ i \in Nat
           /\ dbatch[f][i] = r <=> f = d /\ i = next[d]
    <3>1. ASSUME NEW f \in Req, NEW i \in DOMAIN dbatch[f]
          PROVE  /\ dbatch[f][i] \in Req /\ i \in Nat
                 /\ dbatch[f][i] = r <=> f = d /\ i = next[d]
      <4>1. dbatch[f][i] \in Req /\ i \in Nat /\ dbatch[f][i] \in Elems(dbatch[f])
        <5>1. dbatch[f] \in Seq(Req)
          BY DEF TypeOK
        <5> QED
          BY <5>1, ElementOfSeq, LenProperties DEF Elems
      <4>2. f = d /\ i = next[d] => dbatch[f][i] = r
        BY DEF r
      <4> QED
        BY <1>5, <1>6, <4>1, <4>2
    <3> QED
      BY <3>1
  <2>6. next[d] \in Nat
    BY DEF TypeOK
  <2>7. ASSUME NEW f \in Req, NEW i \in DOMAIN dbatch[f]
        PROVE  /\ i >= next'[f] => Out(dbatch[f][i])' = None
               /\ i < next'[f] => Out(dbatch[f][i])' = Outcome(f, dbatch[f][i])
    <3>1. /\ i >= next[f] => Out(dbatch[f][i]) = None
          /\ i < next[f] => Out(dbatch[f][i]) = Outcome(f, dbatch[f][i])
      BY DEF SentOK
    <3>2. CASE f # d
      BY <2>1, <2>3, <2>4, <2>5, <3>1, <3>2
    <3>3. CASE f = d /\ i = next[d]
      BY <2>1, <2>3, <2>4, <2>5, <2>6, <3>3
    <3>4. CASE f = d /\ i # next[d]
      BY <2>1, <2>3, <2>4, <2>5, <2>6, <3>1, <3>4
    <3> QED
      BY <3>2, <3>3, <3>4
  <2> QED
    BY <1>1, <2>1, <2>2, <2>4, <2>7 DEF SentOK
<1> QED
  BY <1>8, <1>9, <1>10, <1>11, <1>12, <1>13
LEMMA StartsInLGInv == Init => LGInv
<1> SUFFICES ASSUME Init PROVE LGInv
  OBVIOUS
<1> USE DEF Init
<1>1. Spawned = {} /\ Elems(batch) = {} /\ Elems(queue) = {} /\ \A d \in Req : Elems(dbatch[d]) = {}
  BY ElemsEmpty DEF Spawned
<1>2. /\ batch \in Seq(Req) /\ queue \in Seq(Req) /\ launched \in Seq(Seq(Req)) /\ <<>> \in Seq(Req)
      /\ Len(batch) = 0 /\ DOMAIN batch = {} /\ DOMAIN queue = {} /\ DOMAIN launched = {}
      /\ \A d \in Req : DOMAIN dbatch[d] = {} /\ Len(dbatch[d]) = 0
  OBVIOUS
<1>3. TypeOK
  BY <1>2 DEF TypeOK
<1>4. LineOK
  BY <1>1, <1>2, GateAssumption DEF LineOK, Distinct, SizeOK
<1>5. HandlerOK
  BY <1>1 DEF HandlerOK
<1>6. BatchOK
  BY <1>1, <1>2, GateAssumption DEF BatchOK, Distinct, SizeOK
<1>7. CallOK
  BY DEF CallOK
<1>8. SentOK
  BY <1>2 DEF SentOK
<1> QED
  BY <1>3, <1>4, <1>5, <1>6, <1>7, <1>8 DEF LGInv

LEMMA StepKeepsLGInv == LGInv /\ [Next]_vars => LGInv'
<1> SUFFICES ASSUME LGInv, [Next]_vars PROVE LGInv'
  OBVIOUS
<1>1. CASE UNCHANGED vars
  <2>1. UNCHANGED <<id, questions, seq, hpc, resp, statTotal, respCh, queue, bpc, batch, launched,
                    statBatches, statBatchSum, dpc, next, dbatch, backend, reply, answers,
                    backendSeq, statErrors>>
    BY <1>1 DEF vars, requestVars, batcherVars, dispatchVars, callVars
  <2>2. TypeOK'
    BY <2>1 DEF LGInv, TypeOK
  <2>3. LineOK' /\ HandlerOK' /\ BatchOK'
    BY <2>1, CallFrame
  <2>4. CallOK' /\ SentOK'
    BY <2>1, CallsKept, RepliesKept DEF LGInv
  <2> QED
    BY <2>2, <2>3, <2>4 DEF LGInv
<1>2. CASE \E r \in Req : Handler(r)
  BY <1>2, IdleKeeps, EnqueueKeeps, QueueFullKeeps, ReceiveKeeps DEF Handler
<1>3. CASE BatcherStep \/ Expire
  BY <1>3, TakeKeeps, GotoKeeps, LaunchKeeps DEF BatcherStep
<1>4. CASE \E d \in Req : DispatchStep(d) \/ Serve(d) \/ Lose(d)
  BY <1>4, CallKeeps, SendKeeps DEF DispatchStep
<1> QED
  BY <1>1, <1>2, <1>3, <1>4 DEF Next, Rest

-----------------------------------------------------------------------------
(* The properties *)

(* The inductive invariant: handlers, line, batches, calls and replies.      *)
THEOREM LayagateInvariant == Spec => []LGInv
  BY StartsInLGInv, StepKeepsLGInv, PTL DEF Spec

LEMMA OwnFromInv == LGInv => AnswersOwnUnlessIdShared
<1> SUFFICES ASSUME LGInv, NEW r \in Req, ~SharesId(r), HasCode(r, 200)
             PROVE  Out(r).answers = [q \in questions[r] |-> r]
  BY DEF AnswersOwnUnlessIdShared, OwnAnswers
<1> USE DEF LGInv
<1>1. r \in Spawned
  <2>1. SUFFICES ASSUME r \notin Spawned PROVE FALSE
    OBVIOUS
  <2>2. respCh[r] = None /\ Out(r) = resp[r] /\ resp[r] # None
    BY <2>1 DEF HandlerOK, HasCode, Out
  <2>3. resp[r] \in {Failed(0), Failed(400), Failed(503)}
    BY <2>1, <2>2 DEF HandlerOK, Turned
  <2> QED
    BY <2>2, <2>3 DEF HasCode, Failed
<1>2. PICK d \in Req : r \in Elems(dbatch[d])
  BY <1>1 DEF Spawned
<1>3. PICK i \in DOMAIN dbatch[d] : dbatch[d][i] = r
  BY <1>2 DEF Elems
<1>4. i \in Nat /\ next[d] \in Nat /\ dbatch[d] \in Seq(Req)
  <2>1. next[d] \in Nat /\ dbatch[d] \in Seq(Req)
    BY DEF TypeOK
  <2> QED
    BY <2>1, LenProperties
<1>5. Out(r) = Outcome(d, r)
  BY <1>3, <1>4 DEF SentOK, HasCode
<1>6. id[r] \in DOMAIN answers[d] /\ Out(r).answers = answers[d][id[r]]
  BY <1>5 DEF HasCode, Outcome, Failed, Answered
<1>7. Served(dbatch[d]) /\ answers[d] = PredictBatch(Payload(dbatch[d])).answers
  <2>1. answers[d] # NoReply
    BY <1>6 DEF NoReply
  <2> QED
    BY <2>1 DEF CallOK, Prediction, Served
<1>8. \A s \in Elems(dbatch[d]) \ {r} : id[s] # id[r]
  <2>1. dpc[d] # "none"
    BY <1>2, ElemsEmpty DEF BatchOK
  <2>2. PICK j \in DOMAIN launched : launched[j] = dbatch[d]
    BY <2>1 DEF BatchOK
  <2> QED
    BY <1>2, <2>2 DEF SharesId
<1>9. \A s \in Elems(dbatch[d]) : questions[s] \in Bodies
  <2>1. \A s \in Elems(dbatch[d]) : s \in Spawned /\ s \in Req
    BY <1>4, ElemsType DEF Spawned
  <2> QED
    BY <2>1 DEF HandlerOK
<1> QED
  BY <1>2, <1>4, <1>6, <1>7, <1>8, <1>9, PredictionAnswers

(* A client whose id nobody else in its batch uses gets the answers to its   *)
(* own questions about its own state, whatever was cut off, lost or late.    *)
THEOREM AnswersToOwnRequest == Spec => []AnswersOwnUnlessIdShared
  BY LayagateInvariant, OwnFromInv, PTL
-----------------------------------------------------------------------------
(* The gateway implements the line of BatchQueue *)

LEMMA LineStart == Init => Line!Init
<1> SUFFICES ASSUME Init PROVE Line!Init
  OBVIOUS
<1>1. batch \o queue = <<>>
  BY ConcatEmptySeq, EmptySeq DEF Init
<1>2. [r \in Req |-> IF hpc[r] = "idle" THEN <<>> ELSE <<0>>] = [r \in Req |-> <<>>]
  BY DEF Init
<1> QED
  BY <1>1, <1>2 DEF Init, Line!Init

(* Only a request that never entered the line is unknown to it.              *)
LEMMA StrangerToLine ==
    ASSUME LGInv, NEW r \in Req, hpc[r] \in {"idle", "send"}
    PROVE  ~Line!Known(r)
<1> USE DEF LGInv
<1>1. r \notin Elems(batch) \cup Elems(queue) /\ r \notin Spawned
  BY DEF LineOK, HandlerOK
<1>2. Elems(batch \o queue) = Elems(batch) \cup Elems(queue)
  BY ElemsConcat DEF TypeOK
<1>3. \A i \in DOMAIN launched : r \notin Elems(launched[i])
  BY <1>1 DEF BatchOK
<1> QED
  BY <1>1, <1>2, <1>3 DEF Line!Known, Line!Elems, Elems

(* A batch takes one place per request.                                      *)
LEMMA OneSlotEach ==
    ASSUME LGInv, \A r \in Elems(batch) : hpc[r] # "idle"
    PROVE  Cardinality(Line!Slots(batch)) = Len(batch)
<1> DEFINE K == [r \in Req |-> IF hpc[r] = "idle" THEN <<>> ELSE <<0>>]
<1>1. /\ batch \in Seq(Req) /\ Elems(batch) \subseteq Req
      /\ \A i, j \in DOMAIN batch : batch[i] = batch[j] => i = j
  BY ElemsType DEF LGInv, TypeOK, LineOK, Distinct
<1>2. IsFiniteSet(Elems(batch)) /\ Cardinality(Elems(batch)) = Len(batch)
  BY <1>1, DistinctElems
<1>3. \A r \in Elems(batch) : DOMAIN K[r] = {1}
  BY <1>1
<1>4. Line!Slots(batch) = UNION {{r} \X DOMAIN K[r] : r \in Elems(batch)}
  BY DEF Line!Slots, Line!SlotsOf, Line!Elems, Elems
<1> HIDE DEF K
<1>5. Line!Slots(batch) = Elems(batch) \X {1}
  BY <1>3, <1>4
<1>6. IsFiniteSet({1}) /\ Cardinality({1}) = 1
  BY FS_Singleton
<1>7. Cardinality(Elems(batch) \X {1}) = Cardinality(Elems(batch)) * Cardinality({1})
  BY <1>2, <1>6, FS_Product
<1>8. Len(batch) \in Nat
  BY <1>1, LenProperties
<1> QED
  BY <1>2, <1>5, <1>6, <1>7, <1>8

LEMMA LineMoves ==
    ASSUME BatchMax # 0, LGInv, [Next]_vars
    PROVE  [Line!Next]_(Line!lineVars)
<1> USE DEF LGInv
<1> DEFINE K == [r \in Req |-> IF hpc[r] = "idle" THEN <<>> ELSE <<0>>]
           L == batch \o queue
<1>s. /\ batch \in Seq(Req) /\ queue \in Seq(Req) /\ L \in Seq(Req)
      /\ \A r \in Req : hpc[r] \in {"idle", "send", "wait", "done"}
  BY ConcatProperties DEF TypeOK
<1>1. ASSUME NEW r \in Req, BadJson(r) \/ NullBody(r) \/ Accept(r)
      PROVE  Line!Submit(r)
  <2>1. /\ hpc[r] = "idle" /\ UNCHANGED <<batch, queue, launched>>
        /\ \E l \in {"send", "done"} : hpc' = [hpc EXCEPT ![r] = l]
    BY <1>1 DEF BadJson, NullBody, Accept, Respond, batcherVars
  <2>2. K' = [K EXCEPT ![r] = <<0>>]
    BY <2>1 DEF TypeOK
  <2>3. ~Line!Known(r)
    BY <2>1, StrangerToLine
  <2> QED
    BY <2>1, <2>2, <2>3 DEF Line!Submit
<1>2. ASSUME NEW r \in Req, Enqueue(r) PROVE Line!Join(r)
  <2>1. /\ hpc[r] = "send" /\ UNCHANGED <<batch, launched>> /\ queue' = Append(queue, r)
        /\ hpc' = [hpc EXCEPT ![r] = "wait"]
    BY <1>2 DEF Enqueue, batcherVars
  <2>2. K' = K /\ K[r] = <<0>>
    BY <2>1 DEF TypeOK
  <2>3. L' = Append(L, r)
    BY <1>s, <2>1, AppendIsConcat, ConcatAssociative
  <2>4. Len(K[r]) \in 1..BatchMax
    BY <2>2, GateAssumption
  <2>5. ~Line!Known(r)
    BY <2>1, StrangerToLine
  <2> QED
    BY <2>1, <2>2, <2>3, <2>4, <2>5 DEF Line!Join
<1>3. ASSUME NEW r \in Req, QueueFull(r) \/ Receive(r)
      PROVE  UNCHANGED Line!lineVars
  <2>1. /\ hpc[r] # "idle" /\ UNCHANGED <<batch, queue, launched>>
        /\ hpc' = [hpc EXCEPT ![r] = "done"]
    BY <1>3 DEF QueueFull, Receive, Respond, batcherVars
  <2>2. K' = K
    BY <2>1 DEF TypeOK
  <2> QED
    BY <2>1, <2>2 DEF Line!lineVars
<1>4. CASE Open \/ Take \/ Drain
  <2>1. /\ queue # <<>> /\ queue' = Tail(queue) /\ batch' = Append(batch, Head(queue))
        /\ UNCHANGED <<hpc, launched>>
    BY <1>4 DEF Open, Take, Drain, TakeNext, requestVars
  <2>2. queue = <<Head(queue)>> \o Tail(queue) /\ Head(queue) \in Req /\ Tail(queue) \in Seq(Req)
    BY <1>s, <2>1, ElemsHeadTail
  <2>3. L' = L
    <3>1. Append(batch, Head(queue)) = batch \o <<Head(queue)>> /\ <<Head(queue)>> \in Seq(Req)
      BY <1>s, <2>2, AppendIsConcat
    <3>2. (batch \o <<Head(queue)>>) \o Tail(queue) = batch \o (<<Head(queue)>> \o Tail(queue))
      BY <1>s, <2>2, <3>1, ConcatAssociative
    <3> QED
      BY <2>1, <2>2, <3>1, <3>2
  <2>4. K' = K
    BY <2>1
  <2> QED
    BY <2>1, <2>3, <2>4 DEF Line!lineVars
<1>5. CASE Launch
  <2> DEFINE n == Len(batch)
  <2>1. /\ launched' = Append(launched, batch) /\ batch' = <<>> /\ batch # <<>>
        /\ UNCHANGED <<hpc, queue>>
    BY <1>5 DEF Launch, LineOK, requestVars
  <2>2. L' = queue /\ K' = K
    BY <1>s, <2>1, ConcatEmptySeq
  <2>3. SubSeq(L, 1, n) = batch /\ SubSeq(L, n + 1, Len(L)) = queue
    BY <1>s, CutConcat
  <2>4. n \in 1..Len(L) /\ n <= BatchMax
    <3>1. n \in Nat \ {0} /\ Len(L) = n + Len(queue) /\ Len(queue) \in Nat
      BY <1>s, <2>1, EmptySeq, ConcatProperties, LenProperties
    <3>2. n <= BatchMax
      <4>1. SizeOK(batch)
        BY DEF LineOK
      <4>2. n <= BatchMax \/ n = 1
        BY <4>1 DEF SizeOK
      <4>3. BatchMax \in Nat /\ BatchMax # 0
        BY GateAssumption
      <4> HIDE DEF n
      <4> QED
        BY <4>2, <4>3
    <3> QED
      BY <3>1, <3>2
  <2>5. Line!Cut(n)
    <3>1. \A r \in Elems(batch) : hpc[r] # "idle"
      BY DEF LineOK
    <3>2. Cardinality(Line!Slots(batch)) = n
      BY <3>1, OneSlotEach
    <3>3. Line!Cardinality(Line!Slots(batch)) = Cardinality(Line!Slots(batch))
      BY DEF Line!Cardinality, Cardinality
    <3>4. Line!Cardinality(Line!Slots(SubSeq(L, 1, n))) <= BatchMax
      BY <2>3, <2>4, <3>2, <3>3
    <3> QED
      BY <2>1, <2>2, <2>3, <3>4 DEF Line!Cut
  <2> QED
    BY <2>4, <2>5 DEF Line!Next
<1>6. CASE \/ FillFull \/ FillWait \/ FillDrain \/ TimerFires \/ DrainEnds \/ CountBatch \/ Expire
           \/ \E d \in Req : DispatchStep(d) \/ Serve(d) \/ Lose(d)
           \/ UNCHANGED vars
  <2>1. UNCHANGED <<hpc, batch, queue, launched>>
    BY <1>6 DEF FillFull, FillWait, FillDrain, TimerFires, DrainEnds, Goto, CountBatch, Expire,
                DispatchStep, Post, Arrive, CountErrors, Send, Finish, Serve, Lose,
                requestVars, batcherVars, vars
  <2> QED
    BY <2>1 DEF Line!lineVars
<1> QED
  BY <1>1, <1>2, <1>3, <1>4, <1>5, <1>6 DEF Next, Rest, Handler, BatcherStep, Line!Next

(* Requests reach the backends first come, first served, and a call carries  *)
(* at most BATCH_MAX of them. A cap of zero would be no cap at all: the      *)
(* batcher takes a request before it compares.                               *)
THEOREM FirstComeFirstPosted == BatchMax # 0 => (Spec => ImplementsLine)
<1> SUFFICES ASSUME BatchMax # 0 PROVE Spec => ImplementsLine
  OBVIOUS
<1>1. LGInv /\ [Next]_vars => [Line!Next]_(Line!lineVars)
  BY LineMoves
<1> QED
  BY <1>1, StartsInLGInv, StepKeepsLGInv, LineStart, PTL DEF Spec, ImplementsLine, Line!Spec
-----------------------------------------------------------------------------
(* The counters of /stats *)

Counts(S, n) == IsFiniteSet(S) /\ Cardinality(S) = n

LEMMA CountsOne ==
    ASSUME NEW S, NEW n, Counts(S, n), NEW x, x \notin S
    PROVE  Counts(S \cup {x}, n + 1)
  BY FS_AddElement DEF Counts

LEMMA CountsBatch ==
    ASSUME NEW S, NEW n, Counts(S, n), NEW T, NEW b \in Seq(T), Distinct(b), S \cap Elems(b) = {}
    PROVE  Counts(S \cup Elems(b), n + Len(b))
<1>1. IsFiniteSet(Elems(b)) /\ Cardinality(Elems(b)) = Len(b)
  BY DistinctElems DEF Distinct
<1>2. Cardinality(S) \in Nat /\ Cardinality(Elems(b)) \in Nat /\ Cardinality({}) = 0
  BY <1>1, FS_CardinalityType, FS_EmptySet DEF Counts
<1>3. /\ IsFiniteSet(S \cup Elems(b))
      /\ Cardinality(S \cup Elems(b)) = Cardinality(S) + Cardinality(Elems(b)) - Cardinality({})
  BY <1>1, FS_Union DEF Counts
<1> QED
  BY <1>1, <1>2, <1>3 DEF Counts

LEMMA CountsParts ==
    ASSUME NEW S, NEW T, NEW n, Counts(T, n), S \subseteq T
    PROVE  /\ IsFiniteSet(S) /\ Cardinality(S) \in Nat /\ Cardinality(S) <= n
           /\ Cardinality(T \ S) = n - Cardinality(S)
<1>1. IsFiniteSet(S) /\ IsFiniteSet(T \ S) /\ Cardinality(S) <= n
  BY FS_Subset, FS_Difference DEF Counts
<1>2. S \cup (T \ S) = T /\ S \cap (T \ S) = {}
  OBVIOUS
<1>3. Cardinality(T) = Cardinality(S) + Cardinality(T \ S) - Cardinality({})
  BY <1>1, <1>2, FS_Union
<1>4. Cardinality(S) \in Nat /\ Cardinality(T \ S) \in Nat /\ Cardinality({}) = 0
  BY <1>1, FS_CardinalityType, FS_EmptySet
<1> QED
  BY <1>1, <1>3, <1>4 DEF Counts

(* What each counter has counted.                                            *)
Accepted == {r \in Req : hpc[r] # "idle" /\ resp[r] \notin Turned}
FailedCalls == {d \in Req : dpc[d] \in {"reply", "done"} /\ answers[d] = NoReply}
Counted == UNION {Elems(dbatch[d]) : d \in FailedCalls}
Begun == {d \in Req : dpc[d] # "none"}
Posted == {d \in Req : dpc[d] \notin {"none", "post"}}

CountOK ==
    /\ Counts(Accepted, statTotal)
    /\ Counts(Spawned, statBatchSum)
    /\ Counts(Counted, statErrors)
    /\ Counts(Begun, IF bpc = "send" THEN statBatches - 1 ELSE statBatches)
    /\ Counts(Posted, backendSeq)

(* A call carries no more than a backend accepts, as the defaults of both    *)
(* (64) have it: a request cut off by a backend gets an uncounted 502.       *)
BatchesFit == MaxReqPerBatch >= 1 /\ BatchMax <= MaxReqPerBatch

LEMMA AllHeard ==
    ASSUME BatchesFit, LGInv, NEW d \in Req, Prediction(d).status = 200,
           dpc[d] # "none"
    PROVE  /\ \A r \in Elems(dbatch[d]) : id[r] \in DOMAIN Prediction(d).answers
           /\ Prediction(d).answers # NoReply
<1> DEFINE b == dbatch[d]
<1>1. /\ b \in Seq(Req) /\ Len(b) \in Nat /\ DOMAIN b = 1..Len(b)
      /\ SizeOK(b) /\ d \in Elems(b)
  <2>1. b \in Seq(Req) /\ SizeOK(b) /\ d \in Elems(b)
    BY DEF LGInv, TypeOK, BatchOK
  <2> QED
    BY <2>1, LenProperties
<1>2. Heard(b) = Len(b)
  <2>1. Len(b) <= BatchMax \/ Len(b) = 1
    BY <1>1 DEF SizeOK
  <2>2. BatchMax \in Nat /\ MaxReqPerBatch \in Nat
    BY GateAssumption, BackendAssumption
  <2> HIDE DEF b
  <2>3. Len(b) <= MaxReqPerBatch
    BY <1>1, <2>1, <2>2 DEF BatchesFit
  <2>4. Len(b) \in Nat
    BY <1>1
  <2>5. Heard(b) = IF Len(b) < MaxReqPerBatch THEN Len(b) ELSE MaxReqPerBatch
    BY DEF Heard
  <2> DEFINE n == Len(b)
  <2> HIDE DEF n
  <2> QED
    BY <2>2, <2>3, <2>4, <2>5 DEF n
<1>3. \A r \in Elems(b) : questions[r] \in Bodies
  <2>1. \A r \in Elems(b) : r \in Spawned /\ r \in Req
    BY <1>1, ElemsType DEF Spawned
  <2> QED
    BY <2>1 DEF HandlerOK, LGInv
<1>4. Served(b) /\ PredictBatch(Payload(b)).answers = Prediction(d).answers
  BY DEF Served, Prediction
<1> HIDE DEF b
<1>5. DOMAIN Prediction(d).answers = {id[b[i]] : i \in 1..Len(b)}
  BY <1>1, <1>2, <1>3, <1>4, PredictionAnswers
<1>6. \A r \in Elems(b) : id[r] \in DOMAIN Prediction(d).answers
  BY <1>1, <1>5 DEF Elems
<1>7. Prediction(d).answers # NoReply
  BY <1>1, <1>6 DEF NoReply
<1> QED
  BY <1>6, <1>7 DEF b
LEMMA StartsInCountOK == Init => CountOK
<1> SUFFICES ASSUME Init PROVE CountOK
  OBVIOUS
<1>1. Counts({}, 0)
  BY FS_EmptySet DEF Counts
<1>2. Spawned = {}
  BY ElemsEmpty DEF Init, Spawned
<1>3. Accepted = {} /\ Counted = {} /\ Begun = {} /\ Posted = {}
  BY DEF Init, Accepted, FailedCalls, Counted, Begun, Posted
<1>4. statTotal = 0 /\ statBatchSum = 0 /\ statErrors = 0 /\ statBatches = 0
      /\ backendSeq = 0 /\ bpc # "send"
  BY DEF Init
<1> QED
  BY <1>1, <1>2, <1>3, <1>4 DEF CountOK

(* Handlers count a request when they accept it; from then on it stays       *)
(* accepted, whatever it is told.                                            *)
LEMMA HandlerCounts ==
    ASSUME LGInv, CountOK, NEW r \in Req, Handler(r)
    PROVE  CountOK'
<1> USE DEF LGInv
<1>1. UNCHANGED <<bpc, statBatches, statBatchSum, statErrors, backendSeq, dpc, dbatch, answers>>
  BY DEF Handler, BadJson, NullBody, Accept, Enqueue, QueueFull, Receive,
         batcherVars, dispatchVars, callVars
<1>2. Spawned' = Spawned /\ Counted' = Counted /\ Begun' = Begun /\ Posted' = Posted
  BY <1>1 DEF Spawned, Counted, FailedCalls, Begun, Posted
<1>3. None \notin Turned /\ Failed(503) \notin Turned /\ Turned = {Failed(0), Failed(400)}
  BY NilAssumption DEF Turned, Failed, Response
<1>4. Counts(Accepted, statTotal)'
  <2>1. CASE BadJson(r) \/ NullBody(r)
    <3>1. /\ hpc[r] = "idle" /\ statTotal' = statTotal
          /\ \E out \in Turned : resp' = [resp EXCEPT ![r] = out]
          /\ hpc' = [hpc EXCEPT ![r] = "done"]
      BY <1>3, <2>1 DEF BadJson, NullBody, Respond
    <3>2. Accepted' = Accepted
      BY <3>1 DEF Accepted, TypeOK
    <3> QED
      BY <3>1, <3>2 DEF CountOK
  <2>2. CASE Accept(r)
    <3>1. /\ hpc[r] = "idle" /\ statTotal' = statTotal + 1 /\ resp' = resp
          /\ hpc' = [hpc EXCEPT ![r] = "send"]
      BY <2>2 DEF Accept
    <3>2. resp[r] = None
      BY <3>1 DEF HandlerOK
    <3>3. Accepted' = Accepted \cup {r} /\ r \notin Accepted
      BY <1>3, <3>1, <3>2 DEF Accepted, TypeOK
    <3>4. Counts(Accepted \cup {r}, statTotal + 1)
      BY <3>3, CountsOne DEF CountOK
    <3> QED
      BY <3>1, <3>3, <3>4
  <2>3. CASE Enqueue(r)
    <3>1. hpc[r] = "send" /\ UNCHANGED <<resp, statTotal>> /\ hpc' = [hpc EXCEPT ![r] = "wait"]
      BY <2>3 DEF Enqueue
    <3>2. Accepted' = Accepted
      BY <3>1 DEF Accepted, TypeOK
    <3> QED
      BY <3>1, <3>2 DEF CountOK
  <2>4. CASE QueueFull(r)
    <3>1. /\ hpc[r] = "send" /\ statTotal' = statTotal /\ hpc' = [hpc EXCEPT ![r] = "done"]
          /\ resp' = [resp EXCEPT ![r] = Failed(503)]
      BY <2>4 DEF QueueFull, Respond
    <3>2. resp[r] = None
      BY <3>1 DEF HandlerOK
    <3>3. Accepted' = Accepted
      BY <1>3, <3>1, <3>2 DEF Accepted, TypeOK
    <3> QED
      BY <3>1, <3>3 DEF CountOK
  <2>5. CASE Receive(r)
    <3>1. /\ hpc[r] = "wait" /\ statTotal' = statTotal /\ hpc' = [hpc EXCEPT ![r] = "done"]
          /\ resp' = [resp EXCEPT ![r] = respCh[r]] /\ respCh[r] # None
      BY <2>5 DEF Receive, Respond
    <3>2. resp[r] = None /\ respCh[r] \notin Turned
      BY <3>1 DEF HandlerOK
    <3>3. Accepted' = Accepted
      BY <1>3, <3>1, <3>2 DEF Accepted, TypeOK
    <3> QED
      BY <3>1, <3>3 DEF CountOK
  <2> QED
    BY <2>1, <2>2, <2>3, <2>4, <2>5 DEF Handler
<1> QED
  BY <1>1, <1>2, <1>4 DEF CountOK

(* The batcher counts a batch and, with the next step, its requests.         *)
LEMMA BatcherCounts ==
    ASSUME LGInv, CountOK, BatcherStep \/ Expire
    PROVE  CountOK'
<1> USE DEF LGInv
<1>1. UNCHANGED <<hpc, resp, statTotal, answers, statErrors, backendSeq>>
  BY DEF BatcherStep, Open, FillFull, FillWait, FillDrain, Take, TimerFires, Drain, DrainEnds,
         CountBatch, Launch, Expire, Goto, requestVars, dispatchVars, callVars
<1>2. Accepted' = Accepted
  BY <1>1 DEF Accepted
<1>3. CASE (BatcherStep /\ ~CountBatch /\ ~Launch) \/ Expire
  <2>1. /\ UNCHANGED <<dpc, dbatch, statBatches, statBatchSum>>
        /\ bpc' = "send" <=> bpc = "send"
    BY <1>3 DEF BatcherStep, Open, FillFull, FillWait, FillDrain, Take, TimerFires, Drain,
                DrainEnds, Expire, Goto, dispatchVars, callVars
  <2>2. Spawned' = Spawned /\ Counted' = Counted /\ Begun' = Begun /\ Posted' = Posted
    BY <1>1, <2>1 DEF Spawned, Counted, FailedCalls, Begun, Posted
  <2> QED
    BY <1>1, <1>2, <2>1, <2>2 DEF CountOK
<1>4. CASE CountBatch
  <2>1. /\ UNCHANGED <<dpc, dbatch, statBatchSum>> /\ statBatches' = statBatches + 1
        /\ bpc = "launch" /\ bpc' = "send"
    BY <1>4 DEF CountBatch, dispatchVars, callVars
  <2>2. Spawned' = Spawned /\ Counted' = Counted /\ Begun' = Begun /\ Posted' = Posted
    BY <1>1, <2>1 DEF Spawned, Counted, FailedCalls, Begun, Posted
  <2>3. statBatches' - 1 = statBatches
    BY <2>1 DEF TypeOK
  <2> QED
    BY <1>1, <1>2, <2>1, <2>2, <2>3 DEF CountOK
<1>5. CASE Launch
  <2> DEFINE e == Head(batch)
  <2>1. /\ bpc = "send" /\ bpc' = "first" /\ statBatches' = statBatches
        /\ statBatchSum' = statBatchSum + Len(batch)
        /\ dbatch' = [dbatch EXCEPT ![e] = batch]
        /\ dpc' = [dpc EXCEPT ![e] = "post"]
    BY <1>5 DEF Launch
  <2>2. batch \in Seq(Req) /\ e \in Req /\ e \in Elems(batch) /\ Distinct(batch)
    <3>1. batch \in Seq(Req) /\ batch # <<>> /\ Distinct(batch)
      BY <2>1 DEF LineOK, TypeOK
    <3> QED
      BY <3>1, ElemsHeadTail
  <2>3. dpc[e] = "none" /\ dbatch[e] = <<>>
    <3>1. e \notin Elems(dbatch[e])
      BY <2>2 DEF LineOK, Spawned
    <3> QED
      BY <2>2, <3>1 DEF BatchOK
  <2> HIDE DEF e
  <2>4. \A d \in Req : /\ dbatch'[d] = IF d = e THEN batch ELSE dbatch[d]
                       /\ dpc'[d] = IF d = e THEN "post" ELSE dpc[d]
    BY <2>1 DEF TypeOK
  <2>5. Spawned' = Spawned \cup Elems(batch) /\ Spawned \cap Elems(batch) = {}
    <3>1. Elems(dbatch[e]) = {}
      BY <2>3, ElemsEmpty
    <3>2. \A d \in Req : Elems(dbatch'[d]) = IF d = e THEN Elems(batch) ELSE Elems(dbatch[d])
      BY <2>4
    <3>3. Spawned \cap Elems(batch) = {}
      BY DEF LineOK
    <3> QED
      BY <2>2, <3>1, <3>2, <3>3 DEF Spawned
  <2>6. Counts(Spawned, statBatchSum)'
    BY <2>1, <2>2, <2>5, CountsBatch DEF CountOK
  <2>7. Begun' = Begun \cup {e} /\ e \notin Begun
    BY <2>2, <2>3, <2>4 DEF Begun
  <2>8. Counts(Begun \cup {e}, (statBatches - 1) + 1)
    BY <2>1, <2>7, CountsOne DEF CountOK
  <2>9. (statBatches - 1) + 1 = statBatches
    BY DEF TypeOK
  <2>10. Posted' = Posted
    BY <2>3, <2>4 DEF Posted
  <2>11. FailedCalls' = FailedCalls /\ e \notin FailedCalls
    BY <1>1, <2>3, <2>4 DEF FailedCalls
  <2>12. Counted' = Counted
    <3>1. \A d \in FailedCalls : dbatch'[d] = dbatch[d]
      BY <2>4, <2>11 DEF FailedCalls
    <3> QED
      BY <2>11, <3>1 DEF Counted
  <2> QED
    BY <1>1, <1>2, <2>1, <2>6, <2>7, <2>8, <2>9, <2>10, <2>12 DEF CountOK
<1> QED
  BY <1>3, <1>4, <1>5 DEF BatcherStep
(* A failed call counts its requests, once: it has no answers, and any other *)
(* call that works with an empty map has failed too.                         *)
LEMMA CallCounts ==
    ASSUME BatchesFit, LGInv, CountOK, NEW d \in Req, DispatchStep(d) \/ Serve(d) \/ Lose(d)
    PROVE  CountOK'
<1> USE DEF LGInv
<1>1. UNCHANGED <<hpc, resp, statTotal, bpc, statBatches, statBatchSum, dbatch>>
  BY DEF DispatchStep, Post, Serve, Arrive, Lose, CountErrors, Send, Finish,
         requestVars, batcherVars, callVars
<1>2. Accepted' = Accepted /\ Spawned' = Spawned
  BY <1>1 DEF Accepted, Spawned
<1>3. ASSUME NEW l \in {"await", "fail", "reply", "done"}, dpc[d] \notin {"none", "post"},
             dpc' = [dpc EXCEPT ![d] = l]
      PROVE  Begun' = Begun /\ Posted' = Posted
  BY <1>3 DEF Begun, Posted, TypeOK
<1>4. CASE Post(d)
  <2>1. /\ dpc[d] = "post" /\ dpc' = [dpc EXCEPT ![d] = "await"]
        /\ backendSeq' = backendSeq + 1 /\ UNCHANGED <<answers, statErrors>>
    BY <1>4 DEF Post, Enter
  <2>2. Posted' = Posted \cup {d} /\ d \notin Posted /\ Begun' = Begun
    BY <2>1 DEF Posted, Begun, TypeOK
  <2>3. Counted' = Counted
    <3>1. FailedCalls' = FailedCalls
      BY <2>1 DEF FailedCalls, TypeOK
    <3> QED
      BY <1>1, <3>1 DEF Counted
  <2>4. Counts(Posted \cup {d}, backendSeq + 1)
    BY <2>2, CountsOne DEF CountOK
  <2> QED
    BY <1>1, <1>2, <2>1, <2>2, <2>3, <2>4 DEF CountOK
<1>5. CASE Arrive(d)
  <2>1. /\ dpc[d] = "await" /\ reply[d] # None /\ UNCHANGED <<backendSeq, statErrors>>
        /\ answers' = IF reply[d].status = 200 THEN [answers EXCEPT ![d] = reply[d].answers]
                      ELSE answers
        /\ dpc' = [dpc EXCEPT ![d] = IF reply[d].status = 200 THEN "reply" ELSE "fail"]
    BY <1>5 DEF Arrive, Enter
  <2>2. Begun' = Begun /\ Posted' = Posted
    BY <1>3, <2>1
  <2>3. reply[d] = Prediction(d)
    BY <2>1 DEF CallOK
  <2>4. \A f \in Req \ {d} : dpc'[f] = dpc[f] /\ answers'[f] = answers[f]
    BY <2>1 DEF TypeOK
  <2>5. d \notin FailedCalls /\ d \notin FailedCalls'
    <3>1. CASE reply[d].status = 200
      <4>1. Prediction(d).answers # NoReply
        BY <2>1, <2>3, <3>1, AllHeard
      <4>2. answers'[d] = Prediction(d).answers
        BY <2>1, <2>3, <3>1 DEF TypeOK
      <4> QED
        BY <2>1, <4>1, <4>2 DEF FailedCalls
    <3>2. CASE reply[d].status # 200
      BY <2>1, <3>2 DEF FailedCalls, TypeOK
    <3> QED
      BY <3>1, <3>2
  <2>6. FailedCalls' = FailedCalls
    BY <2>4, <2>5 DEF FailedCalls
  <2>7. Counted' = Counted
    BY <1>1, <2>6 DEF Counted
  <2> QED
    BY <1>1, <1>2, <2>1, <2>2, <2>7 DEF CountOK
<1>6. CASE CountErrors(d)
  <2>1. /\ dpc[d] = "fail" /\ dpc' = [dpc EXCEPT ![d] = "reply"]
        /\ statErrors' = statErrors + Len(dbatch[d]) /\ UNCHANGED <<backendSeq, answers>>
    BY <1>6 DEF CountErrors, Enter, callVars
  <2>2. Begun' = Begun /\ Posted' = Posted
    BY <1>3, <2>1
  <2>3. answers[d] = NoReply
    BY <2>1 DEF CallOK
  <2>4. FailedCalls' = FailedCalls \cup {d} /\ d \notin FailedCalls
    BY <2>1, <2>3 DEF FailedCalls, TypeOK
  <2>5. Counted' = Counted \cup Elems(dbatch[d])
    BY <1>1, <2>4 DEF Counted
  <2>6. Counted \cap Elems(dbatch[d]) = {}
    <3>1. \A f \in FailedCalls : f \in Req /\ f # d
      BY <2>4 DEF FailedCalls
    <3>2. \A f \in FailedCalls : Elems(dbatch[f]) \cap Elems(dbatch[d]) = {}
      BY <3>1 DEF BatchOK
    <3> QED
      BY <3>2 DEF Counted
  <2>7. dbatch[d] \in Seq(Req) /\ Distinct(dbatch[d])
    BY DEF TypeOK, BatchOK
  <2>8. Counts(Counted \cup Elems(dbatch[d]), statErrors + Len(dbatch[d]))
    BY <2>6, <2>7, CountsBatch DEF CountOK
  <2> QED
    BY <1>1, <1>2, <2>1, <2>2, <2>5, <2>8 DEF CountOK
<1>7. CASE Lose(d) \/ Finish(d)
  <2>1. /\ \/ dpc[d] = "await" /\ dpc' = [dpc EXCEPT ![d] = "fail"]
           \/ dpc[d] = "reply" /\ dpc' = [dpc EXCEPT ![d] = "done"]
        /\ UNCHANGED <<backendSeq, answers, statErrors>>
    BY <1>7 DEF Lose, Finish, Enter, callVars
  <2>2. Begun' = Begun /\ Posted' = Posted
    BY <1>3, <2>1
  <2>3. FailedCalls' = FailedCalls
    BY <2>1 DEF FailedCalls, TypeOK
  <2>4. Counted' = Counted
    BY <1>1, <2>3 DEF Counted
  <2> QED
    BY <1>1, <1>2, <2>1, <2>2, <2>4 DEF CountOK
<1>8. CASE Serve(d) \/ Send(d)
  <2>1. UNCHANGED <<dpc, backendSeq, answers, statErrors>>
    BY <1>8 DEF Serve, Send, callVars
  <2>2. Counted' = Counted /\ Begun' = Begun /\ Posted' = Posted
    BY <1>1, <2>1 DEF Counted, FailedCalls, Begun, Posted
  <2> QED
    BY <1>1, <1>2, <2>1, <2>2 DEF CountOK
<1> QED
  BY <1>4, <1>5, <1>6, <1>7, <1>8 DEF DispatchStep

LEMMA StepKeepsCountOK == BatchesFit => (LGInv /\ CountOK /\ [Next]_vars => CountOK')
<1> SUFFICES ASSUME BatchesFit, LGInv, CountOK, [Next]_vars PROVE CountOK'
  OBVIOUS
<1>1. CASE UNCHANGED vars
  <2>1. UNCHANGED <<hpc, resp, statTotal, bpc, statBatches, statBatchSum, dbatch, dpc,
                    backendSeq, answers, statErrors>>
    BY <1>1 DEF vars, requestVars, batcherVars, dispatchVars, callVars
  <2>2. /\ Accepted' = Accepted /\ Spawned' = Spawned /\ Counted' = Counted
        /\ Begun' = Begun /\ Posted' = Posted
    BY <2>1 DEF Accepted, Spawned, Counted, FailedCalls, Begun, Posted
  <2> QED
    BY <2>1, <2>2 DEF CountOK
<1> QED
  BY <1>1, HandlerCounts, BatcherCounts, CallCounts DEF Next, Rest

(* Where every answer given out comes from.                                  *)
LEMMA Told ==
    ASSUME LGInv, NEW r \in Req, Out(r) # None, Out(r) \notin Turned
    PROVE  IF r \notin Spawned THEN Out(r) = Failed(503)
           ELSE \E d \in Req : /\ r \in Elems(dbatch[d]) /\ dpc[d] \in {"reply", "done"}
                               /\ Out(r) = Outcome(d, r)
<1> USE DEF LGInv
<1>1. CASE r \notin Spawned
  <2>1. respCh[r] = None /\ Out(r) = resp[r] /\ resp[r] # None
    BY <1>1 DEF HandlerOK, Out
  <2> QED
    BY <1>1, <2>1 DEF HandlerOK
<1>2. CASE r \in Spawned
  <2>1. PICK d \in Req : r \in Elems(dbatch[d])
    BY <1>2 DEF Spawned
  <2>2. PICK i \in DOMAIN dbatch[d] : dbatch[d][i] = r
    BY <2>1 DEF Elems
  <2>3. next[d] \in Nat /\ i \in Nat \ {0}
    <3>1. next[d] \in Nat /\ dbatch[d] \in Seq(Req)
      BY DEF TypeOK
    <3> QED
      BY <3>1, LenProperties
  <2>4. i < next[d] /\ Out(r) = Outcome(d, r)
    BY <2>2, <2>3 DEF SentOK
  <2>5. dpc[d] \in {"reply", "done"}
    BY <2>3, <2>4 DEF SentOK
  <2> QED
    BY <1>2, <2>1, <2>4, <2>5
<1> QED
  BY <1>1, <1>2
(* Whom a call has told what: 502 if it failed, 200 if not.                  *)
LEMMA ToldByCall ==
    ASSUME BatchesFit, LGInv, NEW d \in Req, NEW r \in Elems(dbatch[d]),
           dpc[d] \in {"reply", "done"}
    PROVE  /\ r \in Req
           /\ r \in Counted <=> answers[d] = NoReply
           /\ Outcome(d, r).code = IF r \in Counted THEN 502 ELSE 200
<1> USE DEF LGInv
<1>1. r \in Req
  BY ElemsType DEF TypeOK
<1>2. r \in Counted <=> answers[d] = NoReply
  <2>1. ASSUME NEW f \in FailedCalls, r \in Elems(dbatch[f]) PROVE answers[d] = NoReply
    <3>1. f \in Req /\ answers[f] = NoReply
      BY DEF FailedCalls
    <3>2. f = d
      BY <2>1, <3>1 DEF BatchOK
    <3> QED
      BY <3>1, <3>2
  <2>2. answers[d] = NoReply => d \in FailedCalls
    BY DEF FailedCalls
  <2> QED
    BY <2>1, <2>2 DEF Counted
<1>3. CASE answers[d] = NoReply
  <2>1. id[r] \notin DOMAIN answers[d]
    BY <1>3 DEF NoReply
  <2> QED
    BY <1>1, <1>2, <1>3, <2>1 DEF Outcome, Failed
<1>4. CASE answers[d] # NoReply
  <2>1. Prediction(d).status = 200 /\ answers[d] = Prediction(d).answers
    BY <1>4 DEF CallOK
  <2>2. id[r] \in DOMAIN answers[d]
    BY <2>1, AllHeard
  <2> QED
    BY <1>1, <1>2, <1>4, <2>2 DEF Outcome, Answered
<1> QED
  BY <1>3, <1>4

LEMMA CountersFromInv ==
    ASSUME BatchesFit, LGInv, CountOK
    PROVE  CountersAddUp
<1> USE DEF LGInv
<1> DEFINE S(c) == {r \in Req : HasCode(r, c)}
<1>t. Turned = {Failed(0), Failed(400)} /\ Failed(503).code = 503
      /\ \A out \in Turned : out.code \notin {200, 502, 503}
  BY DEF Turned, Failed
<1>1. ASSUME NEW r \in Req, HasCode(r, 200) \/ HasCode(r, 502) \/ HasCode(r, 503)
      PROVE  /\ HasCode(r, 503) <=> r \notin Spawned
             /\ HasCode(r, 502) <=> r \in Counted
  <2>1. Out(r) # None /\ Out(r) \notin Turned
    BY <1>1, <1>t DEF HasCode
  <2>2. CASE r \notin Spawned
    <3>1. Out(r) = Failed(503)
      BY <2>1, <2>2, Told
    <3>2. r \notin Counted
      BY <2>2 DEF Counted, FailedCalls, Spawned
    <3> QED
      BY <1>t, <2>1, <2>2, <3>1, <3>2 DEF HasCode
  <2>3. CASE r \in Spawned
    <3>1. PICK d \in Req : /\ r \in Elems(dbatch[d]) /\ dpc[d] \in {"reply", "done"}
                           /\ Out(r) = Outcome(d, r)
      BY <2>1, <2>3, Told
    <3>2. Out(r).code = IF r \in Counted THEN 502 ELSE 200
      BY <3>1, ToldByCall
    <3> QED
      BY <2>1, <2>3, <3>2 DEF HasCode
  <2> QED
    BY <2>2, <2>3
<1>2. With(502) <= statErrors
  <2> DEFINE F == S(502)
  <2>1. F \subseteq Counted
    BY <1>1
  <2> HIDE DEF F
  <2>2. Cardinality(F) <= statErrors
    <3>1. Counts(Counted, statErrors)
      BY DEF CountOK
    <3> QED
      BY <2>1, <3>1, CountsParts
  <2> QED
    BY <2>2 DEF With, F
<1>3. ASSUME Quiet
      PROVE  /\ statTotal = With(200) + With(503) + statErrors
             /\ statBatchSum = statTotal - With(503)
             /\ statBatches = backendSeq
  <2>1. /\ \A r \in Req : hpc[r] = "done"
        /\ \A d \in Req : dpc[d] \in {"none", "done"}
        /\ bpc = "first"
    BY <1>3 DEF Quiet
  <2>2. \A r \in Req : Out(r) = resp[r] /\ resp[r] # None
    BY <2>1 DEF HandlerOK, Out
  <2>3. ASSUME NEW r \in Accepted
        PROVE  HasCode(r, 200) \/ HasCode(r, 502) \/ HasCode(r, 503)
    <3>1. r \in Req /\ Out(r) # None /\ Out(r) \notin Turned
      BY <2>2 DEF Accepted
    <3>2. CASE r \notin Spawned
      <4>1. Out(r) = Failed(503)
        BY <3>1, <3>2, Told
      <4> QED
        BY <1>t, <3>1, <4>1 DEF HasCode
    <3>3. CASE r \in Spawned
      <4>1. PICK d \in Req : /\ r \in Elems(dbatch[d]) /\ dpc[d] \in {"reply", "done"}
                             /\ Out(r) = Outcome(d, r)
        BY <3>1, <3>3, Told
      <4>2. Out(r).code = IF r \in Counted THEN 502 ELSE 200
        BY <4>1, ToldByCall
      <4> QED
        BY <3>1, <4>2 DEF HasCode
    <3> QED
      BY <3>2, <3>3
  <2>4. ASSUME NEW r \in Req, HasCode(r, 200) \/ HasCode(r, 502) \/ HasCode(r, 503)
        PROVE  r \in Accepted
    <3>1. resp[r] \notin Turned
      BY <1>t, <2>2, <2>4 DEF HasCode
    <3> QED
      BY <2>1, <3>1 DEF Accepted
  <2>5. Spawned \subseteq Accepted
    <3>1. \A d \in Req : Elems(dbatch[d]) \subseteq Req
      BY ElemsType DEF TypeOK
    <3>2. Spawned \subseteq Req
      BY <3>1 DEF Spawned
    <3> QED
      BY <2>1, <3>2 DEF HandlerOK, Accepted
  <2>6. Counted \subseteq Spawned
    BY DEF Counted, FailedCalls, Spawned
  <2>7. S(503) = Accepted \ Spawned
    <3>1. ASSUME NEW r \in Accepted PROVE r \in Req
      BY DEF Accepted
    <3>2. ASSUME NEW r \in S(503) PROVE r \in Accepted \ Spawned
      BY <1>1, <2>4
    <3>3. ASSUME NEW r \in Accepted \ Spawned PROVE r \in S(503)
      BY <1>1, <2>3, <3>1
    <3> QED
      BY <3>2, <3>3
  <2>8. S(200) = Spawned \ Counted
    <3>1. ASSUME NEW r \in S(200) PROVE r \in Spawned \ Counted
      <4>1. ~HasCode(r, 502) /\ ~HasCode(r, 503)
        BY DEF HasCode
      <4> QED
        BY <1>1, <4>1
    <3>2. ASSUME NEW r \in Spawned \ Counted PROVE r \in S(200)
      <4>1. r \in Accepted /\ r \in Req
        BY <2>5, <3>2 DEF Accepted
      <4>2. HasCode(r, 200) \/ HasCode(r, 502) \/ HasCode(r, 503)
        BY <2>3, <4>1
      <4>3. ~HasCode(r, 502) /\ ~HasCode(r, 503)
        BY <1>1, <3>2, <4>1, <4>2
      <4> QED
        BY <4>1, <4>2, <4>3
    <3> QED
      BY <3>1, <3>2
  <2> HIDE DEF S
  <2>9. Cardinality(S(503)) = statTotal - statBatchSum
    BY <2>5, <2>7, CountsParts DEF CountOK, Counts
  <2>10. Cardinality(S(200)) = statBatchSum - statErrors
    BY <2>6, <2>8, CountsParts DEF CountOK, Counts
  <2>11. Begun = Posted
    BY <2>1 DEF Begun, Posted
  <2>12. statBatches = backendSeq
    BY <2>1, <2>11 DEF CountOK, Counts
  <2>13. statTotal \in Nat /\ statBatchSum \in Nat /\ statErrors \in Nat
    BY DEF TypeOK
  <2>14. With(200) = Cardinality(S(200)) /\ With(503) = Cardinality(S(503))
    BY DEF With, S
  <2> QED
    BY <2>9, <2>10, <2>12, <2>13, <2>14
<1> QED
  BY <1>2, <1>3 DEF CountersAddUp

(* The counters of /stats account for every request: while batches fit, an   *)
(* error is counted before a client can see it, and at rest the totals split *)
(* into answered, shed and failed requests.                                  *)
THEOREM StatsAccount == BatchesFit => (Spec => []CountersAddUp)
<1> SUFFICES ASSUME BatchesFit PROVE Spec => []CountersAddUp
  OBVIOUS
<1>1. Init => LGInv /\ CountOK
  BY StartsInLGInv, StartsInCountOK
<1>2. LGInv /\ CountOK /\ [Next]_vars => (LGInv /\ CountOK)'
  BY StepKeepsLGInv, StepKeepsCountOK
<1>3. LGInv /\ CountOK => CountersAddUp
  BY CountersFromInv
<1> QED
  BY <1>1, <1>2, <1>3, PTL DEF Spec
=============================================================================
