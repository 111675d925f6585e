------------------------------- MODULE Dispatch -------------------------------
(* dispatch of go/goserve/main.go: the goroutine each batch is handed to. It *)
(* builds the sequences on parallel workers, has one engine of one GPU group *)
(* score them, and replies to every request of the batch. Any number of      *)
(* these goroutines run at once; each is named by the first request of its   *)
(* batch.                                                                    *)
EXTENDS ServeTypes

CONSTANTS
    BuildWorkers,  (* BUILD_WORKERS, the build goroutines of one dispatch      *)
    Engine,        (* the engine sessions                                      *)
    Groups         (* gpuGroups: the engines of each GPU, as a sequence of     *)
                   (* sequences                                                *)

ASSUME WorkerAssumption == BuildWorkers \in Nat \ {0}
ASSUME GroupAssumption ==
    /\ Groups \in Seq(Seq(Engine)) /\ Groups # <<>>
    /\ \A g \in DOMAIN Groups : Groups[g] # <<>>
ASSUME NilAssumption == None # <<>> /\ \A c \in {400, 502} : None # Failed(c)

VARIABLES
    up,            (* FALSE once a goroutine has panicked: the process is gone *)
    dpc,           (* where each dispatch goroutine is                         *)
    dbatch,        (* its batch                                                *)
    ch,            (* the requests its workers have not taken yet              *)
    local,         (* what each of its running workers has built               *)
    built,         (* what its finished workers have built                     *)
    grp, cand, load, ei,   (* its choice of an engine: the group, the next     *)
                   (* candidate, the load just read, the best engine so far    *)
    rows,          (* the item behind each row of logits, None if Run failed   *)
    answers,       (* the answers of each request of its batch                 *)
    next,          (* the index of the next request to reply to                *)
    inflight,      (* engInflight                                              *)
    gpuSeq,        (* the number of groups picked so far                       *)
    owner,         (* who holds the mutex of each engine, or None              *)
    statErr

buildVars == <<dbatch, ch, local, built>>
pickVars == <<grp, cand, load, ei, gpuSeq>>
runVars == <<inflight, owner, rows>>
replyVars == <<answers, next, statErr, respCh>>
vars == <<keys, up, dpc, buildVars, pickVars, runVars, replyVars>>

Init ==
    /\ up = TRUE
    /\ dpc = [d \in Req |-> "none"]
    /\ dbatch = [d \in Req |-> <<>>]
    /\ ch = [d \in Req |-> <<>>]
    /\ local = [d \in Req |-> <<>>]
    /\ built = [d \in Req |-> <<>>]
    /\ grp = [d \in Req |-> 0]
    /\ cand = [d \in Req |-> 0]
    /\ load = [d \in Req |-> 0]
    /\ ei = [d \in Req |-> None]
    /\ rows = [d \in Req |-> <<>>]
    /\ answers = [d \in Req |-> <<>>]
    /\ next = [d \in Req |-> 1]
    /\ inflight = [e \in Engine |-> 0]
    /\ gpuSeq = 0
    /\ owner = [e \in Engine |-> None]
    /\ statErr = 0

Goto(d, label) == dpc' = [dpc EXCEPT ![d] = label]

(* Nothing in dispatch recovers: a panic ends the process.                   *)
Panic ==
    /\ up' = FALSE
    /\ UNCHANGED <<keys, dpc, buildVars, pickVars, runVars, replyVars>>

-----------------------------------------------------------------------------
(* Building *)

(* go dispatch(b): the batch is in ch, which is closed, and at most one      *)
(* worker per request runs.                                                  *)
Spawn(b) ==
    LET d == Head(b)
        n == IF BuildWorkers > Len(b) THEN Len(b) ELSE BuildWorkers
    IN  /\ Goto(d, "build")
        /\ dbatch' = [dbatch EXCEPT ![d] = b]
        /\ ch' = [ch EXCEPT ![d] = b]
        /\ local' = [local EXCEPT ![d] = [w \in 1..n |-> <<>>]]
        /\ UNCHANGED <<up, built, pickVars, runVars, replyVars>>

(* One builtQ per question of the request; "it" is nil for a question that   *)
(* ToInternal refuses.                                                       *)
BuiltOf(r) == [i \in DOMAIN keys[r] |->
                  [req |-> r, q |-> keys[r][i], it |-> Valid(keys[r][i])]]

BuildRequest(d, w) ==
    /\ dpc[d] = "build" /\ w \in DOMAIN local[d] /\ ch[d] # <<>>
    /\ LET r == Head(ch[d]) IN
         IF \E q \in Elems(keys[r]) : Kind[q] = "panicBuild"
         THEN Panic
         ELSE /\ ch' = [ch EXCEPT ![d] = Tail(@)]
              /\ local' = [local EXCEPT ![d][w] = @ \o BuiltOf(r)]
              /\ UNCHANGED <<keys, up, dpc, dbatch, built, pickVars, runVars, replyVars>>

(* ch is drained: the worker adds its list to built, under mu, and is done.  *)
MergeLocal(d, w) ==
    /\ dpc[d] = "build" /\ w \in DOMAIN local[d] /\ ch[d] = <<>>
    /\ built' = [built EXCEPT ![d] = @ \o local[d][w]]
    /\ local' = [local EXCEPT ![d] = [v \in DOMAIN @ \ {w} |-> @[v]]]
    /\ UNCHANGED <<keys, up, dpc, dbatch, ch, pickVars, runVars, replyVars>>

(* Fault: the count starts anew with each request.                           *)
ValidIndexPerRequest(bs, i) ==
    Cardinality({j \in 1..(i - 1) : bs[j].it /\ bs[j].req = bs[i].req})

(* b.vi, the place of a built question in the batch sent to the engine.      *)
ValidIndex(bs, i) == Cardinality({j \in 1..(i - 1) : bs[j].it})

(* The loop that gives valid its items, one builtQ after the other.          *)
ValidPrefixes(bs) ==
    LET valid[n \in 0..Len(bs)] ==
            IF n = 0 THEN <<>>
            ELSE IF bs[n].it THEN Append(valid[n - 1], <<bs[n].req, bs[n].q>>)
            ELSE valid[n - 1]
    IN  valid
ValidItems(bs) == ValidPrefixes(bs)[Len(bs)]

(* wg.Wait returns: without a valid question no engine is called.            *)
Assemble(d) ==
    /\ dpc[d] = "build" /\ DOMAIN local[d] = {}
    /\ answers' = [answers EXCEPT ![d] = [r \in Elems(dbatch[d]) |-> NoAnswers]]
    /\ Goto(d, IF ValidItems(built[d]) = <<>> THEN "reply" ELSE "group")
    /\ UNCHANGED <<keys, up, buildVars, pickVars, runVars, next, statErr, respCh>>

-----------------------------------------------------------------------------
(* Choosing and calling an engine *)

(* gpuSeq.Add(1)-1 picks the groups in turn; the scan starts at the first    *)
(* engine of the group.                                                      *)
PickGroup(d) ==
    LET g == (gpuSeq % Len(Groups)) + 1 IN
    /\ dpc[d] = "group"
    /\ gpuSeq' = gpuSeq + 1
    /\ grp' = [grp EXCEPT ![d] = g]
    /\ ei' = [ei EXCEPT ![d] = Groups[g][1]]
    /\ cand' = [cand EXCEPT ![d] = 2]
    /\ Goto(d, "scan")
    /\ UNCHANGED <<keys, up, buildVars, load, runVars, replyVars>>

(* The two loads of a comparison are separate: others move in between.       *)
LoadCandidate(d) ==
    /\ dpc[d] = "scan" /\ cand[d] <= Len(Groups[grp[d]])
    /\ load' = [load EXCEPT ![d] = inflight[Groups[grp[d]][cand[d]]]]
    /\ Goto(d, "compare")
    /\ UNCHANGED <<keys, up, buildVars, grp, cand, ei, gpuSeq, runVars, replyVars>>

CompareCandidate(d) ==
    /\ dpc[d] = "compare"
    /\ ei' = IF load[d] < inflight[ei[d]]
             THEN [ei EXCEPT ![d] = Groups[grp[d]][cand[d]]]
             ELSE ei
    /\ cand' = [cand EXCEPT ![d] = @ + 1]
    /\ load' = [load EXCEPT ![d] = 0]
    /\ Goto(d, "scan")
    /\ UNCHANGED <<keys, up, buildVars, grp, gpuSeq, runVars, replyVars>>

Charge(d) ==
    /\ dpc[d] = "scan" /\ cand[d] > Len(Groups[grp[d]])
    /\ inflight' = [inflight EXCEPT ![ei[d]] = @ + 1]
    /\ Goto(d, "lock")
    /\ UNCHANGED <<keys, up, buildVars, pickVars, owner, rows, replyVars>>

(* Fault: the mutex is not taken.                                            *)
LockNothing(d) ==
    /\ dpc[d] = "lock"
    /\ owner' = [owner EXCEPT ![ei[d]] = d]
    /\ Goto(d, "run")
    /\ UNCHANGED <<keys, up, buildVars, pickVars, inflight, rows, replyVars>>

(* Engine.Run holds the engine's mutex for the whole call.                   *)
Lock(d) ==
    /\ dpc[d] = "lock" /\ owner[ei[d]] = None
    /\ owner' = [owner EXCEPT ![ei[d]] = d]
    /\ Goto(d, "run")
    /\ UNCHANGED <<keys, up, buildVars, pickVars, inflight, rows, replyVars>>

(* Fault: an error return that leaves the mutex locked.                      *)
UnlockIfOk(d, result) ==
    /\ dpc[d] = "run"
    /\ rows' = [rows EXCEPT ![d] = result]
    /\ owner' = IF result = None THEN owner ELSE [owner EXCEPT ![ei[d]] = None]
    /\ Goto(d, "release")
    /\ UNCHANGED <<keys, up, buildVars, pickVars, inflight, replyVars>>

Unlock(d, result) ==
    /\ dpc[d] = "run"
    /\ rows' = [rows EXCEPT ![d] = result]
    /\ owner' = [owner EXCEPT ![ei[d]] = None]
    /\ Goto(d, "release")
    /\ UNCHANGED <<keys, up, buildVars, pickVars, inflight, replyVars>>

RunOk(d) == Unlock(d, ValidItems(built[d]))
RunFails(d) == Unlock(d, None)

(* Fault: the early return on an error comes before Add(-1).                 *)
ReleaseIfOk(d) ==
    /\ dpc[d] = "release"
    /\ inflight' = IF rows[d] = None THEN inflight ELSE [inflight EXCEPT ![ei[d]] = @ - 1]
    /\ Goto(d, IF rows[d] = None THEN "fail" ELSE "answer")
    /\ UNCHANGED <<keys, up, buildVars, pickVars, owner, rows, replyVars>>

Release(d) ==
    /\ dpc[d] = "release"
    /\ inflight' = [inflight EXCEPT ![ei[d]] = @ - 1]
    /\ Goto(d, IF rows[d] = None THEN "fail" ELSE "answer")
    /\ UNCHANGED <<keys, up, buildVars, pickVars, owner, rows, replyVars>>

-----------------------------------------------------------------------------
(* Answering *)

(* answers[b.req].Set(b.qid, ...) for every built question in turn, from the *)
(* row at b.vi: a repeated question id is overwritten by its last occurrence.*)
LastBuilt(bs, r, q) ==
    CHOOSE i \in DOMAIN bs : /\ bs[i].req = r /\ bs[i].q = q
                             /\ \A j \in DOMAIN bs : bs[j].req = r /\ bs[j].q = q => j <= i

(* Fault: answers are gathered by question id, whoever asked.                *)
AnswersById(bs, rws, r) ==
    [q \in {bs[i].q : i \in {j \in DOMAIN bs : bs[j].it}} |->
        rws[ValidIndex(bs, CHOOSE i \in DOMAIN bs : bs[i].q = q) + 1]]

AnswersOf(bs, rws, r) ==
    [q \in {bs[i].q : i \in {j \in DOMAIN bs : bs[j].req = r /\ bs[j].it}} |->
        rws[ValidIndex(bs, LastBuilt(bs, r, q)) + 1]]

Asks(d, kind) == \E i \in DOMAIN built[d] : Kind[built[d][i].q] = kind

Answer(d) ==
    /\ dpc[d] = "answer"
    /\ \/ /\ Asks(d, "panicAnswer") \/ Asks(d, "short")
          /\ Panic
       \/ /\ ~Asks(d, "panicAnswer")
          /\ answers' = [answers EXCEPT ![d] =
                            [r \in DOMAIN @ |-> AnswersOf(built[d], rows[d], r)]]
          /\ Goto(d, "reply")
          /\ UNCHANGED <<keys, up, buildVars, pickVars, runVars, next, statErr, respCh>>

(* The call failed: all the batch is counted first, then told.               *)
CountFailedCall(d) ==
    /\ dpc[d] = "fail"
    /\ statErr' = statErr + Len(dbatch[d])
    /\ Goto(d, "reply")
    /\ UNCHANGED <<keys, up, buildVars, pickVars, runVars, answers, next, respCh>>

(* Fault: the requests without a valid question do not fail with the call.  *)
ReplyByRequest(d, r) ==
    IF ValidKeys(r) = {} THEN Failed(400)
    ELSE IF rows[d] = None THEN Failed(502)
    ELSE Answered(answers[d][r])

ReplyTo(d, r) ==
    IF rows[d] = None THEN Failed(502)
    ELSE IF answers[d][r] # NoAnswers THEN Answered(answers[d][r])
    ELSE Failed(400)

(* A send blocks while the channel of capacity one is full.                  *)
Send(d) ==
    /\ dpc[d] = "reply" /\ next[d] <= Len(dbatch[d])
    /\ LET r == dbatch[d][next[d]] IN
         /\ respCh[r] = None
         /\ respCh' = [respCh EXCEPT ![r] = ReplyTo(d, r)]
    /\ next' = [next EXCEPT ![d] = @ + 1]
    /\ UNCHANGED <<keys, up, dpc, buildVars, pickVars, runVars, answers, statErr>>

(* The requests without an answer are counted after the replies.             *)
FailedIn(d) == {r \in Elems(dbatch[d]) : answers[d][r] = NoAnswers}

(* Fault: a failed call is counted again.                                    *)
FinishCountsAll(d) ==
    /\ dpc[d] = "reply" /\ next[d] > Len(dbatch[d])
    /\ statErr' = statErr + Cardinality(FailedIn(d))
    /\ Goto(d, "done")
    /\ UNCHANGED <<keys, up, buildVars, pickVars, runVars, answers, next, respCh>>

Finish(d) ==
    /\ dpc[d] = "reply" /\ next[d] > Len(dbatch[d])
    /\ statErr' = statErr + (IF rows[d] = None THEN 0 ELSE Cardinality(FailedIn(d)))
    /\ Goto(d, "done")
    /\ UNCHANGED <<keys, up, buildVars, pickVars, runVars, answers, next, respCh>>

Step(d) ==
    \/ \E w \in 1..BuildWorkers : BuildRequest(d, w) \/ MergeLocal(d, w)
    \/ Assemble(d)
    \/ PickGroup(d) \/ LoadCandidate(d) \/ CompareCandidate(d)
    \/ Charge(d) \/ Lock(d) \/ RunOk(d) \/ RunFails(d) \/ Release(d)
    \/ Answer(d) \/ CountFailedCall(d) \/ Send(d) \/ Finish(d)

-----------------------------------------------------------------------------
(* What the batcher does for this module: it launches batches of requests,   *)
(* each request once, within the cap.                                        *)
Spawned == UNION {Elems(dbatch[d]) : d \in Req}
Batches == {b \in UNION {[1..n -> Req \ Spawned] : n \in 1..BatchMax} :
               /\ \A i, j \in DOMAIN b : b[i] = b[j] => i = j
               /\ Cardinality(Slots(b)) <= BatchMax}

SubmitBatch ==
    /\ up /\ \E b \in Batches : Spawn(b)
    /\ UNCHANGED keys

(* The process is down, or all the replies are out.                          *)
Rest ==
    /\ ~up \/ (Spawned = Req /\ \A d \in Req : dpc[d] \in {"none", "done"})
    /\ UNCHANGED vars

Next ==
    \/ SubmitBatch
    \/ up /\ \E d \in Req : Step(d)
    \/ Rest

Start ==
    /\ keys \in [Req -> {ks \in Bodies : Len(ks) \in 1..BatchMax}]
    /\ respCh = [r \in Req |-> None]
    /\ Init
Spec == Start /\ [][Next]_vars

-----------------------------------------------------------------------------
(* Properties *)

RepliedWith(r, c) == respCh[r] # None /\ respCh[r].code = c

(* "keyed by request, not by client-supplied id": whatever the order the     *)
(* workers built in, an answered request gets exactly its own valid          *)
(* questions, each answered from the engine row of its own item.             *)
AnswersAreOwn ==
    \A r \in Req : RepliedWith(r, 200) =>
        /\ ValidKeys(r) # {}
        /\ respCh[r].answers = [q \in ValidKeys(r) |-> <<r, q>>]

(* A failed call fails the whole batch and only it: two requests of a batch  *)
(* never see one a 502 and the other not.                                    *)
CallFailsAsOne ==
    \A d \in Req : \A r, s \in Elems(dbatch[d]) :
        RepliedWith(r, 502) /\ respCh[s] # None => RepliedWith(s, 502)

(* At most one call at a time runs on an engine, and it holds the mutex.     *)
OneCallPerEngine ==
    \A d, f \in Req :
        dpc[d] = "run" => /\ owner[ei[d]] = d
                          /\ dpc[f] = "run" /\ ei[f] = ei[d] => f = d

(* engInflight counts the calls charged to an engine and not yet released,   *)
(* through every path, so that the choice of an engine is not skewed.        *)
InflightExact ==
    \A e \in Engine :
        inflight[e] = Cardinality({d \in Req : /\ dpc[d] \in {"lock", "run", "release"}
                                               /\ ei[d] = e})

(* No send of a reply ever blocks: the channel has room when its turn comes. *)
NeverBlocksOnReply ==
    \A d \in Req : dpc[d] = "reply" /\ next[d] <= Len(dbatch[d])
                      => respCh[dbatch[d][next[d]]] = None

(* "errors" counts every request answered with an error and no other, once   *)
(* its batch is finished; engine errors are counted before any client sees   *)
(* one.                                                                      *)
Erring == {r \in Req : respCh[r] # None /\ respCh[r].code # 200}
ErrorsCounted ==
    /\ Cardinality({r \in Req : RepliedWith(r, 502)}) <= statErr
    /\ (\A d \in Req : dpc[d] \in {"none", "done"}) => statErr = Cardinality(Erring)
=============================================================================
