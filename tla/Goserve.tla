------------------------------- MODULE Goserve --------------------------------
(* The gateway process of go/goserve: the handlers, reqCh and the batcher    *)
(* (module Batcher) with the dispatch goroutines it starts (module Dispatch).*)
EXTENDS ServeTypes

CONSTANTS BuildWorkers, Engine, Groups

ASSUME WorkerAssumption == BuildWorkers \in Nat \ {0}
ASSUME GroupAssumption ==
    /\ Groups \in Seq(Seq(Engine)) /\ Groups # <<>>
    /\ \A g \in DOMAIN Groups : Groups[g] # <<>>
ASSUME NilAssumption == None # <<>> /\ None \notin Reply

VARIABLES
    hpc, resp, queue, bpc, carry, batch, totalQ, expired, launched,
    statReq, statBatch, statBatchSum,
    up, dpc, dbatch, ch, local, built, grp, cand, load, ei, rows, answers, next,
    inflight, gpuSeq, owner, statErr

B == INSTANCE Batcher
D == INSTANCE Dispatch

frontVars == <<hpc, resp, queue, bpc, carry, batch, totalQ, expired, launched,
               statReq, statBatch, statBatchSum>>
backVars == <<up, dpc, dbatch, ch, local, built, grp, cand, load, ei, rows, answers,
              next, inflight, gpuSeq, owner, statErr>>
vars == <<keys, respCh, frontVars, backVars>>

Init == B!Init /\ D!Init

(* A handler or the batcher moves; a dispatch goroutine moves.               *)
HandlerStep(r) == up /\ B!Handler(r) /\ UNCHANGED backVars
BatcherStep ==
    /\ up
    /\ \/ B!OpenCarried \/ B!OpenQueued
       \/ B!FillFull \/ B!FillWait \/ B!FillExpired
       \/ B!Take \/ B!TimerFires \/ B!PollEmpty
       \/ B!CountBatch
    /\ UNCHANGED backVars
Expire == up /\ B!Expire /\ UNCHANGED backVars
DispatchStep(d) == up /\ D!Step(d) /\ UNCHANGED frontVars

(* go dispatch(batch)                                                        *)
Launch == up /\ B!Launch /\ D!Spawn(batch)

(* The process is down, or every client has its response.                    *)
Quiet ==
    /\ \A r \in Req : hpc[r] = "done"
    /\ bpc = "first"
    /\ \A d \in Req : dpc[d] \in {"none", "done"}
Rest == (~up \/ Quiet) /\ UNCHANGED vars

Next ==
    \/ \E r \in Req : HandlerStep(r)
    \/ BatcherStep
    \/ Expire
    \/ Launch
    \/ \E d \in Req : DispatchStep(d)
    \/ Rest

Spec == Init /\ [][Next]_vars

(* Goroutines are scheduled, time passes, engine calls end.                  *)
Fairness ==
    /\ WF_vars(BatcherStep \/ Launch) /\ WF_vars(Expire)
    /\ \A r \in Req : /\ WF_vars(hpc[r] # "idle" /\ HandlerStep(r))
                      /\ WF_vars(DispatchStep(r))

-----------------------------------------------------------------------------
(* Properties *)

(* A dispatch goroutine is started once per batch and never finds the reply  *)
(* channel of a request occupied: no request is in two batches, and no       *)
(* goroutine leaks on a send.                                                *)
NeverBlocksOnReply == D!NeverBlocksOnReply

(* Once the process is quiet, "requests_total" splits into the answered, the *)
(* "errors", and the requests shed with 503, which no counter reports; and   *)
(* into the shed and those that "batches" times "avg_batch_size" says were   *)
(* in a batch.                                                               *)
WithCode(codes) == {r \in Req : resp[r].code \in codes}
RequestsAddUp ==
    Quiet /\ up =>
        /\ statReq = statErr + Cardinality(WithCode({200, 503}))
        /\ statReq = statBatchSum + Cardinality(WithCode({503}))

(* POST /predict as the client sees it.                                      *)
Service == INSTANCE DecisionService WITH
    phase <- [r \in Req |-> CASE hpc[r] = "idle" -> "new"
                              [] hpc[r] = "done" -> "closed"
                              [] OTHER -> "pending"]
ImplementsService == Service!Spec

(* Every accepted request is answered, unless a panic takes the process down.*)
EveryRequestAnswered == \A r \in Req : hpc[r] = "send" ~> (hpc[r] = "done" \/ ~up)
=============================================================================
