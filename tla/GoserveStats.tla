----------------------------- MODULE GoserveStats -----------------------------
(* goserve with a client that asks for /stats while it serves: handleStats   *)
(* loads the counters one by one while the handlers, the batcher and the     *)
(* dispatch goroutines go on.                                                *)
EXTENDS Goserve

CONSTANT MaxReads  (* bound: how many times the client asks                    *)

VARIABLES
    reads, pos,    (* requests for /stats, and the next load of the one at hand*)
    snap           (* what its loads gave so far                               *)

statsVars == <<reads, pos, snap>>

(* Faults: the order of layagate; the sum first.                             *)
OrderOfLayagate == <<"requests", "batches", "sum", "errors">>
OrderSumFirst == <<"sum", "batches", "requests", "errors">>

Order == <<"batches", "sum", "requests", "errors">>

Counts == [requests |-> statReq, batches |-> statBatch, sum |-> statBatchSum, errors |-> statErr]
Zero == [c \in DOMAIN Counts |-> 0]

Ask ==
    /\ pos = 0 /\ reads < MaxReads
    /\ reads' = reads + 1
    /\ pos' = 1
    /\ snap' = Zero

(* The sum of the batch sizes is only loaded for a quotient.                 *)
Load ==
    /\ pos \in DOMAIN Order
    /\ snap' = IF Order[pos] = "sum" /\ snap.batches = 0 THEN snap
               ELSE [snap EXCEPT ![Order[pos]] = Counts[Order[pos]]]
    /\ pos' = pos + 1
    /\ UNCHANGED reads

Encode ==
    /\ pos > Len(Order)
    /\ pos' = 0
    /\ UNCHANGED <<reads, snap>>

StatsStep == up /\ (Ask \/ Load \/ Encode) /\ UNCHANGED vars

StatsInit == Init /\ reads = 0 /\ pos = 0 /\ snap = Zero
StatsNext == (Next /\ UNCHANGED statsVars) \/ StatsStep

StatsSpec == StatsInit /\ [][StatsNext]_<<vars, statsVars>> /\ Fairness

-----------------------------------------------------------------------------
(* Properties *)

Complete == pos > Len(Order)

(* "avg_batch_size" never falls short of the batches by more than the one    *)
(* that is counted and not yet summed up: it is at least (n - 1) / n of n    *)
(* "batches", though statBatch is bumped before statBatchSum.                *)
AverageLags == Complete /\ snap.batches > 0 => snap.sum >= snap.batches - 1

(* "batches" times "avg_batch_size" is not more than "requests_total": the   *)
(* requests of a batch were counted before it was, and are loaded after.     *)
SumWithinRequests == Complete => snap.sum <= snap.requests
=============================================================================
