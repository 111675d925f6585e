----------------------------- MODULE BatchBackend -----------------------------
(* One call of POST /predict_batch of python/batch_backend.py. Calls run on  *)
(* a pool of threads and share nothing but statistics, so a call is what it  *)
(* returns for its payload: a sequence of records with an id, a state and    *)
(* the set of question ids (a dict) asked about that state.                  *)
EXTENDS Integers, Sequences

CONSTANTS
    MaxReqPerBatch,    (* MAX_REQ_PER_BATCH                                    *)
    Unbuildable,       (* questions that _to_internal or build_sequence raise  *)
                       (* on, or whose options exceed head_max_len             *)
    Malformed          (* a request that PredictItem does not validate         *)

ASSUME BackendAssumption == MaxReqPerBatch \in Nat

NoReply == [id \in {} |-> 0]
Status(code) == [status |-> code, answers |-> NoReply]

(* Fault: the answers of a request go where those of the previous one went.  *)
LastAskerShifted(b, id, q) ==
    LET askers == {i \in DOMAIN b : b[i].id = id /\ q \in b[i].questions}
        last == CHOOSE i \in askers : \A j \in askers : j <= i
    IN  IF last > 1 THEN last - 1 ELSE last

(* Rows are written to answers[requests[ri].id][qid] in turn: of two requests*)
(* with one id the later one's answers remain.                               *)
LastAsker(b, id, q) ==
    LET askers == {i \in DOMAIN b : b[i].id = id /\ q \in b[i].questions}
    IN  CHOOSE i \in askers : \A j \in askers : j <= i

(* run_batch: an answer is named by the state it is about; without a question*)
(* every id gets an empty dict, as it does in the formula.                   *)
RunBatch(b) ==
    IF \E i \in DOMAIN b : b[i].questions \cap Unbuildable # {}
    THEN Status(500)
    ELSE [status |-> 200,
          answers |-> [id \in {b[i].id : i \in DOMAIN b} |->
              [q \in UNION {b[i].questions : i \in {j \in DOMAIN b : b[j].id = id}} |->
                  b[LastAsker(b, id, q)].state]]]

(* predict_batch: the whole payload is validated, its head is run.           *)
PredictBatch(pb) ==
    IF \E i \in DOMAIN pb : pb[i].questions = Malformed
    THEN Status(422)
    ELSE RunBatch(SubSeq(pb, 1, IF Len(pb) < MaxReqPerBatch THEN Len(pb) ELSE MaxReqPerBatch))
=============================================================================
