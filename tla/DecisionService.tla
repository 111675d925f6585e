--------------------------- MODULE DecisionService ----------------------------
(* What a client of go/goserve is promised by POST /predict, whatever the    *)
(* batches its request travels in: one response, and if it is an answer, the *)
(* answer to each of its own valid questions and to nothing else.            *)
EXTENDS ServeTypes

VARIABLES
    phase,         (* "new", "pending" or "closed", for each request           *)
    resp           (* the response of each request, None before                *)

serviceVars == <<keys, phase, resp>>

Init ==
    /\ keys = [r \in Req |-> <<>>]
    /\ phase = [r \in Req |-> "new"]
    /\ resp = [r \in Req |-> None]

Submit(r, ks) ==
    /\ phase[r] = "new"
    /\ keys' = [keys EXCEPT ![r] = ks]

Close(r, reply) ==
    /\ phase' = [phase EXCEPT ![r] = "closed"]
    /\ resp' = [resp EXCEPT ![r] = reply]

Refuse(r) ==
    /\ \E ks \in Bodies : Len(ks) \notin 1..BatchMax /\ Submit(r, ks)
    /\ Close(r, Failed(400))

Admit(r) ==
    /\ \E ks \in Bodies : Len(ks) \in 1..BatchMax /\ Submit(r, ks)
    /\ phase' = [phase EXCEPT ![r] = "pending"]
    /\ UNCHANGED resp

(* Overload (503) and an engine failure (502) may strike any pending request.*)
Fail(r) ==
    /\ phase[r] = "pending"
    /\ \E c \in {502, 503} : Close(r, Failed(c))
    /\ UNCHANGED keys

Answer(r) ==
    /\ phase[r] = "pending" /\ ValidKeys(r) # {}
    /\ Close(r, Answered([q \in ValidKeys(r) |-> <<r, q>>]))
    /\ UNCHANGED keys

(* "no valid questions"                                                      *)
Reject(r) ==
    /\ phase[r] = "pending" /\ ValidKeys(r) = {}
    /\ Close(r, Failed(400))
    /\ UNCHANGED keys

Next == \E r \in Req : Refuse(r) \/ Admit(r) \/ Fail(r) \/ Answer(r) \/ Reject(r)

Spec == Init /\ [][Next]_serviceVars
=============================================================================
