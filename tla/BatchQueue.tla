----------------------------- MODULE BatchQueue ------------------------------
(* What the batcher of go/goserve promises: accepted requests stand in one   *)
(* line, and batches are cut from its front, in order, each of at least one  *)
(* request and of at most BatchMax questions.                                *)
EXTENDS ServeTypes

VARIABLES
    line,          (* the requests waiting, oldest first                       *)
    sent           (* the batches cut so far                                   *)

lineVars == <<keys, line, sent>>

Known(r) == r \in Elems(line) \/ \E i \in DOMAIN sent : r \in Elems(sent[i])

Init ==
    /\ keys = [r \in Req |-> <<>>]
    /\ line = <<>>
    /\ sent = <<>>

(* A client chooses its questions before it stands in line.                  *)
Submit(r) ==
    /\ ~Known(r)
    /\ \E ks \in Bodies : keys' = [keys EXCEPT ![r] = ks]
    /\ UNCHANGED <<line, sent>>

Join(r) ==
    /\ ~Known(r)
    /\ Len(keys[r]) \in 1..BatchMax
    /\ line' = Append(line, r)
    /\ UNCHANGED <<keys, sent>>

Cut(n) ==
    /\ Cardinality(Slots(SubSeq(line, 1, n))) <= BatchMax
    /\ sent' = Append(sent, SubSeq(line, 1, n))
    /\ line' = SubSeq(line, n + 1, Len(line))
    /\ UNCHANGED keys

Next ==
    \/ \E r \in Req : Submit(r) \/ Join(r)
    \/ \E n \in 1..Len(line) : Cut(n)

Spec == Init /\ [][Next]_lineVars
=============================================================================
