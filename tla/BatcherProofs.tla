---------------------------- MODULE BatcherProofs -----------------------------
(* What Batcher guarantees for every number of requests, every cap, every    *)
(* capacity of reqCh and every list of questions.                            *)
EXTENDS Batcher, ListLemmas

-----------------------------------------------------------------------------
(* Facts about the operators of ServeTypes *)

(* The reply values the code sends belong to Reply.                          *)
LEMMA FailedIsReply ==
    ASSUME NEW c \in {400, 502, 503}
    PROVE  Failed(c) \in Reply
<1>1. NoAnswers \in [{} -> Item]
  BY DEF NoAnswers
<1>2. [{} -> Item] \in {[S -> Item] : S \in SUBSET Question}
  OBVIOUS
<1>3. NoAnswers \in UNION {[S -> Item] : S \in SUBSET Question}
  BY <1>1, <1>2
<1> QED
  BY <1>3 DEF Failed, Reply

LEMMA NoAnswersIsReply == Answered(NoAnswers) \in Reply
<1>1. NoAnswers \in [{} -> Item]
  BY DEF NoAnswers
<1>2. [{} -> Item] \in {[S -> Item] : S \in SUBSET Question}
  OBVIOUS
<1>3. NoAnswers \in UNION {[S -> Item] : S \in SUBSET Question}
  BY <1>1, <1>2
<1> QED
  BY <1>3 DEF Answered, Reply

(* The slots of a batch: a new request adds one per question it carries, and *)
(* they depend on the questions of the members only.                         *)
LEMMA SlotsSame ==
    ASSUME NEW s, NEW ks, NEW js, \A r \in Elems(s) : ks[r] = js[r]
    PROVE  SlotsOf(ks, s) = SlotsOf(js, s)
  BY DEF SlotsOf

LEMMA SlotsEmpty ==
    ASSUME NEW ks
    PROVE  IsFiniteSet(SlotsOf(ks, <<>>)) /\ Cardinality(SlotsOf(ks, <<>>)) = 0
<1>1. SlotsOf(ks, <<>>) = {}
  BY ElemsEmpty DEF SlotsOf
<1> QED
  BY <1>1, FS_EmptySet

LEMMA RowSize ==
    ASSUME NEW r, NEW S, NEW q \in Seq(S)
    PROVE  /\ IsFiniteSet({r} \X DOMAIN q)
           /\ Cardinality({r} \X DOMAIN q) = Len(q)
<1>1. DOMAIN q = 1..Len(q) /\ Len(q) \in Nat
  OBVIOUS
<1>2. IsFiniteSet(1..Len(q)) /\ Cardinality(1..Len(q)) = Len(q)
  BY <1>1, FS_Interval
<1>3. IsFiniteSet({r}) /\ Cardinality({r}) = 1
  BY FS_Singleton
<1>4. /\ IsFiniteSet({r} \X DOMAIN q)
      /\ Cardinality({r} \X DOMAIN q) = Cardinality({r}) * Cardinality(DOMAIN q)
  BY <1>1, <1>2, <1>3, FS_Product
<1> QED
  BY <1>1, <1>2, <1>3, <1>4

LEMMA SlotsAppend ==
    ASSUME NEW S, NEW s \in Seq(S), NEW r \in S, r \notin Elems(s),
           NEW T, NEW ks, ks[r] \in Seq(T), IsFiniteSet(SlotsOf(ks, s))
    PROVE  /\ IsFiniteSet(SlotsOf(ks, Append(s, r)))
           /\ Cardinality(SlotsOf(ks, Append(s, r))) =
                 Cardinality(SlotsOf(ks, s)) + Len(ks[r])
<1> DEFINE Row == {r} \X DOMAIN ks[r]
<1>1. SlotsOf(ks, Append(s, r)) = SlotsOf(ks, s) \cup Row
  BY ElemsAppend DEF SlotsOf
<1>2. SlotsOf(ks, s) \cap Row = {}
  BY DEF SlotsOf
<1>3. IsFiniteSet(Row) /\ Cardinality(Row) = Len(ks[r])
  BY RowSize
<1>4. /\ IsFiniteSet(SlotsOf(ks, s) \cup Row)
      /\ Cardinality(SlotsOf(ks, s) \cup Row) =
            Cardinality(SlotsOf(ks, s)) + Cardinality(Row) - Cardinality({})
  BY <1>2, <1>3, FS_Union, SMTT(20)
<1>5. Cardinality({}) = 0 /\ Cardinality(SlotsOf(ks, s)) \in Nat /\ Len(ks[r]) \in Nat
  BY FS_EmptySet, FS_CardinalityType
<1> QED
  BY <1>1, <1>3, <1>4, <1>5

LEMMA SlotsSingle ==
    ASSUME NEW r, NEW T, NEW ks, ks[r] \in Seq(T)
    PROVE  /\ IsFiniteSet(SlotsOf(ks, <<r>>))
           /\ Cardinality(SlotsOf(ks, <<r>>)) = Len(ks[r])
<1>1. SlotsOf(ks, <<r>>) = {r} \X DOMAIN ks[r]
  BY ElemsSingle DEF SlotsOf
<1> QED
  BY <1>1, RowSize

-----------------------------------------------------------------------------
(* Type correctness *)

LEMMA TypeInit == Init => TypeOK
<1> SUFFICES ASSUME Init PROVE TypeOK
  OBVIOUS
<1>1. <<>> \in Seq(Question) /\ <<>> \in Seq(Req) /\ <<>> \in Seq(Seq(Req)) /\ Len(<<>>) = 0
  OBVIOUS
<1>2. 0 <= QueueCap
  BY CapAssumption
<1>3. /\ queue \in Seq(Req) /\ Len(queue) <= QueueCap
      /\ batch \in Seq(Req) /\ launched \in Seq(Seq(Req))
      /\ keys \in [Req -> Seq(Question)]
  BY <1>1, <1>2 DEF Init
<1> QED
  BY <1>3 DEF Init, TypeOK

(* A handler writes a reply of the right type to its client.                 *)
LEMMA TypeHandler ==
    ASSUME TypeOK, NEW r \in Req, Handler(r)
    PROVE  TypeOK'
<1>1. CASE Refuse(r)
  BY <1>1, BodyAssumption, FailedIsReply
     DEF Refuse, Respond, TypeOK, batcherVars
<1>2. CASE Accept(r)
  BY <1>2, BodyAssumption DEF Accept, TypeOK, batcherVars
<1>3. CASE Enqueue(r)
  <2>1. queue' \in Seq(Req) /\ Len(queue') <= QueueCap
    BY <1>3, CapAssumption, AppendProperties DEF Enqueue, TypeOK
  <2> QED
    BY <1>3, <2>1 DEF Enqueue, TypeOK, batcherVars
<1>4. CASE QueueFull(r)
  BY <1>4, FailedIsReply DEF QueueFull, Respond, TypeOK, batcherVars
<1>5. CASE Receive(r)
  BY <1>5 DEF Receive, Respond, TypeOK, batcherVars
<1> QED
  BY <1>1, <1>2, <1>3, <1>4, <1>5 DEF Handler

(* A reply of dispatch, whatever it is.                                      *)
LEMMA TypeDeliver ==
    ASSUME TypeOK, NEW r \in Req, NEW reply \in Reply, Deliver(r, reply)
    PROVE  TypeOK'
  BY DEF Deliver, TypeOK, handlerVars, batcherVars

LEMMA TypeBatcher ==
    ASSUME TypeOK, BatcherStep \/ Expire
    PROVE  TypeOK'
<1>a. /\ \A q \in Seq(Req) : q # <<>> => Head(q) \in Req /\ Tail(q) \in Seq(Req)
                                         /\ Len(Tail(q)) = Len(q) - 1
      /\ \A q \in Seq(Question) : Len(q) \in Nat
      /\ Len(queue) \in Nat /\ Len(batch) \in Nat
  BY HeadTailProperties DEF TypeOK
<1>b. \A r \in Req : /\ <<r>> \in Seq(Req)
                     /\ Append(batch, r) \in Seq(Req)
                     /\ Len(keys[r]) \in Nat
  BY <1>a, AppendProperties DEF TypeOK
<1>1. CASE OpenCarried
  BY <1>1, <1>a, <1>b DEF OpenCarried, Open, TypeOK, handlerVars
<1>2. CASE OpenQueued
  <2>1. Head(queue) \in Req /\ queue' \in Seq(Req) /\ Len(queue') <= QueueCap
    BY <1>2, <1>a, CapAssumption DEF OpenQueued, TypeOK
  <2>2. batch' \in Seq(Req) /\ totalQ' \in Nat
    BY <1>2, <1>b, <2>1 DEF OpenQueued, Open
  <2> QED
    BY <1>2, <2>1, <2>2 DEF OpenQueued, Open, TypeOK, handlerVars
<1>3. CASE FillFull \/ FillWait \/ FillExpired \/ TimerFires \/ PollEmpty
  BY <1>3 DEF FillFull, FillWait, FillExpired, TimerFires, PollEmpty, Goto, TypeOK, handlerVars
<1>4. CASE Take
  <2>1. Head(queue) \in Req /\ queue' \in Seq(Req) /\ Len(queue') <= QueueCap
    BY <1>4, <1>a, CapAssumption DEF Take, TypeOK
  <2>2. batch' \in Seq(Req) /\ totalQ' \in Nat /\ carry' \in Req \cup {None}
    <3>1. CASE Fits(Head(queue))
      <4>1. /\ batch' = Append(batch, Head(queue))
            /\ totalQ' = totalQ + Len(keys[Head(queue)])
            /\ carry' = carry
        BY <1>4, <3>1 DEF Take
      <4>2. batch' \in Seq(Req)
        BY <4>1, <2>1, <1>b
      <4>3. totalQ' \in Nat
        BY <4>1, <2>1, <1>b DEF TypeOK
      <4> QED
        BY <4>1, <4>2, <4>3 DEF TypeOK
    <3>2. CASE ~Fits(Head(queue))
      BY <1>4, <2>1, <3>2 DEF Take, TypeOK
    <3> QED
      BY <3>1, <3>2
  <2>3. bpc' \in {"fill", "count"}
    BY <1>4 DEF Take
  <2> QED
    BY <1>4, <2>1, <2>2, <2>3 DEF Take, TypeOK, handlerVars
<1>5. CASE CountBatch
  BY <1>5 DEF CountBatch, TypeOK, handlerVars
<1>6. CASE Launch
  <2>1. launched' \in Seq(Seq(Req))
    BY <1>6, AppendProperties DEF Launch, TypeOK
  <2>2. statBatchSum' \in Nat /\ batch' \in Seq(Req)
    BY <1>6, <1>a DEF Launch, TypeOK
  <2> QED
    BY <1>6, <2>1, <2>2 DEF Launch, TypeOK, handlerVars
<1>7. CASE Expire
  BY <1>7 DEF Expire, TypeOK, handlerVars
<1> QED
  BY <1>1, <1>2, <1>3, <1>4, <1>5, <1>6, <1>7 DEF BatcherStep

(* Types are preserved by every step of the system.                          *)
LEMMA TypeStep == TypeOK /\ [Next]_vars => TypeOK'
<1> SUFFICES ASSUME TypeOK, [Next]_vars PROVE TypeOK'
  OBVIOUS
<1>1. CASE BatcherStep \/ Expire
  BY <1>1, TypeBatcher
<1>2. CASE \E r \in Req : Handler(r)
  BY <1>2, TypeHandler
<1>3. CASE \E r \in Req : Dispatched(r)
  BY <1>3, FailedIsReply, NoAnswersIsReply, TypeDeliver DEF Dispatched
<1>4. CASE UNCHANGED vars
  BY <1>4 DEF vars, handlerVars, batcherVars, TypeOK
<1> QED
  BY <1>1, <1>2, <1>3, <1>4 DEF Next, Rest

(* The variables of the handlers, of reqCh and of the batcher keep their     *)
(* types; in particular the channel never holds more than its capacity.      *)
THEOREM TypeCorrect == Spec => []TypeOK
<1> QED
  BY TypeInit, TypeStep, PTL DEF Spec

-----------------------------------------------------------------------------
(* How the pipeline moves *)

(* Appending to a sequence of pieces is appending to its last piece.         *)
LEMMA PipelineType ==
    ASSUME TypeOK
    PROVE  /\ CarrySeq \in Seq(Req)
           /\ batch \o CarrySeq \in Seq(Req)
           /\ Pipeline \in Seq(Req)
<1>1. CarrySeq \in Seq(Req)
  BY NoneAssumption DEF TypeOK, CarrySeq
<1>2. batch \o CarrySeq \in Seq(Req)
  BY <1>1, ConcatProperties DEF TypeOK
<1> QED
  BY <1>1, <1>2, ConcatProperties DEF TypeOK, Pipeline

(* Opening a batch and filling it moves requests within the pipeline and     *)
(* never changes their order.                                                *)
LEMMA PipelineFill ==
    ASSUME TypeOK, PhaseOK, BatcherStep \/ Expire, ~Launch
    PROVE  Pipeline' = Pipeline /\ launched' = launched
<1>a. /\ \A s \in Seq(Req) : <<>> \o s = s /\ s \o <<>> = s
      /\ \A s, t, u \in Seq(Req) : (s \o t) \o u = s \o (t \o u)
      /\ \A s \in Seq(Req) : \A r \in Req : Append(s, r) = s \o <<r>>
      /\ \A s \in Seq(Req) : s # <<>> =>
            Head(s) \in Req /\ Tail(s) \in Seq(Req) /\ s = <<Head(s)>> \o Tail(s)
      /\ \A r \in Req : <<r>> \in Seq(Req)
      /\ <<>> \in Seq(Req)
  <2>1. \A s \in Seq(Req) : s # <<>> =>
            Head(s) \in Req /\ Tail(s) \in Seq(Req) /\ s = <<Head(s)>> \o Tail(s)
    <3>1. SUFFICES ASSUME NEW s \in Seq(Req), s # <<>>
                   PROVE  Head(s) \in Req /\ Tail(s) \in Seq(Req)
                             /\ s = <<Head(s)>> \o Tail(s)
      OBVIOUS
    <3>2. Head(s) \in Req /\ Tail(s) \in Seq(Req) /\ Head(s) = s[1]
      BY <3>1, ElemsHeadTail
    <3>3. /\ Len(Tail(s)) = Len(s) - 1 /\ Len(s) \in Nat \ {0}
          /\ \A i \in 1..Len(Tail(s)) : Tail(s)[i] = s[i + 1]
      BY <3>1, HeadTailProperties, EmptySeq
    <3>4. /\ <<Head(s)>> \in Seq(Req) /\ Len(<<Head(s)>>) = 1
          /\ <<Head(s)>>[1] = Head(s)
      BY <3>2
    <3> DEFINE t == <<Head(s)>> \o Tail(s)
    <3>5. /\ t \in Seq(Req) /\ Len(t) = Len(s)
          /\ \A i \in 1..Len(s) : t[i] = IF i <= 1 THEN Head(s) ELSE Tail(s)[i - 1]
      BY <3>2, <3>3, <3>4, ConcatProperties
    <3>6. \A i \in 1..Len(s) : t[i] = s[i]
      BY <3>2, <3>3, <3>5
    <3>7. s = t
      BY <3>1, <3>5, <3>6, SeqEqual
    <3> QED
      BY <3>2, <3>7
  <2> QED
    BY <2>1, ConcatEmptySeq, ConcatAssociative, AppendIsConcat
<1>b. batch \in Seq(Req) /\ queue \in Seq(Req)
  BY DEF TypeOK
<1>1. CASE OpenCarried
  <2>1. /\ batch = <<>> /\ carry \in Req /\ carry' = None
        /\ batch' = <<carry>> /\ queue' = queue
    BY <1>1 DEF OpenCarried, Open, PhaseOK, TypeOK
  <2>2. CarrySeq = <<carry>> /\ CarrySeq' = <<>>
    BY <2>1, NoneAssumption DEF CarrySeq
  <2> QED
    BY <1>1, <1>a, <1>b, <2>1, <2>2 DEF OpenCarried, Open, Pipeline
<1>2. CASE OpenQueued
  <2>1. /\ batch = <<>> /\ carry = None /\ carry' = None /\ queue # <<>>
        /\ batch' = <<Head(queue)>> /\ queue' = Tail(queue)
    BY <1>2 DEF OpenQueued, Open, PhaseOK
  <2>2. CarrySeq = <<>> /\ CarrySeq' = <<>>
    BY <2>1 DEF CarrySeq
  <2> QED
    BY <1>2, <1>a, <1>b, <2>1, <2>2 DEF OpenQueued, Open, Pipeline
<1>3. CASE Take
  <2>1. carry = None /\ queue # <<>> /\ queue' = Tail(queue) /\ launched' = launched
    BY <1>3 DEF Take, PhaseOK
  <2>2. CarrySeq = <<>>
    BY <2>1 DEF CarrySeq
  <2>3. CASE batch' = Append(batch, Head(queue)) /\ carry' = carry
    <3>1. CarrySeq' = <<>>
      BY <2>1, <2>3 DEF CarrySeq
    <3>2. Pipeline = batch \o queue /\ Pipeline' = batch' \o queue'
      BY <1>a, <1>b, <2>1, <2>2, <2>3, <3>1 DEF Pipeline
    <3>3. batch' = batch \o <<Head(queue)>>
      BY <1>a, <1>b, <2>1, <2>3
    <3> QED
      BY <1>a, <1>b, <2>1, <3>2, <3>3
  <2>4. CASE batch' = batch /\ carry' = Head(queue)
    <3>1. CarrySeq' = <<Head(queue)>>
      BY <1>a, <1>b, <2>1, <2>4, NoneAssumption DEF CarrySeq
    <3>2. Pipeline = batch \o queue
      BY <1>a, <1>b, <2>2 DEF Pipeline
    <3>3. Pipeline' = (batch \o <<Head(queue)>>) \o Tail(queue)
      BY <2>1, <2>4, <3>1 DEF Pipeline
    <3> QED
      BY <1>a, <1>b, <2>1, <3>2, <3>3, SMTT(20)
  <2> QED
    BY <1>3, <2>1, <2>3, <2>4 DEF Take
<1>4. CASE FillFull \/ FillWait \/ FillExpired \/ TimerFires \/ PollEmpty \/ CountBatch \/ Expire
  BY <1>4 DEF FillFull, FillWait, FillExpired, TimerFires, PollEmpty, CountBatch, Expire,
              Goto, Pipeline, CarrySeq
<1> QED
  BY <1>1, <1>2, <1>3, <1>4 DEF BatcherStep

(* A new request joins at the end.                                           *)
LEMMA PipelineJoin ==
    ASSUME TypeOK, NEW r \in Req, Enqueue(r)
    PROVE  Pipeline' = Append(Pipeline, r) /\ launched' = launched
<1>1. /\ batch' = batch /\ CarrySeq' = CarrySeq /\ launched' = launched
      /\ queue' = Append(queue, r)
  BY DEF Enqueue, batcherVars, CarrySeq
<1>2. /\ batch \o CarrySeq \in Seq(Req) /\ queue \in Seq(Req) /\ Pipeline \in Seq(Req)
      /\ <<r>> \in Seq(Req)
  BY PipelineType DEF TypeOK
<1>3. /\ queue' = queue \o <<r>>
      /\ Append(Pipeline, r) = Pipeline \o <<r>>
  BY <1>1, <1>2, AppendIsConcat
<1>4. Pipeline' = (batch \o CarrySeq) \o (queue \o <<r>>)
  BY <1>1, <1>3 DEF Pipeline
<1> QED
  BY <1>1, <1>2, <1>3, <1>4, ConcatAssociative, SMTT(20) DEF Pipeline

(* Launching takes the batch away from the front.                            *)
LEMMA PipelineCut ==
    ASSUME TypeOK, Launch
    PROVE  /\ Pipeline = batch \o Pipeline'
           /\ Pipeline' \in Seq(Req)
           /\ launched' = Append(launched, batch)
<1>1. /\ batch' = <<>> /\ CarrySeq' = CarrySeq /\ queue' = queue
      /\ launched' = Append(launched, batch)
  BY DEF Launch, CarrySeq
<1>2. batch \in Seq(Req) /\ CarrySeq \in Seq(Req) /\ queue \in Seq(Req)
  BY PipelineType DEF TypeOK
<1>3. Pipeline' = CarrySeq \o queue
  BY <1>1, <1>2, ConcatEmptySeq DEF Pipeline
<1>4. Pipeline' \in Seq(Req)
  BY <1>2, <1>3, ConcatProperties
<1>5. (batch \o CarrySeq) \o queue = batch \o (CarrySeq \o queue)
  BY <1>2, ConcatAssociative
<1>6. Pipeline = batch \o Pipeline'
  BY <1>3, <1>5 DEF Pipeline
<1> QED
  BY <1>1, <1>4, <1>6

(* Nothing else touches it.                                                  *)
LEMMA PipelineSame ==
    ASSUME NEW r \in Req, \/ Refuse(r) \/ Accept(r) \/ QueueFull(r) \/ Receive(r)
                          \/ \E reply : Deliver(r, reply)
    PROVE  Pipeline' = Pipeline /\ launched' = launched
  BY DEF Refuse, Accept, QueueFull, Receive, Deliver, batcherVars, Pipeline, CarrySeq

-----------------------------------------------------------------------------
(* Where a request is *)

(* A request that joins has a new place; the others keep theirs.             *)
LEMMA PlacesJoin ==
    ASSUME NEW P \in Seq(Req), NEW L, NEW x \in Req, NEW r
    PROVE  PlacesIn(Append(P, x), L, r) =
              PlacesIn(P, L, r) \cup (IF r = x THEN {<<0, Len(P) + 1>>} ELSE {})
<1> DEFINE Q == Append(P, x)
<1>1. /\ Len(P) \in Nat
      /\ DOMAIN P = 1..Len(P) /\ DOMAIN Q = 1..(Len(P) + 1)
      /\ \A i \in 1..Len(P) : Q[i] = P[i]
      /\ Q[Len(P) + 1] = x
  BY AppendProperties
<1>2. 1..(Len(P) + 1) = 1..Len(P) \cup {Len(P) + 1}
  BY <1>1
<1>3. {j \in DOMAIN Q : Q[j] = r} =
         {j \in DOMAIN P : P[j] = r} \cup (IF r = x THEN {Len(P) + 1} ELSE {})
  BY <1>1, <1>2
<1> HIDE DEF Q
<1>4. {<<0, i>> : i \in {j \in DOMAIN Q : Q[j] = r}} =
         {<<0, i>> : i \in {j \in DOMAIN P : P[j] = r}}
            \cup (IF r = x THEN {<<0, Len(P) + 1>>} ELSE {})
  BY <1>3
<1>5. PlacesIn(Q, L, r) = PlacesIn(P, L, r) \cup (IF r = x THEN {<<0, Len(P) + 1>>} ELSE {})
  BY <1>4 DEF PlacesIn
<1> QED
  BY <1>5 DEF Q

(* A request is at a place iff the sequences say so.                         *)
LEMMA PlacesMember ==
    ASSUME NEW P, NEW L, NEW r
    PROVE  /\ \A y \in PlacesIn(P, L, r) : y = <<y[1], y[2]>>
           /\ \A k, i : <<k, i>> \in PlacesIn(P, L, r) <=>
                 \/ k = 0 /\ i \in DOMAIN P /\ P[i] = r
                 \/ k \in DOMAIN L /\ i \in DOMAIN L[k] /\ L[k][i] = r
  BY DEF PlacesIn

(* A launch moves the places of its batch into a new last row of launched    *)
(* and shifts the others: nobody gains or loses a place.                     *)
LEMMA PlacesCut ==
    ASSUME NEW b \in Seq(Req), NEW Q \in Seq(Req), NEW L \in Seq(Seq(Req)), NEW r
    PROVE  /\ PlacesIn(b \o Q, L, r) = {} => PlacesIn(Q, Append(L, b), r) = {}
           /\ (\E p \in PlacesIn(b \o Q, L, r) : PlacesIn(b \o Q, L, r) = {p})
                 => \E p \in PlacesIn(Q, Append(L, b), r) : PlacesIn(Q, Append(L, b), r) = {p}
<1> DEFINE P == b \o Q
           M == Append(L, b)
           n == Len(L)
           m == Len(b)
           Old == PlacesIn(P, L, r)
           New == PlacesIn(Q, M, r)
           Moved(k, i) == IF k = 0
                          THEN IF i <= m THEN <<n + 1, i>> ELSE <<0, i - m>>
                          ELSE <<k, i>>
<1>1. /\ n \in Nat /\ m \in Nat /\ Len(Q) \in Nat
      /\ DOMAIN b = 1..m /\ DOMAIN Q = 1..Len(Q) /\ DOMAIN L = 1..n
      /\ DOMAIN P = 1..(m + Len(Q)) /\ DOMAIN M = 1..(n + 1)
      /\ \A i \in 1..(m + Len(Q)) : P[i] = IF i <= m THEN b[i] ELSE Q[i - m]
      /\ \A i \in 1..n : M[i] = L[i]
      /\ M[n + 1] = b
  BY ConcatProperties, AppendProperties
<1>a. \A k \in 1..n : DOMAIN L[k] = 1..Len(L[k]) /\ Len(L[k]) \in Nat
  BY ElementOfSeq, LenProperties
<1> HIDE DEF P, M, n, m
<1>2. \A k, i : <<k, i>> \in Old <=> \/ k = 0 /\ i \in 1..(m + Len(Q)) /\ P[i] = r
                                     \/ k \in 1..n /\ i \in DOMAIN L[k] /\ L[k][i] = r
  <2>1. \A k, i : <<k, i>> \in Old <=> \/ k = 0 /\ i \in DOMAIN P /\ P[i] = r
                                       \/ k \in DOMAIN L /\ i \in DOMAIN L[k] /\ L[k][i] = r
    BY PlacesMember
  <2> HIDE DEF Old
  <2> QED
    BY <1>1, <2>1
<1>3. \A k, i : <<k, i>> \in New <=> \/ k = 0 /\ i \in 1..Len(Q) /\ Q[i] = r
                                     \/ k \in 1..(n + 1) /\ i \in DOMAIN M[k] /\ M[k][i] = r
  <2>1. \A k, i : <<k, i>> \in New <=> \/ k = 0 /\ i \in DOMAIN Q /\ Q[i] = r
                                       \/ k \in DOMAIN M /\ i \in DOMAIN M[k] /\ M[k][i] = r
    BY PlacesMember
  <2> HIDE DEF New
  <2> QED
    BY <1>1, <2>1
<1>4. \A k, i : <<k, i>> \in Old => Moved(k, i) \in New
  <2>1. SUFFICES ASSUME NEW k, NEW i, <<k, i>> \in Old PROVE Moved(k, i) \in New
    OBVIOUS
  <2>2. CASE k = 0 /\ i \in 1..m
    <3>1. b[i] = r
      BY <1>1, <1>2, <2>1, <2>2
    <3>2. n + 1 \in 1..(n + 1) /\ i \in DOMAIN M[n + 1] /\ M[n + 1][i] = r
      BY <1>1, <2>2, <3>1
    <3>3. <<n + 1, i>> \in New
      BY <1>3, <3>2
    <3> QED
      BY <2>2, <3>3, <1>1
  <2>3. CASE k = 0 /\ i \in (m + 1)..(m + Len(Q))
    <3>1. i - m \in 1..Len(Q) /\ Q[i - m] = r /\ ~(i <= m)
      BY <1>1, <1>2, <2>1, <2>3, SMTT(20)
    <3>2. <<0, i - m>> \in New
      BY <1>3, <3>1
    <3> QED
      BY <2>3, <3>1, <3>2
  <2>4. CASE k \in 1..n
    <3>1. k # 0 /\ k \in 1..(n + 1) /\ M[k] = L[k] /\ i \in DOMAIN L[k] /\ L[k][i] = r
      BY <1>1, <1>2, <2>1, <2>4
    <3>2. <<k, i>> \in New
      BY <1>3, <3>1
    <3> QED
      BY <3>1, <3>2
  <2> QED
    BY <1>1, <1>2, <2>1, <2>2, <2>3, <2>4
<1>5. \A k, i : <<k, i>> \in New => \E j, h : <<j, h>> \in Old /\ Moved(j, h) = <<k, i>>
  <2>1. SUFFICES ASSUME NEW k, NEW i, <<k, i>> \in New
                 PROVE  \E j, h : <<j, h>> \in Old /\ Moved(j, h) = <<k, i>>
    OBVIOUS
  <2>2. CASE k = 0 /\ i \in 1..Len(Q) /\ Q[i] = r
    <3>1. i + m \in 1..(m + Len(Q)) /\ P[i + m] = r /\ ~(i + m <= m) /\ (i + m) - m = i
      BY <1>1, <2>2
    <3>2. <<0, i + m>> \in Old
      BY <1>2, <3>1
    <3>3. Moved(0, i + m) = <<0, i>>
      BY <3>1
    <3> QED
      BY <2>2, <3>2, <3>3
  <2>3. CASE k = n + 1 /\ i \in DOMAIN M[k] /\ M[k][i] = r
    <3>1. i \in 1..m /\ b[i] = r
      BY <1>1, <2>3
    <3>2. i \in 1..(m + Len(Q)) /\ P[i] = r /\ i <= m
      BY <1>1, <3>1
    <3>3. <<0, i>> \in Old
      BY <1>2, <3>2
    <3>4. Moved(0, i) = <<k, i>>
      BY <2>3, <3>2
    <3> QED
      BY <3>3, <3>4
  <2>4. CASE k \in 1..n /\ i \in DOMAIN M[k] /\ M[k][i] = r
    <3>1. k # 0 /\ i \in DOMAIN L[k] /\ L[k][i] = r
      BY <1>1, <2>4
    <3>2. <<k, i>> \in Old
      BY <1>2, <2>4, <3>1
    <3> QED
      BY <3>1, <3>2
  <2>5. k \in 1..(n + 1) => k = n + 1 \/ k \in 1..n
    BY <1>1
  <2> QED
    BY <1>3, <2>1, <2>2, <2>3, <2>4, <2>5
<1>6. \A y \in New : y = <<y[1], y[2]>>
  BY PlacesMember
<1>7. \A y \in Old : y = <<y[1], y[2]>>
  BY PlacesMember
<1> HIDE DEF Old, New, Moved
<1>8. Old = {} => New = {}
  BY <1>5, <1>6
<1>9. ASSUME NEW p \in Old, Old = {p} PROVE \E z \in New : New = {z}
  <2>1. p = <<p[1], p[2]>>
    BY <1>7
  <2>2. Moved(p[1], p[2]) \in New
    BY <1>4, <2>1
  <2>3. \A y \in New : y = Moved(p[1], p[2])
    <3>1. SUFFICES ASSUME NEW y \in New PROVE y = Moved(p[1], p[2])
      OBVIOUS
    <3>2. PICK j, h : <<j, h>> \in Old /\ Moved(j, h) = <<y[1], y[2]>>
      BY <1>5, <1>6
    <3>3. <<j, h>> = <<p[1], p[2]>>
      BY <1>9, <2>1, <3>2
    <3> QED
      BY <1>6, <3>2, <3>3
  <2> QED
    BY <2>2, <2>3
<1> QED
  BY <1>8, <1>9 DEF Old, New, P, M

-----------------------------------------------------------------------------
(* The inductive invariant *)

(* Where the batcher is tells what its variables hold.                       *)
LEMMA PhaseStep ==
    ASSUME TypeOK, PhaseOK, BatcherStep \/ Expire
    PROVE  PhaseOK'
<1>a. /\ \A r \in Req : <<r>> # <<>> /\ Append(batch, r) # <<>>
      /\ queue # <<>> => Head(queue) \in Req
  <2>1. \A r \in Req : Append(batch, r) # <<>>
    BY AppendProperties DEF TypeOK
  <2>2. \A r \in Req : <<r>> # <<>>
    OBVIOUS
  <2>3. queue # <<>> => Head(queue) \in Req
    BY HeadTailProperties DEF TypeOK
  <2> QED
    BY <2>1, <2>2, <2>3
<1>1. CASE OpenCarried
  BY <1>1, <1>a DEF OpenCarried, Open, PhaseOK, TypeOK
<1>2. CASE OpenQueued
  BY <1>2, <1>a DEF OpenQueued, Open, PhaseOK
<1>3. CASE Take
  <2>1. bpc' \in {"fill", "count"} /\ batch' # <<>> /\ (bpc' = "fill" => carry' = None)
    BY <1>3, <1>a DEF Take, PhaseOK
  <2> QED
    BY <2>1 DEF PhaseOK
<1>4. CASE FillFull \/ FillWait \/ FillExpired \/ TimerFires \/ PollEmpty
  BY <1>4 DEF FillFull, FillWait, FillExpired, TimerFires, PollEmpty, Goto, PhaseOK
<1>5. CASE CountBatch \/ Launch \/ Expire
  BY <1>5 DEF CountBatch, Launch, Expire, PhaseOK
<1> QED
  BY <1>1, <1>2, <1>3, <1>4, <1>5 DEF BatcherStep

(* No other step concerns the variables of the batcher.                      *)
LEMMA BatcherVarsSame ==
    ASSUME (\E r \in Req : Handler(r) \/ Dispatched(r)) \/ UNCHANGED vars
    PROVE  UNCHANGED batcherVars
  BY DEF Handler, Refuse, Accept, Enqueue, QueueFull, Receive, Dispatched, Deliver, vars

(* No step of the batcher concerns the handlers.                             *)
LEMMA HandlerVarsSame ==
    ASSUME BatcherStep \/ Expire
    PROVE  UNCHANGED <<handlerVars, respCh>>
  BY DEF BatcherStep, OpenCarried, OpenQueued, FillFull, FillWait, FillExpired, Take,
         TimerFires, PollEmpty, CountBatch, Launch, Expire, Goto

LEMMA HandlerStep ==
    ASSUME TypeOK, HandlerOK, NEW r \in Req,
           Handler(r) \/ \E reply : Deliver(r, reply) /\ reply.code # 503
    PROVE  HandlerOK'
<1>1. CASE Refuse(r)
  BY <1>1 DEF Refuse, Respond, HandlerOK, Refusable, TypeOK
<1>2. CASE Accept(r)
  BY <1>2 DEF Accept, HandlerOK, Refusable, TypeOK
<1>3. CASE Enqueue(r)
  BY <1>3 DEF Enqueue, HandlerOK, Refusable, TypeOK
<1>4. CASE QueueFull(r)
  BY <1>4 DEF QueueFull, Respond, HandlerOK, Refusable, TypeOK
<1>5. CASE Receive(r)
  BY <1>5 DEF Receive, Respond, HandlerOK, Refusable, TypeOK
<1>6. ASSUME NEW reply, Deliver(r, reply), reply.code # 503 PROVE HandlerOK'
  BY <1>6 DEF Deliver, HandlerOK, Refusable, TypeOK, handlerVars
<1> QED
  BY <1>1, <1>2, <1>3, <1>4, <1>5, <1>6 DEF Handler

(* The place of a request follows its handler.                               *)
LEMMA PlaceHandler ==
    ASSUME TypeOK, HandlerOK, PlaceOK, NEW r \in Req, Handler(r) \/ \E reply : Deliver(r, reply)
    PROVE  PlaceOK'
<1>1. ASSUME Pipeline' = Pipeline, launched' = launched,
             \A s \in Req : Held(s)' <=> Held(s)
      PROVE  PlaceOK'
  BY <1>1 DEF PlaceOK, Places
<1>2. CASE Refuse(r)
  <2>1. \A s \in Req : Held(s)' <=> Held(s)
    BY <1>2 DEF Refuse, Respond, Held, Refusable, TypeOK
  <2> QED
    BY <1>1, <1>2, <2>1, PipelineSame
<1>3. CASE Accept(r)
  <2>1. \A s \in Req : Held(s)' <=> Held(s)
    BY <1>3 DEF Accept, Held, Refusable, TypeOK
  <2> QED
    BY <1>1, <1>3, <2>1, PipelineSame
<1>4. CASE Enqueue(r)
  <2>1. /\ ~Held(r) /\ Held(r)'
        /\ \A s \in Req : s # r => (Held(s)' <=> Held(s))
    BY <1>4 DEF Enqueue, Held, Refusable, TypeOK
  <2>2. \A s \in Req : Places(s)' = Places(s) \cup
                          (IF s = r THEN {<<0, Len(Pipeline) + 1>>} ELSE {})
    <3>1. Pipeline' = Append(Pipeline, r) /\ launched' = launched /\ Pipeline \in Seq(Req)
      BY <1>4, PipelineJoin, PipelineType
    <3>2. \A s : Places(s)' = PlacesIn(Append(Pipeline, r), launched, s)
      BY <3>1 DEF Places
    <3> QED
      BY <3>1, <3>2, PlacesJoin DEF Places
  <2> QED
    BY <2>1, <2>2, ZenonT(20) DEF PlaceOK
<1>5. CASE QueueFull(r)
  <2>1. \A s \in Req : Held(s)' <=> Held(s)
    BY <1>5 DEF QueueFull, Respond, Failed, Held, Refusable, TypeOK
  <2> QED
    BY <1>1, <1>5, <2>1, PipelineSame
<1>6. CASE Receive(r)
  <2>1. \A s \in Req : Held(s)' <=> Held(s)
    BY <1>6 DEF Receive, Respond, Held, HandlerOK, Refusable, TypeOK
  <2> QED
    BY <1>1, <1>6, <2>1, PipelineSame
<1>7. CASE \E reply : Deliver(r, reply)
  <2>1. \A s \in Req : Held(s)' <=> Held(s)
    BY <1>7 DEF Deliver, handlerVars, Held, Refusable
  <2> QED
    BY <1>1, <1>7, <2>1, PipelineSame
<1> QED
  BY <1>2, <1>3, <1>4, <1>5, <1>6, <1>7 DEF Handler

LEMMA PlaceBatcher ==
    ASSUME TypeOK, PhaseOK, PlaceOK, BatcherStep \/ Expire
    PROVE  PlaceOK'
<1>1. \A r \in Req : Held(r)' <=> Held(r)
  BY HandlerVarsSame DEF handlerVars, Held, Refusable
<1>2. CASE Launch
  <2>1. /\ Pipeline = batch \o Pipeline' /\ Pipeline' \in Seq(Req)
        /\ launched' = Append(launched, batch)
        /\ batch \in Seq(Req) /\ launched \in Seq(Seq(Req))
    BY <1>2, PipelineCut DEF TypeOK
  <2>2. \A r \in Req :
           /\ Places(r) = {} => Places(r)' = {}
           /\ (\E p \in Places(r) : Places(r) = {p})
                 => (\E p \in Places(r)' : Places(r)' = {p})
    <3>1. SUFFICES ASSUME NEW r \in Req
                   PROVE  /\ Places(r) = {} => Places(r)' = {}
                          /\ (\E p \in Places(r) : Places(r) = {p})
                                => (\E p \in Places(r)' : Places(r)' = {p})
      OBVIOUS
    <3> DEFINE Q == Pipeline'
    <3>2. Q \in Seq(Req)
      BY <2>1
    <3>3. /\ Places(r) = PlacesIn(batch \o Q, launched, r)
          /\ Places(r)' = PlacesIn(Q, Append(launched, batch), r)
      BY <2>1 DEF Places
    <3> HIDE DEF Q
    <3>4. /\ PlacesIn(batch \o Q, launched, r) = {}
                => PlacesIn(Q, Append(launched, batch), r) = {}
          /\ (\E p \in PlacesIn(batch \o Q, launched, r) :
                    PlacesIn(batch \o Q, launched, r) = {p})
                => \E p \in PlacesIn(Q, Append(launched, batch), r) :
                    PlacesIn(Q, Append(launched, batch), r) = {p}
      BY <2>1, <3>2, PlacesCut
    <3> QED
      BY <3>3, <3>4
  <2> QED
    BY <1>1, <2>2 DEF PlaceOK
<1>3. CASE ~Launch
  <2>1. Pipeline' = Pipeline /\ launched' = launched
    BY <1>3, PipelineFill
  <2> QED
    BY <1>1, <2>1 DEF PlaceOK, Places
<1> QED
  BY <1>2, <1>3

LEMMA InvInit == Init => BatcherInv
<1> SUFFICES ASSUME Init PROVE BatcherInv
  OBVIOUS
<1>1. PhaseOK /\ HandlerOK
  BY DEF Init, PhaseOK, HandlerOK
<1>2. Pipeline = <<>> /\ launched = <<>>
  BY ConcatEmptySeq, EmptySeq DEF Init, Pipeline, CarrySeq
<1>3. \A r \in Req : Places(r) = {} /\ ~Held(r)
  BY <1>2 DEF Init, Places, PlacesIn, Held
<1> QED
  BY <1>1, <1>3, TypeInit DEF BatcherInv, PlaceOK

(* The invariant survives every reply that dispatch may send.                *)
LEMMA DeliverKeeps ==
    ASSUME BatcherInv, NEW r \in Req, NEW reply \in Reply, reply.code # 503, Deliver(r, reply)
    PROVE  BatcherInv'
<1>1. TypeOK'
  BY TypeDeliver DEF BatcherInv
<1>2. HandlerOK'
  BY HandlerStep DEF BatcherInv
<1>3. PlaceOK'
  BY PlaceHandler DEF BatcherInv
<1>4. PhaseOK'
  BY DEF Deliver, BatcherInv, PhaseOK, batcherVars
<1> QED
  BY <1>1, <1>2, <1>3, <1>4 DEF BatcherInv

LEMMA InvStep == BatcherInv /\ [Next]_vars => BatcherInv'
<1> SUFFICES ASSUME BatcherInv, [Next]_vars PROVE BatcherInv'
  OBVIOUS
<1>1. TypeOK'
  BY TypeStep DEF BatcherInv
<1>2. CASE BatcherStep \/ Expire
  <2>1. HandlerOK'
    BY <1>2, HandlerVarsSame DEF BatcherInv, HandlerOK, handlerVars, Refusable
  <2> QED
    BY <1>1, <1>2, <2>1, PhaseStep, PlaceBatcher DEF BatcherInv
<1>3. CASE \E r \in Req : Handler(r)
  <2>1. PhaseOK'
    BY <1>3, BatcherVarsSame DEF BatcherInv, PhaseOK, batcherVars
  <2> QED
    BY <1>1, <1>3, <2>1, HandlerStep, PlaceHandler DEF BatcherInv
<1>5. CASE \E r \in Req : Dispatched(r)
  <2>1. PICK r \in Req, reply \in {Answered(NoAnswers), Failed(400), Failed(502)} :
           Deliver(r, reply)
    BY <1>5 DEF Dispatched
  <2>2. reply \in Reply /\ reply.code # 503
    BY FailedIsReply, NoAnswersIsReply DEF Answered, Failed
  <2> QED
    BY <2>1, <2>2, DeliverKeeps
<1>4. CASE UNCHANGED vars
  BY <1>1, <1>4 DEF BatcherInv, vars, handlerVars, batcherVars, PhaseOK, HandlerOK, Refusable,
                    PlaceOK, Held, Places, Pipeline, CarrySeq
<1> QED
  BY <1>2, <1>3, <1>4, <1>5 DEF Next, Rest

(* Program points, handlers and places of requests fit together at all times,*)
(* whatever order handlers, batcher and clock move in.                       *)
THEOREM InvariantHolds == Spec => []BatcherInv
<1> QED
  BY InvInit, InvStep, PTL DEF Spec

(* No request is lost, queued twice or launched twice: while its handler     *)
(* waits it is in exactly one place of the queue, the carry, the batch and   *)
(* the launched batches.                                                     *)
THEOREM OnePlace == Spec => []InOnePlace
<1>1. BatcherInv => InOnePlace
  BY FS_EmptySet, FS_Singleton DEF BatcherInv, PlaceOK, InOnePlace
<1> QED
  BY <1>1, InvariantHolds, PTL

-----------------------------------------------------------------------------
(* The cap on the questions of a batch *)

CapOK == BatchWithinCap /\ IsFiniteSet(Slots(batch))

(* Who is in the pipeline or in a launched batch was accepted.               *)
LEMMA PlacedIsHeld ==
    ASSUME BatcherInv, NEW r \in Req,
           r \in Elems(Pipeline) \/ \E i \in DOMAIN launched : r \in Elems(launched[i])
    PROVE  Held(r) /\ Len(keys[r]) \in 1..BatchMax
<1>1. Places(r) # {}
  <2>1. CASE r \in Elems(Pipeline)
    <3>1. PICK i \in DOMAIN Pipeline : Pipeline[i] = r
      BY <2>1 DEF Elems
    <3>2. <<0, i>> \in Places(r)
      BY <3>1, PlacesMember DEF Places
    <3> QED
      BY <3>2
  <2>2. CASE \E i \in DOMAIN launched : r \in Elems(launched[i])
    <3>1. PICK i \in DOMAIN launched : r \in Elems(launched[i])
      BY <2>2
    <3>2. PICK j \in DOMAIN launched[i] : launched[i][j] = r
      BY <3>1 DEF Elems
    <3>3. <<i, j>> \in Places(r)
      BY <3>2, PlacesMember DEF Places
    <3> QED
      BY <3>3
  <2> QED
    BY <2>1, <2>2
<1>2. Held(r)
  BY <1>1 DEF BatcherInv, PlaceOK
<1>3. ~Refusable(keys[r])
  BY <1>2 DEF Held, BatcherInv, HandlerOK
<1>4. keys[r] \in Seq(Question) /\ keys[r] # <<>> /\ ~(Len(keys[r]) > BatchMax)
  BY <1>3 DEF Refusable, BatcherInv, TypeOK
<1>5. Len(keys[r]) \in Nat \ {0}
  BY <1>4, EmptySeq
<1> QED
  BY <1>2, <1>4, <1>5, CapAssumption

LEMMA PipelineElems ==
    ASSUME TypeOK
    PROVE  /\ Elems(Pipeline) = Elems(batch) \cup Elems(CarrySeq) \cup Elems(queue)
           /\ carry # None => carry \in Elems(Pipeline)
<1>1. /\ batch \in Seq(Req) /\ CarrySeq \in Seq(Req) /\ queue \in Seq(Req)
      /\ batch \o CarrySeq \in Seq(Req)
  BY PipelineType DEF TypeOK
<1>2. Elems(Pipeline) = Elems(batch \o CarrySeq) \cup Elems(queue)
  <2> DEFINE front == batch \o CarrySeq
  <2>1. front \in Seq(Req) /\ queue \in Seq(Req)
    BY <1>1
  <2> HIDE DEF front
  <2>2. Elems(front \o queue) = Elems(front) \cup Elems(queue)
    BY <2>1, ElemsConcat
  <2> QED
    BY <2>2 DEF Pipeline, front
<1>3. Elems(batch \o CarrySeq) = Elems(batch) \cup Elems(CarrySeq)
  BY <1>1, ElemsConcat
<1>4. carry # None => Elems(CarrySeq) = {carry}
  BY ElemsSingle DEF CarrySeq
<1> QED
  BY <1>2, <1>3, <1>4

(* The questions of an accepted request never change.                        *)
LEMMA KeysFixed ==
    ASSUME TypeOK, [Next]_vars, NEW r \in Req, Held(r)
    PROVE  keys'[r] = keys[r]
<1>1. hpc[r] # "idle"
  BY DEF Held
<1>2. CASE BatcherStep \/ Expire
  BY <1>2, HandlerVarsSame DEF handlerVars
<1>3. CASE \E s \in Req : Handler(s)
  BY <1>1, <1>3 DEF Handler, Refuse, Accept, Enqueue, QueueFull, Receive, TypeOK
<1>4. CASE (\E s \in Req : Dispatched(s)) \/ UNCHANGED vars
  BY <1>4 DEF Dispatched, Deliver, vars, handlerVars
<1> QED
  BY <1>2, <1>3, <1>4 DEF Next, Rest

LEMMA SlotsFixed ==
    ASSUME BatcherInv, [Next]_vars, NEW s \in Seq(Req),
           Elems(s) \subseteq Elems(Pipeline) \/ \E i \in DOMAIN launched : s = launched[i]
    PROVE  SlotsOf(keys', s) = SlotsOf(keys, s)
<1>1. \A r \in Elems(s) : r \in Req /\ Held(r)
  BY ElemsType, PlacedIsHeld
<1>2. \A r \in Elems(s) : keys'[r] = keys[r]
  BY <1>1, KeysFixed DEF BatcherInv
<1> QED
  BY <1>2, SlotsSame

(* The request at the head of the queue is not in the batch already.         *)
LEMMA HeadIsFresh ==
    ASSUME BatcherInv, carry = None, queue # <<>>
    PROVE  Head(queue) \notin Elems(batch)
<1> DEFINE h == Head(queue)
           m == Len(batch)
<1>1. /\ batch \in Seq(Req) /\ queue \in Seq(Req) /\ h \in Req /\ h = queue[1]
      /\ m \in Nat /\ Len(queue) \in Nat \ {0}
      /\ DOMAIN batch = 1..m
  BY ElemsHeadTail, EmptySeq DEF BatcherInv, TypeOK
<1>2. Pipeline = batch \o queue
  BY <1>1, ConcatEmptySeq DEF Pipeline, CarrySeq
<1>3. /\ DOMAIN Pipeline = 1..(m + Len(queue))
      /\ \A i \in 1..(m + Len(queue)) :
            Pipeline[i] = IF i <= m THEN batch[i] ELSE queue[i - m]
  BY <1>1, <1>2, ConcatProperties
<1>4. m + 1 \in DOMAIN Pipeline /\ Pipeline[m + 1] = h
  BY <1>1, <1>3
<1>5. SUFFICES ASSUME NEW i \in 1..m, batch[i] = h PROVE FALSE
  BY <1>1 DEF Elems
<1>6. i \in DOMAIN Pipeline /\ Pipeline[i] = h /\ i # m + 1
  BY <1>1, <1>3, <1>5
<1>7. <<0, i>> \in Places(h) /\ <<0, m + 1>> \in Places(h)
  BY <1>4, <1>6, PlacesMember DEF Places
<1> HIDE DEF h, m
<1>8. PICK p : Places(h) = {p}
  BY <1>1, <1>7 DEF BatcherInv, PlaceOK
<1> QED
  BY <1>6, <1>7, <1>8

LEMMA CapInit == Init => CapOK
<1> SUFFICES ASSUME Init PROVE CapOK
  OBVIOUS
<1>1. batch = <<>> /\ totalQ = 0 /\ DOMAIN launched = {} /\ BatchMax \in Nat
  BY CapAssumption DEF Init
<1>2. IsFiniteSet(Slots(batch)) /\ Cardinality(Slots(batch)) = 0
  BY <1>1, SlotsEmpty DEF Slots
<1> QED
  BY <1>1, <1>2 DEF CapOK, BatchWithinCap, WithinCap

(* A step of the batcher other than Launch.                                  *)
LEMMA CapFill ==
    ASSUME BatcherInv, CapOK, BatcherStep \/ Expire, ~Launch
    PROVE  /\ totalQ' = Cardinality(SlotsOf(keys, batch'))
           /\ totalQ' <= BatchMax
           /\ IsFiniteSet(SlotsOf(keys, batch'))
<1>a. /\ batch \in Seq(Req) /\ queue \in Seq(Req)
      /\ \A r \in Req : keys[r] \in Seq(Question)
      /\ totalQ = Cardinality(SlotsOf(keys, batch)) /\ totalQ <= BatchMax
      /\ IsFiniteSet(SlotsOf(keys, batch))
  BY DEF BatcherInv, TypeOK, CapOK, BatchWithinCap, WithinCap, Slots
<1>b. \A r \in Req : r \in Elems(Pipeline) => Len(keys[r]) <= BatchMax
  BY PlacedIsHeld, CapAssumption
<1>c. queue # <<>> => Head(queue) \in Req /\ Head(queue) \in Elems(Pipeline)
  BY <1>a, ElemsHeadTail, PipelineElems DEF BatcherInv
<1>1. CASE OpenCarried
  <2>1. carry \in Req /\ carry \in Elems(Pipeline)
    BY <1>1, PipelineElems DEF OpenCarried, BatcherInv, TypeOK
  <2>2. batch' = <<carry>> /\ totalQ' = Len(keys[carry])
    BY <1>1 DEF OpenCarried, Open
  <2> QED
    BY <1>a, <1>b, <2>1, <2>2, SlotsSingle
<1>2. CASE OpenQueued
  <2>1. queue # <<>> /\ batch' = <<Head(queue)>> /\ totalQ' = Len(keys[Head(queue)])
    BY <1>2 DEF OpenQueued, Open
  <2> QED
    BY <1>a, <1>b, <1>c, <2>1, SlotsSingle
<1>3. CASE Take
  <2>1. queue # <<>> /\ carry = None
    BY <1>3 DEF Take, BatcherInv, PhaseOK
  <2>2. CASE Fits(Head(queue))
    <3>1. /\ batch' = Append(batch, Head(queue))
          /\ totalQ' = totalQ + Len(keys[Head(queue)])
      BY <1>3, <2>2 DEF Take
    <3>2. Head(queue) \notin Elems(batch)
      BY <2>1, HeadIsFresh
    <3>3. /\ IsFiniteSet(SlotsOf(keys, Append(batch, Head(queue))))
          /\ Cardinality(SlotsOf(keys, Append(batch, Head(queue)))) =
                Cardinality(SlotsOf(keys, batch)) + Len(keys[Head(queue)])
      BY <1>a, <1>c, <2>1, <3>2, SlotsAppend
    <3> QED
      BY <1>a, <2>2, <3>1, <3>3 DEF Fits
  <2>3. CASE ~Fits(Head(queue))
    BY <1>3, <1>a, <2>3 DEF Take
  <2> QED
    BY <2>2, <2>3
<1>4. CASE FillFull \/ FillWait \/ FillExpired \/ TimerFires \/ PollEmpty \/ CountBatch \/ Expire
  <2>1. batch' = batch /\ totalQ' = totalQ
    BY <1>4 DEF FillFull, FillWait, FillExpired, TimerFires, PollEmpty, CountBatch, Expire, Goto
  <2> QED
    BY <1>a, <2>1
<1> QED
  BY <1>1, <1>2, <1>3, <1>4 DEF BatcherStep

LEMMA CapStep == BatcherInv /\ CapOK /\ [Next]_vars => CapOK'
<1> SUFFICES ASSUME BatcherInv, CapOK, [Next]_vars PROVE CapOK'
  OBVIOUS
<1>a. /\ batch \in Seq(Req) /\ launched \in Seq(Seq(Req))
      /\ \A i \in DOMAIN launched : launched[i] \in Seq(Req)
      /\ Elems(batch) \subseteq Elems(Pipeline)
  BY PipelineElems, ElementOfSeq DEF BatcherInv, TypeOK
<1>b. /\ SlotsOf(keys', batch) = SlotsOf(keys, batch)
      /\ \A i \in DOMAIN launched : SlotsOf(keys', launched[i]) = SlotsOf(keys, launched[i])
  BY <1>a, SlotsFixed
<1>c. /\ totalQ = Cardinality(SlotsOf(keys, batch)) /\ IsFiniteSet(SlotsOf(keys, batch))
      /\ Cardinality(SlotsOf(keys, batch)) <= BatchMax
      /\ \A i \in DOMAIN launched : Cardinality(SlotsOf(keys, launched[i])) <= BatchMax
  BY DEF CapOK, BatchWithinCap, WithinCap, Slots
<1>1. CASE (\E r \in Req : Handler(r) \/ Dispatched(r)) \/ UNCHANGED vars
  <2>1. batch' = batch /\ totalQ' = totalQ /\ launched' = launched
    BY <1>1, BatcherVarsSame DEF batcherVars
  <2> QED
    BY <1>b, <1>c, <2>1 DEF CapOK, BatchWithinCap, WithinCap, Slots
<1>2. CASE (BatcherStep \/ Expire) /\ ~Launch
  <2>1. keys' = keys /\ launched' = launched
    BY <1>2, HandlerVarsSame, PipelineFill DEF handlerVars, BatcherInv
  <2>2. /\ totalQ' = Cardinality(SlotsOf(keys, batch')) /\ totalQ' <= BatchMax
        /\ IsFiniteSet(SlotsOf(keys, batch'))
    BY <1>2, CapFill
  <2> QED
    BY <1>c, <2>1, <2>2 DEF CapOK, BatchWithinCap, WithinCap, Slots
<1>3. CASE Launch
  <2>1. /\ keys' = keys /\ batch' = <<>> /\ totalQ' = 0
        /\ launched' = Append(launched, batch)
    BY <1>3 DEF Launch, handlerVars
  <2>2. \A i \in DOMAIN launched' : launched'[i] = batch \/
            (i \in DOMAIN launched /\ launched'[i] = launched[i])
    BY <1>a, <2>1, AppendProperties
  <2>3. Cardinality(SlotsOf(keys, <<>>)) = 0 /\ IsFiniteSet(SlotsOf(keys, <<>>))
    BY SlotsEmpty
  <2> QED
    BY <1>c, <2>1, <2>2, <2>3, CapAssumption DEF CapOK, BatchWithinCap, WithinCap, Slots
<1> QED
  BY <1>1, <1>2, <1>3 DEF Next, Rest, BatcherStep

(* No batch, being filled or launched, holds more than BatchMax questions,   *)
(* and totalQ is exactly what the batch being filled holds.                  *)
THEOREM CapRespected == Spec => []BatchWithinCap
<1>1. Init => BatcherInv /\ CapOK
  BY InvInit, CapInit
<1>2. BatcherInv /\ CapOK /\ [Next]_vars => (BatcherInv /\ CapOK)'
  BY InvStep, CapStep
<1>3. CapOK => BatchWithinCap
  BY DEF CapOK
<1> QED
  BY <1>1, <1>2, <1>3, PTL DEF Spec

-----------------------------------------------------------------------------
(* The batcher implements the line of BatchQueue *)

LEMMA LineInit == Init => Line!Init
<1> SUFFICES ASSUME Init PROVE Line!Init
  OBVIOUS
<1>1. Pipeline = <<>>
  BY ConcatEmptySeq, EmptySeq DEF Init, Pipeline, CarrySeq
<1> QED
  BY <1>1 DEF Init, Line!Init

LEMMA IdleIsUnknown ==
    ASSUME BatcherInv, NEW r \in Req, ~Held(r)
    PROVE  ~Line!Known(r)
  BY PlacedIsHeld DEF Line!Known, Line!Elems, Elems

LEMMA LineStep == BatcherInv /\ CapOK /\ [Next]_vars => [Line!Next]_(Line!lineVars)
<1> SUFFICES ASSUME BatcherInv, CapOK, [Next]_vars PROVE [Line!Next]_(Line!lineVars)
  OBVIOUS
<1>1. ASSUME NEW r \in Req, Refuse(r) \/ Accept(r) PROVE Line!Submit(r)
  <2>1. ~Held(r)
    BY <1>1 DEF Refuse, Accept, Held
  <2>2. \E ks \in Bodies : keys' = [keys EXCEPT ![r] = ks]
    BY <1>1 DEF Refuse, Accept
  <2> QED
    BY <1>1, <2>1, <2>2, IdleIsUnknown, PipelineSame DEF Line!Submit
<1>2. ASSUME NEW r \in Req, Enqueue(r) PROVE Line!Join(r)
  <2>1. ~Held(r) /\ ~Refusable(keys[r]) /\ keys' = keys
    BY <1>2 DEF Enqueue, Held, BatcherInv, HandlerOK
  <2>2. Len(keys[r]) \in 1..BatchMax
    <3>1. keys[r] \in Seq(Question) /\ keys[r] # <<>> /\ ~(Len(keys[r]) > BatchMax)
      BY <2>1 DEF Refusable, BatcherInv, TypeOK
    <3>2. Len(keys[r]) \in Nat \ {0}
      BY <3>1, EmptySeq
    <3> QED
      BY <3>1, <3>2, CapAssumption
  <2>3. Pipeline' = Append(Pipeline, r) /\ launched' = launched
    BY <1>2, PipelineJoin DEF BatcherInv
  <2> QED
    BY <2>1, <2>2, <2>3, IdleIsUnknown DEF Line!Join
<1>3. ASSUME NEW r \in Req, QueueFull(r) \/ Receive(r) \/ Dispatched(r)
      PROVE  UNCHANGED Line!lineVars
  <2>1. keys' = keys
    BY <1>3 DEF QueueFull, Receive, Dispatched, Deliver, handlerVars
  <2> QED
    BY <1>3, <2>1, PipelineSame DEF Dispatched, Line!lineVars
<1>4. CASE (BatcherStep \/ Expire) /\ ~Launch
  BY <1>4, PipelineFill, HandlerVarsSame DEF BatcherInv, handlerVars, Line!lineVars
<1>5. CASE Launch
  <2>1. /\ Pipeline = batch \o Pipeline' /\ launched' = Append(launched, batch)
        /\ Pipeline' \in Seq(Req) /\ batch \in Seq(Req) /\ keys' = keys
    BY <1>5, PipelineCut DEF Launch, handlerVars, BatcherInv, TypeOK
  <2>2. batch # <<>>
    BY <1>5 DEF Launch, BatcherInv, PhaseOK
  <2> DEFINE q == Pipeline'
             n == Len(batch)
  <2>3. q \in Seq(Req) /\ Pipeline = batch \o q
    BY <2>1
  <2> HIDE DEF q
  <2>4. SubSeq(Pipeline, 1, n) = batch /\ SubSeq(Pipeline, n + 1, Len(Pipeline)) = q
    BY <2>1, <2>3, CutConcat
  <2>5. n \in 1..Len(Pipeline)
    BY <2>1, <2>2, <2>3, EmptySeq, ConcatProperties, LenProperties
  <2>6. Cardinality(SlotsOf(keys, batch)) <= BatchMax
    BY DEF CapOK, BatchWithinCap, WithinCap, Slots
  <2>7. Line!Cut(n)
    <3>1. Line!Slots(batch) = SlotsOf(keys, batch)
      BY DEF Line!Slots, Line!SlotsOf, Line!Elems, SlotsOf, Elems
    <3>a. Line!Cardinality(Line!Slots(batch)) = Cardinality(Line!Slots(batch))
      BY DEF Line!Cardinality, Cardinality
    <3>2. Line!Cardinality(Line!Slots(SubSeq(Pipeline, 1, n))) <= BatchMax
      BY <2>4, <2>6, <3>1, <3>a
    <3>3. launched' = Append(launched, SubSeq(Pipeline, 1, n))
      BY <2>1, <2>4
    <3>4. Pipeline' = SubSeq(Pipeline, n + 1, Len(Pipeline))
      BY <2>4 DEF q
    <3> QED
      BY <2>1, <3>2, <3>3, <3>4 DEF Line!Cut
  <2> QED
    BY <2>5, <2>7 DEF Line!Next
<1>6. CASE UNCHANGED vars
  BY <1>6 DEF vars, handlerVars, batcherVars, Line!lineVars, Pipeline, CarrySeq
<1> QED
  BY <1>1, <1>2, <1>3, <1>4, <1>5, <1>6 DEF Next, Rest, Handler, BatcherStep, Line!Next

(* The batcher serves requests first come, first served: it is a line from   *)
(* whose front batches within the cap are cut.                               *)
THEOREM FirstComeFirstServed == Spec => ImplementsLine
<1>1. Init => BatcherInv /\ CapOK
  BY InvInit, CapInit
<1>2. BatcherInv /\ CapOK /\ [Next]_vars => (BatcherInv /\ CapOK)'
  BY InvStep, CapStep
<1> QED
  BY <1>1, <1>2, LineInit, LineStep, PTL DEF Spec, ImplementsLine, Line!Spec

-----------------------------------------------------------------------------
(* A batch is not closed early *)

(* The batcher polls only once the window is over.                           *)
PollOK == bpc = "poll" => expired

LEMMA PollStep == PollOK /\ [Next]_vars => PollOK'
<1> SUFFICES ASSUME PollOK, [Next]_vars PROVE PollOK'
  OBVIOUS
<1>1. CASE OpenCarried \/ OpenQueued \/ Take \/ CountBatch \/ Launch
  BY <1>1 DEF PollOK, OpenCarried, OpenQueued, Take, CountBatch, Launch, Open
<1>2. CASE FillFull \/ FillWait \/ FillExpired \/ TimerFires \/ PollEmpty
  BY <1>2 DEF PollOK, FillFull, FillWait, FillExpired, TimerFires, PollEmpty, Goto
<1>3. CASE Expire
  BY <1>3 DEF PollOK, Expire
<1>4. CASE UNCHANGED <<bpc, expired>>
  BY <1>4 DEF PollOK
<1>5. (\E r \in Req : Handler(r) \/ Dispatched(r)) \/ UNCHANGED vars => UNCHANGED <<bpc, expired>>
  BY DEF Handler, Refuse, Accept, Enqueue, QueueFull, Receive, Dispatched, Deliver,
         batcherVars, vars
<1> QED
  BY <1>1, <1>2, <1>3, <1>4, <1>5 DEF Next, BatcherStep, Rest

(* main.go:98-115: a batch is closed when it is full, when its window is over*)
(* or when the next request in line does not fit, and never earlier.         *)
THEOREM NeverClosedEarly == Spec => ClosedForAReason
<1>1. ASSUME BatcherInv, PollOK, [Next]_vars, bpc # "count", bpc' = "count"
      PROVE  \/ totalQ >= BatchMax
             \/ expired
             \/ carry' # None /\ totalQ + Len(keys[carry']) > BatchMax
  <2>1. CASE Take
    <3>1. /\ queue # <<>> /\ carry' = Head(queue)
          /\ ~(totalQ + Len(keys[Head(queue)]) <= BatchMax)
      BY <1>1, <2>1 DEF Take, Fits
    <3>2. Head(queue) \in Req
      BY <1>1, <3>1, ElemsHeadTail DEF BatcherInv, TypeOK
    <3>3. totalQ \in Nat /\ Len(keys[Head(queue)]) \in Nat /\ BatchMax \in Nat
      BY <1>1, <3>2, CapAssumption, LenProperties DEF BatcherInv, TypeOK
    <3> QED
      BY <3>1, <3>2, <3>3, NoneAssumption
  <2>2. CASE FillFull
    BY <2>2 DEF FillFull
  <2>3. CASE TimerFires \/ PollEmpty
    BY <1>1, <2>3 DEF TimerFires, PollEmpty, PollOK
  <2>4. CASE FillWait \/ FillExpired
    BY <1>1, <2>4 DEF FillWait, FillExpired, Goto
  <2>5. CASE OpenCarried \/ OpenQueued \/ CountBatch \/ Launch \/ Expire
    BY <1>1, <2>5 DEF OpenCarried, OpenQueued, CountBatch, Launch, Expire, Open
  <2>6. (\E r \in Req : Handler(r) \/ Dispatched(r)) \/ UNCHANGED vars => bpc' = bpc
    BY DEF Handler, Refuse, Accept, Enqueue, QueueFull, Receive, Dispatched, Deliver,
           batcherVars, vars
  <2> QED
    BY <1>1, <2>1, <2>2, <2>3, <2>4, <2>5, <2>6 DEF Next, BatcherStep, Rest
<1>2. Init => PollOK
  BY DEF Init, PollOK
<1> QED
  BY <1>1, <1>2, PollStep, InvariantHolds, PTL DEF Spec, ClosedForAReason
=============================================================================
