---------------------------- MODULE GoserveProofs -----------------------------
(* What the whole gateway process guarantees, for every number of requests,  *)
(* of workers, engines and GPU groups: the invariants of its two halves,     *)
(* proved in BatcherProofs and DispatchProofs, hold together.                *)
EXTENDS GoserveStats, ListLemmas

(* An error that the gateway sends is a reply.                               *)
LEMMA FailedIsReply ==
    ASSUME NEW c \in {400, 502, 503}
    PROVE  Failed(c) \in Reply
<1>1. NoAnswers \in [{} -> Item]
  BY DEF NoAnswers
<1>2. [{} -> Item] \in {[S -> Item] : S \in SUBSET Question}
  OBVIOUS
<1>3. NoAnswers \in UNION {[S -> Item] : S \in SUBSET Question}
  BY <1>1, <1>2
<1> QED
  BY <1>3 DEF Failed, Reply

-----------------------------------------------------------------------------
(* The two halves. Dispatch sends a reply once and forgets it; the handler   *)
(* takes it from respCh and writes it to its client. What dispatch has told  *)
(* a request is therefore in the one place or in the other.                  *)
Told == [r \in Req |->
            IF r \notin D!Spawned THEN None
            ELSE IF respCh[r] # None THEN respCh[r] ELSE resp[r]]

BP == INSTANCE BatcherProofs
DP == INSTANCE DispatchProofs WITH respCh <- Told

FrontOK == BP!BatcherInv
BackOK == DP!DispatchInv

(* What ties them: the requests in a batch are those of the launched batches,*)
(* and a request that no batch took is turned away by its handler alone.     *)
LinkOK ==
    /\ D!Spawned = {r \in Req : B!Sent(r)}
    /\ \A r \in Req : hpc[r] = "done" <=> resp[r] # None
    /\ \A r \in Req \ D!Spawned :
          /\ respCh[r] = None
          /\ hpc[r] = "done" =>
                resp[r] = IF B!Refusable(keys[r]) THEN Failed(400) ELSE Failed(503)

(* The counters: statReq counts who was not refused, statBatchSum who was    *)
(* launched, and statBatch is one ahead of its sum at most.                  *)
Accepted == {r \in Req : hpc[r] # "idle" /\ ~B!Refusable(keys[r])}
CountersOK ==
    /\ IsFiniteSet(Accepted) /\ statReq = Cardinality(Accepted)
    /\ IsFiniteSet(D!Spawned) /\ statBatchSum = Cardinality(D!Spawned)
    /\ statBatch <= statBatchSum + (IF bpc = "launch" THEN 1 ELSE 0)

GoserveInv == FrontOK /\ BackOK /\ LinkOK /\ CountersOK

-----------------------------------------------------------------------------
(* What is known of the halves *)

LEMMA FrontInit == BP!Init => FrontOK
  BY BP!InvInit, CapAssumption, BodyAssumption, KindAssumption, NoneAssumption
     DEF FrontOK, BP!Kinds, Kinds

LEMMA FrontNext == FrontOK /\ [BP!Next]_(BP!vars) => FrontOK'
  BY BP!InvStep, CapAssumption, BodyAssumption, KindAssumption, NoneAssumption
     DEF FrontOK, BP!Kinds, Kinds

LEMMA FrontDeliver ==
    ASSUME FrontOK, NEW r \in Req, NEW reply \in BP!Reply, reply.code # 503, BP!Deliver(r, reply)
    PROVE  FrontOK'
  BY BP!DeliverKeeps, CapAssumption, BodyAssumption, KindAssumption, NoneAssumption
     DEF FrontOK, BP!Kinds, Kinds

LEMMA BackInit ==
    ASSUME DP!Init, keys \in [Req -> Seq(Question)], Told = [r \in Req |-> None]
    PROVE  BackOK
<1>1. /\ None # <<>> /\ \A c \in {400, 502} : None # DP!Failed(c)
  BY NilAssumption, FailedIsReply DEF DP!Failed, Failed, DP!NoAnswers, NoAnswers
<1> QED
  BY <1>1, DP!InvInit, CapAssumption, BodyAssumption, KindAssumption, NoneAssumption,
     WorkerAssumption, GroupAssumption
     DEF BackOK, DP!Kinds, Kinds

(* A step of a goroutine, the launch of a batch, and a step elsewhere.       *)
LEMMA BackStep ==
    ASSUME BackOK, NEW d \in Req, DP!Step(d)
    PROVE  BackOK'
<1>1. /\ None # <<>> /\ \A c \in {400, 502} : None # DP!Failed(c)
  BY NilAssumption, FailedIsReply DEF DP!Failed, Failed, DP!NoAnswers, NoAnswers
<1> QED
  BY <1>1, DP!DispatchStep, CapAssumption, BodyAssumption, KindAssumption, NoneAssumption,
     WorkerAssumption, GroupAssumption
     DEF BackOK, DP!Kinds, Kinds

LEMMA BackSpawn ==
    ASSUME BackOK, NEW b \in Seq(Req), DP!Elems(b) \subseteq Req \ DP!Spawned,
           Head(b) \in DP!Elems(b), \A i, j \in DOMAIN b : b[i] = b[j] => i = j,
           DP!Spawn(b), keys' = keys
    PROVE  BackOK'
<1>1. /\ None # <<>> /\ \A c \in {400, 502} : None # DP!Failed(c)
  BY NilAssumption, FailedIsReply DEF DP!Failed, Failed, DP!NoAnswers, NoAnswers
<1> QED
  BY <1>1, DP!SpawnKeeps, CapAssumption, BodyAssumption, KindAssumption, NoneAssumption,
     WorkerAssumption, GroupAssumption
     DEF BackOK, DP!Kinds, Kinds

LEMMA BackSame ==
    ASSUME BackOK, UNCHANGED backVars, Told' = Told, keys' \in [Req -> Seq(Question)],
           \A d \in Req : \A r \in DP!Elems(dbatch[d]) : keys'[r] = keys[r]
    PROVE  BackOK'
<1>1. /\ None # <<>> /\ \A c \in {400, 502} : None # DP!Failed(c)
  BY NilAssumption, FailedIsReply DEF DP!Failed, Failed, DP!NoAnswers, NoAnswers
<1>2. UNCHANGED <<dpc, DP!buildVars, DP!pickVars, DP!runVars, DP!replyVars>>
  BY DEF backVars, DP!buildVars, DP!pickVars, DP!runVars, DP!replyVars
<1> QED
  BY <1>1, <1>2, DP!DispatchSame, CapAssumption, BodyAssumption, KindAssumption, NoneAssumption,
     WorkerAssumption, GroupAssumption
     DEF BackOK, DP!Kinds, Kinds

(* Both halves are written in the vocabulary of ServeTypes.                  *)
LEMMA SameWords ==
    /\ \A s : BP!Elems(s) = Elems(s) /\ DP!Elems(s) = Elems(s) /\ D!Elems(s) = Elems(s)
              /\ B!Elems(s) = Elems(s)
    /\ \A c : BP!Failed(c) = Failed(c) /\ DP!Failed(c) = Failed(c) /\ D!Failed(c) = Failed(c)
              /\ B!Failed(c) = Failed(c)
    /\ \A a : DP!Answered(a) = Answered(a) /\ D!Answered(a) = Answered(a)
    /\ \A r : DP!ValidKeys(r) = ValidKeys(r)
    /\ BP!Reply = Reply /\ DP!NoAnswers = NoAnswers
    /\ DP!Spawned = D!Spawned
    /\ \A ks : BP!Refusable(ks) <=> B!Refusable(ks)
    /\ \A r : BP!Sent(r) <=> B!Sent(r)
<1>1. \A s : BP!Elems(s) = Elems(s) /\ DP!Elems(s) = Elems(s) /\ D!Elems(s) = Elems(s)
             /\ B!Elems(s) = Elems(s)
  BY DEF BP!Elems, DP!Elems, D!Elems, B!Elems, Elems
<1>2. \A c : BP!Failed(c) = Failed(c) /\ DP!Failed(c) = Failed(c) /\ D!Failed(c) = Failed(c)
             /\ B!Failed(c) = Failed(c)
  BY DEF BP!Failed, DP!Failed, D!Failed, B!Failed, Failed, BP!NoAnswers, DP!NoAnswers,
         D!NoAnswers, B!NoAnswers, NoAnswers
<1>3. \A a : DP!Answered(a) = Answered(a) /\ D!Answered(a) = Answered(a)
  BY DEF DP!Answered, D!Answered, Answered
<1>4. \A r : DP!ValidKeys(r) = ValidKeys(r)
  BY <1>1 DEF DP!ValidKeys, ValidKeys, DP!Valid, Valid
<1>5. BP!Reply = Reply /\ DP!NoAnswers = NoAnswers
  BY DEF BP!Reply, Reply, BP!Item, Item, DP!NoAnswers, NoAnswers
<1>6. DP!Spawned = D!Spawned
  BY <1>1 DEF DP!Spawned, D!Spawned
<1>7. \A ks : BP!Refusable(ks) <=> B!Refusable(ks)
  BY DEF BP!Refusable, B!Refusable
<1>8. \A r : BP!Sent(r) <=> B!Sent(r)
  BY <1>1 DEF BP!Sent, B!Sent
<1> QED
  BY <1>1, <1>2, <1>3, <1>4, <1>5, <1>6, <1>7, <1>8

-----------------------------------------------------------------------------
(* The steps of the process are steps of its halves *)

LEMMA HandlerCopy == \A r \in Req : B!Handler(r) => BP!Handler(r)
<1> SUFFICES ASSUME NEW r \in Req, B!Handler(r) PROVE BP!Handler(r)
  OBVIOUS
<1>1. CASE B!Refuse(r)
  BY <1>1, SameWords DEF B!Refuse, B!Respond, B!batcherVars, BP!Handler, BP!Refuse, BP!Respond,
     BP!batcherVars
<1>2. CASE B!Accept(r)
  BY <1>2, SameWords DEF B!Accept, B!batcherVars, BP!Handler, BP!Accept, BP!batcherVars
<1>3. CASE B!Enqueue(r)
  BY <1>3 DEF B!Enqueue, B!batcherVars, BP!Handler, BP!Enqueue, BP!batcherVars
<1>4. CASE B!QueueFull(r)
  BY <1>4, SameWords DEF B!QueueFull, B!Respond, B!batcherVars, BP!Handler, BP!QueueFull,
     BP!Respond, BP!batcherVars
<1>5. CASE B!Receive(r)
  BY <1>5 DEF B!Receive, B!Respond, B!batcherVars, BP!Handler, BP!Receive, BP!Respond,
     BP!batcherVars
<1> QED
  BY <1>1, <1>2, <1>3, <1>4, <1>5 DEF B!Handler

LEMMA BatcherCopy ==
    ASSUME BatcherStep
    PROVE  BP!BatcherStep /\ UNCHANGED <<B!handlerVars, respCh, launched, statBatchSum>>
<1>1. CASE B!OpenCarried
  BY <1>1 DEF B!OpenCarried, B!Open, B!handlerVars, BP!BatcherStep, BP!OpenCarried, BP!Open,
     BP!handlerVars
<1>2. CASE B!OpenQueued
  BY <1>2 DEF B!OpenQueued, B!Open, B!handlerVars, BP!BatcherStep, BP!OpenQueued, BP!Open,
     BP!handlerVars
<1>3. CASE B!FillFull \/ B!FillWait \/ B!FillExpired \/ B!TimerFires \/ B!PollEmpty
  BY <1>3 DEF B!FillFull, B!FillWait, B!FillExpired, B!TimerFires, B!PollEmpty, B!Goto,
     B!handlerVars, BP!BatcherStep, BP!FillFull, BP!FillWait, BP!FillExpired, BP!TimerFires,
     BP!PollEmpty, BP!Goto, BP!handlerVars
<1>4. CASE B!Take
  BY <1>4 DEF B!Take, B!Fits, B!handlerVars, BP!BatcherStep, BP!Take, BP!Fits, BP!handlerVars
<1>5. CASE B!CountBatch
  BY <1>5 DEF B!CountBatch, B!handlerVars, BP!BatcherStep, BP!CountBatch, BP!handlerVars
<1> QED
  BY <1>1, <1>2, <1>3, <1>4, <1>5 DEF BatcherStep

LEMMA LaunchCopy == (Launch => BP!Launch) /\ (Expire => BP!Expire)
<1>1. Launch => BP!Launch
  BY DEF Launch, B!Launch, B!handlerVars, BP!Launch, BP!handlerVars
<1>2. Expire => BP!Expire
  BY DEF Expire, B!Expire, B!handlerVars, BP!Expire, BP!handlerVars
<1> QED
  BY <1>1, <1>2

(* A step of a goroutine that replies to nobody.                             *)
LEMMA BuildCopy ==
    ASSUME NEW d \in Req, NEW w \in 1..BuildWorkers, D!BuildRequest(d, w) \/ D!MergeLocal(d, w),
           Told' = Told
    PROVE  DP!Step(d)
<1>1. \A r : D!BuiltOf(r) = DP!BuiltOf(r)
  BY DEF D!BuiltOf, DP!BuiltOf, D!Valid, DP!Valid
<1>2. CASE D!BuildRequest(d, w)
  BY <1>1, <1>2, SameWords
     DEF D!BuildRequest, D!Panic, D!buildVars, D!pickVars, D!runVars, D!replyVars,
         DP!Step, DP!BuildRequest, DP!Panic, DP!buildVars, DP!pickVars, DP!runVars, DP!replyVars
<1>3. CASE D!MergeLocal(d, w)
  BY <1>3 DEF D!MergeLocal, D!pickVars, D!runVars, D!replyVars,
         DP!Step, DP!MergeLocal, DP!pickVars, DP!runVars, DP!replyVars
<1> QED
  BY <1>2, <1>3

LEMMA SameItems ==
    /\ \A bs : D!ValidItems(bs) = DP!ValidItems(bs)
    /\ \A bs, rws, r : D!AnswersOf(bs, rws, r) = DP!AnswersOf(bs, rws, r)
    /\ \A d : D!FailedIn(d) = DP!FailedIn(d)
    /\ \A d, r : D!ReplyTo(d, r) = DP!ReplyTo(d, r)
<1>1. \A bs : D!ValidItems(bs) = DP!ValidItems(bs)
  BY DEF D!ValidItems, DP!ValidItems, D!ValidPrefixes, DP!ValidPrefixes
<1>2. \A S : D!Cardinality(S) = DP!Cardinality(S)
  BY DEF D!Cardinality, DP!Cardinality
<1>3. \A bs, rws, r : D!AnswersOf(bs, rws, r) = DP!AnswersOf(bs, rws, r)
  BY <1>2 DEF D!AnswersOf, DP!AnswersOf, D!ValidIndex, DP!ValidIndex, D!LastBuilt, DP!LastBuilt
<1>4. \A d : D!FailedIn(d) = DP!FailedIn(d)
  BY SameWords DEF D!FailedIn, DP!FailedIn, D!NoAnswers, DP!NoAnswers
<1>5. \A d, r : D!ReplyTo(d, r) = DP!ReplyTo(d, r)
  BY SameWords DEF D!ReplyTo, DP!ReplyTo, D!NoAnswers, DP!NoAnswers
<1> QED
  BY <1>1, <1>3, <1>4, <1>5

LEMMA QuietCopy ==
    ASSUME NEW d \in Req, D!Step(d), ~D!Send(d), Told' = Told
    PROVE  DP!Step(d)
<1> USE DEF D!Goto, DP!Goto, D!buildVars, DP!buildVars, D!pickVars, DP!pickVars,
            D!runVars, DP!runVars, D!replyVars, DP!replyVars
<1>1. ASSUME NEW w \in 1..BuildWorkers, D!BuildRequest(d, w) \/ D!MergeLocal(d, w)
      PROVE  DP!Step(d)
  BY <1>1, BuildCopy
<1>2. CASE D!Assemble(d)
  BY <1>2, SameWords, SameItems DEF D!Assemble, DP!Assemble, D!NoAnswers, DP!NoAnswers, DP!Step
<1>3. CASE D!PickGroup(d) \/ D!LoadCandidate(d) \/ D!CompareCandidate(d)
  BY <1>3 DEF D!PickGroup, DP!PickGroup, D!LoadCandidate, DP!LoadCandidate,
     D!CompareCandidate, DP!CompareCandidate, DP!Step
<1>4. CASE D!Charge(d) \/ D!Lock(d) \/ D!Release(d)
  BY <1>4 DEF D!Charge, DP!Charge, D!Lock, DP!Lock, D!Release, DP!Release, DP!Step
<1>5. CASE D!RunOk(d) \/ D!RunFails(d)
  BY <1>5, SameItems DEF D!RunOk, DP!RunOk, D!RunFails, DP!RunFails, D!Unlock, DP!Unlock, DP!Step
<1>6. CASE D!Answer(d)
  BY <1>6, SameItems DEF D!Answer, DP!Answer, D!Asks, DP!Asks, D!Panic, DP!Panic, DP!Step
<1>7. CASE D!CountFailedCall(d)
  BY <1>7 DEF D!CountFailedCall, DP!CountFailedCall, DP!Step
<1>8. CASE D!Finish(d)
  <2>1. D!Cardinality(D!FailedIn(d)) = DP!Cardinality(DP!FailedIn(d))
    BY SameItems DEF D!Cardinality, DP!Cardinality
  <2> QED
    BY <1>8, <2>1 DEF D!Finish, DP!Finish, DP!Step
<1> QED
  BY <1>1, <1>2, <1>3, <1>4, <1>5, <1>6, <1>7, <1>8 DEF D!Step

-----------------------------------------------------------------------------
(* Handlers *)

LEMMA Types ==
    ASSUME FrontOK
    PROVE  /\ keys \in [Req -> Seq(Question)]
           /\ hpc \in [Req -> {"idle", "send", "wait", "done"}]
           /\ resp \in [Req -> Reply \cup {None}] /\ respCh \in [Req -> Reply \cup {None}]
           /\ batch \in Seq(Req) /\ launched \in Seq(Seq(Req))
           /\ statReq \in Nat /\ statBatch \in Nat /\ statBatchSum \in Nat
           /\ \A r \in Req : respCh[r] # None => hpc[r] = "wait"
           /\ \A r \in Req : hpc[r] \in {"send", "wait"} => ~B!Refusable(keys[r])
  BY SameWords DEF FrontOK, BP!BatcherInv, BP!TypeOK, BP!HandlerOK

(* A request whose reply is out was not refused, and its handler waits for   *)
(* the reply or has had it.                                                  *)
LEMMA SpawnedWaits ==
    ASSUME FrontOK, LinkOK, NEW r \in D!Spawned
    PROVE  r \in Req /\ hpc[r] \in {"wait", "done"} /\ ~B!Refusable(keys[r])
<1>1. r \in Req /\ \E i \in DOMAIN launched : r \in Elems(launched[i])
  BY SameWords DEF LinkOK, B!Sent
<1>2. BP!Held(r)
  BY <1>1, SameWords, BP!PlacedIsHeld, CapAssumption, BodyAssumption, KindAssumption, NoneAssumption
     DEF FrontOK, BP!Kinds, Kinds
<1> QED
  BY <1>1, <1>2, Types, SameWords DEF BP!Held

(* What a handler may do, step by step.                                      *)
Refused(r) ==
    /\ hpc[r] = "idle" /\ hpc'[r] = "done" /\ B!Refusable(keys'[r])
    /\ resp'[r] = Failed(400) /\ respCh' = respCh /\ statReq' = statReq
Admitted(r) ==
    /\ hpc[r] = "idle" /\ hpc'[r] = "send" /\ ~B!Refusable(keys'[r])
    /\ resp' = resp /\ respCh' = respCh /\ statReq' = statReq + 1
Queued(r) ==
    /\ hpc[r] = "send" /\ hpc'[r] = "wait" /\ keys' = keys
    /\ resp' = resp /\ respCh' = respCh /\ statReq' = statReq
Shed(r) ==
    /\ hpc[r] = "send" /\ hpc'[r] = "done" /\ keys' = keys
    /\ resp'[r] = Failed(503) /\ respCh' = respCh /\ statReq' = statReq
Received(r) ==
    /\ hpc[r] = "wait" /\ hpc'[r] = "done" /\ keys' = keys
    /\ respCh[r] # None /\ resp'[r] = respCh[r] /\ respCh'[r] = None /\ statReq' = statReq

LEMMA HandlerMoves ==
    ASSUME FrontOK, NEW r \in Req, B!Handler(r)
    PROVE  /\ UNCHANGED <<bpc, launched, statBatch, statBatchSum>>
           /\ \A s \in Req \ {r} : /\ hpc'[s] = hpc[s] /\ resp'[s] = resp[s]
                                   /\ respCh'[s] = respCh[s] /\ keys'[s] = keys[s]
           /\ Refused(r) \/ Admitted(r) \/ Queued(r) \/ Shed(r) \/ Received(r)
<1>1. CASE B!Refuse(r)
  BY <1>1, Types, SameWords DEF B!Refuse, B!Respond, B!batcherVars, Refused
<1>2. CASE B!Accept(r)
  BY <1>2, Types DEF B!Accept, B!batcherVars, Admitted
<1>3. CASE B!Enqueue(r)
  BY <1>3, Types DEF B!Enqueue, B!batcherVars, Queued
<1>4. CASE B!QueueFull(r)
  BY <1>4, Types, SameWords DEF B!QueueFull, B!Respond, B!batcherVars, Shed
<1>5. CASE B!Receive(r)
  BY <1>5, Types DEF B!Receive, B!Respond, B!batcherVars, Received
<1> QED
  BY <1>1, <1>2, <1>3, <1>4, <1>5 DEF B!Handler

(* What dispatch has told a request is known until the end.                  *)
LEMMA HandlerTold ==
    ASSUME FrontOK, LinkOK, NEW r \in Req, B!Handler(r), dbatch' = dbatch
    PROVE  /\ Told' = Told /\ D!Spawned' = D!Spawned
           /\ \A s \in D!Spawned : keys'[s] = keys[s]
<1>1. D!Spawned' = D!Spawned
  BY DEF D!Spawned
<1>2. ASSUME NEW s \in D!Spawned
      PROVE  /\ keys'[s] = keys[s]
             /\ (IF respCh'[s] # None THEN respCh'[s] ELSE resp'[s])
                   = (IF respCh[s] # None THEN respCh[s] ELSE resp[s])
  <2>1. s \in Req /\ hpc[s] \in {"wait", "done"}
    BY SpawnedWaits
  <2>2. CASE s # r
    BY <2>1, <2>2, HandlerMoves
  <2>3. CASE s = r
    <3>1. Received(r)
      BY <2>1, <2>3, HandlerMoves DEF Refused, Admitted, Queued, Shed
    <3> QED
      BY <2>3, <3>1 DEF Received
  <2> QED
    BY <2>2, <2>3
<1>3. \A s \in Req :
         (IF s \notin D!Spawned' THEN None ELSE IF respCh'[s] # None THEN respCh'[s] ELSE resp'[s])
            = (IF s \notin D!Spawned THEN None ELSE IF respCh[s] # None THEN respCh[s] ELSE resp[s])
  BY <1>1, <1>2
<1>4. Told' = Told
  BY <1>3 DEF Told
<1> QED
  BY <1>1, <1>2, <1>4

LEMMA HandlerLink ==
    ASSUME FrontOK, LinkOK, NEW r \in Req, B!Handler(r), dbatch' = dbatch
    PROVE  LinkOK'
<1>0. D!Spawned' = D!Spawned /\ launched' = launched
  BY HandlerTold, HandlerMoves
<1>1. \A s : B!Sent(s)' <=> B!Sent(s)
  BY <1>0 DEF B!Sent, B!Elems
<1>2. ASSUME NEW s \in Req, s # r
      PROVE  /\ hpc'[s] = "done" <=> resp'[s] # None
             /\ s \notin D!Spawned => respCh'[s] = None
             /\ s \notin D!Spawned /\ hpc'[s] = "done" =>
                   resp'[s] = IF B!Refusable(keys'[s]) THEN Failed(400) ELSE Failed(503)
  BY <1>2, HandlerMoves DEF LinkOK
<1>3. /\ hpc'[r] = "done" <=> resp'[r] # None
      /\ r \notin D!Spawned => respCh'[r] = None
      /\ r \notin D!Spawned /\ hpc'[r] = "done" =>
            resp'[r] = IF B!Refusable(keys'[r]) THEN Failed(400) ELSE Failed(503)
  <2>1. /\ hpc[r] = "done" <=> resp[r] # None
        /\ r \notin D!Spawned => respCh[r] = None
    BY DEF LinkOK
  <2>2. hpc[r] = "send" => ~B!Refusable(keys[r])
    BY Types
  <2>3. Failed(400) # None /\ Failed(503) # None
    BY FailedIsReply, NilAssumption
  <2> QED
    BY <2>1, <2>2, <2>3, HandlerMoves DEF Refused, Admitted, Queued, Shed, Received
<1>4. \A ks : B!Refusable(ks)' <=> B!Refusable(ks)
  BY DEF B!Refusable
<1> QED
  BY <1>0, <1>1, <1>2, <1>3 DEF LinkOK

LEMMA HandlerCounts ==
    ASSUME FrontOK, LinkOK, CountersOK, NEW r \in Req, B!Handler(r), dbatch' = dbatch
    PROVE  CountersOK'
<1>0. D!Spawned' = D!Spawned /\ UNCHANGED <<bpc, statBatch, statBatchSum>>
  BY HandlerTold, HandlerMoves
<1>1. \A s \in Req \ {r} : s \in Accepted' <=> s \in Accepted
  BY HandlerMoves DEF Accepted
<1>2. CASE Admitted(r)
  <2>1. r \notin Accepted /\ r \in Accepted'
    BY <1>2 DEF Accepted, Admitted
  <2>2. Accepted' = Accepted \cup {r}
    BY <1>1, <2>1 DEF Accepted
  <2>3. /\ IsFiniteSet(Accepted \cup {r})
        /\ Cardinality(Accepted \cup {r}) = Cardinality(Accepted) + 1
    BY <2>1, FS_AddElement DEF CountersOK
  <2> QED
    BY <1>0, <1>2, <2>2, <2>3 DEF CountersOK, Admitted
<1>3. CASE ~Admitted(r)
  <2>1. statReq' = statReq /\ (r \in Accepted' <=> r \in Accepted)
    BY <1>3, HandlerMoves DEF Accepted, Refused, Queued, Shed, Received
  <2>2. Accepted' = Accepted
    BY <1>1, <2>1 DEF Accepted
  <2> QED
    BY <1>0, <2>1, <2>2 DEF CountersOK
<1> QED
  BY <1>2, <1>3

LEMMA HandlerKeeps ==
    ASSUME GoserveInv, NEW r \in Req, HandlerStep(r)
    PROVE  GoserveInv'
<1>0. FrontOK /\ BackOK /\ LinkOK /\ CountersOK
  BY DEF GoserveInv
<1>1. B!Handler(r) /\ UNCHANGED backVars /\ dbatch' = dbatch
  BY DEF HandlerStep, backVars
<1>2. FrontOK'
  BY <1>0, <1>1, HandlerCopy, FrontNext DEF BP!Next
<1>3. BackOK'
  <2>1. keys' \in [Req -> Seq(Question)]
    BY <1>2 DEF FrontOK, BP!BatcherInv, BP!TypeOK
  <2>2. \A d \in Req : \A s \in DP!Elems(dbatch[d]) : s \in D!Spawned
    BY SameWords DEF D!Spawned
  <2> QED
    BY <1>0, <1>1, <2>1, <2>2, HandlerTold, BackSame
<1> QED
  BY <1>0, <1>1, <1>2, <1>3, HandlerLink, HandlerCounts DEF GoserveInv

-----------------------------------------------------------------------------
(* The batcher *)

(* A step that concerns neither a request nor a goroutine.                   *)
LEMMA ToldSame ==
    ASSUME UNCHANGED <<dbatch, respCh, resp>>
    PROVE  Told' = Told /\ D!Spawned' = D!Spawned
<1>1. D!Spawned' = D!Spawned
  BY DEF D!Spawned
<1> QED
  BY <1>1 DEF Told

LEMMA LinkSame ==
    ASSUME LinkOK, UNCHANGED <<keys, hpc, resp, respCh, launched>>, D!Spawned' = D!Spawned
    PROVE  LinkOK'
<1>1. \A s : B!Sent(s)' <=> B!Sent(s)
  BY DEF B!Sent, B!Elems
<1> QED
  BY <1>1 DEF LinkOK, B!Refusable

LEMMA BatcherKeeps ==
    ASSUME GoserveInv, BatcherStep \/ Expire
    PROVE  GoserveInv'
<1>0. FrontOK /\ BackOK /\ LinkOK /\ CountersOK
  BY DEF GoserveInv
<1>1. /\ UNCHANGED <<keys, hpc, resp, statReq, respCh, launched, statBatchSum>>
      /\ UNCHANGED backVars /\ dbatch' = dbatch
  BY BatcherCopy DEF BatcherStep, Expire, B!Expire, B!handlerVars, backVars
<1>2. FrontOK'
  BY <1>0, BatcherCopy, LaunchCopy, FrontNext DEF BP!Next
<1>3. Told' = Told /\ D!Spawned' = D!Spawned
  BY <1>1, ToldSame
<1>4. BackOK'
  BY <1>0, <1>1, <1>3, BackSame, Types
<1>5. LinkOK'
  BY <1>0, <1>1, <1>3, LinkSame
<1>6. CountersOK'
  <2>1. Accepted' = Accepted
    BY <1>1 DEF Accepted, B!Refusable
  <2>2. statBatch' <= statBatchSum' + (IF bpc' = "launch" THEN 1 ELSE 0)
    <3>1. CASE B!CountBatch
      BY <1>0, <1>1, <3>1, Types DEF B!CountBatch, CountersOK
    <3>2. CASE ~B!CountBatch
      <4>1. statBatch' = statBatch /\ bpc # "launch"
        BY <3>2 DEF BatcherStep, Expire, B!Expire, B!OpenCarried, B!OpenQueued, B!Open,
           B!FillFull, B!FillWait, B!FillExpired, B!Take, B!TimerFires, B!PollEmpty, B!Goto
      <4> QED
        BY <1>0, <1>1, <4>1, Types DEF CountersOK
    <3> QED
      BY <3>1, <3>2
  <2> QED
    BY <1>0, <1>1, <1>3, <2>1, <2>2 DEF CountersOK
<1> QED
  BY <1>2, <1>4, <1>5, <1>6 DEF GoserveInv

(* The batch at hand: its requests wait, are distinct and in no other batch. *)
LEMMA BatchIsNew ==
    ASSUME FrontOK, LinkOK
    PROVE  /\ \A i, j \in DOMAIN batch : batch[i] = batch[j] => i = j
           /\ \A r \in Elems(batch) : r \in Req \ D!Spawned /\ hpc[r] = "wait" /\ resp[r] = None
<1>1. /\ BP!CarrySeq \in Seq(Req) /\ batch \in Seq(Req) /\ queue \in Seq(Req)
      /\ DOMAIN launched = 1..Len(launched)
  BY NoneAssumption, LenProperties DEF FrontOK, BP!BatcherInv, BP!TypeOK, BP!CarrySeq
<1>2. \A i \in DOMAIN batch : i \in DOMAIN BP!Pipeline /\ BP!Pipeline[i] = batch[i]
  <2>1. batch \o BP!CarrySeq \in Seq(Req)
    BY <1>1, ConcatProperties
  <2>2. \A i \in DOMAIN batch : /\ i \in 1..Len(batch \o BP!CarrySeq)
                                /\ (batch \o BP!CarrySeq)[i] = batch[i]
    BY <1>1, ConcatProperties, LenProperties
  <2> DEFINE s == batch \o BP!CarrySeq
  <2>3. \A i \in 1..Len(s) : i \in DOMAIN (s \o queue) /\ (s \o queue)[i] = s[i]
    <3> HIDE DEF s
    <3>1. s \in Seq(Req)
      BY <2>1 DEF s
    <3> QED
      BY <1>1, <3>1, ConcatProperties, LenProperties
  <2> QED
    BY <2>2, <2>3 DEF BP!Pipeline
<1>3. \A i \in DOMAIN batch : batch[i] \in Req /\ <<0, i>> \in BP!Places(batch[i])
  <2>1. ASSUME NEW i \in DOMAIN batch PROVE <<0, i>> \in BP!Places(batch[i])
    BY <1>2, BP!PlacesMember, CapAssumption, BodyAssumption, KindAssumption, NoneAssumption
       DEF BP!Places, BP!Kinds, Kinds
  <2> QED
    BY <1>1, <2>1, ElementOfSeq, LenProperties
<1>4. \A r \in Req : \A p, q \in BP!Places(r) : p = q
  BY DEF FrontOK, BP!BatcherInv, BP!PlaceOK
<1>5. ASSUME NEW i \in DOMAIN batch, NEW j \in DOMAIN batch, batch[i] = batch[j] PROVE i = j
  <2>1. <<0, i>> = <<0, j>>
    BY <1>3, <1>4, <1>5
  <2> QED
    BY <2>1
<1>6. ASSUME NEW i \in DOMAIN batch
      PROVE  batch[i] \in Req \ D!Spawned /\ hpc[batch[i]] = "wait" /\ resp[batch[i]] = None
  <2>1. batch[i] \in Req /\ <<0, i>> \in BP!Places(batch[i])
    BY <1>3
  <2>2. batch[i] \notin D!Spawned
    <3>1. SUFFICES ASSUME B!Sent(batch[i]) PROVE FALSE
      BY DEF LinkOK
    <3>2. PICK k \in DOMAIN launched : batch[i] \in Elems(launched[k])
      BY <3>1, SameWords DEF B!Sent
    <3>3. PICK j \in DOMAIN launched[k] : launched[k][j] = batch[i]
      BY <3>2 DEF Elems
    <3>4. <<k, j>> \in BP!Places(batch[i])
      BY <3>3, BP!PlacesMember, CapAssumption, BodyAssumption, KindAssumption, NoneAssumption
         DEF BP!Places, BP!Kinds, Kinds
    <3>5. <<k, j>> = <<0, i>>
      BY <1>4, <2>1, <3>4
    <3> QED
      BY <1>1, <3>5
  <2>3. BP!Held(batch[i])
    BY <2>1 DEF FrontOK, BP!BatcherInv, BP!PlaceOK
  <2>4. hpc[batch[i]] # "done"
    BY <2>1, <2>2, <2>3, SameWords DEF LinkOK, BP!Held, Failed
  <2> QED
    BY <2>1, <2>2, <2>3, <2>4 DEF LinkOK, BP!Held
<1> QED
  BY <1>5, <1>6 DEF Elems

LEMMA LaunchKeeps ==
    ASSUME GoserveInv, Launch
    PROVE  GoserveInv'
<1>0. FrontOK /\ BackOK /\ LinkOK /\ CountersOK
  BY DEF GoserveInv
<1>1. /\ UNCHANGED <<keys, hpc, resp, statReq, respCh, statBatch>>
      /\ bpc = "launch" /\ bpc' = "first" /\ launched' = Append(launched, batch)
      /\ statBatchSum' = statBatchSum + Len(batch)
  BY DEF Launch, B!Launch, B!handlerVars
<1>2. FrontOK'
  BY <1>0, LaunchCopy, FrontNext DEF BP!Next, BP!BatcherStep
<1>3. /\ batch \in Seq(Req) /\ batch # <<>> /\ launched \in Seq(Seq(Req))
      /\ DOMAIN launched = 1..Len(launched) /\ Len(launched) \in Nat
  BY <1>0, <1>1, LenProperties DEF FrontOK, BP!BatcherInv, BP!TypeOK, BP!PhaseOK
<1>4. Head(batch) \in Elems(batch) /\ Head(batch) \in Req
  BY <1>3, ElemsHeadTail
<1>5. /\ dbatch' = [dbatch EXCEPT ![Head(batch)] = batch]
      /\ dbatch \in [Req -> Seq(Req)] /\ dbatch[Head(batch)] = <<>>
  <2>1. Head(batch) \notin D!Spawned
    BY <1>0, <1>4, BatchIsNew
  <2> QED
    BY <1>0, <1>4, <2>1, SameWords
       DEF Launch, D!Spawn, BackOK, DP!DispatchInv, DP!BatchOK, D!Spawned
<1>6. D!Spawned' = D!Spawned \cup Elems(batch)
  <2>1. \A d \in Req : Elems(dbatch'[d]) =
           IF d = Head(batch) THEN Elems(dbatch[d]) \cup Elems(batch) ELSE Elems(dbatch[d])
    BY <1>4, <1>5, ElemsEmpty
  <2>2. D!Spawned = UNION {Elems(dbatch[d]) : d \in Req}
    BY SameWords DEF D!Spawned
  <2>3. D!Spawned' = UNION {Elems(dbatch'[d]) : d \in Req}
    BY DEF D!Spawned, D!Elems, Elems
  <2> QED
    BY <1>4, <2>1, <2>2, <2>3, ZenonT(20)
<1>7. Told' = Told
  <2>1. \A s \in Elems(batch) : s \in Req \ D!Spawned /\ respCh[s] = None /\ resp[s] = None
    BY <1>0, BatchIsNew DEF LinkOK
  <2>2. \A s \in Req :
           (IF s \notin D!Spawned' THEN None ELSE IF respCh'[s] # None THEN respCh'[s] ELSE resp'[s])
              = (IF s \notin D!Spawned THEN None ELSE IF respCh[s] # None THEN respCh[s] ELSE resp[s])
    BY <1>1, <1>6, <2>1
  <2> QED
    BY <2>2 DEF Told
<1>8. BackOK'
  <2>1. DP!Spawn(batch)
    BY <1>7 DEF Launch, D!Spawn, DP!Spawn, D!Goto, DP!Goto, D!pickVars, DP!pickVars,
       D!runVars, DP!runVars, D!replyVars, DP!replyVars
  <2> QED
    BY <1>0, <1>1, <1>3, <1>4, <2>1, BatchIsNew, SameWords, BackSpawn
<1>9. LinkOK'
  <2>1. \A s : B!Sent(s)' <=> s \in Elems(batch) \/ B!Sent(s)
    <3>1. /\ DOMAIN launched' = 1..(Len(launched) + 1)
          /\ \A i \in DOMAIN launched : launched'[i] = launched[i]
          /\ launched'[Len(launched) + 1] = batch
      BY <1>1, <1>3, AppendProperties
    <3>2. \A i \in DOMAIN launched' : i \in DOMAIN launched \/ i = Len(launched) + 1
      BY <1>3, <3>1
    <3>3. DOMAIN launched \subseteq DOMAIN launched' /\ Len(launched) + 1 \in DOMAIN launched'
      BY <1>3, <3>1
    <3>4. \A s : B!Sent(s)' <=> \E i \in DOMAIN launched' : s \in Elems(launched'[i])
      BY DEF B!Sent, B!Elems, Elems
    <3>5. \A s : B!Sent(s) <=> \E i \in DOMAIN launched : s \in Elems(launched[i])
      BY DEF B!Sent, B!Elems, Elems
    <3> QED
      BY <3>1, <3>2, <3>3, <3>4, <3>5
  <2>2. Elems(batch) \subseteq Req
    BY <1>3, ElemsType
  <2>3. D!Spawned' = {s \in Req : B!Sent(s)'}
    BY <1>0, <1>6, <2>1, <2>2 DEF LinkOK
  <2> QED
    BY <1>0, <1>1, <1>6, <2>3 DEF LinkOK, B!Refusable
<1>10. CountersOK'
  <2>1. Accepted' = Accepted
    BY <1>1 DEF Accepted, B!Refusable
  <2>2. IsFiniteSet(Elems(batch)) /\ Cardinality(Elems(batch)) = Len(batch)
    BY <1>0, <1>3, BatchIsNew, DistinctElems
  <2>3. D!Spawned \cap Elems(batch) = {} /\ IsFiniteSet(D!Spawned)
    BY <1>0, BatchIsNew DEF CountersOK
  <2>4. /\ IsFiniteSet(D!Spawned \cup Elems(batch))
        /\ Cardinality(D!Spawned \cup Elems(batch)) = Cardinality(D!Spawned) + Len(batch)
    <3>1. /\ IsFiniteSet(D!Spawned \cup Elems(batch))
          /\ Cardinality(D!Spawned \cup Elems(batch)) =
                Cardinality(D!Spawned) + Cardinality(Elems(batch)) - Cardinality({})
      BY <2>2, <2>3, FS_Union
    <3>2. Cardinality({}) = 0 /\ Cardinality(D!Spawned) \in Nat /\ Len(batch) \in Nat
      BY <1>3, <2>3, FS_EmptySet, FS_CardinalityType, LenProperties
    <3> QED
      BY <2>2, <3>1, <3>2
  <2>5. Len(batch) \in Nat /\ Len(batch) >= 1
    BY <1>3, EmptySeq, LenProperties
  <2> QED
    BY <1>0, <1>1, <1>6, <2>1, <2>4, <2>5, Types DEF CountersOK
<1> QED
  BY <1>2, <1>8, <1>9, <1>10 DEF GoserveInv

-----------------------------------------------------------------------------
(* The dispatch goroutines *)

(* Only Send touches respCh, and no step of a goroutine touches its batch.   *)
LEMMA GoroutineMoves ==
    ASSUME NEW d \in Req, D!Step(d)
    PROVE  dbatch' = dbatch /\ keys' = keys /\ (D!Send(d) \/ respCh' = respCh)
  BY DEF D!Step, D!BuildRequest, D!MergeLocal, D!Panic, D!Assemble, D!PickGroup,
     D!LoadCandidate, D!CompareCandidate, D!Charge, D!Lock, D!RunOk, D!RunFails, D!Unlock,
     D!Release, D!Answer, D!CountFailedCall, D!Send, D!Finish, D!buildVars, D!replyVars

(* The reply that is sent: its request waits and has been told nothing.      *)
LEMMA SendTells ==
    ASSUME FrontOK, BackOK, LinkOK, NEW d \in Req, D!Send(d), UNCHANGED frontVars
    PROVE  \E r \in D!Spawned :
              /\ hpc[r] = "wait" /\ respCh[r] = None /\ Told[r] = None
              /\ D!ReplyTo(d, r) \in Reply /\ D!ReplyTo(d, r).code # 503
              /\ respCh' = [respCh EXCEPT ![r] = D!ReplyTo(d, r)]
              /\ Told' = [Told EXCEPT ![r] = D!ReplyTo(d, r)]
              /\ D!ReplyTo(d, r) # None
<1> DEFINE i == next[d]
           r == dbatch[d][i]
<1>1. /\ dpc[d] = "reply" /\ i <= Len(dbatch[d]) /\ respCh[r] = None
      /\ respCh' = [respCh EXCEPT ![r] = D!ReplyTo(d, r)] /\ dbatch' = dbatch
  BY DEF D!Send, D!buildVars
<1>2. /\ dbatch[d] \in Seq(Req) /\ i \in Nat \ {0}
  BY DEF BackOK, DP!DispatchInv, DP!BatchOK, DP!ReplyOK
<1>3. i \in DOMAIN dbatch[d] /\ r \in Req /\ r \in Elems(dbatch[d])
  BY <1>1, <1>2, LenProperties, ElementOfSeq DEF Elems
<1>4. r \in D!Spawned
  BY <1>3, SameWords DEF D!Spawned
<1>5. Told[r] = None
  BY <1>2, <1>3 DEF BackOK, DP!DispatchInv, DP!SentOK
<1>6. resp[r] = None
  BY <1>1, <1>3, <1>4, <1>5 DEF Told
<1>7. hpc[r] = "wait"
  BY <1>4, <1>6, SpawnedWaits DEF LinkOK
<1>8. D!ReplyTo(d, r) \in Reply /\ D!ReplyTo(d, r).code # 503
  <2>1. rows[d] # None => answers[d][r] = DP!OwnAnswers(r)
    BY <1>1, <1>3, SameWords DEF BackOK, DP!DispatchInv, DP!AnswerOK
  <2>2. Answered(DP!OwnAnswers(r)) \in Reply
    <3>1. keys[r] \in Seq(Question)
      BY <1>3, Types
    <3>2. ValidKeys(r) \subseteq Question
      BY <3>1, ElemsType DEF ValidKeys
    <3>3. DP!OwnAnswers(r) \in [ValidKeys(r) -> Item]
      BY <1>3, <3>2, SameWords DEF DP!OwnAnswers, Item
    <3>4. DP!OwnAnswers(r) \in UNION {[S -> Item] : S \in SUBSET Question}
      BY <3>2, <3>3
    <3> QED
      BY <3>4 DEF Answered, Reply
  <2>3. Failed(400) \in Reply /\ Failed(502) \in Reply
    BY FailedIsReply
  <2>4. D!ReplyTo(d, r) \in {Failed(400), Failed(502)} \cup {Answered(DP!OwnAnswers(r))}
    BY <2>1, SameWords DEF D!ReplyTo
  <2> QED
    BY <2>2, <2>3, <2>4 DEF Failed, Answered
<1>9. D!ReplyTo(d, r) # None
  BY <1>8, NilAssumption
<1>10. Told' = [Told EXCEPT ![r] = D!ReplyTo(d, r)]
  <2>1. D!Spawned' = D!Spawned /\ resp' = resp
    BY <1>1 DEF D!Spawned, frontVars
  <2>2. /\ DOMAIN respCh = Req /\ respCh'[r] = D!ReplyTo(d, r)
        /\ \A s \in Req \ {r} : respCh'[s] = respCh[s]
    BY <1>1, <1>3, Types
  <2>3. \A s \in Req :
           (IF s \notin D!Spawned' THEN None ELSE IF respCh'[s] # None THEN respCh'[s] ELSE resp'[s])
              = IF s = r THEN D!ReplyTo(d, r)
                ELSE IF s \notin D!Spawned THEN None ELSE IF respCh[s] # None THEN respCh[s] ELSE resp[s]
    BY <1>4, <1>9, <2>1, <2>2
  <2> QED
    BY <2>3 DEF Told
<1> QED
  BY <1>1, <1>4, <1>5, <1>7, <1>8, <1>9, <1>10

LEMMA SendCopy ==
    ASSUME FrontOK, BackOK, LinkOK, NEW d \in Req, D!Send(d), UNCHANGED frontVars
    PROVE  DP!Send(d)
<1>1. PICK r \in D!Spawned :
        /\ Told[r] = None /\ respCh[r] = None
        /\ respCh' = [respCh EXCEPT ![r] = D!ReplyTo(d, r)]
        /\ Told' = [Told EXCEPT ![r] = D!ReplyTo(d, r)]
        /\ D!ReplyTo(d, r) # None
  BY SendTells
<1>2. respCh' = [respCh EXCEPT ![dbatch[d][next[d]]] = D!ReplyTo(d, dbatch[d][next[d]])]
  BY DEF D!Send
<1>3. dbatch[d][next[d]] = r
  BY <1>1, <1>2, Types, SpawnedWaits
<1> QED
  BY <1>1, <1>3, SameItems DEF D!Send, DP!Send, D!buildVars, DP!buildVars, D!pickVars, DP!pickVars,
     D!runVars, DP!runVars

LEMMA GoroutineKeeps ==
    ASSUME GoserveInv, NEW d \in Req, DispatchStep(d)
    PROVE  GoserveInv'
<1>0. FrontOK /\ BackOK /\ LinkOK /\ CountersOK
  BY DEF GoserveInv
<1>1. D!Step(d) /\ UNCHANGED frontVars /\ dbatch' = dbatch /\ keys' = keys
  BY GoroutineMoves DEF DispatchStep
<1>2. /\ UNCHANGED <<hpc, resp, launched, bpc, statReq, statBatch, statBatchSum>>
      /\ D!Spawned' = D!Spawned
  BY <1>1 DEF frontVars, D!Spawned
<1>3. CountersOK'
  <2>1. Accepted' = Accepted
    BY <1>1, <1>2 DEF Accepted, B!Refusable
  <2> QED
    BY <1>0, <1>2, <2>1 DEF CountersOK
<1>4. CASE respCh' = respCh
  <2>1. Told' = Told
    BY <1>1, <1>2, <1>4, ToldSame
  <2>2. ~D!Send(d)
    <3>1. SUFFICES ASSUME D!Send(d) PROVE FALSE
      OBVIOUS
    <3>2. PICK r \in D!Spawned : /\ D!ReplyTo(d, r) # None /\ Told[r] = None
                                 /\ Told' = [Told EXCEPT ![r] = D!ReplyTo(d, r)]
      BY <1>0, <1>1, <3>1, SendTells
    <3>3. Told'[r] = D!ReplyTo(d, r)
      BY <1>0, <3>2, SpawnedWaits DEF Told
    <3> QED
      BY <2>1, <3>2, <3>3
  <2>3. BackOK'
    BY <1>0, <1>1, <2>1, <2>2, QuietCopy, BackStep
  <2>4. FrontOK'
    <3>1. UNCHANGED BP!vars
      BY <1>1, <1>4 DEF frontVars, BP!vars, BP!handlerVars, BP!batcherVars
    <3> QED
      BY <1>0, <3>1, FrontNext
  <2> QED
    BY <1>0, <1>1, <1>2, <1>3, <1>4, <2>3, <2>4, LinkSame DEF GoserveInv
<1>5. CASE D!Send(d)
  <2>1. PICK r \in D!Spawned :
           /\ hpc[r] = "wait" /\ respCh[r] = None
           /\ D!ReplyTo(d, r) \in Reply /\ D!ReplyTo(d, r).code # 503
           /\ respCh' = [respCh EXCEPT ![r] = D!ReplyTo(d, r)]
    BY <1>0, <1>1, <1>5, SendTells
  <2>2. r \in Req /\ B!Sent(r)
    BY <1>0 DEF LinkOK
  <2>3. BackOK'
    <3>1. DP!Step(d)
      BY <1>0, <1>1, <1>5, SendCopy DEF DP!Step
    <3> QED
      BY <1>0, <3>1, BackStep
  <2>4. FrontOK'
    <3>1. BP!Deliver(r, D!ReplyTo(d, r))
      BY <1>1, <2>1, <2>2, SameWords DEF BP!Deliver, frontVars, BP!handlerVars, BP!batcherVars
    <3> QED
      BY <1>0, <2>1, <2>2, <3>1, SameWords, FrontDeliver
  <2>5. LinkOK'
    <3>1. \A s \in Req \ D!Spawned : respCh'[s] = respCh[s]
      BY <1>0, <2>1, Types
    <3>2. \A s : B!Sent(s)' <=> B!Sent(s)
      BY <1>2 DEF B!Sent, B!Elems
    <3> QED
      BY <1>0, <1>1, <1>2, <3>1, <3>2 DEF LinkOK, B!Refusable
  <2> QED
    BY <1>3, <2>3, <2>4, <2>5 DEF GoserveInv
<1> QED
  BY <1>1, <1>4, <1>5, GoroutineMoves

-----------------------------------------------------------------------------
(* The invariant *)

LEMMA StartsRight == Init => GoserveInv
<1> SUFFICES ASSUME Init PROVE GoserveInv
  OBVIOUS
<1>1. /\ keys = [r \in Req |-> <<>>] /\ respCh = [r \in Req |-> None]
      /\ hpc = [r \in Req |-> "idle"] /\ resp = [r \in Req |-> None]
      /\ launched = <<>> /\ statReq = 0 /\ statBatch = 0 /\ statBatchSum = 0
      /\ dbatch = [d \in Req |-> <<>>]
  BY DEF Init, B!Init, D!Init
<1>2. BP!Init /\ DP!Init
  BY DEF Init, B!Init, D!Init, BP!Init, DP!Init
<1>3. D!Spawned = {} /\ \A r : ~B!Sent(r)
  BY <1>1 DEF D!Spawned, D!Elems, B!Sent
<1>4. Told = [r \in Req |-> None]
  BY <1>3 DEF Told
<1>5. keys \in [Req -> Seq(Question)]
  BY <1>1
<1>6. FrontOK /\ BackOK
  BY <1>2, <1>4, <1>5, FrontInit, BackInit
<1>7. LinkOK
  BY <1>1, <1>3 DEF LinkOK
<1>8. CountersOK
  <2>1. Accepted = {}
    BY <1>1 DEF Accepted
  <2> QED
    BY <1>1, <1>3, <2>1, FS_EmptySet DEF CountersOK
<1> QED
  BY <1>6, <1>7, <1>8 DEF GoserveInv

LEMMA NothingMoves == GoserveInv /\ UNCHANGED vars => GoserveInv'
<1> SUFFICES ASSUME GoserveInv, UNCHANGED vars PROVE GoserveInv'
  OBVIOUS
<1>0. FrontOK /\ BackOK /\ LinkOK /\ CountersOK
  BY DEF GoserveInv
<1>1. UNCHANGED <<keys, respCh>> /\ UNCHANGED frontVars /\ UNCHANGED backVars
  BY DEF vars
<1>2. UNCHANGED <<hpc, resp, launched, bpc, statReq, statBatch, statBatchSum, dbatch>>
  BY <1>1 DEF frontVars, backVars
<1>3. Told' = Told /\ D!Spawned' = D!Spawned
  BY <1>1, <1>2, ToldSame
<1>4. FrontOK'
  <2>1. UNCHANGED BP!vars
    BY <1>1 DEF frontVars, BP!vars, BP!handlerVars, BP!batcherVars
  <2> QED
    BY <1>0, <2>1, FrontNext
<1>5. BackOK'
  BY <1>0, <1>1, <1>3, BackSame, Types
<1>6. LinkOK'
  BY <1>0, <1>1, <1>2, <1>3, LinkSame
<1>7. CountersOK'
  <2>1. Accepted' = Accepted
    BY <1>1, <1>2 DEF Accepted, B!Refusable
  <2> QED
    BY <1>0, <1>2, <1>3, <2>1 DEF CountersOK
<1> QED
  BY <1>4, <1>5, <1>6, <1>7 DEF GoserveInv

LEMMA StepKeeps == GoserveInv /\ [Next]_vars => GoserveInv'
  BY HandlerKeeps, BatcherKeeps, LaunchKeeps, GoroutineKeeps, NothingMoves DEF Next, Rest

(* The two halves keep their invariants when they run together, whatever the *)
(* order their steps come in.                                                *)
THEOREM GoserveInvariant == Spec => []GoserveInv
<1>1. Init => GoserveInv
  BY StartsRight
<1>2. GoserveInv /\ [Next]_vars => GoserveInv'
  BY StepKeeps
<1> QED
  BY <1>1, <1>2, PTL DEF Spec

(* No goroutine ever waits on the reply channel of a request: a request is   *)
(* in one batch only, and is told once.                                      *)
THEOREM GoroutinesNeverBlock == Spec => []NeverBlocksOnReply
<1>1. GoserveInv => NeverBlocksOnReply
  <2> SUFFICES ASSUME GoserveInv, NEW d \in Req, dpc[d] = "reply", next[d] <= Len(dbatch[d])
               PROVE  respCh[dbatch[d][next[d]]] = None
    BY DEF NeverBlocksOnReply, D!NeverBlocksOnReply
  <2>1. dbatch[d] \in Seq(Req) /\ next[d] \in Nat \ {0}
    BY DEF GoserveInv, BackOK, DP!DispatchInv, DP!BatchOK, DP!ReplyOK
  <2>2. /\ next[d] \in DOMAIN dbatch[d] /\ dbatch[d][next[d]] \in Req
        /\ dbatch[d][next[d]] \in Elems(dbatch[d])
    BY <2>1, LenProperties, ElementOfSeq DEF Elems
  <2>3. Told[dbatch[d][next[d]]] = None
    BY <2>1, <2>2 DEF GoserveInv, BackOK, DP!DispatchInv, DP!SentOK
  <2>4. dbatch[d][next[d]] \in D!Spawned
    BY <2>2, SameWords DEF D!Spawned
  <2> QED
    BY <2>2, <2>3, <2>4 DEF Told
<1> QED
  BY <1>1, GoserveInvariant, PTL

-----------------------------------------------------------------------------
(* The counters add up *)

(* Once nothing moves, a request that a goroutine took is an error of that   *)
(* goroutine, or answered.                                                   *)
LEMMA TakenIsSettled ==
    ASSUME GoserveInv, Quiet, NEW r \in D!Spawned
    PROVE  resp[r].code \in {200, 400, 502} /\ (r \in DP!Counted <=> resp[r].code # 200)
<1>0. FrontOK /\ BackOK /\ LinkOK
  BY DEF GoserveInv
<1>1. /\ \E d \in Req : r \in Elems(dbatch[d])
      /\ r \in Req /\ hpc[r] = "done"
  BY <1>0, SpawnedWaits, SameWords DEF Quiet, D!Spawned
<1>2. PICK d \in Req : r \in Elems(dbatch[d])
  BY <1>1
<1>3. Told[r] = resp[r] /\ resp[r] # None
  BY <1>0, <1>1, Types DEF Told, LinkOK
<1>4. dpc[d] = "done"
  BY <1>0, <1>2, ElemsEmpty, SameWords DEF Quiet, BackOK, DP!DispatchInv, DP!BatchOK
<1>5. resp[r] = DP!ReplyTo(d, r)
  BY <1>0, <1>2, <1>3, SameWords DEF BackOK, DP!DispatchInv, DP!ReplyOK
<1>6. r \in DP!Counted <=> r \in DP!CountedOf(d)
  <2>1. \A f \in Req : r \in DP!CountedOf(f) => r \in Elems(dbatch[f])
    BY SameWords DEF DP!CountedOf, DP!FailedIn
  <2>2. \A f \in Req : r \in Elems(dbatch[f]) => f = d
    BY <1>0, <1>2, SameWords DEF BackOK, DP!DispatchInv, DP!BatchOK
  <2> QED
    BY <2>1, <2>2 DEF DP!Counted
<1>7. CASE rows[d] = None
  BY <1>2, <1>4, <1>5, <1>6, <1>7, SameWords DEF DP!ReplyTo, DP!CountedOf, Failed
<1>8. CASE rows[d] # None
  <2>1. r \in DP!CountedOf(d) <=> answers[d][r] = DP!NoAnswers
    BY <1>2, <1>4, <1>8, SameWords DEF DP!CountedOf, DP!FailedIn
  <2> QED
    BY <1>5, <1>6, <1>8, <2>1, SameWords DEF DP!ReplyTo, Failed, Answered
<1> QED
  BY <1>7, <1>8

(* RequestsAddUp: "requests_total" is the answered, the "errors" and the     *)
(* shed, and the shed and the sum of the batch sizes, once every client has  *)
(* its response: no accepted request is lost from the counters, and none is  *)
(* counted twice.                                                            *)
THEOREM CountersAgree == Spec => []RequestsAddUp
<1>1. GoserveInv => RequestsAddUp
  <2> SUFFICES ASSUME GoserveInv, Quiet
               PROVE  /\ statReq = statErr + Cardinality(WithCode({200, 503}))
                      /\ statReq = statBatchSum + Cardinality(WithCode({503}))
    BY DEF RequestsAddUp
  <2> DEFINE S == WithCode({200, 503})
             Unserved == WithCode({503})
  <2>0. FrontOK /\ BackOK /\ LinkOK /\ CountersOK
    BY DEF GoserveInv
  <2>1. /\ IsFiniteSet(Accepted) /\ statReq = Cardinality(Accepted)
        /\ IsFiniteSet(DP!Counted) /\ statErr = Cardinality(DP!Counted)
    <3>1. \A T : DP!Cardinality(T) = Cardinality(T) /\ DP!IsFiniteSet(T) = IsFiniteSet(T)
      BY DEF DP!Cardinality, Cardinality, DP!IsFiniteSet, IsFiniteSet
    <3> QED
      BY <2>0, <3>1 DEF CountersOK, BackOK, DP!DispatchInv, DP!CountOK
  <2>2. \A r \in DP!Counted : r \in D!Spawned
    BY SameWords DEF DP!Counted, DP!CountedOf, DP!FailedIn, D!Spawned
  <2>3. \A r \in D!Spawned : /\ r \in Accepted
                             /\ r \in DP!Counted <=> r \notin S
                             /\ r \notin Unserved
    BY <2>0, SpawnedWaits, TakenIsSettled DEF Accepted, WithCode
  <2>4. \A r \in Req \ D!Spawned : (r \in Accepted <=> r \in S) /\ (r \in Accepted <=> r \in Unserved)
    BY <2>0 DEF Quiet, LinkOK, Accepted, Failed, WithCode
  <2>5. /\ S = Accepted \ DP!Counted /\ DP!Counted \subseteq Accepted
        /\ Unserved = Accepted \ D!Spawned /\ D!Spawned \subseteq Accepted
    BY <2>2, <2>3, <2>4 DEF Accepted, WithCode
  <2> HIDE DEF S, Unserved
  <2>6. Cardinality(S) = Cardinality(Accepted) - Cardinality(DP!Counted)
    <3>1. Accepted \cap DP!Counted = DP!Counted
      BY <2>5
    <3>2. Cardinality(Accepted \ DP!Counted) =
             Cardinality(Accepted) - Cardinality(Accepted \cap DP!Counted)
      BY <2>1, FS_Difference
    <3> QED
      BY <2>5, <3>1, <3>2
  <2>7. /\ IsFiniteSet(D!Spawned) /\ statBatchSum = Cardinality(D!Spawned)
        /\ Cardinality(Unserved) = Cardinality(Accepted) - Cardinality(D!Spawned)
    <3>1. IsFiniteSet(D!Spawned) /\ statBatchSum = Cardinality(D!Spawned)
      BY <2>0 DEF CountersOK
    <3>2. Accepted \cap D!Spawned = D!Spawned
      BY <2>5
    <3>3. Cardinality(Accepted \ D!Spawned) =
             Cardinality(Accepted) - Cardinality(Accepted \cap D!Spawned)
      BY <2>1, FS_Difference
    <3> QED
      BY <2>5, <3>1, <3>2, <3>3
  <2>8. /\ Cardinality(Accepted) \in Nat /\ Cardinality(DP!Counted) \in Nat
        /\ Cardinality(D!Spawned) \in Nat
    BY <2>1, <2>7, FS_CardinalityType
  <2> QED
    BY <2>1, <2>6, <2>7, <2>8 DEF S, Unserved
<1> QED
  BY <1>1, GoserveInvariant, PTL

-----------------------------------------------------------------------------
(* The process serves its clients as DecisionService says *)

Phase == [r \in Req |-> CASE hpc[r] = "idle" -> "new"
                          [] hpc[r] = "done" -> "closed"
                          [] OTHER -> "pending"]

LEMMA PhaseOf ==
    ASSUME NEW r \in Req
    PROVE  /\ hpc[r] = "idle" => Phase[r] = "new"
           /\ hpc[r] = "done" => Phase[r] = "closed"
           /\ hpc[r] \in {"send", "wait"} => Phase[r] = "pending"
  BY DEF Phase

(* One handler moves: its request alone changes phase.                       *)
LEMMA PhaseMoves ==
    ASSUME FrontOK, NEW r \in Req, NEW l \in {"send", "wait", "done"}, hpc' = [hpc EXCEPT ![r] = l]
    PROVE  Phase' = [Phase EXCEPT ![r] = IF l = "done" THEN "closed" ELSE "pending"]
<1>1. hpc \in [Req -> {"idle", "send", "wait", "done"}]
  BY Types
<1>2. \A s \in Req : hpc'[s] = IF s = r THEN l ELSE hpc[s]
  BY <1>1
<1>3. \A s \in Req :
        (CASE hpc'[s] = "idle" -> "new" [] hpc'[s] = "done" -> "closed" [] OTHER -> "pending")
          = IF s = r THEN (IF l = "done" THEN "closed" ELSE "pending")
            ELSE CASE hpc[s] = "idle" -> "new" [] hpc[s] = "done" -> "closed" [] OTHER -> "pending"
  BY <1>2
<1> QED
  BY <1>3 DEF Phase

LEMMA ServiceWords ==
    /\ \A c : Service!Failed(c) = Failed(c)
    /\ \A a : Service!Answered(a) = Answered(a)
    /\ \A r : Service!ValidKeys(r) = ValidKeys(r)
<1>1. \A c : Service!Failed(c) = Failed(c)
  BY DEF Service!Failed, Failed, Service!NoAnswers, NoAnswers
<1>2. \A a : Service!Answered(a) = Answered(a)
  BY DEF Service!Answered, Answered
<1>3. \A r : Service!ValidKeys(r) = ValidKeys(r)
  BY DEF Service!ValidKeys, ValidKeys, Service!Elems, Elems, Service!Valid, Valid
<1> QED
  BY <1>1, <1>2, <1>3

(* What a handler receives is the failure of its call, or its own answers.   *)
LEMMA ReceivedIsOwn ==
    ASSUME FrontOK, BackOK, LinkOK, NEW r \in Req, respCh[r] # None
    PROVE  \/ respCh[r] = Failed(502)
           \/ ValidKeys(r) = {} /\ respCh[r] = Failed(400)
           \/ ValidKeys(r) # {} /\ respCh[r] = Answered([q \in ValidKeys(r) |-> <<r, q>>])
<1>1. r \in D!Spawned
  BY DEF LinkOK
<1>2. PICK d \in Req : r \in Elems(dbatch[d])
  BY <1>1, SameWords DEF D!Spawned
<1>3. Told[r] = respCh[r]
  BY <1>1 DEF Told
<1>4. dpc[d] \in {"reply", "done"} /\ respCh[r] = DP!ReplyTo(d, r)
  BY <1>2, <1>3, SameWords DEF BackOK, DP!DispatchInv, DP!ReplyOK
<1>5. rows[d] # None => answers[d][r] = DP!OwnAnswers(r)
  BY <1>2, <1>4, SameWords DEF BackOK, DP!DispatchInv, DP!AnswerOK
<1>6. /\ DP!OwnAnswers(r) = [q \in ValidKeys(r) |-> <<r, q>>]
      /\ DP!OwnAnswers(r) = DP!NoAnswers <=> ValidKeys(r) = {}
  BY SameWords DEF DP!OwnAnswers, NoAnswers
<1> QED
  BY <1>4, <1>5, <1>6, SameWords DEF DP!ReplyTo

LEMMA HandlerServes ==
    ASSUME GoserveInv, NEW r \in Req, B!Handler(r)
    PROVE  Service!Next \/ UNCHANGED Service!serviceVars
<1>0. FrontOK /\ BackOK /\ LinkOK
  BY DEF GoserveInv
<1> USE ServiceWords, SameWords
<1>1. CASE B!Refuse(r)
  <2>1. hpc' = [hpc EXCEPT ![r] = "done"] /\ resp' = [resp EXCEPT ![r] = Failed(400)]
    BY <1>1 DEF B!Refuse, B!Respond
  <2>2. \E ks \in Bodies : Len(ks) \notin 1..BatchMax /\ keys' = [keys EXCEPT ![r] = ks]
    <3>1. \A ks \in Bodies : B!Refusable(ks) => Len(ks) \notin 1..BatchMax
      BY BodyAssumption, CapAssumption, EmptySeq, LenProperties DEF B!Refusable
    <3> QED
      BY <1>1, <3>1 DEF B!Refuse
  <2>3. Phase[r] = "new" /\ Phase' = [Phase EXCEPT ![r] = "closed"]
    BY <1>0, <1>1, <2>1, PhaseOf, PhaseMoves DEF B!Refuse
  <2>4. Service!Refuse(r)
    BY <2>1, <2>2, <2>3 DEF Service!Refuse, Service!Submit, Service!Close, Phase
  <2> QED
    BY <2>4 DEF Service!Next
<1>2. CASE B!Accept(r)
  <2>1. hpc' = [hpc EXCEPT ![r] = "send"] /\ resp' = resp
    BY <1>2 DEF B!Accept
  <2>2. \E ks \in Bodies : Len(ks) \in 1..BatchMax /\ keys' = [keys EXCEPT ![r] = ks]
    <3>1. \A ks \in Bodies : ~B!Refusable(ks) => Len(ks) \in 1..BatchMax
      BY BodyAssumption, CapAssumption, EmptySeq, LenProperties DEF B!Refusable
    <3> QED
      BY <1>2, <3>1 DEF B!Accept
  <2>3. Phase[r] = "new" /\ Phase' = [Phase EXCEPT ![r] = "pending"]
    BY <1>0, <1>2, <2>1, PhaseOf, PhaseMoves DEF B!Accept
  <2>4. Service!Admit(r)
    BY <2>1, <2>2, <2>3 DEF Service!Admit, Service!Submit, Phase
  <2> QED
    BY <2>4 DEF Service!Next
<1>3. CASE B!Enqueue(r)
  <2>1. hpc[r] = "send" /\ hpc' = [hpc EXCEPT ![r] = "wait"] /\ UNCHANGED <<keys, resp>>
    BY <1>3 DEF B!Enqueue
  <2>2. Phase[r] = "pending" /\ Phase' = [Phase EXCEPT ![r] = "pending"]
    BY <1>0, <2>1, PhaseOf, PhaseMoves
  <2>3. Phase' = Phase
    BY <2>2 DEF Phase
  <2> QED
    BY <2>1, <2>3 DEF Service!serviceVars, Phase
<1>4. CASE B!QueueFull(r)
  <2>1. /\ hpc' = [hpc EXCEPT ![r] = "done"] /\ resp' = [resp EXCEPT ![r] = Failed(503)]
        /\ keys' = keys /\ hpc[r] = "send"
    BY <1>4 DEF B!QueueFull, B!Respond
  <2>2. Phase[r] = "pending" /\ Phase' = [Phase EXCEPT ![r] = "closed"]
    BY <1>0, <2>1, PhaseOf, PhaseMoves
  <2>3. Service!Fail(r)
    BY <2>1, <2>2, ZenonT(20) DEF Service!Fail, Service!Close, Phase
  <2> QED
    BY <2>3 DEF Service!Next
<1>5. CASE B!Receive(r)
  <2>1. /\ hpc' = [hpc EXCEPT ![r] = "done"] /\ resp' = [resp EXCEPT ![r] = respCh[r]]
        /\ keys' = keys /\ hpc[r] = "wait" /\ respCh[r] # None
    BY <1>5 DEF B!Receive, B!Respond
  <2>2. Phase[r] = "pending" /\ Phase' = [Phase EXCEPT ![r] = "closed"]
    BY <1>0, <2>1, PhaseOf, PhaseMoves
  <2>3. CASE respCh[r] = Failed(502)
    <3>1. Service!Fail(r)
      BY <2>1, <2>2, <2>3, ZenonT(20) DEF Service!Fail, Service!Close, Phase
    <3> QED
      BY <3>1 DEF Service!Next
  <2>4. CASE ValidKeys(r) = {} /\ respCh[r] = Failed(400)
    <3>1. Service!Reject(r)
      BY <2>1, <2>2, <2>4 DEF Service!Reject, Service!Close, Phase
    <3> QED
      BY <3>1 DEF Service!Next
  <2>5. CASE ValidKeys(r) # {} /\ respCh[r] = Answered([q \in ValidKeys(r) |-> <<r, q>>])
    <3>1. Service!Answer(r)
      BY <2>1, <2>2, <2>5 DEF Service!Answer, Service!Close, Phase
    <3> QED
      BY <3>1 DEF Service!Next
  <2> QED
    BY <1>0, <2>1, <2>3, <2>4, <2>5, ReceivedIsOwn
<1> QED
  BY <1>1, <1>2, <1>3, <1>4, <1>5 DEF B!Handler

(* Batches, engines and channels are invisible to the clients: each has one  *)
(* response, a failure, or the answers to its own valid questions.           *)
THEOREM ServesItsClients == Spec => ImplementsService
<1>1. Init => Service!Init
  BY DEF Init, B!Init, Service!Init
<1>2. GoserveInv /\ [Next]_vars => [Service!Next]_(Service!serviceVars)
  <2> SUFFICES ASSUME GoserveInv, [Next]_vars
               PROVE  Service!Next \/ UNCHANGED Service!serviceVars
    OBVIOUS
  <2>1. ASSUME NEW r \in Req, HandlerStep(r)
        PROVE  Service!Next \/ UNCHANGED Service!serviceVars
    BY <2>1, HandlerServes DEF HandlerStep
  <2>2. CASE BatcherStep \/ Expire \/ Launch \/ (\E d \in Req : DispatchStep(d)) \/ UNCHANGED vars
    <3>1. UNCHANGED <<keys, hpc, resp>>
      BY <2>2, BatcherCopy, GoroutineMoves DEF Expire, B!Expire, Launch, B!Launch, B!handlerVars,
         DispatchStep, frontVars, vars
    <3> QED
      BY <3>1 DEF Service!serviceVars
  <2> QED
    BY <2>1, <2>2 DEF Next, Rest
<1> QED
  BY <1>1, <1>2, GoserveInvariant, PTL DEF Spec, ImplementsService, Service!Spec

-----------------------------------------------------------------------------
(* /stats is read while the counters move *)

(* The loads so far, in the order they are made in: each counter only grows  *)
(* after it was loaded, so what held of the counters then bounds the answer. *)
SnapOK ==
    /\ pos \in 0..5 /\ snap \in [{"requests", "batches", "sum", "errors"} -> Nat]
    /\ pos \in {1, 2} => snap["sum"] = 0
    /\ pos > 1 => snap["batches"] <= statBatch
    /\ pos > 2 => /\ snap["sum"] <= statBatchSum
                  /\ snap["batches"] > 0 => snap["sum"] >= snap["batches"] - 1
    /\ pos > 3 => snap["sum"] <= snap["requests"]

LEMMA CountersOrdered ==
    ASSUME GoserveInv
    PROVE  /\ statReq \in Nat /\ statBatch \in Nat /\ statBatchSum \in Nat /\ statErr \in Nat
           /\ statBatch <= statBatchSum + 1 /\ statBatchSum <= statReq
<1>0. FrontOK /\ BackOK /\ LinkOK /\ CountersOK
  BY DEF GoserveInv
<1>1. statReq \in Nat /\ statBatch \in Nat /\ statBatchSum \in Nat
  BY <1>0, Types
<1>2. statErr \in Nat
  <2>1. \A T : DP!Cardinality(T) = Cardinality(T) /\ DP!IsFiniteSet(T) = IsFiniteSet(T)
    BY DEF DP!Cardinality, Cardinality, DP!IsFiniteSet, IsFiniteSet
  <2>2. IsFiniteSet(DP!Counted) /\ statErr = Cardinality(DP!Counted)
    BY <1>0, <2>1 DEF BackOK, DP!DispatchInv, DP!CountOK
  <2> QED
    BY <2>2, FS_CardinalityType
<1>3. statBatchSum <= statReq
  <2>1. D!Spawned \subseteq Accepted
    BY <1>0, SpawnedWaits DEF Accepted
  <2> QED
    BY <1>0, <2>1, FS_Subset DEF CountersOK
<1>4. statBatch <= statBatchSum + 1
  BY <1>0, <1>1 DEF CountersOK
<1> QED
  BY <1>1, <1>2, <1>3, <1>4

LEMMA CountersGrow ==
    ASSUME GoserveInv, [Next]_vars
    PROVE  statBatch' >= statBatch /\ statBatchSum' >= statBatchSum
<1>0. statBatch \in Nat /\ statBatchSum \in Nat
  BY CountersOrdered
<1>1. ASSUME NEW r \in Req, HandlerStep(r)
      PROVE  statBatch' = statBatch /\ statBatchSum' = statBatchSum
  BY <1>1, HandlerMoves DEF HandlerStep, GoserveInv
<1>2. CASE BatcherStep
  <2>1. statBatchSum' = statBatchSum
    BY <1>2, BatcherCopy
  <2>2. statBatch' = statBatch \/ statBatch' = statBatch + 1
    BY <1>2 DEF BatcherStep, B!OpenCarried, B!OpenQueued, B!Open, B!FillFull, B!FillWait,
       B!FillExpired, B!Take, B!TimerFires, B!PollEmpty, B!Goto, B!CountBatch
  <2> QED
    BY <1>0, <2>1, <2>2
<1>3. CASE Launch
  <2>1. batch \in Seq(Req)
    BY Types DEF GoserveInv
  <2>2. Len(batch) \in Nat
    BY <2>1, LenProperties
  <2> QED
    BY <1>0, <1>3, <2>2 DEF Launch, B!Launch
<1>4. CASE Expire \/ (\E d \in Req : DispatchStep(d)) \/ UNCHANGED vars
  BY <1>0, <1>4 DEF Expire, B!Expire, DispatchStep, frontVars, vars
<1> QED
  BY <1>0, <1>1, <1>2, <1>3, <1>4 DEF Next, Rest

LEMMA SnapLoad ==
    ASSUME GoserveInv, SnapOK, Load, UNCHANGED vars
    PROVE  SnapOK'
<1>1. /\ statReq \in Nat /\ statBatch \in Nat /\ statBatchSum \in Nat /\ statErr \in Nat
      /\ statBatch <= statBatchSum + 1 /\ statBatchSum <= statReq
  BY CountersOrdered
<1>2. UNCHANGED <<statReq, statBatch, statBatchSum, statErr>> /\ pos' = pos + 1
  BY DEF vars, frontVars, backVars, Load
<1>3. /\ Counts["requests"] = statReq /\ Counts["batches"] = statBatch
      /\ Counts["sum"] = statBatchSum /\ Counts["errors"] = statErr
  BY DEF Counts
<1>4. pos \in 1..4
  BY DEF Load, Order
<1>5. CASE pos = 1
  <2>1. snap' = [snap EXCEPT !["batches"] = statBatch]
    BY <1>3, <1>5 DEF Load, Order
  <2> QED
    BY <1>1, <1>2, <1>5, <2>1 DEF SnapOK
<1>6. CASE pos = 2
  <2>1. CASE snap["batches"] = 0
    <3>1. snap' = snap
      BY <1>6, <2>1 DEF Load, Order
    <3> QED
      BY <1>1, <1>2, <1>6, <2>1, <3>1 DEF SnapOK
  <2>2. CASE snap["batches"] # 0
    <3>1. snap' = [snap EXCEPT !["sum"] = statBatchSum]
      BY <1>3, <1>6, <2>2 DEF Load, Order
    <3> QED
      BY <1>1, <1>2, <1>6, <3>1 DEF SnapOK
  <2> QED
    BY <2>1, <2>2
<1>7. CASE pos = 3
  <2>1. snap' = [snap EXCEPT !["requests"] = statReq]
    BY <1>3, <1>7 DEF Load, Order
  <2> QED
    BY <1>1, <1>2, <1>7, <2>1 DEF SnapOK
<1>8. CASE pos = 4
  <2>1. snap' = [snap EXCEPT !["errors"] = statErr]
    BY <1>3, <1>8 DEF Load, Order
  <2> QED
    BY <1>1, <1>2, <1>8, <2>1 DEF SnapOK
<1> QED
  BY <1>4, <1>5, <1>6, <1>7, <1>8

LEMMA ZeroIsSnap == Zero \in [{"requests", "batches", "sum", "errors"} -> Nat] /\ Zero["sum"] = 0
<1>1. DOMAIN Counts = {"requests", "batches", "sum", "errors"}
  BY DEF Counts
<1> QED
  BY <1>1 DEF Zero

LEMMA SnapKeeps == GoserveInv /\ SnapOK /\ [StatsNext]_<<vars, statsVars>> => SnapOK'
<1> SUFFICES ASSUME GoserveInv, SnapOK, [StatsNext]_<<vars, statsVars>> PROVE SnapOK'
  OBVIOUS
<1>1. CASE [Next]_vars /\ UNCHANGED statsVars
  <2>1. statBatch' >= statBatch /\ statBatchSum' >= statBatchSum
    BY <1>1, CountersGrow
  <2>2. statBatch' \in Nat /\ statBatchSum' \in Nat
    <3>1. GoserveInv'
      BY <1>1, StepKeeps
    <3> QED
      BY <3>1, Types DEF GoserveInv, FrontOK, BP!BatcherInv, BP!TypeOK
  <2>3. statBatch \in Nat /\ statBatchSum \in Nat
    BY CountersOrdered
  <2> QED
    BY <1>1, <2>1, <2>2, <2>3 DEF SnapOK, statsVars
<1>2. CASE StatsStep
  <2>1. UNCHANGED vars /\ UNCHANGED <<statBatch, statBatchSum>>
    BY <1>2 DEF StatsStep, vars, frontVars
  <2>2. CASE Ask
    BY <2>1, <2>2, ZeroIsSnap DEF Ask, SnapOK
  <2>3. CASE Load
    BY <2>1, <2>3, SnapLoad
  <2>4. CASE Encode
    BY <2>1, <2>4 DEF Encode, SnapOK
  <2> QED
    BY <1>2, <2>2, <2>3, <2>4 DEF StatsStep
<1> QED
  BY <1>1, <1>2 DEF StatsNext, statsVars

LEMMA StatsInvariant == StatsSpec => [](GoserveInv /\ SnapOK)
<1>1. StatsInit => GoserveInv /\ SnapOK
  <2> SUFFICES ASSUME StatsInit PROVE GoserveInv /\ SnapOK
    OBVIOUS
  <2>1. GoserveInv
    BY StartsRight DEF StatsInit
  <2>2. SnapOK
    BY ZeroIsSnap DEF StatsInit, SnapOK
  <2> QED
    BY <2>1, <2>2
<1>2. [StatsNext]_<<vars, statsVars>> => [Next]_vars
  BY DEF StatsNext, StatsStep
<1>3. GoserveInv /\ SnapOK /\ [StatsNext]_<<vars, statsVars>> => (GoserveInv /\ SnapOK)'
  BY <1>2, StepKeeps, SnapKeeps
<1> QED
  BY <1>1, <1>3, PTL DEF StatsSpec

(* A client never reads an average of the batch sizes that its number of     *)
(* batches contradicts by more than the batch that is being counted.         *)
THEOREM AverageNeverFarOff == StatsSpec => []AverageLags
<1>1. GoserveInv /\ SnapOK => AverageLags
  BY DEF SnapOK, AverageLags, Complete, Order
<1> QED
  BY <1>1, StatsInvariant, PTL

(* A client never reads of more requests in batches than there were.         *)
THEOREM SumNeverAhead == StatsSpec => []SumWithinRequests
<1>1. GoserveInv /\ SnapOK => SumWithinRequests
  BY DEF SnapOK, SumWithinRequests, Complete, Order
<1> QED
  BY <1>1, StatsInvariant, PTL

=============================================================================
