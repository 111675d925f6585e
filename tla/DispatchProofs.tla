---------------------------- MODULE DispatchProofs ----------------------------
(* What Dispatch guarantees for every number of goroutines, workers, engines *)
(* and GPU groups.                                                           *)
EXTENDS Dispatch, ListLemmas

-----------------------------------------------------------------------------
(* The inductive invariant. A goroutine that chooses an engine has one of    *)
(* its group in hand; the charges of an engine are its goroutines between    *)
(* Charge and Release; batches are disjoint and named by one of their own;   *)
(* and what a request was sent is what its batch came to.                    *)
Labels == {"none", "build", "group", "scan", "compare", "lock", "run",
           "release", "answer", "fail", "reply", "done"}
Calling == {"lock", "run", "release"}
Charged(e) == {d \in Req : dpc[d] \in Calling /\ ei[d] = e}

PickOK ==
    /\ dpc \in [Req -> Labels] /\ gpuSeq \in Nat
    /\ grp \in [Req -> Nat] /\ cand \in [Req -> Nat] /\ ei \in [Req -> Engine \cup {None}]
    /\ \A d \in Req :
          /\ dpc[d] \in {"scan", "compare"} => grp[d] \in DOMAIN Groups /\ cand[d] > 0
          /\ dpc[d] = "compare" => cand[d] <= Len(Groups[grp[d]])
          /\ dpc[d] \in {"scan", "compare"} \cup Calling => ei[d] \in Engine

EngineOK ==
    /\ inflight \in [Engine -> Nat] /\ owner \in [Engine -> Req \cup {None}]
    /\ \A e \in Engine : IsFiniteSet(Charged(e)) /\ inflight[e] = Cardinality(Charged(e))
    /\ \A d \in Req : dpc[d] = "run" => owner[ei[d]] = d

BatchOK ==
    /\ dbatch \in [Req -> Seq(Req)]
    /\ \A d \in Req : IF dpc[d] = "none" THEN dbatch[d] = <<>> ELSE d \in Elems(dbatch[d])
    /\ \A d, f \in Req : d # f => Elems(dbatch[d]) \cap Elems(dbatch[f]) = {}

ReplyOK ==
    /\ DOMAIN respCh = Req /\ DOMAIN rows = Req /\ DOMAIN answers = Req
    /\ next \in [Req -> Nat \ {0}]
    /\ \A r \in Req \ Spawned : respCh[r] = None
    /\ \A d \in Req : \A r \in Elems(dbatch[d]) :
          respCh[r] # None => dpc[d] \in {"reply", "done"} /\ respCh[r] = ReplyTo(d, r)

(* Replies go out in the order of the batch, each once; a call has failed if *)
(* its rows are None.                                                        *)
SentOK ==
    \A d \in Req :
        /\ \A i, j \in DOMAIN dbatch[d] : dbatch[d][i] = dbatch[d][j] => i = j
        /\ \A i \in DOMAIN dbatch[d] :
              /\ i >= next[d] => respCh[dbatch[d][i]] = None
              /\ i < next[d] => respCh[dbatch[d][i]] = ReplyTo(d, dbatch[d][i])
        /\ dpc[d] \notin {"reply", "done"} => next[d] = 1
        /\ dpc[d] = "done" => next[d] > Len(dbatch[d])
        /\ dpc[d] \in {"none", "build", "group", "scan", "compare", "lock", "run"} => rows[d] = <<>>
        /\ dpc[d] = "answer" => rows[d] # None
        /\ dpc[d] = "fail" => rows[d] = None

(* What the goroutines have added to statErr so far.                         *)
CountedOf(d) ==
    IF dpc[d] \in {"reply", "done"} /\ rows[d] = None THEN Elems(dbatch[d])
    ELSE IF dpc[d] = "done" THEN FailedIn(d) ELSE {}
Counted == UNION {CountedOf(d) : d \in Req}
CountOK == IsFiniteSet(Counted) /\ statErr = Cardinality(Counted)


-----------------------------------------------------------------------------
(* The choice of an engine *)

(* Each GPU group is a list of engines that is not empty, and the round      *)
(* robin stays within the list of groups.                                    *)
LEMMA GroupTypes ==
    /\ \A g \in DOMAIN Groups : /\ Len(Groups[g]) \in Nat \ {0}
                                /\ \A i \in 1..Len(Groups[g]) : Groups[g][i] \in Engine
    /\ \A n \in Nat : (n % Len(Groups)) + 1 \in DOMAIN Groups
<1>1. Len(Groups) \in Nat \ {0} /\ DOMAIN Groups = 1..Len(Groups)
  BY GroupAssumption, EmptySeq
<1>2. \A g \in DOMAIN Groups : Groups[g] \in Seq(Engine) /\ Groups[g] # <<>>
  BY GroupAssumption, ElementOfSeq
<1>3. \A g \in DOMAIN Groups : /\ Len(Groups[g]) \in Nat \ {0}
                               /\ \A i \in 1..Len(Groups[g]) : Groups[g][i] \in Engine
  BY <1>2, EmptySeq, ElementOfSeq
<1>4. \A k \in Nat \ {0} : \A n \in Nat : (n % k) + 1 \in 1..k
  OBVIOUS
<1> QED
  BY <1>1, <1>3, <1>4

LEMMA PickStep ==
    ASSUME PickOK, NEW d \in Req, Step(d)
    PROVE  PickOK'
<1> USE DEF PickOK, Labels, Calling
<1>1. ASSUME NEW w \in 1..BuildWorkers, BuildRequest(d, w) \/ MergeLocal(d, w) PROVE PickOK'
  BY <1>1 DEF BuildRequest, MergeLocal, Panic, pickVars
<1>2. CASE Assemble(d)
  BY <1>2 DEF Assemble, Goto, pickVars
<1>3. CASE PickGroup(d)
  <2>1. (gpuSeq % Len(Groups)) + 1 \in DOMAIN Groups
    BY GroupTypes
  <2>2. Groups[(gpuSeq % Len(Groups)) + 1][1] \in Engine
    <3>1. 1 \in 1..Len(Groups[(gpuSeq % Len(Groups)) + 1])
      BY <2>1, GroupTypes
    <3> QED
      BY <2>1, <3>1, GroupTypes
  <2>3. (gpuSeq % Len(Groups)) + 1 \in Nat
    BY <2>1, GroupAssumption
  <2> QED
    BY <1>3, <2>1, <2>2, <2>3 DEF PickGroup, Goto
<1>4. CASE LoadCandidate(d)
  BY <1>4 DEF LoadCandidate, Goto
<1>5. CASE CompareCandidate(d)
  <2>1. grp[d] \in DOMAIN Groups /\ cand[d] \in 1..Len(Groups[grp[d]])
    <3>1. grp[d] \in DOMAIN Groups /\ cand[d] \in Nat /\ cand[d] > 0 /\ cand[d] <= Len(Groups[grp[d]])
      BY <1>5 DEF CompareCandidate
    <3> QED
      BY <3>1, GroupTypes
  <2>2. Groups[grp[d]][cand[d]] \in Engine
    BY <2>1, GroupTypes
  <2> QED
    BY <1>5, <2>2 DEF CompareCandidate, Goto
<1>6. CASE Charge(d)
  BY <1>6 DEF Charge, Goto, pickVars
<1>7. CASE Lock(d)
  BY <1>7 DEF Lock, Goto, pickVars
<1>8. CASE RunOk(d) \/ RunFails(d)
  BY <1>8 DEF RunOk, RunFails, Unlock, Goto, pickVars
<1>9. CASE Release(d)
  BY <1>9 DEF Release, Goto, pickVars
<1>10. CASE Answer(d)
  BY <1>10 DEF Answer, Panic, Goto, pickVars
<1>11. CASE CountFailedCall(d) \/ Send(d) \/ Finish(d)
  BY <1>11 DEF CountFailedCall, Send, Finish, Goto, pickVars
<1> QED
  BY <1>1, <1>2, <1>3, <1>4, <1>5, <1>6, <1>7, <1>8, <1>9, <1>10, <1>11 DEF Step

-----------------------------------------------------------------------------
(* The calls to the engines *)

(* A step that neither charges, locks, unlocks nor releases.                 *)
LEMMA EngineSame ==
    ASSUME EngineOK, inflight' = inflight, owner' = owner,
           \A f \in Req : /\ dpc'[f] \in Calling <=> dpc[f] \in Calling
                          /\ dpc[f] \in Calling => ei'[f] = ei[f]
                          /\ dpc'[f] = "run" => dpc[f] = "run"
    PROVE  EngineOK'
<1>1. \A e \in Engine : Charged(e)' = Charged(e)
  BY DEF Charged
<1> QED
  BY <1>1 DEF EngineOK, Calling

LEMMA EngineStep ==
    ASSUME PickOK, EngineOK, NEW d \in Req, Step(d)
    PROVE  EngineOK'
<1> USE DEF PickOK, Calling
<1>1. ASSUME NEW w \in 1..BuildWorkers, BuildRequest(d, w) \/ MergeLocal(d, w) PROVE EngineOK'
  BY <1>1, EngineSame DEF BuildRequest, MergeLocal, Panic, pickVars, runVars
<1>2. CASE Assemble(d)
  BY <1>2, EngineSame DEF Assemble, Goto, pickVars, runVars
<1>3. CASE PickGroup(d)
  BY <1>3, EngineSame DEF PickGroup, Goto, runVars
<1>4. CASE LoadCandidate(d)
  BY <1>4, EngineSame DEF LoadCandidate, Goto, runVars
<1>5. CASE CompareCandidate(d)
  BY <1>5, EngineSame DEF CompareCandidate, Goto, runVars
<1>6. CASE Charge(d)
  <2>0. PICK e0 \in Engine : e0 = ei[d]
    BY <1>6 DEF Charge
  <2>1. /\ Charged(e0)' = Charged(e0) \cup {d} /\ d \notin Charged(e0)
        /\ \A e \in Engine \ {e0} : Charged(e)' = Charged(e)
    BY <1>6, <2>0 DEF Charge, Goto, Charged, pickVars
  <2>2. /\ inflight' \in [Engine -> Nat] /\ owner' = owner
        /\ inflight'[e0] = inflight[e0] + 1
        /\ \A e \in Engine \ {e0} : inflight'[e] = inflight[e]
    BY <1>6, <2>0 DEF Charge, EngineOK
  <2>3. IsFiniteSet(Charged(e0)') /\ inflight'[e0] = Cardinality(Charged(e0)')
    <3>1. IsFiniteSet(Charged(e0)) /\ inflight[e0] = Cardinality(Charged(e0))
      BY DEF EngineOK
    <3>2. /\ IsFiniteSet(Charged(e0) \cup {d})
          /\ Cardinality(Charged(e0) \cup {d}) = Cardinality(Charged(e0)) + 1
      BY <2>1, <3>1, FS_AddElement
    <3> QED
      BY <2>1, <2>2, <3>1, <3>2
  <2>4. \A f \in Req : dpc'[f] = "run" => dpc[f] = "run" /\ ei'[f] = ei[f]
    BY <1>6 DEF Charge, Goto, pickVars
  <2>5. \A e \in Engine : IsFiniteSet(Charged(e)') /\ inflight'[e] = Cardinality(Charged(e)')
    BY <2>1, <2>2, <2>3 DEF EngineOK
  <2> QED
    BY <2>2, <2>4, <2>5 DEF EngineOK
<1>7. CASE Lock(d)
  <2>1. \A e \in Engine : Charged(e)' = Charged(e)
    BY <1>7 DEF Lock, Goto, Charged, pickVars
  <2>2. \A f \in Req : dpc'[f] = "run" => owner'[ei'[f]] = f
    BY <1>7, NoneAssumption DEF Lock, Goto, EngineOK, pickVars
  <2> QED
    BY <1>7, <2>1, <2>2 DEF Lock, EngineOK
<1>8. CASE RunOk(d) \/ RunFails(d)
  <2>1. PICK res : Unlock(d, res)
    BY <1>8 DEF RunOk, RunFails
  <2>2. \A e \in Engine : Charged(e)' = Charged(e)
    BY <2>1 DEF Unlock, Goto, Charged, pickVars
  <2>3. \A f \in Req : dpc'[f] = "run" => owner'[ei'[f]] = f
    BY <2>1 DEF Unlock, Goto, EngineOK, pickVars
  <2> QED
    BY <2>1, <2>2, <2>3 DEF Unlock, EngineOK
<1>9. CASE Release(d)
  <2>0. PICK e0 \in Engine : e0 = ei[d]
    BY <1>9 DEF Release
  <2>1. /\ Charged(e0)' = Charged(e0) \ {d} /\ d \in Charged(e0)
        /\ \A e \in Engine \ {e0} : Charged(e)' = Charged(e)
    BY <1>9, <2>0 DEF Release, Goto, Charged, pickVars
  <2>2. IsFiniteSet(Charged(e0)) /\ inflight[e0] = Cardinality(Charged(e0))
    BY DEF EngineOK
  <2>3. /\ IsFiniteSet(Charged(e0)')
        /\ Cardinality(Charged(e0)') = inflight[e0] - 1 /\ inflight[e0] - 1 \in Nat
    <3>1. /\ IsFiniteSet(Charged(e0) \ {d})
          /\ Cardinality(Charged(e0) \ {d}) = Cardinality(Charged(e0)) - 1
      BY <2>1, <2>2, FS_RemoveElement
    <3>2. Cardinality(Charged(e0) \ {d}) \in Nat
      BY <3>1, FS_CardinalityType
    <3> QED
      BY <2>1, <2>2, <3>1, <3>2
  <2>4. /\ inflight' \in [Engine -> Nat] /\ owner' = owner
        /\ inflight'[e0] = inflight[e0] - 1
        /\ \A e \in Engine \ {e0} : inflight'[e] = inflight[e]
    BY <1>9, <2>0, <2>3 DEF Release, EngineOK
  <2>5. \A f \in Req : dpc'[f] = "run" => dpc[f] = "run" /\ ei'[f] = ei[f]
    BY <1>9 DEF Release, Goto, pickVars
  <2>6. \A e \in Engine : IsFiniteSet(Charged(e)') /\ inflight'[e] = Cardinality(Charged(e)')
    BY <2>1, <2>3, <2>4 DEF EngineOK
  <2> QED
    BY <2>4, <2>5, <2>6 DEF EngineOK
<1>10. CASE Answer(d)
  BY <1>10, EngineSame DEF Answer, Panic, Goto, pickVars, runVars
<1>11. CASE CountFailedCall(d) \/ Send(d) \/ Finish(d)
  BY <1>11, EngineSame DEF CountFailedCall, Send, Finish, Goto, pickVars, runVars
<1> QED
  BY <1>1, <1>2, <1>3, <1>4, <1>5, <1>6, <1>7, <1>8, <1>9, <1>10, <1>11 DEF Step

-----------------------------------------------------------------------------
(* The batches and the replies *)

(* A goroutine keeps its batch and its name.                                 *)
LEMMA BatchStep ==
    ASSUME PickOK, BatchOK, NEW d \in Req, Step(d)
    PROVE  BatchOK' /\ dbatch' = dbatch
<1>1. dbatch' = dbatch
  BY DEF Step, BuildRequest, MergeLocal, Panic, Assemble, PickGroup, LoadCandidate,
         CompareCandidate, Charge, Lock, RunOk, RunFails, Unlock, Release, Answer,
         CountFailedCall, Send, Finish, buildVars
<1>2. \A f \in Req : dpc'[f] = "none" <=> dpc[f] = "none"
  BY DEF PickOK, Step, BuildRequest, MergeLocal, Panic, Assemble, PickGroup, LoadCandidate,
         CompareCandidate, Charge, Lock, RunOk, RunFails, Unlock, Release, Answer,
         CountFailedCall, Send, Finish, Goto
<1> QED
  BY <1>1, <1>2 DEF BatchOK

(* A request that was sent its reply is in a batch that is being replied to. *)
LEMMA ReplySame ==
    ASSUME BatchOK, ReplyOK, respCh' = respCh, dbatch' = dbatch, NEW d \in Req,
           DOMAIN rows' = Req, DOMAIN answers' = Req, next' \in [Req -> Nat \ {0}],
           \A f \in Req \ {d} : dpc'[f] = dpc[f] /\ rows'[f] = rows[f] /\ answers'[f] = answers[f],
           \/ dpc[d] \notin {"reply", "done"}
           \/ dpc'[d] \in {"reply", "done"} /\ rows'[d] = rows[d] /\ answers'[d] = answers[d]
    PROVE  ReplyOK'
<1>1. Spawned' = Spawned
  BY DEF Spawned
<1>2. ASSUME NEW f \in Req, NEW r \in Elems(dbatch[f]), respCh[r] # None
      PROVE  dpc'[f] \in {"reply", "done"} /\ respCh[r] = ReplyTo(f, r)'
  <2>1. dpc[f] \in {"reply", "done"} /\ respCh[r] = ReplyTo(f, r)
    BY <1>2 DEF ReplyOK
  <2>2. dpc'[f] \in {"reply", "done"} /\ rows'[f] = rows[f] /\ answers'[f] = answers[f]
    BY <2>1
  <2> QED
    BY <2>1, <2>2 DEF ReplyTo
<1> QED
  BY <1>1, <1>2 DEF ReplyOK

LEMMA ReplyStep ==
    ASSUME PickOK, BatchOK, ReplyOK, NEW d \in Req, Step(d)
    PROVE  ReplyOK'
<1>0. dbatch' = dbatch
  BY BatchStep
<1>d. DOMAIN rows = Req /\ DOMAIN answers = Req /\ next \in [Req -> Nat \ {0}]
  BY DEF ReplyOK
<1>1. ASSUME NEW w \in 1..BuildWorkers, BuildRequest(d, w) \/ MergeLocal(d, w) PROVE ReplyOK'
  BY <1>0, <1>1, <1>d, ReplySame DEF BuildRequest, MergeLocal, Panic, runVars, replyVars
<1>2. CASE Assemble(d)
  BY <1>0, <1>2, <1>d, ReplySame DEF Assemble, Goto, PickOK, runVars
<1>3. CASE PickGroup(d) \/ LoadCandidate(d) \/ CompareCandidate(d)
  BY <1>0, <1>3, <1>d, ReplySame
     DEF PickGroup, LoadCandidate, CompareCandidate, Goto, PickOK, runVars, replyVars
<1>4. CASE Charge(d) \/ Lock(d) \/ Release(d)
  BY <1>0, <1>4, <1>d, ReplySame DEF Charge, Lock, Release, Goto, PickOK, replyVars
<1>5. CASE RunOk(d) \/ RunFails(d)
  <2>1. PICK res : Unlock(d, res)
    BY <1>5 DEF RunOk, RunFails
  <2> QED
    BY <1>0, <2>1, <1>d, ReplySame DEF Unlock, Goto, PickOK, replyVars
<1>6. CASE Answer(d)
  <2>1. CASE UNCHANGED <<dpc, runVars, replyVars>>
    BY <1>0, <1>6, <2>1, <1>d, ReplySame DEF Answer, runVars, replyVars
  <2>2. CASE ~UNCHANGED <<dpc, runVars, replyVars>>
    <3>1. PICK a : answers' = [answers EXCEPT ![d] = a]
      BY <1>6, <2>2 DEF Answer, Panic, runVars, replyVars
    <3> QED
      BY <1>0, <1>6, <2>2, <3>1, <1>d, ReplySame DEF Answer, Panic, Goto, PickOK, runVars, replyVars
  <2> QED
    BY <2>1, <2>2
<1>7. CASE CountFailedCall(d) \/ Finish(d)
  BY <1>0, <1>7, <1>d, ReplySame DEF CountFailedCall, Finish, Goto, PickOK, runVars
<1>8. CASE Send(d)
  <2>1. PICK r \in Elems(dbatch[d]) :
           respCh' = [respCh EXCEPT ![r] = ReplyTo(d, r)]
    <3>1. next[d] \in DOMAIN dbatch[d]
      BY <1>8, <1>d DEF Send, BatchOK
    <3> QED
      BY <1>8, <3>1 DEF Send, Elems
  <2>2. r \in Req /\ r \in Spawned
    BY <2>1, ElemsType DEF BatchOK, Spawned
  <2>3. /\ dpc' = dpc /\ rows' = rows /\ answers' = answers /\ dpc[d] = "reply"
        /\ next' \in [Req -> Nat \ {0}]
    BY <1>8, <1>d DEF Send, runVars
  <2>4. Spawned' = Spawned
    BY <1>0 DEF Spawned
  <2>5. /\ DOMAIN respCh' = Req /\ respCh'[r] = ReplyTo(d, r)
        /\ \A s \in Req \ {r} : respCh'[s] = respCh[s]
    BY <2>1, <2>2 DEF ReplyOK
  <2>6. \A f, s : ReplyTo(f, s)' = ReplyTo(f, s)
    BY <2>3 DEF ReplyTo
  <2>7. ASSUME NEW f \in Req, NEW s \in Elems(dbatch[f]), respCh'[s] # None
        PROVE  dpc'[f] \in {"reply", "done"} /\ respCh'[s] = ReplyTo(f, s)'
    <3>1. CASE s = r
      <4>1. f = d
        BY <2>1, <2>7, <3>1 DEF BatchOK
      <4> QED
        BY <4>1, <3>1, <2>3, <2>5, <2>6
    <3>2. CASE s # r
      <4>1. s \in Req
        BY ElemsType DEF BatchOK
      <4> QED
        BY <4>1, <3>2, <2>3, <2>5, <2>6, <2>7 DEF ReplyOK
    <3> QED
      BY <3>1, <3>2
  <2> QED
    BY <1>0, <1>d, <2>2, <2>3, <2>4, <2>5, <2>7 DEF ReplyOK
<1> QED
  BY <1>1, <1>2, <1>3, <1>4, <1>5, <1>6, <1>7, <1>8 DEF Step

-----------------------------------------------------------------------------
(* The order of the replies and the count of errors *)

(* A step that sends nothing.                                                *)
LEMMA SentSame ==
    ASSUME BatchOK, SentOK, respCh' = respCh, dbatch' = dbatch, next' = next, NEW d \in Req,
           \A f \in Req \ {d} : dpc'[f] = dpc[f] /\ rows'[f] = rows[f] /\ answers'[f] = answers[f],
           \/ dpc[d] \notin {"reply", "done"}
           \/ rows'[d] = rows[d] /\ answers'[d] = answers[d] /\ dpc'[d] \in {"reply", "done"},
           dpc'[d] = "done" => dpc[d] = "done" \/ next[d] > Len(dbatch[d]),
           dpc'[d] \in {"none", "build", "group", "scan", "compare", "lock", "run"} => rows'[d] = <<>>,
           dpc'[d] = "answer" => rows'[d] # None,
           dpc'[d] = "fail" => rows'[d] = None
    PROVE  SentOK'
<1>1. ASSUME NEW f \in Req, NEW i \in DOMAIN dbatch[f]
      PROVE  i < next[f] => respCh[dbatch[f][i]] = ReplyTo(f, dbatch[f][i])'
  <2>1. i < next[f] => respCh[dbatch[f][i]] = ReplyTo(f, dbatch[f][i])
    BY DEF SentOK
  <2>2. CASE rows'[f] = rows[f] /\ answers'[f] = answers[f]
    BY <2>1, <2>2 DEF ReplyTo
  <2>3. CASE next[f] = 1
    <3>1. i \in Nat /\ i >= 1
      BY DEF BatchOK
    <3> QED
      BY <2>3, <3>1
  <2> QED
    BY <2>2, <2>3 DEF SentOK
<1>2. ASSUME NEW f \in Req
      PROVE  /\ dpc'[f] \notin {"reply", "done"} => next[f] = 1
             /\ dpc'[f] = "done" => next[f] > Len(dbatch[f])
             /\ dpc'[f] \in {"none", "build", "group", "scan", "compare", "lock", "run"}
                    => rows'[f] = <<>>
             /\ dpc'[f] = "answer" => rows'[f] # None
             /\ dpc'[f] = "fail" => rows'[f] = None
  BY DEF SentOK
<1> QED
  BY <1>1, <1>2 DEF SentOK

LEMMA SentStep ==
    ASSUME PickOK, BatchOK, ReplyOK, SentOK, NEW d \in Req, Step(d)
    PROVE  SentOK'
<1>0. dbatch' = dbatch
  BY BatchStep
<1>d. DOMAIN rows = Req /\ DOMAIN answers = Req /\ next \in [Req -> Nat \ {0}]
  BY DEF ReplyOK
<1>s. /\ dpc[d] \in {"none", "build", "group", "scan", "compare", "lock", "run"} => rows[d] = <<>>
      /\ dpc[d] = "answer" => rows[d] # None
      /\ dpc[d] = "fail" => rows[d] = None
      /\ dpc[d] = "done" => next[d] > Len(dbatch[d])
  BY DEF SentOK
<1>1. ASSUME NEW w \in 1..BuildWorkers, BuildRequest(d, w) \/ MergeLocal(d, w) PROVE SentOK'
  <2>1. UNCHANGED <<dpc, rows, answers, next, respCh>>
    BY <1>1 DEF BuildRequest, MergeLocal, Panic, runVars, replyVars
  <2> QED
    BY <1>0, <1>s, <2>1, SentSame DEF PickOK, Labels
<1>2. CASE Assemble(d)
  BY <1>0, <1>2, <1>d, <1>s, SentSame DEF Assemble, Goto, PickOK, runVars
<1>3. CASE PickGroup(d) \/ LoadCandidate(d) \/ CompareCandidate(d)
  BY <1>0, <1>3, <1>d, <1>s, SentSame
     DEF PickGroup, LoadCandidate, CompareCandidate, Goto, PickOK, runVars, replyVars
<1>4. CASE Charge(d) \/ Lock(d) \/ Release(d)
  BY <1>0, <1>4, <1>d, <1>s, SentSame DEF Charge, Lock, Release, Goto, PickOK, replyVars
<1>5. CASE RunOk(d) \/ RunFails(d)
  <2>1. PICK res : Unlock(d, res)
    BY <1>5 DEF RunOk, RunFails
  <2> QED
    BY <1>0, <2>1, <1>d, SentSame DEF Unlock, Goto, PickOK, replyVars
<1>6. CASE Answer(d)
  <2>1. CASE Panic
    <3>1. UNCHANGED <<dpc, rows, answers, next, respCh>>
      BY <2>1 DEF Panic, runVars, replyVars
    <3> QED
      BY <1>0, <1>6, <1>s, <3>1, SentSame DEF Answer
  <2>2. CASE ~Panic
    <3>1. PICK a : answers' = [answers EXCEPT ![d] = a]
      BY <1>6, <2>2 DEF Answer
    <3> QED
      BY <1>0, <1>6, <2>2, <3>1, <1>d, SentSame DEF Answer, Goto, PickOK, runVars
  <2> QED
    BY <2>1, <2>2
<1>7. CASE CountFailedCall(d) \/ Finish(d)
  BY <1>0, <1>7, <1>d, <1>s, SentSame DEF CountFailedCall, Finish, Goto, PickOK, runVars, BatchOK
<1>8. CASE Send(d)
  <2> DEFINE n == next[d]
             r == dbatch[d][n]
  <2>1. /\ dpc' = dpc /\ rows' = rows /\ answers' = answers /\ dpc[d] = "reply"
        /\ n \in DOMAIN dbatch[d] /\ n \in Nat /\ n <= Len(dbatch[d])
        /\ next' = [next EXCEPT ![d] = n + 1]
        /\ respCh' = [respCh EXCEPT ![r] = ReplyTo(d, r)]
    BY <1>8, <1>d DEF Send, runVars, BatchOK
  <2>2. r \in Elems(dbatch[d]) /\ r \in Req
    BY <2>1, ElemsType DEF Elems, BatchOK
  <2>3. /\ respCh'[r] = ReplyTo(d, r)
        /\ \A s \in Req \ {r} : respCh'[s] = respCh[s]
    BY <2>1, <2>2 DEF ReplyOK
  <2>4. \A f, s : ReplyTo(f, s)' = ReplyTo(f, s)
    BY <2>1 DEF ReplyTo
  <2> HIDE DEF r, n
  <2>5. ASSUME NEW f \in Req, NEW i \in DOMAIN dbatch[f]
        PROVE  /\ i >= next'[f] => respCh'[dbatch[f][i]] = None
               /\ i < next'[f] => respCh'[dbatch[f][i]] = ReplyTo(f, dbatch[f][i])
    <3>0. /\ i \in Nat /\ dbatch[f][i] \in Elems(dbatch[f]) /\ dbatch[f][i] \in Req
          /\ i >= next[f] => respCh[dbatch[f][i]] = None
          /\ i < next[f] => respCh[dbatch[f][i]] = ReplyTo(f, dbatch[f][i])
      BY ElemsType DEF Elems, BatchOK, SentOK
    <3>1. CASE f # d
      <4>1. dbatch[f][i] # r
        BY <2>2, <3>0, <3>1 DEF BatchOK
      <4>2. next'[f] = next[f]
        BY <1>d, <2>1, <3>1
      <4> QED
        BY <2>3, <3>0, <4>1, <4>2
    <3>2. CASE f = d /\ i = n
      <4>1. dbatch[f][i] = r /\ next'[f] = i + 1
        BY <1>d, <2>1, <3>2 DEF r
      <4> QED
        BY <2>3, <3>0, <3>2, <4>1
    <3>3. CASE f = d /\ i # n
      <4>1. dbatch[f][i] # r
        BY <2>1, <3>3 DEF SentOK, r
      <4>2. next[f] = n /\ next'[f] = n + 1
        BY <1>d, <2>1, <3>3 DEF n
      <4>3. (i >= n + 1 => i >= n) /\ (i < n + 1 => i < n)
        BY <2>1, <3>0, <3>3
      <4> QED
        BY <2>3, <3>0, <4>1, <4>2, <4>3
    <3> QED
      BY <3>1, <3>2, <3>3
  <2>6. \A f \in Req \ {d} : next'[f] = next[f]
    BY <1>d, <2>1
  <2> QED
    BY <1>0, <2>1, <2>4, <2>5, <2>6 DEF SentOK
<1> QED
  BY <1>1, <1>2, <1>3, <1>4, <1>5, <1>6, <1>7, <1>8 DEF Step

LEMMA CountedWithin == \A d : CountedOf(d) \subseteq Elems(dbatch[d])
  BY DEF CountedOf, FailedIn

LEMMA CountSame ==
    ASSUME CountOK, statErr' = statErr, \A f \in Req : CountedOf(f)' = CountedOf(f)
    PROVE  CountOK'
<1>1. Counted' = Counted
  BY DEF Counted
<1> QED
  BY <1>1 DEF CountOK

(* A goroutine counts requests that nobody has counted yet.                  *)
LEMMA CountMore ==
    ASSUME BatchOK, SentOK, CountOK, NEW d \in Req, NEW X \in SUBSET Elems(dbatch[d]),
           CountedOf(d) = {}, CountedOf(d)' = X, statErr' = statErr + Cardinality(X),
           \A f \in Req \ {d} : CountedOf(f)' = CountedOf(f)
    PROVE  CountOK'
<1>1. IsFiniteSet(X)
  <2>1. IsFiniteSet(Elems(dbatch[d]))
    BY DistinctElems DEF BatchOK, SentOK
  <2> QED
    BY <2>1, FS_Subset
<1>2. Counted' = Counted \cup X
  <2>1. \A f \in Req : CountedOf(f)' = IF f = d THEN X ELSE CountedOf(f)
    OBVIOUS
  <2> QED
    BY <2>1 DEF Counted
<1>3. Counted \cap X = {}
  <2>1. ASSUME NEW f \in Req, NEW x \in CountedOf(f), x \in X PROVE FALSE
    <3>1. x \in Elems(dbatch[f]) /\ x \in Elems(dbatch[d])
      BY <2>1, CountedWithin
    <3>2. f # d
      BY <2>1
    <3> QED
      BY <3>1, <3>2 DEF BatchOK
  <2> QED
    BY <2>1 DEF Counted
<1>4. /\ IsFiniteSet(Counted \cup X)
      /\ Cardinality(Counted \cup X) = Cardinality(Counted) + Cardinality(X)
  <2>1. IsFiniteSet(Counted) /\ Cardinality(Counted \cap X) = 0
    BY <1>3, FS_EmptySet DEF CountOK
  <2>2. Cardinality(Counted) \in Nat /\ Cardinality(X) \in Nat
    BY <1>1, <2>1, FS_CardinalityType
  <2>3. /\ IsFiniteSet(Counted \cup X)
        /\ Cardinality(Counted \cup X)
              = Cardinality(Counted) + Cardinality(X) - Cardinality(Counted \cap X)
    BY <1>1, <2>1, FS_Union
  <2> QED
    BY <2>1, <2>2, <2>3
<1> QED
  BY <1>2, <1>4 DEF CountOK

LEMMA CountStep ==
    ASSUME PickOK, BatchOK, ReplyOK, SentOK, CountOK, NEW d \in Req, Step(d)
    PROVE  CountOK'
<1>0. dbatch' = dbatch
  BY BatchStep
<1>d. DOMAIN rows = Req /\ DOMAIN answers = Req
  BY DEF ReplyOK
<1>1. CASE UNCHANGED <<dpc, rows, answers, statErr>>
  BY <1>0, <1>1, CountSame DEF CountedOf, FailedIn
<1>2. CASE Assemble(d)
  <2>1. rows' = rows /\ rows[d] # None /\ statErr' = statErr
    BY <1>2, NilAssumption DEF Assemble, SentOK, runVars
  <2> QED
    BY <1>0, <1>2, <1>d, <2>1, CountSame DEF Assemble, Goto, PickOK, CountedOf, FailedIn
<1>3. CASE PickGroup(d) \/ LoadCandidate(d) \/ CompareCandidate(d)
  <2>1. /\ dpc[d] \notin {"reply", "done"} /\ dpc'[d] \notin {"reply", "done"}
        /\ \A f \in Req \ {d} : dpc'[f] = dpc[f]
        /\ rows' = rows /\ answers' = answers /\ statErr' = statErr
    BY <1>3 DEF PickGroup, LoadCandidate, CompareCandidate, Goto, PickOK, runVars, replyVars
  <2> QED
    BY <1>0, <2>1, CountSame DEF CountedOf, FailedIn
<1>4. CASE Charge(d) \/ Lock(d) \/ Release(d)
  BY <1>0, <1>4, CountSame, ZenonT(20) DEF Charge, Lock, Release, Goto, PickOK, CountedOf, FailedIn, replyVars
<1>5. CASE RunOk(d) \/ RunFails(d)
  <2>1. PICK res : Unlock(d, res)
    BY <1>5 DEF RunOk, RunFails
  <2> QED
    BY <1>0, <1>d, <2>1, CountSame DEF Unlock, Goto, PickOK, CountedOf, FailedIn, replyVars
<1>6. CASE Answer(d) /\ ~Panic
  <2>1. PICK a : answers' = [answers EXCEPT ![d] = a]
    BY <1>6 DEF Answer
  <2>2. rows' = rows /\ rows[d] # None /\ statErr' = statErr
    BY <1>6 DEF Answer, SentOK, runVars
  <2> QED
    BY <1>0, <1>6, <1>d, <2>1, <2>2, CountSame DEF Answer, Goto, PickOK, CountedOf, FailedIn
<1>7. CASE CountFailedCall(d)
  <2>1. /\ dpc[d] = "fail" /\ dpc' = [dpc EXCEPT ![d] = "reply"] /\ rows' = rows /\ rows[d] = None
        /\ answers' = answers /\ statErr' = statErr + Len(dbatch[d])
    BY <1>7 DEF CountFailedCall, Goto, SentOK, runVars
  <2>2. Cardinality(Elems(dbatch[d])) = Len(dbatch[d])
    BY DistinctElems DEF BatchOK, SentOK
  <2>3. CountedOf(d) = {} /\ CountedOf(d)' = Elems(dbatch[d])
    BY <1>0, <2>1 DEF CountedOf, PickOK
  <2>4. \A f \in Req \ {d} : CountedOf(f)' = CountedOf(f)
    BY <1>0, <2>1 DEF CountedOf, FailedIn, PickOK
  <2> QED
    BY <2>1, <2>2, <2>3, <2>4, CountMore
<1>8. CASE Finish(d)
  <2>1. /\ dpc[d] = "reply" /\ dpc' = [dpc EXCEPT ![d] = "done"] /\ rows' = rows /\ answers' = answers
        /\ statErr' = statErr + (IF rows[d] = None THEN 0 ELSE Cardinality(FailedIn(d)))
    BY <1>8 DEF Finish, Goto, runVars
  <2>2. \A f \in Req \ {d} : CountedOf(f)' = CountedOf(f)
    BY <1>0, <2>1 DEF CountedOf, FailedIn, PickOK
  <2>3. CASE rows[d] = None
    <3>1. CountedOf(d)' = CountedOf(d)
      BY <1>0, <2>1, <2>3 DEF CountedOf, PickOK
    <3>2. statErr' = statErr
      BY <2>1, <2>3, FS_CardinalityType DEF CountOK
    <3> QED
      BY <2>2, <3>1, <3>2, CountSame
  <2>4. CASE rows[d] # None
    <3>1. CountedOf(d) = {} /\ CountedOf(d)' = FailedIn(d)
      BY <1>0, <2>1, <2>4 DEF CountedOf, FailedIn, PickOK
    <3>2. FailedIn(d) \in SUBSET Elems(dbatch[d])
      BY DEF FailedIn
    <3> QED
      BY <2>1, <2>2, <2>4, <3>1, <3>2, CountMore
  <2> QED
    BY <2>3, <2>4
<1>9. CASE Send(d)
  BY <1>1, <1>9 DEF Send, runVars
<1>10. ASSUME NEW w \in 1..BuildWorkers, BuildRequest(d, w) \/ MergeLocal(d, w) PROVE CountOK'
  BY <1>1, <1>10 DEF BuildRequest, MergeLocal, Panic, runVars, replyVars
<1>11. CASE Answer(d) /\ Panic
  BY <1>1, <1>11 DEF Panic, runVars, replyVars
<1> QED
  BY <1>2, <1>3, <1>4, <1>5, <1>6, <1>7, <1>8, <1>9, <1>10, <1>11 DEF Step

-----------------------------------------------------------------------------
(* The items of the engine batch *)

(* What a worker makes of a question.                                        *)
Entry == [req : Req, q : Question, it : BOOLEAN]
ItemOf(e) == <<e.req, e.q>>

(* The loop over built is well defined: valid[n] is what it has after n steps.*)
LEMMA PrefixesDefined ==
    ASSUME NEW bs \in Seq(Entry)
    PROVE  ValidPrefixes(bs) = [n \in 0..Len(bs) |->
              IF n = 0 THEN <<>>
              ELSE IF bs[n].it THEN Append(ValidPrefixes(bs)[n - 1], ItemOf(bs[n]))
              ELSE ValidPrefixes(bs)[n - 1]]
<1> DEFINE Loop(f, n) == IF n = 0 THEN <<>>
                         ELSE IF bs[n].it THEN Append(f[n - 1], ItemOf(bs[n])) ELSE f[n - 1]
           IsLoop(f, m) == f = [n \in 0..m |-> Loop(f, n)]
           S == {m \in Nat : \E f : IsLoop(f, m)}
<1>1. 0 \in S
  <2> DEFINE f == [n \in 0..0 |-> <<>>]
  <2>1. IsLoop(f, 0)
    OBVIOUS
  <2> QED
    BY <2>1
<1>2. ASSUME NEW m \in Nat, m \in S PROVE m + 1 \in S
  <2>1. PICK f : IsLoop(f, m)
    BY <1>2
  <2> DEFINE g == [n \in 0..(m + 1) |-> IF n <= m THEN f[n] ELSE Loop(f, n)]
  <2>2. ASSUME NEW n \in 0..(m + 1) PROVE g[n] = Loop(g, n)
    <3>1. CASE n = 0
      <4>1. f[0] = <<>> /\ g[0] = f[0]
        BY <2>1
      <4> QED
        BY <3>1, <4>1
    <3>2. CASE n # 0
      <4>1. n - 1 \in 0..m
        BY <3>2
      <4>2. g[n - 1] = f[n - 1]
        BY <4>1
      <4>3. Loop(g, n) = Loop(f, n)
        BY <3>2, <4>2
      <4>4. CASE n <= m
        <5>1. n \in 0..m /\ g[n] = f[n]
          BY <4>4
        <5>2. f[n] = Loop(f, n)
          BY <2>1, <5>1
        <5> QED
          BY <4>3, <5>1, <5>2
      <4>5. CASE ~(n <= m)
        <5>1. g[n] = Loop(f, n)
          BY <4>5
        <5> QED
          BY <4>3, <5>1
      <4> QED
        BY <4>4, <4>5
    <3> QED
      BY <3>1, <3>2
  <2> HIDE DEF Loop
  <2>3. IsLoop(g, m + 1)
    BY <2>2
  <2> HIDE DEF IsLoop
  <2> QED
    BY <2>3
<1>3. Len(bs) \in S
  <2> HIDE DEF S
  <2> QED
    BY <1>1, <1>2, NumbersInSet, LenProperties
<1>4. PICK f : IsLoop(f, Len(bs))
  BY <1>3
<1>5. ValidPrefixes(bs) = CHOOSE h : IsLoop(h, Len(bs))
  BY DEF ValidPrefixes, ItemOf
<1>6. IsLoop(ValidPrefixes(bs), Len(bs))
  <2> HIDE DEF IsLoop
  <2> QED
    BY <1>4, <1>5
<1> QED
  BY <1>6

(* After n steps valid is a sequence of items, one for each of the first n   *)
(* entries that were built without an error, at the place b.vi.              *)
LEMMA PrefixesHold ==
    ASSUME NEW bs \in Seq(Entry), NEW n \in 0..Len(bs)
    PROVE  /\ ValidPrefixes(bs)[n] \in Seq(Item)
           /\ Len(ValidPrefixes(bs)[n]) = ValidIndex(bs, n + 1)
           /\ \A i \in 1..n : bs[i].it =>
                 /\ ValidIndex(bs, i) + 1 \in 1..Len(ValidPrefixes(bs)[n])
                 /\ ValidPrefixes(bs)[n][ValidIndex(bs, i) + 1] = ItemOf(bs[i])
<1> DEFINE v == ValidPrefixes(bs)
           Built(k) == {j \in 1..(k - 1) : bs[j].it}
           Good(m) == /\ v[m] \in Seq(Item)
                      /\ Len(v[m]) = ValidIndex(bs, m + 1)
                      /\ \A i \in 1..m : bs[i].it =>
                            /\ ValidIndex(bs, i) + 1 \in 1..Len(v[m])
                            /\ v[m][ValidIndex(bs, i) + 1] = ItemOf(bs[i])
           S == {m \in Nat : m <= Len(bs) => Good(m)}
<1>a. \A k : ValidIndex(bs, k) = Cardinality(Built(k))
  BY DEF ValidIndex
<1>b. ASSUME NEW k \in Nat, k <= Len(bs) + 1 PROVE IsFiniteSet(Built(k)) /\ Cardinality(Built(k)) \in Nat
  <2>1. IsFiniteSet(1..(k - 1)) /\ Built(k) \subseteq 1..(k - 1)
    BY FS_Interval
  <2> QED
    BY <2>1, FS_Subset, FS_CardinalityType
<1>c. Len(bs) \in Nat /\ \A i \in 1..Len(bs) : bs[i] \in Entry
  BY ElementOfSeq, LenProperties
<1>d. v = [m \in 0..Len(bs) |-> IF m = 0 THEN <<>>
              ELSE IF bs[m].it THEN Append(v[m - 1], ItemOf(bs[m])) ELSE v[m - 1]]
  BY PrefixesDefined
<1> HIDE DEF v
<1>1. 0 \in S
  <2>1. v[0] = <<>>
    BY <1>c, <1>d
  <2>2. Built(0 + 1) = {}
    OBVIOUS
  <2>3. ValidIndex(bs, 0 + 1) = 0
    BY <1>a, <2>2, FS_EmptySet
  <2>4. <<>> \in Seq(Item) /\ Len(<<>>) = 0 /\ 1..0 = {}
    OBVIOUS
  <2>5. Good(0)
    BY <2>1, <2>3, <2>4
  <2> HIDE DEF Good
  <2> QED
    BY <2>5
<1>2. ASSUME NEW m \in Nat, m \in S PROVE m + 1 \in S
  <2>1. SUFFICES ASSUME m + 1 <= Len(bs) PROVE Good(m + 1)
    OBVIOUS
  <2>2. Good(m) /\ m + 1 \in 0..Len(bs) /\ m + 1 \in 1..Len(bs)
    BY <1>2, <1>c, <2>1
  <2>3. v[m + 1] = IF bs[m + 1].it THEN Append(v[m], ItemOf(bs[m + 1])) ELSE v[m]
    <3>1. m + 1 # 0 /\ (m + 1) - 1 = m
      OBVIOUS
    <3>2. v[m + 1] = IF m + 1 = 0 THEN <<>>
                     ELSE IF bs[m + 1].it THEN Append(v[(m + 1) - 1], ItemOf(bs[m + 1]))
                     ELSE v[(m + 1) - 1]
      <4> HIDE DEF ItemOf
      <4> QED
        BY <1>d, <2>2
    <3> QED
      BY <3>1, <3>2
  <2>4. ItemOf(bs[m + 1]) \in Item
    BY <1>c, <2>2 DEF ItemOf, Entry, Item
  <2>5. CASE bs[m + 1].it
    <3>1. Built(m + 1 + 1) = Built(m + 1) \cup {m + 1} /\ m + 1 \notin Built(m + 1)
      BY <2>5
    <3>2. IsFiniteSet(Built(m + 1))
      BY <1>b, <1>c, <2>1
    <3>3. ValidIndex(bs, m + 1 + 1) = ValidIndex(bs, m + 1) + 1
      <4> DEFINE B == Built(m + 1)
      <4>1. Cardinality(B \cup {m + 1}) = Cardinality(B) + 1
        <5> HIDE DEF B
        <5>1. IsFiniteSet(B) /\ m + 1 \notin B
          BY <3>1, <3>2 DEF B
        <5> QED
          BY <5>1, FS_AddElement
      <4>2. ValidIndex(bs, m + 1 + 1) = Cardinality(B \cup {m + 1})
        BY <1>a, <3>1
      <4>3. ValidIndex(bs, m + 1) = Cardinality(B)
        BY <1>a
      <4> QED
        BY <4>1, <4>2, <4>3
    <3> DEFINE w == Append(v[m], ItemOf(bs[m + 1]))
    <3>4. /\ w \in Seq(Item) /\ Len(w) = Len(v[m]) + 1 /\ Len(v[m]) \in Nat
          /\ \A k \in 1..Len(v[m]) : w[k] = v[m][k]
          /\ w[Len(v[m]) + 1] = ItemOf(bs[m + 1])
      BY <2>2, <2>4, AppendProperties, LenProperties
    <3>5. v[m + 1] = w
      BY <2>3, <2>5
    <3> HIDE DEF w
    <3>6. ASSUME NEW i \in 1..(m + 1), bs[i].it
          PROVE  /\ ValidIndex(bs, i) + 1 \in 1..Len(w)
                 /\ w[ValidIndex(bs, i) + 1] = ItemOf(bs[i])
      <4>1. CASE i = m + 1
        BY <2>2, <3>4, <4>1
      <4>2. CASE i # m + 1
        <5>1. i \in 1..m
          BY <4>2
        <5>2. /\ ValidIndex(bs, i) + 1 \in 1..Len(v[m])
              /\ v[m][ValidIndex(bs, i) + 1] = ItemOf(bs[i])
          BY <2>2, <3>6, <5>1
        <5> QED
          BY <3>4, <5>2
      <4> QED
        BY <4>1, <4>2
    <3> QED
      BY <2>2, <3>3, <3>4, <3>5, <3>6
  <2>6. CASE ~bs[m + 1].it
    <3>1. Built(m + 1 + 1) = Built(m + 1)
      BY <2>6
    <3>2. ValidIndex(bs, m + 1 + 1) = ValidIndex(bs, m + 1) /\ v[m + 1] = v[m]
      BY <1>a, <2>3, <2>6, <3>1
    <3>3. \A i \in 1..(m + 1) : bs[i].it => i \in 1..m
      BY <2>6
    <3> QED
      BY <2>2, <3>2, <3>3
  <2> QED
    BY <2>5, <2>6
<1>3. n \in S /\ n <= Len(bs)
  <2> HIDE DEF S
  <2> QED
    BY <1>1, <1>2, <1>c, NumbersInSet
<1> QED
  BY <1>3 DEF v

(* The row at b.vi is the item of b; without a valid entry there is no row.  *)
LEMMA RowsOfItems ==
    ASSUME NEW bs \in Seq(Entry)
    PROVE  /\ \A i \in DOMAIN bs : bs[i].it =>
                 ValidItems(bs)[ValidIndex(bs, i) + 1] = ItemOf(bs[i])
           /\ ValidItems(bs) = <<>> <=> \A i \in DOMAIN bs : ~bs[i].it
<1>1. Len(bs) \in 0..Len(bs) /\ DOMAIN bs = 1..Len(bs) /\ Len(bs) \in Nat
  BY LenProperties
<1>2. /\ ValidItems(bs) \in Seq(Item)
      /\ Len(ValidItems(bs)) = ValidIndex(bs, Len(bs) + 1)
      /\ \A i \in 1..Len(bs) : bs[i].it =>
            /\ ValidIndex(bs, i) + 1 \in 1..Len(ValidItems(bs))
            /\ ValidItems(bs)[ValidIndex(bs, i) + 1] = ItemOf(bs[i])
  BY <1>1, PrefixesHold DEF ValidItems
<1>3. ASSUME \A i \in DOMAIN bs : ~bs[i].it PROVE ValidItems(bs) = <<>>
  <2>1. {j \in 1..(Len(bs) + 1 - 1) : bs[j].it} = {}
    BY <1>1, <1>3
  <2>2. ValidIndex(bs, Len(bs) + 1) = 0
    BY <2>1, FS_EmptySet DEF ValidIndex
  <2> QED
    BY <1>2, <2>2, EmptySeq
<1>4. ASSUME NEW i \in DOMAIN bs, bs[i].it PROVE ValidItems(bs) # <<>>
  <2>1. 1..Len(ValidItems(bs)) # {}
    BY <1>1, <1>2, <1>4
  <2>2. Len(<<>>) = 0
    OBVIOUS
  <2> QED
    BY <2>1, <2>2
<1> QED
  BY <1>1, <1>2, <1>3, <1>4

-----------------------------------------------------------------------------
(* What the workers have built *)

(* The workers keep what was built of every request that left ch, and        *)
(* nothing else.                                                             *)
EntryFor(r, q) == [req |-> r, q |-> q, it |-> Valid(q)]
Got(d) == Elems(built[d]) \cup UNION {Elems(local[d][w]) : w \in DOMAIN local[d]}
OwnAnswers(r) == [q \in ValidKeys(r) |-> <<r, q>>]

BuildTypes ==
    /\ keys \in [Req -> Seq(Question)] /\ ch \in [Req -> Seq(Req)]
    /\ built \in [Req -> Seq(Entry)] /\ DOMAIN local = Req
    /\ \A d \in Req : \A w \in DOMAIN local[d] : local[d][w] \in Seq(Entry)

Gathered(d) ==
    /\ \A e \in Got(d) : /\ e.req \in Elems(dbatch[d]) /\ e.q \in Elems(keys[e.req])
                         /\ e = EntryFor(e.req, e.q)
    /\ \A r \in Elems(dbatch[d]) \ Elems(ch[d]) : \A q \in Elems(keys[r]) : EntryFor(r, q) \in Got(d)
    /\ Elems(ch[d]) \subseteq Elems(dbatch[d])
    /\ DOMAIN local[d] = {} => ch[d] = <<>>
    /\ dpc[d] \notin {"none", "build"} => DOMAIN local[d] = {}

BuildOK == BuildTypes /\ \A d \in Req : Gathered(d)

LEMMA EntryType ==
    ASSUME keys \in [Req -> Seq(Question)], NEW r \in Req
    PROVE  /\ \A q \in Elems(keys[r]) : q \in Question /\ EntryFor(r, q) \in Entry
           /\ BuiltOf(r) \in Seq(Entry)
           /\ Elems(BuiltOf(r)) = {EntryFor(r, q) : q \in Elems(keys[r])}
<1>1. /\ DOMAIN keys[r] = 1..Len(keys[r]) /\ Len(keys[r]) \in Nat
      /\ \A i \in DOMAIN keys[r] : keys[r][i] \in Question
  BY ElementOfSeq, LenProperties
<1>2. \A q \in Elems(keys[r]) : q \in Question
  BY <1>1 DEF Elems
<1>3. \A q \in Question : EntryFor(r, q) \in Entry
  BY DEF EntryFor, Entry, Valid
<1>4. BuiltOf(r) = [i \in 1..Len(keys[r]) |-> EntryFor(r, keys[r][i])]
  BY <1>1 DEF BuiltOf, EntryFor
<1>5. \A i \in 1..Len(keys[r]) : EntryFor(r, keys[r][i]) \in Entry
  BY <1>1, <1>3
<1> HIDE DEF EntryFor
<1>6. BuiltOf(r) \in Seq(Entry)
  BY <1>1, <1>4, <1>5
<1>7. Elems(BuiltOf(r)) = {EntryFor(r, q) : q \in Elems(keys[r])}
  BY <1>1, <1>4 DEF Elems
<1> QED
  BY <1>2, <1>3, <1>6, <1>7

(* A goroutine d that neither takes a request nor merges what it has.        *)
LEMMA BuildSame ==
    ASSUME BuildOK, UNCHANGED <<ch, local, built, dbatch>>, keys' \in [Req -> Seq(Question)],
           \A d \in Req : \A r \in Elems(dbatch[d]) : keys'[r] = keys[r],
           \A d \in Req : dpc'[d] \notin {"none", "build"}
                             => dpc[d] \notin {"none", "build"} \/ DOMAIN local[d] = {}
    PROVE  BuildOK'
<1>1. BuildTypes'
  BY DEF BuildOK, BuildTypes
<1>2. ASSUME NEW d \in Req PROVE Gathered(d)'
  <2>1. Got(d)' = Got(d) /\ Gathered(d)
    BY DEF Got, BuildOK
  <2>2. \A r, q : EntryFor(r, q)' = EntryFor(r, q)
    BY DEF EntryFor, Valid
  <2>3. ch[d]' = ch[d] /\ dbatch[d]' = dbatch[d] /\ local[d]' = local[d]
    OBVIOUS
  <2>4. \A r \in Elems(dbatch[d]) : keys[r]' = keys[r]
    OBVIOUS
  <2>5. \A e \in Got(d)' : /\ e.req \in Elems(dbatch[d]') /\ e.q \in Elems(keys[e.req]')
                           /\ e = EntryFor(e.req, e.q)'
    BY <2>1, <2>2, <2>3, <2>4 DEF Gathered
  <2>6. \A r \in Elems(dbatch[d]') \ Elems(ch[d]') : \A q \in Elems(keys[r]') : EntryFor(r, q)' \in Got(d)'
    BY <2>1, <2>2, <2>3, <2>4 DEF Gathered
  <2> QED
    BY <2>1, <2>3, <2>5, <2>6 DEF Gathered
<1> QED
  BY <1>1, <1>2 DEF BuildOK

(* What one goroutine builds is its own affair.                              *)
LEMMA BuildOne ==
    ASSUME BuildOK, NEW d \in Req, BuildTypes', Gathered(d)',
           keys' = keys, dbatch' = dbatch, dpc' = dpc,
           \A f \in Req \ {d} : ch'[f] = ch[f] /\ local'[f] = local[f] /\ built'[f] = built[f]
    PROVE  BuildOK'
<1>1. ASSUME NEW f \in Req \ {d} PROVE Gathered(f)'
  <2>1. Got(f)' = Got(f) /\ Gathered(f)
    BY DEF Got, BuildOK
  <2>2. \A r, q : EntryFor(r, q)' = EntryFor(r, q)
    BY DEF EntryFor, Valid
  <2> QED
    BY <2>1, <2>2 DEF Gathered
<1> QED
  BY <1>1 DEF BuildOK

LEMMA BuildRequestKeeps ==
    ASSUME BatchOK, BuildOK, NEW d \in Req, NEW w, BuildRequest(d, w)
    PROVE  BuildOK'
<1>t. BuildTypes /\ Gathered(d)
  BY DEF BuildOK
<1>p. CASE Panic
  BY <1>p, <1>t, BuildSame DEF Panic, buildVars, BuildTypes
<1>q. CASE ~Panic
  <2> DEFINE r == Head(ch[d])
  <2>1. /\ dpc[d] = "build" /\ w \in DOMAIN local[d] /\ ch[d] # <<>>
        /\ ch' = [ch EXCEPT ![d] = Tail(ch[d])]
        /\ local' = [local EXCEPT ![d][w] = local[d][w] \o BuiltOf(r)]
        /\ keys' = keys /\ dbatch' = dbatch /\ built' = built /\ dpc' = dpc
    BY <1>q DEF BuildRequest
  <2>2. /\ r \in Req /\ Tail(ch[d]) \in Seq(Req)
        /\ Elems(ch[d]) = {r} \cup Elems(Tail(ch[d]))
    <3>1. ch[d] \in Seq(Req) /\ ch[d] # <<>>
      BY <1>t, <2>1 DEF BuildTypes
    <3> QED
      BY <3>1, ElemsHeadTail
  <2>3. r \in Elems(dbatch[d])
    BY <1>t, <2>2 DEF Gathered
  <2>4. /\ BuiltOf(r) \in Seq(Entry)
        /\ Elems(BuiltOf(r)) = {EntryFor(r, q) : q \in Elems(keys[r])}
    BY <1>t, <2>2, EntryType DEF BuildTypes
  <2> HIDE DEF r
  <2>5. /\ local[d][w] \o BuiltOf(r) \in Seq(Entry)
        /\ Elems(local[d][w] \o BuiltOf(r)) = Elems(local[d][w]) \cup Elems(BuiltOf(r))
    <3>1. local[d][w] \in Seq(Entry)
      BY <1>t, <2>1 DEF BuildTypes
    <3> QED
      BY <2>4, <3>1, ElemsConcat, ConcatProperties
  <2>6. /\ DOMAIN local' = Req /\ \A f \in Req \ {d} : local'[f] = local[f]
        /\ DOMAIN local'[d] = DOMAIN local[d]
        /\ local'[d][w] = local[d][w] \o BuiltOf(r)
        /\ \A v \in DOMAIN local[d] \ {w} : local'[d][v] = local[d][v]
    BY <1>t, <2>1 DEF BuildTypes
  <2>7. ch' \in [Req -> Seq(Req)] /\ ch'[d] = Tail(ch[d]) /\ \A f \in Req \ {d} : ch'[f] = ch[f]
    BY <1>t, <2>1, <2>2 DEF BuildTypes
  <2>8. BuildTypes'
    BY <1>t, <2>1, <2>5, <2>6, <2>7 DEF BuildTypes
  <2>9. Got(d)' = Got(d) \cup Elems(BuiltOf(r))
    <3> DEFINE U == UNION {Elems(local[d][v]) : v \in DOMAIN local[d]}
    <3>1. \A v \in DOMAIN local[d] : Elems(local'[d][v]) =
             IF v = w THEN Elems(local[d][w]) \cup Elems(BuiltOf(r)) ELSE Elems(local[d][v])
      BY <2>5, <2>6
    <3>2. UNION {Elems(local'[d][v]) : v \in DOMAIN local'[d]} = U \cup Elems(BuiltOf(r))
      BY <2>1, <2>6, <3>1
    <3> QED
      BY <2>1, <3>2 DEF Got
  <2>10. \A s, q : EntryFor(s, q)' = EntryFor(s, q)
    BY DEF EntryFor, Valid
  <2>11. \A q : EntryFor(r, q).req = r /\ EntryFor(r, q).q = q
    BY DEF EntryFor
  <2>12. Gathered(d)'
    <3>1. ASSUME NEW e \in Got(d)'
          PROVE  /\ e.req \in Elems(dbatch[d]) /\ e.q \in Elems(keys[e.req])
                 /\ e = EntryFor(e.req, e.q)
      <4>1. CASE e \in Got(d)
        BY <1>t, <4>1 DEF Gathered
      <4>2. CASE e \in Elems(BuiltOf(r))
        BY <2>3, <2>4, <2>11, <4>2
      <4> QED
        BY <2>9, <4>1, <4>2
    <3>2. ASSUME NEW s \in Elems(dbatch[d]) \ Elems(Tail(ch[d])), NEW q \in Elems(keys[s])
          PROVE  EntryFor(s, q) \in Got(d)'
      <4>1. CASE s = r
        BY <2>4, <2>9, <4>1
      <4>2. CASE s # r
        BY <1>t, <2>2, <2>9, <4>2 DEF Gathered
      <4> QED
        BY <4>1, <4>2
    <3> QED
      BY <1>t, <2>1, <2>2, <2>6, <2>7, <2>10, <3>1, <3>2 DEF Gathered
  <2> QED
    BY <2>1, <2>6, <2>7, <2>8, <2>12, BuildOne
<1> QED
  BY <1>p, <1>q

LEMMA MergeLocalKeeps ==
    ASSUME BuildOK, NEW d \in Req, NEW w, MergeLocal(d, w)
    PROVE  BuildOK'
<1>t. BuildTypes /\ Gathered(d)
  BY DEF BuildOK
<1>1. /\ dpc[d] = "build" /\ w \in DOMAIN local[d] /\ ch[d] = <<>>
      /\ built' = [built EXCEPT ![d] = built[d] \o local[d][w]]
      /\ local' = [local EXCEPT ![d] = [v \in DOMAIN local[d] \ {w} |-> local[d][v]]]
      /\ keys' = keys /\ dbatch' = dbatch /\ ch' = ch /\ dpc' = dpc
  BY DEF MergeLocal
<1>2. /\ DOMAIN local' = Req /\ \A f \in Req \ {d} : local'[f] = local[f]
      /\ local'[d] = [v \in DOMAIN local[d] \ {w} |-> local[d][v]]
      /\ DOMAIN local'[d] = DOMAIN local[d] \ {w}
      /\ \A v \in DOMAIN local[d] \ {w} : local'[d][v] = local[d][v]
  BY <1>t, <1>1 DEF BuildTypes
<1>3. /\ built[d] \o local[d][w] \in Seq(Entry)
      /\ Elems(built[d] \o local[d][w]) = Elems(built[d]) \cup Elems(local[d][w])
  <2>1. built[d] \in Seq(Entry) /\ local[d][w] \in Seq(Entry)
    BY <1>t, <1>1 DEF BuildTypes
  <2> QED
    BY <2>1, ElemsConcat, ConcatProperties
<1>4. /\ built' \in [Req -> Seq(Entry)] /\ built'[d] = built[d] \o local[d][w]
      /\ \A f \in Req \ {d} : built'[f] = built[f]
  BY <1>t, <1>1, <1>3 DEF BuildTypes
<1>5. BuildTypes'
  BY <1>t, <1>1, <1>2, <1>4 DEF BuildTypes
<1>6. Got(d)' = Got(d)
  <2>1. UNION {Elems(local'[d][v]) : v \in DOMAIN local'[d]}
           = UNION {Elems(local[d][v]) : v \in DOMAIN local[d] \ {w}}
    <3>1. \A v \in DOMAIN local[d] \ {w} : Elems(local'[d][v]) = Elems(local[d][v])
      BY <1>2
    <3> QED
      BY <1>2, <3>1
  <2>2. UNION {Elems(local[d][v]) : v \in DOMAIN local[d]}
           = Elems(local[d][w]) \cup UNION {Elems(local[d][v]) : v \in DOMAIN local[d] \ {w}}
    BY <1>1
  <2>3. Elems(built'[d]) = Elems(built[d]) \cup Elems(local[d][w])
    BY <1>3, <1>4
  <2> QED
    BY <2>1, <2>2, <2>3 DEF Got
<1>7. \A s, q : EntryFor(s, q)' = EntryFor(s, q)
  BY DEF EntryFor, Valid
<1>8. Gathered(d)'
  BY <1>t, <1>1, <1>6, <1>7 DEF Gathered
<1> QED
  BY <1>1, <1>2, <1>4, <1>5, <1>8, BuildOne

LEMMA BuildStep ==
    ASSUME PickOK, BatchOK, BuildOK, NEW d \in Req, Step(d)
    PROVE  BuildOK'
<1>1. ASSUME NEW w \in 1..BuildWorkers, BuildRequest(d, w) PROVE BuildOK'
  BY <1>1, BuildRequestKeeps
<1>2. ASSUME NEW w \in 1..BuildWorkers, MergeLocal(d, w) PROVE BuildOK'
  BY <1>2, MergeLocalKeeps
<1>3. CASE ~\E w \in 1..BuildWorkers : BuildRequest(d, w) \/ MergeLocal(d, w)
  <2>1. UNCHANGED <<keys, ch, local, built, dbatch>>
    BY <1>3 DEF Step, Assemble, PickGroup, LoadCandidate, CompareCandidate, Charge, Lock, RunOk,
           RunFails, Unlock, Release, Answer, Panic, CountFailedCall, Send, Finish, buildVars
  <2>2. \A f \in Req \ {d} : dpc'[f] = dpc[f]
    BY <1>3 DEF PickOK, Step, Assemble, PickGroup, LoadCandidate, CompareCandidate, Charge, Lock,
           RunOk, RunFails, Unlock, Release, Answer, Panic, CountFailedCall, Send, Finish, Goto
  <2>3. dpc[d] \notin {"none", "build"} \/ DOMAIN local[d] = {}
    BY <1>3 DEF Step, Assemble, PickGroup, LoadCandidate, CompareCandidate, Charge, Lock,
           RunOk, RunFails, Unlock, Release, Answer, CountFailedCall, Send, Finish
  <2> QED
    BY <2>1, <2>2, <2>3, BuildSame DEF BuildOK, BuildTypes
<1> QED
  BY <1>1, <1>2, <1>3

-----------------------------------------------------------------------------
(* The answers are those of the request *)

AnswerOK ==
    /\ DOMAIN rows = Req /\ DOMAIN answers = Req
    /\ \A d \in Req :
          /\ dpc[d] \in {"release", "answer", "fail", "reply", "done"}
                => rows[d] = None \/ rows[d] = ValidItems(built[d])
          /\ dpc[d] \notin {"none", "build"} => DOMAIN answers[d] = Elems(dbatch[d])
          /\ dpc[d] \in {"reply", "done"} /\ rows[d] # None
                => \A r \in Elems(dbatch[d]) : answers[d][r] = OwnAnswers(r)

(* Once the workers are done, built has the entries of the questions of the  *)
(* batch, all of them and no other.                                          *)
LEMMA BuiltAll ==
    ASSUME BuildOK, NEW d \in Req, DOMAIN local[d] = {}, NEW r \in Elems(dbatch[d])
    PROVE  /\ built[d] \in Seq(Entry)
           /\ \A i \in DOMAIN built[d] :
                 built[d][i].req = r => /\ built[d][i].q \in Elems(keys[r])
                                        /\ built[d][i].it = Valid(built[d][i].q)
           /\ \A q \in Elems(keys[r]) : \E i \in DOMAIN built[d] :
                 /\ built[d][i].req = r /\ built[d][i].q = q /\ built[d][i].it = Valid(q)
<1>1. BuildTypes /\ Gathered(d)
  BY DEF BuildOK
<1>2. Got(d) = Elems(built[d])
  <2>1. UNION {Elems(local[d][w]) : w \in DOMAIN local[d]} = {}
    OBVIOUS
  <2> QED
    BY <2>1 DEF Got
<1>3. Elems(ch[d]) = {}
  BY <1>1, ElemsEmpty DEF Gathered
<1>4. \A s, q : EntryFor(s, q).req = s /\ EntryFor(s, q).q = q /\ EntryFor(s, q).it = Valid(q)
  BY DEF EntryFor
<1>5. ASSUME NEW i \in DOMAIN built[d], built[d][i].req = r
      PROVE  built[d][i].q \in Elems(keys[r]) /\ built[d][i].it = Valid(built[d][i].q)
  <2>1. built[d][i] \in Got(d)
    BY <1>2 DEF Elems
  <2> QED
    BY <1>1, <1>4, <1>5, <2>1 DEF Gathered
<1>6. ASSUME NEW q \in Elems(keys[r])
      PROVE  \E i \in DOMAIN built[d] :
                 /\ built[d][i].req = r /\ built[d][i].q = q /\ built[d][i].it = Valid(q)
  <2>1. EntryFor(r, q) \in Elems(built[d])
    BY <1>1, <1>2, <1>3 DEF Gathered
  <2>2. PICK i \in DOMAIN built[d] : built[d][i] = EntryFor(r, q)
    BY <2>1 DEF Elems
  <2> QED
    BY <1>4, <2>2
<1> QED
  BY <1>1, <1>5, <1>6 DEF BuildTypes

(* The last entry of a question is one of its entries.                       *)
LEMMA LastBuiltIs ==
    ASSUME NEW bs \in Seq(Entry), NEW r, NEW q,
           \E i \in DOMAIN bs : bs[i].req = r /\ bs[i].q = q
    PROVE  /\ LastBuilt(bs, r, q) \in DOMAIN bs
           /\ bs[LastBuilt(bs, r, q)].req = r /\ bs[LastBuilt(bs, r, q)].q = q
<1> DEFINE T == {i \in DOMAIN bs : bs[i].req = r /\ bs[i].q = q}
           Last(i) == /\ bs[i].req = r /\ bs[i].q = q
                      /\ \A j \in DOMAIN bs : bs[j].req = r /\ bs[j].q = q => j <= i
<1>1. DOMAIN bs = 1..Len(bs) /\ Len(bs) \in Nat
  BY LenProperties
<1>2. T \in SUBSET (1..Len(bs)) /\ T # {}
  BY <1>1
<1>3. PICK i \in T : \A j \in T : j <= i
  <2> HIDE DEF T
  <2> QED
    BY <1>1, <1>2, LastOf
<1>4. i \in DOMAIN bs /\ Last(i)
  BY <1>3
<1>5. LastBuilt(bs, r, q) = CHOOSE k \in DOMAIN bs : Last(k)
  BY DEF LastBuilt
<1> HIDE DEF Last
<1>6. LastBuilt(bs, r, q) \in DOMAIN bs /\ Last(LastBuilt(bs, r, q))
  BY <1>4, <1>5
<1> QED
  BY <1>6 DEF Last

(* main.go:163-230: wherever the workers put the entries of a request, and   *)
(* however often it repeats a question, each of its valid questions is       *)
(* answered from the row of its own item.                                    *)
LEMMA RowsOwn ==
    ASSUME BuildOK, NEW d \in Req, DOMAIN local[d] = {}, NEW r \in Elems(dbatch[d])
    PROVE  AnswersOf(built[d], ValidItems(built[d]), r) = OwnAnswers(r)
<1> DEFINE bs == built[d]
           rws == ValidItems(bs)
           D == {bs[i].q : i \in {j \in DOMAIN bs : bs[j].req = r /\ bs[j].it}}
<1>1. /\ bs \in Seq(Entry)
      /\ \A i \in DOMAIN bs : bs[i].req = r => bs[i].q \in Elems(keys[r]) /\ bs[i].it = Valid(bs[i].q)
      /\ \A q \in Elems(keys[r]) : \E i \in DOMAIN bs :
            bs[i].req = r /\ bs[i].q = q /\ bs[i].it = Valid(q)
  BY BuiltAll
<1>2. \A i \in DOMAIN bs : bs[i].it => rws[ValidIndex(bs, i) + 1] = ItemOf(bs[i])
  BY <1>1, RowsOfItems
<1> HIDE DEF bs, rws
<1>3. D = ValidKeys(r)
  BY <1>1 DEF ValidKeys
<1>4. ASSUME NEW q \in D PROVE rws[ValidIndex(bs, LastBuilt(bs, r, q)) + 1] = <<r, q>>
  <2> DEFINE i == LastBuilt(bs, r, q)
  <2>1. Valid(q) /\ \E j \in DOMAIN bs : bs[j].req = r /\ bs[j].q = q
    BY <1>1
  <2>2. i \in DOMAIN bs /\ bs[i].req = r /\ bs[i].q = q
    BY <1>1, <2>1, LastBuiltIs
  <2> HIDE DEF i
  <2>3. bs[i].it
    BY <1>1, <2>1, <2>2
  <2>4. rws[ValidIndex(bs, i) + 1] = <<r, q>>
    BY <1>2, <2>2, <2>3 DEF ItemOf
  <2> QED
    BY <2>4 DEF i
<1>5. AnswersOf(bs, rws, r) = [q \in D |-> rws[ValidIndex(bs, LastBuilt(bs, r, q)) + 1]]
  BY DEF AnswersOf
<1>6. AnswersOf(bs, rws, r) = [q \in D |-> <<r, q>>]
  <2> HIDE DEF D
  <2> QED
    BY <1>4, <1>5
<1> QED
  BY <1>3, <1>6 DEF OwnAnswers, bs, rws

(* Without an item for the engine no request has a valid question.           *)
LEMMA NothingOwn ==
    ASSUME BuildOK, NEW d \in Req, DOMAIN local[d] = {}, NEW r \in Elems(dbatch[d]),
           ValidItems(built[d]) = <<>>
    PROVE  OwnAnswers(r) = NoAnswers
<1>1. /\ built[d] \in Seq(Entry)
      /\ \A q \in Elems(keys[r]) : \E i \in DOMAIN built[d] : built[d][i].it = Valid(q)
  BY BuiltAll
<1>2. \A i \in DOMAIN built[d] : ~built[d][i].it
  BY <1>1, RowsOfItems
<1>3. ValidKeys(r) = {}
  BY <1>1, <1>2 DEF ValidKeys
<1> QED
  BY <1>3 DEF OwnAnswers, NoAnswers

LEMMA OwnSame == \A r : keys'[r] = keys[r] => OwnAnswers(r)' = OwnAnswers(r)
  BY DEF OwnAnswers, ValidKeys, Valid, Elems

(* A step that leaves the answers of every other goroutine alone.            *)
LEMMA AnswerOne ==
    ASSUME AnswerOK, NEW d \in Req, dbatch' = dbatch,
           \A f \in Req : \A r \in Elems(dbatch[f]) : keys'[r] = keys[r],
           DOMAIN rows' = Req, DOMAIN answers' = Req,
           \A f \in Req \ {d} : /\ dpc'[f] = dpc[f] /\ rows'[f] = rows[f]
                                /\ answers'[f] = answers[f] /\ built'[f] = built[f],
           dpc'[d] \in {"release", "answer", "fail", "reply", "done"}
                => rows'[d] = None \/ rows'[d] = ValidItems(built'[d]),
           dpc'[d] \notin {"none", "build"} => DOMAIN answers'[d] = Elems(dbatch[d]),
           dpc'[d] \in {"reply", "done"} /\ rows'[d] # None
                => \A r \in Elems(dbatch[d]) : answers'[d][r] = OwnAnswers(r)'
    PROVE  AnswerOK'
<1>1. \A f \in Req : \A r \in Elems(dbatch[f]) : OwnAnswers(r)' = OwnAnswers(r)
  BY OwnSame
<1>2. ASSUME NEW f \in Req \ {d}
      PROVE  /\ dpc'[f] \in {"release", "answer", "fail", "reply", "done"}
                   => rows'[f] = None \/ rows'[f] = ValidItems(built'[f])
             /\ dpc'[f] \notin {"none", "build"} => DOMAIN answers'[f] = Elems(dbatch[f])
             /\ dpc'[f] \in {"reply", "done"} /\ rows'[f] # None
                   => \A r \in Elems(dbatch[f]) : answers'[f][r] = OwnAnswers(r)'
  BY <1>1 DEF AnswerOK
<1> QED
  BY <1>2 DEF AnswerOK

LEMMA AnswerStep ==
    ASSUME PickOK, BatchOK, SentOK, BuildOK, AnswerOK, NEW d \in Req, Step(d)
    PROVE  AnswerOK'
<1>0. dbatch' = dbatch /\ keys' = keys
  <2>1. dbatch' = dbatch
    BY BatchStep
  <2>2. keys' = keys
    BY DEF Step, BuildRequest, MergeLocal, Panic, Assemble, PickGroup, LoadCandidate,
           CompareCandidate, Charge, Lock, RunOk, RunFails, Unlock, Release, Answer,
           CountFailedCall, Send, Finish
  <2> QED
    BY <2>1, <2>2
<1>a. /\ DOMAIN rows = Req /\ DOMAIN answers = Req /\ DOMAIN dpc = Req /\ DOMAIN built = Req
      /\ dpc[d] \in {"release", "answer", "fail", "reply", "done"}
            => rows[d] = None \/ rows[d] = ValidItems(built[d])
      /\ dpc[d] \notin {"none", "build"} => DOMAIN answers[d] = Elems(dbatch[d])
      /\ dpc[d] \in {"reply", "done"} /\ rows[d] # None
            => \A r \in Elems(dbatch[d]) : answers[d][r] = OwnAnswers(r)
  BY DEF AnswerOK, PickOK, BuildOK, BuildTypes
<1>b. /\ dpc[d] \in {"build", "run"} => rows[d] = <<>>
      /\ dpc[d] = "answer" => rows[d] # None
      /\ dpc[d] = "fail" => rows[d] = None
  BY DEF SentOK
<1>c. dpc[d] \notin {"none", "build"} => DOMAIN local[d] = {}
  BY DEF BuildOK, Gathered
<1>k. \A r : OwnAnswers(r)' = OwnAnswers(r)
  BY <1>0, OwnSame
<1>1. CASE UNCHANGED <<dpc, rows, answers>> /\ (built'[d] = built[d] \/ dpc[d] = "build")
            /\ \A f \in Req \ {d} : built'[f] = built[f]
  BY <1>0, <1>1, <1>a, <1>k, AnswerOne
<1>2. ASSUME NEW w \in 1..BuildWorkers, BuildRequest(d, w) \/ MergeLocal(d, w) PROVE AnswerOK'
  BY <1>1, <1>2, <1>a DEF BuildRequest, MergeLocal, Panic, buildVars, runVars, replyVars
<1>3. CASE Assemble(d)
  <2>1. /\ dpc[d] = "build" /\ DOMAIN local[d] = {} /\ built' = built /\ rows' = rows
        /\ answers' = [answers EXCEPT ![d] = [r \in Elems(dbatch[d]) |-> NoAnswers]]
        /\ dpc' = [dpc EXCEPT ![d] = IF ValidItems(built[d]) = <<>> THEN "reply" ELSE "group"]
    BY <1>3 DEF Assemble, Goto, buildVars, runVars
  <2>2. \A r \in Elems(dbatch[d]) : ValidItems(built[d]) = <<>> => OwnAnswers(r) = NoAnswers
    BY <2>1, NothingOwn
  <2>3. /\ dpc'[d] = IF ValidItems(built[d]) = <<>> THEN "reply" ELSE "group"
        /\ answers'[d] = [r \in Elems(dbatch[d]) |-> NoAnswers]
        /\ rows'[d] = <<>> /\ DOMAIN answers' = Req
        /\ \A f \in Req \ {d} : dpc'[f] = dpc[f] /\ answers'[f] = answers[f]
    BY <1>a, <1>b, <2>1
  <2> HIDE DEF OwnAnswers, NoAnswers, ValidItems
  <2> QED
    BY <1>0, <1>a, <1>k, <2>1, <2>2, <2>3, AnswerOne
<1>4. CASE PickGroup(d) \/ LoadCandidate(d) \/ CompareCandidate(d) \/ Charge(d) \/ Lock(d)
  <2>1. /\ dpc[d] \in {"group", "scan", "compare", "lock"}
        /\ dpc'[d] \in {"group", "scan", "compare", "lock", "run"}
        /\ \A f \in Req \ {d} : dpc'[f] = dpc[f]
        /\ UNCHANGED <<built, rows, answers>>
    BY <1>4, <1>a DEF PickGroup, LoadCandidate, CompareCandidate, Charge, Lock, Goto, buildVars,
           runVars, replyVars
  <2> QED
    BY <1>0, <1>a, <2>1, AnswerOne
<1>5. CASE RunOk(d) \/ RunFails(d)
  <2>1. PICK res \in {ValidItems(built[d]), None} : Unlock(d, res)
    BY <1>5 DEF RunOk, RunFails
  <2>2. /\ dpc[d] = "run" /\ dpc'[d] = "release" /\ \A f \in Req \ {d} : dpc'[f] = dpc[f]
        /\ rows'[d] = res /\ DOMAIN rows' = Req /\ \A f \in Req \ {d} : rows'[f] = rows[f]
        /\ built' = built /\ answers' = answers
    BY <1>a, <2>1 DEF Unlock, Goto, buildVars, replyVars
  <2> QED
    BY <1>0, <1>a, <2>2, AnswerOne
<1>6. CASE Release(d)
  <2>1. /\ dpc[d] = "release" /\ dpc'[d] \in {"fail", "answer"} /\ \A f \in Req \ {d} : dpc'[f] = dpc[f]
        /\ UNCHANGED <<built, rows, answers>>
    BY <1>6, <1>a DEF Release, Goto, buildVars, replyVars
  <2> QED
    BY <1>0, <1>a, <2>1, AnswerOne
<1>7. CASE Answer(d)
  <2>1. CASE Panic
    BY <1>1, <2>1 DEF Panic, buildVars, runVars, replyVars
  <2>2. CASE ~Panic
    <3>1. /\ dpc[d] = "answer" /\ dpc' = [dpc EXCEPT ![d] = "reply"]
          /\ answers' = [answers EXCEPT ![d] =
                            [r \in DOMAIN answers[d] |-> AnswersOf(built[d], rows[d], r)]]
          /\ built' = built /\ rows' = rows
      BY <1>7, <2>2 DEF Answer, Goto, buildVars, runVars
    <3>2. /\ dpc'[d] = "reply" /\ \A f \in Req \ {d} : dpc'[f] = dpc[f] /\ answers'[f] = answers[f]
          /\ answers'[d] = [r \in Elems(dbatch[d]) |-> AnswersOf(built[d], rows[d], r)]
          /\ DOMAIN answers' = Req
      BY <1>a, <3>1
    <3>3. DOMAIN local[d] = {} /\ rows[d] = ValidItems(built[d])
      BY <1>a, <1>b, <1>c, <3>1
    <3>4. \A r \in Elems(dbatch[d]) : answers'[d][r] = OwnAnswers(r)
      BY <3>2, <3>3, RowsOwn
    <3> QED
      BY <1>0, <1>a, <1>k, <3>1, <3>2, <3>3, <3>4, AnswerOne
  <2> QED
    BY <2>1, <2>2
<1>8. CASE CountFailedCall(d) \/ Finish(d)
  <2>1. /\ dpc[d] \in {"fail", "reply"} /\ dpc'[d] \in {"reply", "done"}
        /\ (dpc[d] = "fail" => rows[d] = None)
        /\ \A f \in Req \ {d} : dpc'[f] = dpc[f]
        /\ UNCHANGED <<built, rows, answers>>
    BY <1>8, <1>a, <1>b DEF CountFailedCall, Finish, Goto, buildVars, runVars
  <2> QED
    BY <1>0, <1>a, <1>k, <2>1, AnswerOne
<1>9. CASE Send(d)
  BY <1>1, <1>9 DEF Send, buildVars, runVars
<1> QED
  BY <1>2, <1>3, <1>4, <1>5, <1>6, <1>7, <1>8, <1>9 DEF Step

-----------------------------------------------------------------------------
(* A new goroutine *)

(* A batch that the batcher launches has requests that were in none yet.     *)
LEMMA NewBatch ==
    ASSUME NEW b \in Batches
    PROVE  /\ b \in Seq(Req) /\ Elems(b) \subseteq Req \ Spawned
           /\ Head(b) \in Elems(b)
           /\ \A i, j \in DOMAIN b : b[i] = b[j] => i = j
<1>1. PICK n \in 1..BatchMax : b \in [1..n -> Req \ Spawned]
  BY DEF Batches
<1>2. n \in Nat /\ n >= 1
  BY <1>1, CapAssumption
<1>3. b \in Seq(Req \ Spawned) /\ DOMAIN b = 1..n /\ b[1] = Head(b)
  BY <1>1, <1>2
<1>4. Elems(b) \subseteq Req \ Spawned /\ b \in Seq(Req)
  BY <1>1, <1>2 DEF Elems
<1>5. Head(b) \in Elems(b)
  BY <1>2, <1>3 DEF Elems
<1> QED
  BY <1>4, <1>5 DEF Batches

(* Its workers start with nothing built and all of the batch in ch.          *)
LEMMA SpawnBuilds ==
    ASSUME BuildOK, NEW b \in Seq(Req), b # <<>>, Spawn(b), Head(b) \in Req,
           keys' = keys, dbatch[Head(b)] = <<>>, dbatch'[Head(b)] = b, dpc'[Head(b)] = "build",
           \A f \in Req \ {Head(b)} : dbatch'[f] = dbatch[f] /\ dpc'[f] = dpc[f]
    PROVE  BuildOK'
<1> DEFINE d == Head(b)
           n == IF BuildWorkers > Len(b) THEN Len(b) ELSE BuildWorkers
<1>1. /\ ch' = [ch EXCEPT ![d] = b] /\ built' = built
      /\ local' = [local EXCEPT ![d] = [w \in 1..n |-> <<>>]]
  BY DEF Spawn
<1>2. n \in Nat /\ n >= 1
  BY WorkerAssumption, EmptySeq, LenProperties
<1> HIDE DEF d, n
<1>3. BuildTypes /\ d \in Req /\ b \in Seq(Req)
  BY DEF BuildOK, d
<1>4. /\ ch' \in [Req -> Seq(Req)] /\ ch'[d] = b /\ DOMAIN local' = Req
      /\ local'[d] = [w \in 1..n |-> <<>>] /\ DOMAIN local'[d] = 1..n
      /\ \A f \in Req \ {d} : ch'[f] = ch[f] /\ local'[f] = local[f]
  BY <1>1, <1>3 DEF BuildTypes
<1>5. <<>> \in Seq(Entry) /\ \A w \in 1..n : local'[d][w] = <<>>
  BY <1>4
<1>6. BuildTypes'
  BY <1>1, <1>3, <1>4, <1>5 DEF BuildTypes
<1>7. \A r, q : EntryFor(r, q)' = EntryFor(r, q)
  BY DEF EntryFor, Valid
<1>8. Gathered(d)'
  <2>1. Elems(built[d]) = {}
    <3>1. \A e \in Got(d) : e.req \in Elems(dbatch[d])
      BY <1>3 DEF BuildOK, Gathered
    <3>2. Got(d) = {}
      BY <3>1, ElemsEmpty DEF d
    <3> QED
      BY <3>2 DEF Got
  <2>2. \A w \in DOMAIN local'[d] : Elems(local'[d][w]) = {}
    BY <1>4, <1>5, ElemsEmpty
  <2>3. Got(d)' = {}
    BY <1>1, <2>1, <2>2, ZenonT(20) DEF Got
  <2>4. DOMAIN local'[d] # {} /\ dbatch'[d] = b /\ dpc'[d] = "build"
    <3>1. 1 \in 1..n
      BY <1>2
    <3> QED
      BY <1>4, <3>1 DEF d
  <2> QED
    BY <1>4, <2>3, <2>4 DEF Gathered
<1>9. ASSUME NEW f \in Req \ {d} PROVE Gathered(f)'
  <2>1. Gathered(f) /\ Got(f)' = Got(f)
    BY <1>1, <1>4 DEF BuildOK, Got
  <2>2. dbatch'[f] = dbatch[f] /\ dpc'[f] = dpc[f]
    BY DEF d
  <2> QED
    BY <1>4, <1>7, <2>1, <2>2 DEF Gathered
<1> QED
  BY <1>6, <1>8, <1>9 DEF BuildOK

LEMMA SpawnAnswers ==
    ASSUME AnswerOK, keys' = keys, rows' = rows, answers' = answers, built' = built,
           NEW d \in Req, dpc'[d] = "build",
           \A f \in Req \ {d} : dpc'[f] = dpc[f] /\ dbatch'[f] = dbatch[f]
    PROVE  AnswerOK'
<1>1. \A r : OwnAnswers(r)' = OwnAnswers(r)
  BY OwnSame
<1>2. ASSUME NEW f \in Req \ {d}
      PROVE  /\ dpc'[f] \in {"release", "answer", "fail", "reply", "done"}
                   => rows'[f] = None \/ rows'[f] = ValidItems(built'[f])
             /\ dpc'[f] \notin {"none", "build"} => DOMAIN answers'[f] = Elems(dbatch'[f])
             /\ dpc'[f] \in {"reply", "done"} /\ rows'[f] # None
                   => \A r \in Elems(dbatch'[f]) : answers'[f][r] = OwnAnswers(r)'
  BY <1>1 DEF AnswerOK
<1>3. DOMAIN rows' = Req /\ DOMAIN answers' = Req
  BY DEF AnswerOK
<1> QED
  BY <1>2, <1>3 DEF AnswerOK

(* The whole of the inductive invariant.                                     *)
DispatchInv ==
    /\ PickOK /\ EngineOK /\ BatchOK /\ ReplyOK /\ SentOK /\ CountOK
    /\ BuildOK /\ AnswerOK

LEMMA SpawnKeeps ==
    ASSUME DispatchInv, NEW b \in Seq(Req), Elems(b) \subseteq Req \ Spawned, Head(b) \in Elems(b),
           \A i, j \in DOMAIN b : b[i] = b[j] => i = j, Spawn(b), keys' = keys
    PROVE  DispatchInv'
<1>0. /\ PickOK /\ EngineOK /\ BatchOK /\ ReplyOK /\ SentOK /\ CountOK
      /\ BuildOK /\ AnswerOK
  BY DEF DispatchInv
<1> DEFINE d == Head(b)
<1>2. /\ b \in Seq(Req) /\ Elems(b) \subseteq Req \ Spawned
      /\ d \in Elems(b) /\ d \in Req /\ dpc[d] = "none"
      /\ \A i, j \in DOMAIN b : b[i] = b[j] => i = j
  BY <1>0 DEF BatchOK, Spawned
<1>3. /\ dpc' = [dpc EXCEPT ![d] = "build"] /\ dbatch' = [dbatch EXCEPT ![d] = b]
      /\ UNCHANGED <<pickVars, runVars, replyVars>>
  BY DEF Spawn, Goto
<1> HIDE DEF d
<1>4. PickOK'
  BY <1>0, <1>2, <1>3 DEF PickOK, Labels, Calling, pickVars
<1>5. EngineOK'
  BY <1>0, <1>2, <1>3, EngineSame DEF PickOK, Calling, pickVars, runVars
<1>6. /\ dbatch'[d] = b /\ dpc'[d] = "build" /\ dbatch' \in [Req -> Seq(Req)]
      /\ \A f \in Req \ {d} : dbatch'[f] = dbatch[f] /\ dpc'[f] = dpc[f]
  BY <1>0, <1>2, <1>3 DEF PickOK, BatchOK
<1>7. \A f \in Req \ {d} : Elems(dbatch[f]) \cap Elems(b) = {}
  BY <1>2 DEF Spawned
<1>8. BatchOK'
  <2>1. ASSUME NEW f \in Req
        PROVE  IF dpc'[f] = "none" THEN dbatch'[f] = <<>> ELSE f \in Elems(dbatch'[f])
    <3>1. CASE f = d
      BY <1>2, <1>6, <3>1
    <3>2. CASE f # d
      <4>1. IF dpc[f] = "none" THEN dbatch[f] = <<>> ELSE f \in Elems(dbatch[f])
        BY <1>0 DEF BatchOK
      <4>2. dbatch'[f] = dbatch[f] /\ dpc'[f] = dpc[f]
        BY <1>6, <3>2
      <4> QED
        BY <4>1, <4>2
    <3> QED
      BY <3>1, <3>2
  <2>2. ASSUME NEW e \in Req, NEW f \in Req, e # f
        PROVE  Elems(dbatch'[e]) \cap Elems(dbatch'[f]) = {}
    BY <1>0, <1>6, <1>7, <2>2 DEF BatchOK
  <2> QED
    BY <1>6, <2>1, <2>2 DEF BatchOK
<1>9. Spawned \subseteq Spawned' /\ \A r \in Elems(b) : respCh[r] = None
  <2>1. dbatch[d] = <<>>
    BY <1>0, <1>2 DEF BatchOK
  <2>2. Spawned \subseteq Spawned'
    BY <1>6, <2>1, ElemsEmpty DEF Spawned
  <2> QED
    BY <1>0, <1>2, <2>2 DEF ReplyOK
<1>10. /\ respCh' = respCh /\ rows' = rows /\ answers' = answers /\ next' = next
       /\ statErr' = statErr
  BY <1>3 DEF runVars, replyVars
<1>11. ASSUME NEW f \in Req, NEW r \in Elems(dbatch'[f]), respCh'[r] # None
       PROVE  dpc'[f] \in {"reply", "done"} /\ respCh'[r] = ReplyTo(f, r)'
  <2>1. f # d /\ r \in Elems(dbatch[f]) /\ dpc'[f] = dpc[f]
    BY <1>6, <1>9, <1>10, <1>11
  <2> QED
    BY <1>0, <1>10, <1>11, <2>1 DEF ReplyOK, ReplyTo
<1>12. ReplyOK'
  BY <1>0, <1>9, <1>10, <1>11 DEF ReplyOK
<1>13. \A f, r : ReplyTo(f, r)' = ReplyTo(f, r)
  BY <1>10 DEF ReplyTo
<1>14. ASSUME NEW f \in Req, NEW i \in DOMAIN dbatch'[f]
       PROVE  /\ i >= next[f] => respCh[dbatch'[f][i]] = None
              /\ i < next[f] => respCh[dbatch'[f][i]] = ReplyTo(f, dbatch'[f][i])
  <2>1. CASE f = d
    <3>0. DOMAIN b = 1..Len(b) /\ i \in DOMAIN b
      BY <1>2, <1>6, <2>1
    <3>1. next[f] = 1 /\ i \in Nat /\ i >= 1
      BY <1>0, <1>2, <2>1, <3>0 DEF SentOK
    <3>2. respCh[b[i]] = None
      BY <1>6, <1>9, <2>1 DEF Elems
    <3> QED
      BY <1>6, <2>1, <3>1, <3>2
  <2>2. CASE f # d
    <3>1. dbatch'[f] = dbatch[f]
      BY <1>6, <2>2
    <3>2. /\ i >= next[f] => respCh[dbatch[f][i]] = None
          /\ i < next[f] => respCh[dbatch[f][i]] = ReplyTo(f, dbatch[f][i])
      BY <1>0, <3>1 DEF SentOK
    <3> QED
      BY <3>1, <3>2
  <2> QED
    BY <2>1, <2>2
<1>15. SentOK'
  <2>1. /\ next[d] = 1 /\ rows[d] = <<>>
    BY <1>0, <1>2 DEF SentOK
  <2>2. ASSUME NEW f \in Req
        PROVE  /\ \A i, j \in DOMAIN dbatch'[f] : dbatch'[f][i] = dbatch'[f][j] => i = j
               /\ dpc'[f] \notin {"reply", "done"} => next[f] = 1
               /\ dpc'[f] = "done" => next[f] > Len(dbatch'[f])
               /\ dpc'[f] \in {"none", "build", "group", "scan", "compare", "lock", "run"}
                      => rows[f] = <<>>
               /\ dpc'[f] = "answer" => rows[f] # None
               /\ dpc'[f] = "fail" => rows[f] = None
    <3>1. CASE f = d
      BY <1>2, <1>6, <2>1, <3>1
    <3>2. CASE f # d
      <4>1. dbatch'[f] = dbatch[f] /\ dpc'[f] = dpc[f]
        BY <1>6, <3>2
      <4> QED
        BY <1>0, <4>1 DEF SentOK
    <3> QED
      BY <3>1, <3>2
  <2> QED
    BY <1>10, <1>13, <1>14, <2>2 DEF SentOK
<1>16. CountOK'
  <2>1. \A f \in Req : CountedOf(f)' = CountedOf(f)
    BY <1>2, <1>6, <1>10 DEF CountedOf, FailedIn
  <2> QED
    BY <1>0, <1>10, <2>1, CountSame
<1>17. keys' = keys /\ built' = built /\ dbatch[d] = <<>> /\ b # <<>>
  BY <1>0, <1>2, ElemsEmpty DEF Spawn, BatchOK
<1>18. BuildOK'
  BY <1>0, <1>2, <1>6, <1>17, SpawnBuilds DEF d
<1>19. AnswerOK'
  BY <1>0, <1>2, <1>6, <1>10, <1>17, SpawnAnswers
<1> QED
  BY <1>4, <1>5, <1>8, <1>12, <1>15, <1>16, <1>18, <1>19 DEF DispatchInv

-----------------------------------------------------------------------------
(* The theorems *)

LEMMA InvInit ==
    ASSUME Init, keys \in [Req -> Seq(Question)], respCh = [r \in Req |-> None]
    PROVE  DispatchInv
<1> USE DEF Init
<1>1. \A e : Charged(e) = {}
  BY DEF Charged, Calling
<1>2. PickOK
  BY DEF PickOK, Labels, Calling
<1>3. EngineOK
  BY <1>1, FS_EmptySet DEF EngineOK
<1>4. BatchOK
  <2>1. <<>> \in Seq(Req)
    OBVIOUS
  <2> QED
    BY <2>1, ElemsEmpty DEF BatchOK
<1>5. ReplyOK
  BY ElemsEmpty DEF ReplyOK
<1>6. SentOK
  BY DEF SentOK
<1>7. CountOK
  <2>1. Counted = {}
    BY DEF Counted, CountedOf
  <2> QED
    BY <2>1, FS_EmptySet DEF CountOK
<1>8. BuildOK
  <2>1. BuildTypes
    <3>1. <<>> \in Seq(Entry) /\ <<>> \in Seq(Req) /\ DOMAIN <<>> = {}
      OBVIOUS
    <3> QED
      BY <3>1 DEF BuildTypes
  <2>2. ASSUME NEW d \in Req PROVE Gathered(d)
    <3>1. /\ ch[d] = <<>> /\ local[d] = <<>> /\ built[d] = <<>> /\ dbatch[d] = <<>>
          /\ dpc[d] = "none" /\ DOMAIN <<>> = {}
      OBVIOUS
    <3>2. Got(d) = {}
      BY <3>1, ElemsEmpty DEF Got
    <3> QED
      BY <3>1, <3>2, ElemsEmpty DEF Gathered
  <2> QED
    BY <2>1, <2>2 DEF BuildOK
<1>9. AnswerOK
  BY DEF AnswerOK
<1> QED
  BY <1>2, <1>3, <1>4, <1>5, <1>6, <1>7, <1>8, <1>9 DEF DispatchInv

LEMMA DispatchStep ==
    ASSUME DispatchInv, NEW d \in Req, Step(d)
    PROVE  DispatchInv'
  BY PickStep, EngineStep, BatchStep, ReplyStep, SentStep, CountStep, BuildStep, AnswerStep
     DEF DispatchInv

(* Nothing happens to the goroutines; other requests may get their questions.*)
LEMMA DispatchSame ==
    ASSUME DispatchInv, UNCHANGED <<dpc, buildVars, pickVars, runVars, replyVars>>,
           keys' \in [Req -> Seq(Question)],
           \A d \in Req : \A r \in Elems(dbatch[d]) : keys'[r] = keys[r]
    PROVE  DispatchInv'
<1>1. UNCHANGED <<dpc, dbatch, grp, cand, ei, gpuSeq, inflight, owner, rows, answers, next,
                  respCh, statErr, ch, local, built>>
  BY DEF buildVars, pickVars, runVars, replyVars
<1>2. PickOK' /\ BatchOK'
  BY <1>1 DEF DispatchInv, PickOK, BatchOK
<1>3. EngineOK'
  BY <1>1, EngineSame DEF DispatchInv
<1>4. ReplyOK'
  BY <1>1 DEF DispatchInv, ReplyOK, ReplyTo, Spawned
<1>5. SentOK'
  BY <1>1 DEF DispatchInv, SentOK, ReplyTo
<1>6. CountOK'
  BY <1>1, CountSame DEF DispatchInv, CountedOf, FailedIn
<1>7. BuildOK'
  BY <1>1, BuildSame DEF DispatchInv
<1>8. AnswerOK'
  <2>1. \A d \in Req : \A r \in Elems(dbatch[d]) : OwnAnswers(r)' = OwnAnswers(r)
    BY OwnSame
  <2> QED
    BY <1>1, <2>1 DEF DispatchInv, AnswerOK
<1> QED
  BY <1>2, <1>3, <1>4, <1>5, <1>6, <1>7, <1>8 DEF DispatchInv

LEMMA InvNext == DispatchInv /\ [Next]_vars => DispatchInv'
<1> SUFFICES ASSUME DispatchInv, [Next]_vars PROVE DispatchInv'
  OBVIOUS
<1>1. CASE SubmitBatch
  <2>1. PICK b \in Batches : Spawn(b) /\ keys' = keys
    BY <1>1 DEF SubmitBatch
  <2> QED
    BY <2>1, NewBatch, SpawnKeeps
<1>2. ASSUME NEW d \in Req, Step(d) PROVE DispatchInv'
  BY <1>2, DispatchStep
<1>3. CASE UNCHANGED vars
  <2>1. keys \in [Req -> Seq(Question)]
    BY DEF DispatchInv, BuildOK, BuildTypes
  <2> QED
    BY <1>3, <2>1, DispatchSame DEF vars, replyVars
<1> QED
  BY <1>1, <1>2, <1>3 DEF Next, Rest

(* The inductive invariant of the dispatch goroutines, types included.       *)
THEOREM DispatchInvariant == Spec => []DispatchInv
<1>1. Start => DispatchInv
  BY InvInit, BodyAssumption DEF Start
<1> QED
  BY <1>1, InvNext, PTL DEF Spec

(* engine.go:153: an engine is in one call at a time, and the caller holds   *)
(* its mutex.                                                                *)
THEOREM EngineExclusive == Spec => []OneCallPerEngine
<1>1. DispatchInv => OneCallPerEngine
  BY DEF DispatchInv, EngineOK, OneCallPerEngine
<1> QED
  BY <1>1, DispatchInvariant, PTL

(* engInflight of an engine is the number of goroutines between Add(1) and   *)
(* Add(-1), so it returns to zero and never falls below.                     *)
THEOREM InflightCounts == Spec => []InflightExact
<1>1. DispatchInv => InflightExact
  BY DEF DispatchInv, EngineOK, InflightExact, Charged, Calling
<1> QED
  BY <1>1, DispatchInvariant, PTL

(* main.go:163-241: a 200 carries the valid questions of its own request and *)
(* no other, each from the engine row of its own item, whatever the order    *)
(* in which the workers merged what they built.                              *)
THEOREM AnswersToTheirOwn == Spec => []AnswersAreOwn
<1>1. DispatchInv => AnswersAreOwn
  <2> SUFFICES ASSUME DispatchInv, NEW r \in Req, RepliedWith(r, 200)
               PROVE  ValidKeys(r) # {} /\ respCh[r].answers = OwnAnswers(r)
    BY DEF AnswersAreOwn, OwnAnswers
  <2>1. respCh[r] # None /\ respCh[r].code = 200
    BY DEF RepliedWith
  <2>2. PICK d \in Req : r \in Elems(dbatch[d])
    BY <2>1 DEF DispatchInv, ReplyOK, Spawned
  <2>3. dpc[d] \in {"reply", "done"} /\ respCh[r] = ReplyTo(d, r)
    BY <2>1, <2>2 DEF DispatchInv, ReplyOK
  <2>4. rows[d] # None /\ answers[d][r] # NoAnswers /\ respCh[r].answers = answers[d][r]
    BY <2>1, <2>3 DEF ReplyTo, Answered, Failed
  <2>5. answers[d][r] = OwnAnswers(r)
    BY <2>2, <2>3, <2>4 DEF DispatchInv, AnswerOK
  <2>6. ValidKeys(r) = {} => OwnAnswers(r) = NoAnswers
    BY DEF OwnAnswers, NoAnswers
  <2> QED
    BY <2>4, <2>5, <2>6
<1> QED
  BY <1>1, DispatchInvariant, PTL

(* A failed call is the failure of its whole batch.                          *)
THEOREM BatchFailsAsOne == Spec => []CallFailsAsOne
<1>1. DispatchInv => CallFailsAsOne
  <2> SUFFICES ASSUME DispatchInv, NEW d \in Req, NEW r \in Elems(dbatch[d]),
                      NEW s \in Elems(dbatch[d]), RepliedWith(r, 502), respCh[s] # None
               PROVE  RepliedWith(s, 502)
    BY DEF CallFailsAsOne
  <2>1. respCh[r] = ReplyTo(d, r) /\ respCh[s] = ReplyTo(d, s)
    BY DEF DispatchInv, ReplyOK, RepliedWith
  <2>2. rows[d] = None
    BY <2>1 DEF RepliedWith, ReplyTo, Answered, Failed
  <2> QED
    BY <2>1, <2>2 DEF RepliedWith, ReplyTo, Failed
<1> QED
  BY <1>1, DispatchInvariant, PTL

(* respCh holds one result, and no send finds it full.                       *)
THEOREM RepliesNeverBlock == Spec => []NeverBlocksOnReply
<1>1. DispatchInv => NeverBlocksOnReply
  <2> SUFFICES ASSUME DispatchInv, NEW d \in Req, next[d] <= Len(dbatch[d])
               PROVE  respCh[dbatch[d][next[d]]] = None
    BY DEF NeverBlocksOnReply
  <2>1. next[d] \in DOMAIN dbatch[d]
    BY DEF DispatchInv, ReplyOK, BatchOK
  <2> QED
    BY <2>1 DEF DispatchInv, SentOK
<1> QED
  BY <1>1, DispatchInvariant, PTL

(* statErr is never behind the 502s that clients have seen, and is the       *)
(* number of failed requests when no goroutine is at work.                   *)
THEOREM ErrorsExact == Spec => []ErrorsCounted
<1>1. DispatchInv => ErrorsCounted
  <2> SUFFICES ASSUME DispatchInv PROVE ErrorsCounted
    OBVIOUS
  <2>0. IsFiniteSet(Counted) /\ statErr = Cardinality(Counted)
    BY DEF DispatchInv, CountOK
  <2>1. ASSUME NEW r \in Req, respCh[r] # None
        PROVE  \E d \in Req : /\ r \in Elems(dbatch[d]) /\ dpc[d] \in {"reply", "done"}
                              /\ respCh[r] = ReplyTo(d, r)
    <3>1. r \in Spawned
      BY <2>1 DEF DispatchInv, ReplyOK
    <3> QED
      BY <2>1, <3>1 DEF DispatchInv, ReplyOK, Spawned
  <2>2. {r \in Req : RepliedWith(r, 502)} \in SUBSET Counted
    <3>1. ASSUME NEW r \in Req, RepliedWith(r, 502) PROVE r \in Counted
      <4>1. PICK d \in Req : /\ r \in Elems(dbatch[d]) /\ dpc[d] \in {"reply", "done"}
                             /\ respCh[r] = ReplyTo(d, r)
        BY <2>1, <3>1 DEF RepliedWith
      <4>2. rows[d] = None
        BY <3>1, <4>1 DEF RepliedWith, ReplyTo, Answered, Failed
      <4> QED
        BY <4>1, <4>2 DEF Counted, CountedOf
    <3> QED
      BY <3>1
  <2>3. Cardinality({r \in Req : RepliedWith(r, 502)}) <= statErr
    BY <2>0, <2>2, FS_Subset
  <2>4. ASSUME \A d \in Req : dpc[d] \in {"none", "done"} PROVE Counted = Erring
    <3>1. ASSUME NEW r \in Erring PROVE r \in Counted
      <4>1. PICK d \in Req : /\ r \in Elems(dbatch[d]) /\ dpc[d] \in {"reply", "done"}
                             /\ respCh[r] = ReplyTo(d, r)
        BY <2>1, <3>1 DEF Erring
      <4>2. dpc[d] = "done"
        BY <2>4, <4>1
      <4>3. rows[d] = None \/ answers[d][r] = NoAnswers
        BY <3>1, <4>1 DEF Erring, ReplyTo, Answered
      <4> QED
        BY <4>1, <4>2, <4>3 DEF Counted, CountedOf, FailedIn
    <3>2. ASSUME NEW d \in Req, NEW r \in CountedOf(d) PROVE r \in Erring
      <4>1. dpc[d] = "done" /\ r \in Elems(dbatch[d])
        BY <2>4, <3>2 DEF CountedOf, FailedIn
      <4>2. PICK i \in DOMAIN dbatch[d] : dbatch[d][i] = r
        BY <4>1 DEF Elems
      <4>3. next[d] > Len(dbatch[d]) /\ next[d] \in Nat /\ i \in 1..Len(dbatch[d])
        BY <4>1 DEF DispatchInv, SentOK, ReplyOK, BatchOK
      <4>4. i < next[d]
        BY <4>3, <4>2 DEF DispatchInv, BatchOK
      <4>5. respCh[r] = ReplyTo(d, r)
        BY <4>2, <4>4 DEF DispatchInv, SentOK
      <4>6. respCh[r] = Failed(502) \/ respCh[r] = Failed(400)
        BY <3>2, <4>1, <4>5 DEF CountedOf, FailedIn, ReplyTo
      <4>7. r \in Req
        BY <4>1, ElemsType DEF DispatchInv, BatchOK
      <4> QED
        BY <4>6, <4>7, NilAssumption DEF Erring, Failed
    <3> QED
      BY <3>1, <3>2 DEF Counted
  <2> QED
    BY <2>0, <2>3, <2>4 DEF ErrorsCounted
<1> QED
  BY <1>1, DispatchInvariant, PTL
=============================================================================
