---------------------------- MODULE EnginesProofs -----------------------------
(* What EngineRun guarantees for any number of callers, engines and tensors, *)
(* and StartUp for every environment, whatever call of ONNX Runtime fails.   *)
EXTENDS Engines, ListLemmas

-----------------------------------------------------------------------------
(* The calls of the engines *)

LEMMA EngineInit == Init => EngineInv
<1> SUFFICES ASSUME Init PROVE EngineInv
  OBVIOUS
<1>1. TypeOK
  BY TensorAssumption DEF Init, TypeOK
<1>2. MutexOK
  BY DEF Init, MutexOK, Inside
<1>3. TensorsOK
  BY TensorAssumption DEF Init, TensorsOK
<1> QED
  BY <1>1, <1>2, <1>3 DEF EngineInv

(* Types.                                                                    *)
LEMMA EngineTypes ==
    ASSUME EngineInv, NEW c \in Caller, Call(c) \/ Proceed(c)
    PROVE  TypeOK'
<1> USE TensorAssumption DEF EngineInv, TypeOK, Goto
<1>1. CASE Call(c)
  BY <1>1 DEF Call
<1>2. CASE Acquire(c)
  BY <1>2 DEF Acquire, TensorsOK, Inside
<1>3. CASE Make(c)
  <2>1. made[c] + 1 \in 1..Tensors /\ made' \in [Caller -> 0..Tensors]
    BY <1>3 DEF Make
  <2>2. live' \subseteq Caller \X (1..Tensors)
    BY <1>3, <2>1 DEF Make
  <2>3. pc'[c] = "make" => made'[c] < Tensors
    BY <1>3, <2>1 DEF Make
  <2> QED
    BY <1>3, <2>1, <2>2, <2>3 DEF Make
<1>4. CASE MakeFails(c) \/ Run(c) \/ Release(c)
  BY <1>4 DEF MakeFails, Run, Release
<1>5. CASE Destroy(c)
  BY <1>5 DEF Destroy
<1> QED
  BY <1>1, <1>2, <1>3, <1>4, <1>5 DEF Proceed

(* A caller enters when the mutex is free and leaves when it frees it.       *)
LEMMA EngineMutex ==
    ASSUME EngineInv, NEW c \in Caller, Call(c) \/ Proceed(c)
    PROVE  MutexOK'
<1> USE NoneAssumption DEF EngineInv, TypeOK, MutexOK, Inside, Goto
<1>1. CASE Call(c)
  BY <1>1 DEF Call
<1>2. CASE Acquire(c)
  BY <1>2 DEF Acquire
<1>3. CASE Make(c)
  BY <1>3 DEF Make
<1>4. CASE MakeFails(c) \/ Run(c)
  BY <1>4 DEF MakeFails, Run
<1>5. CASE Destroy(c)
  BY <1>5 DEF Destroy
<1>6. CASE Release(c)
  BY <1>6 DEF Release
<1> QED
  BY <1>1, <1>2, <1>3, <1>4, <1>5, <1>6 DEF Proceed

(* Make adds the next tensor of its call and Destroy takes the last one.     *)
LEMMA EngineTensors ==
    ASSUME EngineInv, NEW c \in Caller, Call(c) \/ Proceed(c)
    PROVE  TensorsOK'
<1> USE TensorAssumption DEF EngineInv, TypeOK, TensorsOK, Inside, Goto
<1>1. CASE Call(c)
  BY <1>1 DEF Call
<1>2. CASE Acquire(c)
  BY <1>2 DEF Acquire
<1>3. CASE Make(c)
  BY <1>3 DEF Make
<1>4. CASE MakeFails(c) \/ Run(c)
  BY <1>4 DEF MakeFails, Run
<1>5. CASE Destroy(c)
  BY <1>5 DEF Destroy
<1>6. CASE Release(c)
  BY <1>6 DEF Release
<1> QED
  BY <1>1, <1>2, <1>3, <1>4, <1>5, <1>6 DEF Proceed

LEMMA EngineStutter == ASSUME EngineInv, UNCHANGED vars PROVE EngineInv'
BY DEF EngineInv, TypeOK, MutexOK, TensorsOK, Inside, vars

(* The invariant holds in every reachable state.                             *)
THEOREM EngineInvariant == Spec => []EngineInv
<1>1. EngineInv /\ [Next]_vars => EngineInv'
  <2> SUFFICES ASSUME EngineInv, [Next]_vars PROVE EngineInv'
    OBVIOUS
  <2>1. ASSUME NEW c \in Caller, Call(c) \/ Proceed(c) PROVE EngineInv'
    BY <2>1, EngineTypes, EngineMutex, EngineTensors DEF EngineInv
  <2> QED
    BY <2>1, EngineStutter DEF Next
<1> QED
  BY EngineInit, <1>1, PTL DEF Spec

(* No session is ever in two calls at once: the channel of capacity one is a *)
(* mutex, on every way out of Run.                                           *)
THEOREM SessionExclusive == Spec => []OneCallAtATime
<1>1. EngineInv => OneCallAtATime
  BY DEF EngineInv, MutexOK, OneCallAtATime
<1> QED
  BY <1>1, EngineInvariant, PTL

(* A forward pass finds all the tensors of its call alive.                   *)
THEOREM TensorsAlive == Spec => []RunsOnLiveTensors
<1>1. EngineInv => RunsOnLiveTensors
  BY TensorAssumption DEF EngineInv, TensorsOK, RunsOnLiveTensors
<1> QED
  BY <1>1, EngineInvariant, PTL

(* No tensor outlives the call that made it, however that call ends.         *)
THEOREM TensorsReturned == Spec => []NothingLeaks
<1>1. EngineInv => NothingLeaks
  <2> SUFFICES ASSUME EngineInv, NEW t \in live PROVE mu[eng[t[1]]] = t[1]
    BY DEF NothingLeaks
  <2>1. PICK c \in Caller, k \in 1..Tensors : t = <<c, k>>
    BY DEF EngineInv, TypeOK
  <2>2. made[c] > 0
    BY <2>1, TensorAssumption DEF EngineInv, TensorsOK, TypeOK
  <2>3. Inside(c)
    BY <2>2 DEF EngineInv, TensorsOK
  <2> QED
    BY <2>1, <2>3 DEF EngineInv, MutexOK
<1> QED
  BY <1>1, EngineInvariant, PTL

-----------------------------------------------------------------------------
(* The objects of ONNX Runtime that creating an engine takes *)

Calling == {"so", "tro", "troUpdate", "troAppend", "co", "coUpdate", "coAppend", "session"}
Stages == Calling \cup {"load", "split", "next", "collect", "group", "listen", "fatal"}

HandlesOK ==
    /\ stage \in Stages
    /\ created \in [Handles -> Nat] /\ freed \in [Handles -> Nat]
    /\ HandlesBalanced

LEMMA StepCounts ==
    ASSUME HandlesOK, NEW label, NEW makes, NEW frees,
           created' = Bump(created, makes), freed' = Bump(freed, frees)
    PROVE  /\ created' \in [Handles -> Nat] /\ freed' \in [Handles -> Nat]
           /\ \A h \in Handles : created'[h] - freed'[h] =
                 (created[h] - freed[h]) + (IF h \in makes THEN 1 ELSE 0)
                                         - (IF h \in frees THEN 1 ELSE 0)
  BY DEF HandlesOK, Bump

LEMMA HandlesStart == StartInit => HandlesOK
  BY DEF StartInit, HandlesOK, HandlesBalanced, Handles, Needed, Stages, Calling

(* What a call of ONNX Runtime makes and destroys, and whether that is what  *)
(* the stages before and after it need.                                      *)
Owed(h, kinds) == IF h \in kinds THEN 1 ELSE 0
Balances(makes, frees) ==
    \A h \in Handles \ {"sess"} :
        Owed(h, Needed)' = Owed(h, Needed) + Owed(h, makes) - Owed(h, frees)

LEMMA StepBalances ==
    ASSUME HandlesOK, NEW label \in Stages, stage' = label, NEW makes, NEW frees,
           created' = Bump(created, makes), freed' = Bump(freed, frees),
           Balances(makes, frees)
    PROVE  HandlesOK'
<1>1. /\ created' \in [Handles -> Nat] /\ freed' \in [Handles -> Nat]
      /\ \A h \in Handles : created'[h] - freed'[h] =
            (created[h] - freed[h]) + Owed(h, makes) - Owed(h, frees)
  BY StepCounts DEF Owed
<1>2. \A h \in Handles \ {"sess"} : created'[h] - freed'[h] = Owed(h, Needed)'
  BY <1>1 DEF HandlesOK, HandlesBalanced, Owed, Balances
<1> QED
  BY <1>1, <1>2 DEF HandlesOK, HandlesBalanced, Owed

LEMMA HandlesStep ==
    ASSUME HandlesOK, StartNext
    PROVE  HandlesOK'
<1>1. ASSUME UNCHANGED <<created, freed>>,
             stage' \in Stages, Needed' = Needed
      PROVE  HandlesOK'
  BY <1>1 DEF HandlesOK, HandlesBalanced
<1>2. CASE Load
  <2>1. ASSUME Step("split", {}, {}) PROVE HandlesOK'
    <3>1. stage' = "split" /\ Balances({}, {})
      BY <2>1, <1>2 DEF Step, Load, Balances, Owed, Needed, Handles
    <3> QED
      BY <2>1, <3>1, StepBalances DEF Step, Stages, Calling
  <2>2. ASSUME Step("fatal", {}, {}) PROVE HandlesOK'
    <3>1. stage' = "fatal" /\ Balances({}, {})
      BY <2>2, <1>2 DEF Step, Load, Balances, Owed, Needed, Handles
    <3> QED
      BY <2>2, <3>1, StepBalances DEF Step, Stages, Calling
  <2> QED
    BY <1>2, <2>1, <2>2 DEF Load, Fatal
<1>3. CASE NextEngine
  <2>1. ASSUME Step("so", {}, {}) PROVE HandlesOK'
    <3>1. stage' = "so" /\ Balances({}, {})
      BY <2>1, <1>3 DEF Step, NextEngine, Balances, Owed, Needed, Handles
    <3> QED
      BY <2>1, <3>1, StepBalances DEF Step, Stages, Calling
  <2> QED
    BY <1>3, <2>1 DEF NextEngine, Fatal
<1>4. CASE NewTensorRT
  <2>1. ASSUME Step("troUpdate", {"tro"}, {}) PROVE HandlesOK'
    <3>1. stage' = "troUpdate" /\ Balances({"tro"}, {})
      BY <2>1, <1>4 DEF Step, NewTensorRT, Balances, Owed, Needed, Handles
    <3> QED
      BY <2>1, <3>1, StepBalances DEF Step, Stages, Calling
  <2>2. ASSUME Step("fatal", {"tro"}, {"tro", "so"}) PROVE HandlesOK'
    <3>1. stage' = "fatal" /\ Balances({"tro"}, {"tro", "so"})
      BY <2>2, <1>4 DEF Step, NewTensorRT, Balances, Owed, Needed, Handles
    <3> QED
      BY <2>2, <3>1, StepBalances DEF Step, Stages, Calling
  <2>3. ASSUME Step("fatal", {}, {"so"}) PROVE HandlesOK'
    <3>1. stage' = "fatal" /\ Balances({}, {"so"})
      BY <2>3, <1>4 DEF Step, NewTensorRT, Balances, Owed, Needed, Handles
    <3> QED
      BY <2>3, <3>1, StepBalances DEF Step, Stages, Calling
  <2> QED
    BY <1>4, <2>1, <2>2, <2>3 DEF NewTensorRT, Fatal
<1>5. CASE UpdateTensorRT
  <2>1. ASSUME Step("troAppend", {}, {}) PROVE HandlesOK'
    <3>1. stage' = "troAppend" /\ Balances({}, {})
      BY <2>1, <1>5 DEF Step, UpdateTensorRT, Balances, Owed, Needed, Handles
    <3> QED
      BY <2>1, <3>1, StepBalances DEF Step, Stages, Calling
  <2>2. ASSUME Step("fatal", {}, {"tro", "so"}) PROVE HandlesOK'
    <3>1. stage' = "fatal" /\ Balances({}, {"tro", "so"})
      BY <2>2, <1>5 DEF Step, UpdateTensorRT, Balances, Owed, Needed, Handles
    <3> QED
      BY <2>2, <3>1, StepBalances DEF Step, Stages, Calling
  <2> QED
    BY <1>5, <2>1, <2>2 DEF UpdateTensorRT, Fatal
<1>6. CASE AppendTensorRT
  <2>1. ASSUME Step("co", {}, {"tro"}) PROVE HandlesOK'
    <3>1. stage' = "co" /\ Balances({}, {"tro"})
      BY <2>1, <1>6 DEF Step, AppendTensorRT, Balances, Owed, Needed, Handles
    <3> QED
      BY <2>1, <3>1, StepBalances DEF Step, Stages, Calling
  <2>2. ASSUME Step("fatal", {}, {"tro", "so"}) PROVE HandlesOK'
    <3>1. stage' = "fatal" /\ Balances({}, {"tro", "so"})
      BY <2>2, <1>6 DEF Step, AppendTensorRT, Balances, Owed, Needed, Handles
    <3> QED
      BY <2>2, <3>1, StepBalances DEF Step, Stages, Calling
  <2> QED
    BY <1>6, <2>1, <2>2 DEF AppendTensorRT, Fatal
<1>7. CASE NewCUDA
  <2>1. ASSUME Step("coUpdate", {"co"}, {}) PROVE HandlesOK'
    <3>1. stage' = "coUpdate" /\ Balances({"co"}, {})
      BY <2>1, <1>7 DEF Step, NewCUDA, Balances, Owed, Needed, Handles
    <3> QED
      BY <2>1, <3>1, StepBalances DEF Step, Stages, Calling
  <2>2. ASSUME Step("fatal", {}, {"so"}) PROVE HandlesOK'
    <3>1. stage' = "fatal" /\ Balances({}, {"so"})
      BY <2>2, <1>7 DEF Step, NewCUDA, Balances, Owed, Needed, Handles
    <3> QED
      BY <2>2, <3>1, StepBalances DEF Step, Stages, Calling
  <2> QED
    BY <1>7, <2>1, <2>2 DEF NewCUDA, Fatal
<1>8. CASE UpdateCUDA
  <2>1. ASSUME Step("coAppend", {}, {}) PROVE HandlesOK'
    <3>1. stage' = "coAppend" /\ Balances({}, {})
      BY <2>1, <1>8 DEF Step, UpdateCUDA, Balances, Owed, Needed, Handles
    <3> QED
      BY <2>1, <3>1, StepBalances DEF Step, Stages, Calling
  <2>2. ASSUME Step("fatal", {}, {"co", "so"}) PROVE HandlesOK'
    <3>1. stage' = "fatal" /\ Balances({}, {"co", "so"})
      BY <2>2, <1>8 DEF Step, UpdateCUDA, Balances, Owed, Needed, Handles
    <3> QED
      BY <2>2, <3>1, StepBalances DEF Step, Stages, Calling
  <2> QED
    BY <1>8, <2>1, <2>2 DEF UpdateCUDA, Fatal
<1>9. CASE AppendCUDA
  <2>1. ASSUME Step("session", {}, {"co"}) PROVE HandlesOK'
    <3>1. stage' = "session" /\ Balances({}, {"co"})
      BY <2>1, <1>9 DEF Step, AppendCUDA, Balances, Owed, Needed, Handles
    <3> QED
      BY <2>1, <3>1, StepBalances DEF Step, Stages, Calling
  <2>2. ASSUME Step("fatal", {}, {"co", "so"}) PROVE HandlesOK'
    <3>1. stage' = "fatal" /\ Balances({}, {"co", "so"})
      BY <2>2, <1>9 DEF Step, AppendCUDA, Balances, Owed, Needed, Handles
    <3> QED
      BY <2>2, <3>1, StepBalances DEF Step, Stages, Calling
  <2> QED
    BY <1>9, <2>1, <2>2 DEF AppendCUDA, Fatal
<1>10. CASE NewSessionOptions
  <2>1. ASSUME NEW label \in {"tro", "co"}, Step(label, {"so"}, {}) PROVE HandlesOK'
    <3>1. stage' = label /\ Balances({"so"}, {})
      BY <2>1, <1>10 DEF Step, NewSessionOptions, Balances, Owed, Needed, Handles
    <3> QED
      BY <2>1, <3>1, StepBalances DEF Step, Stages, Calling
  <2>2. ASSUME Step("fatal", {}, {}) PROVE HandlesOK'
    <3>1. stage' = "fatal" /\ Balances({}, {})
      BY <2>2, <1>10 DEF Step, NewSessionOptions, Balances, Owed, Needed, Handles
    <3> QED
      BY <2>2, <3>1, StepBalances DEF Step, Stages, Calling
  <2> QED
    BY <1>10, <2>1, <2>2 DEF NewSessionOptions, Fatal
<1>11. CASE NewSession
  <2>1. ASSUME NEW label \in {"next", "fatal"}, NEW makes \in {{}, {"sess"}},
               stage' = label, created' = Bump(created, makes), freed' = Bump(freed, {"so"})
        PROVE  HandlesOK'
    <3>1. Balances(makes, {"so"})
      BY <2>1, <1>11 DEF NewSession, Balances, Owed, Needed, Handles
    <3> QED
      BY <2>1, <3>1, StepBalances DEF Stages, Calling
  <2> QED
    BY <1>11, <2>1 DEF NewSession, Fatal, Step
<1>12. CASE NewEngineTRT
  BY <1>12, <1>4, <1>5, <1>6, <1>7, <1>8, <1>9, <1>10, <1>11 DEF NewEngineTRT
<1>13. CASE SplitEntry \/ SplitEnds \/ EnginesMade \/ CollectEntry \/ CollectEnds
               \/ GroupEntry \/ Listen
  <2>1. UNCHANGED <<created, freed>>
    BY <1>13 DEF SplitEntry, SplitEnds, EnginesMade, CollectEntry, CollectEnds, GroupEntry, Listen
  <2>2. {stage, stage'} \subseteq {"split", "next", "collect", "group", "listen"}
    BY <1>13 DEF SplitEntry, SplitEnds, EnginesMade, CollectEntry, CollectEnds, GroupEntry, Listen
  <2>3. stage' \in Stages /\ Needed' = Needed
    BY <2>2 DEF Needed, Stages, Calling
  <2> QED
    BY <2>1, <2>3, <1>1
<1>14. CASE StartRest
  BY <1>14, <1>1 DEF StartRest, startVars, Needed, HandlesOK
<1> QED
  BY <1>2, <1>3, <1>12, <1>13, <1>14 DEF StartNext

LEMMA HandlesStutter == ASSUME HandlesOK, UNCHANGED startVars PROVE HandlesOK'
  BY DEF HandlesOK, HandlesBalanced, Needed, startVars

(* However far NewEngineTRT gets, for any number of engines, and whatever    *)
(* runs afterwards, the options objects that exist are those still needed.   *)
THEOREM OptionsReturned == LifeSpec => []HandlesBalanced
<1>1. LifeInit => HandlesOK
  BY HandlesStart DEF LifeInit
<1>2. ASSUME HandlesOK, [LifeNext]_<<vars, startVars>> PROVE HandlesOK'
  BY <1>2, HandlesStep, HandlesStutter DEF LifeNext, Starting, Serving
<1>3. HandlesOK => HandlesBalanced
  BY DEF HandlesOK
<1> QED
  BY <1>1, <1>2, <1>3, PTL DEF LifeSpec

-----------------------------------------------------------------------------
(* The groups dispatch is given *)

Seen(n) == {engines[i].gpu : i \in 1..n}

(* s lists, each once, the engines of GPU g among the first n.               *)
Places(s, g, n) ==
    /\ s \in Seq(Nat) /\ s # <<>>
    /\ \A p, q \in DOMAIN s : s[p] = s[q] => p = q
    /\ Elems(s) = {i \in 1..n : engines[i].gpu = g}

Grouping == {"collect", "group", "listen"}

ListsOK ==
    /\ gpus \in GpuLists
    /\ devices \in Seq(GPU \cup {Empty})
    /\ engines \in Seq(Elems(engines))
    /\ at \in Nat
    /\ stage = "split" => at <= Len(Listed)
    /\ stage \notin {"load", "split", "fatal"} => devices # <<>>
    /\ stage \in Grouping => Len(engines) = Len(devices) /\ at <= Len(engines)
    /\ stage \notin Grouping \cup {"split"} => at = 0
    /\ stage \notin Grouping => DOMAIN byGPU = {} /\ groups = <<>>

CollectOK ==
    stage = "collect" =>
        /\ groups = <<>>
        /\ DOMAIN byGPU = Seen(at)
        /\ \A g \in DOMAIN byGPU : Places(byGPU[g], g, at)

GroupOK ==
    stage \in {"group", "listen"} =>
        /\ DOMAIN byGPU = Seen(Len(engines)) \ Seen(at)
        /\ \A g \in DOMAIN byGPU : Places(byGPU[g], g, Len(engines))
        /\ groups \in Seq(Seq(Nat))
        /\ \A k \in DOMAIN groups : \E g \in Seen(at) : Places(groups[k], g, Len(engines))
        /\ \A k, l \in DOMAIN groups :
              Elems(groups[k]) \cap Elems(groups[l]) # {} => k = l
        /\ \A i \in 1..at : \E k \in DOMAIN groups : i \in Elems(groups[k])
        /\ stage = "listen" => at = Len(engines)

GroupingInv == ListsOK /\ CollectOK /\ GroupOK

LEMMA ListedType ==
    ASSUME gpus \in GpuLists
    PROVE  Listed \in Seq(GPU \cup {Empty})
  BY ListAssumption, DefaultAssumption DEF Listed

LEMMA GroupingStart == StartInit => GroupingInv
  BY ElemsEmpty DEF StartInit, GroupingInv, ListsOK, CollectOK, GroupOK, Grouping

(* Whatever is done with the options of an engine leaves the lists alone.    *)
LEMMA OptionsStep ==
    ASSUME GroupingInv, UNCHANGED <<env, lists, engines>>,
           stage \notin Grouping, stage' \notin Grouping,
           stage = "split" => stage' = "split",
           stage' = "split" => stage \in {"load", "split"},
           stage \in {"load", "fatal"} => stage' \in {"load", "split", "fatal"}
    PROVE  GroupingInv'
<1>1. CollectOK' /\ GroupOK'
  BY DEF CollectOK, GroupOK, Grouping
<1>2. at = 0 => at <= Len(Listed)
  BY ListedType DEF GroupingInv, ListsOK
<1>3. /\ gpus' = gpus /\ devices' = devices /\ at' = at
      /\ engines' = engines /\ byGPU' = byGPU /\ groups' = groups
      /\ Listed' = Listed
  BY DEF env, lists, Listed
<1>4. ListsOK'
  BY <1>2, <1>3 DEF GroupingInv, ListsOK
<1> QED
  BY <1>1, <1>4 DEF GroupingInv

LEMMA SplitEntryStep == ASSUME GroupingInv, SplitEntry PROVE GroupingInv'
<1> DEFINE L == Listed
<1>1. /\ L \in Seq(GPU \cup {Empty}) /\ Listed' = L /\ stage = "split"
      /\ at < Len(L) /\ at' = at + 1 /\ stage' = stage
      /\ UNCHANGED <<gpus, engines, byGPU, groups>>
      /\ devices' = IF L[at + 1] = Empty THEN devices ELSE Append(devices, L[at + 1])
  BY ListedType DEF SplitEntry, env, Listed, GroupingInv, ListsOK
<1> HIDE DEF L
<1>2. L[at + 1] \in GPU \cup {Empty}
  BY <1>1, ElementOfSeq DEF GroupingInv, ListsOK
<1>3. devices' \in Seq(GPU \cup {Empty})
  BY <1>1, <1>2 DEF GroupingInv, ListsOK
<1>4. at' \in Nat /\ at' <= Len(L)
  BY <1>1, LenProperties DEF GroupingInv, ListsOK
<1>5. ListsOK'
  BY <1>1, <1>3, <1>4 DEF GroupingInv, ListsOK, Grouping, L
<1> QED
  BY <1>1, <1>5 DEF GroupingInv, CollectOK, GroupOK

LEMMA SplitEndsStep == ASSUME GroupingInv, SplitEnds PROVE GroupingInv'
<1>1. /\ devices' = IF devices = <<>> THEN <<Empty>> ELSE devices
      /\ stage = "split" /\ stage' = "next" /\ at' = 0
      /\ UNCHANGED <<gpus, engines, byGPU, groups>>
  BY DEF SplitEnds, env
<1>2. devices' \in Seq(GPU \cup {Empty}) /\ devices' # <<>>
  <2>1. <<Empty>> \in Seq(GPU \cup {Empty}) /\ <<Empty>> # <<>>
    OBVIOUS
  <2> QED
    BY <1>1, <2>1 DEF GroupingInv, ListsOK
<1>3. ListsOK'
  BY <1>1, <1>2 DEF GroupingInv, ListsOK, Grouping
<1> QED
  BY <1>1, <1>3 DEF GroupingInv, CollectOK, GroupOK

LEMMA NewSessionStep ==
    ASSUME GroupingInv, NEW e, engines' = Append(engines, e),
           stage = "session", stage' = "next", UNCHANGED <<env, lists>>
    PROVE  GroupingInv'
<1>1. engines' \in Seq(Elems(engines'))
  <2>1. engines \in Seq(Elems(engines) \cup {e})
    BY DEF GroupingInv, ListsOK
  <2>2. Elems(engines') = Elems(engines) \cup {e}
    BY <2>1, ElemsAppend
  <2> QED
    BY <2>1, <2>2
<1>2. /\ gpus' = gpus /\ devices' = devices /\ at' = at
      /\ byGPU' = byGPU /\ groups' = groups
  BY DEF env, lists
<1>3. ListsOK'
  BY <1>1, <1>2 DEF GroupingInv, ListsOK, Grouping
<1> QED
  BY <1>3 DEF GroupingInv, CollectOK, GroupOK

LEMMA EnginesMadeStep == ASSUME GroupingInv, EnginesMade PROVE GroupingInv'
<1>1. /\ stage = "next" /\ stage' = "collect" /\ Len(engines) = Len(devices)
      /\ UNCHANGED <<gpus, at, devices, engines, byGPU, groups>>
  BY DEF EnginesMade, env, lists
<1>2. at = 0 /\ DOMAIN byGPU = {} /\ groups = <<>>
  BY <1>1 DEF GroupingInv, ListsOK, Grouping
<1>3. ListsOK'
  BY <1>1, <1>2, LenProperties DEF GroupingInv, ListsOK, Grouping
<1>4. Seen(at)' = {}
  BY <1>1, <1>2 DEF Seen
<1> QED
  BY <1>1, <1>2, <1>3, <1>4 DEF GroupingInv, CollectOK, GroupOK

(* One more engine seen.                                                     *)
LEMMA SeenNext ==
    ASSUME NEW n \in Nat PROVE Seen(n + 1) = Seen(n) \cup {engines[n + 1].gpu}
<1>1. 1..(n + 1) = 1..n \cup {n + 1}
  OBVIOUS
<1> QED
  BY <1>1 DEF Seen

LEMMA CollectEntryStep == ASSUME GroupingInv, CollectEntry PROVE GroupingInv'
<1> DEFINE m == at + 1
           g == engines[m].gpu
           old == IF g \in DOMAIN byGPU THEN byGPU[g] ELSE <<>>
<1>1. /\ stage = "collect" /\ stage' = "collect" /\ at < Len(engines) /\ at' = m
      /\ UNCHANGED <<gpus, devices, engines, groups>>
      /\ byGPU' = [h \in DOMAIN byGPU \cup {g} |->
                     IF h = g THEN Append(old, m) ELSE byGPU[h]]
  BY DEF CollectEntry, GpuAt, env
<1>2. at \in Nat /\ m \in Nat /\ 1..m = 1..at \cup {m} /\ m \notin 1..at
  BY DEF GroupingInv, ListsOK
<1>3. /\ groups = <<>> /\ DOMAIN byGPU = Seen(at)
      /\ \A h \in DOMAIN byGPU : Places(byGPU[h], h, at)
  BY <1>1 DEF GroupingInv, CollectOK
<1>4. /\ old \in Seq(Nat)
      /\ \A p, q \in DOMAIN old : old[p] = old[q] => p = q
      /\ Elems(old) = {i \in 1..at : engines[i].gpu = g}
  <2>1. CASE g \in DOMAIN byGPU
    BY <2>1, <1>3 DEF Places
  <2>2. CASE g \notin DOMAIN byGPU
    <3>1. old = <<>> /\ Elems(old) = {}
      BY <2>2, ElemsEmpty
    <3>2. \A i \in 1..at : engines[i].gpu # g
      BY <2>2, <1>3 DEF Seen
    <3> HIDE DEF old, g
    <3>3. old \in Seq(Nat) /\ DOMAIN old = {}
      BY <3>1
    <3>4. {i \in 1..at : engines[i].gpu = g} = {}
      BY <3>2
    <3> QED
      BY <3>1, <3>3, <3>4
  <2> QED
    BY <2>1, <2>2
<1> HIDE DEF old
<1>5. Places(Append(old, m), g, m)
  <2>1. /\ Append(old, m) \in Seq(Nat) /\ Append(old, m) # <<>>
        /\ Elems(Append(old, m)) = Elems(old) \cup {m}
    BY <1>2, <1>4, ElemsAppend
  <2>2. m \notin Elems(old)
    BY <1>2, <1>4
  <2>3. \A p, q \in DOMAIN Append(old, m) :
           Append(old, m)[p] = Append(old, m)[q] => p = q
    <3>1. /\ DOMAIN Append(old, m) = DOMAIN old \cup {Len(old) + 1}
          /\ Append(old, m)[Len(old) + 1] = m
          /\ \A p \in DOMAIN old : Append(old, m)[p] = old[p]
      BY <1>2, <1>4
    <3>2. \A p \in DOMAIN old : old[p] # m
      BY <2>2 DEF Elems
    <3> QED
      BY <1>4, <3>1, <3>2
  <2>4. {i \in 1..m : engines[i].gpu = g} = {i \in 1..at : engines[i].gpu = g} \cup {m}
    BY <1>2
  <2> QED
    BY <1>4, <2>1, <2>3, <2>4 DEF Places
<1>6. ASSUME NEW h \in DOMAIN byGPU, h # g PROVE Places(byGPU[h], h, m)
  <2>1. {i \in 1..m : engines[i].gpu = h} = {i \in 1..at : engines[i].gpu = h}
    BY <1>2, <1>6
  <2> QED
    BY <1>3, <2>1 DEF Places
<1>7. CollectOK'
  <2>1. /\ \A i : Seen(i)' = Seen(i)
        /\ \A s, h, i : Places(s, h, i)' = Places(s, h, i)
    BY <1>1 DEF Seen, Places
  <2>2. Seen(m) = Seen(at) \cup {g}
    BY <1>2, SeenNext
  <2>3. DOMAIN byGPU' = Seen(m) /\ \A h \in DOMAIN byGPU' : Places(byGPU'[h], h, m)
    BY <1>1, <1>3, <1>5, <1>6, <2>2
  <2> QED
    BY <1>1, <1>3, <2>1, <2>3 DEF CollectOK
<1>8. ListsOK'
  BY <1>1, <1>2, LenProperties DEF GroupingInv, ListsOK, Grouping
<1> QED
  BY <1>1, <1>7, <1>8 DEF GroupingInv, GroupOK

LEMMA CollectEndsStep == ASSUME GroupingInv, CollectEnds PROVE GroupingInv'
<1>1. /\ stage = "collect" /\ stage' = "group" /\ at = Len(engines) /\ at' = 0
      /\ UNCHANGED <<gpus, devices, engines, byGPU, groups>>
  BY DEF CollectEnds, env
<1>2. /\ groups = <<>> /\ DOMAIN byGPU = Seen(Len(engines))
      /\ \A g \in DOMAIN byGPU : Places(byGPU[g], g, Len(engines))
  BY <1>1 DEF GroupingInv, CollectOK
<1>3. Seen(0) = {} /\ 1..0 = {}
  BY DEF Seen
<1>4. ListsOK'
  BY <1>1, <1>2, LenProperties DEF GroupingInv, ListsOK, Grouping
<1>5. /\ \A i : Seen(i)' = Seen(i)
      /\ \A s, h, i : Places(s, h, i)' = Places(s, h, i)
  BY <1>1 DEF Seen, Places
<1>6. GroupOK'
  BY <1>1, <1>2, <1>3, <1>5 DEF GroupOK
<1> QED
  BY <1>1, <1>4, <1>6 DEF GroupingInv, CollectOK

(* No engine is in the places of two GPUs.                                   *)
LEMMA PlacesApart ==
    ASSUME NEW s, NEW t, NEW g, NEW h, NEW n, Places(s, g, n), Places(t, h, n),
           Elems(s) \cap Elems(t) # {}
    PROVE  g = h
  BY DEF Places

LEMMA GroupEntryStep == ASSUME GroupingInv, GroupEntry PROVE GroupingInv'
<1> DEFINE m == at + 1
           n == Len(engines)
           g == GpuAt
<1>1. /\ stage = "group" /\ stage' = "group" /\ at < n /\ at' = m
      /\ UNCHANGED <<gpus, devices, engines>>
  BY DEF GroupEntry, env
<1>2. /\ at \in Nat /\ m \in Nat /\ n \in Nat /\ m <= n
      /\ 1..m = 1..at \cup {m} /\ m \in 1..n
  BY <1>1, LenProperties DEF GroupingInv, ListsOK
<1>3. /\ DOMAIN byGPU = Seen(n) \ Seen(at)
      /\ \A h \in DOMAIN byGPU : Places(byGPU[h], h, n)
      /\ groups \in Seq(Seq(Nat))
      /\ \A k \in DOMAIN groups : \E h \in Seen(at) : Places(groups[k], h, n)
      /\ \A k, l \in DOMAIN groups : Elems(groups[k]) \cap Elems(groups[l]) # {} => k = l
      /\ \A i \in 1..at : \E k \in DOMAIN groups : i \in Elems(groups[k])
  BY <1>1 DEF GroupingInv, GroupOK
<1>4. Seen(m) = Seen(at) \cup {g} /\ g = engines[m].gpu
  BY <1>2, SeenNext DEF GpuAt
<1>5. ListsOK'
  BY <1>1, <1>2 DEF GroupingInv, ListsOK, Grouping
<1>6. /\ \A i : Seen(i)' = Seen(i)
      /\ \A s, h, i : Places(s, h, i)' = Places(s, h, i)
      /\ Len(engines)' = n
  BY <1>1 DEF Seen, Places
<1>7. CASE g \in DOMAIN byGPU
  <2> DEFINE s == byGPU[g]
             z == Len(groups) + 1
  <2>1. /\ groups' = Append(groups, s)
        /\ byGPU' = [h \in DOMAIN byGPU \ {g} |-> byGPU[h]]
    BY <1>7 DEF GroupEntry
  <2>2. Places(s, g, n) /\ s \in Seq(Nat)
    BY <1>3, <1>7 DEF Places
  <2> HIDE DEF s
  <2>3. /\ groups' \in Seq(Seq(Nat)) /\ DOMAIN groups' = DOMAIN groups \cup {z}
        /\ z \notin DOMAIN groups /\ groups'[z] = s
        /\ \A k \in DOMAIN groups : groups'[k] = groups[k]
    BY <1>3, <2>1, <2>2
  <2> HIDE DEF z
  <2>4. \A k \in DOMAIN groups' : \E h \in Seen(m) : Places(groups'[k], h, n)
    BY <1>3, <1>4, <2>2, <2>3
  <2>5. g \notin Seen(at)
    BY <1>3, <1>7
  <2>6. \A k \in DOMAIN groups : Elems(groups[k]) \cap Elems(s) = {}
    BY <1>3, <2>2, <2>5, PlacesApart, ZenonT(20)
  <2>7. \A k, l \in DOMAIN groups' : Elems(groups'[k]) \cap Elems(groups'[l]) # {} => k = l
    BY <1>3, <2>3, <2>6
  <2>8. m \in Elems(s)
    BY <1>2, <1>4, <2>2 DEF Places
  <2>9. \A i \in 1..m : \E k \in DOMAIN groups' : i \in Elems(groups'[k])
    BY <1>2, <1>3, <2>3, <2>8, SMTT(20)
  <2>10. /\ DOMAIN byGPU' = Seen(n) \ Seen(m)
         /\ \A h \in DOMAIN byGPU' : Places(byGPU'[h], h, n)
    BY <1>3, <1>4, <2>1
  <2>11. GroupOK'
    BY <1>1, <1>6, <2>3, <2>4, <2>7, <2>9, <2>10 DEF GroupOK
  <2> QED
    BY <1>1, <1>5, <2>11 DEF GroupingInv, CollectOK
<1>8. CASE g \notin DOMAIN byGPU
  <2>1. UNCHANGED <<byGPU, groups>>
    BY <1>8 DEF GroupEntry
  <2>2. g \in Seen(n)
    BY <1>2, <1>4 DEF Seen
  <2>3. g \in Seen(at)
    BY <1>3, <1>8, <2>2
  <2>4. PICK j \in 1..at : engines[j].gpu = g
    BY <2>3 DEF Seen
  <2>5. PICK k \in DOMAIN groups : j \in Elems(groups[k])
    BY <1>3
  <2>6. m \in Elems(groups[k])
    <3>1. PICK h \in Seen(at) : Places(groups[k], h, n)
      BY <1>3
    <3>2. engines[j].gpu = h /\ Elems(groups[k]) = {i \in 1..n : engines[i].gpu = h}
      BY <2>5, <3>1 DEF Places
    <3> QED
      BY <1>2, <1>4, <2>4, <3>2
  <2>7. \A i \in 1..m : \E l \in DOMAIN groups : i \in Elems(groups[l])
    BY <1>2, <1>3, <2>6
  <2>8. Seen(m) = Seen(at)
    BY <1>4, <2>3
  <2>9. GroupOK'
    BY <1>1, <1>3, <1>6, <2>1, <2>7, <2>8 DEF GroupOK
  <2> QED
    BY <1>1, <1>5, <2>9 DEF GroupingInv, CollectOK
<1> QED
  BY <1>7, <1>8

LEMMA ListenStep == ASSUME GroupingInv, Listen PROVE GroupingInv'
<1>1. /\ stage = "group" /\ stage' = "listen" /\ at = Len(engines)
      /\ UNCHANGED <<gpus, at, devices, engines, byGPU, groups>>
  BY DEF Listen, env, lists
<1>2. ListsOK'
  BY <1>1 DEF GroupingInv, ListsOK, Grouping
<1>3. /\ \A i : Seen(i)' = Seen(i)
      /\ \A s, h, i : Places(s, h, i)' = Places(s, h, i)
  BY <1>1 DEF Seen, Places
<1>4. GroupOK'
  BY <1>1, <1>3 DEF GroupingInv, GroupOK
<1> QED
  BY <1>1, <1>2, <1>4 DEF GroupingInv, CollectOK

LEMMA GroupingStutter == ASSUME GroupingInv, UNCHANGED startVars PROVE GroupingInv'
<1>1. UNCHANGED <<gpus, stage, at, devices, engines, byGPU, groups>>
  BY DEF startVars, env, lists
<1>2. ListsOK'
  BY <1>1 DEF GroupingInv, ListsOK, Listed
<1>3. /\ \A i : Seen(i)' = Seen(i)
      /\ \A s, h, i : Places(s, h, i)' = Places(s, h, i)
  BY <1>1 DEF Seen, Places
<1>4. CollectOK' /\ GroupOK'
  BY <1>1, <1>3 DEF GroupingInv, CollectOK, GroupOK
<1> QED
  BY <1>2, <1>4 DEF GroupingInv

LEMMA GroupingStep == ASSUME GroupingInv, StartNext PROVE GroupingInv'
<1>1. CASE Load
  BY <1>1, OptionsStep DEF Load, Fatal, Step, Grouping
<1>2. CASE NextEngine
  BY <1>2, OptionsStep DEF NextEngine, Step, Grouping
<1>3. ASSUME NEW label \in Calling \cup {"fatal"}, NEW makes, NEW frees,
             Step(label, makes, frees), stage \in Calling
      PROVE  GroupingInv'
  BY <1>3, OptionsStep DEF Step, Grouping, Calling
<1>4. CASE NewSessionOptions
  BY <1>4, <1>3 DEF NewSessionOptions, Fatal, Calling
<1>5. CASE NewTensorRT
  BY <1>5, <1>3 DEF NewTensorRT, Fatal, Calling
<1>6. CASE UpdateTensorRT \/ AppendTensorRT
  BY <1>6, <1>3 DEF UpdateTensorRT, AppendTensorRT, Fatal, Calling
<1>7. CASE NewCUDA \/ UpdateCUDA \/ AppendCUDA
  BY <1>7, <1>3 DEF NewCUDA, UpdateCUDA, AppendCUDA, Fatal, Calling
<1>8. CASE NewSession
  <2>1. CASE Fatal({"so"})
    BY <1>8, <2>1, <1>3 DEF NewSession, Fatal, Calling
  <2>2. CASE ~Fatal({"so"})
    BY <1>8, <2>2, NewSessionStep DEF NewSession
  <2> QED
    BY <2>1, <2>2
<1>9. CASE NewEngineTRT
  BY <1>9, <1>4, <1>5, <1>6, <1>7, <1>8 DEF NewEngineTRT
<1>10. CASE StartRest
  BY <1>10, GroupingStutter DEF StartRest
<1> QED
  BY <1>1, <1>2, <1>9, <1>10, SplitEntryStep, SplitEndsStep, EnginesMadeStep,
     CollectEntryStep, CollectEndsStep, GroupEntryStep, ListenStep
     DEF StartNext

LEMMA GroupsListed == GroupingInv => GroupsPartition
<1> SUFFICES ASSUME GroupingInv, stage = "listen"
             PROVE  /\ groups # <<>>
                    /\ \A k \in DOMAIN groups :
                          groups[k] # <<>> /\ Elems(groups[k]) \subseteq DOMAIN engines
                    /\ \A k, l \in DOMAIN groups :
                          \A p \in DOMAIN groups[k], q \in DOMAIN groups[l] :
                             groups[k][p] = groups[l][q] => k = l /\ p = q
                    /\ \A i, j \in DOMAIN engines :
                          engines[i].gpu = engines[j].gpu
                             <=> \E k \in DOMAIN groups : {i, j} \subseteq Elems(groups[k])
  BY DEF GroupsPartition
<1> DEFINE n == Len(engines)
<1>1. n \in Nat /\ n # 0 /\ DOMAIN engines = 1..n
  <2>1. devices \in Seq(GPU \cup {Empty}) /\ devices # <<>> /\ Len(devices) = n
        /\ engines \in Seq(Elems(engines))
    BY DEF GroupingInv, ListsOK, Grouping
  <2> QED
    BY <2>1
<1>2. /\ groups \in Seq(Seq(Nat))
      /\ \A k \in DOMAIN groups : \E g \in Seen(n) : Places(groups[k], g, n)
      /\ \A k, l \in DOMAIN groups : Elems(groups[k]) \cap Elems(groups[l]) # {} => k = l
      /\ \A i \in 1..n : \E k \in DOMAIN groups : i \in Elems(groups[k])
  BY DEF GroupingInv, GroupOK
<1> HIDE DEF n
<1>3. groups # <<>>
  <2>1. 1 \in 1..n
    BY <1>1
  <2> QED
    BY <1>2, <2>1
<1>4. \A k \in DOMAIN groups : groups[k] # <<>> /\ Elems(groups[k]) \subseteq DOMAIN engines
  BY <1>1, <1>2 DEF Places
<1>5. ASSUME NEW k \in DOMAIN groups, NEW l \in DOMAIN groups,
             NEW p \in DOMAIN groups[k], NEW q \in DOMAIN groups[l],
             groups[k][p] = groups[l][q]
      PROVE  k = l /\ p = q
  <2>1. groups[k][p] \in Elems(groups[k]) \cap Elems(groups[l])
    BY <1>5 DEF Elems
  <2>2. k = l
    BY <1>2, <2>1
  <2> QED
    BY <1>2, <1>5, <2>2 DEF Places
<1>6. ASSUME NEW i \in DOMAIN engines, NEW j \in DOMAIN engines,
             engines[i].gpu = engines[j].gpu
      PROVE  \E k \in DOMAIN groups : {i, j} \subseteq Elems(groups[k])
  <2>1. PICK k \in DOMAIN groups : i \in Elems(groups[k])
    BY <1>1, <1>2
  <2>2. PICK g \in Seen(n) : Places(groups[k], g, n)
    BY <1>2
  <2>3. j \in Elems(groups[k])
    BY <1>1, <1>6, <2>1, <2>2 DEF Places
  <2> QED
    BY <2>1, <2>3
<1>7. ASSUME NEW i \in DOMAIN engines, NEW j \in DOMAIN engines,
             NEW k \in DOMAIN groups, {i, j} \subseteq Elems(groups[k])
      PROVE  engines[i].gpu = engines[j].gpu
  BY <1>2, <1>7, SMTT(20) DEF Places
<1> QED
  BY <1>3, <1>4, <1>5, <1>6, <1>7

(* For any lists of GPUs and limits: when main listens, every engine has one *)
(* place in one group, a group is one GPU, and neither the list of groups    *)
(* nor any group is empty.                                                   *)
THEOREM EnginesGrouped == LifeSpec => []GroupsPartition
<1>1. LifeInit => GroupingInv
  BY GroupingStart DEF LifeInit
<1>2. ASSUME GroupingInv, [LifeNext]_<<vars, startVars>> PROVE GroupingInv'
  BY <1>2, GroupingStep, GroupingStutter DEF LifeNext, Starting, Serving
<1> QED
  BY <1>1, <1>2, GroupsListed, PTL DEF LifeSpec

-----------------------------------------------------------------------------
(* The whole life of the engines *)

(* Up to the moment main listens no engine is called, and from then on they  *)
(* are called as EngineRun has it.                                           *)
THEOREM LifeServes == LifeSpec => Spec
<1>1. LifeInit => Init
  BY DEF LifeInit
<1>2. [LifeNext]_<<vars, startVars>> => [Next]_vars
  <2>1. ASSUME Serving PROVE Next
    BY <2>1 DEF Serving, Next
  <2> QED
    BY <2>1 DEF LifeNext, Starting
<1> QED
  BY <1>1, <1>2, PTL DEF LifeSpec, Spec

(* Every tensor that exists belongs to the caller that holds the mutex of its*)
(* engine, from the start of the process on.                                 *)
THEOREM LifeLeaksNothing == LifeSpec => []NothingLeaks
  BY LifeServes, TensorsReturned, PTL
=============================================================================
