-------------------------------- MODULE StartUp -------------------------------
(* main of go/goserve/main.go up to the moment it listens: one engine for    *)
(* each entry of GOSERVE_GPUS, its memory limit from GOSERVE_MEM_LIMIT, the  *)
(* engines grouped by GPU; and NewEngineTRT of go/layago/engine.go, whose    *)
(* options are objects of ONNX Runtime that are to be destroyed on every way *)
(* out. A list of the environment is the sequence of what its commas part.   *)
EXTENDS Lists

CONSTANTS
    GPU,           (* the entries of GOSERVE_GPUS that are not empty           *)
    Limit,         (* the entries of GOSERVE_MEM_LIMIT that ParseInt accepts   *)
    Empty, Junk,   (* the empty entry, an entry that ParseInt refuses          *)
    DefaultGPUs, DefaultLimit,
    GpuLists, LimitLists   (* values of the two variables, as sequences        *)

Unset == <<Empty>>
ASSUME EntryAssumption == Limit \subseteq Int /\ {Empty, Junk} \cap (GPU \cup Limit) = {}
ASSUME DefaultAssumption ==
    DefaultGPUs \in Seq(GPU) \ {<<>>} /\ DefaultLimit \in Int
ASSUME ListAssumption ==
    /\ GpuLists \subseteq Seq(GPU \cup {Empty}) \ {<<>>}
    /\ LimitLists \subseteq Seq(Limit \cup {Empty, Junk}) \ {<<>>}

Handles == {"so", "tro", "co", "sess"}

VARIABLES
    gpus, memList, trt, precisionOk,   (* the environment                      *)
    stage,         (* the loop main is in, or the next call of ONNX Runtime    *)
    at,            (* how many entries that loop has dealt with                *)
    devices,       (* out of splitComma                                        *)
    created, freed,    (* how many objects of each kind were made and destroyed*)
    engines,       (* engines, with the limit each was given                   *)
    byGPU, groups  (* engines by GPU, gpuGroups                                *)

env == <<gpus, memList, trt, precisionOk>>
lists == <<at, devices, byGPU, groups>>
startVars == <<env, stage, lists, created, freed, engines>>

StartInit ==
    /\ gpus \in GpuLists /\ memList \in LimitLists
    /\ trt \in BOOLEAN /\ precisionOk \in BOOLEAN
    /\ stage = "load"
    /\ created = [h \in Handles |-> 0] /\ freed = created
    /\ at = 0 /\ devices = <<>> /\ engines = <<>>
    /\ byGPU = [g \in {} |-> <<>>] /\ groups = <<>>

(* splitCommaInt and envIntOr of the same variable.                          *)
Parses(f) == f \notin {Empty, Junk}
MemLimits == SelectSeq(memList, Parses)
MemLimit == IF Len(memList) = 1 /\ Parses(memList[1]) THEN memList[1] ELSE DefaultLimit

LimitOf(i) == IF i <= Len(MemLimits) THEN MemLimits[i] ELSE MemLimit

(* A limit is given to the provider if it is positive.                       *)
Given(ml) == IF ml > 0 THEN ml ELSE 0

Bump(count, kinds) == [h \in Handles |-> count[h] + IF h \in kinds THEN 1 ELSE 0]
Step(label, makes, frees) ==
    /\ stage' = label
    /\ created' = Bump(created, makes)
    /\ freed' = Bump(freed, frees)
    /\ UNCHANGED <<env, lists, engines>>
Fatal(frees) == Step("fatal", {}, frees)

(* The library, the tokenizer and the configuration.                         *)
Load == stage = "load" /\ (Step("split", {}, {}) \/ Fatal({}))

(* splitComma, which gives one device without a name if there is none.       *)
Listed == IF gpus = Unset THEN DefaultGPUs ELSE gpus
SplitEntry ==
    /\ stage = "split" /\ at < Len(Listed)
    /\ devices' = IF Listed[at + 1] = Empty THEN devices ELSE Append(devices, Listed[at + 1])
    /\ at' = at + 1
    /\ UNCHANGED <<env, stage, created, freed, engines, byGPU, groups>>
SplitEnds ==
    /\ stage = "split" /\ at = Len(Listed)
    /\ devices' = IF devices = <<>> THEN <<Empty>> ELSE devices
    /\ at' = 0 /\ stage' = "next"
    /\ UNCHANGED <<env, created, freed, engines, byGPU, groups>>

NextEngine == stage = "next" /\ Len(engines) < Len(devices) /\ Step("so", {}, {})

(* NewEngineTRT, call by call.                                               *)
NewSessionOptions ==
    stage = "so" /\ (Step(IF trt THEN "tro" ELSE "co", {"so"}, {}) \/ Fatal({}))

(* Fault: an unknown precision is found before there is anything to destroy. *)
NewTensorRTKept ==
    /\ stage = "tro"
    /\ \/ precisionOk /\ Step("troUpdate", {"tro"}, {})
       \/ ~precisionOk /\ Step("fatal", {"tro"}, {"so"})
       \/ Fatal({"so"})
NewTensorRT ==
    /\ stage = "tro"
    /\ \/ precisionOk /\ Step("troUpdate", {"tro"}, {})
       \/ ~precisionOk /\ Step("fatal", {"tro"}, {"tro", "so"})
       \/ Fatal({"so"})

UpdateTensorRT == stage = "troUpdate" /\ (Step("troAppend", {}, {}) \/ Fatal({"tro", "so"}))
AppendTensorRT == stage = "troAppend" /\ (Step("co", {}, {"tro"}) \/ Fatal({"tro", "so"}))
NewCUDA == stage = "co" /\ (Step("coUpdate", {"co"}, {}) \/ Fatal({"so"}))
UpdateCUDA == stage = "coUpdate" /\ (Step("coAppend", {}, {}) \/ Fatal({"co", "so"}))
AppendCUDA == stage = "coAppend" /\ (Step("session", {}, {"co"}) \/ Fatal({"co", "so"}))

NewSession ==
    /\ stage = "session"
    /\ \/ /\ LET i == Len(engines) + 1
             IN engines' = Append(engines, [gpu |-> devices[i], limit |-> Given(LimitOf(i))])
          /\ stage' = "next"
          /\ created' = Bump(created, {"sess"}) /\ freed' = Bump(freed, {"so"})
          /\ UNCHANGED <<env, lists>>
       \/ Fatal({"so"})

NewEngineTRT ==
    \/ NewSessionOptions \/ NewTensorRT \/ UpdateTensorRT \/ AppendTensorRT
    \/ NewCUDA \/ UpdateCUDA \/ AppendCUDA \/ NewSession

(* The two loops over engineGPUs: byGPU is filled, and emptied in the order  *)
(* in which the GPUs first occur.                                            *)
EnginesMade ==
    /\ stage = "next" /\ Len(engines) = Len(devices)
    /\ stage' = "collect"
    /\ UNCHANGED <<env, lists, created, freed, engines>>

GpuAt == engines[at + 1].gpu
CollectEntry ==
    /\ stage = "collect" /\ at < Len(engines)
    /\ LET found == IF GpuAt \in DOMAIN byGPU THEN byGPU[GpuAt] ELSE <<>> IN
         byGPU' = [g \in DOMAIN byGPU \cup {GpuAt} |->
                     IF g = GpuAt THEN Append(found, at + 1) ELSE byGPU[g]]
    /\ at' = at + 1
    /\ UNCHANGED <<env, stage, devices, created, freed, engines, groups>>
CollectEnds ==
    /\ stage = "collect" /\ at = Len(engines)
    /\ at' = 0 /\ stage' = "group"
    /\ UNCHANGED <<env, devices, created, freed, engines, byGPU, groups>>

(* Fault: nothing is deleted from byGPU.                                     *)
GroupEntryKept ==
    /\ stage = "group" /\ at < Len(engines)
    /\ groups' = Append(groups, byGPU[GpuAt])
    /\ at' = at + 1
    /\ UNCHANGED <<env, stage, devices, created, freed, engines, byGPU>>
GroupEntry ==
    /\ stage = "group" /\ at < Len(engines)
    /\ IF GpuAt \in DOMAIN byGPU
       THEN /\ groups' = Append(groups, byGPU[GpuAt])
            /\ byGPU' = [g \in DOMAIN byGPU \ {GpuAt} |-> byGPU[g]]
       ELSE UNCHANGED <<byGPU, groups>>
    /\ at' = at + 1
    /\ UNCHANGED <<env, stage, devices, created, freed, engines>>
Listen ==
    /\ stage = "group" /\ at = Len(engines)
    /\ stage' = "listen"
    /\ UNCHANGED <<env, lists, created, freed, engines>>

StartRest == stage \in {"listen", "fatal"} /\ UNCHANGED startVars

StartNext ==
    \/ Load \/ SplitEntry \/ SplitEnds \/ NextEngine \/ NewEngineTRT \/ EnginesMade
    \/ CollectEntry \/ CollectEnds \/ GroupEntry \/ Listen \/ StartRest

-----------------------------------------------------------------------------
(* Properties *)

(* Whatever call of ONNX Runtime fails, the options objects that exist are   *)
(* those still needed: NewEngineTRT uses none it has destroyed, destroys none*)
(* twice, and leaves none behind.                                            *)
Needed ==
    CASE stage \in {"tro", "co", "session"} -> {"so"}
      [] stage \in {"troUpdate", "troAppend"} -> {"so", "tro"}
      [] stage \in {"coUpdate", "coAppend"} -> {"so", "co"}
      [] OTHER -> {}
HandlesBalanced ==
    \A h \in Handles \ {"sess"} : created[h] - freed[h] = IF h \in Needed THEN 1 ELSE 0

(* What dispatch takes for granted: it never divides by a number of groups   *)
(* that is zero, no group is empty, each engine has one place in one group,  *)
(* and a group is one GPU.                                                   *)
GroupsPartition ==
    stage = "listen" =>
        /\ groups # <<>>
        /\ \A k \in DOMAIN groups :
              groups[k] # <<>> /\ Elems(groups[k]) \subseteq DOMAIN engines
        /\ \A k, l \in DOMAIN groups : \A p \in DOMAIN groups[k], q \in DOMAIN groups[l] :
              groups[k][p] = groups[l][q] => k = l /\ p = q
        /\ \A i, j \in DOMAIN engines :
              engines[i].gpu = engines[j].gpu
                  <=> \E k \in DOMAIN groups : {i, j} \subseteq Elems(groups[k])
=============================================================================
