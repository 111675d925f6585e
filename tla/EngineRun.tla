------------------------------ MODULE EngineRun -------------------------------
(* Engine.Run of go/layago/engine.go, as the dispatch goroutines call it: a  *)
(* channel of capacity one is the mutex of the session, and every tensor is  *)
(* memory of ONNX Runtime that only its Destroy gives back. Run defers those *)
(* one by one, so however it ends what it made is destroyed in reverse order,*)
(* and the mutex is released last. What Run computes is in Scoring.          *)
EXTENDS Integers, FiniteSets

CONSTANTS
    Caller, Engine,
    Tensors,       (* how many tensors a call makes: 5 inputs and 2 outputs    *)
    None

ASSUME TensorAssumption == Tensors \in Nat \ {0}
ASSUME NoneAssumption == None \notin Caller

VARIABLES
    pc,            (* "idle", "want", "make", "run" or "return"                *)
    eng,           (* the engine of the call                                   *)
    made,          (* how many of its tensors are to be destroyed              *)
    live,          (* the tensors that exist, by caller and number             *)
    mu             (* who has sent to the channel of each engine, or None      *)

vars == <<pc, eng, made, live, mu>>

Init ==
    /\ pc = [c \in Caller |-> "idle"]
    /\ eng \in [Caller -> Engine]
    /\ made = [c \in Caller |-> 0]
    /\ live = {}
    /\ mu = [e \in Engine |-> None]

Goto(c, label) == pc' = [pc EXCEPT ![c] = label]

Call(c) ==
    /\ pc[c] = "idle"
    /\ \E e \in Engine : eng' = [eng EXCEPT ![c] = e]
    /\ Goto(c, "want")
    /\ UNCHANGED <<made, live, mu>>

(* e.mu <- struct{}{}; an empty batch is an error right away.                *)
Acquire(c) ==
    /\ pc[c] = "want" /\ mu[eng[c]] = None
    /\ mu' = [mu EXCEPT ![eng[c]] = c]
    /\ \E label \in {"make", "return"} : Goto(c, label)
    /\ UNCHANGED <<eng, made, live>>

(* ort.NewTensor and defer Destroy, seven times.                             *)
Make(c) ==
    /\ pc[c] = "make"
    /\ made' = [made EXCEPT ![c] = @ + 1]
    /\ live' = live \cup {<<c, made[c] + 1>>}
    /\ Goto(c, IF made[c] + 1 = Tensors THEN "run" ELSE "make")
    /\ UNCHANGED <<eng, mu>>

(* Faults: an error path that leaves the last tensor out of the defers; one  *)
(* that starts over.                                                         *)
MakeFailsRetrying(c) ==
    /\ pc[c] = "make" /\ made[c] > 0
    /\ made' = [made EXCEPT ![c] = 0]
    /\ live' = {t \in live : t[1] # c}
    /\ UNCHANGED <<pc, eng, mu>>
MakeFailsLeaking(c) ==
    /\ pc[c] = "make"
    /\ made' = [made EXCEPT ![c] = IF @ > 0 THEN @ - 1 ELSE 0]
    /\ Goto(c, "return")
    /\ UNCHANGED <<eng, live, mu>>

MakeFails(c) ==
    /\ pc[c] = "make"
    /\ Goto(c, "return")
    /\ UNCHANGED <<eng, made, live, mu>>

(* The session has run, or has returned an error.                            *)
Run(c) ==
    /\ pc[c] = "run"
    /\ Goto(c, "return")
    /\ UNCHANGED <<eng, made, live, mu>>

(* A deferred Destroy.                                                       *)
Destroy(c) ==
    /\ pc[c] = "return" /\ made[c] > 0
    /\ live' = live \ {<<c, made[c]>>}
    /\ made' = [made EXCEPT ![c] = @ - 1]
    /\ UNCHANGED <<pc, eng, mu>>

(* <-e.mu, the first of the defers.                                          *)
Release(c) ==
    /\ pc[c] = "return" /\ made[c] = 0
    /\ mu' = [mu EXCEPT ![eng[c]] = None]
    /\ Goto(c, "idle")
    /\ UNCHANGED <<eng, made, live>>

Proceed(c) == Acquire(c) \/ Make(c) \/ MakeFails(c) \/ Run(c) \/ Destroy(c) \/ Release(c)

Next == \E c \in Caller : Call(c) \/ Proceed(c)

Spec == Init /\ [][Next]_vars

(* A session call ends, and the runtime serves the senders of a channel in   *)
(* the order they came: who waits for the mutex gets it.                     *)
Fairness == \A c \in Caller : WF_vars(Proceed(c)) /\ SF_vars(Acquire(c))
FairSpec == Spec /\ Fairness

-----------------------------------------------------------------------------
(* Properties *)

TypeOK ==
    /\ pc \in [Caller -> {"idle", "want", "make", "run", "return"}]
    /\ eng \in [Caller -> Engine]
    /\ made \in [Caller -> 0..Tensors]
    /\ live \subseteq Caller \X (1..Tensors)
    /\ mu \in [Engine -> Caller \cup {None}]
    /\ \A c \in Caller : pc[c] = "make" => made[c] < Tensors

(* A session is in one call at a time: the caller that holds its mutex.      *)
Inside(c) == pc[c] \in {"make", "run", "return"}
OneCallAtATime == \A c, d \in Caller : Inside(c) /\ Inside(d) /\ eng[c] = eng[d] => c = d

(* A session runs on all the tensors of its call, none of them destroyed.    *)
RunsOnLiveTensors == \A c \in Caller : pc[c] = "run" => \A k \in 1..Tensors : <<c, k>> \in live

(* However a call ends, nothing it made is left when the next caller of the  *)
(* engine starts: a tensor only exists while its caller holds the mutex.     *)
NothingLeaks == \A t \in live : mu[eng[t[1]]] = t[1]

(* The inductive invariant of EnginesProofs: the mutex of an engine is held  *)
(* by the one caller that is inside its Run, and the tensors that exist are  *)
(* the first ones of each call, up to the number it has made.                *)
MutexOK ==
    /\ \A c \in Caller : Inside(c) => mu[eng[c]] = c
    /\ \A e \in Engine : mu[e] # None => Inside(mu[e]) /\ eng[mu[e]] = e
TensorsOK ==
    /\ \A c \in Caller, k \in 1..Tensors : <<c, k>> \in live <=> k <= made[c]
    /\ \A c \in Caller : made[c] > 0 => Inside(c)
    /\ \A c \in Caller : pc[c] = "run" => made[c] = Tensors
EngineInv == TypeOK /\ MutexOK /\ TensorsOK

(* Every call returns, whatever fails in it and whoever competes for the     *)
(* engine.                                                                   *)
EveryCallReturns == \A c \in Caller : pc[c] = "want" ~> pc[c] = "idle"
=============================================================================
