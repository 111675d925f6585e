------------------------------- MODULE Engines --------------------------------
(* The engines of goserve from their creation to their use: main makes them  *)
(* (module StartUp), and from the moment it listens the dispatch goroutines  *)
(* call those it has made (module EngineRun); a failure before that ends the *)
(* process.                                                                  *)
EXTENDS EngineRun, StartUp

ASSUME EngineAssumption == \A gs \in GpuLists : 1..Len(gs) \subseteq Engine

LifeInit == StartInit /\ Init

Starting == StartNext /\ UNCHANGED vars

Serving ==
    /\ stage = "listen"
    /\ \E c \in Caller : Proceed(c) \/ (Call(c) /\ eng'[c] \in DOMAIN engines)
    /\ UNCHANGED startVars

LifeNext == Starting \/ Serving

LifeSpec == LifeInit /\ [][LifeNext]_<<vars, startVars>> /\ Fairness
=============================================================================
