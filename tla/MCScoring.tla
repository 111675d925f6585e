------------------------------ MODULE MCScoring -------------------------------
(* Batches of one or two questions of none to four options, some too long, in  *)
(* windows small enough for every cut to happen: options capped, options     *)
(* sharing a crowded head, a state cut, a header longer than the window.     *)
EXTENDS Scoring

OptionLists == UNION {[1..n -> {1, 3}] : n \in 0..4}
MCItems == {[head |-> h, options |-> o] : h \in {1, 4}, o \in OptionLists}
MCStates == {0, 2, 9}
=============================================================================
