------------------------------- MODULE MCBench --------------------------------
(* Two workers over three ticks, the first of them warm-up. A round trip     *)
(* within the SLO takes one tick, a late one two, and latCh has room for     *)
(* fewer latencies than a run can have. A run has at most four answers after *)
(* the warm-up, of which half have to be within the SLO: so it passes with   *)
(* none late, or just enough.                                                *)
EXTENDS Bench
=============================================================================
