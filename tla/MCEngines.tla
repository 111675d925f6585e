------------------------------- MODULE MCEngines ------------------------------
(* Lists of up to three entries, of two GPUs and empty ones, with no limit,  *)
(* one for all, or one each of which one means none; two goroutines that call*)
(* the engines. Three tensors stand for the seven, as they are all made and  *)
(* destroyed alike.                                                          *)
EXTENDS Engines

CONSTANTS g0, g1

MCGPU == {g0, g1}
MCLimit == {-1, 2}
MCDefaultGPUs == <<g0, g1>>
MCGpuLists == UNION {[1..n -> MCGPU \cup {Empty}] : n \in 1..3}
MCLimitLists == {<<Empty>>, <<2>>, <<Junk, -1, 2>>}
=============================================================================
