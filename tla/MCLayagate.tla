------------------------------ MODULE MCLayagate ------------------------------
(* Requests that the backend answers or cannot build, in batches of up to    *)
(* two; generated ids and one that a client chose to be the same as the      *)
(* first generated one.                                                      *)
EXTENDS Layagate, TLC

CONSTANTS qa, qx

MCUnbuildable == {qx}
MCBodies == {{qa}, {qa, qx}}
MCIds == {0, 1}
RequestSymmetry == Permutations(Req)
=============================================================================
