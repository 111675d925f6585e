------------------------------ MODULE MCGoserve -------------------------------
(* Requests without a valid question, with some, and with the same one twice,*)
(* over one GPU with two engines.                                            *)
EXTENDS Goserve, TLC

CONSTANTS qa, qx, e1, e2

MCQuestion == {qa, qx}
MCKind == [q \in MCQuestion |-> IF q = qx THEN "invalid" ELSE "ok"]
MCBodies == {<<qx>>, <<qa, qx>>, <<qa, qa>>}
OneGroup == <<<<e1, e2>>>>
RequestSymmetry == Permutations(Req)
=============================================================================
