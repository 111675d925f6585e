----------------------------- MODULE MCDispatch ------------------------------
(* Three requests over two GPUs, the first with two engines; bodies of valid,*)
(* invalid and repeated questions.                                           *)
EXTENDS Dispatch, TLC

CONSTANTS qa, qb, qx, qy, qp, qs, e1, e2, e3

MCQuestion == {qa, qb, qx, qy, qp, qs}
MCKind == [q \in MCQuestion |->
    CASE q = qx -> "invalid"
      [] q = qy -> "panicBuild" [] q = qp -> "panicAnswer" [] q = qs -> "short"
      [] OTHER -> "ok"]
MCBodies == {<<qx>>, <<qx, qa>>, <<qa, qa, qb>>, <<qp>>, <<qs>>, <<qa, qy>>}
RequestSymmetry == Permutations(Req)
MCEngine == {e1, e2, e3}
MCGroups == <<<<e1, e2>>, <<e3>>>>
=============================================================================
