---------------------------- MODULE MCGoserveStats ----------------------------
(* Two requests with a valid question, with none at all or with one that     *)
(* panics, in one batch or two, on one engine; /stats is read once,          *)
(* between any of their steps.                                               *)
EXTENDS GoserveStats, TLC

CONSTANTS qa, qx, qp, e1

MCQuestion == {qa, qx, qp}
MCKind == [q \in MCQuestion |->
    CASE q = qx -> "invalid" [] q = qp -> "panicAnswer" [] OTHER -> "ok"]
MCBodies == {<<>>, <<qa, qx>>, <<qa, qp>>}
OneEngine == <<<<e1>>>>
=============================================================================
