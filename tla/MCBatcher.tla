------------------------------ MODULE MCBatcher ------------------------------
(* Requests of one, two or four questions (four are refused), a cap *)
(* of three and a channel of two: batches fill up, overflow into carry,      *)
(* expire, and the channel runs full.                                                   *)
EXTENDS Batcher, TLC

CONSTANTS q1, q2

MCKind == [q \in Question |-> "ok"]
MCBodies == {<<>>, <<q1>>, <<q1, q2>>, <<q1, q2, q1, q2>>}
RequestSymmetry == Permutations(Req)
=============================================================================
