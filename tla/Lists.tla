-------------------------------- MODULE Lists ---------------------------------
(* Go's slices and channels as sequences.                                    *)
EXTENDS Integers, Sequences

Seqs == INSTANCE SequencesExt

(* What is in a list.                                                        *)
Elems(s) == {s[i] : i \in DOMAIN s}
=============================================================================
