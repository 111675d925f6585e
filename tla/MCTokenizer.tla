----------------------------- MODULE MCTokenizer ------------------------------
(* Every list of up to two merges over nine longer tokens, in any order and  *)
(* with repetitions; and lists of every split of a token, as those dumped    *)
(* from a SentencePiece model are, in any order of three or four. One of the *)
(* tokens merges make is not in the vocabulary. Texts with repeated letters, *)
(* with spaces, and with a character of two bytes, one of them without token.*)
EXTENDS Tokenizer

Long == {<<"_", "a">>, <<"a", "b">>, <<"a", "a">>, <<"b", "a">>, <<"a", "_">>,
         <<"_", "a", "b">>, <<"a", "b", "a">>, <<"a", "a", "a">>, <<"a", "b", "a", "b">>}
MCVocab == (Long \ {<<"a", "a", "a">>}) \cup {<<"_">>, <<"a">>, <<"b">>, <<"<0xC3>">>, <<"<unk>">>}
MCChars == {" ", "_", "a", "b", "x", "<0xC3>", "<0xA9>", "<unk>"}
MCBytes == [c \in {"x"} |-> <<"<0xC3>", "<0xA9>">>]

Halves(t) == {<<SubSeq(t, 1, k), SubSeq(t, k + 1, Len(t))>> : k \in 1..(Len(t) - 1)}
Splits == UNION {Halves(t) : t \in {<<"a", "b">>, <<"b", "a">>, <<"a", "b", "a">>}}
MCMerges == UNION {[1..k -> UNION {Halves(t) : t \in Long}] : k \in 0..2} \cup [1..3 -> Splits]
                \cup {ms \in [1..4 -> Splits] : \A i, j \in 1..4 : ms[i] = ms[j] => i = j}

StringsOver(alphabet, lengths) == UNION {[1..k -> alphabet] : k \in lengths}
MCTexts == StringsOver({" ", "a", "b", "x"}, 0..2) \cup StringsOver({" ", "a", "b"}, {3})
               \cup StringsOver({"a", "b"}, {5})
=============================================================================
