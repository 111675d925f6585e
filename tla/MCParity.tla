------------------------------- MODULE MCParity -------------------------------
(* Fixtures of up to three lines over two ids, dumps of up to two lines,     *)
(* batches of two: lines without an entry, ids that come twice, lines too    *)
(* long for the scanner, questions that cannot be built or are not dumped,   *)
(* options with one name, none at all, fewer markers than options, and a last*)
(* batch that is not full.                                                   *)
EXTENDS ParityCheck, SequencesExt

q1 == [qid |-> "q1", type |-> "choice", seq |-> "s1", names |-> <<"a", "b">>, marks |-> 2,
       best |-> 1, probs |-> <<7, 3>>]
q2 == [qid |-> "q2", type |-> "choice", seq |-> "s2", names |-> <<"b", "c">>, marks |-> 2,
       best |-> 2, probs |-> <<4, 6>>]
noul == [qid |-> "q2", type |-> "noul", seq |-> "s2", names |-> <<"f", "t">>, marks |-> 2,
       best |-> 1, probs |-> <<8, 2>>]
again == [qid |-> "q2", type |-> "choice", seq |-> "s2", names |-> <<"b", "b">>, marks |-> 2,
       best |-> 1, probs |-> <<6, 4>>]
empty == [qid |-> "q1", type |-> "choice", seq |-> "s1", names |-> <<>>, marks |-> 0,
       best |-> 1, probs |-> <<>>]
unbuilt == [q1 EXCEPT !.seq = Nil]
short == [q1 EXCEPT !.marks = 1]

a1 == [choice |-> "a", probs |-> [a |-> 5, b |-> 5]]
a2 == [choice |-> "b", probs |-> [b |-> 9, c |-> 1]]
Entry(id, qs, answers) == [id |-> id, qs |-> qs, answers |-> answers]
Entries ==
    {Entry("f", [q1 |-> "s1", q2 |-> "s2"], [q1 |-> a1, q2 |-> a2]),
     Entry("f", [q1 |-> "s1", q2 |-> "s2"], [q1 |-> a1]),
     Entry("f", [q1 |-> "s2", q2 |-> "s2"], [q1 |-> a1]),
     Entry("f", [q1 |-> "s1"], [q1 |-> a1]),
     Entry("g", [q1 |-> "s1", q2 |-> "s2"], [q1 |-> a2, q2 |-> a2]),
     Long, Broken}
LineOf(id, qs) == [id |-> id, questions |-> qs]
Lines ==
    {LineOf("f", <<q1>>), LineOf("f", <<q1, q2>>), LineOf("f", <<noul, q1>>),
     LineOf("f", <<unbuilt>>), LineOf("f", <<q1, again>>), LineOf("f", <<empty>>), LineOf("f", <<short>>),
     LineOf("g", <<q2, q1>>), LineOf("g", <<>>), Long, Broken}

SeqRuns ==
    [mode : {"seq", "full"}, probe : {<<>>},
     dump : BoundedSeq(Entries, 2), fixtures : BoundedSeq(Lines, 3)]

(* Encodings of one or two tokens.                                           *)
Codes == {<<"x">>, <<"y">>, <<"x", "y">>, <<"x", "y", "y">>}
Short == {<<"x">>, <<"y">>}
Asked == {[head |-> h, opts |-> g, want |-> w] :
            h \in {<<<<"x">>, <<"x">>>>, <<<<"x">>, <<"y">>>>},
            g \in BoundedSeq(Codes, 2) \cup {Nil}, w \in BoundedSeq({<<"x">>, <<"x", "y">>}, 2)}
TokenProbes == {<<[state |-> <<s, <<"x">>>>, questions |-> qs]>> : s \in Short, qs \in BoundedSeq(Asked, 1)}
            \cup {<<[state |-> <<s, <<"x">>>>, questions |-> <<q>>],
                    [state |-> <<<<"x">>, <<"x">>>>, questions |-> <<>>]>> : s \in Short, q \in Asked}

MCRuns ==
    SeqRuns \cup [mode : {"tokens"}, probe : TokenProbes, dump : {<<>>}, fixtures : {<<>>}]
=============================================================================
