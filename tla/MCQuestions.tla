----------------------------- MODULE MCQuestions ------------------------------
(* Every type, one that is unknown, and none; criteria of every shape, with  *)
(* repeated, blank and missing entries; rows with ties, rows too short, rows *)
(* with logits that are infinite or no numbers; temperatures that are        *)
(* missing, not a number, negative, zero, small and large. For the texts,    *)
(* pairs of values: strings with the characters that are escaped and those   *)
(* they are escaped to, and arrays and objects, one inside another.          *)
EXTENDS Questions

a == Str(<<"a">>)
b == Str(<<"b">>)
c == Str(<<"c">>)
ask == Str(<<"ask">>)

Objects == {Doc(<<>>),
            Doc(<<<<b.s, Null>>, <<a.s, Arr(<<c>>)>>>>),
            Doc(<<<<a.s, b>>, <<b.s, Null>>, <<a.s, c>>>>),
            Doc(<<<<True, b>>, <<False, Str(<<>>)>>>>),
            Doc(<<<<True, b>>>>)}
Arrays == {Arr(<<>>), Arr(<<a>>), Arr(<<a, b, a>>), Arr(<<b, Num("1"), Null>>)}

Types == {"choice", "score", "noul", "rank", Nil}
Even == <<0, 0>>
Answered ==
    [def : [type : Types, instructions : {ask, Null}, criteria : Objects \cup Arrays \cup {Null, a}],
     row : [1..3 -> {-1, 0, 1}], act : {Even}, temp : {Nil, NaN, -10, 0, 10, 100}]
Measured ==
    [def : [type : Types, instructions : {ask}, criteria : Objects \cup Arrays \cup {Null, a}],
     row : UNION {[1..k -> {0, 1, PosInf, NegInf, NaN}] : k \in 1..3}, act : {Even}, temp : {Nil}]
Acting ==
    [def : [type : {"noul", "rank"}, instructions : {ask}, criteria : {Null}],
     row : {Even, <<NaN, 0>>}, act : [1..2 -> {0, 1, PosInf, NegInf, NaN}], temp : {Nil}]

Strings == {Str(s) : s \in Seqs!BoundedSeq({"n", Quote, Slash, "NL", "BS", Comma}, 2)}
Wrapped == {Arr(<<s>>) : s \in Strings} \cup {Doc(<<<<s.s, Null>>>>) : s \in Strings}
Nested ==
    {Arr(<<>>), Doc(<<>>), Arr(<<a, b>>), Arr(<<Arr(<<a>>), b>>), Arr(<<a, Arr(<<b>>)>>),
     Arr(<<Str(<<Quote, Comma, Blank, Quote>>)>>), Arr(<<Num("1")>>), Arr(<<Str(<<"1">>)>>),
     Doc(<<<<a.s, Null>>, <<b.s, Null>>>>), Doc(<<<<b.s, Null>>, <<a.s, Null>>>>),
     Doc(<<<<a.s, b>>, <<a.s, Null>>>>)}
Tables == {Doc(<<<<a.s, x>>, <<b.s, y>>>>) : x, y \in Wrapped \cup Nested}
Purpose == Doc(<<<<a.s, b>>>>)
Written ==
    [def : [type : {"choice"}, instructions : {Purpose}, criteria : Tables],
     row : {<<0, 1>>}, act : {Even}, temp : {Nil}]

Scraps ==
    {a, b, c, ask, Null, Num("1"), Str(<<"1">>), Str(<<>>), Str(<<Quote, Comma, Blank, Quote>>),
     Arr(<<b>>), Arr(<<c>>)}

Everything == Scraps \cup Strings \cup Objects \cup Arrays \cup Wrapped \cup Nested \cup Tables \cup {Purpose}

MCAlphabet == {"a", "b", "c", "ask", "n", "1", "true", "false", Quote, Slash, "NL", "BS", Comma, Blank}
MCLiterals == {"1"}
MCDocs == Everything
MCInputs == Answered \cup Measured \cup Acting \cup Written
=============================================================================
