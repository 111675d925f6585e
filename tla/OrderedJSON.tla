----------------------------- MODULE OrderedJSON ------------------------------
(* go/layago/ordered.go: objects that keep the order of their keys, how the  *)
(* decoder grows them, and how a value becomes text for the model. A text is *)
(* a sequence of characters; of those that are escaped the model knows the   *)
(* quote, the backslash, the newline and two control characters.             *)
EXTENDS Lists

CONSTANTS
    Alphabet,      (* the characters of strings                                *)
    Literals,      (* json.Number: the literals of numbers, each one token     *)
    Docs,          (* the values that may arrive, and all that are inside them *)
    Depth          (* how deep they are nested at most                         *)

(* Documents as they arrive: an object is the pairs it lists.                *)
Str(s) == [kind |-> "str", s |-> s]
Num(l) == [kind |-> "num", lit |-> l]
Word(b) == [kind |-> "word", word |-> b]       (* true, false or null          *)
Arr(s) == [kind |-> "arr", items |-> s]
Doc(ps) == [kind |-> "doc", pairs |-> ps]
Null == Word("null")

Words == {"true", "false", "null"}
Scalars ==
    [kind : {"str"}, s : Seq(Alphabet)] \cup [kind : {"num"}, lit : Literals]
        \cup [kind : {"word"}, word : Words]
Nesting(inside) ==
    Scalars \cup [kind : {"arr"}, items : Seq(inside)]
            \cup [kind : {"doc"}, pairs : Seq(Seq(Alphabet) \X inside)]

NestedTo(n) ==
    LET upto[m \in 0..n] ==
          LET inside == IF m = 0 THEN {} ELSE upto[m - 1]
          IN  {d \in Docs : d \in Nesting(inside)}
    IN  upto[n]
ASSUME DocAssumption == Depth \in Nat /\ Docs = NestedTo(Depth)

-----------------------------------------------------------------------------
(* Obj *)

Obj(ks, M) == [kind |-> "obj", keys |-> ks, M |-> M]
Empty == Obj(<<>>, <<>>)

(* o.M[k], which is nil for a key that is not there; o.M[k] = v              *)
Lookup(o, k) == IF k \in DOMAIN o.M THEN o.M[k] ELSE Null
Stored(M, k, v) == [j \in DOMAIN M \cup {k} |-> IF j = k THEN v ELSE M[j]]

(* A key is appended whether or not the object has met it.                   *)
Appended(o, p) == Obj(Append(o.keys, p[1]), Stored(o.M, p[1], p[2]))
Object(ps) ==
    LET upto[n \in 0..Len(ps)] == IF n = 0 THEN Empty ELSE Appended(upto[n - 1], ps[n])
    IN  upto[Len(ps)]

(* decodeValue: of a value, given what is decoded of those inside it.        *)
DecodedOver(d, inside) ==
    CASE d.kind = "doc" -> Object([i \in DOMAIN d.pairs |-> <<d.pairs[i][1], inside[d.pairs[i][2]]>>])
      [] d.kind = "arr" -> Arr([i \in DOMAIN d.items |-> inside[d.items[i]]])
      [] OTHER -> d
Decoded ==
    LET upto[n \in 0..Depth] ==
          LET inside == IF n = 0 THEN <<>> ELSE upto[n - 1]
          IN  [x \in Docs |-> DecodedOver(x, inside)]
    IN  upto[Depth]
Values == {Decoded[d] : d \in Docs}

-----------------------------------------------------------------------------
(* pyDumps *)

Quote == "quote"
Slash == "backslash"
Comma == "comma"
Colon == "colon"
Blank == "blank"
Open == "open"                                   (* the braces of an object  *)
Close == "close"
ASSUME LiteralAssumption == Literals \cap (Words \cup {Quote, "[", "]", Open, Close}) = {}
Hex == [BS |-> <<"0", "8">>, ESC |-> <<"1", "b">>]

(* Fault: the backslash itself is not escaped.                               *)
EscapeSlashless(c) ==
    CASE c = Quote -> <<Slash, c>>
      [] c = "NL" -> <<Slash, "n">>
      [] c \in DOMAIN Hex -> <<Slash, "u", "0", "0">> \o Hex[c]
      [] OTHER -> <<c>>

Escape(c) ==
    CASE c \in {Quote, Slash} -> <<Slash, c>>
      [] c = "NL" -> <<Slash, "n">>
      [] c \in DOMAIN Hex -> <<Slash, "u", "0", "0">> \o Hex[c]
      [] OTHER -> <<c>>

String(s) == <<Quote>> \o Seqs!FlattenSeq([i \in DOMAIN s |-> Escape(s[i])]) \o <<Quote>>

Joined(parts) ==
    Seqs!FlattenSeq([i \in DOMAIN parts |-> (IF i > 1 THEN <<Comma, Blank>> ELSE <<>>) \o parts[i]])

(* pyDump: of a value, given the texts of those inside it.                   *)
DumpedOver(x, inside) ==
    CASE x.kind = "obj" ->
           <<Open>> \o Joined([i \in DOMAIN x.keys |->
                        String(x.keys[i]) \o <<Colon, Blank>> \o inside[x.M[x.keys[i]]]]) \o <<Close>>
      [] x.kind = "arr" -> <<"[">> \o Joined([i \in DOMAIN x.items |-> inside[x.items[i]]]) \o <<"]">>
      [] x.kind = "str" -> String(x.s)
      [] x.kind = "num" -> <<x.lit>>
      [] OTHER -> <<x.word>>
Dumped ==
    LET upto[n \in 0..Depth] ==
          LET inside == IF n = 0 THEN <<>> ELSE upto[n - 1]
          IN  [x \in Values |-> DumpedOver(x, inside)]
    IN  upto[Depth]

(* serializeState and renderCriterion: a string is its own text.             *)
Text(x) == IF x.kind = "str" THEN x.s ELSE Dumped[x]
=============================================================================
