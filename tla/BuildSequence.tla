---------------------------- MODULE BuildSequence -----------------------------
(* BuildSequence of go/layago/sequence.go: one question about one state as   *)
(* the token sequence the model reads. The text is left out: a question is   *)
(* the number of tokens of its instructions and of each option, a state a    *)
(* number of tokens, and a token is named by the part it comes from.         *)
EXTENDS Lists

CONSTANTS
    MaxLen,        (* cfg.MaxLen                                               *)
    HeadMaxLen,    (* cfg.HeadMaxLen, for the instructions and options         *)
    OptionCap,     (* 48: no option is longer                                  *)
    HeadRoom,      (* 16: what crowded options must leave to the instructions  *)
    OptionMin,     (* 4: what crowding leaves of an option                     *)
    HeadMin        (* 8: what it leaves of the instructions                    *)

ASSUME LengthAssumption ==
    /\ {MaxLen, HeadMaxLen, OptionCap, HeadRoom, OptionMin, HeadMin} \subseteq Nat
    /\ HeadMin <= HeadRoom

AtMost(m, n) == IF m < n THEN m ELSE n
AtLeast(m, n) == IF m > n THEN m ELSE n
Sum(lens) ==
    LET sum[j \in 0..Len(lens)] == IF j = 0 THEN 0 ELSE sum[j - 1] + lens[j]
    IN  sum[Len(lens)]

-----------------------------------------------------------------------------

Capped(q) == [j \in DOMAIN q.options |-> AtMost(q.options[j], OptionCap)]

PerOption(q) ==
    AtLeast((HeadMaxLen - HeadRoom) \div AtLeast(1, Len(q.options)), OptionMin)

(* Options that crowd out the instructions are cut to equal shares.          *)
OptionLens(q) ==
    IF HeadMaxLen - Sum(Capped(q)) >= HeadRoom THEN Capped(q)
    ELSE [j \in DOMAIN q.options |-> AtMost(Capped(q)[j], PerOption(q))]

HeadLen(q) == AtMost(q.head, AtLeast(HeadMin, HeadMaxLen - Sum(OptionLens(q))))

Part(name, n) == [i \in 1..n |-> <<name, i>>]
Option(q, j) == <<<<"mask", j>>>> \o [i \in 1..OptionLens(q)[j] |-> <<"option", j, i>>]

(* The sequence up to the j-th option, and up to the state: [CLS]            *)
(* instructions [SEP] options [SEP].                                         *)
Upto(q, j) ==
    <<<<"cls">>>> \o Part("head", HeadLen(q)) \o <<<<"sep">>>>
        \o Seqs!FlattenSeq([h \in 1..j |-> Option(q, h)])
Header(q) == Upto(q, Len(q.options)) \o <<<<"sep">>>>

(* len(ids), counted from 0, when the mask token of option j is appended.    *)
Marker(q, j) == Len(Upto(q, j - 1))

(* Markers that fit.                                                        *)
Markers(q) ==
    LET kept[j \in 0..Len(q.options)] ==
            IF j = 0 THEN <<>>
            ELSE IF Marker(q, j) < MaxLen THEN Append(kept[j - 1], Marker(q, j))
            ELSE kept[j - 1]
    IN  kept[Len(q.options)]

(* Fault: the last separator is not provided for.                            *)
RoomNoSep(q) == AtLeast(0, MaxLen - Len(Header(q)))

Room(q) == AtLeast(0, MaxLen - Len(Header(q)) - 1)

(* The state takes the room that is left, and what is still too long is cut: *)
(* tokens at the end, and with them the markers beyond it.                   *)
Build(q, state) ==
    LET ids == Header(q) \o Part("state", AtMost(state, Room(q))) \o <<<<"sep">>>>
    IN  [ids |-> SubSeq(ids, 1, AtMost(Len(ids), MaxLen)),
         markers |-> Markers(q)]
=============================================================================
