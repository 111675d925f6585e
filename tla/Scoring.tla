------------------------------- MODULE Scoring --------------------------------
(* The path of one engine batch through go/layago: BuildSequence for each    *)
(* question, Run, which packs the items into tensors of equal rows, and      *)
(* AnswerOne, which reads the logits of a question's options back out of its *)
(* row. The model itself is external: the logit of a marker is named by the  *)
(* row and the token it points at.                                           *)
EXTENDS BuildSequence

CONSTANTS
    Questions,     (* records of head, a length, and options, lengths          *)
    States,        (* lengths of states                                        *)
    BatchSize      (* the largest number of questions of a batch               *)

ASSUME ShapeAssumption ==
    /\ Questions \subseteq [head : Nat, options : Seq(Nat)]
    /\ States \subseteq Nat /\ BatchSize \in Nat

VARIABLES
    phase,         (* "build", "run", "answer", "done", or "panic"             *)
    asked,         (* the batch: pairs of a question and a state               *)
    items,         (* the items built so far                                   *)
    tensors,       (* ids and mask of n*L entries, marker_pos and marker_mask  *)
                   (* of n*K, once packed                                      *)
    answered       (* for each question answered so far, the logits behind the *)
                   (* probabilities of its options                             *)

scoreVars == <<phase, asked, items, tensors, answered>>

Unset == [L |-> 0, K |-> 0, ids |-> <<>>, att |-> <<>>, mpos |-> <<>>, mmask |-> <<>>]

ScoreInit ==
    /\ phase = "build"
    /\ asked \in UNION {[1..n -> Questions \X States] : n \in 1..BatchSize}
    /\ items = <<>>
    /\ tensors = Unset
    /\ answered = <<>>

BuildNext ==
    /\ phase = "build"
    /\ LET a == asked[Len(items) + 1] IN items' = Append(items, Build(a[1], a[2]))
    /\ phase' = IF Len(items') = Len(asked) THEN "run" ELSE "build"
    /\ UNCHANGED <<asked, tensors, answered>>

-----------------------------------------------------------------------------
(* Run *)

Longest(seqs) == LET lens == {Len(seqs[i]) : i \in DOMAIN seqs}
                 IN  CHOOSE n \in lens : \A m \in lens : m <= n

(* Row i of a flat tensor begins at i*width; what no row writes stays zero.  *)
Packed(seqs, width, fill) ==
    [p \in 0..(Len(seqs) * width - 1) |->
        IF \E i \in DOMAIN seqs : p - (i - 1) * width \in 0..(Len(seqs[i]) - 1)
        THEN LET i == CHOOSE i \in DOMAIN seqs : p - (i - 1) * width \in 0..(Len(seqs[i]) - 1)
             IN  seqs[i][p - (i - 1) * width + 1]
        ELSE fill]

Zero == <<"zero">>
Ones(seqs) == [i \in DOMAIN seqs |-> [j \in DOMAIN seqs[i] |-> 1]]
Filled ==
    LET ids == [i \in DOMAIN items |-> items[i].ids]
        markers == [i \in DOMAIN items |-> items[i].markers]
        L == Longest(ids)
        K == AtLeast(1, Longest(markers))
    IN  [L |-> L, K |-> K,
         ids |-> Packed(ids, L, Zero),
         att |-> Packed(Ones(ids), L, 0),
         mpos |-> Packed(markers, K, 0),
         mmask |-> Packed(Ones(markers), K, 0)]

Run ==
    /\ phase = "run"
    /\ tensors' = Filled
    /\ phase' = "answer"
    /\ UNCHANGED <<asked, items, answered>>

(* What the model scores at an entry of marker_pos: the token the marker     *)
(* points at in its row, or nothing where marker_mask is 0.                  *)
Logit(p) ==
    LET row == p \div tensors.K IN
    IF tensors.mmask[p] = 1
    THEN <<row + 1, tensors.ids[row * tensors.L + tensors.mpos[p]]>>
    ELSE <<row + 1, Zero>>

-----------------------------------------------------------------------------
(* AnswerOne *)

(* Fault: rows are as wide as the question has options.                      *)
RowByOptions(i, k) == [j \in 1..AtMost(k, tensors.K) |-> Logit((i - 1) * k + j - 1)]

(* logits[vi*K : vi*K+K]                                                     *)
Row(i, k) == [j \in 1..tensors.K |-> Logit((i - 1) * tensors.K + j - 1)]

AnswerNext ==
    LET i == Len(answered) + 1
        k == AtLeast(1, Len(asked[i][1].options))
    IN  /\ phase = "answer"
        /\ k <= tensors.K
        /\ answered' = Append(answered, SubSeq(Row(i, k), 1, k))
        /\ phase' = IF Len(answered') = Len(asked) THEN "done" ELSE "answer"
        /\ UNCHANGED <<asked, items, tensors>>

(* row[i] beyond the row: index out of range.                                *)
RowTooShort ==
    /\ phase = "answer"
    /\ Len(asked[Len(answered) + 1][1].options) > tensors.K
    /\ phase' = "panic"
    /\ UNCHANGED <<asked, items, tensors, answered>>

ScoreRest == phase \in {"done", "panic"} /\ UNCHANGED scoreVars

ScoreNext == BuildNext \/ Run \/ AnswerNext \/ RowTooShort \/ ScoreRest

ScoreSpec == ScoreInit /\ [][ScoreNext]_scoreVars

-----------------------------------------------------------------------------
(* Properties *)

(* The state is cut only as far as MaxLen requires, and never the separator  *)
(* that ends it: a sequence whose state is cut is exactly MaxLen long.       *)
StateFillsRoom ==
    \A i \in DOMAIN items :
        LET ids == items[i].ids
            q == asked[i][1]
        IN  Len(Header(q)) < MaxLen =>
                /\ ids[Len(ids)] = <<"sep">>
                /\ Len(ids) = AtMost(MaxLen, Len(Header(q)) + asked[i][2] + 1)

(* The probability of an option comes from its own mask token in the row of  *)
(* its own question, however wide the other questions of the batch are,      *)
(* unless the sequence was too long for all of its markers.                  *)
ScoredAt(i, j) == answered[i][j] = <<i, <<"mask", j>>>>
OptionsScoredApart ==
    \A i \in DOMAIN answered :
        Len(items[i].markers) = Len(asked[i][1].options) =>
            \A j \in DOMAIN asked[i][1].options : ScoredAt(i, j)

(* "The sequence building and post-processing mirror" the Python ones, which *)
(* refuse a question that loses markers: no answer rests on an option that   *)
(* was not scored, and none runs off its row.                                *)
EveryOptionScored ==
    /\ phase # "panic"
    /\ \A i \in DOMAIN answered : \A j \in DOMAIN asked[i][1].options : ScoredAt(i, j)
=============================================================================
