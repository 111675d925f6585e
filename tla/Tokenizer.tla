------------------------------ MODULE Tokenizer -------------------------------
(* Encode of go/layago/tokenizer.go: a text is split before every Metaspace, *)
(* each piece becomes a word of symbols, and the merges, lowest rank first,  *)
(* join them in place. A token is the sequence of the symbols it spells, so  *)
(* that joining strings is joining sequences.                                *)
EXTENDS Lists

CONSTANTS
    Chars,         (* the characters, and the names of byte and special tokens *)
    Space, Repl,   (* " " and the Metaspace that replaces it                   *)
    Unk,           (* "<unk>"                                                  *)
    Texts,         (* the texts to encode                                      *)
    Bytes,         (* the byte tokens of a character, in order                 *)
    Vocab,         (* the tokens of laya_vocab.json                            *)
    Merges         (* the lists of laya_merges.json: pairs of tokens by rank   *)

Tokens == Seq(Chars) \ {<<>>}

ASSUME VocabAssumption ==
    Vocab \subseteq Tokens /\ <<Unk>> \in Vocab /\ <<Repl>> \in Vocab
ASSUME MergeAssumption == Merges \subseteq Seq(Tokens \X Tokens)
ASSUME TextAssumption ==
    /\ Texts \subseteq Seq(Chars)
    /\ \A t \in Texts : \A k \in DOMAIN t :
           \/ t[k] = Space \/ <<t[k]>> \in Vocab
           \/ t[k] \in DOMAIN Bytes /\ Bytes[t[k]] \in Seq(Chars)

VARIABLES
    merges, text,
    stage,            (* "split", "piece", "scan", "merge" or "done"              *)
    pieces,        (* those not emitted yet                                    *)
    word,          (* the symbols of the first of them, an array               *)
    pair,          (* the pair being merged,                                   *)
    read, written, (* the entries read and those written                       *)
    out            (* the tokens found so far                                  *)

encodeVars == <<merges, text, stage, pieces, word, pair, read, written, out>>

EncodeInit ==
    /\ merges \in Merges /\ text \in Texts
    /\ stage = "split" /\ pieces = <<>>
    /\ word = <<>> /\ pair = <<>> /\ read = 0 /\ written = 0
    /\ out = <<>>

-----------------------------------------------------------------------------
(* Encode *)

Norm(t) ==
    LET s == [k \in DOMAIN t |-> IF t[k] = Space THEN Repl ELSE t[k]]
    IN  IF s # <<>> /\ s[1] = Repl THEN s ELSE <<Repl>> \o s

(* Every piece is a Metaspace and what follows it up to the next one.        *)
Pieces(s) ==
    LET upto[k \in 0..Len(s)] ==
            IF k = 0 THEN <<>>
            ELSE IF s[k] = Repl THEN Append(upto[k - 1], <<Repl>>)
            ELSE [upto[k - 1] EXCEPT ![Len(upto[k - 1])] = Append(@, s[k])]
    IN  upto[Len(s)]

Split ==
    /\ stage = "split"
    /\ pieces' = Pieces(Norm(text))
    /\ stage' = "piece"
    /\ UNCHANGED <<merges, text, word, pair, read, written, out>>

-----------------------------------------------------------------------------
(* encodePiece *)

Known(symbol) == IF <<symbol>> \in Vocab THEN <<symbol>> ELSE <<Unk>>

(* A character is a token of its own, or falls back to those of its bytes.   *)
Character(c) ==
    IF <<c>> \in Vocab THEN <<<<c>>>> ELSE [b \in DOMAIN Bytes[c] |-> Known(Bytes[c][b])]
Symbols(s) == Seqs!FlattenSeq([k \in DOMAIN s |-> Character(s[k])])

StartPiece ==
    /\ stage = "piece" /\ pieces # <<>>
    /\ word' = Symbols(Head(pieces))
    /\ stage' = "scan"
    /\ UNCHANGED <<merges, text, pieces, pair, read, written, out>>

(* A pair that is listed twice has the rank of its last entry.               *)
Ranks == {k \in DOMAIN merges : \A j \in DOMAIN merges : merges[j] = merges[k] => j <= k}
Places(w, k) == {j \in 1..(Len(w) - 1) : <<w[j], w[j + 1]>> = merges[k]}
Ranked(w) == {k \in Ranks : Places(w, k) # {}}

(* Fault: the first pair that has a rank.                                    *)
LeftmostPair(w) ==
    LET j == CHOOSE j \in 1..(Len(w) - 1) :
                 /\ \E k \in DOMAIN merges : merges[k] = <<w[j], w[j + 1]>>
                 /\ \A h \in 1..(j - 1) : \A k \in DOMAIN merges : merges[k] # <<w[h], w[h + 1]>>
    IN  <<w[j], w[j + 1]>>

BestPair(w) == merges[CHOOSE k \in Ranked(w) : \A j \in Ranked(w) : k <= j]

Scan ==
    /\ stage = "scan" /\ Ranked(word) # {}
    /\ pair' = BestPair(word)
    /\ read' = 0 /\ written' = 0
    /\ stage' = "merge"
    /\ UNCHANGED <<merges, text, pieces, word, out>>

(* Fault: the last pair of the array is not looked at.                       *)
CopyStepShort ==
    LET joins == read + 2 < Len(word) /\ <<word[read + 1], word[read + 2]>> = pair IN
    /\ stage = "merge" /\ read < Len(word)
    /\ word' = [word EXCEPT ![written + 1] = IF joins THEN pair[1] \o pair[2] ELSE word[read + 1]]
    /\ read' = IF joins THEN read + 2 ELSE read + 1
    /\ written' = written + 1
    /\ UNCHANGED <<merges, text, stage, pieces, pair, out>>

(* nw shares the array of word: entries are overwritten behind the reader.   *)
CopyStep ==
    LET joins == read + 1 < Len(word) /\ <<word[read + 1], word[read + 2]>> = pair IN
    /\ stage = "merge" /\ read < Len(word)
    /\ word' = [word EXCEPT ![written + 1] = IF joins THEN pair[1] \o pair[2] ELSE word[read + 1]]
    /\ read' = IF joins THEN read + 2 ELSE read + 1
    /\ written' = written + 1
    /\ UNCHANGED <<merges, text, stage, pieces, pair, out>>

(* Fault: the length of the array stays what it was.                         *)
CopyEndsUncut ==
    /\ stage = "merge" /\ read >= Len(word)
    /\ stage' = "scan"
    /\ UNCHANGED <<merges, text, pieces, word, pair, read, written, out>>

CopyEnds ==
    /\ stage = "merge" /\ read >= Len(word)
    /\ word' = SubSeq(word, 1, written)
    /\ stage' = "scan"
    /\ UNCHANGED <<merges, text, pieces, pair, read, written, out>>

(* Nothing is left to merge: the ids of the piece.                           *)
Emit ==
    /\ stage = "scan" /\ Ranked(word) = {}
    /\ out' = out \o [k \in DOMAIN word |-> IF word[k] \in Vocab THEN word[k] ELSE <<Unk>>]
    /\ word' = <<>>
    /\ pieces' = Tail(pieces)
    /\ stage' = "piece"
    /\ UNCHANGED <<merges, text, pair, read, written>>

Finish ==
    /\ stage = "piece" /\ pieces = <<>>
    /\ stage' = "done"
    /\ UNCHANGED <<merges, text, pieces, word, pair, read, written, out>>

EncodeRest == stage = "done" /\ UNCHANGED encodeVars

EncodeNext == Split \/ StartPiece \/ Scan \/ CopyStep \/ CopyEnds \/ Emit \/ Finish \/ EncodeRest

EncodeSpec == EncodeInit /\ [][EncodeNext]_encodeVars
EncodeFairSpec == EncodeSpec /\ WF_encodeVars(EncodeNext)

-----------------------------------------------------------------------------
(* Properties *)

(* What the tokens found, the array as far as it is written and not yet read *)
(* and the pieces to come spell is always the text, its characters without a *)
(* token as bytes: no merge, split or reuse of the array drops or doubles.   *)
(* (What a merge makes must be a token, else encodePiece puts <unk> for it.) *)
MakesTokens == \A k \in DOMAIN merges : merges[k][1] \o merges[k][2] \in Vocab
Unread == IF stage = "merge" THEN SubSeq(word, 1, written) \o SubSeq(word, read + 1, Len(word)) ELSE word
Later == IF word = <<>> THEN Seqs!FlattenSeq(pieces) ELSE Seqs!FlattenSeq(Tail(pieces))
NothingLost ==
    MakesTokens /\ stage # "split" =>
        Seqs!FlattenSeq(out) \o Seqs!FlattenSeq(Unread) \o Seqs!FlattenSeq(Symbols(Later))
            = Seqs!FlattenSeq(Symbols(Norm(text)))

(* The merges as the HF tokenizer makes them, one at a time: the pair of the *)
(* lowest rank where it stands leftmost, until no pair has a rank, which a   *)
(* word of as many symbols as there are rounds has come to.                  *)
JoinedAt(w, j) == SubSeq(w, 1, j - 1) \o <<w[j] \o w[j + 1]>> \o SubSeq(w, j + 2, Len(w))
OneMerge(w) ==
    LET k == CHOOSE k \in Ranked(w) : \A h \in Ranked(w) : k <= h
    IN  IF Ranked(w) = {} THEN w
        ELSE JoinedAt(w, CHOOSE j \in Places(w, k) : \A h \in Places(w, k) : j <= h)
Rounds(w) == LET round[m \in 0..Len(w)] == IF m = 0 THEN w ELSE OneMerge(round[m - 1]) IN round
OneByOne(w) == Rounds(w)[Len(w)]

(* Merged one at a time, a word meets no rank lower than those it has met;   *)
(* and the list is such that no token it makes, on its own, ever does.       *)
InOrder(w) ==
    \A m \in 1..Len(w) : \A k \in Ranked(Rounds(w)[m]) : \E h \in Ranked(Rounds(w)[m - 1]) : h <= k
Apart(t) == [i \in DOMAIN t |-> <<t[i]>>]
TokensInOrder == \A k \in Ranks : InOrder(Apart(merges[k][1] \o merges[k][2]))

(* Joining all places of a pair in one pass ends in the tokens that joining  *)
(* one place at a time ends in, for every text, when the list makes each of  *)
(* its own tokens in order of rank: passes overlap themselves and bring up   *)
(* pairs of their own, but none of a lower rank than the pass.               *)
MergesAgree ==
    TokensInOrder /\ stage = "scan" => OneByOne(word) = OneByOne(Symbols(Head(pieces)))

(* "Encode mirrors the HF fast tokenizer pipeline" (tokenizer.go:58): so for *)
(* whatever list LoadTokenizer takes. Violated: a pass may go on with a pair *)
(* after a merge of it has brought up one of a lower rank.                   *)
MirrorsHF == stage = "scan" => OneByOne(word) = OneByOne(Symbols(Head(pieces)))

(* Every text is encoded in the end: each pass shortens the word.            *)
Terminates == <>(stage = "done")
=============================================================================
