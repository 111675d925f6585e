------------------------------ MODULE Questions -------------------------------
(* One question on its way through go/layago: decoded with the body,         *)
(* ToInternal reads its definition, RenderOptions lists its options, which   *)
(* BuildSequence puts to the model, AnswerOne turns the logits of its row    *)
(* into an answer, and the handler marshals that. A probability is named by  *)
(* the scaled logit it is computed from: softmax keeps their order.          *)
EXTENDS OrderedJSON

CONSTANTS
    Inputs,        (* of the program: a definition (type, instructions and     *)
                   (* criteria), the logits of its row, the two for            *)
                   (* act_probability and temp for what cfg holds              *)
    Nil,           (* Go's nil, and what is left out                           *)
    NaN,           (* a number that is none                                    *)
    PosInf, NegInf (* the infinite ones; the finite ones are integers          *)

(* Temperatures are given in tenths.                                         *)
Low == 5
High == 50

Infinite == {PosInf, NegInf}
Numbers == Int \cup Infinite \cup {NaN}

OptionCount(d) ==
    CASE d.type = "noul" -> 2
      [] d.type \in {"choice", "score"} /\ d.criteria.kind = "doc" -> Len(d.criteria.pairs)
      [] d.type \in {"choice", "score"} /\ d.criteria.kind = "arr" -> Len(d.criteria.items)
      [] OTHER -> 1

ASSUME InputAssumption ==
    /\ NaN \notin Int \cup Infinite /\ PosInf \notin Int /\ NegInf \notin Int /\ PosInf # NegInf
    /\ \A i \in Inputs :
          /\ i.def.criteria \in Docs /\ i.def.instructions \in Docs
          /\ i.row \in Seq(Numbers) /\ i.row # <<>>
          /\ i.act \in Seq(Numbers) /\ Len(i.act) = 2
          /\ i.temp \in Int \cup {Nil, NaN}

VARIABLES
    def, row, act, temp,
    step,          (* "define", "render", "answer", "marshal" and the ends     *)
                   (* "refused", "panic" and "sent"                            *)
    internal,      (* QInternal                                                *)
    rendered,      (* RenderOptions: the name of each and what follows it      *)
    answer, body

inputs == <<def, row, act, temp>>
questionVars == <<inputs, step, internal, rendered, answer, body>>

QuestionInit ==
    /\ \E i \in Inputs : def = i.def /\ row = i.row /\ act = i.act /\ temp = i.temp
    /\ step = "define" /\ internal = Nil /\ rendered = <<>> /\ answer = Nil /\ body = <<>>

-----------------------------------------------------------------------------
(* ToInternal *)

(* An option of a list by its %v: text as it is, and literals.               *)
Label(c) == CASE c.kind = "str" -> c.s
              [] c.kind = "num" -> <<c.lit>>
              [] OTHER -> <<IF c = Null THEN "<nil>" ELSE c.word>>

(* Fault: the list is left a list.                                           *)
CriteriaAsGiven(d) == Decoded[d.criteria]

(* The options of a choice may come as a list: an object without values, to  *)
(* which a repeated option is added as the decoder adds a repeated key.      *)
Criteria(d) ==
    LET c == Decoded[d.criteria] IN
    IF d.type = "choice" /\ c.kind = "arr"
    THEN Object([i \in DOMAIN c.items |-> <<Label(c.items[i]), Null>>])
    ELSE c

Internal(d) ==
    LET c == Criteria(d) IN
    [T |-> d.type,
     Ins |-> Text(Decoded[d.instructions]),
     Crit |-> IF c.kind = "obj" THEN c ELSE Null,
     CritList |-> IF c.kind = "arr" THEN c.items ELSE <<>>]

Refused(d) ==
    \/ d.type = Nil \/ d.instructions = Null
    \/ d.type = "score" /\ Internal(d).CritList = <<>>

Refuse ==
    /\ step = "define" /\ Refused(def)
    /\ step' = "refused"
    /\ UNCHANGED <<inputs, internal, rendered, answer, body>>

ToInternal ==
    /\ step = "define" /\ ~Refused(def)
    /\ internal' = Internal(def)
    /\ step' = "render"
    /\ UNCHANGED <<inputs, rendered, answer, body>>

-----------------------------------------------------------------------------
(* RenderOptions, in the order of the labels *)

False == <<"false">>
True == <<"true">>
Criterion(name) == IF internal.Crit = Null THEN Null ELSE Lookup(internal.Crit, name)
Named(name, default) ==
    <<name, IF Criterion(name) \in {Null, Str(<<>>)} THEN default ELSE Text(Criterion(name))>>

(* Fault: yes comes first.                                                   *)
RenderedYesFirst ==
    CASE internal.T = "choice" -> [i \in DOMAIN internal.Crit.keys |-> Named(internal.Crit.keys[i], <<>>)]
      [] internal.T = "score" -> [i \in DOMAIN internal.CritList |-> <<i - 1, Text(internal.CritList[i])>>]
      [] internal.T = "noul" -> <<Named(True, <<"yes, the statement holds">>),
                           Named(False, <<"no, the statement does not hold">>)>>
      [] OTHER -> <<>>

Rendered ==
    CASE internal.T = "choice" -> [i \in DOMAIN internal.Crit.keys |-> Named(internal.Crit.keys[i], <<>>)]
      [] internal.T = "score" -> [i \in DOMAIN internal.CritList |-> <<i - 1, Text(internal.CritList[i])>>]
      [] internal.T = "noul" -> <<Named(False, <<"no, the statement does not hold">>),
                           Named(True, <<"yes, the statement holds">>)>>
      [] OTHER -> <<>>

Render ==
    /\ step = "render" /\ ~(internal.T = "choice" /\ internal.Crit = Null)
    /\ rendered' = Rendered
    /\ step' = "answer"
    /\ UNCHANGED <<inputs, internal, answer, body>>

(* internal.Crit.Keys of a nil object.                                       *)
RenderPanics ==
    /\ step = "render" /\ internal.T = "choice" /\ internal.Crit = Null
    /\ step' = "panic"
    /\ UNCHANGED <<inputs, internal, rendered, answer, body>>

-----------------------------------------------------------------------------
(* AnswerOne *)

(* Fault: only the upper bound.                                              *)
ClampAbove(t) == IF t = NaN THEN 10 ELSE IF t > High THEN High ELSE t

Clamp(t) == IF t = NaN THEN 10 ELSE IF t > High THEN High ELSE IF t < Low THEN Low ELSE t

(* TempScale: of the bucket or else of the type, and 1.0 if there is neither.*)
Scale == IF temp = Nil THEN 10 ELSE Clamp(temp)

(* A logit over a scale, in units that make the quotients whole numbers.     *)
Unit == 500
Negated(x) == IF x = PosInf THEN NegInf ELSE IF x = NegInf THEN PosInf ELSE -x
Over(x, t) ==
    LET y == IF x # NaN /\ t < 0 THEN Negated(x) ELSE x
    IN  IF y \notin Int THEN y
        ELSE IF t # 0 THEN (y * Unit) \div (IF t > 0 THEN t ELSE -t)
        ELSE IF y > 0 THEN PosInf ELSE IF y < 0 THEN NegInf ELSE NaN

K == IF rendered = <<>> THEN 1 ELSE Len(rendered)
Scaled == [i \in 1..K |-> Over(row[i], Scale)]

(* Go's >: what is not a number is greater than nothing, and nothing than it.*)
Greater(x, y) ==
    /\ x # NaN /\ y # NaN /\ x # y
    /\ x = PosInf \/ y = NegInf \/ (x \in Int /\ y \in Int /\ x > y)

(* The largest, looked for from the first on.                                *)
Largest(z) ==
    IF z[1] = NaN THEN NaN
    ELSE CHOOSE x \in Elems(z) : x # NaN /\ \A i \in DOMAIN z : ~Greater(z[i], x)

(* Fault: what is not a number counts as nothing.                            *)
SoftmaxZeroed(z) == [i \in DOMAIN z |-> IF z[i] = NaN THEN 0 ELSE z[i]]

(* The probabilities: powers of the differences from the largest by their    *)
(* sum. One difference that is not a number, as that of an infinity from     *)
(* itself, makes them all such; minus infinity has the probability zero.     *)
Softmax(z) ==
    IF \E i \in DOMAIN z : z[i] = NaN \/ Largest(z) = NaN \/ (z[i] = Largest(z) /\ z[i] \in Infinite)
    THEN [i \in DOMAIN z |-> NaN] ELSE z

(* The first of the largest; comparing what is not a number finds none.      *)
Best(p) == IF p[1] = NaN THEN 1
           ELSE CHOOSE i \in 1..K : \A j \in 1..K : Greater(p[i], p[j]) \/ (p[j] = p[i] /\ i <= j)

(* The probabilities grow as the decoder's objects do: a name that is        *)
(* repeated stands twice, with the probability of its last option.           *)
Names == IF internal.T = "choice" THEN internal.Crit.keys ELSE [i \in 1..K |-> i - 1]
ByName(p) == Object([i \in DOMAIN Names |-> <<Names[i], p[i]>>])

(* Each of the two makes act_probability, each option a probability; the     *)
(* confidence is made of these if there are two, and is else that of one.    *)
AnswerOne ==
    LET p == Softmax(Scaled)
        told == internal.T \in {"choice", "score"} \/ K >= 2 IN
    /\ step = "answer" /\ Len(row) >= K /\ ~(internal.T = "choice" /\ rendered = <<>>)
    /\ answer' = [choice |-> IF internal.T = "choice" THEN internal.Crit.keys[Best(p)] ELSE Nil,
                  probabilities |-> IF internal.T \in {"choice", "score"} THEN ByName(p) ELSE Nil,
                  noul |-> IF internal.T = "noul" THEN p[2] ELSE Nil,
                  numbers |-> {Softmax(act)[1]} \cup {p[i] : i \in IF told THEN 1..K ELSE {}}]
    /\ step' = "marshal"
    /\ UNCHANGED <<inputs, internal, rendered, body>>

(* row[i] of an option without logit; keys[best] of a choice without options.*)
AnswerPanics ==
    /\ step = "answer" /\ (Len(row) < K \/ (internal.T = "choice" /\ rendered = <<>>))
    /\ step' = "panic"
    /\ UNCHANGED <<inputs, internal, rendered, answer, body>>

(* json.Marshal refuses what is not a number; the handler ignores the error  *)
(* and writes the nothing it got.                                            *)
Marshal ==
    /\ step = "marshal"
    /\ body' = IF NaN \in answer.numbers THEN <<>> ELSE <<answer>>
    /\ step' = "sent"
    /\ UNCHANGED <<inputs, internal, rendered, answer>>

QuestionRest == step \in {"refused", "panic", "sent"} /\ UNCHANGED questionVars

QuestionNext ==
    \/ Refuse \/ ToInternal \/ Render \/ RenderPanics
    \/ AnswerOne \/ AnswerPanics \/ Marshal \/ QuestionRest

QuestionSpec == QuestionInit /\ [][QuestionNext]_questionVars

-----------------------------------------------------------------------------
(* Properties *)

(* What brings a goroutine down is a choice without options, and a row with  *)
(* fewer logits than the question has options; no other question does,       *)
(* whatever is missing from it or of another type.                           *)
Optionless(d) == d.criteria.kind \notin {"arr", "doc"} \/ d.criteria \in {Arr(<<>>), Doc(<<>>)}
PanicsExplained ==
    step \in {"refused", "panic", "sent"} =>
        (step = "panic" <=> /\ ~Refused(def)
                            /\ (def.type = "choice" /\ Optionless(def)) \/ Len(row) < OptionCount(def))

(* Logits that weigh options against each other: numbers, none of them plus  *)
(* infinity, and not minus infinity all of them.                             *)
Weighable(s) == Elems(s) \subseteq Int \cup {NegInf} /\ Elems(s) # {NegInf}
Asked == SubSeq(row, 1, K)

(* The answer to a choice is the first of its options whose logit is the     *)
(* largest: no temperature a configuration holds, negative or zero, turns    *)
(* the order around.                                                         *)
ChoiceIsBest ==
    answer # Nil /\ internal.T = "choice" /\ Weighable(Asked) =>
        \E i \in DOMAIN rendered :
            /\ answer.choice = rendered[i][1]
            /\ \A j \in DOMAIN rendered : Greater(row[i], row[j]) \/ (row[j] = row[i] /\ i <= j)

(* RenderOptions and AnswerOne agree on which logit is whose: the answer     *)
(* names the options in the order they were put to the model, each with the  *)
(* probability of its own logit unless a later option has the same name; and *)
(* noul is that of the option named "true".                                  *)
NamesMatchLogits ==
    answer # Nil /\ Weighable(Asked) =>
        /\ internal.T \in {"choice", "score"} =>
              LET po == answer.probabilities IN
              /\ Len(po.keys) = Len(rendered)
              /\ \A i \in DOMAIN rendered :
                    /\ po.keys[i] = rendered[i][1]
                    /\ \/ po.M[rendered[i][1]] = Over(row[i], Scale)
                       \/ \E j \in DOMAIN rendered : j > i /\ rendered[j][1] = rendered[i][1]
        /\ \A i \in DOMAIN rendered :
              internal.T = "noul" /\ rendered[i][1] = True => answer.noul = Over(row[i], Scale)

(* The text of an object or an array says all there is in it: two criteria,  *)
(* whatever quotes, brackets and control characters they hold, look alike to *)
(* the model only if they are the same.                                      *)
Structured(x) == x.kind \in {"obj", "arr"}
GivenTo(i) == IF internal.T = "score" THEN internal.CritList[i] ELSE Criterion(rendered[i][1])
TextsApart ==
    rendered # <<>> =>
        \A i, j \in DOMAIN rendered :
            Structured(GivenTo(i)) /\ Structured(GivenTo(j)) /\ rendered[i][2] = rendered[j][2] =>
                GivenTo(i) = GivenTo(j)

(* A 200 without a body is sent exactly if the logits of act_probability, or *)
(* those of the options of a known type, do not weigh: an infinite logit     *)
(* loses the answer unless it is minus infinity and others are not. A type   *)
(* without options has no probabilities to lose.                             *)
EmptyOnlyUnweighed ==
    step = "sent" =>
        (body = <<answer>> <=> /\ Weighable(act)
                               /\ def.type \in {"choice", "score", "noul"} => Weighable(Asked))
=============================================================================
