----------------------------- MODULE ParityCheck ------------------------------
(* go/paritycheck: what Go builds of the fixtures and answers to them is     *)
(* compared with what Python dumped. A question carries what the code under  *)
(* test makes of it: the sequence BuildSequence builds (Nil for an error),   *)
(* how many markers are in it, the names of its options, and the option and  *)
(* the probabilities its logits stand for. Ids and markers are compared as   *)
(* one value; probabilities are whole numbers.                               *)
EXTENDS Lists, FiniteSets

Sets == INSTANCE FiniteSetsExt

CONSTANTS
    Runs,          (* of the program: a mode of "tokens", "seq" and "full", and*)
                   (* the files laya_token_probe.json (probe), a sequence of   *)
                   (* entries, laya_parity.jsonl (dump), lines of id, qs and   *)
                   (* answers, and fixtures, lines of id and questions         *)
    Nil,           (* what is missing, or an error                             *)
    Long,          (* a line that is longer than the buffer of the scanner     *)
    Broken,        (* a line that is not the JSON it should be                 *)
    Batch,         (* 32: how many items one call of the engine takes          *)
    OptCut         (* 48: how many tokens of an option are compared            *)

ASSUME BatchAssumption == Batch \in Nat \ {0} /\ OptCut \in Nat

IsList(s) == s \in Seq(Elems(s))
ASSUME RunAssumption ==
    \A r \in Runs :
        /\ r.mode \in {"tokens", "seq", "full"}
        /\ IsList(r.probe) /\ IsList(r.dump) /\ IsList(r.fixtures)
        /\ \A e \in Elems(r.probe) :
              IsList(e.questions) /\ \A q \in Elems(e.questions) :
                  /\ IsList(q.want) /\ \A w \in Elems(q.want) : IsList(w)
                  /\ q.opts # Nil => IsList(q.opts) /\ \A o \in Elems(q.opts) : IsList(o)
        /\ \A l \in Elems(r.fixtures) \ {Long, Broken} :
              IsList(l.questions) /\ \A q \in Elems(l.questions) :
                  /\ IsList(q.names) /\ q.marks \in Nat
                  /\ \A i \in DOMAIN q.names : q.probs[i] \in Int
        /\ \A l \in Elems(r.dump) \ {Long, Broken} : \A id \in DOMAIN l.answers :
              LET want == l.answers[id].probs IN \A name \in DOMAIN want : want[name] \in Int

VARIABLES
    mode, probe, dump, fixtures,
    pc,            (* "tokens", "entry", "parity", "fixtures", "run" or "done" *)
    n, k,          (* lines and questions of the line that are dealt with      *)
    parity,        (* entries by id                                            *)
    nQ, nBad,      (* also nState + nHead + nOpt, and bad, of checkTokens      *)
    items, refs,   (* what the engine runs, and what its answers ought to be   *)
    start,         (* of the next batch                                        *)
    agree, total, maxDelta, sumDelta,
    exit           (* 0, 1, 2 for a panic, or Nil                              *)

inputs == <<mode, probe, dump, fixtures>>
sums == <<agree, total, maxDelta, sumDelta>>
vars == <<inputs, pc, n, k, parity, nQ, nBad, items, refs, start, sums, exit>>

Init ==
    /\ \E r \in Runs :
         /\ mode = r.mode /\ probe = r.probe
         /\ dump = r.dump /\ fixtures = r.fixtures
    /\ pc = IF mode = "tokens" THEN "tokens" ELSE "parity"
    /\ n = 0 /\ k = 0 /\ parity = <<>>
    /\ nQ = 0 /\ nBad = 0 /\ items = <<>> /\ refs = <<>> /\ start = 0
    /\ agree = 0 /\ total = 0 /\ maxDelta = 0 /\ sumDelta = 0
    /\ exit = Nil

Exit(code) == pc' = "done" /\ exit' = code

(* die                                                                       *)
Die == Exit(1) /\ UNCHANGED <<inputs, n, k, parity, nQ, nBad, items, refs, start, sums>>

-----------------------------------------------------------------------------
(* checkTokens: an entry holds the state and questions, each of them what Go *)
(* encodes (first) and what Python did (second); opts are what Go renders,   *)
(* Nil if ToInternal fails, and want the options as Python encodes them.     *)

Differs(pair) == IF pair[1] # pair[2] THEN 1 ELSE 0

CheckState ==
    /\ pc = "tokens" /\ n < Len(probe)
    /\ nQ' = nQ + 1
    /\ nBad' = nBad + Differs(probe[n + 1].state)
    /\ pc' = "entry"
    /\ UNCHANGED <<inputs, n, k, parity, items, refs, start, sums, exit>>

Cut(s) == SubSeq(s, 1, IF Len(s) > OptCut THEN OptCut ELSE Len(s))
(* Fault: an option is compared whole.                                       *)
BadOptionsUncut(q) == {o \in DOMAIN q.want : q.opts[o] # q.want[o]}

BadOptions(q) == {o \in DOMAIN q.want : Cut(q.opts[o]) # q.want[o]}

(* opts[i] of an option Go does not render panics.                           *)
CheckEncoded(q) ==
    IF q.opts = Nil THEN Exit(1) /\ UNCHANGED <<k, nQ, nBad>>
    ELSE IF Len(q.want) > Len(q.opts) THEN Exit(2) /\ UNCHANGED <<k, nQ, nBad>>
    ELSE /\ k' = k + 1
         /\ nQ' = nQ + 1 + Len(q.want)
         /\ nBad' = nBad + Differs(q.head) + Cardinality(BadOptions(q))
         /\ UNCHANGED <<pc, exit>>

CheckEntry ==
    /\ pc = "entry" /\ k < Len(probe[n + 1].questions)
    /\ CheckEncoded(probe[n + 1].questions[k + 1])
    /\ UNCHANGED <<inputs, n, parity, items, refs, start, sums>>

EntryEnds ==
    /\ pc = "entry" /\ k = Len(probe[n + 1].questions)
    /\ n' = n + 1 /\ k' = 0 /\ pc' = "tokens"
    /\ UNCHANGED <<inputs, parity, nQ, nBad, items, refs, start, sums, exit>>

TokensEnd ==
    /\ pc = "tokens" /\ n = Len(probe)
    /\ Exit(IF nBad > 0 THEN 1 ELSE 0)
    /\ UNCHANGED <<inputs, n, k, parity, nQ, nBad, items, refs, start, sums>>

-----------------------------------------------------------------------------
(* checkSeq *)

(* A scanner stops at a line it has no room for; sc.Err() is not looked at.  *)
Scans(file) == n < Len(file) /\ file[n + 1] # Long

ReadParity ==
    /\ pc = "parity" /\ Scans(dump) /\ dump[n + 1] # Broken
    /\ LET e == dump[n + 1] IN
         parity' = [id \in DOMAIN parity \cup {e.id} |-> IF id = e.id THEN e ELSE parity[id]]
    /\ n' = n + 1
    /\ UNCHANGED <<inputs, pc, k, nQ, nBad, items, refs, start, sums, exit>>

ParityEnds ==
    /\ pc = "parity" /\ ~Scans(dump)
    /\ pc' = "fixtures" /\ n' = 0
    /\ UNCHANGED <<inputs, k, parity, nQ, nBad, items, refs, start, sums, exit>>

Line == fixtures[n + 1]

ReadBroken ==
    /\ \/ pc = "parity" /\ Scans(dump) /\ dump[n + 1] = Broken
       \/ pc = "fixtures" /\ Scans(fixtures) /\ Line = Broken
    /\ Die

Known(id) == id \in DOMAIN parity

(* The fixture has no entry, or its questions are all checked.               *)
NextFixture ==
    /\ pc = "fixtures" /\ Scans(fixtures) /\ Line # Broken
    /\ Known(Line.id) => k = Len(Line.questions)
    /\ n' = n + 1 /\ k' = 0
    /\ UNCHANGED <<inputs, pc, parity, nQ, nBad, items, refs, start, sums, exit>>

Want(entry, qid) == IF qid \in DOMAIN entry.qs THEN entry.qs[qid] ELSE Nil
Answer(entry, qid) == IF qid \in DOMAIN entry.answers THEN entry.answers[qid] ELSE Nil

(* Fault: a question that is not in the dump is passed over.                 *)
CheckIfDumped(q, want, ref) ==
    /\ k' = k + 1
    /\ nQ' = nQ + 1
    /\ nBad' = IF want # Nil /\ q.seq # want THEN nBad + 1 ELSE nBad
    /\ items' = Append(items, q)
    /\ refs' = Append(refs, ref)
    /\ UNCHANGED <<inputs, pc, n, parity, start, sums, exit>>

(* ToInternal or BuildSequence fails, or the dump lacks the question.        *)
Check(q, want, ref) ==
    IF q.seq = Nil \/ want = Nil THEN Die
    ELSE /\ k' = k + 1
         /\ nQ' = nQ + 1
         /\ nBad' = IF q.seq # want THEN nBad + 1 ELSE nBad
         /\ items' = Append(items, q)
         /\ refs' = Append(refs, ref)
         /\ UNCHANGED <<inputs, pc, n, parity, start, sums, exit>>

CheckQuestion ==
    /\ pc = "fixtures" /\ Scans(fixtures) /\ Line # Broken
    /\ Known(Line.id) /\ k < Len(Line.questions)
    /\ LET q == Line.questions[k + 1]
           entry == parity[Line.id]
       IN  Check(q, Want(entry, q.qid), [q |-> q, want |-> Answer(entry, q.qid)])

FixturesEnd ==
    /\ pc = "fixtures" /\ ~Scans(fixtures)
    /\ IF nBad > 0 THEN Exit(1)
       ELSE IF mode = "seq" THEN Exit(0)
       ELSE pc' = "run" /\ exit' = exit
    /\ UNCHANGED <<inputs, n, k, parity, nQ, nBad, items, refs, start, sums>>

-----------------------------------------------------------------------------
(* The engine, batch by batch *)

End == IF start + Batch > Len(items) THEN Len(items) ELSE start + Batch

(* Fault: the rows are those of the first batch.                             *)
RowOfFirst(r) == items[((r - 1) % Batch) + 1]

(* The row of logits the engine gives for item r of the batch it ran.        *)
Row(r) == SubSeq(items, start + 1, End)[r - start]

(* AnswerOne names the logits of a row with the options of refs[r].q; of two *)
(* with one name the later counts.                                           *)
Choice(r) == refs[r].q.names[Row(r).best]
IsLast(names, i) == \A h \in DOMAIN names : names[h] = names[i] => h <= i
Prob(r) ==
    LET names == refs[r].q.names IN
    [name \in Elems(names) |->
        Row(r).probs[CHOOSE i \in DOMAIN names : names[i] = name /\ IsLast(names, i)]]

Compared(r) == refs[r].q.type = "choice" /\ refs[r].want # Nil

Gap(x, y) == IF x > y THEN x - y ELSE y - x
Deltas(r) ==
    LET want == refs[r].want.probs IN
    {<<r, name, Gap(Prob(r)[name], want[name])>> : name \in DOMAIN want \cap DOMAIN Prob(r)}

(* Rows are as wide as the most markers of the batch, and at least one.      *)
Width == Sets!Max({1} \cup {items[r].marks : r \in (start + 1)..End})

(* AnswerOne: a choice without options, or an option beyond the row.         *)
Panics ==
    \E r \in (start + 1)..End :
        \/ refs[r].q.type = "choice" /\ refs[r].q.names = <<>>
        \/ Len(refs[r].q.names) > Width

RunPanics ==
    /\ pc = "run" /\ start < Len(items) /\ Panics
    /\ Exit(2)
    /\ UNCHANGED <<inputs, n, k, parity, nQ, nBad, items, refs, start, sums>>

RunBatch ==
    LET rows == {r \in (start + 1)..End : Compared(r)}
        deltas == UNION {Deltas(r) : r \in rows}
    IN
    /\ pc = "run" /\ start < Len(items) /\ ~Panics
    /\ total' = total + Cardinality(rows)
    /\ agree' = agree + Cardinality({r \in rows : Choice(r) = refs[r].want.choice})
    /\ maxDelta' = Sets!Max({d[3] : d \in deltas} \cup {maxDelta})
    /\ sumDelta' = sumDelta + Sets!MapThenSumSet(LAMBDA d : d[3], deltas)
    /\ start' = start + Batch
    /\ UNCHANGED <<inputs, pc, n, k, parity, nQ, nBad, items, refs, exit>>

(* eng.Run returns an error.                                                 *)
RunFails == pc = "run" /\ start < Len(items) /\ Die

Report ==
    /\ pc = "run" /\ start >= Len(items)
    /\ Exit(0)
    /\ UNCHANGED <<inputs, n, k, parity, nQ, nBad, items, refs, start, sums>>

Rest == pc = "done" /\ UNCHANGED vars

Next ==
    \/ CheckState \/ CheckEntry \/ EntryEnds \/ TokensEnd
    \/ ReadParity \/ ReadBroken \/ ParityEnds \/ NextFixture \/ CheckQuestion \/ FixturesEnd
    \/ RunBatch \/ RunPanics \/ RunFails \/ Report \/ Rest

Spec == Init /\ [][Next]_vars

-----------------------------------------------------------------------------
(* Properties *)

(* The lines a scanner delivers and the entry an id has in the end.          *)
Delivered(file) == {i \in DOMAIN file : \A j \in 1..i : file[j] # Long}
LinesOf(id) == {i \in Delivered(dump) : dump[i].id = id}
Latest(S) == CHOOSE i \in S : \A j \in S : j <= i
EntryOf(id) == IF LinesOf(id) = {} THEN Nil ELSE dump[Latest(LinesOf(id))]

(* Exit status 0 means that each question of a delivered fixture whose id is *)
(* dumped is built as the last entry of that id says, none of them missing   *)
(* from it; and in mode seq exactly that.                                    *)
Readable(file) == \A i \in Delivered(file) : file[i] # Broken
BuiltAsDumped(i, j) ==
    LET q == fixtures[i].questions[j] IN
    q.seq # Nil /\ q.seq = Want(EntryOf(fixtures[i].id), q.qid)
SeqSound ==
    /\ Readable(dump) /\ Readable(fixtures)
    /\ \A i \in Delivered(fixtures) :
          LinesOf(fixtures[i].id) # {} =>
              \A j \in DOMAIN fixtures[i].questions : BuiltAsDumped(i, j)
SeqVerified ==
    mode # "tokens" /\ pc = "done" =>
        (exit = 0 => SeqSound) /\ (mode = "seq" /\ SeqSound => exit = 0)

(* The questions of a line that are looked up in the dump, and of all lines, *)
(* in order, each with its own answer.                                       *)
LookedIn(i) ==
    LET l == fixtures[i] IN
    IF LinesOf(l.id) = {} THEN <<>>
    ELSE [j \in DOMAIN l.questions |->
            [q |-> l.questions[j], want |-> Answer(EntryOf(l.id), l.questions[j].qid)]]
Looked == Seqs!FlattenSeq([i \in 1..Cardinality(Delivered(fixtures)) |-> LookedIn(i)])

(* The report is about all questions that are looked up, and that of mode    *)
(* full about all choices among them with a dumped answer, each counted once *)
(* and against the answer to itself, however the batches fall.               *)
AnsweredChoices(looked, m) == {r \in 1..m : looked[r].q.type = "choice" /\ looked[r].want # Nil}
Same(x) == x.q.names[x.q.best] = x.want.choice
Gaps(x) == {Gap(x.q.probs[j], x.want.probs[x.q.names[j]]) :
              j \in {i \in DOMAIN x.q.names : x.q.names[i] \in DOMAIN x.want.probs /\ IsLast(x.q.names, i)}}
ReportTrue ==
    mode # "tokens" /\ pc = "done" /\ exit = 0 =>
        LET asked == AnsweredChoices(Looked, Len(Looked)) IN
        /\ nQ = Len(Looked)
        /\ mode = "full" =>
              /\ total = Cardinality(asked)
              /\ agree = Cardinality({r \in asked : Same(Looked[r])})
              /\ maxDelta = Sets!Max({0} \cup UNION {Gaps(Looked[r]) : r \in asked})

(* Exit status 0 of mode tokens means that every state, head and option      *)
(* Python dumped is encoded alike, an option up to where both cut it.        *)
OptionAlike(got, want) ==
    /\ Len(want) <= OptCut
    /\ \A t \in DOMAIN want : t \in DOMAIN got /\ got[t] = want[t]
    /\ Len(want) < OptCut => Len(got) = Len(want)
QuestionAlike(q) ==
    /\ q.head[1] = q.head[2]
    /\ q.opts # Nil
    /\ \A o \in DOMAIN q.want : o \in DOMAIN q.opts /\ OptionAlike(q.opts[o], q.want[o])
TokensVerified ==
    mode = "tokens" /\ pc = "done" =>
        (exit = 0 <=>
            \A i \in DOMAIN probe :
                /\ probe[i].state[1] = probe[i].state[2]
                /\ \A j \in DOMAIN probe[i].questions : QuestionAlike(probe[i].questions[j]))
=============================================================================
