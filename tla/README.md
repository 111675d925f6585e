# laya-serve, specified in TLA+

This directory holds TLA+ modules for laya-serve: the Go gateway `go/goserve`
from its start-up to its statistics, the library `go/layago` that turns questions
into tensors and logits into answers, the older gateway `go/layagate` with its
Python backends, and the two tools that measure and compare them. TLC checks the
modules on small instances; TLAPS proves their safety properties, and that both
gateways implement their abstract specifications, for every instance.

## The system

| part | state | operations | interacts with |
|---|---|---|---|
| `goserve` start-up (`main`) | environment, engine sessions, options objects | read the lists, create one session per GPU entry, group by GPU | ONNX Runtime |
| `goserve` handlers (`handlePredict`) | one goroutine per request, `respCh` (capacity 1) | validate, count, enqueue or shed, wait, respond | batcher through `reqCh`, dispatch through `respCh` |
| `goserve` batcher | `carry`, the batch, `totalQ`, the deadline | take a request, close the batch on cap, window or overflow, launch | `reqCh` (8192), `go dispatch` |
| `goserve` dispatch (one goroutine per batch) | `ch`, the lists of its workers, `built`, `valid`, `answers` | build in parallel, choose a GPU group and an engine, run, answer | `engInflight`, `gpuSeq`, the engine mutex, `statErr` |
| `goserve` statistics (`handleStats`) | atomic counters | four loads, one after the other | all of the above |
| `layago.Engine` | a mutex, an ONNX session, seven tensors per call | `Run`: pack, make tensors, one forward pass, destroy | dispatch |
| `layago` questions and sequences | none (pure) | `ToInternal`, `RenderOptions`, `BuildSequence`, `AnswerOne` | dispatch workers |
| `layago` ordered JSON | none (pure) | `DecodeOrdered`, `Set`, `pyDumps` | handlers, questions |
| `layago` tokenizer | vocabulary, merge ranks | `Encode` | `BuildSequence` |
| `layagate` | `reqCh`, counters | batch over HTTP, 5 s timeout, answers by request id | Python backends, round robin |
| `batch_backend.py` | the model, `STATS` | `/predict_batch` | `layagate` |
| `bench` | counters, `latCh`, the clock | replay fixtures, time, judge | a running server |
| `paritycheck` | files | compare tokens, sequences, answers with dumps of Python | `layago` |
| export, quantization, sweep scripts | files | offline | |

What is hard here is concurrency: the batcher's select races a timer against the
channel; the build workers finish in any order while the place of a question in
the engine batch decides whose answer a row becomes; several dispatch goroutines
share engines, counters and mutexes; calls fail, time out or hang; and a panic
takes the whole process down. The pure parts are hard at their boundaries:
truncation in three dependent steps, merges made in place, keys that repeat,
numbers that are not. `PROJECT.json` lists each hazard at its line.

What makes each part correct:

- handlers and batcher: no request is lost, doubled or overtaken; no batch holds
  more than `BATCH_MAX` questions; none is closed early;
- dispatch: every answer comes from the row of the request's own question;
  errors reach exactly whom they concern and are counted once; engines run one
  call at a time; the in-flight counts are exact; no send of a reply blocks;
- the whole: one response per request, every accepted request gets one, and what
  `/stats` says is never more than what was done;
- start-up and engine calls: every handle and tensor of ONNX Runtime is destroyed
  exactly once on every way out, every engine is in exactly one group, every
  caller gets its turn;
- questions: what is refused and what panics is known; names, options and logits
  stay together; a choice is the best logit; different criteria are different texts;
- sequences and tensors: markers stay on their mask tokens through every cut, rows
  stay apart, an option is read from where it was scored;
- tokenizer: nothing lost, an end, and the tokens of merging one pair at a time for
  the merge lists that allow it;
- `layagate`: states do not mix under distinct ids, a hung backend holds nobody up,
  counters add up;
- `bench` and `paritycheck`: the report says what was measured or compared.

## Modules

| module | models | notes |
|---|---|---|
| `Lists` | slices and channels as sequences | what is in a list; `Seqs` names the community operators on sequences |
| `ServeTypes` | requests, questions, replies, `respCh` | constants and their assumptions |
| `Batcher` | `handlePredict`, `reqCh`, `batcher` | one action per program point |
| `BatchQueue` | what a batcher promises | abstract: a line, cut from the front |
| `Dispatch` | `dispatch`, `Engine.Run`'s mutex and outcome | any number of goroutines, named by the first request of their batch |
| `Goserve` | the process: `Batcher` and `Dispatch` composed | launching a batch and starting its goroutine is one joint step |
| `DecisionService` | what a client is promised | abstract: per request, no batches |
| `GoserveStats` | `handleStats` beside `Goserve` | four loads, one step each |
| `StartUp` | `main` and `NewEngineTRT` until the server listens | a failure possible at every call of ONNX Runtime; the loops of `splitComma` and of the grouping entry by entry |
| `EngineRun` | `Engine.Run`: mutex, tensors, every error return | callers compete for engines |
| `Engines` | `StartUp` followed by `EngineRun` | the life of a session |
| `BuildSequence`, `Scoring` | `BuildSequence`; the way of a batch through it, `Run`'s packing and the row of each question | tokens are named by the part they come from, a logit by the token that was scored |
| `OrderedJSON`, `Questions` | decoder and `pyDumps`; one question through `ToInternal`, `RenderOptions`, `TempScale`, `AnswerOne` and `json.Marshal` | a probability is named by its scaled logit |
| `Tokenizer` | `Encode` | a token is the sequence of symbols it spells |
| `BatchBackend`, `Layagate` | what `/predict_batch` returns; the older gateway, its calls and the replies | implements `BatchQueue`, every request of weight one |
| `Bench` | workers, clock, server, report | time in ticks |
| `ParityCheck` | the three modes | what Go builds is input; a step per state, question, line and batch |
| `ListLemmas` | lemmas about lists, flattened lists and texts that can be told apart; induction over numbers | used by every proof |
| `BatcherProofs`, `DispatchProofs`, `GoserveProofs` | proofs about `goserve`, part by part and composed | checked by tlapm |
| `LayagateProofs`, `EnginesProofs` | proofs about the older gateway, about start-up and engine calls | checked by tlapm |
| `LayagoProofs` | proofs about `Scoring`, `Tokenizer`, `Questions` and `OrderedJSON` | checked by tlapm |
| `ToolProofs` | proofs about `Bench` and `ParityCheck` | checked by tlapm |
| `MC*` | instances for TLC | |

How the models read the code:

- **Questions** of the gateway are an id together with a definition. `Kind` says what
  becomes of one: answered, refused by `ToInternal`, a panic, or (`short`) a panic unless
  a wider question shares its batch. Module `Questions` derives these kinds from the
  definitions and the rows themselves. The list of a body may repeat a
  question, as the JSON decoder keeps repeated keys.
- **A body** that is refused with 400 before it is counted (bad JSON, no object,
  no questions, no state) is the empty list; too many questions is a list longer
  than the cap.
- **A request** is submitted once; a client that retries is another request.
- **Time** of the batchers is the flag `expired`, raised at any moment after a batch was
  opened. The code reads the clock, then blocks in a select over the channel and a
  timer (`wait`), or polls once the window is over (`poll`); the flag may change in
  between. `Bench` counts ticks, because its verdict depends on durations.
- **Channels**: `reqCh` is a sequence of at most `QueueCap`; `respCh` holds one reply
  or none, and a send to a full one blocks.
- **Workers** take whole requests from `ch`: between two accesses to shared
  variables a worker only changes its own list. Merging the list under `mu` is a
  step, so the order of `built` is any interleaving of the workers' lists.
- **Logits** of `Questions` are whole numbers, infinite or no numbers, and a row may be
  shorter than the options of its question. A division by a temperature and the largest of
  a list treat them as Go's floating-point numbers do.
- **Answers** are named by the row they were computed from, a pair of request and
  question; the numbers of a row are left out.
- **A panic** sets `up` to FALSE and nothing happens afterwards: no state outlives
  the process.
- **Objects of ONNX Runtime** are members of a set from the call that makes them to
  the one that destroys them; each making call may fail.
- **Ids** of `layagate` are numbers: n stands for the string `r<n>` that the gateway
  generates and that a client may choose as well; 0 is no id.
- **A call to a backend** may fail at any moment (no connection, the 5 s timeout, a
  body cut short: the same error to the gateway), before or after the backend has
  replied; a reply nobody waits for stays where it is.
- **Lengths** of `BuildSequence` are constants, 48, 16, 4 and 8 in the code and 2, 2,
  1 and 1 in the instance, so that a window of nine tokens meets every cut.
- **Texts** are sequences of characters where a property is about them (`OrderedJSON`,
  `Tokenizer`), model values everywhere else. Of the characters that are escaped the
  quote, the backslash, the newline and two control characters stand for all.
- **Counters** are unbounded integers; each request and each batch happens once, so
  TLC's instances are finite without further bounds, except for `MaxReads`, the
  number of times `/stats` is asked.
- Definitions marked as faults, next to the definition they vary, are deliberate
  mistakes used to confirm that each property can fail. No specification uses them.

Actions and code: `Refuse`, `Accept`, `Enqueue`, `QueueFull` and `Receive` are the
exits and steps of `handlePredict`; `OpenCarried`, `OpenQueued`, `FillFull`,
`FillWait`, `FillExpired`, `Take`, `TimerFires`, `PollEmpty`, `CountBatch` and
`Launch` are the program points of the batcher's loop; `Spawn`, `BuildRequest`,
`MergeLocal`, `Assemble`, `PickGroup`, `LoadCandidate`, `CompareCandidate`,
`Charge`, `Lock`, `RunOk`, `RunFails`, `Release`, `Answer`, `CountFailedCall`, `Send`
and `Finish` are those of `dispatch`. In `Layagate` the handler's actions have the
same names, with `BadJson` and `NullBody` (a body `null` makes the handler panic,
which net/http confines to its connection); the batcher returns from its timer to the
top of the loop and then drains (`FillDrain`, `Drain`, `DrainEnds`); `Post`, `Arrive`,
`Lose`, `CountErrors`, `Send` and `Finish` are the steps of its `dispatch`, `Serve` is
the backend. The tokenizer steps through the rounds of `encodePiece`: `Scan` finds the
best pair, `CopyStep` and `CopyEnds` rewrite the word in place. The `map` of
`PROJECT.json` has their lines.

## Runs

| run | instance | shows |
|---|---|---|
| `batcher` | 4 requests (symmetric) of 1, 2 or too many questions, cap 3, queue 2 | placement, cap, order (`ImplementsLine`), no early close, and the inductive invariant of the proofs |
| `dispatch` | 3 requests (symmetric), 2 workers, 2 GPU groups, 3 engines, all kinds of questions | own answers, failures that concern the whole batch, engines, in-flight counts, errors |
| `goserve` | 3 requests (symmetric), cap 3, queue 1, 2 workers, 2 engines of one GPU | the composition implements `DecisionService`; counters add up; no blocked reply |
| `goserve_live` | 2 requests, one engine, invalid and panicking questions, one reader of `/stats` | every request that reached the queue step is answered unless the process is down; what four separate loads can say |
| `layagate` | 3 requests (symmetric), batches of 2, queue 1, generated and chosen ids, questions the backend raises on | states do not mix under distinct ids, counters, order, and no state in which the gateway can only wait for a backend |
| `layago`: a text | every list of up to 2 of the ways to make 9 longer tokens, and of 3 or 4 of the ways to make 3 of them, in any order; texts of up to 5 characters | merging in place loses nothing, ends, and agrees with merging one at a time if the list makes its own tokens in order of rank |
| `layago`: a batch | 1 or 2 out of 186 inputs | the state fills its room, every option is read from its own marker |
| `layago`: a question | 5 types, criteria of every shape, rows of 1 to 3 logits that are finite, infinite or no numbers, 6 temperatures; every pair of 97 texts, nested and escaped | panics explained, best choice, names with their logits, empty bodies only for logits that do not weigh, texts apart |
| `tokenizer_hf` | the texts and lists of `layago` | finding: for other lists merging all occurrences may disagree |
| `scoring_long` | the batches of `layago` | finding: options beyond the window are read all the same |
| `engine` | lists of up to 3 entries over 2 GPUs, 3 limits, a failure at every call; 2 callers, 3 tensors | handles balanced, groups partition the engines, nothing leaks, every call returns |
| `bench` | 2 workers, 3 ticks, 1 of warm-up, room for 2 latencies, half of the answers in time asked for | counters add up, PASS is earned, the report comes |
| `bench_gate` | the same, 99 of 100 asked for | finding: a run with failed requests passes |
| `parity` | dumps of up to 2 lines, fixtures of up to 3, batches of 2, options that share a name, choices without options, a question with fewer markers than options; probes of up to 2 texts | exit 0 means agreement of what was looked at, and the report is about the right pairs |

The three parts of the library share no state, so a behaviour of `layago` is one call of one of
them, with the other two at the end of a call that is over (`MCLayago`).

Why the bounds are enough: with a cap of three and bodies of one and two questions
a batch can fill up exactly, overflow into `carry` and expire; a queue of one or two
fills while the batcher is busy; three requests make three dispatch goroutines that
compete for an engine, or one goroutine whose two workers share three requests, so
that one of them takes two. The two GPU groups show the round robin, and a group of
two engines the scan over candidates. Three requests in batches of two give
`layagate` a full and a partial batch in either order, and equal ids within and across
batches. Two rows are enough for a wrong stride, four options for every way of
sharing a head of six tokens. Two merges are enough for one that makes the pair of
another, before or after it, and for overlapping occurrences; four for lists that hold
every split of a token, as those dumped from a SentencePiece model do. Rows of one, two and
three logits are shorter than, as long as and longer than the options of a question. Three tensors
have a first, a middle and a last to fail at. Two latencies in `latCh` and up to six
requests let it overflow. So few requests cannot come to one in a hundred: the percentage is
the constant `MinPct`, 99 in the code and 50 in `bench`, where a run of up to four measured
answers passes with some of them late, with just enough in time, and fails with one fewer. Deadlock is checked in every run: the only states without a
step are those where all clients have their response, the run of a tool is over, or
the process is down, and they stutter explicitly (`Rest`).

### The findings, and known differences

Three runs show disagreements with what the repository says of itself (lines in
`PROJECT.json`):

- `scoring_long`: a question with so many options that markers fall out of the window is not
  refused, as the Python backend refuses it, but scored from masked logits or past the end of
  its row, where the process panics.
- `tokenizer_hf`: `Encode` is said to mirror the HF tokenizer (`go/layago/tokenizer.go:58`),
  which merges one occurrence of a pair at a time. A pass over all occurrences goes on when a
  merge has brought up a pair of a lower rank: with `(ab, a)` before `(a, b)`, `babab` becomes
  `b ab ab` here and `b aba b` there. `LoadTokenizer` takes any list. Whether the list of the
  published checkpoint has such an order is not known from the repository; `MergesAgree` says
  what to look for (`TokensInOrder`).
- `bench_gate`: `docs/BENCHMARKS.md:7` calls a level passing if 99% of requests complete in
  time; the verdict weighs successful answers only, so a run with one answer in time and three
  failures passes.

Other differences met while modelling, which no run states:

- `layagate` hands out answers by request id (`go/layagate/main.go:161`), so two
  requests of one batch with the same id, which a client may choose to be `r1`, get
  one set of answers. `AnswersOwnUnlessIdShared` says that nothing else mixes.
- The decoder and the option lists keep repeated keys (`go/layago/ordered.go:76`,
  `sequence.go:60`), where a Python dict holds one; such options are scored twice, and
  the answer of a name is that of its last occurrence.
- Empty or malformed entries of `GOSERVE_MEM_LIMIT` are dropped, so later limits move
  to earlier sessions.
- `bench` counts failed requests of the warm-up.
- `paritycheck` passes over fixtures without an entry in the dump and everything behind
  a line of more than 8 MB; in mode `tokens` it does not see options Go has in
  addition; the mean difference it prints divides a sum over options by the number of
  questions.
- `pyDumps` writes backspace and form feed as `\u0008` and `\u000c` and numbers as they
  came, where `json.dumps` writes `\b`, `\f` and its own spelling; instructions that are
  not a string keep characters that the Python backend escapes.

## Fairness

Safety runs use none. Where a property says that something happens:

- `goserve_live` assumes weak fairness of the batcher (a goroutine blocked only on its
  channel and timer), of the passing of time (`Expire`), of each handler once its
  request was received, and of each dispatch goroutine. For an engine that means that
  a call returns, successfully or not, and that a free mutex is taken by someone who
  waits: Go's channel used as a mutex serves its waiters first in, first out, and each
  request makes one call. A client is never obliged to send a request or to ask for
  `/stats`, and no fairness is assumed of failures.
- `engine` lets callers come back for ever, so there a caller must not be passed over
  for ever either: strong fairness of taking the mutex, which the queue of waiters of
  a Go channel gives, and weak fairness of going on inside.
- `Encode` is sequential: in `layago` weak fairness of its steps says that it runs.
- `bench` assumes that time passes, that workers go on, and that a client's timeout
  fires; of the server nothing.
- For `layagate` the property is stated without fairness: in every state in which the
  gateway has work, one of its own steps can be taken (`NeverWaitsOnBackend`), the
  timeout of its HTTP client among them.

## Proofs

What is proved holds for every value of the constants that meets the named
assumptions of the modules: any number of requests, workers, engines, GPU groups,
lines, entries, and any caps and capacities.

**`BatcherProofs`**, from the assumptions of `ServeTypes` alone:

- `TypeCorrect`: types, and `reqCh` within its capacity;
- `InvariantHolds`: the inductive invariant `BatcherInv`;
- `OnePlace`: a waiting request is in exactly one place of queue, carry, batch and
  launched batches;
- `CapRespected`: no batch exceeds the cap, and `totalQ` is exact;
- `NeverClosedEarly`: a batch is closed when it is full, its window over or the next
  request too large, and at no other step (`ClosedForAReason`, an action property; the one
  fact it needs beside `BatcherInv` is that the batcher polls only past the window);
- `FirstComeFirstServed`: `Batcher` implements `BatchQueue`.

The argument: let the *pipeline* be batch, carry and queue in this order. Every
step leaves it alone (`PipelineFill`, `PipelineSame`), appends one request
(`PipelineJoin`) or removes the batch from its front (`PipelineCut`). The places of a
request are positions in the pipeline or in a launched batch; joining adds one
place to one request (`PlacesJoin`), launching moves places one to one
(`PlacesCut`). So a held request has exactly one place, which needs to know that
only requests that are not held join (`HandlerOK`) and where carry and batch are
empty (`PhaseOK`): these conjuncts make the invariant inductive. The cap follows,
because the head of the queue is never in the batch already, so that the slots it
takes are new and their number adds up; and the refinement maps every action to
`Submit`, `Join`, `Cut` or a stutter.

**`DispatchProofs`** is about any number of dispatch goroutines, launched with any
batches of requests that are in no other batch:

- `DispatchInvariant`: the inductive invariant `DispatchInv`, types included;
- `EngineExclusive`, `InflightCounts`: one call per engine, exact in-flight counts;
- `AnswersToTheirOwn`: a 200 carries the valid questions of its own request, each
  answered from the row of its own item;
- `BatchFailsAsOne`, `RepliesNeverBlock`, `ErrorsExact`: failures concern whole batches,
  no send of a reply blocks, and the error counter is exact.

A goroutine that chooses an engine has one of its group in hand (`PickOK`), so what it
charges is an engine; the charges of an engine are the goroutines between `Charge` and
`Release`, and `Charge` adds and `Release` removes one element of that set (`EngineOK`). A
mutex that is free has nobody inside. Batches are disjoint (`BatchOK`), which is why a
reply to one request is nobody else's (`ReplyOK`) and why what two goroutines count is
different requests (`CountOK`): the counter is the cardinality of the set of requests
counted so far. `SentOK` says how far the replies of each batch have come, and that
rows are missing exactly after a failed call. For the answers, the invariant follows
every question from the channel through a worker's list into `built`: all questions
of the batch are somewhere on that way, each as often as its body lists it. The row of a built
question is the item at its index, whatever the order of `built`, by induction over
the loop that fills `valid` (`ValidPrefixes`).

**`GoserveProofs`** puts the two halves together:

- `GoserveInvariant`: the invariants of both halves hold of the composed process;
- `GoroutinesNeverBlock`, `CountersAgree`: no goroutine waits on a reply channel, and once
  nothing is under way the requests counted are those answered, shed or counted as errors, and
  also those shed and those in batches, the sum that `/stats` gives as an average;
- `ServesItsClients`: `Goserve` implements `DecisionService`;
- `AverageNeverFarOff`, `SumNeverAhead`: what four separate loads of the counters can say
  (of `StatsSpec`, for any number of readings).

The invariant of `Dispatch` speaks of replies as if nobody took them from `respCh`; here a
handler does. The proof reads `Dispatch` with `respCh` replaced by `Told`, what a launched request
was sent so far, in its channel or already with its client, which receiving leaves unchanged.
`LinkOK` says that the requests of dispatch are those of the launched batches, so that
`OnePlace` gives the disjointness that `Dispatch` asks of `SubmitBatch`, and that the others
have only refusals. The refinement needs that what a handler receives is its own
answer, its rejection or the failure of its batch (`ReceivedIsOwn`), which is
`DispatchInv` and `LinkOK`. For `/stats` the four loads are compared with the counters, which only
grow: each pair was ordered when the first of the two was loaded.

**`LayagateProofs`**:

- `LayagateInvariant`: the inductive invariant `LGInv`;
- `AnswersToOwnRequest`: own answers for every request whose id is its own in its batch;
- `FirstComeFirstPosted`: `BatchQueue` at unit weights is implemented. Hypothesis:
  `BATCH_MAX` is not zero; with zero the batcher takes a request before it compares, and
  its batches of one exceed that cap;
- `StatsAccount`: `CountersAddUp`. Hypothesis `BatchesFit`: a batch is no larger than the
  backend's `MAX_REQ_PER_BATCH` (the defaults are equal), since a request the backend
  cuts off gets a 502 that nobody counts.

Handlers, line and batches are as in `goserve`, more simply because nothing is carried.
What an answer holds is followed through the call: a reply is what the backend makes of
the batch (`PredictBatch`), and of two entries of the payload with different ids neither
writes the other's answers (`PredictionAnswers`).

**`EnginesProofs`**:

- of `EngineRun`: `EngineInvariant`, `SessionExclusive`, `TensorsAlive`, `TensorsReturned`. The
  mutex of an engine is held by the one caller inside, and the tensors that exist are the
  first ones of each call, as many as it has made;
- of the life of the process (`Engines`): `OptionsReturned`, no options object is left
  behind, used after its destruction or destroyed twice, for any number of engines;
  `EnginesGrouped`, the groups partition the engines by GPU for every list of the
  environment. The invariant (`GroupingInv`) is that `byGPU` holds the positions dealt with
  so far, then those of the GPUs not yet moved to a group; `LifeServes`, the process
  implements `EngineRun`, and with it `LifeLeaksNothing`.

**`LayagoProofs`**, of the library:

- of `Scoring`, for any lengths, any number of questions and any of the constants of
  `BuildSequence`: `BatchInvariant`; `StateFills`, the state takes the room it is left;
  `AnswersApart`, the logit taken for an option is that of its own mask token in its own row.
- of `Tokenizer`, for any vocabulary, text and list of merges: `EncodeInvariant`;
  `TextKept`, nothing is dropped or doubled if what merges make are tokens; `SameTokens`,
  merging all occurrences of a pair in place ends where merging one at a time ends, if the
  list makes each of its own tokens in order of rank.
- of `Questions`, for any JSON, any number of options, any row, long or short, and any
  temperature: `QuestionInvariant`; `PanicsKnown`, what panics is a choice without options or
  a row shorter than the options; `BestChosen` and `AnswersNamed`, of logits that weigh;
  `OnlyUnweighedEmpty`, when a 200 has no body; `CriteriaApart`, two objects or arrays are written alike by `pyDumps`
  only if they are the same.

*Sequences.* What is appended stays where it is (`UptoGrows`), so a marker points at the mask
token of its option in every longer sequence (`MarkerPoints`); markers are kept in order, so
as many as there are options are all of them (`MarkersAll`). A row of a packed tensor begins
with what was packed into it because rows are as wide as the longest item (`PackedRow`). The
invariant `BatchInv` adds only that items, tensors and answers are those of the batch in order.

*Merges.* `NothingLost` is inductive with the types of the array (`EncodeTypes`) and what it
holds at each stage (`Held`). For `MergesAgree` the state in the middle of a pass counts: what
is written followed by what is not yet read is a word of which the remaining merges, one at a
time, give the tokens of the whole piece (`SameEnd`), because the pass makes exactly the merges
that come next. That needs to know that no pair of a lower rank comes up during the pass, which is where
the hypothesis `TokensInOrder` is used: the list, started on the single symbols of a token it
makes, merges them one at a time in order of rank. That is asked of the tokens of the list and
proved of every word (`WordsInOrder`): what stands next to each other in a word was itself
reached, by the merges made inside it, from the symbols it spells (`PartMerges`, `PartsReached`);
a pair that a merge brings up spells a token, so the merge that brought it up was one in the
making of that token, where no lower rank follows a higher one. The order of the list is not
assumed: a SentencePiece list, where a token has entries for all of its splits, some of whose
parts are made by later entries, may well meet the hypothesis, and lists of this sort are in
the instance. Without the hypothesis the property is false, which is the finding of
`tokenizer_hf`.

*Questions.* `QuestionInv` says what each step has made of the definition. An object built from
pairs lists their keys in order and holds for each the value of the last pair with that key
(the lemmas on `Object`); names, options and logits are lists of the same length in the same
order. Division by a positive temperature, cut off as `TempScale` cuts it, keeps strict order
for the whole numbers that logits are here (`ScaledUp`) and leaves infinities alone. A list of
logits *weighs* if its elements are numbers, none plus infinity and not all minus infinity: then
softmax keeps their order, and else it returns nothing that is a number (`SoftmaxIs`). Which
of its probabilities reach the answer depends on the type: none for a type without options,
whose confidence is that of a single one.

*Texts.* That texts are told apart whatever stands behind them is proved from the characters
up (`Separable`, `Coded`): escapes, quoted strings, lists with commas, then the values level
by level, each from the level below. A text begins with a character that says of which kind
its value is, for which numbers must not begin like quotes, brackets or words
(`LiteralAssumption`).

**`ToolProofs`**, of the tools:

- `BenchInvariant`, `EveryRequestCounted`, `VerdictIsEarned`: no two workers are at the same
  request, so every request is in one count, and nothing is counted after the verdict;
  for finitely many workers, as many as `-c` says, and any percentage of the verdict.
- `ParityInvariant`, `TokensExitTrue`, `SeqExitTrue`, for files of any length: while a check
  goes on its count is zero exactly if all it has looked at is right, and the table of the
  dump holds the last line of each id read so far.
- `ReportInvariant`, `ReportIsTrue`: items and references grow together by the questions that
  are looked up, and after each batch the sums are those of the questions before its end
  (`BatchSums`). A batch takes the questions from `start` to `End`; they are disjoint from
  those before, so their counts add up (`SplitCount`), and the largest difference so far and
  those of the batch have the largest of all (`MaxOfMore`).

That the files are sequences of what the JSON decoder delivers, with numbers for
probabilities, is `RunAssumption`.

The assumptions on constants say what the code or its data guarantee: lengths are numbers, with
at least as much room kept for crowded instructions as they are cut to, 16 and 8 in the code
(`LengthAssumption`, `ShapeAssumption`); the unknown token and the Metaspace are in the vocabulary
(`VocabAssumption`) and each character of a text is in it or has bytes (`TextAssumption`); the
documents are JSON values nested to some depth, those inside them included (`DocAssumption`);
a merge is a pair of tokens (`MergeAssumption`); a row holds at least one logit, since `Run` makes
no narrower one, and NaN and the infinities are different values (`InputAssumption`); the
percentage of the verdict is between 0 and 100. TLC evaluates each of them in the runs of its module.

The models only changed where a proof asked for what was folded away or where it showed them
wrong. `valid` is built as the loop builds it, `Deliver` names the sending of one reply that
`Batcher` and `Goserve` share, `layagate`'s answers begin as the empty map they are, the loops
of start-up and of `checkTokens` take one entry a step. Recursive operators became recursive
functions, so documents are nested to a constant `Depth`. The proof of `ReportTrue` did not go
through for options that share a name, of which the model left open which one counts where the
code takes the last, nor for a choice without options, where `AnswerOne` panics: both
are in `ParityCheck` now (`IsLast`, `RunPanics`) and in the instance of its run. Rows too short
for the options of a question, which `Scoring` shows to happen, are in `Questions`, in `Dispatch`
(`short`) and in `ParityCheck` (`Width`): each panics there as `AnswerOne` does. The order of merge lists, assumed at first,
became the hypothesis `TokensInOrder` of the one property that needs it. Constants
got the assumptions the code makes: at least one build worker and one engine in each group,
and Go's nil different from every list, row and reply.

### What stays with TLC

Every invariant and action property that a passing run checks is a theorem, except one.
What TLC alone checks:

- liveness under fairness: `EveryRequestAnswered`, `EveryCallReturns`, `Terminates` and
  `Reports`; the prover has no rules for fairness of these actions;
- `NeverWaitsOnBackend`, which says ENABLED, for which it has none either;
- `EveryOptionScored`, `MirrorsHF` and `GateAsDocumented`, which are false (`scoring_long`,
  `tokenizer_hf`, `bench_gate`).

Induction with a predicate is out of the prover's reach, since no backend instantiates an
operator parameter; induction over numbers is stated for a set instead (`NumbersInSet` in
`ListLemmas`: every number is in a set that contains zero and is closed under successor), and
recursive functions of a number are reached by it through `Stepwise`.

## Plan

Done: all modules of the table, and a theorem for each safety property that holds. What could
follow is outside the modules: the statistics endpoint of `layagate` and `STATS` of the Python
backend, beside the components they belong to.

## Not modelled

The ONNX session and numbers (softmax, confidence), logging, the text of messages,
HTTP itself; `ReplaceMask`, `MarshalJSON` and the errors of the JSON token loop, which
are checked conversions without state; percentiles of `bench`; the statistics endpoint
of `layagate` (four loads like those of `GoserveStats`, in another order) and `STATS` of the
Python backend, incremented without a lock by a pool of threads and read by nobody but
its own endpoint; model export and quantization (offline and numerical), sweep scripts
and examples (they start the other programs one after the other).
