------------------------------ MODULE ServeTypes ------------------------------
(* The vocabulary shared by the modules of the Go gateway (go/goserve):      *)
(* requests, the questions they carry, and what travels through respCh.      *)
EXTENDS Lists, FiniteSets

CONSTANTS
    Req,           (* one HTTP request each, submitted at most once            *)
    Question,      (* a question id together with its definition               *)
    Kind,          (* what becomes of each question, see below                 *)
    Bodies,        (* the question lists (qs.Keys, repeats allowed) of bodies  *)
    BatchMax,      (* BATCH_MAX, the cap on the questions of one engine call   *)
    QueueCap,      (* the capacity of reqCh                                    *)
    None           (* Go's nil                                                 *)

(* "ok"          scored and answered                                         *)
(* "invalid"     ToInternal returns an error: kept out of the engine batch   *)
(* "panicBuild"  not a JSON object (the type assertion panics), or a choice  *)
(*               whose criteria are no list and no object (RenderOptions)    *)
(* "panicAnswer" a choice with empty criteria: AnswerOne indexes an empty    *)
(*               list                                                        *)
(* "short"       BuildSequence dropped markers of it: AnswerOne reads past   *)
(*               its row, unless another question of the batch makes the     *)
(*               rows wide enough. Questions shows that these are all.       *)
Kinds == {"ok", "invalid", "panicBuild", "panicAnswer", "short"}

ASSUME CapAssumption == BatchMax \in Nat /\ QueueCap \in Nat \ {0}
ASSUME BodyAssumption == Bodies \subseteq Seq(Question)
ASSUME KindAssumption == Kind \in [Question -> Kinds]
ASSUME NoneAssumption == None \notin Req

VARIABLES
    keys,          (* [Req -> Seq(Question)]: qs.Keys of the request           *)
    respCh         (* [Req -> reply or None]: the channel of capacity one      *)

-----------------------------------------------------------------------------

(* A question that reaches the engine batch: built without an error.         *)
Valid(q) == Kind[q] \in {"ok", "panicAnswer", "short"}
ValidKeys(r) == {q \in Elems(keys[r]) : Valid(q)}

(* The places a sequence of requests takes on the batch axis of one call.    *)
SlotsOf(ks, s) == UNION {{r} \X DOMAIN ks[r] : r \in Elems(s)}
Slots(s) == SlotsOf(keys, s)

(* result{answers} and result{err}: an answer is named by the item, request  *)
(* and question, whose engine row it was computed from.                      *)
Item == Req \X Question
NoAnswers == [q \in {} |-> None]
Answered(a) == [code |-> 200, answers |-> a]
Failed(c) == [code |-> c, answers |-> NoAnswers]
Reply == [code : {200, 400, 502, 503},
          answers : UNION {[S -> Item] : S \in SUBSET Question}]
=============================================================================
