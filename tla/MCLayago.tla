------------------------------- MODULE MCLayago -------------------------------
(* The library go/layago: one call of Encode, one batch from its questions   *)
(* to its answers, or one question from its definition to the bytes sent.    *)
(* Calls share no state, so a behaviour is one of them; the other two stay   *)
(* where a call that is over has left them: the text "" is encoded, a        *)
(* question without options was scored, one without a type is refused.       *)
EXTENDS MCTokenizer, MCScoring, MCQuestions

Encoded ==
    /\ stage = "done" /\ merges = <<>> /\ text = <<>>
    /\ pieces = <<>> /\ word = <<>> /\ pair = <<>> /\ read = 0 /\ written = 0
    /\ out = <<<<Repl>>>>

Scored ==
    /\ phase = "done"
    /\ asked = <<<<[head |-> 1, options |-> <<>>], 0>>>>
    /\ items = <<Build(asked[1][1], asked[1][2])>>
    /\ tensors = Filled
    /\ answered = <<Row(1, 1)>>

Told ==
    /\ step = "refused"
    /\ def = [type |-> Nil, instructions |-> ask, criteria |-> Null]
    /\ row = Even /\ act = Even /\ temp = Nil
    /\ internal = Nil /\ rendered = <<>> /\ answer = Nil /\ body = <<>>

CallInit ==
    \/ Scored /\ Told /\ EncodeInit
    \/ Encoded /\ Told /\ ScoreInit
    \/ Encoded /\ Scored /\ QuestionInit

CallNext ==
    \/ EncodeNext /\ UNCHANGED <<scoreVars, questionVars>>
    \/ ScoreNext /\ UNCHANGED <<encodeVars, questionVars>>
    \/ QuestionNext /\ UNCHANGED <<encodeVars, scoreVars>>

CallSpec == CallInit /\ [][CallNext]_<<encodeVars, scoreVars, questionVars>> /\ WF_encodeVars(EncodeNext)
=============================================================================
