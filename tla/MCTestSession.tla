--------------------------- MODULE MCTestSession ---------------------------
(***************************************************************************)
(* Small sessions for TestSession, over the plans and conditions of        *)
(* MCTestController.                                                       *)
(***************************************************************************)
EXTENDS TestSessionProperties, MCTestController, MCItems

Answers == {"blank", "right"}

\* An adaptive item's last score stands where it is left unanswered.
Blank   == [Invalid EXCEPT !.correct = "incorrect"]
Carried == [Blank EXCEPT !.outcomes = 1]
AnswerResults == {Right, Blank, Carried}

Texts(v) == IF v = "blank" THEN <<>> ELSE <<v>>

ItemOf(i) == IF i \in Adaptive THEN Adapting ELSE Choice

AttemptBefore(i, prior) ==
  IF i \in Adaptive /\ prior # NoResult THEN AttemptedAt(prior.outcomes) ELSE FirstTime(ItemOf(i))

MCScore(i, v, prior) == ResultOf(ItemOf(i), AttemptBefore(i, prior), Texts(v))

MCCompletes(i, r) == CompletedAt(ItemOf(i), r.outcomes)

\* An adaptive item keeps its choice between attempts.
MCNextAttempt(v) == IF KeptBetween(Adapting, Texts(v)) = <<>> THEN "blank" ELSE v

(***************************************************************************)
(* What the processing of a submission owes to any item, said where the    *)
(* session starts.                                                         *)
(***************************************************************************)

\* Three-valued logic decides a condition as soon as its operands do and never before:
\* no outcome rests on a response that was not given.  (evaluate.ts, "and", "or", "not"
\* and "anyN": "a decisive operand wins outright".)
NullLogicIsSound == SessionInit => NullLogicHolds

\* An item the gate lets through is never aborted in delivery, whatever is drawn and
\* answered.  (item-capability.ts asks collectRpIssues and collectTemplateIssues, which
\* report "constructs the interpreter lacks without executing".)
GateIsSound == SessionInit => GateIsHonest

\* What is aborted scores nothing and shows nothing: no outcome that a rule before the
\* abort set, no template value; and of a draw that missed a constraint neither a
\* value nor a key stays.  The exception: the keys set before a refused construct
\* aborted the template processing do stay, against template-processing.ts:227,
\* "abort, never a partial clone".  (interpreter.ts: "abort, never partial scoring";
\* template-processing.ts: "discard the partial clone and redraw".)
NothingHalfDone == SessionInit => NothingIsHalfDone

\* An item scored by match_correct gives its point for the responses that the feedback
\* and the flags call correct, and for no other, where every text is of its base type.
\* (response-processing.ts, scoreResponse; templates.ts, match_correct.)
ScorersAgree == SessionInit => ScorersAgreed

(***************************************************************************)
(* Flow: a nonlinear part with an item of two attempts and a custom        *)
(* interaction of one, then an adaptive item.                              *)
(***************************************************************************)
FlowPartOf  == <<1, 1, 2>>
FlowPath    == <<<<1>>, <<1>>, <<2>>>>
FlowControl == <<[Default EXCEPT !.maxAttempts = 2, !.validateResponses = TRUE],
                 Default, [Default EXCEPT !.allowSkipping = FALSE]>>
FlowPre     == <<{}, {}, {}>>
FlowBranch  == <<<<>>, <<>>, <<>>>>

(***************************************************************************)
(* Retry: a custom interaction of two attempts followed by a plain item.   *)
(***************************************************************************)
RetryPartOf  == <<1, 1>>
RetryPath    == <<<<1>>, <<1>>>>
RetryControl == <<[Default EXCEPT !.maxAttempts = 2], Default>>
RetryPre     == <<{}, {}>>
RetryBranch  == <<<<>>, <<>>>>

\* Late: the two items freely navigable, the first with no time to spend, the second validated.
LateControl == <<Default, [Default EXCEPT !.validateResponses = TRUE, !.maxAttempts = 2]>>
LateMax     == MaxTimes(<<"item", 1>> :> 0)
=============================================================================
