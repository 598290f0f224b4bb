-------------------------- MODULE MCTestController --------------------------
(***************************************************************************)
(* Small plans for TestController.  Conditions are records: "always",      *)
(* "unsupported", or "score" (the test score has reached n).  Outcome      *)
(* processing sums the committed item outcomes, the usual template of a    *)
(* score test.                                                             *)
(***************************************************************************)
EXTENDS TestControllerProperties, PlanProperties

Always      == [kind |-> "always", n |-> 0]
Unreadable  == [kind |-> "unsupported", n |-> 0]
ScoreIs(n)  == [kind |-> "score", n |-> n]
ScoreBelow(n) == [kind |-> "below", n |-> n]

MCEvaluate(c, s) ==
  CASE c.kind = "always" -> "true"
    [] c.kind = "unsupported" -> "unsupported"
    [] c.kind = "score" -> IF s.testOutcomes >= c.n THEN "true" ELSE "false"
    [] c.kind = "below" -> IF s.testOutcomes < c.n THEN "true" ELSE "false"

MCOutcomeRules(s) ==
  SumFunction([i \in Items |-> IF s.itemOutcomes[i] = NoResult THEN 0
                               ELSE s.itemOutcomes[i]])

Default == SpecDefaults

NoExtraTime == [unlimited |-> FALSE, multiplier |-> 0, fixed |-> 0]

Right   == [outcomes |-> 1, correct |-> "correct", responded |-> TRUE, valid |-> TRUE]
Wrong   == [outcomes |-> 0, correct |-> "incorrect", responded |-> TRUE, valid |-> TRUE]
Invalid == [outcomes |-> 0, correct |-> "unscored", responded |-> FALSE, valid |-> FALSE]

MaxTimes(limits) == [c \in Scopes |-> IF c \in DOMAIN limits THEN limits[c] ELSE NoLimit]
MinTimes(limits) == [c \in Scopes |-> IF c \in DOMAIN limits THEN limits[c] ELSE 0]
NoMax == MaxTimes(<<>>)
NoMin == MinTimes(<<>>)
BothWays == {1, -1}

(***************************************************************************)
(* Mixed: a nonlinear individual part (two attempts, no review, an item    *)
(* that cannot be skipped and validates), a linear simultaneous part of two *)
(* items, and an individual part with a precondition on the score.         *)
(***************************************************************************)
MixedPartOf   == <<1, 1, 2, 2, 3>>
MixedPath     == <<<<1>>, <<1>>, <<2>>, <<2>>, <<2>>>>
MixedControl  ==
  <<[Default EXCEPT !.maxAttempts = 2, !.allowReview = FALSE],
    [Default EXCEPT !.allowSkipping = FALSE, !.validateResponses = TRUE],
    [Default EXCEPT !.allowSkipping = FALSE, !.allowComment = TRUE],
    Default,
    Default>>
MixedPre      == <<{}, {}, {Unreadable}, {}, {ScoreIs(1)}>>
MixedBranch   == <<<<>>, <<>>, <<[when |-> ScoreIs(2), kind |-> "EXIT_TEST", to |-> {}]>>, <<>>, <<>>>>
MixedResults  == {Right, [Wrong EXCEPT !.responded = FALSE, !.valid = FALSE]}

(***************************************************************************)
(* Timed: a linear part with nested sections and minimum times, then a     *)
(* nonlinear simultaneous part with a maximum that accepts late            *)
(* submissions except for its first item.  The test's own maximum carries   *)
(* fixed extra time.                                                       *)
(***************************************************************************)
TimedPartOf   == <<1, 2, 2>>
TimedPath     == <<<<1, 2>>, <<3>>, <<3>>>>
TimedControl  == <<[Default EXCEPT !.allowSkipping = FALSE],
                   [Default EXCEPT !.allowSkipping = FALSE], Default>>
TimedPre      == <<{}, {}, {}>>
TimedBranch   == <<<<>>, <<>>, <<>>>>
TimedResults  == {Right}
TimedMax      == MaxTimes((<<"item", 1>> :> 2) @@ (<<"part", 2>> :> 1)
                            @@ (<<"item", 2>> :> 0) @@ (TestScope :> 2))
TimedMin      == MinTimes((<<"item", 1>> :> 1) @@ (<<"section", 1>> :> 2))
TimedLate     == {<<"part", 2>>, TestScope}
TimedExtra    == [unlimited |-> FALSE, multiplier |-> 0, fixed |-> 1]

(***************************************************************************)
(* Declared tests                                                          *)
(***************************************************************************)

Ref(id) == [kind |-> "ref", id |-> id, required |-> FALSE, fixed |-> FALSE, pre |-> {},
            control |-> <<>>]
Section(id, children) ==
  [kind |-> "section", id |-> id, required |-> FALSE, fixed |-> FALSE, pre |-> {},
   control |-> <<>>, children |-> children, selection |-> NoSelection, shuffle |-> FALSE,
   visible |-> TRUE, keepTogether |-> TRUE]
Part(sections) == [control |-> <<>>, sections |-> sections]
Taking(n)   == [select |-> n, withReplacement |-> FALSE]
Drawing(n)  == [select |-> n, withReplacement |-> TRUE]
Loosely(s)  == [s EXCEPT !.visible = FALSE, !.keepTogether = FALSE]
Shuffled(s) == [s EXCEPT !.shuffle = TRUE]

(***************************************************************************)
(* Drill: a linear part with a section of two draws with replacement and a *)
(* plain item, and an item in a part of its own; the plan in which one ref *)
(* is drawn twice.  That ref has a maximum time, the plain item after the  *)
(* section a minimum.                                                      *)
(***************************************************************************)
DrillTest ==
  <<Part(<<[Section(1, <<[Ref(<<"Q">>) EXCEPT !.pre = {ScoreBelow(2)}], Ref(<<"P">>)>>)
              EXCEPT !.selection = Drawing(2), !.control = [allowSkipping |-> FALSE]],
            Section(2, <<Ref(<<"R">>)>>)>>),
    Part(<<Section(3, <<[Ref(<<"S">>) EXCEPT !.control = [allowSkipping |-> FALSE]]>>)>>)>>
DrillPlan == CHOOSE plan \in ResolvePlan(DrillTest) : plan[2].key = <<"Q", 2>>
DrillResults  == {Right, Wrong}
DrillPartOf   == [k \in 1 .. 4 |-> DrillPlan[k].part]
DrillPath     == [k \in 1 .. 4 |-> DrillPlan[k].path]
DrillControl  == [k \in 1 .. 4 |-> DrillPlan[k].control]
DrillPre      == [k \in 1 .. 4 |-> DrillPlan[k].pre]
InstancesOf(ref) == {k \in 1 .. 4 : DrillPlan[k].ref = ref}
DrillMax      == MaxTimes([c \in {<<"item", k>> : k \in InstancesOf(<<"Q">>)} |-> 1])
DrillMin      == MinTimes([c \in {<<"item", k>> : k \in InstancesOf(<<"R">>)} |-> 1])
QBranch       == <<[when |-> ScoreIs(1), kind |-> "instances", to |-> InstancesOf(<<"Q">>)],
                   [when |-> ScoreIs(2), kind |-> "EXIT_SECTION", to |-> {}],
                   [when |-> ScoreIs(1), kind |-> "item", to |-> InstancesOf(<<"R">>)]>>
DrillBranch   == <<QBranch, QBranch,
                   <<[when |-> ScoreIs(2), kind |-> "EXIT_TESTPART", to |-> {}],
                     [when |-> ScoreIs(1), kind |-> "EXIT_TEST", to |-> {}],
                     [when |-> Unreadable, kind |-> "EXIT_SECTION", to |-> {}]>>,
                   <<>>>>

(***************************************************************************)
(* A shuffled section with a fixed ref, a dissolving section that selects  *)
(* and one that stays together; dissolving sections within each other,     *)
(* under and not under a shuffle; a section that may be drawn twice.       *)
(***************************************************************************)
ShuffledTest ==
  LET mixed == [Loosely(Section(2, <<Ref(<<"B">>), [Ref(<<"C">>) EXCEPT !.required = TRUE,
                                        !.control = [maxAttempts |-> 3]], Ref(<<"D">>)>>))
                  EXCEPT !.selection = Taking(2), !.pre = {ScoreIs(1)},
                         !.control = [maxAttempts |-> 2, allowReview |-> FALSE]]
      kept  == [Section(3, <<Ref(<<"E">>), Ref(<<"F">>)>>) EXCEPT !.pre = {Unreadable},
                         !.visible = FALSE]
  IN <<Part(<<Shuffled(Section(1, <<[Ref(<<"A">>) EXCEPT !.fixed = TRUE], mixed, kept>>))>>)>>

NestedTest ==
  LET inner == [Loosely(Section(6, <<Ref(<<"H">>), [Ref(<<"I">>) EXCEPT !.fixed = TRUE]>>))
                  EXCEPT !.control = [allowSkipping |-> FALSE]]
      outer == [Loosely(Section(5, <<inner, Ref(<<"G">>)>>)) EXCEPT !.pre = {ScoreIs(1)},
                  !.control = [allowSkipping |-> TRUE]]
      still == Loosely(Section(8, <<Ref(<<"K">>), Ref(<<"L">>)>>))
  IN <<[Part(<<Shuffled(Section(4, <<outer, Ref(<<"J">>)>>)),
               Section(7, <<still, Ref(<<"M">>)>>)>>)
          EXCEPT !.control = [maxAttempts |-> 0]]>>

RepeatedTest ==
  LET pair  == [Section(10, <<Ref(<<"Q">>), Ref(<<"N">>), Ref(<<"O">>)>>)
                  EXCEPT !.selection = Taking(1)]
      draws == [Section(9, <<pair, [Ref(<<"U">>) EXCEPT !.required = TRUE]>>)
                  EXCEPT !.selection = Drawing(3)]
  IN <<Part(<<Shuffled(draws)>>), Part(<<Section(11, <<Ref(<<"T">>)>>)>>)>>

\* However the draws fall, a plan serves what the test declares: distinct session
\* keys, each item under its own sections' conditions and controls, selections
\* honoured, sections in one stretch and fixed refs in place.  A plan is resolved
\* when the controller is made, before its session starts.
PlansAreAdmissible ==
  Init => \A view \in {DrillTest, ShuffledTest, NestedTest, RepeatedTest} :
            \A plan \in ResolvePlan(view) : Admissible(view, plan)

(***************************************************************************)
(* Held: a nonlinear simultaneous part before a linear one whose first     *)
(* item is for candidates below score 1.                                   *)
(***************************************************************************)
HeldPartOf  == <<1, 1, 2, 2>>
HeldPath    == <<<<1>>, <<1>>, <<2>>, <<2>>>>
HeldControl == <<Default, Default, Default, Default>>
HeldPre     == <<{}, {}, {ScoreBelow(1)}, {}>>
HeldBranch  == <<<<>>, <<>>, <<>>, <<>>>>
=============================================================================
