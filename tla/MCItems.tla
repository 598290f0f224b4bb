------------------------------- MODULE MCItems -------------------------------
(***************************************************************************)
(* Small items for ItemProperties: every operator over undecided           *)
(* variables, rule trees with and without constructs the interpreter       *)
(* refuses, clones under every short run of the generator, and keys and    *)
(* responses of up to two members of every base type.                      *)
(***************************************************************************)
CONSTANT Absent

MCNumberOf(t) ==
  CASE t \in {"", "0"} -> 0
    [] t \in {"1", "01"} -> 1
    [] t = "2" -> 2
    [] OTHER -> Absent

MCPairOf(t) ==
  CASE t = "A A" -> <<"A", "A">>
    [] t = "A B" -> <<"A", "B">>
    [] t = "B A" -> <<"B", "A">>
    [] OTHER -> Absent

MCPointOf(t) ==
  CASE t \in {"0 0", "00 0"} -> <<0, 0>>
    [] t = "1 0" -> <<1, 0>>
    [] OTHER -> Absent

MCFolded(t) == IF t = "A" THEN "a" ELSE t
MCCompiles(p) == p # "["
MCSameText(t, u) == t = u
MCTextFor(scalar) == CASE scalar[1] = "text" -> scalar[2] [] scalar = <<"number", 1>> -> "1" [] OTHER -> "2"
MCCustomOperator(class, vs) == vs[1]
MCCalculate(name, numbers) == IF name = "divide" THEN Absent ELSE numbers[1]

LOCAL INSTANCE ItemProperties WITH
  NumberOf <- MCNumberOf, PairOf <- MCPairOf, PointOf <- MCPointOf,
  Normalize <- MCFolded, LowerCase <- MCFolded,
  Compiles <- MCCompiles, Fits <- MCSameText, Calculate <- MCCalculate, Within <- MCSameText,
  CustomOperator <- MCCustomOperator, TextFor <- MCTextFor,
  Grain <- 2, MaxConstraintAttempts <- 2

\* Runs of the generator, one per clone.
Generators == {[cloneDraws |-> d \o <<0, 1, 0, 1>>, draws |-> <<1, 0>>, classes |-> {"known"}] :
                 d \in [1 .. 4 -> 0 .. 1]}
FirstGenerator == [cloneDraws |-> <<0, 1>>, draws |-> <<1, 0, 1>>, classes |-> {"known"}]

ResponseOf(cardinality, baseType, key) ==
  [cardinality |-> cardinality, baseType |-> baseType, default |-> Absent, correct |-> key,
   mapping |-> Absent, areas |-> Absent]

OutcomeOf(baseType, default, table) ==
  [cardinality |-> "single", baseType |-> baseType, default |-> default, table |-> table]

\* A choice with one key, scored by match_correct, that asks for an answer.
Choice ==
  [responses |-> "RESPONSE" :> ResponseOf("single", "identifier", <<"right">>),
   outcomes |-> "SCORE" :> OutcomeOf("float", Absent, Absent),
   templates |-> <<>>, templateRules |-> Absent, rules |-> Absent, template |-> "match_correct",
   adaptive |-> FALSE,
   constraints |-> <<[kind |-> "minChoices", bound |-> 1, response |-> "RESPONSE"]>>]

\* The same, going on until it is answered rightly.
Adapting ==
  [Choice EXCEPT
     !.adaptive = TRUE,
     !.rules = <<Condition(IsRight, <<Points(1), Verdict("completionStatus", "completed")>>,
                           <<Verdict("completionStatus", "incomplete")>>)>>]

(***************************************************************************)
(* Conditions                                                              *)
(***************************************************************************)
Var(v) == Leaf("variable", v)
Counted(min, max, args) ==
  [kind |-> "anyN", args |-> args, attrs |-> <<<<"number", min>>, <<"number", max>>>>]

Over(args) == {Op("and", args), Op("or", args)}
                \union {Counted(min, max, args) : <<min, max>> \in {r \in (0 .. 3) \X (0 .. 3) : r[1] <= r[2]}}

Inner == {Var("A"), Var("B"), Op("not", <<Var("A")>>)}
           \union Over(<<Var("A"), Var("B")>>)
Nested2 == UNION {Over(<<x, y>>) : x \in Inner, y \in Inner}

NullLogicHolds ==
  /\ \A e \in Over(<<Var("A"), Var("B"), Var("C")>>) \union {Op("not", <<Var("A")>>)} :
       LET variables == IF e.kind = "not" THEN {"A"} ELSE {"A", "B", "C"}
       IN NeverGuesses(e, variables) /\ DecidesInTime(e, variables)
  /\ \A e \in Nested2 : NeverGuesses(e, {"A", "B"})

(***************************************************************************)
(* Rules                                                                   *)
(***************************************************************************)
Custom(class) == [kind |-> "customOperator", class |-> class, args |-> <<Response>>, attrs |-> <<>>]
Pattern(pattern) == [kind |-> "patternMatch", pattern |-> pattern, args |-> <<Response>>, attrs |-> <<>>]

\* The first sum ends before the aggregate that only a test could answer.
Tests ==
  {IsRight, Pattern(<<"text", "right">>), Pattern(<<"text", "[">>), Pattern(<<"ref", "MASK">>),
   Op("isNull", <<Custom("known")>>), Op("isNull", <<Custom("unknown")>>),
   Op("equal", <<Op("sum", <<Leaf("null", ""), Leaf("testVariables", "")>>), Var("SCORE")>>)}

Drawn == Op("random", <<Op("multiple", <<Literal("float", Num(1)), Literal("float", Num(2))>>)>>)

Lookup(id) == [kind |-> "lookupOutcomeValue", id |-> id, expr |-> Leaf("variable", "SCORE")]

SimpleRules ==
  {Points(1), SetOutcome("SCORE", Drawn), SetOutcome("SCORE", Leaf("numberCorrect", "")),
   Lookup("GRADE"), Lookup("SCORE"), [kind |-> "exitResponse"], [kind |-> "printResponse"]}

Fragment(rules) == [kind |-> "responseProcessingFragment", rules |-> rules]

Compound == {Condition(test, <<yes>>, <<no>>) : test \in Tests, yes \in SimpleRules, no \in SimpleRules}
              \union {Fragment(<<rule>>) : rule \in SimpleRules}

RuleLists == {<<rule>> : rule \in Compound} \union {<<first, rule>> : first \in SimpleRules, rule \in Compound}

Grades == [kind |-> "match", default |-> Absent,
           entries |-> <<[source |-> 1, target |-> Str("pass")]>>]

Ruled(rules) ==
  [Choice EXCEPT !.rules = rules,
                 !.outcomes = ("GRADE" :> OutcomeOf("identifier", Absent, Grades))
                                @@ ("MASK" :> OutcomeOf("string", <<Str("[")>>, Absent)) @@ @]


Given(texts) == "RESPONSE" :> texts

(***************************************************************************)
(* Clones                                                                  *)
(***************************************************************************)
SetTemplate(e) == [kind |-> "setTemplateValue", id |-> "T", expr |-> e]
Constraint(e)  == [kind |-> "templateConstraint", expr |-> e]
Is(n)          == Op("equal", <<Var("T"), Literal("integer", Num(n))>>)

CloneRules ==
  {SetTemplate(Drawn), SetTemplate(Leaf("testVariables", "")),
   [kind |-> "setCorrectResponse", id |-> "RESPONSE", expr |-> Var("T")],
   Constraint(Is(2)), Constraint(Leaf("null", "")),
   [kind |-> "exitTemplate"], [kind |-> "printTemplate"]}

CloneConditions ==
  {[kind |-> "templateCondition", branches |-> <<[test |-> Is(2), rules |-> <<yes>>]>>, otherwise |-> <<no>>] :
     yes \in CloneRules, no \in CloneRules}

CloneItems ==
  {[Choice EXCEPT !.templateRules = rules,
                  !.templates = "T" :> ResponseOf("single", "integer", Absent),
                  !.responses = "RESPONSE" :> ResponseOf("single", "integer", <<"1">>)] :
     rules \in {<<SetTemplate(Drawn), a, b>> : a \in CloneRules, b \in CloneRules \union CloneConditions}
               \union {<<a, SetTemplate(Drawn), b>> : a \in CloneRules \union CloneConditions, b \in CloneRules}}

GateIsHonest ==
  /\ \A rules \in RuleLists, text \in {<<>>, <<"right">>} :
       GateHolds(Ruled(rules), FirstGenerator, Given(text))
  /\ \A item \in CloneItems, source \in Generators : GateHolds(item, source, Given(<<"1">>))

AttemptedBefore(status) == [attempts |-> 1, duration |-> 0, at |-> 1,
                   outcomes |-> ("SCORE" :> <<Num(1)>>) @@ ("completionStatus" :> <<Str(status)>>)
                                  @@ ("GRADE" :> <<>>) @@ ("MASK" :> <<Str("[")>>)]

NothingIsHalfDone ==
  /\ \A rules \in RuleLists, text \in {<<>>, <<"right">>}, adaptive \in BOOLEAN :
       LET item == [Ruled(rules) EXCEPT !.adaptive = adaptive]
       IN \A last \in {NotAttempted(item), AttemptedBefore("incomplete")} :
            AbortLeavesNoTrace(item, FirstGenerator, last, Given(text))
  /\ \A item \in CloneItems, source \in Generators : CloneIsOneDraw(item, source)

(***************************************************************************)
(* Keys and responses                                                      *)
(***************************************************************************)
Members(baseType) ==
  CASE baseType = "identifier" -> {"A", "B"}
    [] baseType = "integer"    -> {"1", "01", "2"}
    [] baseType \in {"pair", "directedPair"} -> {"A A", "A B", "B A"}
    [] baseType = "point"      -> {"0 0", "00 0", "1 0"}
    [] baseType = "boolean"    -> {"true", "false"}
    [] baseType = "string"     -> {"A", "a", "B"}

UpTo(n, S) == UNION {[1 .. k -> S] : k \in 0 .. n}

ScorersAgreed ==
  \A baseType \in {"identifier", "integer", "pair", "directedPair", "point", "boolean", "string"},
     cardinality \in {"single", "multiple", "ordered"} :
    LET size == IF cardinality = "single" THEN 1 ELSE 2
        answers == UpTo(size, Members(baseType))
    IN \A key \in answers \ {<<>>}, response \in answers :
         ScorersAgreeOn([Choice EXCEPT !.responses = Given(ResponseOf(cardinality, baseType, key))],
                        FirstGenerator, Given(response))

(***************************************************************************)
(* Attempts of the sessions                                                *)
(***************************************************************************)

\* The last attempt of an item that came to a score.
AttemptedAt(score) ==
  [attempts |-> 1, duration |-> 0, at |-> 0,
   outcomes |-> ("SCORE" :> <<Num(score)>>)
                  @@ ("completionStatus" :> <<Str(IF score = 1 THEN "completed" ELSE "incomplete")>>)]

\* What the controller is told of a submission: the score, by the rules, and the flags.
ResultOf(item, last, text) ==
  LET made == Attempt(item, <<>>, FirstGenerator, last, Given(text))
  IN [outcomes |-> made.outcomes["SCORE"][1][2]]
       @@ ResultFlags(item, item, Given(text))

CompletedAt(item, score) == Completed(item, AttemptedAt(score).outcomes)
FirstTime(item) == NotAttempted(item)
KeptBetween(item, text) == NextResponses(item, Given(text))["RESPONSE"]
=============================================================================
