----------------------------- MODULE Expressions -----------------------------
(***************************************************************************)
(* The QTI expression evaluator that response and template processing      *)
(* share (packages/qti-react/src/rp/evaluate.ts).                          *)
(*                                                                         *)
(* An expression is a record of its kind, its operands and what the kind   *)
(* needs; its arity and its names are those the schema admits.  The        *)
(* generator is a sequence of draws, read from a position that evaluation  *)
(* moves on.  An expression the evaluator lacks is refused, and a refusal  *)
(* ends the evaluation of all it stands in.                                *)
(***************************************************************************)
EXTENDS ResponseValues

CONSTANTS
  Compiles(_),          \* whether a text is a pattern
  Fits(_, _),           \* whether a text matches a pattern
  Calculate(_, _),      \* a named function of numbers: a number, or Absent
  Within(_, _),         \* whether a text occurs in another
  CustomOperator(_, _), \* a registered vendor operator, by class and operands
  Grain                 \* a draw is one of 0 .. Grain - 1, in units of 1/Grain

(***************************************************************************)
(* Operators on values                                                     *)
(***************************************************************************)

\* Mutant: an undecided operand makes the result NULL before a decisive one is looked for.
AndOrNullFirst(kind, bs) ==
  IF Contains(bs, Absent) THEN Null
  ELSE Boolean(IF kind = "or" THEN Contains(bs, TRUE) ELSE ~Contains(bs, FALSE))

\* Three-valued logic: a decisive operand wins, an undecided one leaves NULL.
AndOr(kind, bs) ==
  LET decisive == kind = "or"
  IN IF Contains(bs, decisive) THEN Boolean(decisive)
     ELSE IF Contains(bs, Absent) THEN Null ELSE Boolean(~decisive)

\* anyN: decided when every count the undecided operands allow is.
AnyN(min, max, bs) ==
  LET count(b) == Cardinality({k \in DOMAIN bs : bs[k] = b})
      least == count(TRUE)
      most  == least + count(Absent)
  IN CASE least >= min /\ most <= max -> Boolean(TRUE)
       [] most < min \/ least > max   -> Boolean(FALSE)
       [] OTHER                       -> Null

Compare(kind, a, b) ==
  CASE kind = "gt" -> a > b
    [] kind \in {"gte", "durationGte"} -> a >= b
    [] kind \in {"lt", "durationLt"}   -> a < b
    [] kind = "lte" -> a <= b

\* equal: exactly where no tolerance is given, else within one; its bounds may be
\* references that nothing answers.
EqualWithin(tolerance, a, b) ==
  CASE tolerance = <<>>            -> Boolean(a = b)
    [] Contains(tolerance, Absent) -> Null
    [] OTHER -> Boolean(b \in a - Head(tolerance) .. a + Last(tolerance))

\* equalRounded: equal once both are rounded.
Rounded(a, b) == IF Absent \in {a, b} THEN Null ELSE Boolean(a = b)

\* Of two single numbers.
Comparisons == {"gt", "gte", "lt", "lte", "durationGte", "durationLt"}
PairKinds == Comparisons \union {"equal", "equalRounded", "subtract", "divide", "power", "integerDivide", "integerModulus"}

OfPair(kind, attrs, a, b) ==
  IF Absent \in {a, b} THEN Null
  ELSE CASE kind \in Comparisons -> Boolean(Compare(kind, a, b))
         [] kind = "equal"       -> EqualWithin(attrs, a, b)
         [] kind = "equalRounded" -> Rounded(Calculate("roundTo", <<a>> \o attrs),
                                             Calculate("roundTo", <<b>> \o attrs))
         [] kind = "subtract"    -> Float(a - b)
         [] OTHER                -> FloatOrNull(Calculate(kind, <<a, b>>))

\* Of the numbers of all operands.
FoldKinds == {"sum", "product", "min", "max", "gcd", "lcm"}

OfNumbers(kind, members) ==
  LET numbers == [k \in DOMAIN members |-> members[k][2]]
  IN CASE kind = "sum"     -> Float(FoldLeft(LAMBDA x, y : x + y, 0, numbers))
       [] kind = "product" -> Float(FoldLeft(LAMBDA x, y : x * y, 1, numbers))
       [] OTHER -> IF numbers = <<>> THEN Null ELSE FloatOrNull(Calculate(kind, numbers))

\* contains: a run of an ordered container, a part of a bag.
ContainsValue(first, second) ==
  LET Equal(x, y) == ScalarsEqual(x, y, BaseTypeOf(first, second))
      room == Len(first.members) - Len(second.members)
  IN IF first.cardinality = "ordered"
     THEN \E start \in 0 .. room : \A k \in DOMAIN second.members :
            Equal(first.members[start + k], second.members[k])
     ELSE StrikeOff(second.members, first.members, Equal)

\* delete: what is left of a container without the members equal to a value.
Without(v, container) ==
  Container(container.cardinality, container.baseType,
    SelectSeq(container.members,
              LAMBDA m : ~ScalarsEqual(m, v.members[1], BaseTypeOf(container, v))))

IsMember(v, container) ==
  \E k \in DOMAIN container.members :
    ScalarsEqual(container.members[k], v.members[1], BaseTypeOf(container, v))

\* Of two values, neither of them NULL.
ValueKinds == {"match", "contains", "member", "delete"}

OfValues(kind, a, b) ==
  IF Null \in {a, b} THEN Null
  ELSE CASE kind = "match"    -> Boolean(ValuesMatch(a, b))
         [] kind = "member"   -> Boolean(IsMember(a, b))
         [] kind = "delete"   -> Without(a, b)
         [] kind = "contains" -> IF "record" \in {a.cardinality, b.cardinality} THEN Null
                                 ELSE Boolean(ContainsValue(a, b))

\* The text a value begins with.
TextOf(v) ==
  IF v.members # <<>> /\ Head(v.members)[1] = "text" THEN Head(v.members)[2] ELSE Absent

\* stringMatch, substring: of two texts, folded as the consumer and the author ask.
OfTexts(e, a, b) ==
  LET folded(t) == IF e.caseSensitive THEN Normalize(t) ELSE LowerCase(Normalize(t))
  IN IF Absent \in {a, b} THEN Null
     ELSE Boolean(IF e.kind = "substring" \/ e.substring THEN Within(folded(a), folded(b))
                  ELSE folded(a) = folded(b))

\* inside: a text that names a point, and an area.
Inside(t, area) ==
  IF t = Absent \/ PointOf(t) = Absent THEN Null ELSE Boolean(PointOf(t) \in area)

\* multiple, ordered, repeat: the members of the operands that are not NULL.
Gathered(cardinality, vs) ==
  LET given == SelectSeq(vs, LAMBDA v : v # Null)
      typed == SelectSeq(given, LAMBDA v : v.baseType # "none")
  IN IF given = <<>> THEN Null
     ELSE Container(cardinality, IF typed = <<>> THEN "none" ELSE Head(typed).baseType,
                    FlattenSeq([k \in DOMAIN given |-> given[k].members]))

(***************************************************************************)
(* Evaluation                                                              *)
(***************************************************************************)

Answer(v, at)     == [value |-> v, at |-> at, refused |-> "no"]
Refusal(kind, at) == [value |-> Null, at |-> at, refused |-> kind]

Known(f, id) == IF id \in DOMAIN f THEN f[id] ELSE Null

\* An attribute: a number, a reference to a variable, or missing.
Attribute(raw, env) ==
  IF raw = Absent THEN Absent
  ELSE IF raw[1] = "number" THEN raw[2] ELSE SingleOf("number", Known(env.variables, raw[2]))

\* The whole number the next draw gives among count equally likely ones.
DrawBelow(env, at, count) == (env.draws[at + 1] * count) \div Grain

\* Kinds that look at their attributes before their operands: without them the
\* result is NULL and no operand is evaluated.
AttributeKinds == {"index", "anyN", "repeat", "roundTo", "equalRounded"}

\* randomInteger, randomFloat: one draw, bounds that are missing default.
DrawNumber(kind, attrs, env, at) ==
  LET Or(k, n) == IF attrs[k] = Absent THEN n ELSE attrs[k]
      min   == Or(1, 0)
      span  == Or(2, min) - min
      step  == Or(3, 1)
      steps == Max({1, span \div step + 1})
  IN IF kind = "randomFloat" THEN Answer(Float(min + DrawBelow(env, at, span)), at + 1)
     ELSE Answer(Float(min + DrawBelow(env, at, steps) * step), at + 1)

\* random: one draw, none for an empty container.
DrawMember(container, env, at) ==
  IF container = Null THEN Answer(Null, at)
  ELSE Answer(Value("single", container.baseType,
                <<container.members[DrawBelow(env, at, Len(container.members)) + 1]>>), at + 1)

\* The text is matched against a literal pattern, or one a variable holds; a
\* pattern that does not compile is refused.
PatternMatch(raw, t, env, at) ==
  LET pattern == IF raw[1] = "ref" THEN TextOf(Known(env.variables, raw[2])) ELSE raw[2]
  IN IF Absent \in {t, pattern} THEN Answer(Null, at)
     ELSE IF Compiles(pattern) THEN Answer(Boolean(Fits(pattern, t)), at)
     ELSE Refusal("patternMatch", at)

\* round, truncate, integerToFloat, roundTo, and the functions of mathOperator.
NumberKinds == {"round", "truncate", "integerToFloat", "roundTo"}

OfNamed(name, numbers) ==
  IF Contains(numbers, Absent) THEN Null ELSE FloatOrNull(Calculate(name, numbers))

\* What a kind makes of its operands.
OfOperands(e, attrs, vs, env) ==
  LET number(k) == SingleOf("number", vs[k])
      booleans  == [k \in DOMAIN vs |-> SingleOf("boolean", vs[k])]
      kind      == e.kind
  IN CASE kind \in PairKinds     -> OfPair(kind, attrs, number(1), number(2))
       [] kind \in ValueKinds    -> OfValues(kind, vs[1], vs[2])
       [] kind \in {"and", "or"} -> AndOr(kind, booleans)
       [] kind = "anyN"          -> AnyN(attrs[1], attrs[2], booleans)
       [] kind = "not"           -> IF booleans[1] = Absent THEN Null ELSE Boolean(~booleans[1])
       [] kind = "isNull"        -> Boolean(vs[1] = Null)
       [] kind = "containerSize" -> Float(Len(vs[1].members))
       [] kind = "index"         -> IF attrs[1] \notin DOMAIN vs[1].members THEN Null
                                    ELSE Value("single", vs[1].baseType, <<vs[1].members[attrs[1]]>>)
       [] kind = "fieldValue"    -> Known(vs[1].fields, e.id)
       [] kind = "inside"        -> Inside(TextOf(vs[1]), e.area)
       [] kind \in {"stringMatch", "substring"} -> OfTexts(e, TextOf(vs[1]), TextOf(vs[2]))
       [] kind \in {"multiple", "ordered"}      -> Gathered(kind, vs)
       [] kind = "repeat"                       -> Gathered("ordered", vs)
       [] kind = "customOperator"               -> CustomOperator(e.class, vs)
       [] kind = "statsOperator" -> IF AllNumbers(vs[1]) THEN OfNumbers(e.name, vs[1].members) ELSE Null
       [] kind = "mathOperator"  -> OfNamed(e.name, IF e.name = "atan2" THEN <<number(1), number(2)>>
                                                    ELSE <<number(1)>>)
       [] kind \in NumberKinds   -> OfNamed(kind, <<number(1)>> \o attrs)

OperandKinds ==
  PairKinds \union ValueKinds \union NumberKinds \union
  {"and", "or", "anyN", "not", "isNull", "containerSize", "index", "fieldValue", "inside",
   "stringMatch", "substring", "multiple", "ordered", "repeat", "customOperator",
   "statsOperator", "mathOperator"}

\* What needs no operands.
Leaves == {"baseValue", "variable", "correct", "default", "null", "mathConstant",
           "mapResponse", "mapResponsePoint"}

OfLeaf(e, env) ==
  LET declared == e.id \in DOMAIN env.declarations
      d        == env.declarations[e.id]
      response == env.responses[e.id]
  IN CASE e.kind = "baseValue"    -> Value("single", e.baseType, <<CoerceScalar(e.scalar, e.baseType)>>)
       [] e.kind = "variable"     -> Known(env.variables, e.id)
       [] e.kind = "default"      -> Known(env.defaults, e.id)
       [] e.kind = "null"         -> Null
       [] e.kind = "mathConstant" -> FloatOrNull(Calculate(e.name, <<>>))
       [] e.kind = "correct"      -> IF declared THEN CorrectValue(d) ELSE Null
       [] e.kind = "mapResponse"  -> IF declared THEN Float(MapResponse(d, response)) ELSE Null
       [] e.kind = "mapResponsePoint" -> IF declared THEN Float(MapResponsePoint(d, response)) ELSE Null

RECURSIVE EvaluateExpression(_, _, _)

\* What one more operand adds; arithmetic over many ends at the first that is not
\* all numbers.
WithOperand(kind, sofar, r) ==
  [values |-> Append(sofar.values, r.value), at |-> r.at, refused |-> r.refused,
   spoilt |-> kind \in FoldKinds /\ ~AllNumbers(r.value)]

\* The operands from left to right, until one is refused or spoils the result.
Operands(e, attrs, env, at) ==
  FoldLeft(LAMBDA sofar, arg :
             IF sofar.refused # "no" \/ sofar.spoilt THEN sofar
             ELSE WithOperand(e.kind, sofar, EvaluateExpression(arg, env, sofar.at)),
           [values |-> <<>>, at |-> at, refused |-> "no", spoilt |-> FALSE],
           IF e.kind = "repeat" THEN FlattenSeq([n \in 1 .. attrs[1] |-> e.args]) ELSE e.args)

RandomKinds == {"random", "randomInteger", "randomFloat"}

\* Every kind the evaluator has a case for; the test-level aggregates it refuses
\* where there is no test.
EvaluatedKinds == Leaves \union OperandKinds \union FoldKinds \union RandomKinds \union {"patternMatch"}

\* A kind applied to operands that were evaluated, the last of which may have been
\* refused.
Applied(e, attrs, env, given) ==
  LET first == Head(given.values)
  IN IF given.refused # "no" THEN Refusal(given.refused, given.at)
     ELSE CASE e.kind \in FoldKinds ->
            Answer(IF given.spoilt THEN Null
                   ELSE OfNumbers(e.kind, FlattenSeq([k \in DOMAIN given.values |->
                                                       given.values[k].members])), given.at)
       [] e.kind \in {"randomInteger", "randomFloat"} -> DrawNumber(e.kind, attrs, env, given.at)
       [] e.kind = "random" -> DrawMember(first, env, given.at)
       [] e.kind = "patternMatch" -> PatternMatch(e.pattern, TextOf(first), env, given.at)
       [] OTHER -> Answer(OfOperands(e, attrs, given.values, env), given.at)

\* The value, the position of the generator after it, and the
\* construct it was refused for.
EvaluateExpression(e, env, at) ==
  LET attrs == [k \in DOMAIN e.attrs |-> Attribute(e.attrs[k], env)]
  IN CASE e.kind \in Leaves -> Answer(OfLeaf(e, env), at)
       [] e.kind \notin EvaluatedKinds -> Refusal(e.kind, at)
       [] e.kind = "customOperator" /\ e.class \notin env.classes -> Refusal(e.kind, at)
       [] e.kind \in AttributeKinds /\ (Contains(attrs, Absent) \/ (e.kind = "repeat" /\ attrs[1] < 1)) ->
            Answer(Null, at)
       [] OTHER -> Applied(e, attrs, env, Operands(e, attrs, env, at))

\* The kinds a delivery is announced to support.
DeterministicKinds ==
  {"and", "anyN", "baseValue", "containerSize", "contains", "correct", "default", "delete",
   "divide", "durationGte", "durationLt", "equal", "equalRounded", "fieldValue", "gcd", "gt", "gte", "index",
   "inside", "lcm", "integerDivide", "integerModulus", "integerToFloat", "isNull", "lt", "lte",
   "mapResponse", "mapResponsePoint", "match", "mathConstant", "mathOperator", "max", "member",
   "min", "multiple", "not", "null", "or", "ordered", "patternMatch", "power", "product",
   "repeat", "round", "roundTo", "statsOperator", "stringMatch", "substring", "subtract", "sum",
   "truncate", "variable"}

\* collectExpressionIssues: the kinds a walk of the tree finds that evaluation would
\* refuse; a pattern is looked at where it is literal.
RECURSIVE ExpressionIssues(_, _)
ExpressionIssues(e, classes) ==
  LET own == CASE e.kind = "customOperator" -> e.class \notin classes
               [] e.kind = "patternMatch"   -> e.pattern[1] = "text" /\ ~Compiles(e.pattern[2])
               [] OTHER                     -> e.kind \notin DeterministicKinds \union RandomKinds
  IN (IF own THEN {e.kind} ELSE {})
       \union UNION {ExpressionIssues(e.args[k], classes) : k \in DOMAIN e.args}
=============================================================================
