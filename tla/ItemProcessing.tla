--------------------------- MODULE ItemProcessing ---------------------------
(***************************************************************************)
(* Template and response processing of one item                            *)
(* (packages/qti-react/src/rp/template-processing.ts, interpreter.ts,      *)
(* templates.ts, lookup-table.ts), and the part of the attempt store that  *)
(* calls them (src/store.ts).                                              *)
(*                                                                         *)
(* Rules are run one after another on a record of what they set, the       *)
(* position of the generator and a signal: "none" while they run, "exit",  *)
(* "constraint", or the construct that was refused.  A rule is a record of *)
(* its kind and what the kind needs.                                       *)
(***************************************************************************)
EXTENDS Expressions, TLC

CONSTANTS
  TextFor(_),              \* the text of a scalar
  MaxConstraintAttempts    \* bound of the code on redraws, 100 there

Running(st) == st.signal = "none"
Signal(st, signal) == [st EXCEPT !.signal = signal]

\* An expression evaluated in the course of rules: what follows gets the value,
\* unless it was refused.
Proceed(r, st, Then(_, _)) ==
  LET moved == [st EXCEPT !.at = r.at]
  IN IF r.refused = "no" THEN Then(r.value, moved) ELSE Signal(moved, r.refused)

After(e, env, st, Then(_, _)) == Proceed(EvaluateExpression(e, env, st.at), st, Then)

\* A condition without its first branch, whose test was not TRUE.
NextBranch(rule) == [rule EXCEPT !.branches = Tail(@)]

DeclaredDefault(d) == IF d.default = Absent THEN Null ELSE Declared(d, d.default)

(***************************************************************************)
(* Template processing                                                     *)
(***************************************************************************)

InitialValues(item) == [t \in DOMAIN item.templates |-> DeclaredDefault(item.templates[t])]

TemplateEnv(item, source, st) ==
  [variables |-> st.values,
   declarations |-> item.responses,
   responses |-> [r \in DOMAIN item.responses |-> <<>>],
   defaults |-> [t \in DOMAIN item.templates |-> DeclaredDefault(item.templates[t])]
                  @@ [r \in DOMAIN item.responses |-> DeclaredDefault(item.responses[r])],
   draws |-> source.cloneDraws, classes |-> source.classes]

\* A template variable keeps its declared typing.
Typed(item, id, v) ==
  IF v = Null \/ id \notin DOMAIN item.templates THEN v
  ELSE Value(item.templates[id].cardinality, item.templates[id].baseType, v.members)

TemplateRuleKinds ==
  {"setTemplateValue", "templateCondition", "templateConstraint", "setCorrectResponse", "exitTemplate"}

RECURSIVE RunTemplateRules(_, _, _, _)
RECURSIVE RunTemplateRule(_, _, _, _)

RunTemplateRule(item, source, rule, st) ==
  LET env == TemplateEnv(item, source, st)
  IN CASE rule.kind \notin TemplateRuleKinds -> Signal(st, rule.kind)
       [] rule.kind = "exitTemplate" -> Signal(st, "exit")
       [] rule.kind = "setTemplateValue" ->
            After(rule.expr, env, st,
              LAMBDA v, next : [next EXCEPT !.values = (rule.id :> Typed(item, rule.id, v)) @@ @])
       [] rule.kind = "setCorrectResponse" ->
            After(rule.expr, env, st,
              LAMBDA v, next : IF v = Null THEN next
                               ELSE [next EXCEPT !.overrides =
                                       (rule.id :> [k \in DOMAIN v.members |-> TextFor(v.members[k])]) @@ @])
       [] rule.kind = "templateConstraint" ->
            After(rule.expr, env, st,
              LAMBDA v, next : IF SingleOf("boolean", v) = TRUE THEN next ELSE Signal(next, "constraint"))
       [] rule.kind = "templateCondition" ->
            IF rule.branches = <<>> THEN RunTemplateRules(item, source, rule.otherwise, st)
            ELSE After(Head(rule.branches).test, env, st,
                   LAMBDA v, next :
                     IF SingleOf("boolean", v) = TRUE
                     THEN RunTemplateRules(item, source, Head(rule.branches).rules, next)
                     ELSE RunTemplateRule(item, source, NextBranch(rule), next))

RunTemplateRules(item, source, rules, st) ==
  FoldLeft(LAMBDA s, rule : IF Running(s) THEN RunTemplateRule(item, source, rule, s) ELSE s, st, rules)

\* Mutant: the correct responses of a discarded draw stay.
FreshDrawOverrides(item, st) ==
  [st EXCEPT !.values = InitialValues(item), !.signal = "none"]

\* A draw that misses a constraint is thrown away, all but the generator's position.
FreshDraw(item, st) ==
  [st EXCEPT !.values = InitialValues(item), !.overrides = <<>>, !.signal = "none"]

\* What is left when the rules have ended: a refusal puts the values back, the
\* overrides set before it stay.
Settled(item, st) ==
  IF st.signal \in {"none", "exit", "constraint"} THEN st
  ELSE [st EXCEPT !.values = InitialValues(item)]

RECURSIVE DrawClone(_, _, _, _)

\* A draw that was run, and the next one where it missed a constraint.
AfterDraw(item, source, ran, attempt) ==
  IF ran.signal # "constraint" THEN Settled(item, ran)
  ELSE IF attempt = MaxConstraintAttempts THEN FreshDraw(item, ran)
  ELSE DrawClone(item, source, FreshDraw(item, ran), attempt + 1)

DrawClone(item, source, st, attempt) ==
  AfterDraw(item, source, RunTemplateRules(item, source, item.templateRules, st), attempt)

\* What is handed out of a draw.
CloneOf(st) ==
  [templateValues |-> [t \in DOMAIN st.values |-> Flat(st.values[t])],
   overrides |-> st.overrides,
   issues |-> {st.signal} \ {"none", "exit"}]

\* executeTemplateProcessing, from a position of the generator.
ExecuteTemplateProcessing(item, source, at) ==
  CloneOf(DrawClone(item, source,
            [values |-> InitialValues(item), overrides |-> <<>>, at |-> at, signal |-> "none"], 1))

\* The clone the attempt store works on: an item without template processing has none.
Clone(item, source) ==
  IF item.templateRules = Absent THEN [templateValues |-> <<>>, overrides |-> <<>>, issues |-> {}]
  ELSE ExecuteTemplateProcessing(item, source, 0)

\* The declarations of the clone: defaults of the test before, keys of the clone after.
WithTemplateDefaults(item, defaults) ==
  [item EXCEPT !.templates =
     [t \in DOMAIN @ |-> IF t \notin DOMAIN defaults THEN @[t]
                         ELSE [@[t] EXCEPT !.default = IF defaults[t] = <<>> THEN Absent ELSE defaults[t]]]]

WithCorrectResponses(item, overrides) ==
  [item EXCEPT !.responses =
     [r \in DOMAIN @ |-> IF r \notin DOMAIN overrides THEN @[r]
                         ELSE [@[r] EXCEPT !.correct = overrides[r]]]]

(***************************************************************************)
(* The standard templates                                                  *)
(***************************************************************************)

Leaf(kind, id)        == [kind |-> kind, id |-> id, args |-> <<>>, attrs |-> <<>>]
Literal(base, scalar) == [kind |-> "baseValue", id |-> "", baseType |-> base, scalar |-> scalar,
                          args |-> <<>>, attrs |-> <<>>]
Op(kind, args)        == [kind |-> kind, args |-> args, attrs |-> <<>>]

SetOutcome(id, e) == [kind |-> "setOutcomeValue", id |-> id, expr |-> e]
Condition(test, rules, otherwise) ==
  [kind |-> "responseCondition", branches |-> <<[test |-> test, rules |-> rules]>>, otherwise |-> otherwise]

Response == Leaf("variable", "RESPONSE")
IsRight  == Op("match", <<Response, Leaf("correct", "RESPONSE")>>)
IsEmpty  == Op("isNull", <<Response>>)
Points(n)   == SetOutcome("SCORE", Literal("float", Num(n)))
Verdict(id, word) == SetOutcome(id, Literal("identifier", Str(word)))

MapBy(kind) == <<Condition(IsEmpty, <<Points(0)>>, <<SetOutcome("SCORE", Leaf(kind, "RESPONSE"))>>)>>

StandardTemplates ==
  LET matched == <<Condition(IsRight, <<Points(1)>>, <<Points(0)>>)>>
      basic   == <<Condition(IsRight,
                     <<SetOutcome("SCORE", Leaf("variable", "MAXSCORE")), Verdict("FEEDBACKBASIC", "correct")>>,
                     <<Verdict("FEEDBACKBASIC", "incorrect")>>)>>
      full    == Op("equal", <<Leaf("variable", "MAXSCORE"), Leaf("variable", "SCORE")>>)
      mapped  == MapBy("mapResponse")
                   \o <<Condition(full, <<Verdict("FEEDBACK", "correct")>>, <<Verdict("FEEDBACK", "incorrect")>>)>>
  IN [match_correct      |-> matched,
      map_response       |-> MapBy("mapResponse"),
      map_response_point |-> MapBy("mapResponsePoint"),
      CC2_match          |-> matched,
      CC2_match_basic    |-> basic,
      CC2_map_response   |-> mapped]

(***************************************************************************)
(* Response processing                                                     *)
(***************************************************************************)

\* Numeric outcomes start at 0, others at NULL, where nothing is declared.
OutcomeDefault(d) ==
  IF d.default = Absent /\ d.baseType \in Numeric THEN Float(0) ELSE DeclaredDefault(d)

\* The outcomes an attempt starts from: declared, the built-in completion status,
\* and over both what an adaptive item's last attempt left.
InitialOutcomes(item, context) ==
  LET prior(o) == FromFlat(IF o \in DOMAIN item.outcomes THEN item.outcomes[o]
                           ELSE [cardinality |-> "single", baseType |-> "none"], context.prior[o])
      status == Value("single", "identifier", <<Str(context.completionStatus)>>)
  IN [o \in DOMAIN context.prior |-> prior(o)]
       @@ [o \in DOMAIN item.outcomes |-> OutcomeDefault(item.outcomes[o])]
       @@ ("completionStatus" :> status)

\* Built-ins, responses, template variables, outcomes: the first that has the name.
ResponseEnv(item, context, st) ==
  LET templated(t) == IF t \in DOMAIN context.templateValues
                      THEN FromFlat(item.templates[t], context.templateValues[t]) ELSE Null
  IN [variables |->
        [b \in {"duration", "numAttempts"} |-> Float(context[b])]
          @@ [r \in DOMAIN item.responses |-> FromResponse(item.responses[r], context.responses[r])]
          @@ [t \in DOMAIN item.templates |-> templated(t)]
          @@ st.outcomes,
      declarations |-> item.responses,
      responses |-> context.responses,
      defaults |-> [r \in DOMAIN item.responses |-> DeclaredDefault(item.responses[r])]
                     @@ [o \in DOMAIN item.outcomes |-> DeclaredDefault(item.outcomes[o])]
                     @@ [t \in DOMAIN item.templates |-> DeclaredDefault(item.templates[t])],
      draws |-> context.draws, classes |-> context.classes]

HasLookupTable(item, id) == id \in DOMAIN item.outcomes /\ item.outcomes[id].table # Absent

\* The target of the first entry the source meets, else the table's default.
LookupTableValue(d, source) ==
  LET n == SingleOf("number", source)
      Meets(entry) == CASE d.table.kind = "match" -> entry.source = n
                        [] d.table.kind = "interpolation" ->
                             entry.source < n \/ (entry.includeBoundary /\ entry.source = n)
      entry  == IF n = Absent THEN Absent ELSE FirstEntry(d.table.entries, Meets)
      target == IF entry = Absent THEN d.table.default ELSE entry.target
  IN IF target = Absent THEN Null
     ELSE Value("single", d.baseType, <<CoerceScalar(target, d.baseType)>>)

ResponseRuleKinds ==
  {"responseCondition", "setOutcomeValue", "lookupOutcomeValue", "responseProcessingFragment", "exitResponse"}

RECURSIVE RunResponseRules(_, _, _, _)
RECURSIVE RunResponseRule(_, _, _, _)

RunResponseRule(item, context, rule, st) ==
  LET env == ResponseEnv(item, context, st)
      Set(v, next) == [next EXCEPT !.outcomes = (rule.id :> v) @@ @]
  IN CASE rule.kind \notin ResponseRuleKinds -> Signal(st, rule.kind)
       [] rule.kind = "exitResponse" -> Signal(st, "exit")
       [] rule.kind = "setOutcomeValue" -> After(rule.expr, env, st, Set)
       [] rule.kind = "responseProcessingFragment" -> RunResponseRules(item, context, rule.rules, st)
       [] rule.kind = "lookupOutcomeValue" ->
            IF ~HasLookupTable(item, rule.id) THEN Signal(st, "lookupOutcomeValue")
            ELSE After(rule.expr, env, st,
                       LAMBDA v, next : Set(LookupTableValue(item.outcomes[rule.id], v), next))
       [] rule.kind = "responseCondition" ->
            IF rule.branches = <<>> THEN RunResponseRules(item, context, rule.otherwise, st)
            ELSE After(Head(rule.branches).test, env, st,
                   LAMBDA v, next :
                     IF SingleOf("boolean", v) = TRUE
                     THEN RunResponseRules(item, context, Head(rule.branches).rules, next)
                     ELSE RunResponseRule(item, context, NextBranch(rule), next))

RunResponseRules(item, context, rules, st) ==
  FoldLeft(LAMBDA s, rule : IF Running(s) THEN RunResponseRule(item, context, rule, s) ELSE s, st, rules)

\* Explicit rules, or those of a standard template; a template nobody knows has none.
RulesOf(item) ==
  CASE item.rules # Absent -> item.rules
    [] item.rules = Absent /\ item.template \in DOMAIN StandardTemplates -> StandardTemplates[item.template]
    [] OTHER -> <<>>

UnknownTemplate(item) ==
  IF item.rules = Absent /\ item.template # Absent /\ item.template \notin DOMAIN StandardTemplates
  THEN {item.template} ELSE {}

\* Mutant: an abort keeps what the rules before it set.
OutcomesKept(item, context, ran) == ran.outcomes

\* An abort goes back to where the attempt started: never partial scoring.
OutcomesAfter(item, context, ran) ==
  IF ran.signal \in {"none", "exit"} THEN ran.outcomes ELSE InitialOutcomes(item, context)

\* What is handed out when the rules have ended.
MadeOf(item, context, ran) ==
  LET outcomes == OutcomesAfter(item, context, ran)
  IN [outcomes |-> [o \in DOMAIN outcomes |-> Flat(outcomes[o])],
      at |-> ran.at,
      issues |-> UnknownTemplate(item) \union ({ran.signal} \ {"none", "exit"})]

\* executeResponseProcessing, from a position of the generator.
ExecuteResponseProcessing(item, context, at) ==
  MadeOf(item, context,
    RunResponseRules(item, context, RulesOf(item),
      [outcomes |-> InitialOutcomes(item, context), at |-> at, signal |-> "none"]))

(***************************************************************************)
(* The static gate: what a delivery is announced not to support            *)
(***************************************************************************)

ExpressionsOf(rule) ==
  (IF rule.kind \in {"setOutcomeValue", "lookupOutcomeValue", "setTemplateValue", "setCorrectResponse",
                     "templateConstraint"}
   THEN {rule.expr} ELSE {})
    \union (IF rule.kind \in {"responseCondition", "templateCondition"}
            THEN {rule.branches[k].test : k \in DOMAIN rule.branches} ELSE {})

\* Mutant: the walk does not go into the else branch.
RulesWithinNoElse(rule) ==
  CASE rule.kind = "responseProcessingFragment" -> rule.rules
    [] rule.kind \in {"responseCondition", "templateCondition"} ->
         FlattenSeq([k \in DOMAIN rule.branches |-> rule.branches[k].rules])
    [] OTHER -> <<>>

\* The rules a walk descends into.
RulesWithin(rule) ==
  CASE rule.kind = "responseProcessingFragment" -> rule.rules
    [] rule.kind \in {"responseCondition", "templateCondition"} ->
         FlattenSeq([k \in DOMAIN rule.branches |-> rule.branches[k].rules]) \o rule.otherwise
    [] OTHER -> <<>>

\* collectRpIssues and collectTemplateIssues: a rule that is not supported is
\* reported and not looked into; a lookup needs a table.
RECURSIVE RuleIssues(_, _, _, _)
RuleIssues(item, rules, kinds, classes) ==
  UNION {IF rules[k].kind \notin kinds THEN {rules[k].kind}
         ELSE (IF rules[k].kind = "lookupOutcomeValue" /\ ~HasLookupTable(item, rules[k].id)
               THEN {"lookupOutcomeValue"} ELSE {})
                \union UNION {ExpressionIssues(e, classes) : e \in ExpressionsOf(rules[k])}
                \union RuleIssues(item, RulesWithin(rules[k]), kinds, classes) : k \in DOMAIN rules}

CollectRpIssues(item, classes) ==
  IF item.rules = Absent THEN UnknownTemplate(item)
  ELSE RuleIssues(item, item.rules, ResponseRuleKinds, classes)

CollectTemplateIssues(item, classes) ==
  IF item.templateRules = Absent THEN {}
  ELSE RuleIssues(item, item.templateRules, TemplateRuleKinds, classes)

(***************************************************************************)
(* An attempt                                                              *)
(***************************************************************************)

\* The store keeps the completion status of an item that declares none.
Maintained(item) ==
  IF "completionStatus" \in DOMAIN item.outcomes THEN <<>>
  ELSE ("completionStatus" :> <<Str("unknown")>>)

NotAttempted(item) == [attempts |-> 0, outcomes |-> Maintained(item), duration |-> 0, at |-> 0]

\* computeOutcomes of the attempt store: an adaptive item goes on from its last
\* outcomes, and the status of the attempt before is handed on either way.
Attempt(item, templateValues, source, last, responses) ==
  IF item.rules = Absent /\ item.template = Absent
  THEN [outcomes |-> Maintained(item), at |-> last.at, issues |-> {}]
  ELSE ExecuteResponseProcessing(item,
    [responses |-> responses, templateValues |-> templateValues,
     prior |-> IF item.adaptive /\ last.attempts > 0 THEN last.outcomes ELSE <<>>,
     completionStatus |-> IF "completionStatus" \in DOMAIN last.outcomes
                             /\ last.outcomes["completionStatus"] # <<>>
                          THEN Head(last.outcomes["completionStatus"])[2] ELSE "not_attempted",
     duration |-> last.duration, numAttempts |-> last.attempts + 1,
     draws |-> source.draws, classes |-> source.classes], last.at)

\* An adaptive item is completed by its status, under either spelling.
Completed(item, outcomes) ==
  LET given == {o \in {"completionStatus", "completion_status"} \intersect DOMAIN outcomes :
                  outcomes[o] # <<>>}
      status == IF "completionStatus" \in given THEN "completionStatus" ELSE "completion_status"
  IN ~item.adaptive \/ (given # {} /\ outcomes[status] = <<Str("completed")>>)

\* Between the attempts of an adaptive item its boolean responses are cleared.
NextResponses(item, responses) ==
  [r \in DOMAIN responses |-> IF item.responses[r].baseType = "boolean" THEN <<>> ELSE responses[r]]

(***************************************************************************)
(* What the controller is told of an attempt (src/response-validity.ts,    *)
(* src/test/session-store.ts)                                              *)
(***************************************************************************)

\* A constraint an interaction declares, against its response.  Plays are read off a
\* number, and a response is text: a required play is never seen.
Violates(constraint, response) ==
  LET given == {k \in DOMAIN response : response[k] # ""}
      kind  == constraint.kind
  IN CASE kind \in {"minChoices", "minAssociations", "minStrings"} -> Cardinality(given) < constraint.bound
       [] kind \in {"maxChoices", "maxAssociations"} -> Cardinality(given) > constraint.bound
       [] kind = "minPlays"    -> 0 < constraint.bound
       [] kind = "patternMask" -> Compiles(constraint.bound)
                                    /\ \E k \in given : ~Fits(constraint.bound, response[k])

ResponseViolations(item, responses) ==
  {k \in DOMAIN item.constraints :
     Violates(item.constraints[k], responses[item.constraints[k].response])}

\* The responses whose key a template rule may set.
RECURSIVE CorrectResponseTargets(_)
CorrectResponseTargets(rules) ==
  UNION {(IF rules[k].kind = "setCorrectResponse" THEN {rules[k].id} ELSE {})
           \union CorrectResponseTargets(RulesWithin(rules[k])) : k \in DOMAIN rules}

Scorable(item) ==
  LET targets == IF item.templateRules = Absent THEN {} ELSE CorrectResponseTargets(item.templateRules)
  IN {r \in DOMAIN item.responses :
        \/ item.responses[r].correct # Absent
        \/ item.responses[r].mapping # Absent
        \/ item.responses[r].areas # Absent
        \/ r \in targets}

\* The flags of an attempt: correct in every response that can be, responded to in
\* any, valid in all.
ResultFlags(item, keyed, responses) ==
  LET Right(r) == ScoreResponse(keyed.responses[r], responses[r]).correct
      Given(r) == responses[r] \notin IF item.responses[r].cardinality = "single"
                                       THEN {<<>>, <<"">>} ELSE {<<>>}
  IN [correct   |-> IF Scorable(item) = {} THEN "unscored"
                    ELSE IF \A r \in Scorable(item) : Right(r) THEN "correct" ELSE "incorrect",
      responded |-> \E r \in DOMAIN responses : Given(r),
      valid     |-> ResponseViolations(item, responses) = {}]
=============================================================================
