--------------------------- MODULE ItemProperties ---------------------------
(***************************************************************************)
(* What template and response processing owe to the author of an item,     *)
(* said of one item, one generator and one response, and read off the      *)
(* item and not off the way it is interpreted.                             *)
(***************************************************************************)
EXTENDS ItemProcessing

(***************************************************************************)
(* Three-valued logic                                                      *)
(***************************************************************************)

\* The value of a condition whose variables are TRUE, FALSE or, where undecided, NULL.
Verdict3(e, truth) ==
  LET env == [variables |-> [v \in DOMAIN truth |-> IF truth[v] = Absent THEN Null ELSE Boolean(truth[v])]]
  IN SingleOf("boolean", EvaluateExpression(e, env, 0).value)

Completions(truth) ==
  {c \in [DOMAIN truth -> BOOLEAN] : \A v \in DOMAIN truth : truth[v] # Absent => c[v] = truth[v]}

Verdicts(e, truth) == {Verdict3(e, c) : c \in Completions(truth)}

Assignments(variables) == [variables -> BOOLEAN \union {Absent}]

\* A condition is never decided before it has to be: whatever the undecided operands
\* turn out to be, its value stands.
NeverGuesses(e, variables) ==
  \A truth \in Assignments(variables) :
    Verdict3(e, truth) # Absent => Verdicts(e, truth) = {Verdict3(e, truth)}

\* An operator over distinct variables is decided as soon as it can be.
DecidesInTime(e, variables) ==
  \A truth \in Assignments(variables) :
    Cardinality(Verdicts(e, truth)) = 1 => Verdicts(e, truth) = {Verdict3(e, truth)}

(***************************************************************************)
(* The gate and the interpreter                                            *)
(***************************************************************************)

\* A pattern that a variable holds is looked at when it is used, and not before.
RECURSIVE ReadsPattern(_)
ReadsPattern(e) ==
  \/ e.kind = "patternMatch" /\ e.pattern[1] = "ref"
  \/ \E k \in DOMAIN e.args : ReadsPattern(e.args[k])

RECURSIVE ReadPatterns(_)
ReadPatterns(rules) ==
  \E k \in DOMAIN rules :
    \/ \E e \in ExpressionsOf(rules[k]) : ReadsPattern(e)
    \/ ReadPatterns(RulesWithin(rules[k]))

MayRefuse(rules) == IF rules # Absent /\ ReadPatterns(rules) THEN {"patternMatch"} ELSE {}

\* What the gate lets through runs to its end, whatever was answered and drawn; a
\* pattern read from a variable is all it cannot look at.
GateHoldsOf(item, source, clone, responses) ==
  LET made == Attempt(WithCorrectResponses(item, clone.overrides), clone.templateValues,
                      source, NotAttempted(item), responses)
  IN /\ CollectTemplateIssues(item, source.classes) = {} => clone.issues \subseteq MayRefuse(item.templateRules)
     /\ CollectRpIssues(item, source.classes) = {} => made.issues \subseteq MayRefuse(item.rules)

GateHolds(item, source, responses) == GateHoldsOf(item, source, Clone(item, source), responses)

(***************************************************************************)
(* What is aborted                                                         *)
(***************************************************************************)

\* An aborted attempt leaves the outcomes as if the item had no rules: those
\* declared, or an adaptive item's last ones.
LeavesNoTrace(item, last, made, idle) ==
  made.issues # {} =>
    /\ made.outcomes = idle.outcomes
    /\ item.adaptive /\ last.attempts > 0 =>
         \A o \in DOMAIN last.outcomes : made.outcomes[o] = last.outcomes[o]

AbortLeavesNoTrace(item, source, last, responses) ==
  LeavesNoTrace(item, last, Attempt(item, <<>>, source, last, responses),
                Attempt([item EXCEPT !.rules = <<>>], <<>>, source, last, responses))

\* What the rules make of one draw, begun at a position of the generator.
OneDraw(item, source, at) ==
  RunTemplateRules(item, source, item.templateRules,
                   [values |-> InitialValues(item), overrides |-> <<>>, at |-> at, signal |-> "none"])

\* A clone is the work of one draw that met the constraints, begun where the draws
\* before it, which did not, had left the generator; or the declared defaults.  But of a
\* draw that a refused construct aborted only the values are put back: the keys set
\* before it stay, where template-processing.ts:227 says "abort, never a partial clone",
\* and the clone with the declared values is scored by them.
DrawsOf(item, source) ==
  LET draws[n \in 1 .. MaxConstraintAttempts] ==
        OneDraw(item, source, IF n = 1 THEN 0 ELSE draws[n - 1].at)
  IN draws

LastDraw(draws) ==
  draws[Max({n \in DOMAIN draws : \A k \in 1 .. n - 1 : draws[k].signal = "constraint"})]

IsTheDraw(item, clone, last) ==
  LET values == [t \in DOMAIN item.templates |-> Flat(last.values[t])]
      defaults == [t \in DOMAIN item.templates |-> Flat(DeclaredDefault(item.templates[t]))]
  IN CASE last.signal \in {"none", "exit"} ->
            clone.templateValues = values /\ clone.overrides = last.overrides
       [] last.signal = "constraint" -> clone.templateValues = defaults /\ clone.overrides = <<>>
       [] OTHER -> clone.templateValues = defaults /\ clone.overrides = last.overrides

CloneIsOneDraw(item, source) ==
  IsTheDraw(item, Clone(item, source), LastDraw(DrawsOf(item, source)))

(***************************************************************************)
(* Two scorers                                                             *)
(***************************************************************************)

\* The rules of match_correct and the scoring behind the feedback and the flags see
\* the same responses as right.
ScorersAgreeOn(item, source, responses) ==
  LET made == Attempt(item, <<>>, source, NotAttempted(item), responses)
  IN made.outcomes["SCORE"] = <<Num(1)>>
       <=> ResultFlags(item, item, responses).correct = "correct"
=============================================================================
