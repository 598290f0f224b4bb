--------------------------- MODULE TestController ---------------------------
(***************************************************************************)
(* The headless QTI test controller of packages/qti-react/src/test         *)
(* (controller.ts): a set of pure transitions from one persisted session   *)
(* state to the next.  The controller owns no storage and no timer: every  *)
(* call reads the injected clock, folds the elapsed time into the session, *)
(* settles the time limits that fold reveals and only then runs.           *)
(*                                                                         *)
(* The plan (controller.ts, resolvePlan) is a constant.  A session key is  *)
(* represented by the item's position in plan order, 1..ItemCount, so that *)
(* "the first item at or after" is a minimum.  A transition is an operator *)
(* from a session record to a session record; an action applies one.       *)
(***************************************************************************)
EXTENDS Integers, Sequences, FiniteSetsExt

CONSTANTS
  ItemCount,          \* number of items of the resolved plan
  Parts,              \* test parts, numbered in plan order
  PartOf,             \* PartOf[i]: the part of item i
  Linear,             \* parts with navigationMode "linear"
  Simultaneous,       \* parts with submissionMode "simultaneous"
  Sections,           \* planned sections
  SectionPath,        \* SectionPath[i]: the sections around item i, outermost first
  Control,            \* Control[i]: effective itemSessionControl
  Adaptive,           \* items whose results carry adaptive = true
  PreConditions,      \* PreConditions[i]: own and ancestor sections' conditions
  BranchRules,        \* BranchRules[i]: sequence of [when, kind, to]
  TemplateItems,      \* items with templateDefaults
  DeclaredMax,        \* DeclaredMax[scope]: declared maxTime or NoLimit
  MinTime,            \* MinTime[scope]: declared minTime, 0 when there is none
  AllowLate,          \* scopes with allowLateSubmission = true
  ExtraTime,          \* additional-testing-time of the PNP; multiplier 0: none
  NoLimit,            \* no maxTime
  NoResult,           \* nothing recorded yet
  TestOutcomes,       \* values the test outcomes take
  DefaultOutcomes,    \* their declared defaults
  Results,            \* results a consumer may submit
  ClockSteps,         \* how far the injected clock can move in one step
  MaxClock,           \* bound: the clock values, and the active time, explored
  MaxCommitted,       \* bound: attempts explored per item
  MaxRejected,        \* bound: late submissions explored
  Evaluate(_, _),     \* a condition on a session: "true", "false", "unsupported"
  OutcomeRules(_)     \* outcome processing; outside TestOutcomes: unsupported rule

Items    == 1 .. ItemCount
NoItem   == 0
ItemScopes    == {<<"item", i>> : i \in Items}
SectionScopes == {<<"section", x>> : x \in Sections}
PartScopes    == {<<"part", p>> : p \in Parts}
TestScope     == <<"test", 0>>
Scopes == ItemScopes \cup SectionScopes \cup PartScopes \cup {TestScope}

ASSUME PlanAssumption ==
  /\ ItemCount \in Nat
  /\ Parts \subseteq Nat
  /\ PartOf \in [Items -> Parts]
  /\ \A i, j \in Items : i < j => PartOf[i] <= PartOf[j]
  /\ Linear \subseteq Parts
  /\ Simultaneous \subseteq Parts
  /\ SectionPath \in [Items -> Seq(Sections)]
  /\ Control \in [Items -> [maxAttempts : Nat, allowSkipping : BOOLEAN,
                            allowReview : BOOLEAN, allowComment : BOOLEAN,
                            validateResponses : BOOLEAN]]
  /\ Adaptive \subseteq Items
  /\ TemplateItems \subseteq Items
  /\ \A i \in Items : \A k \in 1 .. Len(BranchRules[i]) :
       BranchRules[i][k].kind \in
         {"EXIT_TEST", "EXIT_TESTPART", "EXIT_SECTION", "item", "instances"}

ASSUME TimeAssumption ==
  /\ NoLimit \notin Int
  /\ DeclaredMax \in [Scopes -> Nat \cup {NoLimit}]
  /\ MinTime \in [Scopes -> Nat]
  /\ AllowLate \subseteq Scopes
  /\ ExtraTime \in [unlimited : BOOLEAN, multiplier : Nat, fixed : Nat]
  /\ ClockSteps \subseteq Int
  /\ MaxClock \in Nat

ASSUME ResultAssumption ==
  /\ \A r \in Results : /\ r.responded \in BOOLEAN
                        /\ r.valid \in BOOLEAN
                        /\ r.correct \in {"correct", "incorrect", "unscored"}
                        /\ r.outcomes # NoResult
  /\ DefaultOutcomes \in TestOutcomes
  /\ NoResult \notin TestOutcomes
  /\ NoResult \notin [result : Results, submittedAtMs : Int]

VARIABLES
  session,     \* the persisted TestSessionState
  clock,       \* what options.now() returns, in the plan's time unit
  activeTime   \* observability: time the session has really been in progress

vars == <<session, clock, activeTime>>

Outcomes   == {r.outcomes : r \in Results}
Submission == [result : Results, submittedAtMs : Int]

(***************************************************************************)
(* Timing                                                                  *)
(***************************************************************************)

SectionsOf(i) == {SectionPath[i][k] : k \in DOMAIN SectionPath[i]}

\* The item's enclosing timing scopes, as a set and innermost first.
EnclosingScopes(i) ==
  {<<"item", i>>, <<"part", PartOf[i]>>, TestScope}
    \cup {<<"section", x>> : x \in SectionsOf(i)}

ScopesInnermostFirst(i) ==
  LET path == SectionPath[i]
  IN <<<<"item", i>>>>
       \o [k \in DOMAIN path |-> <<"section", path[Len(path) + 1 - k]>>]
       \o <<<<"part", PartOf[i]>>, TestScope>>

\* The scopes whose clock runs: the test, and the scopes of the current item.
RunningScopes(s) ==
  {TestScope} \cup IF s.currentItemKey = NoItem THEN {}
                   ELSE EnclosingScopes(s.currentItemKey)

\* Mutant: clock skew is not clamped.
ElapsedUnclamped(s) == clock - s.lastTransitionAtMs

\* Elapsed time since the last fold; a clock that went back counts as none.
Elapsed(s) == IF clock > s.lastTransitionAtMs THEN clock - s.lastTransitionAtMs ELSE 0

Touch(s) ==
  IF s.status # "in-progress" THEN s
  ELSE [s EXCEPT
          !.lastTransitionAtMs = clock,
          !.seconds = [c \in Scopes |-> IF c \in RunningScopes(s)
                                        THEN s.seconds[c] + Elapsed(s)
                                        ELSE s.seconds[c]]]

\* The candidate's ceiling for a scope under additional-testing-time.
EffectiveMax(c) ==
  IF ExtraTime.unlimited \/ DeclaredMax[c] = NoLimit THEN NoLimit
  ELSE IF ExtraTime.multiplier # 0 THEN DeclaredMax[c] * ExtraTime.multiplier
  ELSE IF c = TestScope THEN DeclaredMax[c] + ExtraTime.fixed
  ELSE DeclaredMax[c]

\* Strictly beyond the limit: exactly maxTime is in time.
ScopeExpired(s, c) == EffectiveMax(c) # NoLimit /\ s.seconds[c] > EffectiveMax(c)

NavigableInTime(s, i) == \A c \in EnclosingScopes(i) : ~ScopeExpired(s, c)

\* minTime holds back a linear item, and the sections a move would leave.
MinTimeBlocked(s, from, to) ==
  \/ s.seconds[<<"item", from>>] < MinTime[<<"item", from>>]
  \/ \E x \in SectionsOf(from) \ (IF to = NoItem THEN {} ELSE SectionsOf(to)) :
       s.seconds[<<"section", x>>] < MinTime[<<"section", x>>]

(***************************************************************************)
(* Conditions and outcome processing                                       *)
(***************************************************************************)

\* An unsupported condition never hides content.
ConditionPasses(c, s) == Evaluate(c, s) \in {"true", "unsupported"}

PreConditionsPass(i, s) == \A c \in PreConditions[i] : ConditionPasses(c, s)

\* An unsupported rule aborts the run to the declared defaults.
RunOutcomeProcessing(s) ==
  IF OutcomeRules(s) \in TestOutcomes THEN OutcomeRules(s) ELSE DefaultOutcomes

(***************************************************************************)
(* Attempts                                                                *)
(***************************************************************************)

AttemptsLeft(s, i) ==
  \/ Control[i].maxAttempts = 0
  \/ s.attemptCounts[i] < Control[i].maxAttempts

\* Mutant: a re-attempt does not clear the flags of the previous one.
CommitKeepsFlags(s, batch) ==
  LET keys == DOMAIN batch
  IN [s EXCEPT
        !.itemOutcomes = [i \in Items |-> IF i \in keys THEN batch[i].result.outcomes ELSE @[i]],
        !.attemptCounts = [i \in Items |-> IF i \in keys THEN @[i] + 1 ELSE @[i]],
        !.attemptHistory = [i \in Items |-> IF i \in keys THEN Append(@[i], batch[i]) ELSE @[i]],
        !.respondedItems = @ \cup {i \in keys : batch[i].result.responded},
        !.correctItems = @ \cup {i \in keys : batch[i].result.correct = "correct"},
        !.incorrectItems = @ \cup {i \in keys : batch[i].result.correct = "incorrect"}]

\* Commit a batch of submissions, one attempt each: outcomes, counts, flags of
\* the latest attempt and the attempt history.
Commit(s, batch) ==
  LET keys == DOMAIN batch
  IN [s EXCEPT
        !.itemOutcomes = [i \in Items |-> IF i \in keys THEN batch[i].result.outcomes
                                          ELSE s.itemOutcomes[i]],
        !.attemptCounts = [i \in Items |-> IF i \in keys THEN s.attemptCounts[i] + 1
                                           ELSE s.attemptCounts[i]],
        !.attemptHistory = [i \in Items |-> IF i \in keys
                                            THEN Append(s.attemptHistory[i], batch[i])
                                            ELSE s.attemptHistory[i]],
        !.respondedItems = (s.respondedItems \ keys)
                             \cup {i \in keys : batch[i].result.responded},
        !.correctItems = (s.correctItems \ keys)
                           \cup {i \in keys : batch[i].result.correct = "correct"},
        !.incorrectItems = (s.incorrectItems \ keys)
                             \cup {i \in keys : batch[i].result.correct = "incorrect"}]

\* Commit the pending results of the items in leaving.
PendingIn(s, leaving) == {i \in leaving : s.pendingItemResults[i] # NoResult}

FlushPending(s, leaving) ==
  LET keys == PendingIn(s, leaving)
      done == Commit(s, [i \in keys |-> s.pendingItemResults[i]])
  IN [done EXCEPT
        !.pendingItemResults = [i \in Items |-> IF i \in keys THEN NoResult
                                                ELSE s.pendingItemResults[i]]]

Ended(s) ==
  LET flushed == FlushPending(s, Items)
  IN [flushed EXCEPT !.status = "ended", !.currentItemKey = NoItem,
                     !.testOutcomes = RunOutcomeProcessing(flushed)]

(***************************************************************************)
(* Navigation                                                              *)
(***************************************************************************)

FirstOr(S, default) == IF S = {} THEN default ELSE Min(S)

\* Mutant: spent time does not close an item to navigation.
FirstNavigableUntimed(s, k) ==
  FirstOr({i \in Items : i >= k /\ PreConditionsPass(i, s)}, NoItem)

\* The first item at or after position k that preconditions and time allow.
FirstNavigable(s, k) ==
  FirstOr({i \in Items : i >= k /\ PreConditionsPass(i, s) /\ NavigableInTime(s, i)},
          NoItem)

\* Mutant: they are evaluated anew each time.
WithTemplateDefaultsAgain(s, i) ==
  [s EXCEPT !.templateDefaultValues =
     [j \in Items |-> IF j \in TemplateItems /\ PartOf[j] = PartOf[i]
                      THEN s.testOutcomes ELSE @[j]]]

\* templateDefaults are evaluated once: linear, when the item becomes current;
\* nonlinear, for every item of the part on first entry.  A default stands for
\* the test outcomes it was evaluated on.
WithTemplateDefaults(s, i) ==
  LET due == IF PartOf[i] \in Linear THEN {i}
             ELSE {j \in Items : PartOf[j] = PartOf[i]}
  IN [s EXCEPT
        !.templateDefaultValues =
           [j \in Items |->
              IF j \in due \cap TemplateItems /\ s.templateDefaultValues[j] = NoResult
              THEN s.testOutcomes ELSE s.templateDefaultValues[j]]]

Present(s, i) ==
  [s EXCEPT !.currentItemKey = i, !.presentedItems = s.presentedItems \cup {i}]

\* Mutant: outcome processing does not follow the flush.
LeavePartStale(s, i) ==
  IF s.currentItemKey = NoItem \/ PartOf[s.currentItemKey] = PartOf[i] THEN s
  ELSE FlushPending(s, {j \in Items : PartOf[j] = PartOf[s.currentItemKey]})

\* Mutant: the current item's result is submitted, its part's other results wait.
LeavePartItemOnly(s, i) ==
  LET flushed == FlushPending(s, {s.currentItemKey})
  IN IF s.currentItemKey = NoItem \/ PartOf[s.currentItemKey] = PartOf[i] THEN s
     ELSE [flushed EXCEPT !.testOutcomes = RunOutcomeProcessing(flushed)]

\* Leaving a part submits what it held pending.
LeavePart(s, i) ==
  LET from    == s.currentItemKey
      leaving == {j \in Items : PartOf[j] = PartOf[from]}
      flushed == FlushPending(s, leaving)
  IN IF from = NoItem \/ PartOf[from] = PartOf[i] \/ PendingIn(s, leaving) = {} THEN s
     ELSE [flushed EXCEPT !.testOutcomes = RunOutcomeProcessing(flushed)]

MoveToItem(s, i) ==
  IF i = NoItem THEN Ended(s)
  ELSE Present(WithTemplateDefaults(LeavePart(s, i), i), i)

\* Mutant: the test's own limit is left to the item check.
ApplyExpiriesItemsOnly(s) ==
  IF s.status # "in-progress" \/ NavigableInTime(s, s.currentItemKey) THEN s
  ELSE IF FirstNavigable(s, s.currentItemKey + 1) = NoItem THEN s
  ELSE MoveToItem(s, FirstNavigable(s, s.currentItemKey + 1))

\* An expired test ends; a current item whose time is spent gives way to the
\* first one still reachable.
ApplyExpiries(s) ==
  IF s.status # "in-progress" THEN s
  ELSE IF ScopeExpired(s, TestScope) THEN Ended(s)
  ELSE IF s.currentItemKey = NoItem \/ NavigableInTime(s, s.currentItemKey) THEN s
  ELSE MoveToItem(s, FirstNavigable(s, s.currentItemKey + 1))

\* Mutant: a settled expiry is dropped with the call it consumed.
WithTransitionDropsExpiry(s, refused, result) ==
  IF s.status # "in-progress" \/ ApplyExpiries(Touch(s)) # Touch(s) \/ refused THEN s
  ELSE result

\* Every transition folds the clock, then settles expiries, then runs; an
\* expiry consumes the call and a refused call leaves the state as it was.
\* refused and result are those of the operation on the folded state.
WithTransition(s, refused, result) ==
  IF s.status # "in-progress" THEN s
  ELSE IF ApplyExpiries(Touch(s)) # Touch(s) THEN ApplyExpiries(Touch(s))
  ELSE IF refused THEN s ELSE result

\* Mutant: the first instance in plan order, not the next one.
BranchTargetAnyInstance(i, rule) ==
  FirstOr({j \in rule.to : PartOf[j] = PartOf[i]}, NoItem)

\* The item a branch rule of item i jumps to: a plan key of the same part, or
\* the next instance of a ref instantiated more than once.
BranchTarget(i, rule) ==
  FirstOr({j \in rule.to : /\ PartOf[j] = PartOf[i]
                           /\ rule.kind = "instances" => j > i}, NoItem)

RuleFires(s, i, k) ==
  LET rule == BranchRules[i][k]
  IN /\ ConditionPasses(rule.when, s)
     /\ rule.kind \in {"item", "instances"} => BranchTarget(i, rule) # NoItem

FiringRules(s, i) == {k \in 1 .. Len(BranchRules[i]) : RuleFires(s, i, k)}

BranchDestination(s, i, rule) ==
  CASE rule.kind = "EXIT_TEST" -> NoItem
    [] rule.kind = "EXIT_TESTPART" ->
         FirstNavigable(s, FirstOr({j \in Items : j > i /\ PartOf[j] # PartOf[i]},
                                   ItemCount + 1))
    [] rule.kind = "EXIT_SECTION" ->
         FirstNavigable(s, FirstOr({j \in Items : /\ j > i
                                                  /\ \/ PartOf[j] # PartOf[i]
                                                     \/ SectionPath[j] # SectionPath[i]},
                                   ItemCount + 1))
    [] rule.kind \in {"item", "instances"} -> FirstNavigable(s, BranchTarget(i, rule))

\* The first firing rule decides; without one, the next item in plan order.
NextDestination(s) ==
  LET i == s.currentItemKey
  IN IF FiringRules(s, i) # {}
     THEN BranchDestination(s, i, BranchRules[i][Min(FiringRules(s, i))])
     ELSE FirstNavigable(s, i + 1)

UnskippableLeft(s, part) ==
  \E j \in Items : /\ PartOf[j] = part
                   /\ ~Control[j].allowSkipping
                   /\ j \notin s.attemptedItems
                   /\ PreConditionsPass(j, s)
                   /\ NavigableInTime(s, j)

\* Mutant: a linear item can be skipped whatever allowSkipping says.
NextRefusedSkipping(s) ==
  LET i  == s.currentItemKey
      to == FirstNavigable(s, i + 1)
  IN \/ s.status # "in-progress"
     \/ PartOf[i] \in Linear /\ MinTimeBlocked(s, i, to)
     \/ /\ PartOf[i] \notin Linear
        /\ FiringRules(s, i) = {}
        /\ to = NoItem \/ PartOf[to] # PartOf[i]
        /\ UnskippableLeft(s, PartOf[i])

\* Mutant: a branch rule that fires is followed, whatever is owed to the item.
NextRefusedUnlessBranching(s) ==
  LET i  == s.currentItemKey
      to == FirstNavigable(s, i + 1)
  IN \/ s.status # "in-progress"
     \/ i = NoItem
     \/ /\ FiringRules(s, i) = {}
        /\ \/ /\ PartOf[i] \in Linear
              /\ \/ ~Control[i].allowSkipping /\ i \notin s.attemptedItems
                 \/ MinTimeBlocked(s, i, to)
           \/ /\ PartOf[i] \notin Linear
              /\ to = NoItem \/ PartOf[to] # PartOf[i]
              /\ UnskippableLeft(s, PartOf[i])

NextRefused(s) ==
  LET i  == s.currentItemKey
      to == FirstNavigable(s, i + 1)
  IN \/ s.status # "in-progress"
     \/ i = NoItem
     \/ /\ PartOf[i] \in Linear
        /\ \/ ~Control[i].allowSkipping /\ i \notin s.attemptedItems
           \/ MinTimeBlocked(s, i, to)
     \/ /\ PartOf[i] \notin Linear
        /\ FiringRules(s, i) = {}
        /\ to = NoItem \/ PartOf[to] # PartOf[i]
        /\ UnskippableLeft(s, PartOf[i])

ReviewBarred(s, i) == ~Control[i].allowReview /\ ~AttemptsLeft(s, i)

\* Mutant: jumps onto items whose time is spent.
MoveToRefusedUntimed(s, i) ==
  \/ s.currentItemKey = NoItem
  \/ PartOf[i] # PartOf[s.currentItemKey]
  \/ PartOf[i] \in Linear
  \/ ReviewBarred(s, i)

MoveToRefused(s, i) ==
  \/ s.currentItemKey = NoItem
  \/ PartOf[i] # PartOf[s.currentItemKey]
  \/ PartOf[i] \in Linear
  \/ ~NavigableInTime(s, i)
  \/ ReviewBarred(s, i)

\* What canMoveTo answers a consumer.
CanMoveTo(s, i) ==
  /\ s.status = "in-progress"
  /\ ~MoveToRefused(s, i)
  /\ PreConditionsPass(i, s)

(***************************************************************************)
(* The public surface                                                      *)
(***************************************************************************)

StartState ==
  LET initial == [status |-> "in-progress", currentItemKey |-> NoItem,
                  itemOutcomes |-> [i \in Items |-> NoResult],
                  attemptedItems |-> {}, attemptCounts |-> [i \in Items |-> 0],
                  presentedItems |-> {}, respondedItems |-> {},
                  correctItems |-> {}, incorrectItems |-> {},
                  pendingItemResults |-> [i \in Items |-> NoResult],
                  testOutcomes |-> DefaultOutcomes,
                  lastTransitionAtMs |-> clock,
                  seconds |-> [c \in Scopes |-> 0],
                  templateDefaultValues |-> [i \in Items |-> NoResult],
                  rejectedSubmissions |-> <<>>, itemComments |-> {},
                  attemptHistory |-> [i \in Items |-> <<>>]]
      opened == [initial EXCEPT !.testOutcomes = RunOutcomeProcessing(initial)]
  IN MoveToItem(opened, FirstNavigable(opened, 1))

MoveTo(s, i) == WithTransition(s, MoveToRefused(Touch(s), i), Present(Touch(s), i))

NextItem(s) == WithTransition(s, NextRefused(Touch(s)),
                              MoveToItem(Touch(s), NextDestination(Touch(s))))

\* Scopes past their limit that do not accept a late submission.
BarringScopes(s, i) ==
  {c \in EnclosingScopes(i) : ScopeExpired(s, c) /\ c \notin AllowLate}

\* The scope a refusal records.
BarringScope(s, i) ==
  LET list == ScopesInnermostFirst(i)
  IN list[Min({k \in DOMAIN list : list[k] \in BarringScopes(s, i)})]

SubmitRefused(s, i, r) ==
  IF PartOf[i] \in Simultaneous THEN s.attemptCounts[i] > 0
  ELSE \/ ~r.valid /\ Control[i].validateResponses
       \/ i \notin Adaptive /\ ~AttemptsLeft(s, i)

\* Simultaneous parts hold the result, revisable until the part is left;
\* individual ones commit it and run outcome processing.
SubmitBody(s, i, r) ==
  LET entry     == [result |-> r, submittedAtMs |-> clock]
      committed == Commit([s EXCEPT !.attemptedItems = @ \cup {i}], [j \in {i} |-> entry])
  IN IF PartOf[i] \in Simultaneous
     THEN [s EXCEPT !.pendingItemResults[i] = entry,
                    !.attemptedItems = @ \cup {i}]
     ELSE [committed EXCEPT !.testOutcomes = RunOutcomeProcessing(committed)]

SubmitItem(s, i, r) ==
  LET t == Touch(s)
  IN IF s.status # "in-progress" THEN s
     ELSE IF BarringScopes(t, i) # {}
     THEN ApplyExpiries([t EXCEPT !.rejectedSubmissions = Append(@,
            [itemKey |-> i, scope |-> BarringScope(t, i),
             atTestSeconds |-> t.seconds[TestScope]])])
     ELSE IF SubmitRefused(t, i, r) THEN s
     ELSE ApplyExpiries(SubmitBody(t, i, r))

EndTest(s) == IF s.status = "ended" THEN s ELSE Ended(Touch(s))

TickClock(s) == IF s.status # "in-progress" THEN s ELSE ApplyExpiries(Touch(s))

Suspend(s) ==
  LET settled == ApplyExpiries(Touch(s))
  IN IF s.status # "in-progress" THEN s
     ELSE IF settled.status = "in-progress" THEN [settled EXCEPT !.status = "suspended"]
     ELSE settled

\* Mutant: the stamp taken at suspension is kept, so the gap accrues.
ResumeKeepsStamp(s) ==
  IF s.status # "suspended" THEN s ELSE [s EXCEPT !.status = "in-progress"]

\* Re-stamps without folding: the suspended gap reaches no scope.
Resume(s) ==
  IF s.status # "suspended" THEN s
  ELSE [s EXCEPT !.status = "in-progress", !.lastTransitionAtMs = clock]

Review(s, i) ==
  IF s.status = "ended" /\ Control[i].allowReview /\ i \in s.presentedItems
  THEN [s EXCEPT !.currentItemKey = i] ELSE s

SetItemComment(s, i) ==
  IF s.status = "in-progress" /\ Control[i].allowComment
  THEN [s EXCEPT !.itemComments = @ \cup {i}] ELSE s

(***************************************************************************)
(* Actions: a consumer calls one transition; the clock moves between calls *)
(***************************************************************************)

Becomes(s) == session' = s /\ UNCHANGED <<clock, activeTime>>

DoMoveTo  == \E i \in Items : Becomes(MoveTo(session, i))
DoNext    == Becomes(NextItem(session))
DoSubmit  == \E i \in Items, r \in Results :
               /\ Becomes(SubmitItem(session, i, r))
               /\ Len(session'.attemptHistory[i]) <= MaxCommitted
               /\ Len(session'.rejectedSubmissions) <= MaxRejected
DoEnd     == Becomes(EndTest(session))
DoTick    == Becomes(TickClock(session))
DoSuspend == Becomes(Suspend(session))
DoResume  == Becomes(Resume(session))
DoReview  == \E i \in Items : Becomes(Review(session, i))
DoComment == \E i \in Items : Becomes(SetItemComment(session, i))

AdvanceClock ==
  \E d \in ClockSteps :
    /\ clock + d \in 0 .. MaxClock
    /\ clock' = clock + d
    /\ activeTime' = IF session.status = "in-progress" /\ d > 0 THEN activeTime + d
                     ELSE activeTime
    /\ activeTime' <= MaxClock
    /\ UNCHANGED session

Init ==
  /\ clock = 0
  /\ activeTime = 0
  /\ session = StartState

Next ==
  \/ DoMoveTo
  \/ DoNext
  \/ DoSubmit
  \/ DoEnd
  \/ DoTick
  \/ DoSuspend
  \/ DoResume
  \/ DoReview
  \/ DoComment
  \/ AdvanceClock

Spec == Init /\ [][Next]_vars
=============================================================================
