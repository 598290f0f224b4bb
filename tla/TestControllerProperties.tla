---------------------- MODULE TestControllerProperties ----------------------
(***************************************************************************)
(* What the test controller promises about a session, and the statements   *)
(* of its documentation that the code does not keep.                       *)
(***************************************************************************)
EXTENDS ResultsReport, Functions

Rejection == [itemKey : Items, scope : Scopes, atTestSeconds : Nat]

SessionState ==
  [status : {"in-progress", "suspended", "ended"},
   currentItemKey : Items \cup {NoItem},
   itemOutcomes : [Items -> Outcomes \cup {NoResult}],
   attemptedItems : SUBSET Items,
   attemptCounts : [Items -> Nat],
   presentedItems : SUBSET Items,
   respondedItems : SUBSET Items,
   correctItems : SUBSET Items,
   incorrectItems : SUBSET Items,
   pendingItemResults : [Items -> Submission \cup {NoResult}],
   testOutcomes : TestOutcomes,
   lastTransitionAtMs : Int,
   seconds : [Scopes -> Nat],
   templateDefaultValues : [Items -> TestOutcomes \cup {NoResult}],
   rejectedSubmissions : Seq(Rejection),
   itemComments : SUBSET Items,
   attemptHistory : [Items -> Seq(Submission)]]

\* Type invariant: a session stays a TestSessionState (types.ts), with every
\* map keyed by plan items and scopes of the plan.
TypeOK ==
  /\ session \in SessionState
  /\ clock \in Int
  /\ activeTime \in Nat

(***************************************************************************)
(* Safety                                                                  *)
(***************************************************************************)

\* However calls, expiries and suspensions interleave, an open session always
\* stands on an item it has presented and whose recorded time is not spent in
\* any enclosing scope: no path of moveToItem, moveTo or applyExpiries leaves
\* the candidate on a closed item or on none.
InTime(s) ==
  s.status # "ended" =>
    /\ s.currentItemKey \in s.presentedItems
    /\ NavigableInTime(s, s.currentItemKey)

CurrentInTime == InTime(session)

\* A held result belongs to a simultaneous part of an open session, counts as
\* attempted and is invisible to scoring: no attempt spent, no outcome recorded.
Provisional(s, i) ==
  s.pendingItemResults[i] # NoResult =>
    /\ s.status # "ended"
    /\ PartOf[i] \in Simultaneous
    /\ i \in s.attemptedItems
    /\ s.attemptCounts[i] = 0
    /\ s.itemOutcomes[i] = NoResult

LastAttempt(s, i) == s.attemptHistory[i][Len(s.attemptHistory[i])]

\* The six records a commit touches tell one story: the count is the length of
\* the history, outcomes and flags are those of the latest attempt, and the
\* attempted items are the committed and the held ones; and no held result has been
\* scored, whatever was revised, committed, refused or ended in between.
LedgerOf(s, i) ==
  LET n == Len(s.attemptHistory[i])
  IN /\ s.attemptCounts[i] = n
     /\ i \in s.attemptedItems <=> n > 0 \/ s.pendingItemResults[i] # NoResult
     /\ n = 0 => s.itemOutcomes[i] = NoResult
     /\ n > 0 => s.itemOutcomes[i] = LastAttempt(s, i).result.outcomes
     /\ i \in s.respondedItems <=> n > 0 /\ LastAttempt(s, i).result.responded
     /\ i \in s.correctItems <=> n > 0 /\ LastAttempt(s, i).result.correct = "correct"
     /\ i \in s.incorrectItems <=> n > 0 /\ LastAttempt(s, i).result.correct = "incorrect"

LedgerAgrees == \A i \in Items : LedgerOf(session, i) /\ Provisional(session, i)

\* A non-adaptive item never commits more attempts than maxAttempts allows, and
\* an item of a simultaneous part never more than its single one, whatever the
\* order of submissions, revisions, part changes and expiries.
WithinMax(s, i) ==
  IF PartOf[i] \in Simultaneous THEN s.attemptCounts[i] <= 1
  ELSE \/ i \in Adaptive
       \/ Control[i].maxAttempts = 0
       \/ s.attemptCounts[i] <= Control[i].maxAttempts

WithinMaxAttempts == \A i \in Items : WithinMax(session, i)

\* All folded time is accounted to exactly one item and to the part and the
\* sections around that item.
ScopeTimesAgree ==
  LET spent(S) == SumFunctionOnSet([i \in Items |-> session.seconds[<<"item", i>>]], S)
  IN /\ session.seconds[TestScope] = spent(Items)
     /\ \A p \in Parts : session.seconds[<<"part", p>>] = spent({i \in Items : PartOf[i] = p})
     /\ \A x \in Sections :
          session.seconds[<<"section", x>>] = spent({i \in Items : x \in SectionsOf(i)})

\* The session clock neither loses nor invents time over blocked calls, forced
\* moves and suspensions: what it has folded plus what it will fold at the next
\* transition is the time it has really been in progress, in every scope.
NoTimeLost ==
  /\ session.seconds[TestScope]
       + (IF session.status = "in-progress" THEN Elapsed(session) ELSE 0) = activeTime
  /\ ScopeTimesAgree

\* In a linear part an item that was presented and is behind the current one was not
\* skipped against allowSkipping nor left before its minTime, unless its time ran out
\* first: neither by next, nor by a branch rule, nor where another's time ran out.
\* (A branch or exit may pass over items that were never presented.)
LinearItemsServed ==
  session.status # "ended" =>
    \A i \in session.presentedItems :
      (PartOf[i] \in Linear /\ i < session.currentItemKey
                            /\ NavigableInTime(session, i)) =>
        /\ Control[i].allowSkipping \/ i \in session.attemptedItems
        /\ session.seconds[<<"item", i>>] >= MinTime[<<"item", i>>]

(***************************************************************************)
(* Action properties                                                       *)
(***************************************************************************)

\* An ended session changes nothing but the item under review, and review
\* reaches presented items that allow it.
EndedIsFinal ==
  [][session.status = "ended" =>
       LET i == session'.currentItemKey
       IN /\ session' = [session EXCEPT !.currentItemKey = i]
          /\ i \in session.presentedItems /\ Control[i].allowReview]_session

\* No scope's recorded time ever goes down, even when the injected clock does.
TimeNeverDecreases ==
  [][\A c \in Scopes : session'.seconds[c] >= session.seconds[c]]_session

(***************************************************************************)
(* Reporting                                                               *)
(***************************************************************************)

\* At any moment the report numbers an item's attempts from one, without gap or
\* repetition, a held one counted as the first and only one; it reports as many
\* final attempts as the conditions of the test can see, and an item as initial
\* exactly when it was never attempted.  An ended session reports nothing held.
NumbersAttempts(s, i, entries) ==
  LET finals == {k \in DOMAIN entries : entries[k].sessionStatus = "final"}
  IN /\ IF i \in s.attemptedItems
        THEN \A k \in DOMAIN entries : entries[k].numAttempts = k
        ELSE \A k \in DOMAIN entries : /\ entries[k].sessionStatus = "initial"
                                       /\ entries[k].numAttempts = 0
     /\ entries # <<>>
     /\ finals = 1 .. s.attemptCounts[i]
     /\ \A k \in DOMAIN entries :
          entries[k].sessionStatus = "pendingResponseProcessing" => s.status # "ended"

ReportNumbersAttempts ==
  \A i \in Items :
    NumbersAttempts(session, i, BuildAssessmentResult(session, clock).itemResults[i])

\* The report stands on its own: its test outcomes are what the rules of the test
\* make of the final results it lists, in whatever order results were held,
\* committed and revised (for rules that read committed results only).
ReportedOutcomes(entries) ==
  LET finals == {k \in DOMAIN entries : entries[k].sessionStatus = "final"}
  IN IF finals = {} THEN NoResult ELSE entries[Max(finals)].record.outcomes

ReportAddsUp ==
  LET report   == BuildAssessmentResult(session, clock)
      reported == [i \in Items |-> ReportedOutcomes(report.itemResults[i])]
  IN report.testOutcomes = RunOutcomeProcessing([session EXCEPT !.itemOutcomes = reported])

(***************************************************************************)
(* Refinement                                                              *)
(***************************************************************************)

\* The controller keeps the promises of AttemptLedger: through every mixture
\* of navigation, expiry, revision, suspension and end, a submission is taken
\* at most once, a held one is collected with its whole part, and none is lost.
Ledger == INSTANCE AttemptLedger WITH
            GroupOf <- PartOf,
            Together <- Simultaneous,
            Limit <- [i \in Items |-> IF i \in Adaptive THEN 0 ELSE Control[i].maxAttempts],
            Submissions <- [result : Results, submittedAtMs : 0 .. MaxClock],
            None <- NoResult,
            phase <- session.status,
            waiting <- session.pendingItemResults,
            attempts <- session.attemptHistory

ImplementsLedger == Ledger!Spec

(***************************************************************************)
(* Navigation answers                                                      *)
(***************************************************************************)

\* When canNext offers next(), judged on the recorded state, calling it now
\* does change the session, whatever the clock has done since.
NextOfferIsHonoured == ~NextRefused(session) => NextItem(session) # session

\* A linear candidate only moves on: branch rules jump forward.
\* (ADR 0005: "branch paths only move forward".)
BranchesMoveForward ==
  [][(session'.status # "ended" /\ PartOf[session.currentItemKey] \in Linear) =>
       session'.currentItemKey >= session.currentItemKey]_session

(***************************************************************************)
(* Liveness                                                                *)
(***************************************************************************)

\* The clock runs and the consumer runs its timer (types.ts, tick).
FairSpec == Spec /\ WF_vars(AdvanceClock) /\ WF_vars(DoTick)

\* Enough clock is left, within the bound explored, to pass the test's maxTime.
WillBeOverdue ==
  /\ session.status = "in-progress"
  /\ session.seconds[TestScope] + Elapsed(session) + (MaxClock - clock)
       > EffectiveMax(TestScope)

\* A candidate who neither ends nor suspends cannot keep a test open past its
\* maxTime: ticks alone close it.
OverdueTestCloses == WillBeOverdue ~> (session.status # "in-progress")

(***************************************************************************)
(* What the documentation says and the code does not keep                  *)
(***************************************************************************)

\* types.ts: the preconditions of an item "all must pass"; here, on the state
\* the candidate enters the item's part in.
EnteredPartMeetsPreConditions ==
  [][(session'.status # "ended"
        /\ PartOf[session'.currentItemKey] # PartOf[session.currentItemKey]) =>
       PreConditionsPass(session'.currentItemKey, session')]_session
=============================================================================
