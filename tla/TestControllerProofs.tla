------------------------ MODULE TestControllerProofs ------------------------
(***************************************************************************)
(* Theorems about the test controller, for every plan, every clock and     *)
(* every choice of conditions, results and outcome rules.                  *)
(***************************************************************************)
EXTENDS TestControllerProperties, WellFoundedInduction, SequenceTheorems, TLAPS

LEMMA TouchType ==
  ASSUME NEW s \in SessionState, clock \in Int
  PROVE  Touch(s) \in SessionState
  <1> DEFINE secs == [c \in Scopes |-> IF c \in RunningScopes(s)
                                        THEN s.seconds[c] + Elapsed(s)
                                        ELSE s.seconds[c]]
  <1>1. Elapsed(s) \in Nat
    BY DEF Elapsed, SessionState
  <1>2. s.seconds \in [Scopes -> Nat]
    BY DEF SessionState
  <1>3. secs \in [Scopes -> Nat]
    BY <1>1, <1>2
  <1>4. Touch(s) = IF s.status # "in-progress" THEN s
                   ELSE [s EXCEPT !.lastTransitionAtMs = clock, !.seconds = secs]
    BY DEF Touch
  <1> HIDE DEF secs
  <1> QED BY <1>3, <1>4, ZenonT(60) DEF SessionState

LEMMA CommitType ==
  ASSUME NEW s \in SessionState, NEW batch, DOMAIN batch \subseteq Items,
         \A i \in DOMAIN batch : batch[i] \in Submission
  PROVE  Commit(s, batch) \in SessionState
  <1> DEFINE keys == DOMAIN batch
             outcomes == [i \in Items |-> IF i \in keys THEN batch[i].result.outcomes
                                          ELSE s.itemOutcomes[i]]
             counts == [i \in Items |-> IF i \in keys THEN s.attemptCounts[i] + 1
                                           ELSE s.attemptCounts[i]]
             history == [i \in Items |-> IF i \in keys
                                            THEN Append(s.attemptHistory[i], batch[i])
                                            ELSE s.attemptHistory[i]]
             responded == (s.respondedItems \ keys)
                             \cup {i \in keys : batch[i].result.responded}
             correct == (s.correctItems \ keys)
                           \cup {i \in keys : batch[i].result.correct = "correct"}
             incorrect == (s.incorrectItems \ keys)
                             \cup {i \in keys : batch[i].result.correct = "incorrect"}
  <1>1. outcomes \in [Items -> Outcomes \cup {NoResult}]
    BY DEF SessionState, Submission, Outcomes
  <1>2. counts \in [Items -> Nat]
    BY DEF SessionState
  <1>3. history \in [Items -> Seq(Submission)]
    BY DEF SessionState
  <1>4. responded \in SUBSET Items /\ correct \in SUBSET Items /\ incorrect \in SUBSET Items
    BY DEF SessionState
  <1>5. Commit(s, batch) = [s EXCEPT !.itemOutcomes = outcomes, !.attemptCounts = counts,
                                     !.attemptHistory = history, !.respondedItems = responded,
                                     !.correctItems = correct, !.incorrectItems = incorrect]
    BY DEF Commit
  <1> DEFINE mid == [s EXCEPT !.itemOutcomes = outcomes, !.attemptCounts = counts,
                              !.attemptHistory = history]
  <1> HIDE DEF outcomes, counts, history, responded, correct, incorrect
  <1>6. mid \in SessionState
    BY <1>1, <1>2, <1>3 DEF SessionState
  <1>7. Commit(s, batch) = [mid EXCEPT !.respondedItems = responded, !.correctItems = correct,
                                       !.incorrectItems = incorrect]
    BY <1>5 DEF SessionState
  <1> HIDE DEF mid
  <1> QED BY <1>4, <1>6, <1>7, ZenonT(60) DEF SessionState

LEMMA OutcomeProcessingType ==
  ASSUME NEW s
  PROVE  RunOutcomeProcessing(s) \in TestOutcomes
  BY ResultAssumption DEF RunOutcomeProcessing

LEMMA FlushPendingType ==
  ASSUME NEW s \in SessionState, NEW leaving, leaving \subseteq Items
  PROVE  FlushPending(s, leaving) \in SessionState
  <1> DEFINE keys == PendingIn(s, leaving)
             done == Commit(s, [i \in keys |-> s.pendingItemResults[i]])
             pending == [i \in Items |-> IF i \in keys THEN NoResult
                                         ELSE s.pendingItemResults[i]]
  <1>1. keys \subseteq Items
    BY DEF PendingIn
  <1>2. s.pendingItemResults \in [Items -> Submission \cup {NoResult}]
    BY DEF SessionState
  <1>3. \A i \in keys : s.pendingItemResults[i] \in Submission
    BY <1>1, <1>2 DEF PendingIn
  <1>4. done \in SessionState
    <2> DEFINE batch == [i \in keys |-> s.pendingItemResults[i]]
    <2>1. DOMAIN batch = keys /\ \A i \in keys : batch[i] \in Submission
      BY <1>3
    <2> HIDE DEF batch, keys
    <2> QED BY <1>1, <2>1, CommitType DEF batch
  <1>5. pending \in [Items -> Submission \cup {NoResult}]
    BY <1>2
  <1>6. FlushPending(s, leaving) = [done EXCEPT !.pendingItemResults = pending]
    BY DEF FlushPending
  <1> HIDE DEF done, pending
  <1> QED BY <1>4, <1>5, <1>6 DEF SessionState

LEMMA EndedType ==
  ASSUME NEW s \in SessionState
  PROVE  Ended(s) \in SessionState
  <1> DEFINE flushed == FlushPending(s, Items)
  <1>1. flushed \in SessionState
    BY FlushPendingType
  <1>2. Ended(s) = [flushed EXCEPT !.status = "ended", !.currentItemKey = NoItem,
                                   !.testOutcomes = RunOutcomeProcessing(flushed)]
    BY DEF Ended
  <1>3. RunOutcomeProcessing(flushed) \in TestOutcomes
    BY OutcomeProcessingType
  <1> HIDE DEF flushed
  <1> QED BY <1>1, <1>2, <1>3, ZenonT(60) DEF SessionState

\* The least element of a set of item positions.
LEMMA MinOfPositions ==
  ASSUME NEW S, S \subseteq Nat, S # {}
  PROVE  Min(S) \in S /\ \A x \in S : Min(S) <= x
  <1> DEFINE R == {ss \in Nat \X Nat : ss[1] < ss[2]}
  <1>1. OpToRel(<, Nat) = R
    BY DEF OpToRel
  <1>2. IsWellFoundedOn(R, Nat)
    BY <1>1, NatLessThanWellFounded, Zenon
  <1>3. PICK x \in S : \A y \in S : ~ (<<y, x>> \in R)
    <2> HIDE DEF R
    <2> QED BY <1>2, WFMin
  <1>4. ASSUME NEW y \in S PROVE x <= y
    <2>1. x \in Nat /\ y \in Nat
      OBVIOUS
    <2>2. ~ (<<y, x>> \in R)
      BY <1>3
    <2>3. ~ (y < x)
      BY <2>1, <2>2
    <2> QED BY <2>1, <2>3
  <1> QED BY <1>4 DEF Min

\* A search lands on an item at or after k that its clocks leave open, or on none.
LEMMA FirstNavigableIsOpen ==
  ASSUME NEW s, NEW k
  PROVE  /\ FirstNavigable(s, k) \in Items \cup {NoItem}
         /\ FirstNavigable(s, k) # NoItem =>
              FirstNavigable(s, k) >= k /\ NavigableInTime(s, FirstNavigable(s, k))
  <1> DEFINE S == {i \in Items : i >= k /\ PreConditionsPass(i, s) /\ NavigableInTime(s, i)}
  <1>1. FirstNavigable(s, k) = IF S = {} THEN NoItem ELSE Min(S)
    BY DEF FirstNavigable, FirstOr
  <1>2. S \subseteq Nat
    BY PlanAssumption DEF Items
  <1>3. CASE S = {}
    BY <1>1, <1>3
  <1>4. CASE S # {}
    <2>1. Min(S) \in S
      BY <1>2, <1>4, MinOfPositions
    <2> QED BY <1>1, <1>4, <2>1
  <1> QED BY <1>3, <1>4

LEMMA WithTemplateDefaultsType ==
  ASSUME NEW s \in SessionState, NEW i \in Items
  PROVE  WithTemplateDefaults(s, i) \in SessionState
  <1> DEFINE due == IF PartOf[i] \in Linear THEN {i}
                    ELSE {j \in Items : PartOf[j] = PartOf[i]}
             defaults == [j \in Items |->
                            IF j \in due \cap TemplateItems /\ s.templateDefaultValues[j] = NoResult
                            THEN s.testOutcomes ELSE s.templateDefaultValues[j]]
  <1>1. defaults \in [Items -> TestOutcomes \cup {NoResult}]
    BY DEF SessionState
  <1>2. WithTemplateDefaults(s, i) = [s EXCEPT !.templateDefaultValues = defaults]
    BY DEF WithTemplateDefaults
  <1> HIDE DEF defaults
  <1> QED BY <1>1, <1>2 DEF SessionState

LEMMA PresentType ==
  ASSUME NEW s \in SessionState, NEW i \in Items
  PROVE  Present(s, i) \in SessionState
  BY DEF Present, SessionState

LEMMA LeavePartType ==
  ASSUME NEW s \in SessionState, NEW i
  PROVE  LeavePart(s, i) \in SessionState
  <1> DEFINE leaving == {j \in Items : PartOf[j] = PartOf[s.currentItemKey]}
             flushed == FlushPending(s, leaving)
  <1>1. flushed \in SessionState
    BY FlushPendingType
  <1>2. RunOutcomeProcessing(flushed) \in TestOutcomes
    BY OutcomeProcessingType
  <1>3. LeavePart(s, i) \in {s, [flushed EXCEPT !.testOutcomes = RunOutcomeProcessing(flushed)]}
    BY DEF LeavePart
  <1> HIDE DEF flushed
  <1> QED BY <1>1, <1>2, <1>3, ZenonT(60) DEF SessionState

LEMMA MoveToItemType ==
  ASSUME NEW s \in SessionState, NEW i \in Items \cup {NoItem}
  PROVE  MoveToItem(s, i) \in SessionState
  <1>1. CASE i = NoItem
    BY <1>1, EndedType DEF MoveToItem
  <1>2. CASE i # NoItem
    <2>1. i \in Items
      BY <1>2
    <2>2. LeavePart(s, i) \in SessionState
      BY LeavePartType
    <2>3. WithTemplateDefaults(LeavePart(s, i), i) \in SessionState
      BY <2>1, <2>2, WithTemplateDefaultsType
    <2>4. Present(WithTemplateDefaults(LeavePart(s, i), i), i) \in SessionState
      BY <2>1, <2>3, PresentType
    <2> QED BY <1>2, <2>4 DEF MoveToItem
  <1> QED BY <1>1, <1>2

LEMMA ApplyExpiriesType ==
  ASSUME NEW s \in SessionState
  PROVE  ApplyExpiries(s) \in SessionState
  <1> DEFINE k == FirstNavigable(s, s.currentItemKey + 1)
  <1>1. k \in Items \cup {NoItem}
    BY FirstNavigableIsOpen
  <1>2. MoveToItem(s, k) \in SessionState
    BY <1>1, MoveToItemType
  <1>3. Ended(s) \in SessionState
    BY EndedType
  <1> QED BY <1>2, <1>3 DEF ApplyExpiries

LEMMA NextDestinationType ==
  ASSUME NEW s \in SessionState, s.currentItemKey # NoItem
  PROVE  NextDestination(s) \in Items \cup {NoItem}
  <1> DEFINE i == s.currentItemKey
             rule(k) == BranchRules[i][k]
  <1>1. i \in Items
    BY DEF SessionState
  <1>2. ASSUME NEW k \in FiringRules(s, i)
        PROVE  BranchDestination(s, i, rule(k)) \in Items \cup {NoItem}
    <2>1. rule(k).kind \in {"EXIT_TEST", "EXIT_TESTPART", "EXIT_SECTION", "item", "instances"}
      BY <1>1, PlanAssumption DEF FiringRules
    <2> QED BY <2>1, FirstNavigableIsOpen DEF BranchDestination
  <1>3. FiringRules(s, i) # {} => Min(FiringRules(s, i)) \in FiringRules(s, i)
    <2>1. FiringRules(s, i) \subseteq Nat
      BY DEF FiringRules
    <2> QED BY <2>1, MinOfPositions
  <1> QED BY <1>2, <1>3, FirstNavigableIsOpen DEF NextDestination

LEMMA SubmissionType ==
  ASSUME NEW r \in Results, clock \in Int
  PROVE  [result |-> r, submittedAtMs |-> clock] \in Submission
  BY DEF Submission

LEMMA SubmitBodyType ==
  ASSUME NEW s \in SessionState, NEW i \in Items, NEW r \in Results, clock \in Int
  PROVE  SubmitBody(s, i, r) \in SessionState
  <1> DEFINE entry == [result |-> r, submittedAtMs |-> clock]
             marked == [s EXCEPT !.attemptedItems = @ \cup {i}]
             committed == Commit(marked, [j \in {i} |-> entry])
             held == [s EXCEPT !.pendingItemResults[i] = entry,
                               !.attemptedItems = @ \cup {i}]
             scored == [committed EXCEPT !.testOutcomes = RunOutcomeProcessing(committed)]
  <1>1. entry \in Submission
    BY SubmissionType
  <1>2. marked \in SessionState
    BY DEF SessionState
  <1>3. committed \in SessionState
    <2> DEFINE batch == [j \in {i} |-> entry]
    <2>1. DOMAIN batch \subseteq Items /\ \A j \in DOMAIN batch : batch[j] \in Submission
      BY <1>1
    <2> HIDE DEF batch, marked
    <2> QED BY <1>2, <2>1, CommitType DEF batch
  <1>4. held \in SessionState
    BY <1>1 DEF SessionState
  <1>5. scored \in SessionState
    <2>1. RunOutcomeProcessing(committed) \in TestOutcomes
      BY OutcomeProcessingType
    <2> HIDE DEF committed
    <2> QED BY <1>3, <2>1 DEF SessionState
  <1>6. SubmitBody(s, i, r) \in {held, scored}
    BY DEF SubmitBody
  <1> HIDE DEF held, scored
  <1> QED BY <1>4, <1>5, <1>6

LEMMA ConcatFacts ==
  ASSUME NEW S, NEW p \in Seq(S), NEW q \in Seq(S)
  PROVE  /\ p \o q \in Seq(S)
         /\ Len(p \o q) = Len(p) + Len(q)
         /\ \A k \in 1 .. Len(p) : (p \o q)[k] = p[k]
         /\ \A k \in 1 .. Len(q) : (p \o q)[Len(p) + k] = q[k]
  OBVIOUS

\* The list a refusal searches holds every scope around the item.
LEMMA EnclosingScopesAreListed ==
  ASSUME NEW i \in Items
  PROVE  /\ DOMAIN ScopesInnermostFirst(i) \subseteq Nat
         /\ EnclosingScopes(i) \subseteq Scopes
         /\ \A c \in EnclosingScopes(i) :
              \E k \in DOMAIN ScopesInnermostFirst(i) : ScopesInnermostFirst(i)[k] = c
  <1> DEFINE path == SectionPath[i]
             n == Len(path)
             S == Scopes
             head == <<<<"item", i>>>>
             mid == [k \in 1 .. n |-> <<"section", path[n + 1 - k]>>]
             last == <<<<"part", PartOf[i]>>, TestScope>>
             list == ScopesInnermostFirst(i)
  <1>1. path \in Seq(Sections) /\ n \in Nat /\ DOMAIN path = 1 .. n
    BY PlanAssumption
  <1>2. /\ <<"item", i>> \in Scopes
        /\ <<"part", PartOf[i]>> \in Scopes
        /\ TestScope \in Scopes
        /\ \A k \in 1 .. n : <<"section", path[k]>> \in Scopes
    <2>1. <<"item", i>> \in Scopes
      BY DEF Scopes, ItemScopes
    <2>2. <<"part", PartOf[i]>> \in Scopes
      <3>1. PartOf[i] \in Parts
        BY PlanAssumption
      <3> QED BY <3>1 DEF Scopes, PartScopes
    <2>3. TestScope \in Scopes
      BY DEF Scopes
    <2>4. ASSUME NEW k \in 1 .. n PROVE <<"section", path[k]>> \in Scopes
      <3>1. path[k] \in Sections
        BY <1>1
      <3> QED BY <3>1 DEF Scopes, SectionScopes
    <2> QED BY <2>1, <2>2, <2>3, <2>4
  <1>3. EnclosingScopes(i) \subseteq Scopes
    BY <1>1, <1>2 DEF EnclosingScopes, SectionsOf
  <1>4. head \in Seq(S) /\ mid \in Seq(S) /\ last \in Seq(S) /\ Len(mid) = n
    <2>1. mid \in [1 .. n -> S]
      BY <1>1, <1>2
    <2> HIDE DEF S
    <2> QED BY <1>1, <1>2, <2>1 DEF S
  <1>5. list = head \o mid \o last
    BY <1>1 DEF ScopesInnermostFirst
  <1>6. /\ list \in Seq(S)
        /\ Len(list) = n + 3
        /\ list[1] = <<"item", i>>
        /\ \A k \in 1 .. n : list[k + 1] = mid[k]
        /\ list[n + 2] = <<"part", PartOf[i]>>
        /\ list[n + 3] = TestScope
    <2>1. /\ Len(head) = 1 /\ head[1] = <<"item", i>>
          /\ Len(last) = 2 /\ last[1] = <<"part", PartOf[i]>> /\ last[2] = TestScope
      OBVIOUS
    <2> DEFINE front == head \o mid
    <2>2. /\ front \in Seq(S) /\ Len(front) = n + 1
          /\ front[1] = head[1]
          /\ \A k \in 1 .. n : front[1 + k] = mid[k]
      <3> HIDE DEF head, mid, S
      <3>1. head \o mid \in Seq(S) /\ Len(head \o mid) = Len(head) + Len(mid)
        BY <1>4, ConcatFacts
      <3>2. \A k \in 1 .. Len(head) : (head \o mid)[k] = head[k]
        BY <1>4, ConcatFacts
      <3>3. \A k \in 1 .. Len(mid) : (head \o mid)[Len(head) + k] = mid[k]
        BY <1>4, ConcatFacts
      <3> QED BY <1>1, <1>4, <2>1, <3>1, <3>2, <3>3
    <2> HIDE DEF head, mid, last, S, front
    <2>3. list = front \o last
      BY <1>5 DEF front
    <2> HIDE DEF list
    <2>a. front \in Seq(S) /\ last \in Seq(S)
      BY <1>4, <2>2
    <2>4. front \o last \in Seq(S) /\ Len(front \o last) = Len(front) + Len(last)
      BY <2>a, ConcatFacts, SMTT(30)
    <2>5. \A k \in 1 .. Len(front) : (front \o last)[k] = front[k]
      BY <2>a, ConcatFacts, SMTT(30)
    <2>6. \A k \in 1 .. Len(last) : (front \o last)[Len(front) + k] = last[k]
      BY <2>a, ConcatFacts, SMTT(30)
    <2>7. list \in Seq(S) /\ Len(list) = n + 3
      BY <1>1, <2>1, <2>2, <2>3, <2>4
    <2>8. list[1] = <<"item", i>> /\ \A k \in 1 .. n : list[k + 1] = mid[k]
      <3>1. list[1] = front[1]
        BY <1>1, <2>2, <2>3, <2>5
      <3>2. ASSUME NEW k \in 1 .. n PROVE list[k + 1] = mid[k]
        <4>1. k + 1 \in 1 .. Len(front) /\ k + 1 = 1 + k
          BY <1>1, <2>2
        <4> QED BY <2>2, <2>3, <2>5, <4>1
      <3> QED BY <2>1, <2>2, <3>1, <3>2
    <2>9. list[n + 2] = <<"part", PartOf[i]>> /\ list[n + 3] = TestScope
      <3>1. 1 \in 1 .. Len(last) /\ 2 \in 1 .. Len(last)
        BY <2>1
      <3>2. list[Len(front) + 1] = last[1] /\ list[Len(front) + 2] = last[2]
        BY <2>3, <2>6, <3>1
      <3>3. Len(front) + 1 = n + 2 /\ Len(front) + 2 = n + 3
        BY <1>1, <2>2
      <3> QED BY <2>1, <3>2, <3>3
    <2> QED BY <2>7, <2>8, <2>9
  <1>7. ASSUME NEW c \in EnclosingScopes(i)
        PROVE  \E k \in DOMAIN list : list[k] = c
    <2>1. DOMAIN list = 1 .. n + 3
      BY <1>6
    <2>2. CASE c \in {<<"item", i>>, <<"part", PartOf[i]>>, TestScope}
      <3>1. 1 \in DOMAIN list /\ n + 2 \in DOMAIN list /\ n + 3 \in DOMAIN list
        BY <1>1, <2>1
      <3> HIDE DEF list
      <3> QED BY <1>6, <2>2, <3>1
    <2>3. CASE c \in {<<"section", x>> : x \in SectionsOf(i)}
      <3>1. PICK j \in 1 .. n : c = <<"section", path[j]>>
        BY <1>1, <2>3 DEF SectionsOf
      <3>2. n + 1 - j \in 1 .. n /\ mid[n + 1 - j] = c
        BY <1>1, <3>1
      <3>3. list[(n + 1 - j) + 1] = c
        <4> HIDE DEF list, mid
        <4> QED BY <1>6, <3>2
      <3>4. (n + 1 - j) + 1 \in DOMAIN list
        BY <1>1, <2>1
      <3> QED BY <3>3, <3>4
    <2> QED BY <2>2, <2>3 DEF EnclosingScopes
  <1> QED BY <1>3, <1>6, <1>7

LEMMA BarringScopeType ==
  ASSUME NEW s, NEW i \in Items, BarringScopes(s, i) # {}
  PROVE  BarringScope(s, i) \in BarringScopes(s, i) /\ BarringScope(s, i) \in Scopes
  <1> DEFINE list == ScopesInnermostFirst(i)
             S == {k \in DOMAIN list : list[k] \in BarringScopes(s, i)}
  <1>1. BarringScopes(s, i) \subseteq EnclosingScopes(i)
    BY DEF BarringScopes
  <1>2. S \subseteq Nat /\ S # {}
    BY <1>1, EnclosingScopesAreListed
  <1>3. Min(S) \in S
    BY <1>2, MinOfPositions
  <1> QED BY <1>1, <1>3, EnclosingScopesAreListed DEF BarringScope

LEMMA LateType ==
  ASSUME NEW t \in SessionState, NEW i \in Items, BarringScopes(t, i) # {}
  PROVE  [t EXCEPT !.rejectedSubmissions = Append(@,
            [itemKey |-> i, scope |-> BarringScope(t, i),
             atTestSeconds |-> t.seconds[TestScope]])] \in SessionState
  <1> DEFINE entry == [itemKey |-> i, scope |-> BarringScope(t, i),
                       atTestSeconds |-> t.seconds[TestScope]]
             refusals == Append(t.rejectedSubmissions, entry)
  <1>1. entry \in Rejection
    <2>1. BarringScope(t, i) \in Scopes
      BY BarringScopeType
    <2>2. t.seconds[TestScope] \in Nat
      BY DEF SessionState, Scopes
    <2> QED BY <2>1, <2>2 DEF Rejection
  <1> HIDE DEF entry
  <1>2. refusals \in Seq(Rejection)
    BY <1>1 DEF SessionState
  <1> HIDE DEF refusals
  <1>3. [t EXCEPT !.rejectedSubmissions = refusals] \in SessionState
    BY <1>2 DEF SessionState
  <1> QED BY <1>3 DEF refusals, entry

LEMMA SubmitItemType ==
  ASSUME NEW s \in SessionState, NEW i \in Items, NEW r \in Results, clock \in Int
  PROVE  SubmitItem(s, i, r) \in SessionState
  <1> DEFINE t == Touch(s)
  <1>1. t \in SessionState
    BY TouchType
  <1>2. CASE BarringScopes(t, i) # {}
    BY <1>1, <1>2, LateType, ApplyExpiriesType DEF SubmitItem
  <1>3. CASE BarringScopes(t, i) = {}
    BY <1>1, <1>3, SubmitBodyType, ApplyExpiriesType DEF SubmitItem
  <1> QED BY <1>2, <1>3

LEMMA NextItemType ==
  ASSUME NEW s \in SessionState, clock \in Int
  PROVE  NextItem(s) \in SessionState
  <1> DEFINE t == Touch(s)
  <1>1. t \in SessionState
    BY TouchType
  <1>2. ApplyExpiries(t) \in SessionState
    BY <1>1, ApplyExpiriesType
  <1>3. ~NextRefused(t) => MoveToItem(t, NextDestination(t)) \in SessionState
    <2>1. ~NextRefused(t) => t.currentItemKey # NoItem
      BY DEF NextRefused
    <2> QED BY <1>1, <2>1, NextDestinationType, MoveToItemType
  <1> QED BY <1>2, <1>3 DEF NextItem, WithTransition

\* A session starts by moving to the first open item from an empty record.
LEMMA StartStateOpens ==
  ASSUME clock \in Int
  PROVE  \E s \in SessionState :
           /\ StartState = MoveToItem(s, FirstNavigable(s, 1))
           /\ s.status = "in-progress"
           /\ s.pendingItemResults = [i \in Items |-> NoResult]
           /\ s.itemOutcomes = [i \in Items |-> NoResult]
           /\ s.attemptCounts = [i \in Items |-> 0]
           /\ s.attemptHistory = [i \in Items |-> <<>>]
           /\ s.attemptedItems = {} /\ s.respondedItems = {}
           /\ s.correctItems = {} /\ s.incorrectItems = {}
           /\ s.presentedItems = {} /\ s.currentItemKey = NoItem
           /\ s.rejectedSubmissions = <<>>
           /\ s.seconds = [c \in Scopes |-> 0] /\ s.lastTransitionAtMs = clock
           /\ \E r \in SessionState : s = [r EXCEPT !.testOutcomes = RunOutcomeProcessing(r)]
  <1> DEFINE initial == [status |-> "in-progress", currentItemKey |-> NoItem,
                  itemOutcomes |-> [i \in Items |-> NoResult],
                  attemptedItems |-> {}, attemptCounts |-> [i \in Items |-> 0],
                  presentedItems |-> {}, respondedItems |-> {},
                  correctItems |-> {}, incorrectItems |-> {},
                  pendingItemResults |-> [i \in Items |-> NoResult],
                  testOutcomes |-> DefaultOutcomes,
                  lastTransitionAtMs |-> clock,
                  seconds |-> [c \in Scopes |-> 0],
                  templateDefaultValues |-> [i \in Items |-> NoResult],
                  rejectedSubmissions |-> <<>>, itemComments |-> {},
                  attemptHistory |-> [i \in Items |-> <<>>]]
             opened == [initial EXCEPT !.testOutcomes = RunOutcomeProcessing(initial)]
  <1>1. initial \in SessionState
    BY ResultAssumption DEF SessionState
  <1>2. opened \in SessionState
    <2> HIDE DEF initial
    <2> QED BY <1>1, OutcomeProcessingType DEF SessionState
  <1>3. /\ opened.status = "in-progress"
        /\ opened.pendingItemResults = [i \in Items |-> NoResult]
        /\ opened.itemOutcomes = [i \in Items |-> NoResult]
        /\ opened.attemptCounts = [i \in Items |-> 0]
        /\ opened.attemptHistory = [i \in Items |-> <<>>]
        /\ opened.attemptedItems = {} /\ opened.respondedItems = {}
        /\ opened.correctItems = {} /\ opened.incorrectItems = {}
        /\ opened.presentedItems = {} /\ opened.currentItemKey = NoItem
        /\ opened.rejectedSubmissions = <<>>
        /\ opened.seconds = [c \in Scopes |-> 0] /\ opened.lastTransitionAtMs = clock
    OBVIOUS
  <1>4. StartState = MoveToItem(opened, FirstNavigable(opened, 1))
    BY DEF StartState
  <1>5. \E r \in SessionState : opened = [r EXCEPT !.testOutcomes = RunOutcomeProcessing(r)]
    <2> HIDE DEF initial
    <2> QED BY <1>1
  <1> HIDE DEF opened
  <1> QED BY <1>2, <1>3, <1>4, <1>5

LEMMA StartStateType ==
  ASSUME clock \in Int
  PROVE  StartState \in SessionState
  BY StartStateOpens, FirstNavigableIsOpen, MoveToItemType

\* The session stays a TestSessionState whatever is called in whatever order
\* and however the injected clock moves.
THEOREM TypeCorrect == Spec => []TypeOK
  <1>1. Init => TypeOK
    BY StartStateType DEF Init, TypeOK
  <1>2. TypeOK /\ [Next]_vars => TypeOK'
    <2> SUFFICES ASSUME TypeOK, [Next]_vars PROVE TypeOK'
      OBVIOUS
    <2> DEFINE t == Touch(session)
    <2>1. session \in SessionState /\ clock \in Int /\ activeTime \in Nat
      BY DEF TypeOK
    <2>2. t \in SessionState /\ ApplyExpiries(t) \in SessionState /\ Ended(t) \in SessionState
      BY <2>1, TouchType, ApplyExpiriesType, EndedType
    <2>3. ASSUME NEW s \in SessionState, Becomes(s) PROVE TypeOK'
      BY <2>1, <2>3 DEF TypeOK, Becomes
    <2>4. CASE DoMoveTo
      <3>1. PICK i \in Items : Becomes(MoveTo(session, i))
        BY <2>4 DEF DoMoveTo
      <3>2. MoveTo(session, i) \in SessionState
        BY <2>1, <2>2, PresentType DEF MoveTo, WithTransition
      <3> QED BY <2>3, <3>1, <3>2
    <2>5. CASE DoNext
      BY <2>1, <2>3, <2>5, NextItemType DEF DoNext
    <2>6. CASE DoSubmit
      BY <2>1, <2>3, <2>6, SubmitItemType DEF DoSubmit
    <2>7. CASE DoEnd
      BY <2>1, <2>2, <2>3, <2>7 DEF DoEnd, EndTest
    <2>8. CASE DoTick
      BY <2>1, <2>2, <2>3, <2>8 DEF DoTick, TickClock
    <2>9. CASE DoSuspend
      <3>1. [ApplyExpiries(t) EXCEPT !.status = "suspended"] \in SessionState
        BY <2>2 DEF SessionState
      <3> QED BY <2>1, <2>2, <2>3, <2>9, <3>1 DEF DoSuspend, Suspend
    <2>10. CASE DoResume
      <3>1. [session EXCEPT !.status = "in-progress", !.lastTransitionAtMs = clock]
              \in SessionState
        BY <2>1 DEF SessionState
      <3> QED BY <2>1, <2>3, <2>10, <3>1 DEF DoResume, Resume
    <2>11. CASE DoReview
      <3>1. PICK i \in Items : Becomes(Review(session, i))
        BY <2>11 DEF DoReview
      <3>2. [session EXCEPT !.currentItemKey = i] \in SessionState
        BY <2>1 DEF SessionState
      <3> QED BY <2>1, <2>3, <3>1, <3>2 DEF Review
    <2>12. CASE DoComment
      <3>1. PICK i \in Items : Becomes(SetItemComment(session, i))
        BY <2>12 DEF DoComment
      <3>2. [session EXCEPT !.itemComments = @ \cup {i}] \in SessionState
        BY <2>1 DEF SessionState
      <3> QED BY <2>1, <2>3, <3>1, <3>2 DEF SetItemComment
    <2>13. CASE AdvanceClock
      <3>1. PICK d \in ClockSteps : /\ clock' = clock + d
                                    /\ activeTime' = IF session.status = "in-progress" /\ d > 0
                                                     THEN activeTime + d ELSE activeTime
                                    /\ UNCHANGED session
        BY <2>13 DEF AdvanceClock
      <3>2. d \in Int
        BY TimeAssumption
      <3> QED BY <2>1, <3>1, <3>2 DEF TypeOK
    <2>14. CASE UNCHANGED vars
      BY <2>1, <2>14 DEF TypeOK, vars
    <2> QED
      BY <2>4, <2>5, <2>6, <2>7, <2>8, <2>9, <2>10, <2>11, <2>12, <2>13, <2>14 DEF Next
  <1> QED BY <1>1, <1>2, PTL DEF Spec

(***************************************************************************)
(* The attempt ledger.  LedgerAgrees and WithinMaxAttempts are inductive   *)
(* together: a held result is known to be the first of its item, so the    *)
(* commit of it stays within the limit, and the count a limit is checked   *)
(* against is the length of the history.                                   *)
(***************************************************************************)

SoundAt(s, i) == Provisional(s, i) /\ LedgerOf(s, i) /\ WithinMax(s, i)

SoundSessions == {s \in SessionState : \A i \in Items : SoundAt(s, i)}

SameRecords(s, t, i) ==
  /\ t.itemOutcomes[i] = s.itemOutcomes[i]
  /\ t.attemptCounts[i] = s.attemptCounts[i]
  /\ t.attemptHistory[i] = s.attemptHistory[i]
  /\ t.pendingItemResults[i] = s.pendingItemResults[i]
  /\ i \in t.attemptedItems <=> i \in s.attemptedItems
  /\ i \in t.respondedItems <=> i \in s.respondedItems
  /\ i \in t.correctItems <=> i \in s.correctItems
  /\ i \in t.incorrectItems <=> i \in s.incorrectItems

LEMMA SameRecordsSound ==
  ASSUME NEW s, NEW t, NEW i, SoundAt(s, i), SameRecords(s, t, i),
         t.status = "ended" => s.status = "ended" \/ s.pendingItemResults[i] = NoResult
  PROVE  SoundAt(t, i)
  <1>1. Provisional(t, i)
    BY DEF SoundAt, SameRecords, Provisional
  <1>2. LedgerOf(t, i)
    BY Zenon DEF SoundAt, SameRecords, LedgerOf, LastAttempt
  <1>3. WithinMax(t, i)
    BY DEF SoundAt, SameRecords, WithinMax
  <1> QED BY <1>1, <1>2, <1>3 DEF SoundAt

\* What a commit records of an item, and that it touches no other.
Recorded(s, t, i, entry) ==
  /\ t.itemOutcomes[i] = entry.result.outcomes
  /\ t.attemptCounts[i] = s.attemptCounts[i] + 1
  /\ t.attemptHistory[i] = Append(s.attemptHistory[i], entry)
  /\ i \in t.respondedItems <=> entry.result.responded
  /\ i \in t.correctItems <=> entry.result.correct = "correct"
  /\ i \in t.incorrectItems <=> entry.result.correct = "incorrect"

LEMMA CommitRecords ==
  ASSUME NEW s \in SessionState, NEW batch, DOMAIN batch \subseteq Items
  PROVE  LET t == Commit(s, batch)
         IN /\ t.status = s.status
            /\ t.pendingItemResults = s.pendingItemResults
            /\ t.attemptedItems = s.attemptedItems
            /\ \A i \in DOMAIN batch : Recorded(s, t, i, batch[i])
            /\ \A i \in Items \ DOMAIN batch : SameRecords(s, t, i)
  <1> DEFINE t == Commit(s, batch)
             keys == DOMAIN batch
  <1>1. /\ t.status = s.status
        /\ t.pendingItemResults = s.pendingItemResults
        /\ t.attemptedItems = s.attemptedItems
    BY DEF Commit, SessionState
  <1>2. t.itemOutcomes = [i \in Items |-> IF i \in keys THEN batch[i].result.outcomes
                                          ELSE s.itemOutcomes[i]]
    BY DEF Commit, SessionState
  <1>3. t.attemptCounts = [i \in Items |-> IF i \in keys THEN s.attemptCounts[i] + 1
                                           ELSE s.attemptCounts[i]]
    BY DEF Commit, SessionState
  <1>4. t.attemptHistory = [i \in Items |-> IF i \in keys
                                            THEN Append(s.attemptHistory[i], batch[i])
                                            ELSE s.attemptHistory[i]]
    BY DEF Commit, SessionState
  <1>5. t.respondedItems = (s.respondedItems \ keys)
                             \cup {i \in keys : batch[i].result.responded}
    BY DEF Commit, SessionState
  <1>6. t.correctItems = (s.correctItems \ keys)
                           \cup {i \in keys : batch[i].result.correct = "correct"}
    BY DEF Commit, SessionState
  <1>7. t.incorrectItems = (s.incorrectItems \ keys)
                             \cup {i \in keys : batch[i].result.correct = "incorrect"}
    BY DEF Commit, SessionState
  <1> HIDE DEF t
  <1>8. ASSUME NEW i \in keys PROVE Recorded(s, t, i, batch[i])
    <2>1. i \in Items
      OBVIOUS
    <2>2. i \in t.respondedItems <=> batch[i].result.responded
      BY <1>5, Zenon
    <2>3. i \in t.correctItems <=> batch[i].result.correct = "correct"
      BY <1>6
    <2>4. i \in t.incorrectItems <=> batch[i].result.correct = "incorrect"
      BY <1>7
    <2>5. /\ t.itemOutcomes[i] = batch[i].result.outcomes
          /\ t.attemptCounts[i] = s.attemptCounts[i] + 1
          /\ t.attemptHistory[i] = Append(s.attemptHistory[i], batch[i])
      BY <1>2, <1>3, <1>4, <2>1
    <2> QED BY <2>2, <2>3, <2>4, <2>5, Zenon DEF Recorded
  <1>9. ASSUME NEW i \in Items \ keys PROVE SameRecords(s, t, i)
    BY <1>1, <1>2, <1>3, <1>4, <1>5, <1>6, <1>7 DEF SameRecords
  <1> QED BY <1>1, <1>8, <1>9 DEF t

\* Recording an attempt of an item keeps its ledger.
LEMMA RecordedLedger ==
  ASSUME NEW s \in SessionState, NEW t \in SessionState, NEW i \in Items,
         NEW entry \in Submission,
         s.attemptCounts[i] = Len(s.attemptHistory[i]),
         Recorded(s, t, i, entry), i \in t.attemptedItems
  PROVE  LedgerOf(t, i)
  <1> DEFINE before == s.attemptHistory[i]
             after == t.attemptHistory[i]
  <1>1. before \in Seq(Submission)
    BY DEF SessionState
  <1>2. after = Append(before, entry)
    BY DEF Recorded
  <1>3. Len(after) = Len(before) + 1 /\ Len(before) \in Nat /\ after[Len(after)] = entry
    BY <1>1, <1>2
  <1>4. t.attemptCounts[i] = Len(after) /\ Len(after) > 0 /\ Len(after) # 0
    BY <1>3 DEF Recorded
  <1>5. LastAttempt(t, i) = entry
    BY <1>3 DEF LastAttempt
  <1> HIDE DEF after
  <1>6. /\ t.itemOutcomes[i] = LastAttempt(t, i).result.outcomes
        /\ i \in t.respondedItems <=> LastAttempt(t, i).result.responded
        /\ i \in t.correctItems <=> LastAttempt(t, i).result.correct = "correct"
        /\ i \in t.incorrectItems <=> LastAttempt(t, i).result.correct = "incorrect"
    BY <1>5, Zenon DEF Recorded
  <1> QED BY <1>4, <1>6, Zenon DEF LedgerOf, after

LEMMA FlushPendingSound ==
  ASSUME NEW s \in SoundSessions, NEW leaving, leaving \subseteq Items
  PROVE  LET t == FlushPending(s, leaving)
         IN /\ t \in SoundSessions
            /\ t.status = s.status
            /\ \A i \in leaving : t.pendingItemResults[i] = NoResult
  <1> DEFINE keys == PendingIn(s, leaving)
             batch == [i \in keys |-> s.pendingItemResults[i]]
             done == Commit(s, batch)
             t == FlushPending(s, leaving)
  <1>1. s \in SessionState /\ t \in SessionState /\ keys \subseteq Items /\ DOMAIN batch = keys
    BY FlushPendingType DEF SoundSessions, PendingIn
  <1>2. done \in SessionState
    <2>1. \A i \in keys : batch[i] \in Submission
      BY <1>1 DEF SessionState, PendingIn
    <2> HIDE DEF batch, keys
    <2> QED BY <1>1, <2>1, CommitType
  <1>3. /\ done.status = s.status
        /\ done.pendingItemResults = s.pendingItemResults
        /\ done.attemptedItems = s.attemptedItems
        /\ \A i \in keys : Recorded(s, done, i, batch[i])
        /\ \A i \in Items \ keys : SameRecords(s, done, i)
    <2> HIDE DEF batch, keys
    <2> QED BY <1>1, CommitRecords
  <1>4. t = [done EXCEPT !.pendingItemResults =
               [i \in Items |-> IF i \in keys THEN NoResult ELSE s.pendingItemResults[i]]]
    BY DEF FlushPending
  <1>5. /\ t.status = done.status
        /\ t.attemptedItems = done.attemptedItems
        /\ t.itemOutcomes = done.itemOutcomes
        /\ t.attemptCounts = done.attemptCounts
        /\ t.attemptHistory = done.attemptHistory
        /\ t.respondedItems = done.respondedItems
        /\ t.correctItems = done.correctItems
        /\ t.incorrectItems = done.incorrectItems
        /\ t.pendingItemResults =
             [i \in Items |-> IF i \in keys THEN NoResult ELSE s.pendingItemResults[i]]
    <2> HIDE DEF done, t, keys
    <2> QED BY <1>2, <1>4 DEF SessionState
  <1> HIDE DEF done, t
  <1>6. ASSUME NEW i \in keys PROVE SoundAt(t, i)
    <2>1. i \in Items /\ SoundAt(s, i) /\ s.pendingItemResults[i] # NoResult
      BY <1>1 DEF SoundSessions, PendingIn
    <2>2. batch[i] \in Submission
      BY <1>1, <2>1 DEF SessionState
    <2>3. Recorded(s, t, i, batch[i])
      BY <1>3, <1>5, ZenonT(60) DEF Recorded
    <2>4. s.attemptCounts[i] = 0 /\ PartOf[i] \in Simultaneous /\ i \in t.attemptedItems
      BY <1>3, <1>5, <2>1 DEF SoundAt, Provisional
    <2>5. s.attemptCounts[i] = Len(s.attemptHistory[i])
      BY <2>1, Zenon DEF SoundAt, LedgerOf
    <2>6. LedgerOf(t, i)
      BY <1>1, <2>1, <2>2, <2>3, <2>4, <2>5, RecordedLedger
    <2>7. WithinMax(t, i)
      BY <2>3, <2>4 DEF WithinMax, Recorded
    <2>8. Provisional(t, i)
      BY <1>5, <2>1 DEF Provisional
    <2> QED BY <2>6, <2>7, <2>8 DEF SoundAt
  <1>7. ASSUME NEW i \in Items \ keys PROVE SoundAt(t, i)
    <2>1. SoundAt(s, i)
      BY DEF SoundSessions
    <2>2. SameRecords(s, t, i)
      <3>1. t.pendingItemResults[i] = s.pendingItemResults[i]
        BY <1>5
      <3> QED BY <1>3, <1>5, <3>1, Zenon DEF SameRecords
    <2> QED BY <1>3, <1>5, <2>1, <2>2, SameRecordsSound
  <1>8. ASSUME NEW i \in leaving PROVE t.pendingItemResults[i] = NoResult
    BY <1>5 DEF PendingIn
  <1> QED BY <1>1, <1>3, <1>5, <1>6, <1>7, <1>8 DEF SoundSessions, t

\* A change to fields outside the ledger keeps it.
LEMMA FrameSound ==
  ASSUME NEW s \in SoundSessions, NEW t \in SessionState,
         \A i \in Items : SameRecords(s, t, i),
         t.status = "ended" => s.status = "ended"
                                \/ \A i \in Items : s.pendingItemResults[i] = NoResult
  PROVE  t \in SoundSessions
  BY SameRecordsSound DEF SoundSessions

LEMMA TouchStatus ==
  ASSUME NEW s
  PROVE  s \in SessionState => Touch(s).status = s.status
  BY DEF Touch, SessionState

LEMMA TouchSound ==
  ASSUME NEW s \in SoundSessions, clock \in Int
  PROVE  Touch(s) \in SoundSessions
  <1>1. s \in SessionState /\ Touch(s) \in SessionState
    BY TouchType, SMTT(30) DEF SoundSessions
  <1>2. Touch(s).status = s.status /\ \A i \in Items : SameRecords(s, Touch(s), i)
    BY <1>1 DEF Touch, SessionState, SameRecords
  <1> QED BY <1>1, <1>2, FrameSound

LEMMA EndedSound ==
  ASSUME NEW s \in SoundSessions
  PROVE  Ended(s) \in SoundSessions
  <1> DEFINE flushed == FlushPending(s, Items)
  <1>1. flushed \in SoundSessions /\ \A i \in Items : flushed.pendingItemResults[i] = NoResult
    BY FlushPendingSound
  <1>2. flushed \in SessionState /\ Ended(s) \in SessionState
    BY <1>1, EndedType DEF SoundSessions
  <1>3. Ended(s) = [flushed EXCEPT !.status = "ended", !.currentItemKey = NoItem,
                                   !.testOutcomes = RunOutcomeProcessing(flushed)]
    BY DEF Ended
  <1> HIDE DEF flushed
  <1>4. \A i \in Items : SameRecords(flushed, Ended(s), i)
    BY <1>2, <1>3 DEF SessionState, SameRecords
  <1> QED BY <1>1, <1>2, <1>4, FrameSound

LEMMA LeavePartSound ==
  ASSUME NEW s \in SoundSessions, NEW i
  PROVE  LeavePart(s, i) \in SoundSessions
  <1> DEFINE leaving == {j \in Items : PartOf[j] = PartOf[s.currentItemKey]}
             flushed == FlushPending(s, leaving)
             t == [flushed EXCEPT !.testOutcomes = RunOutcomeProcessing(flushed)]
  <1>1. flushed \in SoundSessions
    BY FlushPendingSound
  <1>2. flushed \in SessionState /\ RunOutcomeProcessing(flushed) \in TestOutcomes
    BY <1>1, OutcomeProcessingType DEF SoundSessions
  <1>3. LeavePart(s, i) \in {s, t}
    BY DEF LeavePart
  <1> HIDE DEF flushed
  <1>4. /\ t \in SessionState /\ t.status = flushed.status
        /\ \A j \in Items : SameRecords(flushed, t, j)
    BY <1>2 DEF SessionState, SameRecords
  <1> HIDE DEF t
  <1>5. t \in SoundSessions
    BY <1>1, <1>4, FrameSound
  <1> QED BY <1>3, <1>5

LEMMA MoveToItemSound ==
  ASSUME NEW s \in SoundSessions, NEW i \in Items \cup {NoItem}
  PROVE  MoveToItem(s, i) \in SoundSessions
  <1>1. CASE i = NoItem
    BY <1>1, EndedSound DEF MoveToItem
  <1>2. CASE i # NoItem
    <2> DEFINE left == LeavePart(s, i)
               ready == WithTemplateDefaults(left, i)
    <2>1. i \in Items /\ left \in SoundSessions /\ left \in SessionState
      BY <1>2, LeavePartSound DEF SoundSessions
    <2>2. ready \in SessionState /\ Present(ready, i) \in SessionState
      BY <2>1, WithTemplateDefaultsType, PresentType
    <2> HIDE DEF left
    <2>3. ready.status = left.status /\ \A j \in Items : SameRecords(left, ready, j)
      BY <2>1 DEF WithTemplateDefaults, SessionState, SameRecords
    <2> HIDE DEF ready
    <2>4. /\ Present(ready, i).status = ready.status
          /\ \A j \in Items : SameRecords(ready, Present(ready, i), j)
      BY <2>2 DEF Present, SessionState, SameRecords
    <2>5. ready \in SoundSessions
      BY <2>1, <2>2, <2>3, FrameSound
    <2>6. Present(ready, i) \in SoundSessions
      BY <2>2, <2>4, <2>5, FrameSound
    <2> QED BY <1>2, <2>6 DEF MoveToItem, left, ready
  <1> QED BY <1>1, <1>2

LEMMA ApplyExpiriesSound ==
  ASSUME NEW s \in SoundSessions
  PROVE  ApplyExpiries(s) \in SoundSessions
  <1>1. Ended(s) \in SoundSessions
    BY EndedSound
  <1>2. MoveToItem(s, FirstNavigable(s, s.currentItemKey + 1)) \in SoundSessions
    BY FirstNavigableIsOpen, MoveToItemSound
  <1> QED BY <1>1, <1>2 DEF ApplyExpiries

\* An accepted submission keeps the ledger: a simultaneous part holds it as the
\* item's first, another part commits it while attempts are left.
LEMMA SubmitBodySound ==
  ASSUME NEW s \in SoundSessions, NEW i \in Items, NEW r \in Results, clock \in Int,
         s.status # "ended", ~SubmitRefused(s, i, r)
  PROVE  SubmitBody(s, i, r) \in SoundSessions
  <1> DEFINE entry == [result |-> r, submittedAtMs |-> clock]
             marked == [s EXCEPT !.attemptedItems = @ \cup {i}]
             batch == [j \in {i} |-> entry]
             committed == Commit(marked, batch)
             t == SubmitBody(s, i, r)
  <1>1. /\ s \in SessionState /\ t \in SessionState /\ SoundAt(s, i)
        /\ entry \in Submission /\ entry # NoResult
    BY SubmitBodyType, SubmissionType, ResultAssumption DEF SoundSessions, Submission
  <1> HIDE DEF entry
  <1>2. CASE PartOf[i] \in Simultaneous
    <2>1. t = [s EXCEPT !.pendingItemResults[i] = entry, !.attemptedItems = @ \cup {i}]
      BY <1>2 DEF SubmitBody, entry
    <2>2. ASSUME NEW j \in Items, j # i PROVE SoundAt(t, j)
      <3>1. SoundAt(s, j)
        BY DEF SoundSessions
      <3>2. t.status = s.status /\ SameRecords(s, t, j)
        BY <1>1, <2>1, <2>2 DEF SessionState, SameRecords
      <3> QED BY <3>1, <3>2, SameRecordsSound
    <2>3. SoundAt(t, i)
      <3>1. /\ t.status = s.status
            /\ t.pendingItemResults[i] = entry
            /\ i \in t.attemptedItems
            /\ t.itemOutcomes = s.itemOutcomes
            /\ t.attemptCounts = s.attemptCounts
            /\ t.attemptHistory = s.attemptHistory
            /\ t.respondedItems = s.respondedItems
            /\ t.correctItems = s.correctItems
            /\ t.incorrectItems = s.incorrectItems
        BY <1>1, <2>1 DEF SessionState
      <3>2. s.attemptCounts[i] = 0
        BY <1>1, <1>2 DEF SubmitRefused, SessionState
      <3>3. Len(s.attemptHistory[i]) = 0 /\ s.itemOutcomes[i] = NoResult
        BY <1>1, <3>2, Zenon DEF SoundAt, LedgerOf
      <3> HIDE DEF t
      <3>4. LedgerOf(t, i)
        <4>1. Len(t.attemptHistory[i]) = 0 /\ ~(Len(t.attemptHistory[i]) > 0)
          BY <3>1, <3>3
        <4>2. LedgerOf(s, i)
          BY <1>1 DEF SoundAt
        <4>3. ~(Len(s.attemptHistory[i]) > 0)
          BY <3>3
        <4> QED BY <1>1, <3>1, <3>2, <3>3, <4>1, <4>2, <4>3, Zenon DEF LedgerOf
      <3>5. Provisional(t, i)
        BY <1>2, <3>1, <3>2, <3>3 DEF Provisional
      <3>6. WithinMax(t, i)
        BY <1>2, <3>1, <3>2 DEF WithinMax
      <3> QED BY <3>4, <3>5, <3>6 DEF SoundAt
    <2> QED BY <1>1, <2>2, <2>3 DEF SoundSessions
  <1>3. CASE PartOf[i] \notin Simultaneous
    <2>1. t = [committed EXCEPT !.testOutcomes = RunOutcomeProcessing(committed)]
      BY <1>3 DEF SubmitBody, entry
    <2>2. /\ marked \in SessionState /\ DOMAIN batch = {i}
          /\ \A j \in DOMAIN batch : batch[j] \in Submission
      BY <1>1 DEF SessionState
    <2>3. /\ marked.status = s.status
          /\ marked.pendingItemResults = s.pendingItemResults
          /\ marked.attemptedItems = s.attemptedItems \cup {i}
          /\ marked.itemOutcomes = s.itemOutcomes
          /\ marked.attemptCounts = s.attemptCounts
          /\ marked.attemptHistory = s.attemptHistory
          /\ marked.respondedItems = s.respondedItems
          /\ marked.correctItems = s.correctItems
          /\ marked.incorrectItems = s.incorrectItems
      BY <1>1 DEF SessionState
    <2> HIDE DEF marked
    <2>4. /\ committed \in SessionState
          /\ committed.status = marked.status
          /\ committed.pendingItemResults = marked.pendingItemResults
          /\ committed.attemptedItems = marked.attemptedItems
          /\ Recorded(marked, committed, i, batch[i])
          /\ \A j \in Items \ {i} : SameRecords(marked, committed, j)
      <3> HIDE DEF batch
      <3> QED BY <2>2, CommitType, CommitRecords
    <2> HIDE DEF committed
    <2>5. /\ t.status = committed.status
          /\ t.pendingItemResults = committed.pendingItemResults
          /\ t.attemptedItems = committed.attemptedItems
          /\ t.itemOutcomes = committed.itemOutcomes
          /\ t.attemptCounts = committed.attemptCounts
          /\ t.attemptHistory = committed.attemptHistory
          /\ t.respondedItems = committed.respondedItems
          /\ t.correctItems = committed.correctItems
          /\ t.incorrectItems = committed.incorrectItems
      BY <2>1, <2>4 DEF SessionState
    <2> HIDE DEF t
    <2>6. ASSUME NEW j \in Items, j # i PROVE SoundAt(t, j)
      <3>1. SoundAt(s, j) /\ j \in Items \ {i}
        BY <2>6 DEF SoundSessions
      <3>2. SameRecords(marked, committed, j)
        BY <2>4, <3>1
      <3>3. SameRecords(s, t, j)
        <4>1. j \in marked.attemptedItems <=> j \in s.attemptedItems
          BY <2>3, <2>6
        <4> QED BY <2>3, <2>5, <3>2, <4>1, Zenon DEF SameRecords
      <3> QED BY <2>3, <2>4, <2>5, <3>1, <3>3, SameRecordsSound
    <2>7. SoundAt(t, i)
      <3>1. Recorded(s, t, i, entry)
        BY <2>3, <2>4, <2>5, Zenon DEF Recorded
      <3>2. i \in t.attemptedItems
        BY <2>3, <2>4, <2>5
      <3>3. s.attemptCounts[i] = Len(s.attemptHistory[i])
        BY <1>1, Zenon DEF SoundAt, LedgerOf
      <3>4. LedgerOf(t, i)
        BY <1>1, <3>1, <3>2, <3>3, RecordedLedger
      <3>5. Provisional(t, i)
        BY <1>1, <1>3, <2>3, <2>4, <2>5 DEF SoundAt, Provisional
      <3>6. WithinMax(t, i)
        <4>1. Control[i].maxAttempts \in Nat /\ s.attemptCounts[i] \in Nat
          BY <1>1, PlanAssumption DEF SessionState
        <4>2. t.attemptCounts[i] = s.attemptCounts[i] + 1
          BY <3>1 DEF Recorded
        <4> QED BY <1>3, <4>1, <4>2 DEF SubmitRefused, AttemptsLeft, WithinMax
      <3> QED BY <3>4, <3>5, <3>6 DEF SoundAt
    <2> QED BY <1>1, <2>6, <2>7 DEF SoundSessions, t
  <1> QED BY <1>2, <1>3

LEMMA SubmitItemSound ==
  ASSUME NEW s \in SoundSessions, NEW i \in Items, NEW r \in Results, clock \in Int
  PROVE  SubmitItem(s, i, r) \in SoundSessions
  <1> DEFINE t == Touch(s)
             entry == [itemKey |-> i, scope |-> BarringScope(t, i),
                       atTestSeconds |-> t.seconds[TestScope]]
             late == [t EXCEPT !.rejectedSubmissions = Append(@, entry)]
  <1>1. t \in SoundSessions /\ t \in SessionState /\ t.status = s.status
    BY TouchSound, TouchStatus DEF SoundSessions
  <1>2. ASSUME BarringScopes(t, i) # {} PROVE ApplyExpiries(late) \in SoundSessions
    <2>1. late \in SessionState
      BY <1>1, <1>2, LateType
    <2>2. late.status = t.status /\ \A j \in Items : SameRecords(t, late, j)
      <3> HIDE DEF t, entry
      <3> QED BY <1>1 DEF SessionState, SameRecords
    <2> HIDE DEF late
    <2> QED BY <1>1, <2>1, <2>2, FrameSound, ApplyExpiriesSound
  <1>3. ASSUME s.status = "in-progress", ~SubmitRefused(t, i, r)
        PROVE  ApplyExpiries(SubmitBody(t, i, r)) \in SoundSessions
    BY <1>1, <1>3, SubmitBodySound, ApplyExpiriesSound
  <1> QED BY <1>2, <1>3 DEF SubmitItem

LEMMA NextItemSound ==
  ASSUME NEW s \in SoundSessions, clock \in Int
  PROVE  NextItem(s) \in SoundSessions
  <1> DEFINE t == Touch(s)
  <1>1. t \in SoundSessions /\ t \in SessionState /\ ApplyExpiries(t) \in SoundSessions
    BY TouchSound, ApplyExpiriesSound DEF SoundSessions
  <1>2. ~NextRefused(t) => MoveToItem(t, NextDestination(t)) \in SoundSessions
    <2>1. ~NextRefused(t) => t.currentItemKey # NoItem
      BY DEF NextRefused
    <2> QED BY <1>1, <2>1, NextDestinationType, MoveToItemSound
  <1> QED BY <1>1, <1>2 DEF NextItem, WithTransition

LEMMA StartStateSound ==
  ASSUME clock \in Int
  PROVE  StartState \in SoundSessions
  <1>1. PICK s \in SessionState :
          /\ StartState = MoveToItem(s, FirstNavigable(s, 1))
          /\ s.pendingItemResults = [i \in Items |-> NoResult]
          /\ s.itemOutcomes = [i \in Items |-> NoResult]
          /\ s.attemptCounts = [i \in Items |-> 0]
          /\ s.attemptHistory = [i \in Items |-> <<>>]
          /\ s.attemptedItems = {} /\ s.respondedItems = {}
          /\ s.correctItems = {} /\ s.incorrectItems = {}
    BY StartStateOpens
  <1>2. ASSUME NEW i \in Items PROVE SoundAt(s, i)
    <2>1. Provisional(s, i)
      BY <1>1 DEF Provisional
    <2>2. LedgerOf(s, i)
      BY <1>1 DEF LedgerOf
    <2>3. WithinMax(s, i)
      BY <1>1, PlanAssumption DEF WithinMax
    <2> QED BY <2>1, <2>2, <2>3 DEF SoundAt
  <1>3. s \in SoundSessions
    BY <1>2 DEF SoundSessions
  <1> QED BY <1>1, <1>3, FirstNavigableIsOpen, MoveToItemSound

LEMMA MoveToSound ==
  ASSUME NEW s \in SoundSessions, NEW i \in Items, clock \in Int
  PROVE  MoveTo(s, i) \in SoundSessions
  <1> DEFINE t == Touch(s)
  <1>1. t \in SoundSessions /\ t \in SessionState /\ ApplyExpiries(t) \in SoundSessions
    BY TouchSound, ApplyExpiriesSound DEF SoundSessions
  <1>2. Present(t, i) \in SessionState
    BY <1>1, PresentType
  <1>3. Present(t, i).status = t.status /\ \A j \in Items : SameRecords(t, Present(t, i), j)
    <2> HIDE DEF t
    <2> QED BY <1>1 DEF Present, SessionState, SameRecords
  <1>4. Present(t, i) \in SoundSessions
    BY <1>1, <1>2, <1>3, FrameSound
  <1> QED BY <1>1, <1>4 DEF MoveTo, WithTransition

LEMMA TickClockSound ==
  ASSUME NEW s \in SoundSessions, clock \in Int
  PROVE  TickClock(s) \in SoundSessions
  BY TouchSound, ApplyExpiriesSound DEF TickClock

LEMMA EndTestSound ==
  ASSUME NEW s \in SoundSessions, clock \in Int
  PROVE  EndTest(s) \in SoundSessions
  BY TouchSound, EndedSound DEF EndTest

LEMMA SuspendSound ==
  ASSUME NEW s \in SoundSessions, clock \in Int
  PROVE  Suspend(s) \in SoundSessions
  <1> DEFINE settled == ApplyExpiries(Touch(s))
             parked == [settled EXCEPT !.status = "suspended"]
  <1>1. settled \in SoundSessions /\ settled \in SessionState
    BY TouchSound, ApplyExpiriesSound DEF SoundSessions
  <1> HIDE DEF settled
  <1>2. /\ parked \in SessionState /\ parked.status = "suspended"
        /\ \A j \in Items : SameRecords(settled, parked, j)
    BY <1>1 DEF SessionState, SameRecords
  <1>3. parked \in SoundSessions
    BY <1>1, <1>2, FrameSound
  <1> QED BY <1>1, <1>3 DEF Suspend, settled

LEMMA ResumeSound ==
  ASSUME NEW s \in SoundSessions, clock \in Int
  PROVE  Resume(s) \in SoundSessions
  <1> DEFINE open == [s EXCEPT !.status = "in-progress", !.lastTransitionAtMs = clock]
  <1>1. s \in SessionState
    BY DEF SoundSessions
  <1>2. /\ open \in SessionState /\ open.status = "in-progress"
        /\ \A j \in Items : SameRecords(s, open, j)
    BY <1>1 DEF SessionState, SameRecords
  <1>3. open \in SoundSessions
    BY <1>2, FrameSound
  <1> QED BY <1>3 DEF Resume

LEMMA ReviewSound ==
  ASSUME NEW s \in SoundSessions, NEW i \in Items
  PROVE  Review(s, i) \in SoundSessions
  <1> DEFINE shown == [s EXCEPT !.currentItemKey = i]
  <1>1. s \in SessionState
    BY DEF SoundSessions
  <1>2. /\ shown \in SessionState /\ shown.status = s.status
        /\ \A j \in Items : SameRecords(s, shown, j)
    BY <1>1 DEF SessionState, SameRecords
  <1>3. shown \in SoundSessions
    BY <1>2, FrameSound
  <1> QED BY <1>3 DEF Review

LEMMA SetItemCommentSound ==
  ASSUME NEW s \in SoundSessions, NEW i \in Items
  PROVE  SetItemComment(s, i) \in SoundSessions
  <1> DEFINE noted == [s EXCEPT !.itemComments = @ \cup {i}]
  <1>1. s \in SessionState
    BY DEF SoundSessions
  <1>2. /\ noted \in SessionState /\ noted.status = s.status
        /\ \A j \in Items : SameRecords(s, noted, j)
    BY <1>1 DEF SessionState, SameRecords
  <1>3. noted \in SoundSessions
    BY <1>2, FrameSound
  <1> QED BY <1>3 DEF SetItemComment

LedgerInv == session \in SoundSessions /\ clock \in Int

LEMMA LedgerInvariant == Spec => []LedgerInv
  <1>1. Init => LedgerInv
    BY StartStateSound DEF Init, LedgerInv
  <1>2. LedgerInv /\ [Next]_vars => LedgerInv'
    <2> SUFFICES ASSUME LedgerInv, [Next]_vars PROVE LedgerInv'
      OBVIOUS
    <2>1. session \in SoundSessions /\ clock \in Int
      BY DEF LedgerInv
    <2>2. ASSUME NEW s \in SoundSessions, session' = s, clock' \in Int PROVE LedgerInv'
      BY <2>2 DEF LedgerInv, SoundSessions, SoundAt, Provisional, LedgerOf, WithinMax,
                  LastAttempt, SessionState
    <2>3. ASSUME NEW s \in SoundSessions, Becomes(s) PROVE LedgerInv'
      BY <2>1, <2>2, <2>3 DEF Becomes
    <2>4. CASE DoMoveTo
      BY <2>1, <2>3, <2>4, MoveToSound DEF DoMoveTo
    <2>5. CASE DoNext
      BY <2>1, <2>3, <2>5, NextItemSound DEF DoNext
    <2>6. CASE DoSubmit
      BY <2>1, <2>3, <2>6, SubmitItemSound DEF DoSubmit
    <2>7. CASE DoEnd
      BY <2>1, <2>3, <2>7, EndTestSound DEF DoEnd
    <2>8. CASE DoTick
      BY <2>1, <2>3, <2>8, TickClockSound DEF DoTick
    <2>9. CASE DoSuspend
      BY <2>1, <2>3, <2>9, SuspendSound DEF DoSuspend
    <2>10. CASE DoResume
      BY <2>1, <2>3, <2>10, ResumeSound DEF DoResume
    <2>11. CASE DoReview
      BY <2>1, <2>3, <2>11, ReviewSound DEF DoReview
    <2>12. CASE DoComment
      BY <2>1, <2>3, <2>12, SetItemCommentSound DEF DoComment
    <2>13. CASE AdvanceClock
      BY <2>1, <2>2, <2>13, TimeAssumption DEF AdvanceClock
    <2>14. CASE UNCHANGED vars
      BY <2>1, <2>2, <2>14 DEF vars
    <2> QED BY <2>4, <2>5, <2>6, <2>7, <2>8, <2>9, <2>10, <2>11, <2>12, <2>13, <2>14 DEF Next
  <1> QED BY <1>1, <1>2, PTL DEF Spec

\* Counts, outcomes, flags and history agree after every transition, and a held
\* result stays provisional until the commit that spends the attempt.
THEOREM LedgerIsConsistent == Spec => []LedgerAgrees
  <1>1. LedgerInv => LedgerAgrees
    BY DEF LedgerInv, SoundSessions, SoundAt, LedgerAgrees
  <1> QED BY <1>1, LedgerInvariant, PTL

\* The attempt limits hold for every plan and every order of calls.
THEOREM AttemptLimitsHold == Spec => []WithinMaxAttempts
  <1>1. LedgerInv => WithinMaxAttempts
    BY DEF LedgerInv, SoundSessions, SoundAt, WithinMaxAttempts
  <1> QED BY <1>1, LedgerInvariant, PTL

(***************************************************************************)
(* Time.  Only the fold of the clock writes the recorded seconds, so where *)
(* an item is open when it is chosen it is open when it is presented.      *)
(***************************************************************************)

LEMMA FlushKeepsSeconds ==
  ASSUME NEW s \in SessionState, NEW leaving, leaving \subseteq Items
  PROVE  LET t == FlushPending(s, leaving)
         IN /\ t.seconds = s.seconds
            /\ t.presentedItems = s.presentedItems
            /\ t.currentItemKey = s.currentItemKey
            /\ t.status = s.status
            /\ t.lastTransitionAtMs = s.lastTransitionAtMs
  <1> DEFINE keys == PendingIn(s, leaving)
             done == Commit(s, [i \in keys |-> s.pendingItemResults[i]])
             pending == [i \in Items |-> IF i \in keys THEN NoResult
                                         ELSE s.pendingItemResults[i]]
  <1>1. /\ done.seconds = s.seconds
        /\ done.presentedItems = s.presentedItems
        /\ done.currentItemKey = s.currentItemKey
        /\ done.status = s.status
        /\ done.lastTransitionAtMs = s.lastTransitionAtMs
    BY DEF Commit, SessionState
  <1>2. FlushPending(s, leaving) = [done EXCEPT !.pendingItemResults = pending]
    BY DEF FlushPending
  <1> HIDE DEF pending
  <1>3. /\ FlushPending(s, leaving).seconds = done.seconds
        /\ FlushPending(s, leaving).presentedItems = done.presentedItems
        /\ FlushPending(s, leaving).currentItemKey = done.currentItemKey
        /\ FlushPending(s, leaving).status = done.status
        /\ FlushPending(s, leaving).lastTransitionAtMs = done.lastTransitionAtMs
    BY <1>2 DEF Commit, SessionState
  <1> QED BY <1>1, <1>3

LEMMA EndedKeepsSeconds ==
  ASSUME NEW s \in SessionState
  PROVE  Ended(s).seconds = s.seconds /\ Ended(s).status = "ended"
  <1> DEFINE flushed == FlushPending(s, Items)
  <1>1. flushed \in SessionState /\ flushed.seconds = s.seconds
    BY FlushPendingType, FlushKeepsSeconds
  <1>2. Ended(s) = [flushed EXCEPT !.status = "ended", !.currentItemKey = NoItem,
                                   !.testOutcomes = RunOutcomeProcessing(flushed)]
    BY DEF Ended
  <1> HIDE DEF flushed
  <1> QED BY <1>1, <1>2 DEF SessionState

LEMMA MoveToItemLands ==
  ASSUME NEW s \in SessionState, NEW i \in Items \cup {NoItem}
  PROVE  /\ MoveToItem(s, i).seconds = s.seconds
         /\ i = NoItem => MoveToItem(s, i).status = "ended"
         /\ i # NoItem => /\ MoveToItem(s, i).status = s.status
                          /\ MoveToItem(s, i).currentItemKey = i
                          /\ i \in MoveToItem(s, i).presentedItems
                          /\ MoveToItem(s, i).lastTransitionAtMs = s.lastTransitionAtMs
  <1>1. CASE i = NoItem
    BY <1>1, EndedKeepsSeconds DEF MoveToItem
  <1>2. CASE i # NoItem
    <2> DEFINE leaving == {j \in Items : PartOf[j] = PartOf[s.currentItemKey]}
               flushed == FlushPending(s, leaving)
               closed == [flushed EXCEPT !.testOutcomes = RunOutcomeProcessing(flushed)]
               left == LeavePart(s, i)
               ready == WithTemplateDefaults(left, i)
    <2>1. i \in Items /\ left \in SessionState
      BY <1>2, LeavePartType
    <2>2. /\ left.seconds = s.seconds /\ left.status = s.status
          /\ left.lastTransitionAtMs = s.lastTransitionAtMs
      <3>1. /\ flushed \in SessionState
            /\ flushed.seconds = s.seconds /\ flushed.status = s.status
            /\ flushed.lastTransitionAtMs = s.lastTransitionAtMs
        BY FlushPendingType, FlushKeepsSeconds
      <3>2. left \in {s, closed}
        BY DEF LeavePart
      <3> HIDE DEF flushed, left
      <3>3. /\ closed.seconds = flushed.seconds /\ closed.status = flushed.status
            /\ closed.lastTransitionAtMs = flushed.lastTransitionAtMs
        BY <3>1 DEF SessionState
      <3> QED BY <3>1, <3>2, <3>3
    <2> HIDE DEF left
    <2>3. /\ ready \in SessionState
          /\ ready.seconds = left.seconds /\ ready.status = left.status
          /\ ready.lastTransitionAtMs = left.lastTransitionAtMs
      BY <2>1, WithTemplateDefaultsType DEF WithTemplateDefaults, SessionState
    <2> HIDE DEF ready
    <2>4. /\ Present(ready, i).seconds = ready.seconds
          /\ Present(ready, i).status = ready.status
          /\ Present(ready, i).currentItemKey = i
          /\ i \in Present(ready, i).presentedItems
          /\ Present(ready, i).lastTransitionAtMs = ready.lastTransitionAtMs
      BY <2>3 DEF Present, SessionState
    <2>5. MoveToItem(s, i) = Present(ready, i)
      BY <1>2 DEF MoveToItem, ready, left
    <2> QED BY <1>2, <2>2, <2>3, <2>4, <2>5
  <1> QED BY <1>1, <1>2

\* Settling expiries leaves an open session on an item still open, if it stood
\* on a presented one.
LEMMA ApplyExpiriesLands ==
  ASSUME NEW s \in SessionState
  PROVE  /\ ApplyExpiries(s).seconds = s.seconds
         /\ s.status = "in-progress" /\ s.currentItemKey \in s.presentedItems
              => InTime(ApplyExpiries(s))
         /\ s.status # "in-progress" => ApplyExpiries(s) = s
         /\ \/ ApplyExpiries(s).status = "ended"
            \/ ApplyExpiries(s).lastTransitionAtMs = s.lastTransitionAtMs
  <1> DEFINE k == FirstNavigable(s, s.currentItemKey + 1)
  <1>1. k \in Items \cup {NoItem} /\ (k # NoItem => NavigableInTime(s, k))
    BY FirstNavigableIsOpen
  <1>2. s.currentItemKey \in s.presentedItems => s.currentItemKey # NoItem
    BY DEF SessionState, Items, NoItem
  <1>3. /\ MoveToItem(s, k).seconds = s.seconds
        /\ InTime(MoveToItem(s, k))
        /\ \/ MoveToItem(s, k).status = "ended"
           \/ MoveToItem(s, k).lastTransitionAtMs = s.lastTransitionAtMs
    <2> HIDE DEF k
    <2>1. k # NoItem => NavigableInTime(MoveToItem(s, k), k)
      BY <1>1, MoveToItemLands DEF NavigableInTime, ScopeExpired
    <2> QED BY <1>1, <2>1, MoveToItemLands DEF InTime
  <1>4. Ended(s).seconds = s.seconds /\ InTime(Ended(s)) /\ Ended(s).status = "ended"
    BY EndedKeepsSeconds DEF InTime
  <1> HIDE DEF k
  <1>5. ApplyExpiries(s) \in {s, Ended(s), MoveToItem(s, k)}
    BY DEF ApplyExpiries, k
  <1>6. s.status = "in-progress" /\ s.currentItemKey \in s.presentedItems
          => \/ ApplyExpiries(s) \in {Ended(s), MoveToItem(s, k)}
             \/ ApplyExpiries(s) = s /\ NavigableInTime(s, s.currentItemKey)
    BY <1>2 DEF ApplyExpiries, k
  <1>7. s.status # "in-progress" => ApplyExpiries(s) = s
    BY DEF ApplyExpiries
  <1> QED BY <1>3, <1>4, <1>5, <1>6, <1>7 DEF InTime

LEMMA TouchKeeps ==
  ASSUME NEW s \in SessionState, clock \in Int
  PROVE  /\ Touch(s).status = s.status
         /\ Touch(s).currentItemKey = s.currentItemKey
         /\ Touch(s).presentedItems = s.presentedItems
         /\ \A c \in Scopes : Touch(s).seconds[c] >= s.seconds[c]
         /\ s.status = "in-progress" => Touch(s).lastTransitionAtMs = clock
  <1> DEFINE secs == [c \in Scopes |-> IF c \in RunningScopes(s)
                                        THEN s.seconds[c] + Elapsed(s)
                                        ELSE s.seconds[c]]
  <1>1. Elapsed(s) \in Nat /\ s.seconds \in [Scopes -> Nat]
    BY DEF Elapsed, SessionState
  <1>2. \A c \in Scopes : secs[c] >= s.seconds[c]
    BY <1>1
  <1>3. Touch(s) = IF s.status # "in-progress" THEN s
                   ELSE [s EXCEPT !.lastTransitionAtMs = clock, !.seconds = secs]
    BY DEF Touch
  <1>4. \A c \in Scopes : s.seconds[c] >= s.seconds[c]
    BY <1>1
  <1> HIDE DEF secs
  <1>5. /\ [s EXCEPT !.lastTransitionAtMs = clock, !.seconds = secs].seconds = secs
        /\ Touch(s).status = s.status
        /\ Touch(s).currentItemKey = s.currentItemKey
        /\ Touch(s).presentedItems = s.presentedItems
        /\ s.status = "in-progress" => Touch(s).lastTransitionAtMs = clock
    BY <1>3 DEF SessionState
  <1> QED BY <1>2, <1>3, <1>4, <1>5

LEMMA SubmitBodyKeeps ==
  ASSUME NEW s \in SessionState, NEW i \in Items, NEW r \in Results
  PROVE  /\ SubmitBody(s, i, r).status = s.status
         /\ SubmitBody(s, i, r).currentItemKey = s.currentItemKey
         /\ SubmitBody(s, i, r).presentedItems = s.presentedItems
         /\ SubmitBody(s, i, r).seconds = s.seconds
         /\ SubmitBody(s, i, r).lastTransitionAtMs = s.lastTransitionAtMs
  BY DEF SubmitBody, Commit, SessionState

LEMMA SubmitItemInTime ==
  ASSUME NEW s \in SessionState, NEW i \in Items, NEW r \in Results, clock \in Int, InTime(s)
  PROVE  InTime(SubmitItem(s, i, r))
  <1> DEFINE t == Touch(s)
             late == [t EXCEPT !.rejectedSubmissions = Append(@,
                        [itemKey |-> i, scope |-> BarringScope(t, i),
                         atTestSeconds |-> t.seconds[TestScope]])]
  <1>1. t \in SessionState
    BY TouchType
  <1> SUFFICES ASSUME s.status = "in-progress" PROVE InTime(SubmitItem(s, i, r))
    BY DEF SubmitItem
  <1>2. t.status = "in-progress" /\ t.currentItemKey \in t.presentedItems
    BY TouchKeeps DEF InTime
  <1> HIDE DEF t
  <1>3. CASE BarringScopes(t, i) # {}
    <2>1. late \in SessionState
      BY <1>1, <1>3, LateType
    <2>2. /\ late.status = "in-progress"
          /\ late.currentItemKey \in late.presentedItems
      BY <1>1, <1>2 DEF SessionState
    <2> HIDE DEF late
    <2>3. InTime(ApplyExpiries(late))
      BY <2>1, <2>2, ApplyExpiriesLands
    <2> QED BY <1>3, <2>3 DEF SubmitItem, late, t
  <1>4. CASE BarringScopes(t, i) = {}
    <2>1. InTime(ApplyExpiries(SubmitBody(t, i, r)))
      BY <1>1, <1>2, SubmitBodyType, SubmitBodyKeeps, ApplyExpiriesLands
    <2> QED BY <1>4, <2>1 DEF SubmitItem, t
  <1> QED BY <1>3, <1>4

LEMMA NextDestinationIsOpen ==
  ASSUME NEW s \in SessionState, s.currentItemKey # NoItem, NextDestination(s) # NoItem
  PROVE  NavigableInTime(s, NextDestination(s))
  <1> DEFINE i == s.currentItemKey
             rule(k) == BranchRules[i][k]
             Open(d) == d # NoItem => NavigableInTime(s, d)
  <1>1. \A k : Open(FirstNavigable(s, k))
    BY FirstNavigableIsOpen
  <1>2. ASSUME NEW k \in FiringRules(s, i) PROVE Open(BranchDestination(s, i, rule(k)))
    <2>1. rule(k).kind \in {"EXIT_TEST", "EXIT_TESTPART", "EXIT_SECTION", "item", "instances"}
      BY PlanAssumption DEF FiringRules, SessionState
    <2> QED BY <1>1, <2>1 DEF BranchDestination
  <1>3. FiringRules(s, i) # {} => Min(FiringRules(s, i)) \in FiringRules(s, i)
    <2>1. FiringRules(s, i) \subseteq Nat
      BY DEF FiringRules
    <2> QED BY <2>1, MinOfPositions
  <1> QED BY <1>1, <1>2, <1>3 DEF NextDestination

LEMMA NextItemInTime ==
  ASSUME NEW s \in SessionState, clock \in Int, InTime(s)
  PROVE  InTime(NextItem(s))
  <1> DEFINE t == Touch(s)
             k == NextDestination(t)
  <1>1. t \in SessionState
    BY TouchType
  <1> SUFFICES ASSUME s.status = "in-progress" PROVE InTime(NextItem(s))
    BY DEF NextItem, WithTransition
  <1>2. t.status = "in-progress" /\ t.currentItemKey \in t.presentedItems
    BY TouchKeeps DEF InTime
  <1>3. InTime(ApplyExpiries(t))
    BY <1>1, <1>2, ApplyExpiriesLands
  <1>4. ASSUME ~NextRefused(t) PROVE InTime(MoveToItem(t, k))
    <2>1. t.currentItemKey # NoItem
      BY <1>4 DEF NextRefused
    <2> HIDE DEF t
    <2>2. k \in Items \cup {NoItem} /\ (k # NoItem => NavigableInTime(t, k))
      BY <1>1, <2>1, NextDestinationType, NextDestinationIsOpen
    <2> HIDE DEF k
    <2>3. k # NoItem => NavigableInTime(MoveToItem(t, k), k)
      BY <1>1, <2>2, MoveToItemLands DEF NavigableInTime, ScopeExpired
    <2> QED BY <1>1, <2>2, <2>3, MoveToItemLands DEF InTime
  <1> QED BY <1>3, <1>4 DEF NextItem, WithTransition

LEMMA MoveToInTime ==
  ASSUME NEW s \in SessionState, NEW i \in Items, clock \in Int, InTime(s)
  PROVE  InTime(MoveTo(s, i))
  <1> DEFINE t == Touch(s)
  <1>1. t \in SessionState
    BY TouchType
  <1> SUFFICES ASSUME s.status = "in-progress" PROVE InTime(MoveTo(s, i))
    BY DEF MoveTo, WithTransition
  <1>2. t.status = "in-progress" /\ t.currentItemKey \in t.presentedItems
    BY TouchKeeps DEF InTime
  <1>3. InTime(ApplyExpiries(t))
    BY <1>1, <1>2, ApplyExpiriesLands
  <1>4. ASSUME ~MoveToRefused(t, i) PROVE InTime(Present(t, i))
    <2>1. NavigableInTime(t, i)
      BY <1>4 DEF MoveToRefused
    <2> HIDE DEF t
    <2>2. /\ Present(t, i).seconds = t.seconds
          /\ Present(t, i).currentItemKey = i
          /\ i \in Present(t, i).presentedItems
      BY <1>1 DEF Present, SessionState
    <2> QED BY <2>1, <2>2 DEF InTime, NavigableInTime, ScopeExpired
  <1> QED BY <1>3, <1>4 DEF MoveTo, WithTransition

LEMMA StartStateInTime ==
  ASSUME clock \in Int
  PROVE  InTime(StartState)
  <1>1. PICK s \in SessionState : /\ s.status = "in-progress"
                                 /\ StartState = MoveToItem(s, FirstNavigable(s, 1))
    BY StartStateOpens
  <1> DEFINE k == FirstNavigable(s, 1)
  <1>2. k \in Items \cup {NoItem} /\ (k # NoItem => NavigableInTime(s, k))
    BY FirstNavigableIsOpen
  <1> HIDE DEF k
  <1>3. k # NoItem => NavigableInTime(MoveToItem(s, k), k)
    BY <1>2, MoveToItemLands DEF NavigableInTime, ScopeExpired
  <1>4. InTime(MoveToItem(s, k))
    BY <1>2, <1>3, MoveToItemLands DEF InTime
  <1> QED BY <1>1, <1>4 DEF k

LEMMA TickClockInTime ==
  ASSUME NEW s \in SessionState, clock \in Int, InTime(s)
  PROVE  /\ InTime(TickClock(s))
         /\ s.status = "in-progress" => InTime(ApplyExpiries(Touch(s)))
  <1> DEFINE t == Touch(s)
  <1>1. t \in SessionState
    BY TouchType
  <1>2. s.status = "in-progress" => t.status = "in-progress" /\ t.currentItemKey \in t.presentedItems
    BY TouchKeeps DEF InTime
  <1> HIDE DEF t
  <1>3. s.status = "in-progress" => InTime(ApplyExpiries(t))
    BY <1>1, <1>2, ApplyExpiriesLands
  <1> QED BY <1>3 DEF TickClock, t

LEMMA EndTestInTime ==
  ASSUME NEW s \in SessionState, clock \in Int, InTime(s)
  PROVE  InTime(EndTest(s))
  <1>1. InTime(Ended(Touch(s)))
    BY TouchType, EndedKeepsSeconds DEF InTime
  <1> QED BY <1>1 DEF EndTest

LEMMA SuspendInTime ==
  ASSUME NEW s \in SessionState, clock \in Int, InTime(s)
  PROVE  InTime(Suspend(s))
  <1> DEFINE settled == ApplyExpiries(Touch(s))
             parked == [settled EXCEPT !.status = "suspended"]
  <1>1. settled \in SessionState
    BY TouchType, ApplyExpiriesType
  <1>2. s.status = "in-progress" => InTime(settled)
    BY TickClockInTime
  <1>3. settled.status = "in-progress" /\ InTime(settled) => InTime(parked)
    <2> HIDE DEF settled
    <2>1. /\ parked.currentItemKey = settled.currentItemKey
          /\ parked.presentedItems = settled.presentedItems
          /\ parked.seconds = settled.seconds
      BY <1>1 DEF SessionState
    <2> HIDE DEF parked
    <2> QED BY <2>1 DEF InTime, NavigableInTime, ScopeExpired
  <1> QED BY <1>2, <1>3 DEF Suspend

LEMMA ResumeInTime ==
  ASSUME NEW s \in SessionState, InTime(s)
  PROVE  InTime(Resume(s))
  <1> DEFINE open == [s EXCEPT !.status = "in-progress", !.lastTransitionAtMs = clock]
  <1>1. /\ open.currentItemKey = s.currentItemKey
        /\ open.presentedItems = s.presentedItems
        /\ open.seconds = s.seconds
    BY DEF SessionState
  <1> HIDE DEF open
  <1>2. s.status = "suspended" => InTime(open)
    BY <1>1 DEF InTime, NavigableInTime, ScopeExpired
  <1> QED BY <1>2 DEF Resume, open

LEMMA ReviewInTime ==
  ASSUME NEW s \in SessionState, NEW i \in Items, InTime(s)
  PROVE  InTime(Review(s, i))
  <1>1. [s EXCEPT !.currentItemKey = i].status = s.status
    BY DEF SessionState
  <1> QED BY <1>1 DEF Review, InTime

LEMMA SetItemCommentInTime ==
  ASSUME NEW s \in SessionState, NEW i \in Items, InTime(s)
  PROVE  InTime(SetItemComment(s, i))
  <1> DEFINE noted == [s EXCEPT !.itemComments = @ \cup {i}]
  <1>1. /\ noted.status = s.status
        /\ noted.currentItemKey = s.currentItemKey
        /\ noted.presentedItems = s.presentedItems
        /\ noted.seconds = s.seconds
    BY DEF SessionState
  <1> HIDE DEF noted
  <1>2. InTime(noted)
    BY <1>1 DEF InTime, NavigableInTime, ScopeExpired
  <1> QED BY <1>2 DEF SetItemComment, noted

\* No order of moves, submissions, forced moves and suspensions leaves an open
\* session on an item whose time is spent.
THEOREM CurrentStaysInTime == Spec => []CurrentInTime
  <1>1. Init => CurrentInTime
    BY StartStateInTime DEF Init, CurrentInTime
  <1>2. TypeOK /\ CurrentInTime /\ [Next]_vars => CurrentInTime'
    <2> SUFFICES ASSUME TypeOK, CurrentInTime, [Next]_vars PROVE InTime(session')
      BY DEF CurrentInTime, InTime, NavigableInTime, ScopeExpired
    <2>1. session \in SessionState /\ clock \in Int /\ InTime(session)
      BY DEF TypeOK, CurrentInTime
    <2>2. CASE DoMoveTo
      BY <2>1, <2>2, MoveToInTime DEF DoMoveTo, Becomes
    <2>3. CASE DoNext
      BY <2>1, <2>3, NextItemInTime DEF DoNext, Becomes
    <2>4. CASE DoSubmit
      BY <2>1, <2>4, SubmitItemInTime DEF DoSubmit, Becomes
    <2>5. CASE DoEnd
      BY <2>1, <2>5, EndTestInTime DEF DoEnd, Becomes
    <2>6. CASE DoTick
      BY <2>1, <2>6, TickClockInTime DEF DoTick, Becomes
    <2>7. CASE DoSuspend
      BY <2>1, <2>7, SuspendInTime DEF DoSuspend, Becomes
    <2>8. CASE DoResume
      BY <2>1, <2>8, ResumeInTime DEF DoResume, Becomes
    <2>9. CASE DoReview
      BY <2>1, <2>9, ReviewInTime DEF DoReview, Becomes
    <2>10. CASE DoComment
      BY <2>1, <2>10, SetItemCommentInTime DEF DoComment, Becomes
    <2>11. CASE AdvanceClock
      BY <2>1, <2>11 DEF AdvanceClock
    <2>12. CASE UNCHANGED vars
      BY <2>1, <2>12 DEF vars
    <2> QED BY <2>2, <2>3, <2>4, <2>5, <2>6, <2>7, <2>8, <2>9, <2>10, <2>11, <2>12 DEF Next
  <1> QED BY <1>1, <1>2, TypeCorrect, PTL DEF Spec

\* Nothing a consumer can call changes an ended session, review aside.
THEOREM EndedStaysFinal == Spec => EndedIsFinal
  <1>1. TypeOK /\ [Next]_vars =>
          [session.status = "ended" =>
             LET i == session'.currentItemKey
             IN /\ session' = [session EXCEPT !.currentItemKey = i]
                /\ i \in session.presentedItems /\ Control[i].allowReview]_session
    <2> SUFFICES ASSUME TypeOK, [Next]_vars, session.status = "ended", session' # session
                 PROVE  LET i == session'.currentItemKey
                        IN /\ session' = [session EXCEPT !.currentItemKey = i]
                           /\ i \in session.presentedItems /\ Control[i].allowReview
      OBVIOUS
    <2>1. session \in SessionState
      BY DEF TypeOK
    <2>2. ~DoMoveTo /\ ~DoNext /\ ~DoSubmit /\ ~DoEnd /\ ~DoTick /\ ~DoSuspend /\ ~DoResume
          /\ ~DoComment /\ ~AdvanceClock /\ ~UNCHANGED vars
      BY DEF DoMoveTo, DoNext, DoSubmit, DoEnd, DoTick, DoSuspend, DoResume, DoComment,
             AdvanceClock, vars, Becomes, MoveTo, NextItem, WithTransition, SubmitItem, EndTest,
             TickClock, Suspend, Resume, SetItemComment
    <2>3. PICK i \in Items : session' = Review(session, i)
      BY <2>2 DEF Next, DoReview, Becomes
    <2>4. /\ session' = [session EXCEPT !.currentItemKey = i]
          /\ Control[i].allowReview /\ i \in session.presentedItems
      BY <2>3 DEF Review
    <2>5. session'.currentItemKey = i
      BY <2>1, <2>4 DEF SessionState
    <2> QED BY <2>4, <2>5
  <1> QED BY <1>1, TypeCorrect, PTL DEF Spec, EndedIsFinal

(***************************************************************************)
(* Recorded time.  A transition leaves the seconds as they were or folds   *)
(* the clock into them once.                                               *)
(***************************************************************************)

FoldsAtMostOnce(s, t) == t.seconds = s.seconds \/ t.seconds = Touch(s).seconds

LEMMA SubmitItemFolds ==
  ASSUME NEW s \in SessionState, NEW i \in Items, NEW r \in Results, clock \in Int
  PROVE  FoldsAtMostOnce(s, SubmitItem(s, i, r))
  <1> DEFINE t == Touch(s)
             late == [t EXCEPT !.rejectedSubmissions = Append(@,
                        [itemKey |-> i, scope |-> BarringScope(t, i),
                         atTestSeconds |-> t.seconds[TestScope]])]
  <1>1. t \in SessionState
    BY TouchType
  <1> HIDE DEF t
  <1>2. ASSUME BarringScopes(t, i) # {} PROVE ApplyExpiries(late).seconds = t.seconds
    <2>1. late \in SessionState
      BY <1>1, <1>2, LateType
    <2>2. late.seconds = t.seconds
      BY <1>1 DEF SessionState
    <2> HIDE DEF late
    <2> QED BY <2>1, <2>2, ApplyExpiriesLands
  <1>3. ApplyExpiries(SubmitBody(t, i, r)).seconds = t.seconds
    BY <1>1, SubmitBodyType, SubmitBodyKeeps, ApplyExpiriesLands
  <1>4. SubmitItem(s, i, r) \in {s, ApplyExpiries(SubmitBody(t, i, r))}
          \/ (BarringScopes(t, i) # {} /\ SubmitItem(s, i, r) = ApplyExpiries(late))
    BY DEF SubmitItem, t
  <1> HIDE DEF late
  <1> QED BY <1>2, <1>3, <1>4 DEF FoldsAtMostOnce, t

LEMMA MovesFold ==
  ASSUME NEW s \in SessionState, clock \in Int
  PROVE  FoldsAtMostOnce(s, NextItem(s)) /\ \A i \in Items : FoldsAtMostOnce(s, MoveTo(s, i))
  <1> DEFINE t == Touch(s)
             k == NextDestination(t)
  <1>1. t \in SessionState
    BY TouchType
  <1> HIDE DEF t
  <1>2. ApplyExpiries(t).seconds = t.seconds
    BY <1>1, ApplyExpiriesLands
  <1>3. \A i \in Items : Present(t, i).seconds = t.seconds
    BY <1>1 DEF Present, SessionState
  <1>4. \A i \in Items : MoveTo(s, i) \in {s, ApplyExpiries(t), Present(t, i)}
    BY DEF MoveTo, WithTransition, t
  <1>5. ~NextRefused(t) => MoveToItem(t, k).seconds = t.seconds
    <2>1. ~NextRefused(t) => k \in Items \cup {NoItem}
      BY <1>1, NextDestinationType DEF NextRefused
    <2> HIDE DEF k
    <2> QED BY <1>1, <2>1, MoveToItemLands
  <1>6. \/ NextItem(s) \in {s, ApplyExpiries(t)}
        \/ ~NextRefused(t) /\ NextItem(s) = MoveToItem(t, k)
    BY DEF NextItem, WithTransition, t
  <1> HIDE DEF k
  <1> QED BY <1>2, <1>3, <1>4, <1>5, <1>6 DEF FoldsAtMostOnce, t

LEMMA OthersFold ==
  ASSUME NEW s \in SessionState, clock \in Int
  PROVE  /\ FoldsAtMostOnce(s, EndTest(s)) /\ FoldsAtMostOnce(s, TickClock(s))
         /\ FoldsAtMostOnce(s, Suspend(s)) /\ FoldsAtMostOnce(s, Resume(s))
         /\ \A i \in Items : /\ FoldsAtMostOnce(s, Review(s, i))
                             /\ FoldsAtMostOnce(s, SetItemComment(s, i))
  <1> DEFINE t == Touch(s)
             settled == ApplyExpiries(t)
  <1>1. t \in SessionState /\ settled \in SessionState
    BY TouchType, ApplyExpiriesType
  <1>2. settled.seconds = t.seconds /\ Ended(t).seconds = t.seconds
    BY <1>1, ApplyExpiriesLands, EndedKeepsSeconds
  <1>3. /\ EndTest(s) \in {s, Ended(t)}
        /\ TickClock(s) \in {s, settled}
        /\ Suspend(s) \in {s, settled, [settled EXCEPT !.status = "suspended"]}
    BY DEF EndTest, TickClock, Suspend
  <1> HIDE DEF settled, t
  <1>4. [settled EXCEPT !.status = "suspended"].seconds = settled.seconds
    BY <1>1 DEF SessionState
  <1>5. /\ [s EXCEPT !.status = "in-progress", !.lastTransitionAtMs = clock].seconds = s.seconds
        /\ \A i \in Items : /\ [s EXCEPT !.currentItemKey = i].seconds = s.seconds
                           /\ [s EXCEPT !.itemComments = @ \cup {i}].seconds = s.seconds
    BY DEF SessionState
  <1> QED BY <1>2, <1>3, <1>4, <1>5 DEF FoldsAtMostOnce, Resume, Review, SetItemComment, t

LEMMA StepFolds ==
  ASSUME TypeOK, [Next]_vars
  PROVE  UNCHANGED session \/ FoldsAtMostOnce(session, session')
  <1>1. session \in SessionState /\ clock \in Int
    BY DEF TypeOK
  <1>2. CASE DoMoveTo
    BY <1>1, <1>2, MovesFold DEF DoMoveTo, Becomes
  <1>3. CASE DoNext
    BY <1>1, <1>3, MovesFold DEF DoNext, Becomes
  <1>4. CASE DoSubmit
    BY <1>1, <1>4, SubmitItemFolds DEF DoSubmit, Becomes
  <1>5. CASE AdvanceClock \/ UNCHANGED vars
    BY <1>5 DEF AdvanceClock, vars
  <1>6. CASE DoEnd \/ DoTick \/ DoSuspend \/ DoResume \/ DoReview \/ DoComment
    BY <1>1, <1>6, OthersFold
       DEF DoEnd, DoTick, DoSuspend, DoResume, DoReview, DoComment, Becomes
  <1> QED BY <1>2, <1>3, <1>4, <1>5, <1>6 DEF Next

\* No call takes recorded time away from any scope, wherever the injected clock
\* has gone meanwhile.
THEOREM TimeOnlyAccrues == Spec => TimeNeverDecreases
  <1>1. TypeOK /\ [Next]_vars =>
          [\A c \in Scopes : session'.seconds[c] >= session.seconds[c]]_session
    <2> SUFFICES ASSUME TypeOK, [Next]_vars
                 PROVE  \/ \A c \in Scopes : session'.seconds[c] >= session.seconds[c]
                        \/ UNCHANGED session
      OBVIOUS
    <2>1. session \in SessionState /\ clock \in Int
      BY DEF TypeOK
    <2>2. UNCHANGED session \/ FoldsAtMostOnce(session, session')
      BY StepFolds
    <2>3. \A c \in Scopes : Touch(session).seconds[c] >= session.seconds[c]
      BY <2>1, TouchKeeps
    <2>4. \A c \in Scopes : session.seconds[c] >= session.seconds[c]
      BY <2>1 DEF SessionState
    <2> QED BY <2>2, <2>3, <2>4 DEF FoldsAtMostOnce
  <1> QED BY <1>1, TypeCorrect, PTL DEF Spec, TimeNeverDecreases

(***************************************************************************)
(* Direction.  A search starts at or after the place it is given, so only  *)
(* the target of a branch rule can lie behind the candidate.               *)
(***************************************************************************)

\* Every plain target of a branch rule comes after the item that carries it.
ForwardRules ==
  \A i \in Items : \A k \in 1 .. Len(BranchRules[i]) :
    /\ BranchRules[i][k].to \subseteq Items
    /\ BranchRules[i][k].kind = "item" => \A j \in BranchRules[i][k].to : j > i

Onward(s, t) ==
  (t.status # "ended" /\ PartOf[s.currentItemKey] \in Linear)
    => t.currentItemKey >= s.currentItemKey

LEMMA PositionIsNat ==
  ASSUME NEW s \in SessionState
  PROVE  s.currentItemKey \in Nat
  <1>1. s.currentItemKey \in Items \cup {NoItem}
    BY DEF SessionState
  <1> QED BY <1>1, PlanAssumption DEF Items, NoItem

LEMMA NextDestinationIsAhead ==
  ASSUME ForwardRules, NEW s \in SessionState, s.currentItemKey # NoItem
  PROVE  NextDestination(s) = NoItem \/ NextDestination(s) > s.currentItemKey
  <1> DEFINE i == s.currentItemKey
             rule(k) == BranchRules[i][k]
             Ahead(d) == d = NoItem \/ d > i
  <1>1. i \in Items /\ i \in Nat /\ ItemCount \in Nat /\ i <= ItemCount
    BY PlanAssumption DEF SessionState, Items
  <1> HIDE DEF i
  <1>2. ASSUME NEW k \in Int, k > i PROVE Ahead(FirstNavigable(s, k))
    <2>1. FirstNavigable(s, k) = NoItem \/ FirstNavigable(s, k) >= k
      BY FirstNavigableIsOpen
    <2>2. FirstNavigable(s, k) \in Int
      BY FirstNavigableIsOpen DEF Items, NoItem
    <2> QED BY <1>1, <1>2, <2>1, <2>2
  <1>3. ASSUME NEW S, S \subseteq Items, \A j \in S : j > i
        PROVE  FirstOr(S, ItemCount + 1) \in Int /\ FirstOr(S, ItemCount + 1) > i
    <2>1. S # {} => Min(S) \in S
      <3>1. S \subseteq Nat
        BY <1>3 DEF Items
      <3> QED BY <3>1, MinOfPositions
    <2>2. S # {} => Min(S) \in Items /\ Min(S) > i
      BY <1>3, <2>1
    <2> DEFINE least == Min(S)
    <2> HIDE DEF least
    <2>3. S # {} => least \in Int /\ least > i
      BY <1>1, <2>2 DEF Items, least
    <2> QED BY <1>1, <2>3 DEF FirstOr, least
  <1>4. ASSUME NEW k \in FiringRules(s, i) PROVE Ahead(BranchDestination(s, i, rule(k)))
    <2>1. /\ k \in 1 .. Len(BranchRules[i]) /\ RuleFires(s, i, k)
          /\ rule(k).kind \in {"EXIT_TEST", "EXIT_TESTPART", "EXIT_SECTION", "item", "instances"}
      BY <1>1, PlanAssumption DEF FiringRules
    <2>2. CASE rule(k).kind = "EXIT_TEST"
      BY <2>2 DEF BranchDestination
    <2>3. CASE rule(k).kind = "EXIT_TESTPART"
      <3> DEFINE S == {j \in Items : j > i /\ PartOf[j] # PartOf[i]}
      <3>1. FirstOr(S, ItemCount + 1) \in Int /\ FirstOr(S, ItemCount + 1) > i
        BY <1>3
      <3>2. BranchDestination(s, i, rule(k)) = FirstNavigable(s, FirstOr(S, ItemCount + 1))
        BY <2>3 DEF BranchDestination
      <3> QED BY <1>2, <3>1, <3>2
    <2>4. CASE rule(k).kind = "EXIT_SECTION"
      <3> DEFINE S == {j \in Items : /\ j > i
                                    /\ \/ PartOf[j] # PartOf[i]
                                       \/ SectionPath[j] # SectionPath[i]}
      <3>1. FirstOr(S, ItemCount + 1) \in Int /\ FirstOr(S, ItemCount + 1) > i
        BY <1>3
      <3>2. BranchDestination(s, i, rule(k)) = FirstNavigable(s, FirstOr(S, ItemCount + 1))
        BY <2>4 DEF BranchDestination
      <3> QED BY <1>2, <3>1, <3>2
    <2>5. CASE rule(k).kind \in {"item", "instances"}
      <3> DEFINE S == {j \in rule(k).to : /\ PartOf[j] = PartOf[i]
                                          /\ rule(k).kind = "instances" => j > i}
                 target == BranchTarget(i, rule(k))
      <3>1. target = FirstOr(S, NoItem) /\ target # NoItem
        BY <2>1, <2>5 DEF BranchTarget, RuleFires
      <3>2. S \subseteq Items /\ \A j \in S : j > i
        BY <1>1, <2>1, <2>5 DEF ForwardRules
      <3>3. S # {} /\ target = Min(S)
        BY <3>1 DEF FirstOr
      <3>4. target \in S
        <4> HIDE DEF S
        <4>1. S \subseteq Nat
          BY <3>2 DEF Items
        <4> QED BY <3>3, <4>1, MinOfPositions
      <3>5. target \in Int /\ target > i
        BY <1>1, <3>2, <3>4 DEF Items
      <3>6. BranchDestination(s, i, rule(k)) = FirstNavigable(s, target)
        BY <2>5 DEF BranchDestination
      <3> HIDE DEF target
      <3> QED BY <1>2, <3>5, <3>6
    <2> QED BY <2>1, <2>2, <2>3, <2>4, <2>5
  <1>5. FiringRules(s, i) # {} => Min(FiringRules(s, i)) \in FiringRules(s, i)
    <2>1. FiringRules(s, i) \subseteq Nat
      BY DEF FiringRules
    <2> QED BY <2>1, MinOfPositions
  <1>6. Ahead(FirstNavigable(s, i + 1))
    BY <1>1, <1>2
  <1>7. NextDestination(s) = IF FiringRules(s, i) # {}
                             THEN BranchDestination(s, i, rule(Min(FiringRules(s, i))))
                             ELSE FirstNavigable(s, i + 1)
    BY DEF NextDestination, i
  <1> HIDE DEF rule
  <1>8. Ahead(NextDestination(s))
    BY <1>4, <1>5, <1>6, <1>7
  <1> QED BY <1>8 DEF i

LEMMA ApplyExpiriesOnward ==
  ASSUME NEW s \in SessionState
  PROVE  Onward(s, ApplyExpiries(s))
  <1> DEFINE k == FirstNavigable(s, s.currentItemKey + 1)
  <1>1. s.currentItemKey \in Nat
    BY PlanAssumption DEF SessionState, Items, NoItem
  <1>2. k \in Items \cup {NoItem} /\ (k # NoItem => k >= s.currentItemKey + 1)
    BY FirstNavigableIsOpen
  <1>3. k \in Int
    BY <1>2 DEF Items, NoItem
  <1>4. ApplyExpiries(s) \in {s, Ended(s), MoveToItem(s, k)}
    BY DEF ApplyExpiries
  <1> HIDE DEF k
  <1>5. Ended(s).status = "ended" /\ (k = NoItem => MoveToItem(s, k).status = "ended")
    BY EndedKeepsSeconds, MoveToItemLands, <1>2
  <1>6. k # NoItem => MoveToItem(s, k).currentItemKey = k
    BY <1>2, MoveToItemLands
  <1> QED BY <1>1, <1>2, <1>3, <1>4, <1>5, <1>6 DEF Onward

\* What follows a fold of the clock goes on from where the session stood.
LEMMA OnwardFromFold ==
  ASSUME NEW s \in SessionState, clock \in Int, NEW t
  PROVE  Onward(Touch(s), t) => Onward(s, t)
  BY TouchKeeps DEF Onward

LEMMA NextItemOnward ==
  ASSUME ForwardRules, NEW s \in SessionState, clock \in Int
  PROVE  Onward(s, NextItem(s))
  <1> DEFINE t == Touch(s)
             k == NextDestination(t)
  <1>1. t \in SessionState /\ s.currentItemKey \in Nat
    BY TouchType, PositionIsNat
  <1>2. Onward(s, ApplyExpiries(t))
    BY <1>1, ApplyExpiriesOnward, OnwardFromFold
  <1>3. ASSUME ~NextRefused(t) PROVE Onward(t, MoveToItem(t, k))
    <2> HIDE DEF t
    <2>1. t.currentItemKey # NoItem
      BY <1>3 DEF NextRefused
    <2>2. k \in Items \cup {NoItem} /\ (k = NoItem \/ k > t.currentItemKey)
      BY <1>1, <2>1, NextDestinationType, NextDestinationIsAhead
    <2> HIDE DEF k
    <2>3. k = NoItem \/ k >= t.currentItemKey
      <3>1. k \in Int /\ t.currentItemKey \in Int
        BY <1>1, <2>2 DEF SessionState, Items, NoItem
      <3> QED BY <2>2, <3>1
    <2> QED BY <1>1, <2>2, <2>3, MoveToItemLands DEF Onward
  <1>4. Onward(s, s)
    BY <1>1 DEF Onward
  <1>5. \/ NextItem(s) \in {s, ApplyExpiries(t)}
        \/ ~NextRefused(t) /\ NextItem(s) = MoveToItem(t, k)
    BY DEF NextItem, WithTransition
  <1>6. ~NextRefused(t) => Onward(s, MoveToItem(t, k))
    BY <1>3, OnwardFromFold
  <1> HIDE DEF k, t
  <1> QED BY <1>2, <1>4, <1>5, <1>6

LEMMA MoveToOnward ==
  ASSUME NEW s \in SessionState, NEW i \in Items, clock \in Int
  PROVE  Onward(s, MoveTo(s, i))
  <1> DEFINE t == Touch(s)
  <1>1. t \in SessionState /\ s.currentItemKey \in Nat /\ t.currentItemKey = s.currentItemKey
    BY TouchType, TouchKeeps, PositionIsNat
  <1>2. Onward(s, ApplyExpiries(t))
    BY <1>1, ApplyExpiriesOnward, OnwardFromFold
  <1>3. ~MoveToRefused(t, i) => PartOf[s.currentItemKey] \notin Linear
    BY <1>1 DEF MoveToRefused
  <1>4. ~MoveToRefused(t, i) => Onward(s, Present(t, i))
    BY <1>3 DEF Onward
  <1>5. Onward(s, s)
    BY <1>1 DEF Onward
  <1> HIDE DEF t
  <1> QED BY <1>2, <1>4, <1>5 DEF MoveTo, WithTransition, t

LEMMA SubmitItemOnward ==
  ASSUME NEW s \in SessionState, NEW i \in Items, NEW r \in Results, clock \in Int
  PROVE  Onward(s, SubmitItem(s, i, r))
  <1> DEFINE t == Touch(s)
             body == SubmitBody(t, i, r)
             late == [t EXCEPT !.rejectedSubmissions = Append(@,
                        [itemKey |-> i, scope |-> BarringScope(t, i),
                         atTestSeconds |-> t.seconds[TestScope]])]
  <1>1. t \in SessionState /\ s.currentItemKey \in Nat /\ t.currentItemKey = s.currentItemKey
    BY TouchType, TouchKeeps, PositionIsNat
  <1> HIDE DEF t
  <1>2. BarringScopes(t, i) # {} => Onward(s, ApplyExpiries(late))
    <2> SUFFICES ASSUME BarringScopes(t, i) # {} PROVE Onward(s, ApplyExpiries(late))
      OBVIOUS
    <2>1. late \in SessionState
      BY <1>1, LateType
    <2>2. late.currentItemKey = t.currentItemKey
      BY <1>1 DEF SessionState
    <2> HIDE DEF late
    <2>3. Onward(late, ApplyExpiries(late))
      BY <2>1, ApplyExpiriesOnward
    <2> QED BY <1>1, <2>2, <2>3 DEF Onward
  <1>3. Onward(s, ApplyExpiries(body))
    <2>1. body \in SessionState /\ body.currentItemKey = t.currentItemKey
      BY <1>1, SubmitBodyType, SubmitBodyKeeps
    <2> HIDE DEF body
    <2>2. Onward(body, ApplyExpiries(body))
      BY <2>1, ApplyExpiriesOnward
    <2> QED BY <1>1, <2>1, <2>2 DEF Onward
  <1>4. Onward(s, s)
    BY <1>1 DEF Onward
  <1>5. \/ SubmitItem(s, i, r) \in {s, ApplyExpiries(body)}
        \/ BarringScopes(t, i) # {} /\ SubmitItem(s, i, r) = ApplyExpiries(late)
    BY DEF SubmitItem, t
  <1> HIDE DEF body, late
  <1> QED BY <1>2, <1>3, <1>4, <1>5

LEMMA OthersOnward ==
  ASSUME NEW s \in SessionState, clock \in Int
  PROVE  /\ Onward(s, EndTest(s)) /\ Onward(s, TickClock(s))
         /\ Onward(s, Suspend(s)) /\ Onward(s, Resume(s))
         /\ \A i \in Items : Onward(s, Review(s, i)) /\ Onward(s, SetItemComment(s, i))
  <1> DEFINE t == Touch(s)
             settled == ApplyExpiries(t)
  <1>1. /\ t \in SessionState /\ settled \in SessionState
        /\ s.currentItemKey \in Nat /\ t.currentItemKey = s.currentItemKey
    BY TouchType, TouchKeeps, ApplyExpiriesType, PositionIsNat
  <1>2. Onward(s, settled) /\ Onward(s, s)
    BY <1>1, ApplyExpiriesOnward, OnwardFromFold DEF Onward
  <1>3. Ended(t).status = "ended"
    BY <1>1, EndedKeepsSeconds
  <1>4. /\ EndTest(s) \in {s, Ended(t)}
        /\ TickClock(s) \in {s, settled}
        /\ \/ Suspend(s) \in {s, settled}
           \/ /\ settled.status = "in-progress"
              /\ Suspend(s) = [settled EXCEPT !.status = "suspended"]
    BY DEF EndTest, TickClock, Suspend
  <1> HIDE DEF settled, t
  <1>5. [settled EXCEPT !.status = "suspended"].currentItemKey = settled.currentItemKey
    BY <1>1 DEF SessionState
  <1>6. Onward(s, EndTest(s)) /\ Onward(s, TickClock(s)) /\ Onward(s, Suspend(s))
    BY <1>2, <1>3, <1>4, <1>5 DEF Onward
  <1>7. /\ [s EXCEPT !.status = "in-progress", !.lastTransitionAtMs = clock].currentItemKey
             = s.currentItemKey
        /\ \A i \in Items : /\ [s EXCEPT !.currentItemKey = i].status = s.status
                           /\ [s EXCEPT !.itemComments = @ \cup {i}].currentItemKey
                                = s.currentItemKey
    BY DEF SessionState
  <1>8. Onward(s, Resume(s)) /\ \A i \in Items : Onward(s, Review(s, i))
    BY <1>1, <1>2, <1>7 DEF Onward, Resume, Review
  <1>9. \A i \in Items : Onward(s, SetItemComment(s, i))
    BY <1>1, <1>2, <1>7 DEF Onward, SetItemComment
  <1> QED BY <1>6, <1>8, <1>9

\* Where no branch rule names an item behind its own, a candidate in a linear part
\* never goes back: not by next, nor by an expiry, a jump or a late submission.
THEOREM LinearMovesForward ==
  ASSUME ForwardRules
  PROVE  Spec => BranchesMoveForward
  <1>1. TypeOK /\ [Next]_vars =>
          [(session'.status # "ended" /\ PartOf[session.currentItemKey] \in Linear) =>
             session'.currentItemKey >= session.currentItemKey]_session
    <2> SUFFICES ASSUME TypeOK, [Next]_vars
                 PROVE  Onward(session, session') \/ UNCHANGED session
      BY DEF Onward
    <2>1. session \in SessionState /\ clock \in Int
      BY DEF TypeOK
    <2>2. CASE DoMoveTo
      BY <2>1, <2>2, MoveToOnward DEF DoMoveTo, Becomes
    <2>3. CASE DoNext
      BY <2>1, <2>3, NextItemOnward DEF DoNext, Becomes
    <2>4. CASE DoSubmit
      BY <2>1, <2>4, SubmitItemOnward DEF DoSubmit, Becomes
    <2>5. CASE DoEnd \/ DoTick \/ DoSuspend \/ DoResume \/ DoReview \/ DoComment
      BY <2>1, <2>5, OthersOnward
         DEF DoEnd, DoTick, DoSuspend, DoResume, DoReview, DoComment, Becomes
    <2>6. CASE AdvanceClock \/ UNCHANGED vars
      BY <2>6 DEF AdvanceClock, vars
    <2> QED BY <2>2, <2>3, <2>4, <2>5, <2>6 DEF Next
  <1> QED BY <1>1, TypeCorrect, PTL DEF Spec, BranchesMoveForward

(***************************************************************************)
(* Reporting                                                               *)
(***************************************************************************)

\* One final entry per committed attempt, numbered in their order.
LEMMA FinalResultsNumbered ==
  ASSUME NEW s \in SessionState, NEW i \in Items
  PROVE  LET n == Len(s.attemptHistory[i])
             finals == FinalResults(s, i)
         IN /\ Len(finals) = n /\ DOMAIN finals = 1 .. n
            /\ finals \o <<>> = finals
            /\ finals = <<>> <=> n = 0
            /\ \A k \in 1 .. n : finals[k].sessionStatus = "final" /\ finals[k].numAttempts = k
  <1> DEFINE n == Len(s.attemptHistory[i])
             finals == FinalResults(s, i)
             Final(e, k) == e.sessionStatus = "final" /\ e.numAttempts = k
             Entry(k) == ItemResult("final", k, s.attemptHistory[i][k].submittedAtMs,
                                    s.attemptHistory[i][k].result)
             Entries == {Entry(k) : k \in 1 .. n}
  <1>1. /\ s.attemptHistory[i] \in Seq(Submission) /\ n \in Nat
        /\ DOMAIN s.attemptHistory[i] = 1 .. n
    BY DEF SessionState
  <1>2. finals = [k \in 1 .. n |-> Entry(k)]
    BY <1>1 DEF FinalResults
  <1>3. \A k \in 1 .. n : Final(Entry(k), k)
    BY DEF ItemResult
  <1>4. \A k \in 1 .. n : finals[k] = Entry(k) /\ finals[k] \in Entries
    BY <1>2
  <1> HIDE DEF finals, Entry, n, Final
  <1>5. finals \in [1 .. n -> Entries]
    BY <1>2, <1>4, Zenon
  <1>6. finals \in Seq(Entries)
    <2> HIDE DEF Entries
    <2>1. finals \in UNION {[1 .. m -> Entries] : m \in Nat}
      BY <1>1, <1>5, Zenon
    <2> QED BY <2>1, SeqDef, Zenon
  <1>7. Len(finals) = n
    BY <1>1, <1>5, <1>6, LenProperties
  <1>8. DOMAIN finals = 1 .. n
    BY <1>2
  <1>9. finals \o <<>> = finals /\ (finals = <<>> <=> n = 0)
    BY <1>1, <1>6, <1>7
  <1> QED BY <1>3, <1>4, <1>7, <1>8, <1>9 DEF finals, n, Final

\* The entries of an attempted item: its history, numbered, then what it holds.
LEMMA AttemptedEntries ==
  ASSUME NEW s \in SessionState, NEW i \in Items, LedgerOf(s, i), Provisional(s, i),
         i \in s.attemptedItems
  PROVE  NumbersAttempts(s, i, ItemResults(s, i, clock))
  <1> DEFINE n == Len(s.attemptHistory[i])
             finals == FinalResults(s, i)
             held == PendingResults(s, i)
             entries == ItemResults(s, i, clock)
             Final(e, k) == e.sessionStatus = "final" /\ e.numAttempts = k
  <1>1. /\ s.attemptHistory[i] \in Seq(Submission) /\ n \in Nat
        /\ DOMAIN s.attemptHistory[i] = 1 .. n /\ s.attemptCounts[i] = n
    BY DEF SessionState, LedgerOf
  <1>2. /\ Len(finals) = n /\ DOMAIN finals = 1 .. n
        /\ finals \o <<>> = finals /\ (finals = <<>> <=> n = 0)
        /\ \A k \in 1 .. n : Final(finals[k], k)
    BY FinalResultsNumbered
  <1> HIDE DEF finals, n
  <1>3. CASE s.pendingItemResults[i] = NoResult
    <2>1. n > 0 /\ held = <<>>
      BY <1>1, <1>3 DEF LedgerOf, PendingResults, n
    <2>2. finals \o held = finals /\ finals # <<>>
      BY <1>1, <1>2, <2>1
    <2>3. /\ DOMAIN entries = 1 .. n /\ entries # <<>>
          /\ \A k \in 1 .. n : Final(entries[k], k)
      <3>1. entries = Commented(s, i, finals)
        BY <2>2 DEF ItemResults, finals
      <3>2. DOMAIN entries = 1 .. n
        BY <1>2, <3>1 DEF Commented
      <3>3. \A k \in 1 .. n :
              entries[k] = [finals[k] EXCEPT !.comment = k = Len(finals) /\ i \in s.itemComments]
        BY <1>2, <3>1 DEF Commented
      <3>4. ASSUME NEW k \in 1 .. n PROVE Final(entries[k], k)
        <4>1. finals[k] = ItemResult("final", k, s.attemptHistory[i][k].submittedAtMs,
                                     s.attemptHistory[i][k].result)
          BY <1>1 DEF finals, FinalResults, n
        <4>2. finals[k].sessionStatus = "final" /\ finals[k].numAttempts = k
          BY <1>2
        <4>3. entries[k] = [finals[k] EXCEPT !.comment = k = Len(finals) /\ i \in s.itemComments]
          BY <3>3
        <4> DEFINE marked == k = Len(finals) /\ i \in s.itemComments
        <4> HIDE DEF marked, entries
        <4>5. entries[k] = [finals[k] EXCEPT !.comment = marked]
          BY <4>3 DEF marked
        <4>6. entries[k].sessionStatus = "final" /\ entries[k].numAttempts = k
          BY <4>1, <4>2, <4>5 DEF ItemResult
        <4> QED BY <4>6
      <3> QED BY <1>1, <2>1, <3>2, <3>4
    <2> HIDE DEF entries
    <2>4. {k \in DOMAIN entries : entries[k].sessionStatus = "final"} = 1 .. n
      BY <2>3
    <2>5. NumbersAttempts(s, i, entries)
      BY <1>1, <2>3, <2>4 DEF NumbersAttempts
    <2> QED BY <2>5 DEF entries
  <1>4. CASE s.pendingItemResults[i] # NoResult
    <2>1. n = 0 /\ s.status # "ended"
      BY <1>1, <1>4 DEF Provisional, LedgerOf, n
    <2> DEFINE one == ItemResult("pendingResponseProcessing", 1,
                                 s.pendingItemResults[i].submittedAtMs,
                                 s.pendingItemResults[i].result)
    <2>2. held = <<one>> /\ finals = <<>>
      BY <1>2, <1>4, <2>1 DEF PendingResults
    <2>3. entries = Commented(s, i, <<one>>)
      BY <2>2 DEF ItemResults, finals
    <2>4. /\ DOMAIN entries = {1}
          /\ entries[1].sessionStatus = "pendingResponseProcessing"
          /\ entries[1].numAttempts = 1
      BY <2>3 DEF Commented, ItemResult
    <2> HIDE DEF entries
    <2>5. {k \in DOMAIN entries : entries[k].sessionStatus = "final"} = {}
      BY <2>4
    <2>6. entries # <<>> /\ s.attemptCounts[i] = 0
      <3>1. s.attemptCounts[i] = 0
        BY <1>1, <2>1, Zenon
      <3>2. DOMAIN <<>> = {}
        OBVIOUS
      <3>3. entries # <<>>
        BY <2>4, <3>2, Zenon
      <3> QED BY <3>1, <3>3
    <2>7. {k \in DOMAIN entries : entries[k].sessionStatus = "final"} = 1 .. s.attemptCounts[i]
      <3>1. s.attemptCounts[i] = 0
        BY <2>6, Zenon
      <3>2. 1 .. 0 = {}
        OBVIOUS
      <3> QED BY <2>5, <3>1, <3>2, Zenon
    <2>8. NumbersAttempts(s, i, entries)
      BY <2>1, <2>4, <2>6, <2>7 DEF NumbersAttempts
    <2> QED BY <2>8 DEF entries
  <1> QED BY <1>3, <1>4

\* An item never attempted has its one initial entry.
LEMMA InitialEntry ==
  ASSUME NEW s \in SessionState, NEW i \in Items, LedgerOf(s, i), i \notin s.attemptedItems
  PROVE  NumbersAttempts(s, i, ItemResults(s, i, clock))
  <1> DEFINE entries == ItemResults(s, i, clock)
  <1>1. /\ s.attemptHistory[i] = <<>> /\ s.attemptCounts[i] = 0
        /\ s.pendingItemResults[i] = NoResult
    BY DEF SessionState, LedgerOf
  <1>2. FinalResults(s, i) = <<>> /\ PendingResults(s, i) = <<>>
    BY <1>1 DEF FinalResults, PendingResults
  <1>3. entries = Commented(s, i, <<InitialResult(clock)>>)
    BY <1>2 DEF ItemResults
  <1>4. DOMAIN entries = {1} /\ entries[1].sessionStatus = "initial"
        /\ entries[1].numAttempts = 0
    BY <1>3 DEF Commented, InitialResult, ItemResult
  <1> HIDE DEF entries
  <1>5. {k \in DOMAIN entries : entries[k].sessionStatus = "final"} = {}
    BY <1>4
  <1>6. {k \in DOMAIN entries : entries[k].sessionStatus = "final"} = 1 .. s.attemptCounts[i]
    <2>1. 1 .. s.attemptCounts[i] = {}
      BY <1>1
    <2> QED BY <1>5, <2>1, Zenon
  <1>7. entries # <<>>
    BY <1>4
  <1>8. NumbersAttempts(s, i, entries)
    BY <1>4, <1>6, <1>7 DEF NumbersAttempts
  <1> QED BY <1>8 DEF entries

\* The results document numbers the attempts of every item, whatever has been
\* held, revised, committed or refused before it is asked for.
THEOREM ReportsNumberAttempts == Spec => []ReportNumbersAttempts
  <1>1. TypeOK /\ LedgerAgrees => ReportNumbersAttempts
    BY AttemptedEntries, InitialEntry
       DEF TypeOK, LedgerAgrees, ReportNumbersAttempts, BuildAssessmentResult
  <1> QED BY <1>1, TypeCorrect, LedgerIsConsistent, PTL

-----------------------------------------------------------------------------
(***************************************************************************)
(* The controller implements AttemptLedger.  Every transition settles the  *)
(* ledger once at most: it collects whole groups on top of what the call   *)
(* itself submitted.                                                       *)
(***************************************************************************)
\* The records (w, a) after some groups were collected, each in whole.
Collects(w, a, t) ==
  LET collected == {i \in Items : w[i] # NoResult /\ t.pendingItemResults[i] = NoResult}
  IN /\ t.pendingItemResults = [i \in Items |-> IF i \in collected THEN NoResult ELSE w[i]]
     /\ t.attemptHistory = [i \in Items |-> IF i \in collected THEN Append(a[i], w[i]) ELSE a[i]]
     /\ \A i \in collected, j \in Items :
          PartOf[j] = PartOf[i] /\ w[j] # NoResult => j \in collected

\* From s to t the ledger was settled, and the session ended with nothing
\* held, or went on as it was.
Settles(s, t) ==
  /\ Collects(s.pendingItemResults, s.attemptHistory, t)
  /\ \/ t.status = s.status
     \/ t.status = "ended" /\ t.pendingItemResults = [i \in Items |-> NoResult]

\* A step that leaves the ledger alone settles it.
LEMMA SameSettles ==
  ASSUME NEW s \in SessionState, NEW t,
         t.pendingItemResults = s.pendingItemResults,
         t.attemptHistory = s.attemptHistory,
         t.status = s.status
  PROVE  Settles(s, t)
  <1>1. s.pendingItemResults = [i \in Items |-> s.pendingItemResults[i]]
    BY DEF SessionState
  <1>2. s.attemptHistory = [i \in Items |-> s.attemptHistory[i]]
    BY DEF SessionState
  <1>3. {i \in Items : s.pendingItemResults[i] # NoResult /\ t.pendingItemResults[i] = NoResult} = {}
    OBVIOUS
  <1>4. Collects(s.pendingItemResults, s.attemptHistory, t)
    BY <1>1, <1>2, <1>3 DEF Collects
  <1> QED BY <1>4 DEF Settles

\* Flushing whole parts settles the ledger and empties them.
LEMMA FlushSettles ==
  ASSUME NEW s \in SessionState, NEW leaving, leaving \subseteq Items,
         \A i \in leaving, j \in Items : PartOf[j] = PartOf[i] => j \in leaving
  PROVE  LET t == FlushPending(s, leaving)
         IN /\ t \in SessionState
            /\ t.status = s.status
            /\ Collects(s.pendingItemResults, s.attemptHistory, t)
            /\ leaving = Items => t.pendingItemResults = [i \in Items |-> NoResult]
  <1> DEFINE keys == PendingIn(s, leaving)
             batch == [i \in keys |-> s.pendingItemResults[i]]
             done == Commit(s, batch)
             t == FlushPending(s, leaving)
  <1>1. t \in SessionState /\ keys \subseteq Items /\ DOMAIN batch = keys
    BY FlushPendingType DEF PendingIn
  <1>2. done \in SessionState
    <2>1. \A i \in keys : batch[i] \in Submission
      BY <1>1 DEF SessionState, PendingIn
    <2> HIDE DEF batch, keys
    <2> QED BY <1>1, <2>1, CommitType
  <1>3. done.status = s.status
    <2> HIDE DEF batch, keys
    <2> QED BY <1>1, CommitRecords
  <1>4. done.attemptHistory = [i \in Items |-> IF i \in keys THEN Append(s.attemptHistory[i], batch[i])
                                               ELSE s.attemptHistory[i]]
    <2> HIDE DEF batch, keys
    <2> QED BY <1>1 DEF Commit, SessionState
  <1>5. t = [done EXCEPT !.pendingItemResults =
               [i \in Items |-> IF i \in keys THEN NoResult ELSE s.pendingItemResults[i]]]
    BY DEF FlushPending
  <1>6. /\ t.status = done.status
        /\ t.attemptHistory = done.attemptHistory
        /\ t.pendingItemResults =
             [i \in Items |-> IF i \in keys THEN NoResult ELSE s.pendingItemResults[i]]
    <2> HIDE DEF done, t, keys
    <2> QED BY <1>2, <1>5 DEF SessionState
  <1>7. keys = {i \in Items : s.pendingItemResults[i] # NoResult /\ t.pendingItemResults[i] = NoResult}
    <2> HIDE DEF t
    <2> QED BY <1>1, <1>6 DEF PendingIn
  <1>8. \A i \in keys : batch[i] = s.pendingItemResults[i]
    OBVIOUS
  <1>9. \A i \in keys, j \in Items :
          PartOf[j] = PartOf[i] /\ s.pendingItemResults[j] # NoResult => j \in keys
    BY DEF PendingIn
  <1>10. Collects(s.pendingItemResults, s.attemptHistory, t)
    <2> HIDE DEF t, keys, batch, done
    <2>1. t.attemptHistory = [i \in Items |-> IF i \in keys
                                              THEN Append(s.attemptHistory[i], s.pendingItemResults[i])
                                              ELSE s.attemptHistory[i]]
      BY <1>4, <1>6, <1>8
    <2> QED BY <1>6, <1>7, <1>9, <2>1 DEF Collects
  <1>11. leaving = Items => t.pendingItemResults = [i \in Items |-> NoResult]
    <2> HIDE DEF t
    <2> QED BY <1>6 DEF PendingIn
  <1> QED BY <1>1, <1>3, <1>6, <1>10, <1>11 DEF t

\* Ending collects everything.
LEMMA EndedSettles ==
  ASSUME NEW s \in SessionState
  PROVE  Settles(s, Ended(s)) /\ Ended(s).status = "ended"
  <1> DEFINE flushed == FlushPending(s, Items)
             t == Ended(s)
  <1>1. /\ flushed \in SessionState
        /\ Collects(s.pendingItemResults, s.attemptHistory, flushed)
        /\ flushed.pendingItemResults = [i \in Items |-> NoResult]
    BY FlushSettles
  <1>2. t = [flushed EXCEPT !.status = "ended", !.currentItemKey = NoItem,
                            !.testOutcomes = RunOutcomeProcessing(flushed)]
    BY DEF Ended
  <1>3. /\ t.status = "ended"
        /\ t.pendingItemResults = flushed.pendingItemResults
        /\ t.attemptHistory = flushed.attemptHistory
    <2> HIDE DEF flushed, t
    <2> QED BY <1>1, <1>2 DEF SessionState
  <1> HIDE DEF flushed, t
  <1>4. Collects(s.pendingItemResults, s.attemptHistory, t)
    BY <1>1, <1>3 DEF Collects
  <1>5. Settles(s, t) /\ t.status = "ended"
    BY <1>1, <1>3, <1>4 DEF Settles
  <1> QED BY <1>5 DEF t

\* Leaving a part collects the part, whole.
LEMMA LeavePartSettles ==
  ASSUME NEW s \in SessionState, NEW i
  PROVE  Settles(s, LeavePart(s, i)) /\ LeavePart(s, i).status = s.status
  <1> DEFINE leaving == {j \in Items : PartOf[j] = PartOf[s.currentItemKey]}
             flushed == FlushPending(s, leaving)
             t == [flushed EXCEPT !.testOutcomes = RunOutcomeProcessing(flushed)]
  <1>1. /\ flushed \in SessionState
        /\ flushed.status = s.status
        /\ Collects(s.pendingItemResults, s.attemptHistory, flushed)
    BY FlushSettles
  <1>2. /\ t.status = flushed.status
        /\ t.pendingItemResults = flushed.pendingItemResults
        /\ t.attemptHistory = flushed.attemptHistory
    <2> HIDE DEF flushed
    <2> QED BY <1>1 DEF SessionState
  <1>3. LeavePart(s, i) = s \/ LeavePart(s, i) = t
    BY DEF LeavePart
  <1> HIDE DEF flushed, t
  <1>4. Collects(s.pendingItemResults, s.attemptHistory, t)
    BY <1>1, <1>2 DEF Collects
  <1>5. Settles(s, t) /\ t.status = s.status
    BY <1>1, <1>2, <1>4 DEF Settles
  <1> QED BY <1>3, <1>5, SameSettles

\* Evaluating template defaults and presenting an item leave the ledger alone.
LEMMA PresentKeepsLedger ==
  ASSUME NEW s \in SessionState, NEW i \in Items
  PROVE  LET t == Present(WithTemplateDefaults(s, i), i)
         IN /\ t.status = s.status
            /\ t.pendingItemResults = s.pendingItemResults
            /\ t.attemptHistory = s.attemptHistory
  <1> DEFINE d == WithTemplateDefaults(s, i)
  <1>1. /\ d \in SessionState
        /\ d.status = s.status
        /\ d.pendingItemResults = s.pendingItemResults
        /\ d.attemptHistory = s.attemptHistory
    BY WithTemplateDefaultsType DEF WithTemplateDefaults, SessionState
  <1> HIDE DEF d
  <1>2. /\ Present(d, i).status = d.status
        /\ Present(d, i).pendingItemResults = d.pendingItemResults
        /\ Present(d, i).attemptHistory = d.attemptHistory
    BY <1>1 DEF Present, SessionState
  <1>3. /\ Present(d, i).status = s.status
        /\ Present(d, i).pendingItemResults = s.pendingItemResults
        /\ Present(d, i).attemptHistory = s.attemptHistory
    BY <1>1, <1>2
  <1> QED BY <1>3 DEF d

LEMMA MoveToItemSettles ==
  ASSUME NEW s \in SessionState, NEW i \in Items \cup {NoItem}
  PROVE  Settles(s, MoveToItem(s, i))
  <1>1. CASE i = NoItem
    BY <1>1, EndedSettles DEF MoveToItem
  <1>2. CASE i # NoItem
    <2> DEFINE left == LeavePart(s, i)
               t == Present(WithTemplateDefaults(left, i), i)
    <2>1. i \in Items /\ left \in SessionState /\ Settles(s, left) /\ left.status = s.status
      BY <1>2, LeavePartType, LeavePartSettles
    <2> HIDE DEF left
    <2>2. /\ t.status = left.status
          /\ t.pendingItemResults = left.pendingItemResults
          /\ t.attemptHistory = left.attemptHistory
      BY <2>1, PresentKeepsLedger
    <2> HIDE DEF t
    <2>3. Settles(s, t)
      BY <2>1, <2>2 DEF Settles, Collects
    <2> QED BY <1>2, <2>3 DEF MoveToItem, t, left
  <1> QED BY <1>1, <1>2

LEMMA ApplyExpiriesSettles ==
  ASSUME NEW s \in SessionState
  PROVE  Settles(s, ApplyExpiries(s))
  <1>1. Settles(s, s)
    BY SameSettles
  <1>2. Settles(s, Ended(s))
    BY EndedSettles
  <1>3. Settles(s, MoveToItem(s, FirstNavigable(s, s.currentItemKey + 1)))
    BY FirstNavigableIsOpen, MoveToItemSettles
  <1> QED BY <1>1, <1>2, <1>3 DEF ApplyExpiries

\* Folding the clock leaves the ledger alone.
LEMMA TouchKeepsLedger ==
  ASSUME NEW s \in SessionState
  PROVE  /\ Touch(s).status = s.status
         /\ Touch(s).pendingItemResults = s.pendingItemResults
         /\ Touch(s).attemptHistory = s.attemptHistory
  BY DEF Touch, SessionState

LEMMA AfterTouch ==
  ASSUME NEW s \in SessionState, clock \in Int, NEW t, Settles(Touch(s), t)
  PROVE  Settles(s, t)
  BY TouchKeepsLedger DEF Settles

(***************************************************************************)
(* The steps of the ledger, from what the session's records become.        *)
(***************************************************************************)

Submissions == [result : Results, submittedAtMs : 0 .. MaxClock]

Limits == [i \in Items |-> IF i \in Adaptive THEN 0 ELSE Control[i].maxAttempts]

\* Where a step may take the session's status, s and t being its ends.
Carries(s, t) ==
  \/ t.status = s.status
  \/ t.status = "ended" /\ t.pendingItemResults = [i \in Items |-> NoResult]

LEMMA StutterStep ==
  ASSUME session'.status = session.status,
         session'.pendingItemResults = session.pendingItemResults,
         session'.attemptHistory = session.attemptHistory
  PROVE  UNCHANGED Ledger!ledger
  BY DEF Ledger!ledger

LEMMA WorkStep ==
  ASSUME Collects(session.pendingItemResults, session.attemptHistory, session'),
         \/ session.status = "in-progress" /\ session'.status \in {"in-progress", "suspended"}
         \/ /\ session.status # "ended" /\ session'.status = "ended"
            /\ session'.pendingItemResults = [i \in Items |-> NoResult]
  PROVE  Ledger!Next
  <1>1. Ledger!Collect(session.pendingItemResults, session.attemptHistory)
    BY DEF Ledger!Collect, Collects
  <1>2. Ledger!Continues
    BY DEF Ledger!Continues
  <1> QED BY <1>1, <1>2 DEF Ledger!Next, Ledger!Work

\* A transition that only settles does the ledger's work or nothing.
LEMMA SettleStep ==
  ASSUME session.status = "in-progress", Settles(session, session')
  PROVE  Ledger!Next
  BY WorkStep DEF Settles

LEMMA HoldStep ==
  ASSUME NEW i \in Items, NEW entry \in Submissions,
         session.status = "in-progress",
         PartOf[i] \in Simultaneous,
         session.attemptHistory[i] = <<>>,
         Collects([session.pendingItemResults EXCEPT ![i] = entry],
                  session.attemptHistory, session'),
         Carries(session, session')
  PROVE  Ledger!Next
  <1>1. Ledger!Collect([session.pendingItemResults EXCEPT ![i] = entry], session.attemptHistory)
    BY DEF Ledger!Collect, Collects
  <1>2. Ledger!Continues
    BY DEF Ledger!Continues, Carries
  <1>3. Ledger!Hold(i, entry)
    BY <1>1, <1>2 DEF Ledger!Hold
  <1> QED BY <1>3 DEF Ledger!Next, Submissions

LEMMA RecordStep ==
  ASSUME NEW i \in Items, NEW entry \in Submissions,
         session.status = "in-progress",
         PartOf[i] \notin Simultaneous,
         Limits[i] = 0 \/ Len(session.attemptHistory[i]) < Limits[i],
         Collects(session.pendingItemResults,
                  [session.attemptHistory EXCEPT ![i] = Append(@, entry)], session'),
         Carries(session, session')
  PROVE  Ledger!Next
  <1>1. Ledger!Collect(session.pendingItemResults,
                       [session.attemptHistory EXCEPT ![i] = Append(@, entry)])
    BY DEF Ledger!Collect, Collects
  <1>2. Ledger!Continues
    BY DEF Ledger!Continues, Carries
  <1>3. Ledger!Record(i, entry)
    BY <1>1, <1>2 DEF Ledger!Record, Limits
  <1> QED BY <1>3 DEF Ledger!Next, Submissions

(***************************************************************************)
(* The transitions                                                         *)
(***************************************************************************)

\* What a submission adds before its expiries are settled.
LEMMA SubmitBodyAdds ==
  ASSUME NEW s \in SessionState, NEW i \in Items, NEW r \in Results, clock \in Int
  PROVE  LET entry == [result |-> r, submittedAtMs |-> clock]
             b == SubmitBody(s, i, r)
         IN /\ b.status = s.status
            /\ PartOf[i] \in Simultaneous =>
                 /\ b.pendingItemResults = [s.pendingItemResults EXCEPT ![i] = entry]
                 /\ b.attemptHistory = s.attemptHistory
            /\ PartOf[i] \notin Simultaneous =>
                 /\ b.pendingItemResults = s.pendingItemResults
                 /\ b.attemptHistory = [s.attemptHistory EXCEPT ![i] = Append(@, entry)]
  <1> DEFINE entry == [result |-> r, submittedAtMs |-> clock]
             batch == [j \in {i} |-> entry]
             marked == [s EXCEPT !.attemptedItems = @ \cup {i}]
             committed == Commit(marked, batch)
             b == SubmitBody(s, i, r)
  <1>1. CASE PartOf[i] \in Simultaneous
    <2>1. b = [s EXCEPT !.pendingItemResults[i] = entry, !.attemptedItems = @ \cup {i}]
      BY <1>1 DEF SubmitBody
    <2> QED BY <1>1, <2>1 DEF SessionState
  <1>2. CASE PartOf[i] \notin Simultaneous
    <2>1. b = [committed EXCEPT !.testOutcomes = RunOutcomeProcessing(committed)]
      BY <1>2 DEF SubmitBody
    <2>2. /\ marked \in SessionState
          /\ marked.status = s.status
          /\ marked.pendingItemResults = s.pendingItemResults
          /\ marked.attemptHistory = s.attemptHistory
      BY DEF SessionState
    <2>3. DOMAIN batch = {i} /\ batch[i] = entry /\ entry \in Submission
      BY SubmissionType
    <2> HIDE DEF marked, batch, entry
    <2>4. committed \in SessionState
      <3>1. DOMAIN batch \subseteq Items /\ \A j \in DOMAIN batch : batch[j] \in Submission
        BY <2>3
      <3> QED BY <2>2, <3>1, CommitType
    <2>5. /\ committed.status = marked.status
          /\ committed.pendingItemResults = marked.pendingItemResults
      BY <2>2, <2>3, CommitRecords
    <2>6. committed.attemptHistory =
            [j \in Items |-> IF j \in {i} THEN Append(marked.attemptHistory[j], batch[j])
                                          ELSE marked.attemptHistory[j]]
      BY <2>2, <2>3 DEF Commit, SessionState
    <2>7. s.attemptHistory = [j \in Items |-> s.attemptHistory[j]]
      BY DEF SessionState
    <2>8. committed.attemptHistory = [s.attemptHistory EXCEPT ![i] = Append(@, entry)]
      BY <2>2, <2>3, <2>6, <2>7
    <2> HIDE DEF committed, b
    <2>9. /\ b.status = committed.status
          /\ b.pendingItemResults = committed.pendingItemResults
          /\ b.attemptHistory = committed.attemptHistory
      BY <2>1, <2>4 DEF SessionState
    <2> QED BY <1>2, <2>2, <2>5, <2>8, <2>9 DEF entry, b
  <1> QED BY <1>1, <1>2

LEMMA SubmitStep ==
  ASSUME session \in SoundSessions, clock \in 0 .. MaxClock,
         NEW i \in Items, NEW r \in Results,
         session' = SubmitItem(session, i, r)
  PROVE  Ledger!Next \/ UNCHANGED Ledger!ledger
  <1> DEFINE t == Touch(session)
             b == SubmitBody(t, i, r)
             entry == [result |-> r, submittedAtMs |-> clock]
             late == [t EXCEPT !.rejectedSubmissions = Append(@,
                        [itemKey |-> i, scope |-> BarringScope(t, i),
                         atTestSeconds |-> t.seconds[TestScope]])]
  <1>1. session \in SessionState /\ SoundAt(session, i) /\ clock \in Int
    BY TimeAssumption DEF SoundSessions
  <1>2. /\ t \in SessionState
        /\ t.status = session.status
        /\ t.pendingItemResults = session.pendingItemResults
        /\ t.attemptHistory = session.attemptHistory
        /\ t.attemptCounts = session.attemptCounts
    BY <1>1, TouchType, TouchKeepsLedger DEF Touch, SessionState
  <1> HIDE DEF t
  <1>3. CASE session.status # "in-progress"
    BY <1>3, StutterStep DEF SubmitItem
  <1>4. CASE session.status = "in-progress" /\ BarringScopes(t, i) # {}
    <2>1. session' = ApplyExpiries(late)
      BY <1>4 DEF SubmitItem, t
    <2>2. late \in SessionState
      BY <1>2, <1>4, LateType
    <2>3. /\ late.status = session.status
          /\ late.pendingItemResults = session.pendingItemResults
          /\ late.attemptHistory = session.attemptHistory
      BY <1>2 DEF SessionState
    <2> HIDE DEF late
    <2>4. Settles(late, session')
      BY <2>1, <2>2, ApplyExpiriesSettles
    <2>5. Settles(session, session')
      BY <2>3, <2>4 DEF Settles
    <2> QED BY <1>4, <2>5, SettleStep
  <1>5. CASE BarringScopes(t, i) = {} /\ SubmitRefused(t, i, r)
    BY <1>5, StutterStep DEF SubmitItem, t
  <1>6. CASE session.status = "in-progress" /\ BarringScopes(t, i) = {} /\ ~SubmitRefused(t, i, r)
    <2>1. session' = ApplyExpiries(b) /\ b \in SessionState
      BY <1>1, <1>2, <1>6, SubmitBodyType DEF SubmitItem, t
    <2>2. b.status = session.status
      BY <1>1, <1>2, SubmitBodyAdds
    <2>3. entry \in Submissions
      BY DEF Submissions
    <2>4. Settles(b, session')
      BY <2>1, ApplyExpiriesSettles
    <2>5. Carries(session, session')
      BY <2>2, <2>4 DEF Settles, Carries
    <2>6. session.attemptCounts[i] = Len(session.attemptHistory[i])
      BY <1>1 DEF SoundAt, LedgerOf
    <2>9. /\ PartOf[i] \in Simultaneous =>
               /\ b.pendingItemResults = [t.pendingItemResults EXCEPT ![i] = entry]
               /\ b.attemptHistory = t.attemptHistory
          /\ PartOf[i] \notin Simultaneous =>
               /\ b.pendingItemResults = t.pendingItemResults
               /\ b.attemptHistory = [t.attemptHistory EXCEPT ![i] = Append(@, entry)]
      BY <1>1, <1>2, SubmitBodyAdds
    <2> HIDE DEF entry, b
    <2>7. CASE PartOf[i] \in Simultaneous
      <3>1. /\ b.pendingItemResults = [session.pendingItemResults EXCEPT ![i] = entry]
            /\ b.attemptHistory = session.attemptHistory
        BY <1>2, <2>7, <2>9
      <3>2. session.attemptHistory[i] = <<>>
        <4>1. ~(session.attemptCounts[i] > 0)
          BY <1>2, <1>6, <2>7 DEF SubmitRefused
        <4>2. session.attemptHistory[i] \in Seq(Submission)
          BY <1>1 DEF SessionState
        <4> QED BY <2>6, <4>1, <4>2
      <3> QED BY <1>6, <2>3, <2>4, <2>5, <2>7, <3>1, <3>2, HoldStep DEF Settles
    <2>8. CASE PartOf[i] \notin Simultaneous
      <3>1. /\ b.pendingItemResults = session.pendingItemResults
            /\ b.attemptHistory = [session.attemptHistory EXCEPT ![i] = Append(@, entry)]
        BY <1>2, <2>8, <2>9
      <3>2. Limits[i] = 0 \/ Len(session.attemptHistory[i]) < Limits[i]
        BY <1>2, <1>6, <2>6, <2>8 DEF SubmitRefused, AttemptsLeft, Limits
      <3> QED BY <1>6, <2>3, <2>4, <2>5, <2>8, <3>1, <3>2, RecordStep DEF Settles
    <2> QED BY <2>7, <2>8
  <1> QED BY <1>3, <1>4, <1>5, <1>6

LEMMA MoveToStep ==
  ASSUME session \in SessionState, clock \in Int, NEW i \in Items,
         session' = MoveTo(session, i)
  PROVE  Ledger!Next \/ UNCHANGED Ledger!ledger
  <1> DEFINE t == Touch(session)
             p == Present(t, i)
  <1>1. t \in SessionState /\ Settles(t, ApplyExpiries(t))
    BY TouchType, ApplyExpiriesSettles
  <1>2. Settles(session, ApplyExpiries(t))
    BY <1>1, AfterTouch
  <1>3. /\ p.status = session.status
        /\ p.pendingItemResults = session.pendingItemResults
        /\ p.attemptHistory = session.attemptHistory
    <2>1. /\ p.status = t.status
          /\ p.pendingItemResults = t.pendingItemResults
          /\ p.attemptHistory = t.attemptHistory
      <3> HIDE DEF t
      <3> QED BY <1>1 DEF Present, SessionState
    <2> QED BY <2>1, TouchKeepsLedger
  <1>4. \/ session' = session
        \/ session' = p
        \/ session.status = "in-progress" /\ session' = ApplyExpiries(t)
    BY DEF MoveTo, WithTransition
  <1> HIDE DEF t, p
  <1> QED BY <1>2, <1>3, <1>4, SettleStep, StutterStep

LEMMA NextItemStep ==
  ASSUME session \in SessionState, clock \in Int, session' = NextItem(session)
  PROVE  Ledger!Next \/ UNCHANGED Ledger!ledger
  <1> DEFINE t == Touch(session)
             n == MoveToItem(t, NextDestination(t))
  <1>1. t \in SessionState /\ Settles(t, ApplyExpiries(t))
    BY TouchType, ApplyExpiriesSettles
  <1>2. Settles(session, ApplyExpiries(t))
    BY <1>1, AfterTouch
  <1>3. CASE session' = session
    BY <1>3, StutterStep
  <1>4. CASE session.status = "in-progress" /\ session' = ApplyExpiries(t)
    BY <1>2, <1>4, SettleStep
  <1>5. CASE /\ session.status = "in-progress" /\ ~NextRefused(t)
             /\ session' = n
    <2>1. t.currentItemKey # NoItem
      BY <1>5 DEF NextRefused
    <2>2. NextDestination(t) \in Items \cup {NoItem}
      <3> HIDE DEF t
      <3> QED BY <1>1, <2>1, NextDestinationType
    <2>3. Settles(t, n)
      <3> HIDE DEF t
      <3> QED BY <1>1, <2>2, MoveToItemSettles
    <2>4. Settles(session, n)
      BY <2>3, AfterTouch
    <2> QED BY <1>5, <2>4, SettleStep
  <1> QED BY <1>3, <1>4, <1>5 DEF NextItem, WithTransition

LEMMA TickStep ==
  ASSUME session \in SessionState, clock \in Int, session' = TickClock(session)
  PROVE  Ledger!Next \/ UNCHANGED Ledger!ledger
  <1>1. Settles(session, ApplyExpiries(Touch(session)))
    BY TouchType, ApplyExpiriesSettles, AfterTouch
  <1> QED BY <1>1, SettleStep, StutterStep DEF TickClock

LEMMA EndTestStep ==
  ASSUME session \in SessionState, clock \in Int, session' = EndTest(session)
  PROVE  Ledger!Next \/ UNCHANGED Ledger!ledger
  <1> DEFINE t == Touch(session)
  <1>1. Settles(t, Ended(t)) /\ Ended(t).status = "ended"
    BY TouchType, EndedSettles
  <1>2. Ended(t).pendingItemResults = [i \in Items |-> NoResult]
    <2>1. t \in SessionState
      BY TouchType
    <2> DEFINE flushed == FlushPending(t, Items)
    <2>2. flushed \in SessionState /\ flushed.pendingItemResults = [i \in Items |-> NoResult]
      <3> HIDE DEF t
      <3> QED BY <2>1, FlushSettles
    <2> HIDE DEF flushed, t
    <2>3. Ended(t) = [flushed EXCEPT !.status = "ended", !.currentItemKey = NoItem,
                                     !.testOutcomes = RunOutcomeProcessing(flushed)]
      BY DEF Ended, flushed
    <2> QED BY <2>2, <2>3 DEF SessionState
  <1>3. Settles(session, Ended(t))
    BY <1>1, AfterTouch
  <1>4. CASE session.status = "ended"
    BY <1>4, StutterStep DEF EndTest
  <1>5. CASE session.status # "ended"
    <2>1. session' = Ended(t)
      BY <1>5 DEF EndTest
    <2> HIDE DEF t
    <2> QED BY <1>1, <1>2, <1>3, <1>5, <2>1, WorkStep DEF Settles
  <1> QED BY <1>4, <1>5

LEMMA SuspendStep ==
  ASSUME session \in SessionState, clock \in Int, session' = Suspend(session)
  PROVE  Ledger!Next \/ UNCHANGED Ledger!ledger
  <1> DEFINE a == ApplyExpiries(Touch(session))
  <1>1. a \in SessionState /\ Settles(session, a)
    BY TouchType, ApplyExpiriesType, ApplyExpiriesSettles, AfterTouch
  <1>2. CASE session.status # "in-progress"
    BY <1>2, StutterStep DEF Suspend
  <1>3. CASE session.status = "in-progress" /\ a.status # "in-progress"
    BY <1>1, <1>3, SettleStep DEF Suspend
  <1>4. CASE session.status = "in-progress" /\ a.status = "in-progress"
    <2>1. session' = [a EXCEPT !.status = "suspended"]
      BY <1>4 DEF Suspend
    <2> HIDE DEF a
    <2>2. /\ session'.status = "suspended"
          /\ session'.pendingItemResults = a.pendingItemResults
          /\ session'.attemptHistory = a.attemptHistory
      BY <1>1, <2>1 DEF SessionState
    <2>3. Collects(session.pendingItemResults, session.attemptHistory, session')
      BY <1>1, <2>2 DEF Settles, Collects
    <2> QED BY <1>4, <2>2, <2>3, WorkStep
  <1> QED BY <1>2, <1>3, <1>4

LEMMA ResumeStep ==
  ASSUME session \in SessionState, session' = Resume(session)
  PROVE  Ledger!Next \/ UNCHANGED Ledger!ledger
  <1>1. CASE session.status # "suspended"
    BY <1>1, StutterStep DEF Resume
  <1>2. CASE session.status = "suspended"
    <2>1. /\ session'.status = "in-progress"
          /\ session'.pendingItemResults = session.pendingItemResults
          /\ session'.attemptHistory = session.attemptHistory
      BY <1>2 DEF Resume, SessionState
    <2> QED BY <1>2, <2>1 DEF Ledger!Next, Ledger!Resume
  <1> QED BY <1>1, <1>2

LEMMA ReviewStep ==
  ASSUME session \in SessionState, NEW i \in Items,
         session' \in {Review(session, i), SetItemComment(session, i)}
  PROVE  UNCHANGED Ledger!ledger
  <1>1. \/ session' = session
        \/ session' = [session EXCEPT !.currentItemKey = i]
        \/ session' = [session EXCEPT !.itemComments = @ \cup {i}]
    BY DEF Review, SetItemComment
  <1> QED BY <1>1, StutterStep DEF SessionState

LEMMA StartsLedger ==
  ASSUME Init
  PROVE  Ledger!Init
  <1> DEFINE empty == [i \in Items |-> NoResult]
             none == [i \in Items |-> <<>>]
  <1>1. clock \in Int /\ session = StartState
    BY DEF Init
  <1>2. PICK s \in SessionState :
          /\ session = MoveToItem(s, FirstNavigable(s, 1))
          /\ s.status = "in-progress"
          /\ s.pendingItemResults = empty
          /\ s.attemptHistory = none
    BY <1>1, StartStateOpens
  <1>3. Settles(s, session)
    BY <1>2, FirstNavigableIsOpen, MoveToItemSettles
  <1>4. {i \in Items : empty[i] # NoResult /\ session.pendingItemResults[i] = NoResult} = {}
    OBVIOUS
  <1>5. Collects(empty, none, session)
    BY <1>2, <1>3 DEF Settles
  <1>6. session.pendingItemResults = empty /\ session.attemptHistory = none
    BY <1>4, <1>5 DEF Collects
  <1>7. session.status \in {"in-progress", "ended"}
    BY <1>2, <1>3 DEF Settles
  <1> QED BY <1>6, <1>7 DEF Ledger!Init

\* What the steps rest on: the ledger's invariant, and a clock within its bound.
ClockInv == clock \in 0 .. MaxClock

LEMMA ClockInvariant == Spec => []ClockInv
  <1>1. Init => ClockInv
    BY TimeAssumption DEF Init, ClockInv
  <1>2. ClockInv /\ [Next]_vars => ClockInv'
    BY DEF ClockInv, Next, vars, AdvanceClock, Becomes, DoMoveTo, DoNext, DoSubmit, DoEnd,
           DoTick, DoSuspend, DoResume, DoReview, DoComment
  <1> QED BY <1>1, <1>2, PTL DEF Spec

LEMMA StepsImplement ==
  ASSUME LedgerInv, ClockInv, [Next]_vars
  PROVE  [Ledger!Next]_(Ledger!ledger)
  <1>1. session \in SoundSessions /\ session \in SessionState /\ clock \in Int
    BY DEF LedgerInv, SoundSessions
  <1>2. CASE DoMoveTo
    BY <1>1, <1>2, MoveToStep DEF DoMoveTo, Becomes
  <1>3. CASE DoNext
    BY <1>1, <1>3, NextItemStep DEF DoNext, Becomes
  <1>4. CASE DoSubmit
    BY <1>1, <1>4, SubmitStep DEF DoSubmit, Becomes, ClockInv
  <1>5. CASE DoEnd
    BY <1>1, <1>5, EndTestStep DEF DoEnd, Becomes
  <1>6. CASE DoTick
    BY <1>1, <1>6, TickStep DEF DoTick, Becomes
  <1>7. CASE DoSuspend
    BY <1>1, <1>7, SuspendStep DEF DoSuspend, Becomes
  <1>8. CASE DoResume
    BY <1>1, <1>8, ResumeStep DEF DoResume, Becomes
  <1>9. CASE DoReview
    BY <1>1, <1>9, ReviewStep DEF DoReview, Becomes
  <1>10. CASE DoComment
    BY <1>1, <1>10, ReviewStep DEF DoComment, Becomes
  <1>11. CASE AdvanceClock \/ UNCHANGED vars
    BY <1>11, StutterStep DEF AdvanceClock, vars
  <1> QED BY <1>2, <1>3, <1>4, <1>5, <1>6, <1>7, <1>8, <1>9, <1>10, <1>11 DEF Next

\* The controller implements the ledger it promises, for every plan, every
\* order of calls and every movement of the clock: a submission is taken at
\* most once, a held one is collected with its whole part, and none is lost.
THEOREM ControllerImplementsLedger == Spec => ImplementsLedger
  <1>1. Init => Ledger!Init
    BY StartsLedger
  <1>2. LedgerInv /\ ClockInv /\ [Next]_vars => [Ledger!Next]_(Ledger!ledger)
    BY StepsImplement
  <1> QED BY <1>1, <1>2, LedgerInvariant, ClockInvariant, PTL
          DEF Spec, ImplementsLedger, Ledger!Spec

=============================================================================
