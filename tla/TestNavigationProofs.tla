------------------------ MODULE TestNavigationProofs ------------------------
(***************************************************************************)
(* What a candidate can rely on while moving through a test: linear items  *)
(* are served before they are left, an offered next() is honoured, time is *)
(* neither lost nor invented, and the report stands on its own.            *)
(***************************************************************************)
EXTENDS TestControllerProofs, FiniteSetTheorems

(***************************************************************************)
(* Served items.  LinearItemsServed speaks of the items behind the current *)
(* one; a backward branch may also leave items ahead of it, so the         *)
(* inductive invariant speaks of every presented item but the current one. *)
(***************************************************************************)

\* An item of a linear part may be left: it was served, or its time ran out.
MayBeLeft(s, i) ==
  (PartOf[i] \in Linear /\ NavigableInTime(s, i)) =>
    /\ Control[i].allowSkipping \/ i \in s.attemptedItems
    /\ s.seconds[<<"item", i>>] >= MinTime[<<"item", i>>]

LeftServed(s) ==
  s.status # "ended" => \A i \in s.presentedItems : i # s.currentItemKey => MayBeLeft(s, i)

LEMMA EffectiveMaxType ==
  ASSUME NEW c \in Scopes
  PROVE  EffectiveMax(c) \in Nat \cup {NoLimit}
  <1>1. DeclaredMax[c] \in Nat \cup {NoLimit}
    BY TimeAssumption
  <1>2. ExtraTime.multiplier \in Nat /\ ExtraTime.fixed \in Nat
    BY TimeAssumption
  <1>3. \A m, x \in Nat : m * x \in Nat /\ m + x \in Nat
    OBVIOUS
  <1> QED BY <1>1, <1>2, <1>3 DEF EffectiveMax

\* A scope past its limit stays past it, however time goes on.
LEMMA ExpiredForGood ==
  ASSUME NEW s \in SessionState, NEW t \in SessionState, NEW c \in Scopes,
         t.seconds[c] >= s.seconds[c], ScopeExpired(s, c)
  PROVE  ScopeExpired(t, c)
  <1>1. s.seconds[c] \in Nat /\ t.seconds[c] \in Nat
    BY DEF SessionState
  <1>2. EffectiveMax(c) \in Nat \cup {NoLimit}
    BY EffectiveMaxType
  <1> QED BY <1>1, <1>2 DEF ScopeExpired

LEMMA MayBeLeftLater ==
  ASSUME NEW s \in SessionState, NEW t \in SessionState, NEW i \in Items,
         \A c \in Scopes : t.seconds[c] >= s.seconds[c],
         s.attemptedItems \subseteq t.attemptedItems,
         MayBeLeft(s, i)
  PROVE  MayBeLeft(t, i)
  <1>1. EnclosingScopes(i) \subseteq Scopes
    BY EnclosingScopesAreListed
  <1>2. NavigableInTime(t, i) => NavigableInTime(s, i)
    BY <1>1, ExpiredForGood DEF NavigableInTime
  <1>3. <<"item", i>> \in Scopes
    BY DEF Scopes, ItemScopes
  <1>4. /\ s.seconds[<<"item", i>>] \in Nat /\ t.seconds[<<"item", i>>] \in Nat
        /\ t.seconds[<<"item", i>>] >= s.seconds[<<"item", i>>]
        /\ MinTime[<<"item", i>>] \in Nat
    BY <1>3, TimeAssumption DEF SessionState
  <1>5. s.seconds[<<"item", i>>] >= MinTime[<<"item", i>>]
          => t.seconds[<<"item", i>>] >= MinTime[<<"item", i>>]
    BY <1>4
  <1> QED BY <1>2, <1>5 DEF MayBeLeft

\* A step that presents at most the item it lands on, and leaves one that may be
\* left if it leaves one.
LEMMA LeftServedKept ==
  ASSUME NEW s \in SessionState, NEW t \in SessionState, LeftServed(s),
         t.status # "ended" =>
           /\ s.status # "ended"
           /\ \A c \in Scopes : t.seconds[c] >= s.seconds[c]
           /\ s.attemptedItems \subseteq t.attemptedItems
           /\ t.presentedItems \subseteq s.presentedItems \cup {t.currentItemKey}
           /\ \/ t.currentItemKey = s.currentItemKey
              \/ s.currentItemKey = NoItem
              \/ MayBeLeft(s, s.currentItemKey)
  PROVE  LeftServed(t)
  <1> SUFFICES ASSUME t.status # "ended", NEW i \in t.presentedItems, i # t.currentItemKey
               PROVE  MayBeLeft(t, i)
    BY DEF LeftServed
  <1>1. i \in Items /\ i \in s.presentedItems /\ i # NoItem
    BY DEF SessionState, Items, NoItem
  <1>2. MayBeLeft(s, i)
    BY <1>1 DEF LeftServed
  <1> QED BY <1>1, <1>2, MayBeLeftLater

\* Moving presents the item moved to and records nothing else of the candidate.
LEMMA MoveToItemPresents ==
  ASSUME NEW s \in SessionState, NEW i \in Items
  PROVE  /\ MoveToItem(s, i).attemptedItems = s.attemptedItems
         /\ MoveToItem(s, i).presentedItems = s.presentedItems \cup {i}
  <1> DEFINE leaving == {j \in Items : PartOf[j] = PartOf[s.currentItemKey]}
             flushed == FlushPending(s, leaving)
             closed == [flushed EXCEPT !.testOutcomes = RunOutcomeProcessing(flushed)]
             left == LeavePart(s, i)
             ready == WithTemplateDefaults(left, i)
  <1>1. left \in SessionState /\ flushed \in SessionState
    BY LeavePartType, FlushPendingType
  <1>2. flushed.attemptedItems = s.attemptedItems /\ flushed.presentedItems = s.presentedItems
    BY FlushKeepsSeconds DEF FlushPending, Commit, SessionState
  <1>3. left \in {s, closed}
    BY DEF LeavePart
  <1> HIDE DEF flushed, left
  <1>4. closed.attemptedItems = flushed.attemptedItems
        /\ closed.presentedItems = flushed.presentedItems
    BY <1>1 DEF SessionState
  <1>5. left.attemptedItems = s.attemptedItems /\ left.presentedItems = s.presentedItems
    BY <1>2, <1>3, <1>4
  <1>6. /\ ready \in SessionState
        /\ ready.attemptedItems = left.attemptedItems
        /\ ready.presentedItems = left.presentedItems
    BY <1>1, WithTemplateDefaultsType DEF WithTemplateDefaults, SessionState
  <1> HIDE DEF ready
  <1>7. /\ Present(ready, i).attemptedItems = ready.attemptedItems
        /\ Present(ready, i).presentedItems = ready.presentedItems \cup {i}
    BY <1>6 DEF Present, SessionState
  <1>8. MoveToItem(s, i) = Present(ready, i)
    BY DEF MoveToItem, ready, left, NoItem, Items
  <1> QED BY <1>5, <1>6, <1>7, <1>8

LEMMA MoveToItemServed ==
  ASSUME NEW s \in SessionState, NEW i \in Items \cup {NoItem}, LeftServed(s),
         s.status # "ended",
         \/ s.currentItemKey = NoItem
         \/ MayBeLeft(s, s.currentItemKey)
  PROVE  LeftServed(MoveToItem(s, i))
  <1>1. CASE i = NoItem
    BY <1>1, MoveToItemLands DEF LeftServed
  <1>2. CASE i \in Items
    <2>1. MoveToItem(s, i) \in SessionState
      BY MoveToItemType
    <2>2. /\ \A c \in Scopes : MoveToItem(s, i).seconds[c] >= s.seconds[c]
          /\ MoveToItem(s, i).currentItemKey = i
      <3>1. i # NoItem
        BY <1>2 DEF Items, NoItem
      <3>2. MoveToItem(s, i).seconds = s.seconds /\ MoveToItem(s, i).currentItemKey = i
        BY <3>1, MoveToItemLands
      <3>3. \A c \in Scopes : s.seconds[c] >= s.seconds[c]
        BY DEF SessionState
      <3> QED BY <3>2, <3>3
    <2> QED BY <1>2, <2>1, <2>2, MoveToItemPresents, LeftServedKept
  <1> QED BY <1>1, <1>2

\* An expiry moves on from an item whose time is spent, or ends the test.
LEMMA ApplyExpiriesServed ==
  ASSUME NEW s \in SessionState, LeftServed(s)
  PROVE  LeftServed(ApplyExpiries(s))
  <1> DEFINE k == FirstNavigable(s, s.currentItemKey + 1)
  <1>1. k \in Items \cup {NoItem}
    BY FirstNavigableIsOpen
  <1> HIDE DEF k
  <1>2. LeftServed(Ended(s))
    BY EndedKeepsSeconds DEF LeftServed
  <1>3. ASSUME s.status = "in-progress", ~NavigableInTime(s, s.currentItemKey)
        PROVE  LeftServed(MoveToItem(s, k))
    <2>1. MayBeLeft(s, s.currentItemKey)
      BY <1>3 DEF MayBeLeft
    <2> QED BY <1>1, <1>3, <2>1, MoveToItemServed
  <1> QED BY <1>2, <1>3 DEF ApplyExpiries, k

LEMMA TouchServed ==
  ASSUME NEW s \in SessionState, clock \in Int, LeftServed(s)
  PROVE  /\ LeftServed(Touch(s))
         /\ Touch(s).attemptedItems = s.attemptedItems
  <1> DEFINE t == Touch(s)
  <1>1. t \in SessionState
    BY TouchType
  <1>2. t.attemptedItems = s.attemptedItems
    BY DEF Touch, SessionState
  <1>3. /\ t.status = s.status /\ t.currentItemKey = s.currentItemKey
        /\ t.presentedItems = s.presentedItems
        /\ \A c \in Scopes : t.seconds[c] >= s.seconds[c]
    BY TouchKeeps
  <1> HIDE DEF t
  <1>4. LeftServed(t)
    BY <1>1, <1>2, <1>3, LeftServedKept
  <1> QED BY <1>2, <1>4 DEF t

\* A step that changes neither time nor the items presented.
LEMMA InPlaceServed ==
  ASSUME NEW s \in SessionState, NEW t \in SessionState, LeftServed(s),
         t.status # "ended" => s.status # "ended",
         t.currentItemKey = s.currentItemKey, t.presentedItems = s.presentedItems,
         t.seconds = s.seconds, s.attemptedItems \subseteq t.attemptedItems
  PROVE  LeftServed(t)
  <1>1. \A c \in Scopes : t.seconds[c] >= s.seconds[c]
    BY DEF SessionState
  <1> QED BY <1>1, LeftServedKept

LEMMA SubmitItemServed ==
  ASSUME NEW s \in SessionState, NEW i \in Items, NEW r \in Results, clock \in Int,
         LeftServed(s)
  PROVE  LeftServed(SubmitItem(s, i, r))
  <1> DEFINE t == Touch(s)
             body == SubmitBody(t, i, r)
             late == [t EXCEPT !.rejectedSubmissions = Append(@,
                        [itemKey |-> i, scope |-> BarringScope(t, i),
                         atTestSeconds |-> t.seconds[TestScope]])]
  <1>1. t \in SessionState /\ LeftServed(t)
    BY TouchType, TouchServed
  <1> HIDE DEF t
  <1>2. BarringScopes(t, i) # {} => LeftServed(ApplyExpiries(late))
    <2> SUFFICES ASSUME BarringScopes(t, i) # {} PROVE LeftServed(ApplyExpiries(late))
      OBVIOUS
    <2>1. late \in SessionState
      BY <1>1, LateType
    <2>2. /\ late.status = t.status /\ late.currentItemKey = t.currentItemKey
          /\ late.presentedItems = t.presentedItems /\ late.seconds = t.seconds
          /\ late.attemptedItems = t.attemptedItems
      BY <1>1 DEF SessionState
    <2> HIDE DEF late
    <2> QED BY <1>1, <2>1, <2>2, InPlaceServed, ApplyExpiriesServed
  <1>3. LeftServed(ApplyExpiries(body))
    <2>1. body \in SessionState
      BY <1>1, SubmitBodyType
    <2>2. /\ body.status = t.status /\ body.currentItemKey = t.currentItemKey
          /\ body.presentedItems = t.presentedItems /\ body.seconds = t.seconds
      BY <1>1, SubmitBodyKeeps
    <2>3. t.attemptedItems \subseteq body.attemptedItems
      BY <1>1 DEF SubmitBody, Commit, SessionState
    <2> HIDE DEF body
    <2> QED BY <1>1, <2>1, <2>2, <2>3, InPlaceServed, ApplyExpiriesServed
  <1>4. \/ SubmitItem(s, i, r) \in {s, ApplyExpiries(body)}
        \/ BarringScopes(t, i) # {} /\ SubmitItem(s, i, r) = ApplyExpiries(late)
    BY DEF SubmitItem, t
  <1> HIDE DEF body, late
  <1> QED BY <1>2, <1>3, <1>4

\* next() leaves a linear item only after it was served.
LEMMA NextItemServed ==
  ASSUME NEW s \in SessionState, clock \in Int, LeftServed(s)
  PROVE  LeftServed(NextItem(s))
  <1> DEFINE t == Touch(s)
             k == NextDestination(t)
  <1>1. t \in SessionState /\ LeftServed(t)
    BY TouchType, TouchServed
  <1> HIDE DEF t
  <1>2. ASSUME ~NextRefused(t) PROVE LeftServed(MoveToItem(t, k))
    <2>1. /\ t.currentItemKey # NoItem /\ t.status # "ended"
          /\ MayBeLeft(t, t.currentItemKey)
      <3>1. /\ t.currentItemKey # NoItem /\ t.status # "ended"
            /\ PartOf[t.currentItemKey] \in Linear =>
                 /\ Control[t.currentItemKey].allowSkipping
                      \/ t.currentItemKey \in t.attemptedItems
                 /\ ~(t.seconds[<<"item", t.currentItemKey>>]
                        < MinTime[<<"item", t.currentItemKey>>])
        BY <1>2 DEF NextRefused, MinTimeBlocked
      <3>2. <<"item", t.currentItemKey>> \in Scopes
        BY <1>1, <3>1 DEF Scopes, ItemScopes, SessionState
      <3>3. /\ t.seconds[<<"item", t.currentItemKey>>] \in Nat
            /\ MinTime[<<"item", t.currentItemKey>>] \in Nat
        BY <1>1, <3>2, TimeAssumption DEF SessionState
      <3> QED BY <3>1, <3>3 DEF MayBeLeft
    <2>2. k \in Items \cup {NoItem}
      BY <1>1, <2>1, NextDestinationType
    <2> HIDE DEF k
    <2> QED BY <1>1, <2>1, <2>2, MoveToItemServed
  <1>3. LeftServed(ApplyExpiries(t))
    BY <1>1, ApplyExpiriesServed
  <1>4. \/ NextItem(s) \in {s, ApplyExpiries(t)}
        \/ ~NextRefused(t) /\ NextItem(s) = MoveToItem(t, k)
    BY DEF NextItem, WithTransition, t
  <1> HIDE DEF k
  <1> QED BY <1>2, <1>3, <1>4

\* moveTo() never leaves or enters a linear part.
LEMMA MoveToServed ==
  ASSUME NEW s \in SessionState, NEW i \in Items, clock \in Int, LeftServed(s)
  PROVE  LeftServed(MoveTo(s, i))
  <1> DEFINE t == Touch(s)
  <1>1. t \in SessionState /\ LeftServed(t)
    BY TouchType, TouchServed
  <1>2. LeftServed(ApplyExpiries(t))
    BY <1>1, ApplyExpiriesServed
  <1>3. ASSUME s.status = "in-progress", ~MoveToRefused(t, i) PROVE LeftServed(Present(t, i))
    <2>1. t.status # "ended"
      BY <1>3, TouchKeeps
    <2> HIDE DEF t
    <2>2. Present(t, i) \in SessionState
      BY <1>1, PresentType
    <2>3. /\ Present(t, i).seconds = t.seconds
          /\ Present(t, i).currentItemKey = i
          /\ Present(t, i).presentedItems = t.presentedItems \cup {i}
          /\ Present(t, i).attemptedItems = t.attemptedItems
      BY <1>1 DEF Present, SessionState
    <2>4. MayBeLeft(t, t.currentItemKey)
      BY <1>3 DEF MoveToRefused, MayBeLeft
    <2>5. \A c \in Scopes : t.seconds[c] >= t.seconds[c]
      BY <1>1 DEF SessionState
    <2> QED BY <1>1, <2>1, <2>2, <2>3, <2>4, <2>5, LeftServedKept
  <1> HIDE DEF t
  <1> QED BY <1>2, <1>3 DEF MoveTo, WithTransition, t

LEMMA OthersServed ==
  ASSUME NEW s \in SessionState, clock \in Int, LeftServed(s)
  PROVE  /\ LeftServed(EndTest(s)) /\ LeftServed(TickClock(s))
         /\ LeftServed(Suspend(s)) /\ LeftServed(Resume(s))
         /\ \A i \in Items : LeftServed(Review(s, i)) /\ LeftServed(SetItemComment(s, i))
  <1> DEFINE t == Touch(s)
             settled == ApplyExpiries(t)
             parked == [settled EXCEPT !.status = "suspended"]
             open == [s EXCEPT !.status = "in-progress", !.lastTransitionAtMs = clock]
  <1>1. /\ t \in SessionState /\ settled \in SessionState
        /\ LeftServed(settled)
    BY TouchType, ApplyExpiriesType, TouchServed, ApplyExpiriesServed
  <1>2. LeftServed(Ended(t))
    BY <1>1, EndedKeepsSeconds DEF LeftServed
  <1>3. /\ EndTest(s) \in {s, Ended(t)}
        /\ TickClock(s) \in {s, settled}
        /\ \/ Suspend(s) \in {s, settled}
           \/ settled.status = "in-progress" /\ Suspend(s) = parked
        /\ \/ Resume(s) = s
           \/ s.status = "suspended" /\ Resume(s) = open
    BY DEF EndTest, TickClock, Suspend, Resume
  <1> HIDE DEF settled, t
  <1>4. settled.status = "in-progress" => LeftServed(parked)
    <2>1. /\ parked \in SessionState
          /\ parked.currentItemKey = settled.currentItemKey
          /\ parked.presentedItems = settled.presentedItems
          /\ parked.seconds = settled.seconds
          /\ parked.attemptedItems = settled.attemptedItems
      BY <1>1 DEF SessionState
    <2> HIDE DEF parked
    <2> QED BY <1>1, <2>1, InPlaceServed
  <1>5. s.status = "suspended" => LeftServed(open)
    <2>1. /\ open \in SessionState
          /\ open.currentItemKey = s.currentItemKey
          /\ open.presentedItems = s.presentedItems
          /\ open.seconds = s.seconds
          /\ open.attemptedItems = s.attemptedItems
      BY DEF SessionState
    <2> HIDE DEF open
    <2> QED BY <2>1, InPlaceServed
  <1>6. ASSUME NEW i \in Items PROVE LeftServed(Review(s, i)) /\ LeftServed(SetItemComment(s, i))
    <2> DEFINE noted == [s EXCEPT !.itemComments = @ \cup {i}]
               shown == [s EXCEPT !.currentItemKey = i]
    <2>1. /\ noted \in SessionState
          /\ noted.status = s.status
          /\ noted.currentItemKey = s.currentItemKey
          /\ noted.presentedItems = s.presentedItems
          /\ noted.seconds = s.seconds
          /\ noted.attemptedItems = s.attemptedItems
      BY DEF SessionState
    <2>2. shown.status = s.status
      BY DEF SessionState
    <2> HIDE DEF noted, shown
    <2>3. LeftServed(noted)
      BY <2>1, InPlaceServed
    <2>4. s.status = "ended" => LeftServed(shown)
      BY <2>2 DEF LeftServed
    <2> QED BY <2>3, <2>4 DEF Review, SetItemComment, noted, shown
  <1> HIDE DEF parked, open
  <1> QED BY <1>1, <1>2, <1>3, <1>4, <1>5, <1>6

LEMMA StartStateServed ==
  ASSUME clock \in Int
  PROVE  LeftServed(StartState)
  <1>1. PICK s \in SessionState : /\ s.status = "in-progress"
                                 /\ StartState = MoveToItem(s, FirstNavigable(s, 1))
                                 /\ s.presentedItems = {} /\ s.currentItemKey = NoItem
    BY StartStateOpens
  <1>2. LeftServed(s)
    BY <1>1 DEF LeftServed
  <1> QED BY <1>1, <1>2, FirstNavigableIsOpen, MoveToItemServed

\* An item of a linear part the candidate is past was answered or may be skipped,
\* and was held for its minTime, unless its time ran out: through branches, forced
\* moves, late submissions and suspensions alike.
THEOREM LinearItemsAreServed == Spec => []LinearItemsServed
  <1>1. Init => LeftServed(session)
    BY StartStateServed DEF Init
  <1>2. TypeOK /\ LeftServed(session) /\ [Next]_vars => LeftServed(session')
    <2> SUFFICES ASSUME TypeOK, LeftServed(session), [Next]_vars PROVE LeftServed(session')
      OBVIOUS
    <2>1. session \in SessionState /\ clock \in Int
      BY DEF TypeOK
    <2>2. CASE DoMoveTo
      BY <2>1, <2>2, MoveToServed DEF DoMoveTo, Becomes
    <2>3. CASE DoNext
      BY <2>1, <2>3, NextItemServed DEF DoNext, Becomes
    <2>4. CASE DoSubmit
      BY <2>1, <2>4, SubmitItemServed DEF DoSubmit, Becomes
    <2>5. CASE DoEnd \/ DoTick \/ DoSuspend \/ DoResume \/ DoReview \/ DoComment
      BY <2>1, <2>5, OthersServed
         DEF DoEnd, DoTick, DoSuspend, DoResume, DoReview, DoComment, Becomes
    <2>6. CASE AdvanceClock \/ UNCHANGED vars
      BY <2>6 DEF AdvanceClock, vars
    <2> QED BY <2>2, <2>3, <2>4, <2>5, <2>6 DEF Next
  <1>3. TypeOK /\ LeftServed(session) => LinearItemsServed
    <2> SUFFICES ASSUME TypeOK, LeftServed(session), session.status # "ended",
                        NEW i \in session.presentedItems, PartOf[i] \in Linear,
                        i < session.currentItemKey, NavigableInTime(session, i)
                 PROVE  /\ Control[i].allowSkipping \/ i \in session.attemptedItems
                        /\ session.seconds[<<"item", i>>] >= MinTime[<<"item", i>>]
      BY DEF LinearItemsServed
    <2>1. i # session.currentItemKey
      <3>1. i \in Int /\ session.currentItemKey \in Int
        BY DEF TypeOK, SessionState, Items, NoItem
      <3> QED BY <3>1
    <2> QED BY <2>1 DEF LeftServed, MayBeLeft
  <1>4. LeftServed(session)' <=> LeftServed(session')
    BY DEF LeftServed, MayBeLeft, NavigableInTime, ScopeExpired
  <1> QED BY <1>1, <1>2, <1>3, <1>4, TypeCorrect, PTL DEF Spec

(***************************************************************************)
(* Offers.  canNext() judges the recorded state and next() the folded one. *)
(* They agree unless folding closes a scope around the candidate, which    *)
(* moves the session on by itself, or changes a condition.                 *)
(***************************************************************************)

\* No condition of the plan reads a duration.
PlanConditions ==
  UNION {PreConditions[i] \cup {BranchRules[i][k].when : k \in 1 .. Len(BranchRules[i])} : i \in Items}

TimelessConditions ==
  \A c \in PlanConditions : \A s \in SessionState, now \in Int, spent \in [Scopes -> Nat] :
    Evaluate(c, [s EXCEPT !.lastTransitionAtMs = now, !.seconds = spent]) = Evaluate(c, s)

LEMMA TouchShape ==
  ASSUME NEW s \in SessionState, clock \in Int
  PROVE  /\ Touch(s).attemptedItems = s.attemptedItems
         /\ \/ Touch(s) = s
            \/ \E spent \in [Scopes -> Nat] :
                 Touch(s) = [s EXCEPT !.lastTransitionAtMs = clock, !.seconds = spent]
         /\ \A c \in Scopes \ RunningScopes(s) : Touch(s).seconds[c] = s.seconds[c]
  <1> DEFINE spent == [c \in Scopes |-> IF c \in RunningScopes(s)
                                        THEN s.seconds[c] + Elapsed(s)
                                        ELSE s.seconds[c]]
  <1>1. Elapsed(s) \in Nat /\ s.seconds \in [Scopes -> Nat]
    BY DEF Elapsed, SessionState
  <1>2. spent \in [Scopes -> Nat]
    BY <1>1
  <1>3. \A c \in Scopes \ RunningScopes(s) : spent[c] = s.seconds[c]
    OBVIOUS
  <1>4. Touch(s) = IF s.status # "in-progress" THEN s
                   ELSE [s EXCEPT !.lastTransitionAtMs = clock, !.seconds = spent]
    BY DEF Touch
  <1> HIDE DEF spent
  <1>5. /\ [s EXCEPT !.lastTransitionAtMs = clock, !.seconds = spent].seconds = spent
        /\ Touch(s).attemptedItems = s.attemptedItems
    BY <1>4 DEF SessionState
  <1> QED BY <1>2, <1>3, <1>4, <1>5

LEMMA TouchKeepsConditions ==
  ASSUME TimelessConditions, NEW s \in SessionState, clock \in Int
  PROVE  /\ \A c \in PlanConditions : ConditionPasses(c, Touch(s)) <=> ConditionPasses(c, s)
         /\ \A i \in Items : PreConditionsPass(i, Touch(s)) <=> PreConditionsPass(i, s)
         /\ \A i \in Items : FiringRules(Touch(s), i) = FiringRules(s, i)
  <1>1. ASSUME NEW c \in PlanConditions PROVE Evaluate(c, Touch(s)) = Evaluate(c, s)
    <2>1. CASE Touch(s) = s
      BY <2>1
    <2>2. CASE Touch(s) # s
      <3>1. PICK spent \in [Scopes -> Nat] :
              Touch(s) = [s EXCEPT !.lastTransitionAtMs = clock, !.seconds = spent]
        BY <2>2, TouchShape
      <3>2. Evaluate(c, [s EXCEPT !.lastTransitionAtMs = clock, !.seconds = spent])
              = Evaluate(c, s)
        BY <1>1, Zenon DEF TimelessConditions
      <3> QED BY <3>1, <3>2, Zenon
    <2> QED BY <2>1, <2>2
  <1>2. \A c \in PlanConditions : ConditionPasses(c, Touch(s)) <=> ConditionPasses(c, s)
    BY <1>1 DEF ConditionPasses
  <1>3. ASSUME NEW i \in Items PROVE PreConditionsPass(i, Touch(s)) <=> PreConditionsPass(i, s)
    <2>1. \A c \in PreConditions[i] : c \in PlanConditions
      BY <1>3 DEF PlanConditions
    <2> QED BY <1>2, <2>1 DEF PreConditionsPass
  <1>4. ASSUME NEW i \in Items PROVE FiringRules(Touch(s), i) = FiringRules(s, i)
    <2>1. ASSUME NEW k \in 1 .. Len(BranchRules[i]) PROVE BranchRules[i][k].when \in PlanConditions
      BY <1>4, <2>1 DEF PlanConditions
    <2>2. \A k \in 1 .. Len(BranchRules[i]) : RuleFires(Touch(s), i, k) <=> RuleFires(s, i, k)
      BY <1>2, <2>1 DEF RuleFires
    <2> QED BY <2>2 DEF FiringRules
  <1> QED BY <1>2, <1>3, <1>4

\* When folding spends nothing around the candidate it spends nothing anywhere.
LEMMA TouchKeepsExpiry ==
  ASSUME NEW s \in SessionState, clock \in Int, s.currentItemKey # NoItem,
         NavigableInTime(Touch(s), s.currentItemKey)
  PROVE  /\ \A c \in Scopes : ScopeExpired(Touch(s), c) <=> ScopeExpired(s, c)
         /\ \A i \in Items : NavigableInTime(Touch(s), i) <=> NavigableInTime(s, i)
  <1> DEFINE t == Touch(s)
             i == s.currentItemKey
  <1>1. t \in SessionState /\ \A c \in Scopes : t.seconds[c] >= s.seconds[c]
    BY TouchType, TouchKeeps
  <1>2. \A c \in Scopes \ RunningScopes(s) : t.seconds[c] = s.seconds[c]
    BY TouchShape
  <1>3. RunningScopes(s) \subseteq EnclosingScopes(i)
    BY DEF RunningScopes, EnclosingScopes
  <1>4. \A c \in EnclosingScopes(i) : ~ScopeExpired(t, c)
    BY DEF NavigableInTime
  <1> HIDE DEF t, i
  <1>5. ASSUME NEW c \in Scopes PROVE ScopeExpired(t, c) <=> ScopeExpired(s, c)
    <2>1. CASE c \in RunningScopes(s)
      BY <1>1, <1>3, <1>4, <2>1, ExpiredForGood
    <2>2. CASE c \notin RunningScopes(s)
      BY <1>2, <2>2 DEF ScopeExpired
    <2> QED BY <2>1, <2>2
  <1>6. \A j \in Items : NavigableInTime(t, j) <=> NavigableInTime(s, j)
    BY <1>5, EnclosingScopesAreListed DEF NavigableInTime
  <1> QED BY <1>5, <1>6 DEF t

\* What next() weighs is then the same before and after the fold, but for minTime,
\* which more time only eases.
LEMMA TouchKeepsOffer ==
  ASSUME TimelessConditions, NEW s \in SessionState, clock \in Int,
         NavigableInTime(Touch(s), s.currentItemKey), ~NextRefused(s)
  PROVE  ~NextRefused(Touch(s))
  <1> DEFINE t == Touch(s)
             i == s.currentItemKey
             to == FirstNavigable(s, i + 1)
  <1>1. i # NoItem /\ s.status = "in-progress"
    BY DEF NextRefused
  <1>2. /\ t \in SessionState /\ t.status = s.status /\ t.currentItemKey = i
        /\ t.attemptedItems = s.attemptedItems
        /\ \A c \in Scopes : t.seconds[c] >= s.seconds[c]
    BY TouchType, TouchKeeps, TouchShape
  <1>3. /\ \A j \in Items : PreConditionsPass(j, t) <=> PreConditionsPass(j, s)
        /\ \A j \in Items : FiringRules(t, j) = FiringRules(s, j)
    BY TouchKeepsConditions
  <1>4. \A j \in Items : NavigableInTime(t, j) <=> NavigableInTime(s, j)
    BY <1>1, TouchKeepsExpiry
  <1>5. i \in Items
    BY <1>1 DEF SessionState
  <1> HIDE DEF t
  <1>6. FirstNavigable(t, i + 1) = to
    BY <1>3, <1>4 DEF FirstNavigable
  <1>7. FiringRules(t, i) = FiringRules(s, i)
    BY <1>3, <1>5
  <1>8. UnskippableLeft(t, PartOf[i]) <=> UnskippableLeft(s, PartOf[i])
    BY <1>2, <1>3, <1>4 DEF UnskippableLeft
  <1>9. MinTimeBlocked(t, i, to) => MinTimeBlocked(s, i, to)
    <2>1. ASSUME NEW c \in Scopes, t.seconds[c] < MinTime[c] PROVE s.seconds[c] < MinTime[c]
      <3>1. t.seconds[c] \in Nat /\ s.seconds[c] \in Nat /\ MinTime[c] \in Nat
            /\ t.seconds[c] >= s.seconds[c]
        BY <1>2, TimeAssumption DEF SessionState
      <3> QED BY <2>1, <3>1
    <2>2. <<"item", i>> \in Scopes /\ \A x \in SectionsOf(i) : <<"section", x>> \in Scopes
      BY <1>5, EnclosingScopesAreListed DEF EnclosingScopes
    <2> HIDE DEF to
    <2> QED BY <2>1, <2>2 DEF MinTimeBlocked
  <1> HIDE DEF to
  <1> QED BY <1>1, <1>2, <1>6, <1>7, <1>8, <1>9 DEF NextRefused, to, i, t

\* A move to another item, or to the end, shows.
LEMMA MovesShow ==
  ASSUME NEW s \in SessionState, NEW t \in SessionState, s.status = "in-progress",
         t.currentItemKey = s.currentItemKey,
         NEW k \in Items \cup {NoItem}, k = NoItem \/ k > s.currentItemKey
  PROVE  MoveToItem(t, k) # s
  <1>1. CASE k = NoItem
    BY <1>1, MoveToItemLands
  <1>2. CASE k # NoItem
    <2>1. MoveToItem(t, k).currentItemKey = k
      BY <1>2, MoveToItemLands
    <2>2. k # s.currentItemKey
      <3>1. s.currentItemKey \in Int /\ k \in Int
        BY DEF SessionState, Items, NoItem
      <3> QED BY <1>2, <3>1
    <2> QED BY <2>1, <2>2
  <1> QED BY <1>1, <1>2

\* Where branch rules name later items and conditions do not read durations, the
\* next() canNext offers always changes the session, whatever the clock has done
\* between the offer and the call.
THEOREM NextOffersAreHonoured ==
  ASSUME ForwardRules, TimelessConditions
  PROVE  Spec => []NextOfferIsHonoured
  <1>1. ASSUME TypeOK, ~NextRefused(session) PROVE NextItem(session) # session
    <2> DEFINE s == session
               t == Touch(s)
               i == s.currentItemKey
               k == FirstNavigable(t, i + 1)
               to == NextDestination(t)
    <2>1. s \in SessionState /\ clock \in Int
      BY <1>1 DEF TypeOK
    <2>2. s.status = "in-progress" /\ i # NoItem
      BY <1>1 DEF NextRefused
    <2>3. t \in SessionState /\ t.status = s.status /\ t.currentItemKey = i
      BY <2>1, TouchType, TouchKeeps
    <2> HIDE DEF s, t
    <2>4. MoveToItem(t, k) # s /\ MoveToItem(t, k) # t
      <3>1. k \in Items \cup {NoItem} /\ (k # NoItem => k >= i + 1)
        BY FirstNavigableIsOpen
      <3>2. k = NoItem \/ k > i
        <4>1. i \in Int /\ k \in Int
          BY <2>1, <3>1 DEF SessionState, Items, NoItem
        <4> QED BY <3>1, <4>1
      <3> HIDE DEF k
      <3> QED BY <2>1, <2>2, <2>3, <3>1, <3>2, MovesShow
    <2>5. Ended(t) # s /\ Ended(t) # t
      BY <2>2, <2>3, EndedKeepsSeconds
    <2>6. CASE ApplyExpiries(t) # t
      <3>1. NextItem(s) = ApplyExpiries(t)
        BY <2>2, <2>6 DEF NextItem, WithTransition, t
      <3>2. ApplyExpiries(t) \in {Ended(t), MoveToItem(t, k)}
        BY <2>3, <2>6 DEF ApplyExpiries
      <3> QED BY <2>4, <2>5, <3>1, <3>2 DEF s
    <2>7. CASE ApplyExpiries(t) = t
      <3>1. NavigableInTime(t, i)
        BY <2>2, <2>3, <2>4, <2>5, <2>7 DEF ApplyExpiries
      <3>2. ~NextRefused(t)
        BY <1>1, <2>1, <3>1, TouchKeepsOffer DEF t, s
      <3>3. NextItem(s) = MoveToItem(t, to)
        BY <2>2, <2>7, <3>2 DEF NextItem, WithTransition, t
      <3>4. to \in Items \cup {NoItem} /\ (to = NoItem \/ to > i)
        BY <2>2, <2>3, NextDestinationType, NextDestinationIsAhead
      <3> HIDE DEF to
      <3> QED BY <2>1, <2>2, <2>3, <3>3, <3>4, MovesShow DEF s
    <2> QED BY <2>6, <2>7
  <1>2. TypeOK => NextOfferIsHonoured
    BY <1>1 DEF NextOfferIsHonoured
  <1> QED BY <1>2, TypeCorrect, PTL

(***************************************************************************)
(* The report stands on its own.  Outcome processing follows every commit, *)
(* so the recorded test outcomes are at all times what the rules make of   *)
(* the commits on record; and the report lists those commits.              *)
(***************************************************************************)

SameCommits(s, t) ==
  /\ t.itemOutcomes = s.itemOutcomes
  /\ t.attemptCounts = s.attemptCounts
  /\ t.attemptHistory = s.attemptHistory
  /\ t.respondedItems = s.respondedItems
  /\ t.correctItems = s.correctItems
  /\ t.incorrectItems = s.incorrectItems

\* Outcome rules read what attempts have committed, and nothing else.
RulesReadCommits ==
  \A s, t \in SessionState : SameCommits(s, t) => OutcomeRules(t) = OutcomeRules(s)

OutcomesFollow(s) == s.testOutcomes = RunOutcomeProcessing(s)

LEMMA SameCommitsScored ==
  ASSUME RulesReadCommits, NEW s \in SessionState, NEW t \in SessionState, SameCommits(s, t)
  PROVE  /\ RunOutcomeProcessing(t) = RunOutcomeProcessing(s)
         /\ t.testOutcomes = RunOutcomeProcessing(s) => OutcomesFollow(t)
         /\ OutcomesFollow(s) /\ t.testOutcomes = s.testOutcomes => OutcomesFollow(t)
  BY DEF RulesReadCommits, RunOutcomeProcessing, OutcomesFollow

\* A record that takes the outcomes of its own commits is scored.
LEMMA RunScores ==
  ASSUME RulesReadCommits, NEW s \in SessionState
  PROVE  OutcomesFollow([s EXCEPT !.testOutcomes = RunOutcomeProcessing(s)])
  <1> DEFINE t == [s EXCEPT !.testOutcomes = RunOutcomeProcessing(s)]
  <1>1. RunOutcomeProcessing(s) \in TestOutcomes
    BY OutcomeProcessingType
  <1>2. t \in SessionState /\ SameCommits(s, t) /\ t.testOutcomes = RunOutcomeProcessing(s)
    BY <1>1 DEF SessionState, SameCommits
  <1> HIDE DEF t
  <1>3. OutcomesFollow(t)
    BY <1>2, SameCommitsScored
  <1> QED BY <1>3 DEF t

LEMMA EndedScored ==
  ASSUME RulesReadCommits, NEW s \in SessionState
  PROVE  OutcomesFollow(Ended(s))
  <1> DEFINE flushed == FlushPending(s, Items)
  <1>1. flushed \in SessionState /\ Ended(s) \in SessionState
    BY FlushPendingType, EndedType
  <1>2. Ended(s) = [flushed EXCEPT !.status = "ended", !.currentItemKey = NoItem,
                                   !.testOutcomes = RunOutcomeProcessing(flushed)]
    BY DEF Ended
  <1> HIDE DEF flushed
  <1>3. /\ SameCommits(flushed, Ended(s))
        /\ Ended(s).testOutcomes = RunOutcomeProcessing(flushed)
    BY <1>1, <1>2 DEF SameCommits, SessionState
  <1> QED BY <1>1, <1>3, SameCommitsScored

LEMMA MoveToItemScored ==
  ASSUME RulesReadCommits, NEW s \in SessionState, NEW i \in Items \cup {NoItem}, OutcomesFollow(s)
  PROVE  OutcomesFollow(MoveToItem(s, i))
  <1>1. CASE i = NoItem
    BY <1>1, EndedScored DEF MoveToItem
  <1>2. CASE i # NoItem
    <2> DEFINE leaving == {j \in Items : PartOf[j] = PartOf[s.currentItemKey]}
               flushed == FlushPending(s, leaving)
               left == LeavePart(s, i)
               ready == WithTemplateDefaults(left, i)
    <2>1. i \in Items /\ left \in SessionState /\ flushed \in SessionState
      BY <1>2, LeavePartType, FlushPendingType, SMTT(30)
    <2>2. OutcomesFollow(left)
      <3>1. left \in {s, [flushed EXCEPT !.testOutcomes = RunOutcomeProcessing(flushed)]}
        BY SMTT(30) DEF LeavePart
      <3> HIDE DEF flushed, left
      <3> QED BY <2>1, <3>1, RunScores, SMTT(30)
    <2> HIDE DEF left
    <2>3. /\ ready \in SessionState /\ SameCommits(left, ready)
          /\ ready.testOutcomes = left.testOutcomes
      BY <2>1, WithTemplateDefaultsType DEF WithTemplateDefaults, SessionState, SameCommits
    <2> HIDE DEF ready
    <2>4. /\ Present(ready, i) \in SessionState /\ SameCommits(ready, Present(ready, i))
          /\ Present(ready, i).testOutcomes = ready.testOutcomes
      <3>1. Present(ready, i) \in SessionState
        BY <2>1, <2>3, PresentType
      <3> QED BY <2>3, <3>1 DEF Present, SessionState, SameCommits
    <2>5. MoveToItem(s, i) = Present(ready, i)
      BY <1>2 DEF MoveToItem, ready, left
    <2> QED BY <2>1, <2>2, <2>3, <2>4, <2>5, SameCommitsScored
  <1> QED BY <1>1, <1>2

LEMMA ApplyExpiriesScored ==
  ASSUME RulesReadCommits, NEW s \in SessionState, OutcomesFollow(s)
  PROVE  OutcomesFollow(ApplyExpiries(s))
  <1>1. FirstNavigable(s, s.currentItemKey + 1) \in Items \cup {NoItem}
    BY FirstNavigableIsOpen
  <1> QED BY <1>1, EndedScored, MoveToItemScored DEF ApplyExpiries

LEMMA TouchScored ==
  ASSUME RulesReadCommits, NEW s \in SessionState, clock \in Int, OutcomesFollow(s)
  PROVE  OutcomesFollow(Touch(s))
  <1> DEFINE t == Touch(s)
  <1>1. t \in SessionState
    BY TouchType
  <1>2. SameCommits(s, t) /\ t.testOutcomes = s.testOutcomes
    BY DEF Touch, SessionState, SameCommits
  <1> QED BY <1>1, <1>2, SameCommitsScored

LEMMA SubmitItemScored ==
  ASSUME RulesReadCommits, NEW s \in SessionState, NEW i \in Items, NEW r \in Results,
         clock \in Int, OutcomesFollow(s)
  PROVE  OutcomesFollow(SubmitItem(s, i, r))
  <1> DEFINE t == Touch(s)
             body == SubmitBody(t, i, r)
             late == [t EXCEPT !.rejectedSubmissions = Append(@,
                        [itemKey |-> i, scope |-> BarringScope(t, i),
                         atTestSeconds |-> t.seconds[TestScope]])]
  <1>1. t \in SessionState /\ OutcomesFollow(t)
    BY TouchType, TouchScored
  <1> HIDE DEF t
  <1>2. BarringScopes(t, i) # {} => OutcomesFollow(ApplyExpiries(late))
    <2> SUFFICES ASSUME BarringScopes(t, i) # {} PROVE OutcomesFollow(ApplyExpiries(late))
      OBVIOUS
    <2>1. late \in SessionState
      BY <1>1, LateType
    <2>2. SameCommits(t, late) /\ late.testOutcomes = t.testOutcomes
      BY <1>1 DEF SessionState, SameCommits
    <2> HIDE DEF late
    <2> QED BY <1>1, <2>1, <2>2, SameCommitsScored, ApplyExpiriesScored
  <1>3. OutcomesFollow(ApplyExpiries(body))
    <2> DEFINE entry == [result |-> r, submittedAtMs |-> clock]
               marked == [t EXCEPT !.attemptedItems = @ \cup {i}]
               committed == Commit(marked, [j \in {i} |-> entry])
               held == [t EXCEPT !.pendingItemResults[i] = entry,
                                 !.attemptedItems = @ \cup {i}]
    <2>1. body \in SessionState
      BY <1>1, SubmitBodyType
    <2>2. committed \in SessionState
      <3>1. marked \in SessionState
        BY <1>1 DEF SessionState
      <3>2. entry \in Submission
        BY SubmissionType
      <3> HIDE DEF marked, entry
      <3> QED BY <3>1, <3>2, CommitType
    <2>3. SameCommits(t, held) /\ held.testOutcomes = t.testOutcomes
      BY <1>1 DEF SessionState, SameCommits
    <2>4. body \in {held, [committed EXCEPT !.testOutcomes = RunOutcomeProcessing(committed)]}
      BY DEF SubmitBody
    <2>5. OutcomesFollow([committed EXCEPT !.testOutcomes = RunOutcomeProcessing(committed)])
      BY <2>2, RunScores
    <2> HIDE DEF body, held, committed
    <2>6. OutcomesFollow(body)
      BY <1>1, <2>1, <2>3, <2>4, <2>5, SameCommitsScored
    <2> QED BY <2>1, <2>6, ApplyExpiriesScored
  <1>4. \/ SubmitItem(s, i, r) \in {s, ApplyExpiries(body)}
        \/ BarringScopes(t, i) # {} /\ SubmitItem(s, i, r) = ApplyExpiries(late)
    BY DEF SubmitItem, t
  <1> HIDE DEF body, late
  <1> QED BY <1>2, <1>3, <1>4

LEMMA MovesScored ==
  ASSUME RulesReadCommits, NEW s \in SessionState, clock \in Int, OutcomesFollow(s)
  PROVE  OutcomesFollow(NextItem(s)) /\ \A i \in Items : OutcomesFollow(MoveTo(s, i))
  <1> DEFINE t == Touch(s)
             k == NextDestination(t)
  <1>1. t \in SessionState /\ OutcomesFollow(t) /\ OutcomesFollow(ApplyExpiries(t))
    BY TouchType, TouchScored, ApplyExpiriesScored
  <1> HIDE DEF t
  <1>2. ~NextRefused(t) => OutcomesFollow(MoveToItem(t, k))
    <2>1. ~NextRefused(t) => k \in Items \cup {NoItem}
      BY <1>1, NextDestinationType DEF NextRefused
    <2> HIDE DEF k
    <2> QED BY <1>1, <2>1, MoveToItemScored
  <1>3. ASSUME NEW i \in Items PROVE OutcomesFollow(Present(t, i))
    <2>1. /\ Present(t, i) \in SessionState /\ SameCommits(t, Present(t, i))
          /\ Present(t, i).testOutcomes = t.testOutcomes
      BY <1>1, PresentType, ZenonT(40) DEF Present, SessionState, SameCommits
    <2> QED BY <1>1, <2>1, SameCommitsScored
  <1>4. \A i \in Items : MoveTo(s, i) \in {s, ApplyExpiries(t), Present(t, i)}
    BY DEF MoveTo, WithTransition, t
  <1>5. \/ NextItem(s) \in {s, ApplyExpiries(t)}
        \/ ~NextRefused(t) /\ NextItem(s) = MoveToItem(t, k)
    BY DEF NextItem, WithTransition, t
  <1> HIDE DEF k
  <1> QED BY <1>1, <1>2, <1>3, <1>4, <1>5

LEMMA OthersScored ==
  ASSUME RulesReadCommits, NEW s \in SessionState, clock \in Int, OutcomesFollow(s)
  PROVE  /\ OutcomesFollow(EndTest(s)) /\ OutcomesFollow(TickClock(s))
         /\ OutcomesFollow(Suspend(s)) /\ OutcomesFollow(Resume(s))
         /\ \A i \in Items : OutcomesFollow(Review(s, i)) /\ OutcomesFollow(SetItemComment(s, i))
  <1> DEFINE t == Touch(s)
             settled == ApplyExpiries(t)
             parked == [settled EXCEPT !.status = "suspended"]
             open == [s EXCEPT !.status = "in-progress", !.lastTransitionAtMs = clock]
             noted(i) == [s EXCEPT !.itemComments = @ \cup {i}]
             shown(i) == [s EXCEPT !.currentItemKey = i]
  <1>1. /\ t \in SessionState /\ settled \in SessionState
        /\ OutcomesFollow(settled) /\ OutcomesFollow(Ended(t))
    BY TouchType, ApplyExpiriesType, TouchScored, ApplyExpiriesScored, EndedScored
  <1>2. /\ EndTest(s) \in {s, Ended(t)}
        /\ TickClock(s) \in {s, settled}
        /\ Suspend(s) \in {s, settled, parked}
        /\ Resume(s) \in {s, open}
        /\ \A i \in Items : /\ Review(s, i) \in {s, shown(i)}
                            /\ SetItemComment(s, i) \in {s, noted(i)}
    BY DEF EndTest, TickClock, Suspend, Resume, Review, SetItemComment
  <1> HIDE DEF settled, t
  <1>3. /\ parked \in SessionState /\ SameCommits(settled, parked)
        /\ parked.testOutcomes = settled.testOutcomes
    BY <1>1 DEF SessionState, SameCommits
  <1>4. /\ open \in SessionState /\ SameCommits(s, open)
        /\ open.testOutcomes = s.testOutcomes
    BY DEF SessionState, SameCommits
  <1>5. \A i \in Items : /\ noted(i) \in SessionState /\ SameCommits(s, noted(i))
                         /\ noted(i).testOutcomes = s.testOutcomes
    BY DEF SessionState, SameCommits
  <1>6. \A i \in Items : /\ shown(i) \in SessionState /\ SameCommits(s, shown(i))
                         /\ shown(i).testOutcomes = s.testOutcomes
    BY DEF SessionState, SameCommits
  <1> HIDE DEF parked, open, noted, shown
  <1>7. OutcomesFollow(parked) /\ OutcomesFollow(open)
    BY <1>1, <1>3, <1>4, SameCommitsScored
  <1>8. \A i \in Items : OutcomesFollow(noted(i)) /\ OutcomesFollow(shown(i))
    BY <1>5, <1>6, SameCommitsScored
  <1> QED BY <1>1, <1>2, <1>7, <1>8

LEMMA StartStateScored ==
  ASSUME RulesReadCommits, clock \in Int
  PROVE  OutcomesFollow(StartState)
  <1>1. PICK s \in SessionState :
          /\ StartState = MoveToItem(s, FirstNavigable(s, 1))
          /\ \E r \in SessionState : s = [r EXCEPT !.testOutcomes = RunOutcomeProcessing(r)]
    BY StartStateOpens
  <1>2. OutcomesFollow(s)
    BY <1>1, RunScores
  <1> QED BY <1>1, <1>2, FirstNavigableIsOpen, MoveToItemScored

\* The last final entry the report lists for an item carries its recorded outcomes.
LEMMA ReportedOutcomesAreRecorded ==
  ASSUME NEW s \in SessionState, NEW i \in Items, LedgerOf(s, i), Provisional(s, i)
  PROVE  ReportedOutcomes(ItemResults(s, i, clock)) = s.itemOutcomes[i]
  <1> DEFINE n == s.attemptCounts[i]
             entries == ItemResults(s, i, clock)
             finals == {k \in DOMAIN entries : entries[k].sessionStatus = "final"}
  <1>1. n \in Nat /\ n = Len(s.attemptHistory[i]) /\ finals = 1 .. n
    <2>1. NumbersAttempts(s, i, entries)
      BY AttemptedEntries, InitialEntry
    <2> QED BY <2>1 DEF NumbersAttempts, LedgerOf, SessionState
  <1>2. ReportedOutcomes(entries) = IF finals = {} THEN NoResult
                                    ELSE entries[Max(finals)].record.outcomes
    BY DEF ReportedOutcomes
  <1>3. CASE n = 0
    BY <1>1, <1>2, <1>3 DEF LedgerOf
  <1>4. CASE n > 0
    <2>1. Max(1 .. n) = n
      BY <1>1, <1>4 DEF Max
    <2>5. /\ n = Len(s.attemptHistory[i]) /\ n # 0 /\ n \in 1 .. n
          /\ FinalResults(s, i) \o <<>> = FinalResults(s, i) /\ FinalResults(s, i) # <<>>
          /\ DOMAIN FinalResults(s, i) = 1 .. n
      <3> HIDE DEF finals
      <3>1. n = Len(s.attemptHistory[i]) /\ n # 0 /\ n \in 1 .. n
        BY <1>1, <1>4
      <3> QED BY <3>1, FinalResultsNumbered
    <2>2. entries = Commented(s, i, FinalResults(s, i))
      <3>1. s.pendingItemResults[i] = NoResult
        BY <1>1, <1>4 DEF Provisional
      <3>2. PendingResults(s, i) = <<>>
        BY <3>1 DEF PendingResults
      <3>3. FinalResults(s, i) \o <<>> = FinalResults(s, i) /\ FinalResults(s, i) # <<>>
        BY <2>5
      <3> QED BY <3>2, <3>3 DEF ItemResults
    <2>3. entries[n].record = s.attemptHistory[i][n].result
      <3>1. n \in DOMAIN FinalResults(s, i) /\ n \in DOMAIN s.attemptHistory[i]
        BY <2>5 DEF SessionState
      <3> DEFINE final == FinalResults(s, i)[n]
                 marked == n = Len(FinalResults(s, i)) /\ i \in s.itemComments
      <3>2. entries[n] = [final EXCEPT !.comment = marked]
        BY <2>2, <3>1 DEF Commented
      <3>3. final = ItemResult("final", n, s.attemptHistory[i][n].submittedAtMs,
                               s.attemptHistory[i][n].result)
        BY <3>1 DEF FinalResults
      <3>4. ASSUME NEW a, NEW b, NEW c, NEW d, NEW m
            PROVE  [ItemResult(a, b, c, d) EXCEPT !.comment = m].record = d
        BY DEF ItemResult
      <3> HIDE DEF final, marked, entries, n
      <3> QED BY <3>2, <3>3, <3>4
    <2>4. s.itemOutcomes[i] = s.attemptHistory[i][n].result.outcomes
      BY <1>1, <1>4 DEF LedgerOf, LastAttempt
    <2>6. finals # {} /\ Max(finals) = n
      BY <1>1, <2>1, <2>5
    <2> HIDE DEF entries, finals, n
    <2>7. ReportedOutcomes(entries) = s.itemOutcomes[i]
      BY <1>2, <2>3, <2>4, <2>6
    <2> QED BY <2>7 DEF entries
  <1> QED BY <1>1, <1>3, <1>4

\* The test outcomes a report states follow from the final results it lists, through
\* every order in which results were held, revised, committed and refused, where the
\* rules read committed results only.
THEOREM ReportsAddUp ==
  ASSUME RulesReadCommits
  PROVE  Spec => []ReportAddsUp
  <1>1. Init => OutcomesFollow(session)
    BY StartStateScored DEF Init
  <1>2. TypeOK /\ OutcomesFollow(session) /\ [Next]_vars => OutcomesFollow(session')
    <2> SUFFICES ASSUME TypeOK, OutcomesFollow(session), [Next]_vars PROVE OutcomesFollow(session')
      OBVIOUS
    <2>1. session \in SessionState /\ clock \in Int
      BY DEF TypeOK
    <2>2. CASE DoMoveTo \/ DoNext
      BY <2>1, <2>2, MovesScored DEF DoMoveTo, DoNext, Becomes
    <2>3. CASE DoSubmit
      BY <2>1, <2>3, SubmitItemScored DEF DoSubmit, Becomes
    <2>4. CASE DoEnd \/ DoTick \/ DoSuspend \/ DoResume \/ DoReview \/ DoComment
      BY <2>1, <2>4, OthersScored
         DEF DoEnd, DoTick, DoSuspend, DoResume, DoReview, DoComment, Becomes
    <2>5. CASE AdvanceClock \/ UNCHANGED vars
      BY <2>5 DEF AdvanceClock, vars
    <2> QED BY <2>2, <2>3, <2>4, <2>5 DEF Next
  <1>3. TypeOK /\ LedgerAgrees /\ OutcomesFollow(session) => ReportAddsUp
    <2> SUFFICES ASSUME TypeOK, LedgerAgrees, OutcomesFollow(session) PROVE ReportAddsUp
      OBVIOUS
    <2> DEFINE report   == BuildAssessmentResult(session, clock)
               reported == [i \in Items |-> ReportedOutcomes(report.itemResults[i])]
    <2>1. session \in SessionState
      BY DEF TypeOK
    <2>2. \A i \in Items : report.itemResults[i] = ItemResults(session, i, clock)
      BY DEF BuildAssessmentResult
    <2>3. report.testOutcomes = session.testOutcomes
      BY DEF BuildAssessmentResult
    <2>4. \A i \in Items : reported[i] = session.itemOutcomes[i]
      BY <2>1, <2>2, ReportedOutcomesAreRecorded DEF LedgerAgrees
    <2>5. reported = session.itemOutcomes
      <3>1. session.itemOutcomes = [i \in Items |-> session.itemOutcomes[i]]
        BY <2>1 DEF SessionState
      <3> QED BY <2>4, <3>1
    <2>6. ReportAddsUp <=>
            report.testOutcomes
              = RunOutcomeProcessing([session EXCEPT !.itemOutcomes = reported])
      BY DEF ReportAddsUp
    <2> HIDE DEF report, reported
    <2>7. [session EXCEPT !.itemOutcomes = reported] = session
      BY <2>1, <2>5 DEF SessionState
    <2> QED BY <2>3, <2>6, <2>7 DEF OutcomesFollow
  <1>4. OutcomesFollow(session)' <=> OutcomesFollow(session')
    BY DEF OutcomesFollow
  <1> QED BY <1>1, <1>2, <1>3, <1>4, TypeCorrect, LedgerIsConsistent, PTL DEF Spec

(***************************************************************************)
(* Sums.  The fold the community modules sum with is a recursive function  *)
(* over the subsets of its index set: that it exists, and what it computes,*)
(* follows by induction on their size.                                     *)
(***************************************************************************)

\* Induction over the naturals, by their least element outside a set.
LEMMA NaturalsByStep ==
  ASSUME NEW T, 0 \in T, \A n \in Nat : n \in T => n + 1 \in T
  PROVE  Nat \subseteq T
  <1> SUFFICES ASSUME Nat \ T # {} PROVE FALSE
    OBVIOUS
  <1> DEFINE least == Min(Nat \ T)
  <1>1. least \in Nat \ T /\ \A x \in Nat \ T : least <= x
    BY MinOfPositions
  <1> HIDE DEF least
  <1>2. least # 0 /\ least - 1 \in Nat /\ (least - 1) + 1 = least
    BY <1>1
  <1>3. least - 1 \in T
    BY <1>1, <1>2
  <1> QED BY <1>1, <1>2, <1>3

\* One step of the sum of f over s, given the sums g of smaller sets.
SumStep(f, g, s) ==
  IF s = {} THEN 0 ELSE LET x == CHOOSE x \in s : TRUE IN f[x] + g[s \ {x}]

LEMMA SumIsFold ==
  ASSUME NEW f, NEW S
  PROVE  SumFunctionOnSet(f, S) = (CHOOSE g : g = [s \in SUBSET S |-> SumStep(f, g, s)])[S]
  BY DEF SumFunctionOnSet, FoldFunctionOnSet, MapThenFoldSet, SumStep

LEMMA SmallerByOne ==
  ASSUME NEW S, IsFiniteSet(S), NEW s \in SUBSET S, s # {}
  PROVE  LET x == CHOOSE x \in s : TRUE
         IN /\ x \in s /\ x \in S /\ s \ {x} \in SUBSET S
            /\ Cardinality(s \ {x}) = Cardinality(s) - 1
            /\ Cardinality(s) \in Nat /\ Cardinality(s) # 0
  <1> DEFINE x == CHOOSE x \in s : TRUE
  <1>1. x \in s
    OBVIOUS
  <1>2. IsFiniteSet(s)
    BY FS_Subset
  <1> HIDE DEF x
  <1>3. /\ Cardinality(s \ {x}) = Cardinality(s) - 1
        /\ Cardinality(s) \in Nat /\ Cardinality(s) # 0
    BY <1>1, <1>2, FS_RemoveElement, FS_EmptySet, FS_CardinalityType
  <1> QED BY <1>1, <1>3 DEF x

\* The sums of the subsets of a finite set exist and satisfy their recursive equation.
LEMMA SumsExist ==
  ASSUME NEW S, IsFiniteSet(S), NEW f, \A x \in S : f[x] \in Nat
  PROVE  \E g \in [SUBSET S -> Nat] : \A s \in SUBSET S : g[s] = SumStep(f, g, s)
  <1> DEFINE D(n) == {s \in SUBSET S : Cardinality(s) <= n}
             Sums(n) == {g \in [D(n) -> Nat] : \A s \in D(n) : g[s] = SumStep(f, g, s)}
             T == {n \in Nat : Sums(n) # {}}
  <1>1. \A s \in SUBSET S : IsFiniteSet(s) /\ Cardinality(s) \in Nat /\ Cardinality(s) <= Cardinality(S)
    BY FS_Subset, FS_CardinalityType
  <1>2. 0 \in T
    <2> DEFINE g == [s \in D(0) |-> 0]
    <2>1. ASSUME NEW s \in D(0) PROVE s = {}
      <3>1. Cardinality(s) = 0 /\ IsFiniteSet(s)
        BY <1>1
      <3> QED BY <3>1, FS_EmptySet
    <2>2. g \in [D(0) -> Nat]
      OBVIOUS
    <2>3. \A s \in D(0) : g[s] = SumStep(f, g, s)
      BY <2>1 DEF SumStep
    <2> HIDE DEF g, D
    <2> QED BY <2>2, <2>3
  <1>3. ASSUME NEW n \in Nat, n \in T PROVE n + 1 \in T
    <2>1. PICK g \in Sums(n) : TRUE
      BY <1>3
    <2> DEFINE h == [s \in D(n + 1) |-> IF s \in D(n) THEN g[s] ELSE SumStep(f, g, s)]
    <2>2. ASSUME NEW s \in D(n + 1), s # {}
          PROVE  LET x == CHOOSE x \in s : TRUE
                 IN s \ {x} \in D(n) /\ f[x] \in Nat
      <3> DEFINE x == CHOOSE x \in s : TRUE
      <3>1. /\ x \in S /\ s \ {x} \in SUBSET S
            /\ Cardinality(s \ {x}) = Cardinality(s) - 1 /\ Cardinality(s) \in Nat
        BY <2>2, SmallerByOne
      <3> HIDE DEF x
      <3>2. Cardinality(s \ {x}) <= n
        BY <3>1
      <3> QED BY <3>1, <3>2 DEF x
    <2>3. ASSUME NEW s \in D(n + 1) PROVE SumStep(f, h, s) = SumStep(f, g, s) /\ SumStep(f, g, s) \in Nat
      <3>1. CASE s = {}
        BY <3>1 DEF SumStep
      <3>2. CASE s # {}
        <4> DEFINE x == CHOOSE x \in s : TRUE
        <4>1. s \ {x} \in D(n) /\ f[x] \in Nat
          BY <2>2, <3>2
        <4>2. s \ {x} \in D(n + 1)
          BY <1>1, <4>1
        <4>3. SumStep(f, h, s) = f[x] + h[s \ {x}] /\ SumStep(f, g, s) = f[x] + g[s \ {x}]
          BY <3>2 DEF SumStep
        <4> HIDE DEF x
        <4>4. h[s \ {x}] = g[s \ {x}]
          BY <4>1, <4>2
        <4>5. g[s \ {x}] \in Nat
          BY <2>1, <4>1
        <4> QED BY <4>1, <4>3, <4>4, <4>5
      <3> QED BY <3>1, <3>2
    <2>4. \A s \in D(n + 1) : h[s] = SumStep(f, h, s) /\ h[s] \in Nat
      <3> SUFFICES ASSUME NEW s \in D(n + 1) PROVE h[s] = SumStep(f, h, s) /\ h[s] \in Nat
        OBVIOUS
      <3>1. h[s] = IF s \in D(n) THEN g[s] ELSE SumStep(f, g, s)
        OBVIOUS
      <3>2. s \in D(n) => g[s] = SumStep(f, g, s)
        BY <2>1
      <3> HIDE DEF h, D
      <3> QED BY <2>3, <3>1, <3>2
    <2>5. h \in [D(n + 1) -> Nat]
      <3>1. h = [s \in D(n + 1) |-> h[s]]
        OBVIOUS
      <3> HIDE DEF h, D
      <3> QED BY <2>4, <3>1
    <2>6. h \in Sums(n + 1)
      <3> HIDE DEF h, D
      <3> QED BY <2>4, <2>5
    <2> HIDE DEF h, Sums
    <2> QED BY <2>6
  <1>4. Cardinality(S) \in T
    <2>1. Cardinality(S) \in Nat
      BY FS_CardinalityType
    <2> HIDE DEF T
    <2> QED BY <1>2, <1>3, <2>1, NaturalsByStep
  <1>5. D(Cardinality(S)) = SUBSET S
    BY <1>1
  <1>6. PICK g : g \in Sums(Cardinality(S))
    BY <1>4
  <1> HIDE DEF D
  <1>7. /\ g \in [SUBSET S -> Nat]
        /\ \A s \in SUBSET S : g[s] = SumStep(f, g, s)
    BY <1>5, <1>6
  <1> QED BY <1>7

LEMMA SumIsLastOfSums ==
  ASSUME NEW S, IsFiniteSet(S), NEW f, \A x \in S : f[x] \in Nat
  PROVE  \E g \in [SUBSET S -> Nat] : /\ \A s \in SUBSET S : g[s] = SumStep(f, g, s)
                                      /\ SumFunctionOnSet(f, S) = g[S]
  <1> DEFINE Eq(g) == g = [s \in SUBSET S |-> SumStep(f, g, s)]
             iter == CHOOSE g : Eq(g)
  <1>1. PICK g0 \in [SUBSET S -> Nat] : \A s \in SUBSET S : g0[s] = SumStep(f, g0, s)
    BY SumsExist
  <1>2. SumFunctionOnSet(f, S) = iter[S]
    BY SumIsFold
  <1>3. Eq(iter)
    <2>1. Eq(g0)
      <3>1. g0 = [s \in SUBSET S |-> g0[s]]
        BY <1>1
      <3> QED BY <1>1, <3>1
    <2> HIDE DEF Eq
    <2> QED BY <2>1
  <1> HIDE DEF iter
  <1>4. \A s \in SUBSET S : iter[s] = SumStep(f, iter, s)
    BY <1>3
  <1> DEFINE T == {n \in Nat : \A s \in SUBSET S : Cardinality(s) = n => iter[s] \in Nat}
  <1>5. 0 \in T
    <2>1. \A s \in SUBSET S : Cardinality(s) = 0 => s = {}
      BY FS_Subset, FS_EmptySet
    <2>2. iter[{}] = 0
      BY <1>4 DEF SumStep
    <2>3. ASSUME NEW s \in SUBSET S, Cardinality(s) = 0 PROVE iter[s] \in Nat
      <3>1. s = {}
        BY <2>1, <2>3
      <3> QED BY <2>2, <3>1
    <2> QED BY <2>3
  <1>6. ASSUME NEW n \in Nat, n \in T PROVE n + 1 \in T
    <2> SUFFICES ASSUME NEW s \in SUBSET S, Cardinality(s) = n + 1 PROVE iter[s] \in Nat
      OBVIOUS
    <2> DEFINE x == CHOOSE x \in s : TRUE
    <2>1. s # {}
      <3>1. Cardinality({}) = 0 /\ n + 1 # 0
        BY FS_EmptySet
      <3> QED BY <3>1, Zenon
    <2>2. x \in S /\ s \ {x} \in SUBSET S /\ Cardinality(s \ {x}) = Cardinality(s) - 1
      BY <2>1, SmallerByOne
    <2>3. iter[s] = f[x] + iter[s \ {x}]
      BY <1>4, <2>1 DEF SumStep
    <2> HIDE DEF x
    <2>4. Cardinality(s \ {x}) = n
      BY <2>2
    <2>5. iter[s \ {x}] \in Nat
      BY <1>6, <2>2, <2>4
    <2> QED BY <2>2, <2>3, <2>5
  <1>7. Nat \subseteq T
    <2> HIDE DEF T
    <2> QED BY <1>5, <1>6, NaturalsByStep
  <1>8. \A s \in SUBSET S : iter[s] \in Nat
    BY <1>7, FS_Subset, FS_CardinalityType
  <1>9. iter \in [SUBSET S -> Nat]
    <2>1. iter = [s \in SUBSET S |-> iter[s]]
      BY <1>3
    <2> QED BY <1>8, <2>1
  <1> QED BY <1>2, <1>4, <1>9

LEMMA SumOfZeros ==
  ASSUME NEW S, IsFiniteSet(S), NEW f, \A x \in S : f[x] = 0
  PROVE  SumFunctionOnSet(f, S) = 0
  <1>1. \A x \in S : f[x] \in Nat
    OBVIOUS
  <1>2. PICK g \in [SUBSET S -> Nat] : /\ \A s \in SUBSET S : g[s] = SumStep(f, g, s)
                                       /\ SumFunctionOnSet(f, S) = g[S]
    BY <1>1, SumIsLastOfSums
  <1> DEFINE T == {n \in Nat : \A s \in SUBSET S : Cardinality(s) = n => g[s] = 0}
  <1>3. 0 \in T
    <2>1. \A s \in SUBSET S : Cardinality(s) = 0 => s = {}
      BY FS_Subset, FS_EmptySet
    <2> QED BY <1>2, <2>1 DEF SumStep
  <1>4. ASSUME NEW n \in Nat, n \in T PROVE n + 1 \in T
    <2> SUFFICES ASSUME NEW s \in SUBSET S, Cardinality(s) = n + 1 PROVE g[s] = 0
      OBVIOUS
    <2> DEFINE x == CHOOSE x \in s : TRUE
    <2>1. s # {}
      <3>1. Cardinality({}) = 0 /\ n + 1 # 0
        BY FS_EmptySet
      <3> QED BY <3>1, Zenon
    <2>2. x \in S /\ s \ {x} \in SUBSET S /\ Cardinality(s \ {x}) = Cardinality(s) - 1
      BY <2>1, SmallerByOne
    <2>3. g[s] = f[x] + g[s \ {x}]
      BY <1>2, <2>1 DEF SumStep
    <2> HIDE DEF x
    <2>4. Cardinality(s \ {x}) = n
      BY <2>2
    <2>5. g[s \ {x}] = 0
      BY <1>4, <2>2, <2>4
    <2> QED BY <2>2, <2>3, <2>5
  <1>5. Cardinality(S) \in T
    <2>1. Cardinality(S) \in Nat
      BY FS_CardinalityType
    <2> HIDE DEF T
    <2> QED BY <1>3, <1>4, <2>1, NaturalsByStep
  <1> QED BY <1>2, <1>5

\* Adding d at one place adds d to the sums that reach the place.
LEMMA SumGrows ==
  ASSUME NEW S, IsFiniteSet(S), NEW f, NEW h, NEW y, NEW d \in Nat,
         \A x \in S : f[x] \in Nat /\ h[x] = f[x] + (IF x = y THEN d ELSE 0)
  PROVE  SumFunctionOnSet(h, S) = SumFunctionOnSet(f, S) + (IF y \in S THEN d ELSE 0)
  <1>1. \A x \in S : h[x] \in Nat
    OBVIOUS
  <1>2. PICK g \in [SUBSET S -> Nat] : /\ \A s \in SUBSET S : g[s] = SumStep(f, g, s)
                                       /\ SumFunctionOnSet(f, S) = g[S]
    BY SumIsLastOfSums
  <1>3. PICK k \in [SUBSET S -> Nat] : /\ \A s \in SUBSET S : k[s] = SumStep(h, k, s)
                                       /\ SumFunctionOnSet(h, S) = k[S]
    BY <1>1, SumIsLastOfSums
  <1> DEFINE More(s) == IF y \in s THEN d ELSE 0
             T == {n \in Nat : \A s \in SUBSET S : Cardinality(s) = n => k[s] = g[s] + More(s)}
  <1>4. 0 \in T
    <2>1. \A s \in SUBSET S : Cardinality(s) = 0 => s = {}
      BY FS_Subset, FS_EmptySet
    <2>2. k[{}] = 0 /\ g[{}] = 0 /\ More({}) = 0
      BY <1>2, <1>3 DEF SumStep
    <2> HIDE DEF More
    <2>3. ASSUME NEW s \in SUBSET S, Cardinality(s) = 0 PROVE k[s] = g[s] + More(s)
      <3>1. s = {}
        BY <2>1, <2>3
      <3> QED BY <2>2, <3>1
    <2> QED BY <2>3
  <1>5. ASSUME NEW n \in Nat, n \in T PROVE n + 1 \in T
    <2> SUFFICES ASSUME NEW s \in SUBSET S, Cardinality(s) = n + 1 PROVE k[s] = g[s] + More(s)
      OBVIOUS
    <2> DEFINE x == CHOOSE x \in s : TRUE
               rest == s \ {x}
    <2>1. s # {}
      <3>1. Cardinality({}) = 0 /\ n + 1 # 0
        BY FS_EmptySet
      <3> QED BY <3>1, Zenon
    <2>2. x \in S /\ x \in s /\ rest \in SUBSET S /\ Cardinality(rest) = Cardinality(s) - 1
      BY <2>1, SmallerByOne
    <2>3. g[s] = f[x] + g[rest] /\ k[s] = h[x] + k[rest]
      BY <1>2, <1>3, <2>1 DEF SumStep
    <2>4. More(s) = More(rest) + (IF x = y THEN d ELSE 0)
      BY <2>2
    <2>5. Cardinality(rest) = n
      BY <2>2
    <2>6. More(rest) \in Nat /\ More(s) \in Nat
      OBVIOUS
    <2> DEFINE e == IF x = y THEN d ELSE 0
    <2>7. e \in Nat
      OBVIOUS
    <2> HIDE DEF x, rest, More, e
    <2>8. k[rest] = g[rest] + More(rest)
      BY <1>5, <2>2, <2>5
    <2>9. h[x] = f[x] + e /\ f[x] \in Nat
      BY <2>2 DEF e
    <2> QED BY <2>2, <2>3, <2>4, <2>6, <2>7, <2>8, <2>9 DEF e
  <1>6. Cardinality(S) \in T
    <2>1. Cardinality(S) \in Nat
      BY FS_CardinalityType
    <2> HIDE DEF T
    <2> QED BY <1>4, <1>5, <2>1, NaturalsByStep
  <1> QED BY <1>2, <1>3, <1>6

(***************************************************************************)
(* Time.  Every fold adds the same elapsed time to the test, to the        *)
(* current item, and to the part and the sections around that item.        *)
(***************************************************************************)

ScopesAgree(seconds) ==
  LET spent(S) == SumFunctionOnSet([i \in Items |-> seconds[<<"item", i>>]], S)
  IN /\ seconds[TestScope] = spent(Items)
     /\ \A p \in Parts : seconds[<<"part", p>>] = spent({i \in Items : PartOf[i] = p})
     /\ \A x \in Sections :
          seconds[<<"section", x>>] = spent({i \in Items : x \in SectionsOf(i)})

LEMMA ItemsAreFinite ==
  ASSUME NEW S, S \subseteq Items
  PROVE  IsFiniteSet(S)
  <1>1. IsFiniteSet(Items)
    BY PlanAssumption, FS_Interval DEF Items
  <1> QED BY <1>1, FS_Subset

\* What a fold adds to each scope while the candidate is on item i.
LEMMA FoldAdds ==
  ASSUME NEW s \in SessionState, clock \in Int, s.status = "in-progress",
         s.currentItemKey \in Items
  PROVE  LET i == s.currentItemKey
             added(b) == IF b THEN Elapsed(s) ELSE 0
             after == Touch(s).seconds
         IN /\ Elapsed(s) \in Nat
            /\ after[TestScope] = s.seconds[TestScope] + Elapsed(s)
            /\ \A j \in Items : after[<<"item", j>>] = s.seconds[<<"item", j>>] + added(j = i)
            /\ \A p \in Parts :
                 after[<<"part", p>>] = s.seconds[<<"part", p>>] + added(PartOf[i] = p)
            /\ \A x \in Sections :
                 after[<<"section", x>>] = s.seconds[<<"section", x>>] + added(x \in SectionsOf(i))
  <1> DEFINE i == s.currentItemKey
             spent == [c \in Scopes |-> IF c \in RunningScopes(s)
                                        THEN s.seconds[c] + Elapsed(s)
                                        ELSE s.seconds[c]]
  <1>1. Elapsed(s) \in Nat /\ s.seconds \in [Scopes -> Nat]
    BY DEF Elapsed, SessionState
  <1>2. Touch(s).seconds = spent
    <2>1. Touch(s) = [s EXCEPT !.lastTransitionAtMs = clock, !.seconds = spent]
      BY DEF Touch
    <2> HIDE DEF spent
    <2> QED BY <2>1 DEF SessionState
  <1>3. RunningScopes(s) = EnclosingScopes(i)
    BY DEF RunningScopes, EnclosingScopes, NoItem, Items
  <1>4. /\ TestScope \in EnclosingScopes(i)
        /\ \A j \in Items : <<"item", j>> \in EnclosingScopes(i) <=> j = i
        /\ \A p \in Parts : <<"part", p>> \in EnclosingScopes(i) <=> PartOf[i] = p
        /\ \A x \in Sections : <<"section", x>> \in EnclosingScopes(i) <=> x \in SectionsOf(i)
    BY DEF EnclosingScopes, TestScope
  <1>5. /\ TestScope \in Scopes
        /\ \A j \in Items : <<"item", j>> \in Scopes
        /\ \A p \in Parts : <<"part", p>> \in Scopes
        /\ \A x \in Sections : <<"section", x>> \in Scopes
    BY DEF Scopes, ItemScopes, PartScopes, SectionScopes
  <1>6. ASSUME NEW c \in Scopes, NEW b \in BOOLEAN, c \in EnclosingScopes(i) <=> b
        PROVE  spent[c] = s.seconds[c] + (IF b THEN Elapsed(s) ELSE 0)
    BY <1>1, <1>3, <1>6
  <1> HIDE DEF spent
  <1>7. spent[TestScope] = s.seconds[TestScope] + Elapsed(s)
    BY <1>4, <1>5, <1>6
  <1>8. \A j \in Items : spent[<<"item", j>>] = s.seconds[<<"item", j>>]
                                                 + (IF j = i THEN Elapsed(s) ELSE 0)
    BY <1>4, <1>5, <1>6
  <1>9. \A p \in Parts : spent[<<"part", p>>] = s.seconds[<<"part", p>>]
                                                 + (IF PartOf[i] = p THEN Elapsed(s) ELSE 0)
    BY <1>4, <1>5, <1>6
  <1>10. \A x \in Sections : spent[<<"section", x>>] = s.seconds[<<"section", x>>]
                                          + (IF x \in SectionsOf(i) THEN Elapsed(s) ELSE 0)
    BY <1>4, <1>5, <1>6
  <1> QED BY <1>1, <1>2, <1>7, <1>8, <1>9, <1>10

LEMMA TouchAgrees ==
  ASSUME NEW s \in SessionState, clock \in Int, InTime(s), ScopesAgree(s.seconds)
  PROVE  ScopesAgree(Touch(s).seconds)
  <1>1. CASE s.status # "in-progress"
    BY <1>1 DEF Touch
  <1>2. CASE s.status = "in-progress"
    <2> DEFINE i == s.currentItemKey
               e == Elapsed(s)
               before == [j \in Items |-> s.seconds[<<"item", j>>]]
               after == [j \in Items |-> Touch(s).seconds[<<"item", j>>]]
    <2>1. i \in Items
      BY <1>2 DEF InTime, SessionState
    <2>2. /\ e \in Nat
          /\ Touch(s).seconds[TestScope] = s.seconds[TestScope] + e
          /\ \A j \in Items : Touch(s).seconds[<<"item", j>>]
                                = s.seconds[<<"item", j>>] + (IF j = i THEN e ELSE 0)
          /\ \A p \in Parts : Touch(s).seconds[<<"part", p>>]
                                = s.seconds[<<"part", p>>] + (IF PartOf[i] = p THEN e ELSE 0)
          /\ \A x \in Sections :
               Touch(s).seconds[<<"section", x>>]
                 = s.seconds[<<"section", x>>] + (IF x \in SectionsOf(i) THEN e ELSE 0)
      BY <1>2, <2>1, FoldAdds
    <2>3. ASSUME NEW S, S \subseteq Items
          PROVE  SumFunctionOnSet(after, S)
                   = SumFunctionOnSet(before, S) + (IF i \in S THEN e ELSE 0)
      <3>1. ASSUME NEW j \in S
            PROVE  before[j] \in Nat /\ after[j] = before[j] + (IF j = i THEN e ELSE 0)
        <4>1. <<"item", j>> \in Scopes
          BY <2>3 DEF Scopes, ItemScopes
        <4> QED BY <2>2, <2>3, <4>1 DEF SessionState
      <3> HIDE DEF before, after, e, i
      <3> QED BY <2>2, <2>3, <3>1, ItemsAreFinite, SumGrows, ZenonT(40)
    <2>4. Touch(s).seconds[TestScope] = SumFunctionOnSet(after, Items)
      <3>1. s.seconds[TestScope] = SumFunctionOnSet(before, Items)
        BY DEF ScopesAgree
      <3>2. SumFunctionOnSet(after, Items) = SumFunctionOnSet(before, Items) + e
        BY <2>1, <2>3
      <3> HIDE DEF before, after, e
      <3> QED BY <2>2, <3>1, <3>2
    <2>5. ASSUME NEW p \in Parts
          PROVE  Touch(s).seconds[<<"part", p>>]
                   = SumFunctionOnSet(after, {j \in Items : PartOf[j] = p})
      <3> DEFINE S == {j \in Items : PartOf[j] = p}
      <3>1. s.seconds[<<"part", p>>] = SumFunctionOnSet(before, S)
        BY DEF ScopesAgree
      <3>2. SumFunctionOnSet(after, S) = SumFunctionOnSet(before, S) + (IF i \in S THEN e ELSE 0)
        BY <2>3
      <3>3. i \in S <=> PartOf[i] = p
        BY <2>1
      <3> HIDE DEF before, after, e, S, i
      <3>4. Touch(s).seconds[<<"part", p>>] = SumFunctionOnSet(after, S)
        BY <2>2, <3>1, <3>2, <3>3
      <3> QED BY <3>4 DEF S
    <2>6. ASSUME NEW x \in Sections
          PROVE  Touch(s).seconds[<<"section", x>>]
                   = SumFunctionOnSet(after, {j \in Items : x \in SectionsOf(j)})
      <3> DEFINE S == {j \in Items : x \in SectionsOf(j)}
      <3>1. s.seconds[<<"section", x>>] = SumFunctionOnSet(before, S)
        BY DEF ScopesAgree
      <3>2. SumFunctionOnSet(after, S) = SumFunctionOnSet(before, S) + (IF i \in S THEN e ELSE 0)
        BY <2>3
      <3>3. i \in S <=> x \in SectionsOf(i)
        BY <2>1
      <3> HIDE DEF before, after, e, S, i
      <3>4. Touch(s).seconds[<<"section", x>>] = SumFunctionOnSet(after, S)
        BY <2>2, <3>1, <3>2, <3>3
      <3> QED BY <3>4 DEF S
    <2> QED BY <2>4, <2>5, <2>6 DEF ScopesAgree
  <1> QED BY <1>1, <1>2

LEMMA NothingSpentAgrees ==
  ScopesAgree([c \in Scopes |-> 0])
  <1> DEFINE none == [c \in Scopes |-> 0]
             perItem == [i \in Items |-> none[<<"item", i>>]]
  <1>1. /\ TestScope \in Scopes
        /\ \A j \in Items : <<"item", j>> \in Scopes
        /\ \A p \in Parts : <<"part", p>> \in Scopes
        /\ \A x \in Sections : <<"section", x>> \in Scopes
    BY DEF Scopes, ItemScopes, PartScopes, SectionScopes
  <1>2. \A S : S \subseteq Items => SumFunctionOnSet(perItem, S) = 0
    <2>1. \A j \in Items : perItem[j] = 0
      BY <1>1
    <2> HIDE DEF perItem
    <2> QED BY <2>1, ItemsAreFinite, SumOfZeros
  <1>3. /\ none[TestScope] = SumFunctionOnSet(perItem, Items)
        /\ \A p \in Parts : none[<<"part", p>>]
                              = SumFunctionOnSet(perItem, {i \in Items : PartOf[i] = p})
        /\ \A x \in Sections : none[<<"section", x>>]
                              = SumFunctionOnSet(perItem, {i \in Items : x \in SectionsOf(i)})
    <2>1. /\ none[TestScope] = 0 /\ \A p \in Parts : none[<<"part", p>>] = 0
          /\ \A x \in Sections : none[<<"section", x>>] = 0
      BY <1>1
    <2> HIDE DEF none, perItem
    <2> QED BY <1>2, <2>1
  <1> HIDE DEF none
  <1>4. ScopesAgree(none)
    BY <1>3 DEF ScopesAgree
  <1> QED BY <1>4 DEF none

\* The times of the item, of its sections and parts and of the test agree at all
\* times, whatever the injected clock does and however the session moves.
THEOREM ScopeTimesStayInStep == Spec => []ScopeTimesAgree
  <1>1. Init => ScopesAgree(session.seconds)
    <2> SUFFICES ASSUME Init PROVE ScopesAgree(session.seconds)
      OBVIOUS
    <2>1. clock \in Int /\ session = StartState
      BY DEF Init
    <2>2. PICK s \in SessionState : /\ StartState = MoveToItem(s, FirstNavigable(s, 1))
                                   /\ s.seconds = [c \in Scopes |-> 0]
      BY <2>1, StartStateOpens
    <2>3. session.seconds = [c \in Scopes |-> 0]
      BY <2>1, <2>2, FirstNavigableIsOpen, MoveToItemLands
    <2> QED BY <2>3, NothingSpentAgrees
  <1>2. TypeOK /\ CurrentInTime /\ ScopesAgree(session.seconds) /\ [Next]_vars
          => ScopesAgree(session'.seconds)
    <2> SUFFICES ASSUME TypeOK, CurrentInTime, ScopesAgree(session.seconds), [Next]_vars
                 PROVE  ScopesAgree(session'.seconds)
      OBVIOUS
    <2>1. UNCHANGED session \/ FoldsAtMostOnce(session, session')
      BY StepFolds
    <2>2. ScopesAgree(Touch(session).seconds)
      BY TouchAgrees DEF TypeOK, CurrentInTime
    <2> QED BY <2>1, <2>2 DEF FoldsAtMostOnce
  <1>3. ScopesAgree(session.seconds) => ScopeTimesAgree
    BY DEF ScopesAgree, ScopeTimesAgree
  <1>4. ScopesAgree(session.seconds)' <=> ScopesAgree(session'.seconds)
    BY DEF ScopesAgree
  <1> QED BY <1>1, <1>2, <1>3, <1>4, TypeCorrect, CurrentStaysInTime, PTL DEF Spec

(***************************************************************************)
(* The clock of the session.  A transition leaves status, time and stamp   *)
(* as they were, or folds the clock once and stamps what goes on.          *)
(***************************************************************************)

Stamps(s, t) ==
  \/ /\ t.seconds = s.seconds /\ t.status = s.status
     /\ t.lastTransitionAtMs = s.lastTransitionAtMs
  \/ /\ t.seconds = Touch(s).seconds
     /\ t.status = "in-progress" => t.lastTransitionAtMs = clock

\* What settles the expiries of a folded and stamped record.
LEMMA SettledStamps ==
  ASSUME NEW s \in SessionState, NEW t \in SessionState,
         t.seconds = Touch(s).seconds, t.lastTransitionAtMs = clock
  PROVE  Stamps(s, ApplyExpiries(t))
  BY ApplyExpiriesLands DEF Stamps

LEMMA SubmitItemStamps ==
  ASSUME NEW s \in SessionState, NEW i \in Items, NEW r \in Results, clock \in Int
  PROVE  Stamps(s, SubmitItem(s, i, r))
  <1> DEFINE t == Touch(s)
             body == SubmitBody(t, i, r)
             late == [t EXCEPT !.rejectedSubmissions = Append(@,
                        [itemKey |-> i, scope |-> BarringScope(t, i),
                         atTestSeconds |-> t.seconds[TestScope]])]
  <1> SUFFICES ASSUME s.status = "in-progress" PROVE Stamps(s, SubmitItem(s, i, r))
    BY DEF SubmitItem, Stamps
  <1>1. t \in SessionState /\ t.lastTransitionAtMs = clock
    BY TouchType, TouchKeeps
  <1>2. BarringScopes(t, i) # {} => Stamps(s, ApplyExpiries(late))
    <2> SUFFICES ASSUME BarringScopes(t, i) # {} PROVE Stamps(s, ApplyExpiries(late))
      OBVIOUS
    <2>1. late \in SessionState
      BY <1>1, LateType
    <2> HIDE DEF t
    <2>2. late.seconds = t.seconds /\ late.lastTransitionAtMs = clock
      BY <1>1 DEF SessionState
    <2> HIDE DEF late
    <2> QED BY <2>1, <2>2, SettledStamps DEF t
  <1>3. Stamps(s, ApplyExpiries(body))
    <2>1. body \in SessionState /\ body.seconds = t.seconds /\ body.lastTransitionAtMs = clock
      BY <1>1, SubmitBodyType, SubmitBodyKeeps
    <2> HIDE DEF body
    <2> QED BY <2>1, SettledStamps
  <1>4. Stamps(s, s)
    BY DEF Stamps
  <1>5. \/ SubmitItem(s, i, r) \in {s, ApplyExpiries(body)}
        \/ BarringScopes(t, i) # {} /\ SubmitItem(s, i, r) = ApplyExpiries(late)
    BY DEF SubmitItem
  <1> HIDE DEF body, late, t
  <1> QED BY <1>2, <1>3, <1>4, <1>5

LEMMA MovesStamp ==
  ASSUME NEW s \in SessionState, clock \in Int
  PROVE  Stamps(s, NextItem(s)) /\ \A i \in Items : Stamps(s, MoveTo(s, i))
  <1> DEFINE t == Touch(s)
             k == NextDestination(t)
  <1>1. Stamps(s, s)
    BY DEF Stamps
  <1> SUFFICES ASSUME s.status = "in-progress"
               PROVE  Stamps(s, NextItem(s)) /\ \A i \in Items : Stamps(s, MoveTo(s, i))
    BY <1>1 DEF NextItem, MoveTo, WithTransition
  <1>2. t \in SessionState /\ t.lastTransitionAtMs = clock
    BY TouchType, TouchKeeps
  <1>3. Stamps(s, ApplyExpiries(t))
    BY <1>2, SettledStamps
  <1> HIDE DEF t
  <1>4. ~NextRefused(t) => Stamps(s, MoveToItem(t, k))
    <2> SUFFICES ASSUME ~NextRefused(t) PROVE Stamps(s, MoveToItem(t, k))
      OBVIOUS
    <2>1. k \in Items \cup {NoItem}
      BY <1>2, NextDestinationType DEF NextRefused
    <2> HIDE DEF k
    <2> QED BY <1>2, <2>1, MoveToItemLands DEF Stamps, t
  <1>5. \A i \in Items : Stamps(s, Present(t, i))
    <2>1. \A i \in Items : /\ Present(t, i).seconds = t.seconds
                           /\ Present(t, i).lastTransitionAtMs = t.lastTransitionAtMs
      BY <1>2 DEF Present, SessionState
    <2> QED BY <1>2, <2>1 DEF Stamps, t
  <1>6. \A i \in Items : MoveTo(s, i) \in {s, ApplyExpiries(t), Present(t, i)}
    BY DEF MoveTo, WithTransition, t
  <1>7. \/ NextItem(s) \in {s, ApplyExpiries(t)}
        \/ ~NextRefused(t) /\ NextItem(s) = MoveToItem(t, k)
    BY DEF NextItem, WithTransition, t
  <1> HIDE DEF k
  <1> QED BY <1>1, <1>3, <1>4, <1>5, <1>6, <1>7

LEMMA OthersStamp ==
  ASSUME NEW s \in SessionState, clock \in Int
  PROVE  /\ Stamps(s, EndTest(s)) /\ Stamps(s, TickClock(s))
         /\ Stamps(s, Suspend(s)) /\ Stamps(s, Resume(s))
         /\ \A i \in Items : Stamps(s, Review(s, i)) /\ Stamps(s, SetItemComment(s, i))
  <1> DEFINE t == Touch(s)
             settled == ApplyExpiries(t)
             parked == [settled EXCEPT !.status = "suspended"]
             open == [s EXCEPT !.status = "in-progress", !.lastTransitionAtMs = clock]
             noted(i) == [s EXCEPT !.itemComments = @ \cup {i}]
             shown(i) == [s EXCEPT !.currentItemKey = i]
  <1>1. /\ t \in SessionState /\ settled \in SessionState
        /\ settled.seconds = t.seconds
        /\ s.status = "in-progress" => t.lastTransitionAtMs = clock
    BY TouchType, TouchKeeps, ApplyExpiriesType, ApplyExpiriesLands
  <1>2. s.status = "in-progress" => Stamps(s, settled)
    BY <1>1, SettledStamps
  <1>3. Stamps(s, Ended(t)) /\ Stamps(s, s)
    BY <1>1, EndedKeepsSeconds DEF Stamps
  <1>4. /\ EndTest(s) \in {s, Ended(t)}
        /\ TickClock(s) = s \/ (s.status = "in-progress" /\ TickClock(s) = settled)
        /\ Suspend(s) \in {s, parked} \/ (s.status = "in-progress" /\ Suspend(s) = settled)
        /\ Resume(s) = s \/ (s.status = "suspended" /\ Resume(s) = open)
        /\ \A i \in Items : /\ Review(s, i) \in {s, shown(i)}
                            /\ SetItemComment(s, i) \in {s, noted(i)}
    BY DEF EndTest, TickClock, Suspend, Resume, Review, SetItemComment
  <1>5. s.status = "suspended" => t = s
    BY DEF Touch
  <1> HIDE DEF settled, t
  <1>6. Stamps(s, parked)
    <2>1. parked.seconds = settled.seconds /\ parked.status = "suspended"
      BY <1>1 DEF SessionState
    <2> HIDE DEF parked
    <2> QED BY <1>1, <2>1 DEF Stamps, t
  <1>7. s.status = "suspended" => Stamps(s, open)
    <2>1. open.seconds = s.seconds /\ open.lastTransitionAtMs = clock
      BY DEF SessionState
    <2> HIDE DEF open
    <2> QED BY <1>5, <2>1 DEF Stamps, t
  <1>8. \A i \in Items : Stamps(s, shown(i)) /\ Stamps(s, noted(i))
    <2>1. \A i \in Items : /\ shown(i).seconds = s.seconds /\ shown(i).status = s.status
                           /\ shown(i).lastTransitionAtMs = s.lastTransitionAtMs
      BY DEF SessionState
    <2>2. \A i \in Items : /\ noted(i).seconds = s.seconds /\ noted(i).status = s.status
                           /\ noted(i).lastTransitionAtMs = s.lastTransitionAtMs
      BY DEF SessionState
    <2> HIDE DEF shown, noted
    <2> QED BY <2>1, <2>2 DEF Stamps
  <1> HIDE DEF parked, open, shown, noted
  <1> QED BY <1>2, <1>3, <1>4, <1>6, <1>7, <1>8

LEMMA StepStamps ==
  ASSUME TypeOK, [Next]_vars
  PROVE  \/ UNCHANGED session /\ (AdvanceClock \/ UNCHANGED vars)
         \/ Stamps(session, session') /\ UNCHANGED <<clock, activeTime>>
  <1>1. session \in SessionState /\ clock \in Int
    BY DEF TypeOK
  <1>2. CASE DoMoveTo
    BY <1>1, <1>2, MovesStamp DEF DoMoveTo, Becomes
  <1>3. CASE DoNext
    BY <1>1, <1>3, MovesStamp DEF DoNext, Becomes
  <1>4. CASE DoSubmit
    BY <1>1, <1>4, SubmitItemStamps DEF DoSubmit, Becomes
  <1>5. CASE AdvanceClock \/ UNCHANGED vars
    BY <1>5 DEF AdvanceClock, vars
  <1>6. CASE DoEnd \/ DoTick \/ DoSuspend \/ DoResume \/ DoReview \/ DoComment
    BY <1>1, <1>6, OthersStamp
       DEF DoEnd, DoTick, DoSuspend, DoResume, DoReview, DoComment, Becomes
  <1> QED BY <1>2, <1>3, <1>4, <1>5, <1>6 DEF Next

\* The stamp is behind the clock and the test's time, folded and yet to fold, is
\* the time the session has been in progress.
OnTime(s) ==
  /\ s.status = "in-progress" => s.lastTransitionAtMs <= clock
  /\ s.seconds[TestScope] + (IF s.status = "in-progress" THEN Elapsed(s) ELSE 0) = activeTime

LEMMA StampsOnTime ==
  ASSUME NEW s \in SessionState, NEW t \in SessionState, clock \in Int,
         InTime(s), OnTime(s), Stamps(s, t)
  PROVE  OnTime(t)
  <1>1. CASE /\ t.seconds = s.seconds /\ t.status = s.status
             /\ t.lastTransitionAtMs = s.lastTransitionAtMs
    BY <1>1 DEF OnTime, Elapsed
  <1>2. CASE /\ t.seconds = Touch(s).seconds
             /\ t.status = "in-progress" => t.lastTransitionAtMs = clock
    <2>1. t.status = "in-progress" => t.lastTransitionAtMs <= clock /\ Elapsed(t) = 0
      BY <1>2 DEF Elapsed
    <2>2. Touch(s).seconds[TestScope]
            = s.seconds[TestScope] + (IF s.status = "in-progress" THEN Elapsed(s) ELSE 0)
      <3>1. CASE s.status # "in-progress"
        <4>1. s.seconds[TestScope] \in Nat
          BY DEF SessionState, Scopes
        <4> QED BY <3>1, <4>1 DEF Touch
      <3>2. CASE s.status = "in-progress"
        <4>1. s.currentItemKey \in Items
          BY <3>2 DEF InTime, SessionState
        <4> QED BY <3>2, <4>1, FoldAdds
      <3> QED BY <3>1, <3>2
    <2>3. t.seconds[TestScope] \in Nat
      BY DEF SessionState, Scopes
    <2> QED BY <1>2, <2>1, <2>2, <2>3 DEF OnTime
  <1> QED BY <1>1, <1>2 DEF Stamps

\* While the injected clock does not go back, the session's time is the time it has
\* really been in progress, in every scope: blocked calls, forced moves, refused
\* submissions, suspensions and resumptions neither lose nor invent any.
THEOREM NoTimeIsLost ==
  ASSUME ClockSteps \subseteq Nat
  PROVE  Spec => []NoTimeLost
  <1>1. Init => OnTime(session)
    <2> SUFFICES ASSUME Init PROVE OnTime(session)
      OBVIOUS
    <2>1. clock = 0 /\ activeTime = 0 /\ clock \in Int /\ session = StartState
      BY DEF Init
    <2>2. PICK s \in SessionState : /\ StartState = MoveToItem(s, FirstNavigable(s, 1))
                                   /\ s.seconds = [c \in Scopes |-> 0]
                                   /\ s.lastTransitionAtMs = clock
      BY <2>1, StartStateOpens
    <2>3. /\ session.seconds = [c \in Scopes |-> 0]
          /\ session.status = "ended" \/ session.lastTransitionAtMs = 0
      BY <2>1, <2>2, FirstNavigableIsOpen, MoveToItemLands
    <2>4. session.seconds[TestScope] = 0
      BY <2>3 DEF Scopes
    <2> QED BY <2>1, <2>3, <2>4 DEF OnTime, Elapsed
  <1>2. TypeOK /\ TypeOK' /\ CurrentInTime /\ OnTime(session) /\ [Next]_vars => OnTime(session)'
    <2> SUFFICES ASSUME TypeOK, TypeOK', CurrentInTime, OnTime(session), [Next]_vars
                 PROVE  OnTime(session)'
      OBVIOUS
    <2>1. /\ session \in SessionState /\ session' \in SessionState
          /\ clock \in Int /\ clock' \in Int /\ activeTime \in Nat
      BY DEF TypeOK
    <2>2. CASE Stamps(session, session') /\ UNCHANGED <<clock, activeTime>>
      <3>1. OnTime(session')
        BY <2>1, <2>2, StampsOnTime DEF CurrentInTime
      <3> QED BY <2>2, <3>1 DEF OnTime, Elapsed
    <2>3. CASE UNCHANGED vars
      BY <2>3 DEF vars, OnTime, Elapsed
    <2>4. CASE AdvanceClock
      <3>1. PICK d \in Nat : /\ clock' = clock + d /\ session' = session
                             /\ activeTime' = IF session.status = "in-progress" /\ d > 0
                                              THEN activeTime + d ELSE activeTime
        BY <2>4 DEF AdvanceClock
      <3>2. session.lastTransitionAtMs \in Int /\ session.seconds[TestScope] \in Nat
        BY <2>1 DEF SessionState, Scopes
      <3>3. CASE session.status # "in-progress"
        BY <3>1, <3>3 DEF OnTime
      <3>4. CASE session.status = "in-progress"
        <4>1. /\ session.lastTransitionAtMs <= clock
              /\ session.seconds[TestScope] + Elapsed(session) = activeTime
          BY <3>4 DEF OnTime
        <4>2. /\ Elapsed(session) = clock - session.lastTransitionAtMs
              /\ session.lastTransitionAtMs <= clock'
          BY <2>1, <3>1, <3>2, <4>1 DEF Elapsed
        <4>3. Elapsed(session)' = clock' - session.lastTransitionAtMs
          BY <2>1, <3>1, <3>2, <4>2 DEF Elapsed
        <4>4. activeTime' = activeTime + d
          BY <2>1, <3>1, <3>4
        <4>5. session.seconds[TestScope] + Elapsed(session)' = activeTime'
          BY <2>1, <3>1, <3>2, <4>1, <4>2, <4>3, <4>4
        <4> QED BY <3>1, <3>4, <4>2, <4>5 DEF OnTime
      <3> QED BY <3>3, <3>4
    <2> QED BY <2>2, <2>3, <2>4, StepStamps
  <1>3. OnTime(session) /\ ScopeTimesAgree => NoTimeLost
    BY DEF OnTime, NoTimeLost
  <1> QED BY <1>1, <1>2, <1>3, TypeCorrect, CurrentStaysInTime, ScopeTimesStayInStep, PTL
          DEF Spec
=============================================================================
