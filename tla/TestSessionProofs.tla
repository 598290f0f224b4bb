-------------------------- MODULE TestSessionProofs --------------------------
(***************************************************************************)
(* Theorems about the session store composed with the controller and the   *)
(* attempt stores, for every plan, every clock (skewed ones included) and  *)
(* every way of scoring.                                                   *)
(***************************************************************************)
EXTENDS TestSessionProperties, TestControllerProofs

(***************************************************************************)
(* The controller's transitions, taken together                            *)
(***************************************************************************)

Transitions(s) ==
  {NextItem(s), EndTest(s), TickClock(s), Suspend(s), Resume(s)}
    \cup {MoveTo(s, i) : i \in Items}
    \cup {Review(s, i) : i \in Items}
    \cup {SetItemComment(s, i) : i \in Items}
    \cup {SubmitItem(s, i, r) : i \in Items, r \in Results}

SafeSessions == {s \in SoundSessions : InTime(s)}

LEMMA TransitionSafe ==
  ASSUME NEW s \in SafeSessions, NEW next \in Transitions(s), clock \in Int
  PROVE  next \in SafeSessions
  <1>1. s \in SoundSessions /\ s \in SessionState /\ InTime(s)
    BY DEF SafeSessions, SoundSessions
  <1>2. CASE next = NextItem(s)
    BY <1>1, <1>2, NextItemSound, NextItemInTime DEF SafeSessions
  <1>3. CASE next = EndTest(s)
    BY <1>1, <1>3, EndTestSound, EndTestInTime DEF SafeSessions
  <1>4. CASE next = TickClock(s)
    BY <1>1, <1>4, TickClockSound, TickClockInTime DEF SafeSessions
  <1>5. CASE next = Suspend(s)
    BY <1>1, <1>5, SuspendSound, SuspendInTime DEF SafeSessions
  <1>6. CASE next = Resume(s)
    BY <1>1, <1>6, ResumeSound, ResumeInTime DEF SafeSessions
  <1>7. ASSUME NEW i \in Items, next = MoveTo(s, i) PROVE next \in SafeSessions
    BY <1>1, <1>7, MoveToSound, MoveToInTime DEF SafeSessions
  <1>8. ASSUME NEW i \in Items, next = Review(s, i) PROVE next \in SafeSessions
    BY <1>1, <1>8, ReviewSound, ReviewInTime DEF SafeSessions
  <1>9. ASSUME NEW i \in Items, next = SetItemComment(s, i) PROVE next \in SafeSessions
    BY <1>1, <1>9, SetItemCommentSound, SetItemCommentInTime DEF SafeSessions
  <1>10. ASSUME NEW i \in Items, NEW r \in Results, next = SubmitItem(s, i, r)
         PROVE  next \in SafeSessions
    BY <1>1, <1>10, SubmitItemSound, SubmitItemInTime DEF SafeSessions
  <1> QED BY <1>2, <1>3, <1>4, <1>5, <1>6, <1>7, <1>8, <1>9, <1>10 DEF Transitions

(***************************************************************************)
(* A transition that gives the session another active item has folded the  *)
(* clock, so that a call made within the same emit finds nothing to settle.*)
(***************************************************************************)

Stamped(s) == s.status = "in-progress" => s.lastTransitionAtMs = clock

Handover(s, next) == ActiveKeyOf(next) = ActiveKeyOf(s) \/ Stamped(next)

LEMMA SettledStamped ==
  ASSUME NEW s \in SessionState, clock \in Int, s.status = "in-progress"
  PROVE  Touch(s) \in SessionState /\ Stamped(Touch(s)) /\ Stamped(ApplyExpiries(Touch(s)))
  <1>1. Touch(s) \in SessionState /\ Touch(s).lastTransitionAtMs = clock
    BY TouchType, TouchKeeps
  <1> QED BY <1>1, ApplyExpiriesLands DEF Stamped

LEMMA SubmitItemStamped ==
  ASSUME NEW s \in SessionState, NEW i \in Items, NEW r \in Results, clock \in Int
  PROVE  Handover(s, SubmitItem(s, i, r))
  <1> DEFINE t == Touch(s)
             late == [t EXCEPT !.rejectedSubmissions = Append(@,
                        [itemKey |-> i, scope |-> BarringScope(t, i),
                         atTestSeconds |-> t.seconds[TestScope]])]
  <1> SUFFICES ASSUME s.status = "in-progress" PROVE Handover(s, SubmitItem(s, i, r))
    BY DEF SubmitItem, Handover
  <1>1. t \in SessionState /\ t.lastTransitionAtMs = clock
    BY TouchType, TouchKeeps
  <1> HIDE DEF t
  <1>2. BarringScopes(t, i) # {} => Stamped(ApplyExpiries(late))
    <2>1. BarringScopes(t, i) # {} => late \in SessionState
      BY <1>1, LateType
    <2>2. late.lastTransitionAtMs = clock
      BY <1>1 DEF SessionState
    <2> HIDE DEF late
    <2> QED BY <2>1, <2>2, ApplyExpiriesLands DEF Stamped
  <1>3. Stamped(ApplyExpiries(SubmitBody(t, i, r)))
    BY <1>1, SubmitBodyType, SubmitBodyKeeps, ApplyExpiriesLands DEF Stamped
  <1> QED BY <1>2, <1>3 DEF SubmitItem, Handover, late, t

LEMMA NextItemStamped ==
  ASSUME NEW s \in SessionState, clock \in Int
  PROVE  Handover(s, NextItem(s))
  <1> DEFINE t == Touch(s)
             k == NextDestination(t)
  <1> SUFFICES ASSUME s.status = "in-progress" PROVE Handover(s, NextItem(s))
    BY DEF NextItem, WithTransition, Handover
  <1>1. t \in SessionState /\ t.lastTransitionAtMs = clock /\ Stamped(ApplyExpiries(t))
    BY SettledStamped, TouchKeeps
  <1>2. ~NextRefused(t) => Stamped(MoveToItem(t, k))
    <2>1. ~NextRefused(t) => t.currentItemKey # NoItem
      BY DEF NextRefused
    <2> HIDE DEF t
    <2>2. ~NextRefused(t) => k \in Items \cup {NoItem}
      BY <1>1, <2>1, NextDestinationType
    <2> HIDE DEF k
    <2> QED BY <1>1, <2>2, MoveToItemLands DEF Stamped
  <1> QED BY <1>1, <1>2 DEF NextItem, WithTransition, Handover

LEMMA MoveToStamped ==
  ASSUME NEW s \in SessionState, NEW i \in Items, clock \in Int
  PROVE  Handover(s, MoveTo(s, i))
  <1> DEFINE t == Touch(s)
  <1> SUFFICES ASSUME s.status = "in-progress" PROVE Handover(s, MoveTo(s, i))
    BY DEF MoveTo, WithTransition, Handover
  <1>1. t \in SessionState /\ t.lastTransitionAtMs = clock /\ Stamped(ApplyExpiries(t))
    BY SettledStamped, TouchKeeps
  <1>2. Stamped(Present(t, i))
    <2> HIDE DEF t
    <2> QED BY <1>1 DEF Present, SessionState, Stamped
  <1> QED BY <1>1, <1>2 DEF MoveTo, WithTransition, Handover

LEMMA TransitionStamped ==
  ASSUME NEW s \in SessionState, NEW next \in Transitions(s), clock \in Int
  PROVE  Handover(s, next)
  <1>1. CASE next = NextItem(s)
    BY <1>1, NextItemStamped
  <1>2. CASE next = EndTest(s)
    <2>1. Stamped(Ended(Touch(s)))
      BY TouchType, EndedKeepsSeconds DEF Stamped
    <2> QED BY <1>2, <2>1 DEF EndTest, Handover
  <1>3. CASE next = TickClock(s)
    BY <1>3, SettledStamped DEF TickClock, Handover
  <1>4. CASE next = Suspend(s)
    <2> DEFINE settled == ApplyExpiries(Touch(s))
    <2>1. settled \in SessionState
      BY TouchType, ApplyExpiriesType
    <2> HIDE DEF settled
    <2>2. [settled EXCEPT !.status = "suspended"].status # "in-progress"
      BY <2>1 DEF SessionState
    <2> QED BY <1>4, <2>2 DEF Suspend, settled, Handover, Stamped
  <1>5. CASE next = Resume(s)
    <2>1. [s EXCEPT !.status = "in-progress", !.lastTransitionAtMs = clock].lastTransitionAtMs = clock
      BY DEF SessionState
    <2> QED BY <1>5, <2>1 DEF Resume, Handover, Stamped
  <1>6. ASSUME NEW i \in Items, next = MoveTo(s, i) PROVE Handover(s, next)
    BY <1>6, MoveToStamped
  <1>7. ASSUME NEW i \in Items, next = Review(s, i) PROVE Handover(s, next)
    <2>1. [s EXCEPT !.currentItemKey = i].status = s.status
      BY DEF SessionState
    <2> QED BY <1>7, <2>1 DEF Review, Handover, ActiveKeyOf
  <1>8. ASSUME NEW i \in Items, next = SetItemComment(s, i) PROVE Handover(s, next)
    <2> DEFINE noted == [s EXCEPT !.itemComments = @ \cup {i}]
    <2>1. noted.status = s.status /\ noted.currentItemKey = s.currentItemKey
      BY DEF SessionState
    <2> HIDE DEF noted
    <2> QED BY <1>8, <2>1 DEF SetItemComment, Handover, ActiveKeyOf, noted
  <1>9. ASSUME NEW i \in Items, NEW r \in Results, next = SubmitItem(s, i, r)
        PROVE  Handover(s, next)
    BY <1>9, SubmitItemStamped
  <1> QED BY <1>1, <1>2, <1>3, <1>4, <1>5, <1>6, <1>7, <1>8, <1>9 DEF Transitions

\* At the clock reading of the last transition there is nothing to settle: a
\* submission moves no one, whatever item it is for.
LEMMA SubmitItemStays ==
  ASSUME NEW s \in SessionState, NEW i \in Items, NEW r \in Results, clock \in Int,
         InTime(s), Stamped(s)
  PROVE  ActiveKeyOf(SubmitItem(s, i, r)) = ActiveKeyOf(s) /\ Stamped(SubmitItem(s, i, r))
  <1> DEFINE t == Touch(s)
             late == [t EXCEPT !.rejectedSubmissions = Append(@,
                        [itemKey |-> i, scope |-> BarringScope(t, i),
                         atTestSeconds |-> t.seconds[TestScope]])]
             Same(x) == /\ x.status = s.status /\ x.currentItemKey = s.currentItemKey
                        /\ x.seconds = s.seconds /\ x.lastTransitionAtMs = clock
  <1> SUFFICES ASSUME s.status = "in-progress"
               PROVE  /\ ActiveKeyOf(SubmitItem(s, i, r)) = ActiveKeyOf(s)
                      /\ Stamped(SubmitItem(s, i, r))
    BY DEF SubmitItem
  <1>1. t \in SessionState /\ Same(t)
    <2>1. t \in SessionState /\ t.status = s.status /\ t.currentItemKey = s.currentItemKey
          /\ t.lastTransitionAtMs = clock
      BY TouchType, TouchKeeps
    <2>2. Elapsed(s) = 0
      BY DEF Stamped, Elapsed
    <2> DEFINE secs == [c \in Scopes |-> IF c \in RunningScopes(s)
                                          THEN s.seconds[c] + Elapsed(s)
                                          ELSE s.seconds[c]]
    <2>3. secs = s.seconds
      <3>1. s.seconds \in [Scopes -> Nat]
        BY DEF SessionState
      <3>2. \A c \in Scopes : secs[c] = s.seconds[c]
        BY <2>2, <3>1
      <3> QED BY <3>1, <3>2
    <2>4. t = [s EXCEPT !.lastTransitionAtMs = clock, !.seconds = secs]
      BY DEF Touch
    <2> HIDE DEF t, secs
    <2>5. t.seconds = secs
      BY <2>4 DEF SessionState
    <2> QED BY <2>1, <2>3, <2>5
  <1>2. s.currentItemKey \in Items /\ NavigableInTime(s, s.currentItemKey)
        /\ ~ScopeExpired(s, TestScope)
    <2>1. s.currentItemKey \in Items /\ NavigableInTime(s, s.currentItemKey)
      BY DEF InTime, SessionState
    <2> QED BY <2>1 DEF NavigableInTime, EnclosingScopes
  <1>3. ASSUME NEW x \in SessionState, Same(x) PROVE ApplyExpiries(x) = x
    <2>1. NavigableInTime(x, x.currentItemKey) /\ ~ScopeExpired(x, TestScope)
      BY <1>2, <1>3 DEF NavigableInTime, ScopeExpired
    <2> QED BY <2>1 DEF ApplyExpiries
  <1>4. ASSUME NEW x, Same(x) PROVE ActiveKeyOf(x) = ActiveKeyOf(s) /\ Stamped(x)
    BY <1>4 DEF ActiveKeyOf, Stamped
  <1> HIDE DEF t
  <1>5. BarringScopes(t, i) # {} => late \in SessionState /\ Same(late)
    <2>1. BarringScopes(t, i) # {} => late \in SessionState
      BY <1>1, LateType
    <2>2. /\ late.status = t.status /\ late.currentItemKey = t.currentItemKey
          /\ late.seconds = t.seconds /\ late.lastTransitionAtMs = t.lastTransitionAtMs
      BY <1>1 DEF SessionState
    <2> HIDE DEF late
    <2> QED BY <1>1, <2>1, <2>2
  <1>6. SubmitBody(t, i, r) \in SessionState /\ Same(SubmitBody(t, i, r))
    BY <1>1, SubmitBodyType, SubmitBodyKeeps
  <1>7. Same(s)
    BY DEF Stamped
  <1>8. CASE BarringScopes(t, i) # {}
    <2>1. SubmitItem(s, i, r) = ApplyExpiries(late)
      BY <1>8 DEF SubmitItem, late, t
    <2> HIDE DEF late
    <2>2. SubmitItem(s, i, r) = late
      BY <1>3, <1>5, <1>8, <2>1
    <2> QED BY <1>4, <1>5, <1>8, <2>2
  <1>9. CASE BarringScopes(t, i) = {}
    <2>1. SubmitItem(s, i, r) \in {s, ApplyExpiries(SubmitBody(t, i, r))}
      BY <1>9 DEF SubmitItem, t
    <2>2. ApplyExpiries(SubmitBody(t, i, r)) = SubmitBody(t, i, r)
      BY <1>3, <1>6
    <2> QED BY <1>4, <1>6, <1>7, <2>1, <2>2
  <1> QED BY <1>8, <1>9

(***************************************************************************)
(* Worlds: a safe session, and attempt stores that have a result when they *)
(* are locked.                                                             *)
(***************************************************************************)

AttemptStores == {st \in StoreRecord : st.submitted => st.result \in Results}

StoreMaps    == [Items -> AttemptStores \cup {NoStore}]
InstanceMaps == [Items -> Responses \cup {NoInstance}]

Worlds == [session : SafeSessions, stores : StoreMaps, instances : InstanceMaps]

\* A store's clock runs exactly when key is its item.
RunsFor(st, i, key) == st.runningSince # Stopped <=> key = i

ClocksMatch(w) ==
  \A i \in Items : w.stores[i] # NoStore => RunsFor(w.stores[i], i, ActiveKeyOf(w.session))

\* No submitted snapshot is kept back.
HandedOverAt(w, i) ==
  w.stores[i] # NoStore /\ w.stores[i].submitted => w.stores[i].forwarded

AllHandedOver(w) == \A i \in Items : HandedOverAt(w, i)

LEMMA OpenedStore ==
  ASSUME NEW w \in Worlds, NEW i, Opened(w, i)
  PROVE  i \in Items /\ w.stores[i] \in AttemptStores
  BY DEF Opened, Worlds, StoreMaps

LEMMA PutStore ==
  ASSUME NEW w \in Worlds, NEW i \in Items, NEW st \in AttemptStores
  PROVE  LET v == [w EXCEPT !.stores[i] = st]
         IN /\ v \in Worlds
            /\ v.session = w.session /\ v.instances = w.instances
            /\ v.stores[i] = st
            /\ \A j \in Items \ {i} : v.stores[j] = w.stores[j]
  BY DEF Worlds, StoreMaps

LEMMA PutSession ==
  ASSUME NEW w \in Worlds, NEW s \in SafeSessions
  PROVE  LET v == [w EXCEPT !.session = s]
         IN /\ v \in Worlds
            /\ v.session = s /\ v.instances = w.instances /\ v.stores = w.stores
  BY DEF Worlds

LEMMA StopClockType ==
  ASSUME NEW st \in AttemptStores, clock \in Int
  PROVE  /\ StopClock(st) \in AttemptStores /\ StopClock(st).runningSince = Stopped
         /\ StopClock(st).submitted = st.submitted /\ StopClock(st).forwarded = st.forwarded
  <1>1. st \in StoreRecord /\ (st.submitted => st.result \in Results)
    BY DEF AttemptStores
  <1>2. CASE st.runningSince = Stopped
    BY <1>2 DEF StopClock
  <1>3. CASE st.runningSince # Stopped
    <2> DEFINE spent == st.activeMs + clock - st.runningSince
               stopped == [st EXCEPT !.activeMs = spent, !.runningSince = Stopped]
    <2>1. spent \in Int
      BY <1>1, <1>3 DEF StoreRecord
    <2>2. StopClock(st) = stopped
      BY <1>3 DEF StopClock
    <2> HIDE DEF spent
    <2>3. stopped \in StoreRecord /\ stopped.runningSince = Stopped
          /\ stopped.submitted = st.submitted /\ stopped.result = st.result
          /\ stopped.forwarded = st.forwarded
      BY <1>1, <2>1 DEF StoreRecord
    <2> QED BY <1>1, <2>2, <2>3 DEF AttemptStores
  <1> QED BY <1>2, <1>3

LEMMA HandedOverType ==
  ASSUME NEW st \in AttemptStores, NEW taken \in BOOLEAN
  PROVE  LET next == [st EXCEPT !.forwarded = taken]
         IN /\ next \in AttemptStores
            /\ next.runningSince = st.runningSince /\ next.forwarded = taken
            /\ next.submitted = st.submitted /\ next.result = st.result
  BY DEF AttemptStores, StoreRecord

LEMMA CapturedType ==
  ASSUME NEW st \in AttemptStores, NEW v \in Responses
  PROVE  LET next == [st EXCEPT !.states = v, !.forwarded = FALSE]
         IN next \in AttemptStores /\ next.runningSince = st.runningSince
  BY DEF AttemptStores, StoreRecord

\* A snapshot forwarded from within an emit records a submission and moves no one.
LEMMA ReforwardKeeps ==
  ASSUME NEW w \in Worlds, NEW i \in Items, w.stores[i] \in AttemptStores,
         Stamped(w.session), clock \in Int
  PROVE  LET v == Reforward(w, i)
         IN /\ v \in Worlds
            /\ ActiveKeyOf(v.session) = ActiveKeyOf(w.session)
            /\ \A j \in Items \ {i} : v.stores[j] = w.stores[j]
            /\ v.stores[i] \in AttemptStores
            /\ v.stores[i].runningSince = w.stores[i].runningSince
            /\ HandedOverAt(v, i)
  <1> DEFINE st == w.stores[i]
             next == SubmitItem(w.session, i, st.result)
             taken == [st EXCEPT !.forwarded = TRUE]
  <1> SUFFICES ASSUME st.submitted
               PROVE  LET v == Reforward(w, i)
                      IN /\ v \in Worlds
                         /\ ActiveKeyOf(v.session) = ActiveKeyOf(w.session)
                         /\ \A j \in Items \ {i} : v.stores[j] = w.stores[j]
                         /\ v.stores[i] \in AttemptStores
                         /\ v.stores[i].runningSince = w.stores[i].runningSince
                         /\ HandedOverAt(v, i)
    BY DEF Reforward, HandedOverAt
  <1>1. st.result \in Results
    BY DEF AttemptStores
  <1>2. w.session \in SafeSessions /\ w.session \in SessionState /\ InTime(w.session)
    BY DEF Worlds, SafeSessions, SoundSessions
  <1>3. next \in SafeSessions /\ ActiveKeyOf(next) = ActiveKeyOf(w.session)
    BY <1>1, <1>2, SubmitItemStays, SubmitItemSound, SubmitItemInTime DEF SafeSessions
  <1>4. taken \in AttemptStores /\ taken.runningSince = st.runningSince /\ taken.forwarded
    BY HandedOverType
  <1> DEFINE u == [w EXCEPT !.session = next]
             v == [u EXCEPT !.stores[i] = taken]
  <1>5. Reforward(w, i) = v
    BY DEF Reforward, Worlds, StoreMaps
  <1> HIDE DEF taken, next
  <1>6. u \in Worlds /\ u.session = next /\ u.stores = w.stores
    BY <1>3, PutSession
  <1> HIDE DEF u
  <1>7. /\ v \in Worlds /\ v.session = u.session /\ v.stores[i] = taken
        /\ \A j \in Items \ {i} : v.stores[j] = u.stores[j]
    BY <1>4, <1>6, PutStore
  <1> HIDE DEF v
  <1> QED BY <1>3, <1>4, <1>5, <1>6, <1>7 DEF HandedOverAt

LEMMA SuspendStoreKeeps ==
  ASSUME NEW w \in Worlds, NEW i, Opened(w, i), Stamped(w.session), clock \in Int
  PROVE  LET v == SuspendStore(w, i)
         IN /\ v \in Worlds
            /\ ActiveKeyOf(v.session) = ActiveKeyOf(w.session)
            /\ \A j \in Items \ {i} : v.stores[j] = w.stores[j]
            /\ v.stores[i].runningSince = Stopped
            /\ HandedOverAt(w, i) => HandedOverAt(v, i)
  <1> DEFINE st == StopClock(w.stores[i])
             captured == [st EXCEPT !.states = w.instances[i], !.forwarded = FALSE]
             u == [w EXCEPT !.stores[i] = captured]
  <1>1. /\ i \in Items /\ st \in AttemptStores /\ st.runningSince = Stopped
        /\ st.submitted = w.stores[i].submitted /\ st.forwarded = w.stores[i].forwarded
        /\ w.stores[i] # NoStore
    BY OpenedStore, StopClockType DEF Opened
  <1>2. CASE w.instances[i] = NoInstance
    <2>1. SuspendStore(w, i) = [w EXCEPT !.stores[i] = st]
      BY <1>2 DEF SuspendStore
    <2> HIDE DEF st
    <2> QED BY <1>1, <2>1, PutStore DEF HandedOverAt
  <1>3. CASE w.instances[i] # NoInstance
    <2>1. w.instances[i] \in Responses
      BY <1>1, <1>3 DEF Worlds, InstanceMaps
    <2>2. SuspendStore(w, i) = Reforward(u, i)
      BY <1>3 DEF SuspendStore
    <2> HIDE DEF st
    <2>3. captured \in AttemptStores /\ captured.runningSince = Stopped
      BY <1>1, <2>1, CapturedType
    <2> HIDE DEF captured
    <2>4. /\ u \in Worlds /\ u.session = w.session /\ u.stores[i] = captured
          /\ \A j \in Items \ {i} : u.stores[j] = w.stores[j]
      BY <1>1, <2>3, PutStore
    <2> HIDE DEF u
    <2> QED BY <1>1, <2>2, <2>3, <2>4, ReforwardKeeps
  <1> QED BY <1>2, <1>3

LEMMA ResumeStoreKeeps ==
  ASSUME NEW w \in Worlds, NEW i, Opened(w, i), clock \in Int
  PROVE  LET v == ResumeStore(w, i)
         IN /\ v \in Worlds
            /\ v.session = w.session
            /\ \A j \in Items \ {i} : v.stores[j] = w.stores[j]
            /\ v.stores[i].runningSince # Stopped
            /\ HandedOverAt(w, i) => HandedOverAt(v, i)
  <1> DEFINE running == [w.stores[i] EXCEPT !.runningSince = clock]
  <1>1. i \in Items /\ w.stores[i] \in AttemptStores /\ w.stores[i] # NoStore
    BY OpenedStore DEF Opened
  <1>2. /\ running \in AttemptStores /\ running.runningSince = clock /\ clock # Stopped
        /\ running.submitted = w.stores[i].submitted /\ running.forwarded = w.stores[i].forwarded
    BY <1>1, SessionStoreAssumption DEF AttemptStores, StoreRecord
  <1>3. CASE w.stores[i].runningSince # Stopped
    BY <1>3 DEF ResumeStore
  <1>4. CASE w.stores[i].runningSince = Stopped
    <2>1. ResumeStore(w, i) = [w EXCEPT !.stores[i] = running]
      BY <1>1, <1>4 DEF ResumeStore, Worlds, StoreMaps
    <2> HIDE DEF running
    <2> QED BY <1>1, <1>2, <2>1, PutStore DEF HandedOverAt
  <1> QED BY <1>3, <1>4

(***************************************************************************)
(* emit: whatever the transition and the snapshots it shakes loose, the    *)
(* clock of the departed store stops and that of the entered one runs.     *)
(***************************************************************************)

LEMMA EmitKeeps ==
  ASSUME NEW w \in Worlds, NEW next \in SafeSessions, Handover(w.session, next), clock \in Int
  PROVE  LET v == Emit(w, next)
         IN /\ v \in Worlds
            /\ ClocksMatch(w) => ClocksMatch(v)
            /\ \A j \in Items : HandedOverAt(w, j) => HandedOverAt(v, j)
  <1> DEFINE from  == ActiveKeyOf(w.session)
             to    == ActiveKeyOf(next)
             moved == [w EXCEPT !.session = next]
             left  == IF from # to /\ Opened(moved, from) THEN SuspendStore(moved, from) ELSE moved
             v     == IF from # to /\ Opened(left, to) THEN ResumeStore(left, to) ELSE left
  <1>1. Emit(w, next) = v
    BY DEF Emit
  <1>2. moved \in Worlds /\ moved.session = next /\ moved.stores = w.stores
    BY PutSession
  <1>3. CASE from = to
    <2>1. v = moved
      BY <1>3
    <2>2. ClocksMatch(w) => ClocksMatch(moved)
      <3> HIDE DEF moved
      <3> QED BY <1>2, <1>3 DEF ClocksMatch, RunsFor
    <2> QED BY <1>1, <1>2, <2>1, <2>2 DEF HandedOverAt
  <1>4. CASE from # to
    <2>1. Stamped(next)
      BY <1>4 DEF Handover
    <2> HIDE DEF moved
    <2>2. /\ left \in Worlds /\ ActiveKeyOf(left.session) = to
          /\ \A j \in Items \ {from} : left.stores[j] = w.stores[j]
          /\ from \in Items /\ left.stores[from] # NoStore => left.stores[from].runningSince = Stopped
          /\ \A j \in Items : HandedOverAt(w, j) => HandedOverAt(left, j)
      <3>1. CASE Opened(moved, from)
        <4>1. left = SuspendStore(moved, from)
          BY <1>4, <3>1
        <4> HIDE DEF left, to, from
        <4>2. ActiveKeyOf(next) = to
          BY DEF to
        <4> QED BY <1>2, <2>1, <3>1, <4>1, <4>2, SuspendStoreKeeps DEF HandedOverAt
      <3>2. CASE ~Opened(moved, from)
        <4>1. left = moved
          BY <3>2
        <4> QED BY <1>2, <3>2, <4>1 DEF Opened, HandedOverAt
      <3> QED BY <3>1, <3>2
    <2> HIDE DEF left, from
    <2>3. /\ v \in Worlds /\ ActiveKeyOf(v.session) = to
          /\ \A j \in Items \ {to} : v.stores[j] = left.stores[j]
          /\ to \in Items /\ v.stores[to] # NoStore => v.stores[to].runningSince # Stopped
          /\ \A j \in Items : HandedOverAt(left, j) => HandedOverAt(v, j)
      <3>1. CASE Opened(left, to)
        <4>1. v = ResumeStore(left, to)
          BY <1>4, <3>1
        <4> HIDE DEF v, to
        <4> QED BY <2>2, <3>1, <4>1, ResumeStoreKeeps DEF HandedOverAt
      <3>2. CASE ~Opened(left, to)
        <4>1. v = left
          BY <3>2
        <4> QED BY <2>2, <3>2, <4>1 DEF Opened
      <3> QED BY <3>1, <3>2
    <2> HIDE DEF v, to
    <2>4. ASSUME ClocksMatch(w), NEW j \in Items, v.stores[j] # NoStore
          PROVE  RunsFor(v.stores[j], j, to)
      <3>1. CASE j = to
        BY <2>3, <2>4, <3>1 DEF RunsFor
      <3>2. CASE j # to /\ j = from
        BY <2>2, <2>3, <2>4, <3>2 DEF RunsFor
      <3>3. CASE j # to /\ j # from
        <4>1. v.stores[j] = w.stores[j]
          BY <2>2, <2>3, <3>3
        <4>2. RunsFor(w.stores[j], j, from)
          BY <2>4, <4>1 DEF ClocksMatch, from
        <4> QED BY <3>3, <4>1, <4>2 DEF RunsFor
      <3> QED BY <3>1, <3>2, <3>3
    <2> QED BY <1>1, <2>2, <2>3, <2>4 DEF ClocksMatch
  <1> QED BY <1>3, <1>4

LEMMA ForwardKeeps ==
  ASSUME NEW w \in Worlds, NEW i \in Items, w.stores[i] \in AttemptStores, clock \in Int
  PROVE  LET v == Forward(w, i)
         IN /\ v \in Worlds
            /\ ClocksMatch(w) /\ RunsFor(w.stores[i], i, ActiveKeyOf(w.session))
                 => ClocksMatch(v)
            /\ (\A j \in Items \ {i} : HandedOverAt(w, j)) => AllHandedOver(v)
  <1> DEFINE st    == w.stores[i]
             lent  == [st EXCEPT !.forwarded = TRUE]
             taken == [w EXCEPT !.stores[i] = lent]
             next  == SubmitItem(w.session, i, st.result)
  <1>1. Forward(w, i) = IF ~st.submitted \/ st.forwarded THEN w
                        ELSE IF next = w.session THEN taken ELSE Emit(taken, next)
    BY DEF Forward, Worlds, StoreMaps
  <1>2. lent \in AttemptStores /\ lent.runningSince = st.runningSince /\ lent.forwarded
    BY HandedOverType
  <1>3. st.submitted => st.result \in Results
    BY DEF AttemptStores
  <1>4. w.session \in SafeSessions /\ w.session \in SessionState
    BY DEF Worlds, SafeSessions, SoundSessions
  <1>5. st.submitted => next \in SafeSessions /\ Handover(w.session, next)
    BY <1>3, <1>4, TransitionSafe, SubmitItemStamped DEF Transitions
  <1> HIDE DEF lent, next
  <1>6. /\ taken \in Worlds /\ taken.session = w.session /\ taken.stores[i] = lent
        /\ \A j \in Items \ {i} : taken.stores[j] = w.stores[j]
    BY <1>2, PutStore
  <1> HIDE DEF taken
  <1>7. ClocksMatch(w) /\ RunsFor(st, i, ActiveKeyOf(w.session)) => ClocksMatch(taken)
    BY <1>2, <1>6 DEF ClocksMatch, RunsFor
  <1>8. st.submitted => /\ Emit(taken, next) \in Worlds
                        /\ ClocksMatch(taken) => ClocksMatch(Emit(taken, next))
    BY <1>5, <1>6, EmitKeeps
  <1>9. (\A j \in Items \ {i} : HandedOverAt(w, j)) => AllHandedOver(taken)
    BY <1>2, <1>6 DEF HandedOverAt, AllHandedOver
  <1>10. st.submitted /\ AllHandedOver(taken) => AllHandedOver(Emit(taken, next))
    BY <1>5, <1>6, EmitKeeps DEF AllHandedOver
  <1>11. ~st.submitted \/ st.forwarded => HandedOverAt(w, i)
    BY DEF HandedOverAt
  <1>12. (\A j \in Items \ {i} : HandedOverAt(w, j)) /\ HandedOverAt(w, i) => AllHandedOver(w)
    BY DEF AllHandedOver
  <1> QED BY <1>1, <1>6, <1>7, <1>8, <1>9, <1>10, <1>11, <1>12

LEMMA StoreEmitKeeps ==
  ASSUME NEW w \in Worlds, NEW i \in Items, NEW st \in AttemptStores, clock \in Int
  PROVE  LET v == StoreEmit(w, i, st)
         IN /\ v \in Worlds
            /\ ClocksMatch(w) /\ RunsFor(st, i, ActiveKeyOf(w.session)) => ClocksMatch(v)
            /\ AllHandedOver(w) => AllHandedOver(v)
  <1> DEFINE fresh == [st EXCEPT !.forwarded = FALSE]
             u == [w EXCEPT !.stores[i] = fresh]
  <1>1. fresh \in AttemptStores /\ fresh.runningSince = st.runningSince
    BY HandedOverType
  <1>2. StoreEmit(w, i, st) = Forward(u, i)
    BY DEF StoreEmit
  <1> HIDE DEF fresh
  <1>3. /\ u \in Worlds /\ u.session = w.session /\ u.stores[i] = fresh
        /\ \A j \in Items \ {i} : u.stores[j] = w.stores[j]
    BY <1>1, PutStore
  <1> HIDE DEF u
  <1>4. ClocksMatch(w) /\ RunsFor(st, i, ActiveKeyOf(w.session))
          => ClocksMatch(u) /\ RunsFor(u.stores[i], i, ActiveKeyOf(u.session))
    BY <1>1, <1>3 DEF ClocksMatch, RunsFor
  <1>5. AllHandedOver(w) => \A j \in Items \ {i} : HandedOverAt(u, j)
    BY <1>3 DEF AllHandedOver, HandedOverAt
  <1> QED BY <1>1, <1>2, <1>3, <1>4, <1>5, ForwardKeeps

(***************************************************************************)
(* The calls on a store                                                    *)
(***************************************************************************)

LEMMA SetResponseKeeps ==
  ASSUME NEW w \in Worlds, NEW i, Opened(w, i), NEW a \in Responses, clock \in Int
  PROVE  LET v == SetResponse(w, i, a)
         IN /\ v \in Worlds
            /\ ClocksMatch(w) => ClocksMatch(v)
            /\ AllHandedOver(w) => AllHandedOver(v)
  <1> DEFINE st == w.stores[i]
             answered == [st EXCEPT !.response = a]
  <1>1. i \in Items /\ st \in AttemptStores /\ st # NoStore
    BY OpenedStore DEF Opened
  <1>2. answered \in AttemptStores /\ answered.runningSince = st.runningSince
    BY <1>1 DEF AttemptStores, StoreRecord
  <1>3. SetResponse(w, i, a) \in {w, StoreEmit(w, i, answered)}
    BY DEF SetResponse
  <1> HIDE DEF answered
  <1>4. ClocksMatch(w) => RunsFor(answered, i, ActiveKeyOf(w.session))
    BY <1>1, <1>2 DEF ClocksMatch, RunsFor
  <1> QED BY <1>1, <1>2, <1>3, <1>4, StoreEmitKeeps

LEMMA ScoredType ==
  ASSUME NEW w \in Worlds, NEW i, Opened(w, i)
  PROVE  Collected(w, i) \in Responses /\ Scored(w, i) \in Results
  <1>1. i \in Items /\ w.stores[i] \in AttemptStores
    BY OpenedStore
  <1>2. w.stores[i].response \in Responses /\ w.stores[i].result \in Results \cup {NoResult}
    BY <1>1 DEF AttemptStores, StoreRecord
  <1>3. Collected(w, i) \in Responses
    BY <1>1, <1>2 DEF Collected, Worlds, InstanceMaps
  <1> QED BY <1>1, <1>2, <1>3, SessionStoreAssumption DEF Scored

LEMMA SubmitStoreKeeps ==
  ASSUME NEW w \in Worlds, NEW i, Opened(w, i), clock \in Int
  PROVE  LET v == SubmitStore(w, i)
         IN /\ v \in Worlds
            /\ ClocksMatch(w) => ClocksMatch(v)
            /\ AllHandedOver(w) => AllHandedOver(v)
  <1> DEFINE st     == w.stores[i]
             pulled == [st EXCEPT !.response = Collected(w, i)]
             locks  == Locks(w, i)
             kept   == IF locks THEN Collected(w, i) ELSE NextAttempt(Collected(w, i))
             scored == [st EXCEPT !.result = Scored(w, i), !.submitted = locks,
                                  !.response = kept]
             r      == Scored(w, i)
  <1>1. i \in Items /\ st \in AttemptStores /\ st # NoStore /\ st \in StoreRecord
    BY OpenedStore DEF Opened, AttemptStores
  <1>2. Collected(w, i) \in Responses /\ r \in Results
    BY ScoredType
  <1>3. locks \in BOOLEAN /\ kept \in Responses
    BY <1>2, SessionStoreAssumption DEF Locks
  <1>4. SubmitStore(w, i) \in {w, StoreEmit(w, i, pulled), StoreEmit(w, i, scored)}
    <2>1. [pulled EXCEPT !.result = Scored(w, i), !.submitted = Locks(w, i),
                         !.response = IF Locks(w, i) THEN @ ELSE NextAttempt(@)] = scored
      BY <1>1 DEF StoreRecord
    <2> QED BY <2>1 DEF SubmitStore
  <1> HIDE DEF locks, kept, r
  <1>5. pulled \in AttemptStores /\ pulled.runningSince = st.runningSince
    BY <1>1, <1>2 DEF AttemptStores, StoreRecord
  <1>6. scored \in AttemptStores /\ scored.runningSince = st.runningSince
    BY <1>1, <1>2, <1>3 DEF AttemptStores, StoreRecord, r
  <1> HIDE DEF pulled, scored
  <1>7. ClocksMatch(w) => /\ RunsFor(pulled, i, ActiveKeyOf(w.session))
                          /\ RunsFor(scored, i, ActiveKeyOf(w.session))
    BY <1>1, <1>5, <1>6 DEF ClocksMatch, RunsFor
  <1> QED BY <1>1, <1>4, <1>5, <1>6, <1>7, StoreEmitKeeps

LEMMA FreshStoreType ==
  ASSUME NEW since \in Int \cup {Stopped}, NEW d \in TestOutcomes \cup {NoResult}
  PROVE  /\ FreshStore(since, d) \in AttemptStores /\ FreshStore(since, d).runningSince = since
         /\ ~FreshStore(since, d).submitted
  BY SessionStoreAssumption DEF FreshStore, AttemptStores, StoreRecord

\* A reset keeps the clocks in step when it is that of the active item.
LEMMA ResetStoreKeeps ==
  ASSUME NEW w \in Worlds, NEW i, Opened(w, i), clock \in Int
  PROVE  LET v == ResetStore(w, i)
         IN /\ v \in Worlds
            /\ ClocksMatch(w) /\ ActiveKeyOf(w.session) = i => ClocksMatch(v)
            /\ AllHandedOver(w) => AllHandedOver(v)
  <1> DEFINE blank == FreshStore(clock, w.stores[i].templateDefaults)
  <1>1. i \in Items /\ w.stores[i].templateDefaults \in TestOutcomes \cup {NoResult}
    BY OpenedStore DEF AttemptStores, StoreRecord
  <1>2. blank \in AttemptStores /\ blank.runningSince = clock
    BY <1>1, FreshStoreType
  <1>3. ActiveKeyOf(w.session) = i => RunsFor(blank, i, ActiveKeyOf(w.session))
    BY <1>2, SessionStoreAssumption DEF RunsFor
  <1>4. ResetStore(w, i) = StoreEmit(w, i, blank)
    BY DEF ResetStore
  <1> HIDE DEF blank
  <1> QED BY <1>1, <1>2, <1>3, <1>4, StoreEmitKeeps

LEMMA OpenStoreKeeps ==
  ASSUME NEW w \in Worlds, NEW i \in Items, clock \in Int
  PROVE  LET v == OpenStore(w, i)
         IN /\ v \in Worlds /\ v.session = w.session /\ v.instances = w.instances
            /\ \A j \in Items \ {i} : v.stores[j] = w.stores[j]
            /\ \/ v.stores[i] = w.stores[i]
               \/ RunsFor(v.stores[i], i, ActiveKeyOf(w.session))
            /\ HandedOverAt(w, i) => HandedOverAt(v, i)
  <1> DEFINE since  == IF ActiveKeyOf(w.session) = i THEN clock ELSE Stopped
             opened == FreshStore(since, w.session.templateDefaultValues[i])
  <1>1. w.session.templateDefaultValues[i] \in TestOutcomes \cup {NoResult}
    BY DEF Worlds, SafeSessions, SoundSessions, SessionState
  <1>2. opened \in AttemptStores /\ opened.runningSince = since /\ ~opened.submitted
    BY <1>1, FreshStoreType
  <1>3. RunsFor(opened, i, ActiveKeyOf(w.session))
    BY <1>2, SessionStoreAssumption DEF RunsFor
  <1>4. OpenStore(w, i) \in {w, [w EXCEPT !.stores[i] = opened]}
    BY DEF OpenStore
  <1> HIDE DEF opened
  <1> DEFINE u == [w EXCEPT !.stores[i] = opened]
  <1>5. /\ u \in Worlds /\ u.session = w.session /\ u.instances = w.instances
        /\ u.stores[i] = opened
        /\ \A j \in Items \ {i} : u.stores[j] = w.stores[j]
    BY <1>2, PutStore
  <1> HIDE DEF u
  <1>6. HandedOverAt(u, i)
    BY <1>2, <1>5 DEF HandedOverAt
  <1> QED BY <1>3, <1>4, <1>5, <1>6 DEF u

(***************************************************************************)
(* The composed system                                                     *)
(***************************************************************************)

SessionInv == World \in Worlds /\ AllHandedOver(World) /\ clock \in Int

\* One step of the composed system yields a world; with resets on the active
\* item only, its clocks match if they did.
Yields(w) ==
  /\ w \in Worlds /\ AllHandedOver(w)
  /\ WorldIs(w)
  /\ ~ResetsAnywhere /\ ClocksMatch(World) => ClocksMatch(w)

LEMMA CallsYield ==
  ASSUME SessionInv, NEW next \in Transitions(session), Calls(next)
  PROVE  \E w : Yields(w)
  <1>1. World \in Worlds /\ World.session = session /\ AllHandedOver(World) /\ clock \in Int
    BY DEF SessionInv, World
  <1>2. session \in SafeSessions /\ session \in SessionState
    BY <1>1 DEF Worlds, SafeSessions, SoundSessions
  <1>3. next \in SafeSessions /\ Handover(World.session, next)
    BY <1>1, <1>2, TransitionSafe, TransitionStamped
  <1>4. Yields(Emit(World, next))
    BY <1>1, <1>3, EmitKeeps DEF Calls, Yields, AllHandedOver
  <1> QED BY <1>4

LEMMA SurfaceYields ==
  ASSUME SessionInv,
         \/ CallMoveTo \/ CallNext \/ CallEnd \/ CallTick
         \/ CallSuspend \/ CallResume \/ CallReview \/ CallComment
  PROVE  \E w : Yields(w)
  <1>1. \E next \in Transitions(session) : Calls(next)
    BY DEF Transitions, CallMoveTo, CallNext, CallEnd, CallTick, CallSuspend, CallResume,
           CallReview, CallComment
  <1> QED BY <1>1, CallsYield

LEMMA OpeningsYield ==
  ASSUME SessionInv, OpenItem \/ AssessmentResult
  PROVE  \E w : Yields(w)
  <1> DEFINE all == [i \in Items |-> OpenStore(World, i).stores[i]]
             reported == [World EXCEPT !.stores = all]
             key == ActiveKeyOf(World.session)
  <1>1. World \in Worlds /\ AllHandedOver(World) /\ clock \in Int
    BY DEF SessionInv
  <1> HIDE DEF all
  <1>2. CASE OpenItem
    <2>1. PICK i \in Items : WorldIs(OpenStore(World, i))
      BY <1>2 DEF OpenItem
    <2> DEFINE v == OpenStore(World, i)
    <2>2. /\ v \in Worlds /\ v.session = World.session
          /\ \A j \in Items \ {i} : v.stores[j] = World.stores[j]
          /\ v.stores[i] = World.stores[i] \/ RunsFor(v.stores[i], i, key)
          /\ HandedOverAt(v, i)
      BY <1>1, OpenStoreKeeps DEF AllHandedOver
    <2> HIDE DEF v
    <2>3. AllHandedOver(v) /\ (ClocksMatch(World) => ClocksMatch(v))
      BY <1>1, <2>2 DEF ClocksMatch, AllHandedOver, HandedOverAt
    <2> QED BY <2>1, <2>2, <2>3 DEF Yields, v
  <1>3. CASE AssessmentResult
    <2>1. WorldIs(reported)
      BY <1>3 DEF AssessmentResult, all
    <2>2. ASSUME NEW i \in Items
          PROVE  /\ all[i] \in AttemptStores \cup {NoStore}
                 /\ all[i] = World.stores[i] \/ RunsFor(all[i], i, key)
                 /\ all[i] # NoStore /\ all[i].submitted => all[i].forwarded
      <3> DEFINE v == OpenStore(World, i)
      <3>1. /\ v \in Worlds /\ (v.stores[i] = World.stores[i] \/ RunsFor(v.stores[i], i, key))
            /\ HandedOverAt(v, i)
        BY <1>1, OpenStoreKeeps DEF AllHandedOver
      <3>2. all[i] = v.stores[i]
        BY DEF all
      <3> HIDE DEF v
      <3> QED BY <3>1, <3>2 DEF Worlds, StoreMaps, HandedOverAt
    <2>3. all \in StoreMaps
      BY <2>2 DEF StoreMaps, all
    <2>4. reported \in Worlds /\ reported.session = World.session /\ reported.stores = all
      BY <1>1, <2>3 DEF Worlds
    <2> HIDE DEF reported
    <2>5. AllHandedOver(reported) /\ (ClocksMatch(World) => ClocksMatch(reported))
      BY <2>2, <2>4 DEF ClocksMatch, AllHandedOver, HandedOverAt
    <2> QED BY <2>1, <2>4, <2>5 DEF Yields
  <1> QED BY <1>2, <1>3

LEMMA StoreCallsYield ==
  ASSUME SessionInv, Answer \/ SubmitAttempt \/ ResetAttempt
  PROVE  \E w : Yields(w)
  <1>1. World \in Worlds /\ World.session = session /\ AllHandedOver(World) /\ clock \in Int
    BY DEF SessionInv, World
  <1>2. CASE Answer
    <2>1. PICK i \in Items, a \in Responses : Opened(World, i) /\ WorldIs(SetResponse(World, i, a))
      BY <1>2 DEF Answer
    <2>2. Yields(SetResponse(World, i, a))
      BY <1>1, <2>1, SetResponseKeeps DEF Yields
    <2> QED BY <2>2
  <1>3. CASE SubmitAttempt
    <2>1. PICK i \in Items : Opened(World, i) /\ WorldIs(SubmitStore(World, i))
      BY <1>3 DEF SubmitAttempt
    <2>2. Yields(SubmitStore(World, i))
      BY <1>1, <2>1, SubmitStoreKeeps DEF Yields
    <2> QED BY <2>2
  <1>4. CASE ResetAttempt
    <2>1. PICK i \in Items : /\ Opened(World, i) /\ WorldIs(ResetStore(World, i))
                             /\ ResetsAnywhere \/ ActiveKeyOf(session) = i
      BY <1>4 DEF ResetAttempt
    <2>2. Yields(ResetStore(World, i))
      BY <1>1, <2>1, ResetStoreKeeps DEF Yields
    <2> QED BY <2>2
  <1> QED BY <1>2, <1>3, <1>4

LEMMA PageYields ==
  ASSUME SessionInv, Mount \/ Unmount \/ Interact \/ Restart
  PROVE  \E w : Yields(w)
  <1>1. World \in Worlds /\ AllHandedOver(World) /\ World.session = session /\ World.stores = stores
        /\ World.instances = instances
    BY DEF SessionInv, World
  <1>2. ASSUME NEW i \in Items, NEW a \in Responses \cup {NoInstance},
               WorldIs([World EXCEPT !.instances[i] = a])
        PROVE  \E w : Yields(w)
    <2> DEFINE v == [World EXCEPT !.instances[i] = a]
    <2>1. v \in Worlds /\ v.session = World.session /\ v.stores = World.stores
      BY <1>1 DEF Worlds, InstanceMaps
    <2>2. WorldIs(v)
      BY <1>2
    <2> HIDE DEF v
    <2> QED BY <1>1, <2>1, <2>2 DEF Yields, ClocksMatch, AllHandedOver, HandedOverAt
  <1>3. CASE Mount
    <2>1. PICK i \in Imperative :
            /\ Opened(World, i)
            /\ WorldIs([World EXCEPT !.instances[i] =
                          IF stores[i].states = NoState THEN NoResponse ELSE stores[i].states])
      BY <1>3 DEF Mount
    <2>2. i \in Items /\ stores[i].states \in Responses \cup {NoState}
      BY <1>1, <2>1, OpenedStore DEF AttemptStores, StoreRecord
    <2> DEFINE a == IF stores[i].states = NoState THEN NoResponse ELSE stores[i].states
    <2>3. a \in Responses
      BY <2>2, SessionStoreAssumption
    <2>4. WorldIs([World EXCEPT !.instances[i] = a])
      BY <2>1
    <2> HIDE DEF a
    <2> QED BY <1>2, <2>2, <2>3, <2>4
  <1>4. CASE Unmount
    <2>1. PICK i \in Imperative : WorldIs([World EXCEPT !.instances[i] = NoInstance])
      BY <1>4 DEF Unmount
    <2> QED BY <1>2, <2>1, SessionStoreAssumption
  <1>5. CASE Interact
    <2>1. PICK i \in Imperative, a \in Responses : WorldIs([World EXCEPT !.instances[i] = a])
      BY <1>5 DEF Interact
    <2> QED BY <1>2, <2>1, SessionStoreAssumption
  <1>6. CASE Restart
    <2> DEFINE v == [session |-> session, stores |-> NoStores, instances |-> NoInstances]
    <2>1. v \in Worlds /\ v.stores = [i \in Items |-> NoStore]
      BY <1>1 DEF Worlds, StoreMaps, InstanceMaps, NoStores, NoInstances
    <2>2. WorldIs(v)
      BY <1>6 DEF Restart, Restored
    <2>3. ClocksMatch(v) /\ AllHandedOver(v)
      BY <2>1 DEF ClocksMatch, AllHandedOver, HandedOverAt
    <2> HIDE DEF v
    <2> QED BY <2>1, <2>2, <2>3 DEF Yields
  <1> QED BY <1>3, <1>4, <1>5, <1>6

LEMMA StepYields ==
  ASSUME SessionInv, [SessionNext]_sessionVars
  PROVE  clock' \in Int /\ \E w : /\ w \in Worlds /\ AllHandedOver(w)
                                  /\ w = World'
                                  /\ ~ResetsAnywhere /\ ClocksMatch(World) => ClocksMatch(w)
  <1>1. ASSUME \E w : Yields(w) PROVE clock' \in Int
    BY <1>1 DEF Yields, WorldIs, SessionInv
  <1>2. ASSUME NEW w, Yields(w) PROVE w = World'
    <2>1. w = [session |-> w.session, stores |-> w.stores, instances |-> w.instances]
      BY <1>2 DEF Yields, Worlds
    <2> QED BY <1>2, <2>1 DEF Yields, WorldIs, World
  <1>3. CASE Wait \/ UNCHANGED sessionVars
    <2>1. clock' \in Int /\ World' = World
      BY <1>3 DEF Wait, AdvanceClock, sessionVars, World, SessionInv
    <2> QED BY <2>1 DEF SessionInv
  <1>4. CASE SessionNext /\ ~Wait
    <2>1. \E w : Yields(w)
      BY <1>4, SurfaceYields, OpeningsYield, StoreCallsYield, PageYields DEF SessionNext
    <2> QED BY <1>1, <1>2, <2>1 DEF Yields
  <1> QED BY <1>3, <1>4

LEMMA SafeWorld ==
  ASSUME World \in Worlds
  PROVE  LedgerAgrees /\ WithinMaxAttempts /\ CurrentInTime
  <1>1. session \in SafeSessions
    BY DEF World, Worlds
  <1>2. InTime(session) /\ \A i \in Items : SoundAt(session, i)
    BY <1>1 DEF SafeSessions, SoundSessions
  <1> QED BY <1>2 DEF LedgerAgrees, WithinMaxAttempts, CurrentInTime, SoundAt

\* Worlds and ClocksMatch read no variable but their argument, so that a step
\* that yields a world of this state gives one of the next.
LEMMA WorldsStay ==
  /\ Worlds' = Worlds
  /\ ClocksMatch(World)' <=> ClocksMatch(World')
  /\ AllHandedOver(World)' <=> AllHandedOver(World')
  <1>1. Worlds' = Worlds
    BY DEF Worlds, SafeSessions, SoundSessions, SoundAt, Provisional, LedgerOf, WithinMax,
           LastAttempt, SessionState, InTime, NavigableInTime, ScopeExpired, StoreMaps,
           AttemptStores, StoreRecord, InstanceMaps
  <1>2. ClocksMatch(World)' <=> ClocksMatch(World')
    BY DEF ClocksMatch, RunsFor, ActiveKeyOf, World
  <1>3. AllHandedOver(World)' <=> AllHandedOver(World')
    BY DEF AllHandedOver, HandedOverAt, World
  <1> QED BY <1>1, <1>2, <1>3

LEMMA SessionStarts ==
  ASSUME SessionInit
  PROVE  SessionInv /\ ClocksMatch(World)
  <1>1. clock \in Int /\ session = StartState
    BY DEF SessionInit, Init
  <1>2. session \in SafeSessions
    BY <1>1, StartStateSound, StartStateInTime DEF SafeSessions
  <1>3. stores \in StoreMaps /\ instances \in InstanceMaps
    BY DEF SessionInit, NoStores, NoInstances, StoreMaps, InstanceMaps
  <1>4. World \in Worlds
    BY <1>2, <1>3 DEF World, Worlds
  <1>5. ClocksMatch(World) /\ AllHandedOver(World)
    BY DEF SessionInit, NoStores, ClocksMatch, AllHandedOver, HandedOverAt, World
  <1> QED BY <1>1, <1>4, <1>5 DEF SessionInv

LEMMA SessionInvariant == SessionSpec => []SessionInv
  <1>1. SessionInit => SessionInv
    BY SessionStarts
  <1>2. SessionInv /\ [SessionNext]_sessionVars => SessionInv'
    BY StepYields, WorldsStay DEF SessionInv
  <1> QED BY <1>1, <1>2, PTL DEF SessionSpec

\* Attempt stores, interactions and restarts leave the controller's promises
\* as they are: limits, ledger and held results hold of the session they share,
\* however submissions are forwarded, even from within an emit.
THEOREM SharedSessionIsSound ==
  SessionSpec => [](LedgerAgrees /\ WithinMaxAttempts)
  <1>1. SessionInv => LedgerAgrees /\ WithinMaxAttempts
    BY SafeWorld DEF SessionInv
  <1> QED BY <1>1, SessionInvariant, PTL

\* The stores keep their types, and a submission is handed to the controller before
\* the call that made it returns (the subscription in itemStore of session-store.ts),
\* also when it is made by a suspension in the middle of an emit.
THEOREM StoresTypeCorrect == SessionSpec => []StoresTypeOK
  <1> DEFINE Observed == made \in [Items -> Nat] /\ typed \in [Items -> Responses]
  <1>1. SessionInit => Observed
    BY SessionStoreAssumption DEF SessionInit
  <1>2. Observed /\ [SessionNext]_sessionVars => Observed'
    <2> SUFFICES ASSUME Observed, [SessionNext]_sessionVars PROVE Observed'
      OBVIOUS
    <2>1. CASE SubmitAttempt
      BY <2>1 DEF SubmitAttempt
    <2>2. CASE ResetAttempt
      BY <2>2, SessionStoreAssumption DEF ResetAttempt
    <2>3. CASE Interact
      BY <2>3 DEF Interact
    <2>4. CASE Restart
      BY <2>4, SessionStoreAssumption DEF Restart
    <2>5. CASE UNCHANGED <<made, typed>>
      BY <2>5
    <2> QED BY <2>1, <2>2, <2>3, <2>4, <2>5
         DEF SessionNext, CallMoveTo, CallNext, CallEnd, CallTick, CallSuspend, CallResume,
             CallReview, CallComment, Calls, OpenItem, AssessmentResult, Answer, Mount, Unmount,
             Wait, Unobserved, sessionVars
  <1>3. SessionInv /\ Observed => StoresTypeOK
    <2> SUFFICES ASSUME SessionInv, Observed PROVE StoresTypeOK
      OBVIOUS
    <2>1. stores \in StoreMaps /\ instances \in InstanceMaps
      BY DEF SessionInv, World, Worlds
    <2>2. stores \in [Items -> StoreRecord \cup {NoStore}]
      BY <2>1 DEF StoreMaps, AttemptStores
    <2>3. \A i \in Items : stores[i] # NoStore /\ stores[i].submitted =>
                            stores[i].forwarded /\ stores[i].result \in Results
      BY <2>1 DEF SessionInv, AllHandedOver, HandedOverAt, World, StoreMaps, AttemptStores
    <2> QED BY <2>1, <2>2, <2>3 DEF StoresTypeOK, InstanceMaps
  <1> HIDE DEF Observed
  <1> QED BY <1>1, <1>2, <1>3, SessionInvariant, PTL DEF SessionSpec

\* The session the stores share never stands open on an item whose time is
\* spent (the end of every call of session-store.ts).
THEOREM SharedSessionIsInTime == SessionSpec => []CurrentInTime
  <1>1. SessionInv => CurrentInTime
    BY SafeWorld DEF SessionInv
  <1> QED BY <1>1, SessionInvariant, PTL

\* Where stores are reset on their active item only, exactly the active item's
\* clock runs (emit and itemStore of session-store.ts): for every plan, clock,
\* time limit, and order of navigation, submission, suspension and restart.
THEOREM ActiveClockRunsAlone ==
  ASSUME ~ResetsAnywhere
  PROVE  SessionSpec => []OnlyActiveClockRuns
  <1> DEFINE Match == ClocksMatch(World)
  <1>1. SessionInit => Match
    BY SessionStarts
  <1>2. SessionInv /\ Match /\ [SessionNext]_sessionVars => Match'
    BY StepYields, WorldsStay
  <1>3. Match => OnlyActiveClockRuns
    <2> SUFFICES ASSUME Match, NEW i \in Items, stores[i] # NoStore
                 PROVE  stores[i].runningSince # Stopped
                          <=> session.status = "in-progress" /\ session.currentItemKey = i
      BY DEF OnlyActiveClockRuns
    <2>1. RunsFor(stores[i], i, ActiveKeyOf(session))
      BY DEF ClocksMatch, World
    <2>2. ActiveKeyOf(session) = i
            <=> session.status = "in-progress" /\ session.currentItemKey = i
      BY PlanAssumption DEF ActiveKeyOf, NoItem, Items
    <2> QED BY <2>1, <2>2, Zenon DEF RunsFor
  <1> HIDE DEF Match
  <1> QED BY <1>1, <1>2, <1>3, SessionInvariant, PTL DEF SessionSpec
=============================================================================
