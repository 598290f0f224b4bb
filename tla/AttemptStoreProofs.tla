------------------------- MODULE AttemptStoreProofs -------------------------
(***************************************************************************)
(* Theorems about the attempt stores over time: the clock a store runs     *)
(* against the controller's, the input of a mounted interaction against    *)
(* what its store remembers, and the session they share against the        *)
(* controller alone.  They rest on one account of what an emit does.       *)
(***************************************************************************)
EXTENDS TestSessionProofs, TestNavigationProofs

(***************************************************************************)
(* What an emit does to the world                                          *)
(***************************************************************************)

\* What the clock of a store has counted when it is stopped.
Counted(st) ==
  IF st.runningSince = Stopped THEN st.activeMs ELSE st.activeMs + clock - st.runningSince

\* What a session going on from one active item to another makes of the store
\* st of item i, st2 being the store afterwards and shown the interaction's input.
Passes(st, st2, i, from, to, shown) ==
  LET leaves == from # to /\ i = from
      enters == from # to /\ i = to
  IN /\ st2.states = IF leaves /\ shown # NoInstance THEN shown ELSE st.states
     /\ st2.templateDefaults = st.templateDefaults
     /\ st2.activeMs = IF leaves THEN Counted(st) ELSE st.activeMs
     /\ st2.runningSince = IF leaves THEN Stopped
                           ELSE IF enters /\ st.runningSince = Stopped THEN clock
                           ELSE st.runningSince

\* From w to v the session goes on to next; the snapshot of a mounted interaction
\* may be forwarded on the way.
Moves(w, v, next) ==
  LET from == ActiveKeyOf(w.session)
      to   == ActiveKeyOf(next)
  IN /\ v.instances = w.instances
     /\ \/ v.session = next
        \/ /\ from \in Items /\ from # to /\ w.instances[from] # NoInstance
           /\ Stamped(next)
           /\ \E r \in Results : v.session = SubmitItem(next, from, r)
     /\ \A i \in Items :
          /\ v.stores[i] = NoStore <=> w.stores[i] = NoStore
          /\ w.stores[i] # NoStore =>
               Passes(w.stores[i], v.stores[i], i, from, to, w.instances[i])

LEMMA StoreIsRecord ==
  ASSUME NEW st \in AttemptStores
  PROVE  st # NoStore /\ st \in StoreRecord
  BY StoreAssumption DEF AttemptStores

\* The fields a forwarded snapshot keeps.
LEMMA ReforwardPasses ==
  ASSUME NEW w \in Worlds, NEW i \in Items, w.stores[i] \in AttemptStores,
         w.stores[i] # NoStore, Stamped(w.session), clock \in Int
  PROVE  LET v == Reforward(w, i)
         IN /\ v.instances = w.instances
            /\ \/ v.session = w.session
               \/ \E r \in Results : v.session = SubmitItem(w.session, i, r)
            /\ v.stores[i] # NoStore
            /\ v.stores[i].states = w.stores[i].states
            /\ v.stores[i].activeMs = w.stores[i].activeMs
            /\ v.stores[i].templateDefaults = w.stores[i].templateDefaults
            /\ v.stores[i].runningSince = w.stores[i].runningSince
  <1> DEFINE st == w.stores[i]
             next == SubmitItem(w.session, i, st.result)
             taken == [st EXCEPT !.forwarded = TRUE]
             u == [w EXCEPT !.session = next]
             v == [u EXCEPT !.stores[i] = taken]
  <1>1. CASE ~st.submitted
    BY <1>1 DEF Reforward
  <1>2. CASE st.submitted
    <2>1. st.result \in Results /\ st \in StoreRecord
      BY <1>2 DEF AttemptStores
    <2>2. w.session \in SafeSessions /\ w.session \in SessionState /\ InTime(w.session)
      BY DEF Worlds, SafeSessions, SoundSessions
    <2>3. next \in SafeSessions
      BY <2>1, <2>2, SubmitItemSound, SubmitItemInTime DEF SafeSessions
    <2>4. /\ taken \in AttemptStores /\ taken.states = st.states
          /\ taken.activeMs = st.activeMs /\ taken.runningSince = st.runningSince
          /\ taken.templateDefaults = st.templateDefaults
      BY <2>1, HandedOverType DEF StoreRecord
    <2>5. Reforward(w, i) = v
      BY <1>2 DEF Reforward, Worlds, StoreMaps
    <2>6. \E r \in Results : next = SubmitItem(w.session, i, r)
      BY <2>1
    <2> HIDE DEF taken, next
    <2>7. u \in Worlds /\ u.session = next /\ u.instances = w.instances
      BY <2>3, PutSession
    <2> HIDE DEF u
    <2>8. v.session = u.session /\ v.instances = u.instances /\ v.stores[i] = taken
      BY <2>4, <2>7, PutStore
    <2>9. taken # NoStore
      BY <2>4, StoreIsRecord
    <2> HIDE DEF v
    <2> QED BY <2>4, <2>5, <2>6, <2>7, <2>8, <2>9
  <1> QED BY <1>1, <1>2

LEMMA StopClockFields ==
  ASSUME NEW st \in AttemptStores, clock \in Int
  PROVE  /\ StopClock(st).states = st.states /\ StopClock(st).activeMs = Counted(st)
         /\ StopClock(st).templateDefaults = st.templateDefaults
  BY StoreIsRecord DEF StopClock, StoreRecord, Counted

\* suspend() stops the clock and remembers the mounted interaction's input.
LEMMA SuspendStorePasses ==
  ASSUME NEW w \in Worlds, NEW i, Opened(w, i), Stamped(w.session), clock \in Int
  PROVE  LET v == SuspendStore(w, i)
         IN /\ v.instances = w.instances
            /\ \/ v.session = w.session
               \/ /\ w.instances[i] # NoInstance
                  /\ \E r \in Results : v.session = SubmitItem(w.session, i, r)
            /\ v.stores[i] # NoStore
            /\ v.stores[i].states = IF w.instances[i] # NoInstance THEN w.instances[i]
                                    ELSE w.stores[i].states
            /\ v.stores[i].activeMs = Counted(w.stores[i])
            /\ v.stores[i].templateDefaults = w.stores[i].templateDefaults
            /\ v.stores[i].runningSince = Stopped
  <1> DEFINE st == StopClock(w.stores[i])
             captured == [st EXCEPT !.states = w.instances[i], !.forwarded = FALSE]
             u == [w EXCEPT !.stores[i] = captured]
  <1>1. /\ i \in Items /\ st \in AttemptStores /\ st.runningSince = Stopped
        /\ st.states = w.stores[i].states /\ st.activeMs = Counted(w.stores[i])
        /\ st.templateDefaults = w.stores[i].templateDefaults
        /\ st \in StoreRecord /\ st # NoStore
    BY OpenedStore, StopClockType, StopClockFields, StoreIsRecord
  <1>2. CASE w.instances[i] = NoInstance
    <2> DEFINE x == [w EXCEPT !.stores[i] = st]
    <2>1. SuspendStore(w, i) = x
      BY <1>2 DEF SuspendStore
    <2>2. x.session = w.session /\ x.instances = w.instances /\ x.stores[i] = st
      <3> HIDE DEF st
      <3> QED BY <1>1, PutStore
    <2> HIDE DEF x
    <2> QED BY <1>1, <1>2, <2>1, <2>2
  <1>3. CASE w.instances[i] # NoInstance
    <2>1. w.instances[i] \in Responses
      BY <1>1, <1>3 DEF Worlds, InstanceMaps
    <2>2. SuspendStore(w, i) = Reforward(u, i)
      BY <1>3 DEF SuspendStore
    <2>3. /\ captured \in AttemptStores /\ captured.states = w.instances[i]
          /\ captured.activeMs = st.activeMs /\ captured.runningSince = Stopped
          /\ captured.templateDefaults = st.templateDefaults
          /\ captured # NoStore
      <3> HIDE DEF st
      <3> QED BY <1>1, <2>1, CapturedType, StoreIsRecord DEF StoreRecord
    <2> HIDE DEF captured
    <2>4. /\ u \in Worlds /\ u.session = w.session /\ u.instances = w.instances
          /\ u.stores[i] = captured
      BY <1>1, <2>3, PutStore
    <2> HIDE DEF u
    <2>5. LET v == Reforward(u, i)
          IN /\ v.instances = u.instances
             /\ \/ v.session = u.session
                \/ \E r \in Results : v.session = SubmitItem(u.session, i, r)
             /\ v.stores[i] # NoStore
             /\ v.stores[i].states = u.stores[i].states
             /\ v.stores[i].activeMs = u.stores[i].activeMs
             /\ v.stores[i].templateDefaults = u.stores[i].templateDefaults
             /\ v.stores[i].runningSince = u.stores[i].runningSince
      BY <1>1, <2>3, <2>4, ReforwardPasses
    <2> HIDE DEF st
    <2> QED BY <1>1, <1>3, <2>2, <2>3, <2>4, <2>5
  <1> QED BY <1>2, <1>3

LEMMA ResumeStorePasses ==
  ASSUME NEW w \in Worlds, NEW i, Opened(w, i), clock \in Int
  PROVE  LET v == ResumeStore(w, i)
         IN /\ v.instances = w.instances
            /\ v.stores[i] # NoStore
            /\ v.stores[i].states = w.stores[i].states
            /\ v.stores[i].activeMs = w.stores[i].activeMs
            /\ v.stores[i].templateDefaults = w.stores[i].templateDefaults
            /\ v.stores[i].runningSince = IF w.stores[i].runningSince = Stopped THEN clock
                                          ELSE w.stores[i].runningSince
  <1> DEFINE running == [w.stores[i] EXCEPT !.runningSince = clock]
  <1>1. i \in Items /\ w.stores[i] \in AttemptStores /\ w.stores[i] # NoStore
        /\ w.stores[i] \in StoreRecord
    BY OpenedStore, StoreIsRecord
  <1>2. /\ running \in AttemptStores /\ running.runningSince = clock
        /\ running.states = w.stores[i].states /\ running.activeMs = w.stores[i].activeMs
        /\ running.templateDefaults = w.stores[i].templateDefaults
    BY <1>1 DEF AttemptStores, StoreRecord
  <1>3. CASE w.stores[i].runningSince # Stopped
    BY <1>1, <1>3 DEF ResumeStore
  <1>4. CASE w.stores[i].runningSince = Stopped
    <2>1. ResumeStore(w, i) = [w EXCEPT !.stores[i] = running]
      BY <1>1, <1>4 DEF ResumeStore, Worlds, StoreMaps
    <2> HIDE DEF running
    <2> QED BY <1>2, <1>1, <1>4, <2>1, PutStore, StoreIsRecord
  <1> QED BY <1>3, <1>4

LEMMA EmitMoves ==
  ASSUME NEW w \in Worlds, NEW next \in SafeSessions, Handover(w.session, next), clock \in Int
  PROVE  Moves(w, Emit(w, next), next)
  <1> DEFINE from  == ActiveKeyOf(w.session)
             to    == ActiveKeyOf(next)
             moved == [w EXCEPT !.session = next]
             left  == IF from # to /\ Opened(moved, from) THEN SuspendStore(moved, from) ELSE moved
             v     == IF from # to /\ Opened(left, to) THEN ResumeStore(left, to) ELSE left
  <1>1. Emit(w, next) = v
    BY DEF Emit
  <1>2. moved \in Worlds /\ moved.session = next /\ moved.stores = w.stores
        /\ moved.instances = w.instances
    BY PutSession
  <1>3. CASE from = to
    <2>1. v = moved
      BY <1>3
    <2> HIDE DEF v, moved
    <2> QED BY <1>1, <1>2, <1>3, <2>1 DEF Moves, Passes
  <1>4. CASE from # to
    <2>1. Stamped(next)
      BY <1>4 DEF Handover
    <2> HIDE DEF moved
    <2>2. /\ left \in Worlds /\ left.instances = w.instances
          /\ \/ left.session = next
             \/ /\ from \in Items /\ w.instances[from] # NoInstance
                /\ \E r \in Results : left.session = SubmitItem(next, from, r)
          /\ \A j \in Items \ {from} : left.stores[j] = w.stores[j]
          /\ from \in Items =>
               /\ left.stores[from] = NoStore <=> w.stores[from] = NoStore
               /\ w.stores[from] # NoStore =>
                    /\ left.stores[from].states =
                         IF w.instances[from] # NoInstance THEN w.instances[from]
                         ELSE w.stores[from].states
                    /\ left.stores[from].activeMs = Counted(w.stores[from])
                    /\ left.stores[from].templateDefaults = w.stores[from].templateDefaults
                    /\ left.stores[from].runningSince = Stopped
      <3>1. CASE Opened(moved, from)
        <4>1. left = SuspendStore(moved, from)
          BY <1>4, <3>1
        <4>2. from \in Items /\ w.stores[from] # NoStore
          BY <1>2, <3>1 DEF Opened
        <4> HIDE DEF left, to, from
        <4>3. left \in Worlds /\ \A j \in Items \ {from} : left.stores[j] = w.stores[j]
          BY <1>2, <2>1, <3>1, <4>1, SuspendStoreKeeps
        <4>4. LET x == SuspendStore(moved, from)
              IN /\ x.instances = moved.instances
                 /\ \/ x.session = moved.session
                    \/ /\ moved.instances[from] # NoInstance
                       /\ \E r \in Results : x.session = SubmitItem(moved.session, from, r)
                 /\ x.stores[from] # NoStore
                 /\ x.stores[from].states =
                      IF moved.instances[from] # NoInstance THEN moved.instances[from]
                      ELSE moved.stores[from].states
                 /\ x.stores[from].activeMs = Counted(moved.stores[from])
                 /\ x.stores[from].templateDefaults = moved.stores[from].templateDefaults
                 /\ x.stores[from].runningSince = Stopped
          BY <1>2, <2>1, <3>1, SuspendStorePasses
        <4> QED BY <1>2, <4>1, <4>2, <4>3, <4>4
      <3>2. CASE ~Opened(moved, from)
        <4>1. left = moved
          BY <3>2
        <4>2. from \in Items => w.stores[from] = NoStore
          BY <1>2, <3>2 DEF Opened
        <4> HIDE DEF left, from
        <4> QED BY <1>2, <4>1, <4>2
      <3> QED BY <3>1, <3>2
    <2> HIDE DEF left
    <2>3. /\ v.instances = left.instances /\ v.session = left.session
          /\ \A j \in Items \ {to} : v.stores[j] = left.stores[j]
          /\ to \in Items =>
               /\ v.stores[to] = NoStore <=> left.stores[to] = NoStore
               /\ left.stores[to] # NoStore =>
                    /\ v.stores[to].states = left.stores[to].states
                    /\ v.stores[to].activeMs = left.stores[to].activeMs
                    /\ v.stores[to].templateDefaults = left.stores[to].templateDefaults
                    /\ v.stores[to].runningSince =
                         IF left.stores[to].runningSince = Stopped THEN clock
                         ELSE left.stores[to].runningSince
      <3>1. CASE Opened(left, to)
        <4>1. v = ResumeStore(left, to)
          BY <1>4, <3>1
        <4> HIDE DEF v, to, from
        <4>2. v.session = left.session /\ \A j \in Items \ {to} : v.stores[j] = left.stores[j]
          BY <2>2, <3>1, <4>1, ResumeStoreKeeps
        <4> QED BY <2>2, <3>1, <4>1, <4>2, ResumeStorePasses DEF Opened
      <3>2. CASE ~Opened(left, to)
        <4>1. v = left
          BY <3>2
        <4>2. to \in Items => left.stores[to] = NoStore
          BY <3>2 DEF Opened
        <4> HIDE DEF v, to
        <4> QED BY <4>1, <4>2
      <3> QED BY <3>1, <3>2
    <2> HIDE DEF v
    <2>4. ASSUME NEW i \in Items
          PROVE  /\ v.stores[i] = NoStore <=> w.stores[i] = NoStore
                 /\ w.stores[i] # NoStore =>
                      Passes(w.stores[i], v.stores[i], i, from, to, w.instances[i])
      <3> HIDE DEF from, to
      <3>1. CASE i = from
        BY <1>4, <2>2, <2>3, <3>1 DEF Passes
      <3>2. CASE i = to
        BY <1>4, <2>2, <2>3, <3>2 DEF Passes
      <3>3. CASE i # from /\ i # to
        BY <2>2, <2>3, <3>3 DEF Passes
      <3> QED BY <3>1, <3>2, <3>3
    <2> QED BY <1>1, <1>4, <2>1, <2>2, <2>3, <2>4 DEF Moves
  <1> QED BY <1>3, <1>4

\* A world that differs in what stores answered, scored and handed over only.
SameClocks(w, u) ==
  /\ u.session = w.session /\ u.instances = w.instances
  /\ \A i \in Items :
       /\ u.stores[i] = NoStore <=> w.stores[i] = NoStore
       /\ w.stores[i] # NoStore =>
            /\ u.stores[i].states = w.stores[i].states
            /\ u.stores[i].activeMs = w.stores[i].activeMs
            /\ u.stores[i].templateDefaults = w.stores[i].templateDefaults
            /\ u.stores[i].runningSince = w.stores[i].runningSince

LEMMA SameMoves ==
  ASSUME NEW w, NEW u, SameClocks(w, u)
  PROVE  /\ Moves(w, u, w.session)
         /\ \A v, next : Moves(u, v, next) => Moves(w, v, next)
  <1>1. Moves(w, u, w.session)
    BY DEF SameClocks, Moves, Passes
  <1>2. \A i \in Items : w.stores[i] # NoStore => Counted(u.stores[i]) = Counted(w.stores[i])
    BY DEF SameClocks, Counted
  <1>3. ASSUME NEW v, NEW next, Moves(u, v, next) PROVE Moves(w, v, next)
    <2>1. ASSUME NEW i \in Items
          PROVE  /\ v.stores[i] = NoStore <=> w.stores[i] = NoStore
                 /\ w.stores[i] # NoStore =>
                      Passes(w.stores[i], v.stores[i], i, ActiveKeyOf(w.session),
                             ActiveKeyOf(next), w.instances[i])
      BY <1>2, <1>3 DEF SameClocks, Moves, Passes
    <2> QED BY <1>3, <2>1 DEF SameClocks, Moves
  <1> QED BY <1>1, <1>3

\* A store's new snapshot, its clock and memory untouched, goes to the controller
\* where it is submitted, and to no one otherwise.
LEMMA StoreEmitMoves ==
  ASSUME NEW w \in Worlds, NEW i \in Items, NEW st \in AttemptStores,
         w.stores[i] \in AttemptStores, clock \in Int,
         st.states = w.stores[i].states, st.activeMs = w.stores[i].activeMs,
         st.templateDefaults = w.stores[i].templateDefaults,
         st.runningSince = w.stores[i].runningSince
  PROVE  LET v    == StoreEmit(w, i, st)
             next == SubmitItem(w.session, i, st.result)
         IN \/ SameClocks(w, v)
            \/ st.submitted /\ next # w.session /\ Moves(w, v, next)
  <1> DEFINE fresh == [st EXCEPT !.forwarded = FALSE]
             u     == [w EXCEPT !.stores[i] = fresh]
             lent  == [fresh EXCEPT !.forwarded = TRUE]
             taken == [u EXCEPT !.stores[i] = lent]
             next  == SubmitItem(w.session, i, st.result)
  <1>1. /\ fresh \in AttemptStores /\ fresh.submitted = st.submitted /\ fresh.result = st.result
        /\ fresh.states = st.states /\ fresh.activeMs = st.activeMs
        /\ fresh.templateDefaults = st.templateDefaults
        /\ fresh.runningSince = st.runningSince /\ fresh # NoStore
        /\ ~fresh.forwarded
    <2>1. fresh \in AttemptStores
      BY HandedOverType
    <2> QED BY <2>1, StoreIsRecord DEF StoreRecord
  <1> HIDE DEF fresh
  <1>2. /\ lent \in AttemptStores /\ lent.states = st.states /\ lent.activeMs = st.activeMs
        /\ lent.templateDefaults = st.templateDefaults
        /\ lent.runningSince = st.runningSince /\ lent # NoStore
    <2>1. lent \in AttemptStores
      BY <1>1, HandedOverType
    <2> QED BY <1>1, <2>1, StoreIsRecord DEF StoreRecord
  <1> HIDE DEF lent
  <1>3. /\ u \in Worlds /\ u.session = w.session /\ u.instances = w.instances
        /\ u.stores[i] = fresh /\ \A j \in Items \ {i} : u.stores[j] = w.stores[j]
    BY <1>1, PutStore
  <1>4. StoreEmit(w, i, st) = Forward(u, i)
    BY DEF StoreEmit, fresh
  <1> HIDE DEF u
  <1>5. /\ taken \in Worlds /\ taken.session = u.session /\ taken.instances = u.instances
        /\ taken.stores[i] = lent /\ \A j \in Items \ {i} : taken.stores[j] = u.stores[j]
    BY <1>2, <1>3, PutStore
  <1>6. Forward(u, i) = IF ~st.submitted THEN u
                        ELSE IF next = w.session THEN taken ELSE Emit(taken, next)
    BY <1>1, <1>3 DEF Forward, Worlds, StoreMaps, lent
  <1> HIDE DEF taken
  <1>7. w.stores[i] # NoStore
    BY StoreIsRecord
  <1>8. SameClocks(w, u) /\ SameClocks(w, taken)
    BY <1>1, <1>2, <1>3, <1>5, <1>7 DEF SameClocks
  <1>9. st.submitted => Moves(w, Emit(taken, next), next)
    <2> SUFFICES ASSUME st.submitted PROVE Moves(w, Emit(taken, next), next)
      OBVIOUS
    <2>1. st.result \in Results /\ w.session \in SafeSessions /\ w.session \in SessionState
      BY DEF AttemptStores, Worlds, SafeSessions, SoundSessions
    <2>2. next \in SafeSessions /\ Handover(w.session, next)
      BY <2>1, TransitionSafe, SubmitItemStamped DEF Transitions
    <2> HIDE DEF next
    <2>3. Moves(taken, Emit(taken, next), next)
      BY <1>3, <1>5, <2>2, EmitMoves
    <2> QED BY <1>8, <2>3, SameMoves
  <1> QED BY <1>4, <1>6, <1>8, <1>9

\* What a call on a store does to the world: its submission locks it and the
\* controller is given the result, or clocks, memories and session stay.
LEMMA SetResponseMoves ==
  ASSUME NEW w \in Worlds, NEW i, Opened(w, i), NEW a \in Responses, clock \in Int
  PROVE  SameClocks(w, SetResponse(w, i, a))
  <1> DEFINE st == w.stores[i]
             answered == [st EXCEPT !.response = a]
  <1>1. i \in Items /\ st \in AttemptStores
    BY OpenedStore
  <1>2. CASE st.submitted
    BY <1>2 DEF SetResponse, SameClocks
  <1>3. CASE ~st.submitted
    <2>1. /\ answered \in AttemptStores /\ answered.states = st.states
          /\ answered.activeMs = st.activeMs /\ answered.runningSince = st.runningSince
          /\ answered.templateDefaults = st.templateDefaults
          /\ ~answered.submitted
      BY <1>1, <1>3 DEF AttemptStores, StoreRecord
    <2>2. SetResponse(w, i, a) = StoreEmit(w, i, answered)
      BY <1>3 DEF SetResponse
    <2> HIDE DEF answered
    <2> QED BY <1>1, <2>1, <2>2, StoreEmitMoves
  <1> QED BY <1>2, <1>3

LEMMA SubmitStoreMoves ==
  ASSUME NEW w \in Worlds, NEW i, Opened(w, i), clock \in Int
  PROVE  LET v == SubmitStore(w, i)
         IN \/ SameClocks(w, v)
            \/ /\ Locks(w, i)
               /\ \E r \in Results : Moves(w, v, SubmitItem(w.session, i, r))
  <1> DEFINE st     == w.stores[i]
             pulled == [st EXCEPT !.response = Collected(w, i)]
             locks  == Locks(w, i)
             kept   == IF locks THEN Collected(w, i) ELSE NextAttempt(Collected(w, i))
             r      == Scored(w, i)
             scored == [st EXCEPT !.result = r, !.submitted = locks, !.response = kept]
  <1>1. i \in Items /\ st \in AttemptStores /\ st \in StoreRecord
    BY OpenedStore, StoreIsRecord
  <1>2. Collected(w, i) \in Responses /\ r \in Results
    BY ScoredType
  <1>3. locks \in BOOLEAN /\ kept \in Responses
    BY <1>2, SessionStoreAssumption DEF Locks
  <1>4. \/ SubmitStore(w, i) = w
        \/ ~st.submitted /\ SubmitStore(w, i) = StoreEmit(w, i, pulled)
        \/ SubmitStore(w, i) = StoreEmit(w, i, scored)
    <2>1. [pulled EXCEPT !.result = Scored(w, i), !.submitted = Locks(w, i),
                         !.response = IF Locks(w, i) THEN @ ELSE NextAttempt(@)] = scored
      BY <1>1 DEF StoreRecord
    <2> QED BY <2>1 DEF SubmitStore
  <1> HIDE DEF locks, kept, r
  <1>5. /\ pulled \in AttemptStores /\ pulled.submitted = st.submitted /\ pulled.states = st.states
        /\ pulled.activeMs = st.activeMs /\ pulled.runningSince = st.runningSince
        /\ pulled.templateDefaults = st.templateDefaults
    BY <1>1, <1>2 DEF AttemptStores, StoreRecord
  <1>6. /\ scored \in AttemptStores /\ scored.submitted = locks /\ scored.result = r
        /\ scored.states = st.states
        /\ scored.activeMs = st.activeMs /\ scored.runningSince = st.runningSince
        /\ scored.templateDefaults = st.templateDefaults
    BY <1>1, <1>2, <1>3 DEF AttemptStores, StoreRecord
  <1> HIDE DEF pulled, scored
  <1>7. ~st.submitted => SameClocks(w, StoreEmit(w, i, pulled))
    BY <1>1, <1>5, StoreEmitMoves
  <1>8. \/ SameClocks(w, StoreEmit(w, i, scored))
        \/ locks /\ Moves(w, StoreEmit(w, i, scored), SubmitItem(w.session, i, r))
    BY <1>1, <1>6, StoreEmitMoves
  <1>9. SameClocks(w, w)
    BY DEF SameClocks
  <1> QED BY <1>2, <1>4, <1>7, <1>8, <1>9 DEF locks

\* A reset leaves the session and every other store alone.
LEMMA ResetStoreMoves ==
  ASSUME NEW w \in Worlds, NEW i, Opened(w, i), clock \in Int
  PROVE  LET v == ResetStore(w, i)
         IN /\ v.session = w.session /\ v.instances = w.instances
            /\ \A j \in Items \ {i} : v.stores[j] = w.stores[j]
            /\ v.stores[i] # NoStore /\ v.stores[i].states = NoState
            /\ v.stores[i].activeMs = 0 /\ v.stores[i].runningSince = clock
            /\ v.stores[i].templateDefaults = w.stores[i].templateDefaults
  <1> DEFINE blank == FreshStore(clock, w.stores[i].templateDefaults)
             fresh == [blank EXCEPT !.forwarded = FALSE]
             u     == [w EXCEPT !.stores[i] = fresh]
  <1>1. i \in Items /\ w.stores[i].templateDefaults \in TestOutcomes \cup {NoResult}
    BY OpenedStore, StoreIsRecord DEF StoreRecord
  <1>2. /\ blank \in AttemptStores /\ ~blank.submitted /\ blank.states = NoState
        /\ blank.activeMs = 0 /\ blank.runningSince = clock /\ blank # NoStore
        /\ blank \in StoreRecord /\ blank.forwarded = FALSE
        /\ blank.templateDefaults = w.stores[i].templateDefaults
    <2>1. blank \in AttemptStores /\ ~blank.submitted
      BY <1>1, FreshStoreType
    <2> QED BY <2>1, StoreIsRecord DEF FreshStore
  <1> HIDE DEF blank
  <1>3. fresh = blank
    BY <1>2 DEF StoreRecord
  <1> HIDE DEF fresh
  <1>4. /\ u \in Worlds /\ u.session = w.session /\ u.instances = w.instances
        /\ u.stores[i] = blank /\ \A j \in Items \ {i} : u.stores[j] = w.stores[j]
    BY <1>1, <1>2, <1>3, PutStore
  <1>5. ResetStore(w, i) = Forward(u, i)
    BY DEF ResetStore, StoreEmit, fresh, blank
  <1> HIDE DEF u
  <1>6. Forward(u, i) = u
    BY <1>2, <1>4 DEF Forward
  <1> QED BY <1>2, <1>4, <1>5, <1>6

(***************************************************************************)
(* The composed system                                                     *)
(***************************************************************************)

LEMMA InvWorld ==
  ASSUME SessionInv
  PROVE  /\ World \in Worlds /\ clock \in Int
         /\ World.session = session /\ World.stores = stores /\ World.instances = instances
         /\ session \in SafeSessions /\ session \in SoundSessions /\ session \in SessionState
         /\ InTime(session)
         /\ stores \in [Items -> AttemptStores \cup {NoStore}]
         /\ instances \in [Items -> Responses \cup {NoInstance}]
  BY DEF SessionInv, World, Worlds, SafeSessions, SoundSessions, StoreMaps, InstanceMaps

\* The calls that may move the session: those of its own surface, and the two
\* that a store hands on to it.
SurfaceCall ==
  \/ CallMoveTo \/ CallNext \/ CallEnd \/ CallTick
  \/ CallSuspend \/ CallResume \/ CallReview \/ CallComment

Moving == SurfaceCall \/ Answer \/ SubmitAttempt

LEMMA SurfaceMoves ==
  ASSUME SessionInv, SurfaceCall
  PROVE  /\ \E next \in Transitions(session) : Moves(World, World', next)
         /\ UNCHANGED <<clock, activeTime, made, typed>>
  <1>1. PICK next \in Transitions(session) : Calls(next)
    BY DEF SurfaceCall, Transitions, CallMoveTo, CallNext, CallEnd, CallTick, CallSuspend,
           CallResume, CallReview, CallComment
  <1>2. next \in SafeSessions /\ Handover(World.session, next)
    BY InvWorld, TransitionSafe, TransitionStamped
  <1>3. Moves(World, Emit(World, next), next)
    BY <1>2, InvWorld, EmitMoves
  <1>4. Moves(World, World', next)
    BY <1>1, <1>3 DEF Calls, WorldIs, World, Moves
  <1> QED BY <1>1, <1>4 DEF Calls, WorldIs, Unobserved

LEMMA AnswerMoves ==
  ASSUME SessionInv, Answer
  PROVE  SameClocks(World, World') /\ UNCHANGED <<clock, activeTime, made, typed>>
  <1>1. PICK i \in Items, a \in Responses : /\ Opened(World, i)
                                            /\ WorldIs(SetResponse(World, i, a))
    BY DEF Answer
  <1>2. SameClocks(World, SetResponse(World, i, a))
    BY <1>1, InvWorld, SetResponseMoves
  <1> QED BY <1>1, <1>2 DEF Answer, WorldIs, World, SameClocks, Unobserved

LEMMA SubmitAttemptMoves ==
  ASSUME SessionInv, SubmitAttempt, made \in [Items -> Nat]
  PROVE  /\ UNCHANGED <<clock, activeTime, typed>>
         /\ \A j \in Items : made'[j] >= made[j]
         /\ \/ SameClocks(World, World')
            \/ \E i \in Items, r \in Results :
                 /\ Moves(World, World', SubmitItem(session, i, r))
                 /\ made'[i] = made[i] + 1
                 /\ Len(session'.attemptHistory[i]) <= MaxCommitted
                 /\ Len(session'.rejectedSubmissions) <= MaxRejected
  <1>1. PICK i \in Items :
          /\ Opened(World, i)
          /\ WorldIs(SubmitStore(World, i))
          /\ Len(session'.attemptHistory[i]) <= MaxCommitted
          /\ Len(session'.rejectedSubmissions) <= MaxRejected
          /\ made' = [made EXCEPT ![i] = IF Locks(World, i) THEN @ + 1 ELSE @]
    BY DEF SubmitAttempt
  <1>2. \/ SameClocks(World, SubmitStore(World, i))
        \/ /\ Locks(World, i)
           /\ \E r \in Results : Moves(World, SubmitStore(World, i), SubmitItem(World.session, i, r))
    BY <1>1, InvWorld, SubmitStoreMoves
  <1>3. SameClocks(World, SubmitStore(World, i)) => SameClocks(World, World')
    BY <1>1 DEF WorldIs, World, SameClocks
  <1>4. \A next : Moves(World, SubmitStore(World, i), next) => Moves(World, World', next)
    BY <1>1 DEF WorldIs, World, Moves
  <1>5. /\ Locks(World, i) => made'[i] = made[i] + 1
        /\ \A j \in Items : made'[j] >= made[j]
    BY <1>1
  <1> QED BY <1>1, <1>2, <1>3, <1>4, <1>5, InvWorld DEF SubmitAttempt, WorldIs

(***************************************************************************)
(* Input.  A mounted interaction holds what was typed; once it is no       *)
(* longer the active one, or not mounted, its store remembers that.        *)
(***************************************************************************)

Remembered(st) == IF st.states = NoState THEN NoResponse ELSE st.states

InputKept(w, i, input) ==
  /\ w.instances[i] # NoInstance => w.instances[i] = input /\ w.stores[i] # NoStore
  /\ w.stores[i] = NoStore => input = NoResponse
  /\ w.stores[i] # NoStore /\ (w.instances[i] = NoInstance \/ ActiveKeyOf(w.session) # i) =>
       input = Remembered(w.stores[i])

LEMMA ForwardedStays ==
  ASSUME NEW w \in Worlds, NEW v, NEW next \in SafeSessions, Moves(w, v, next), clock \in Int
  PROVE  ActiveKeyOf(v.session) = ActiveKeyOf(next)
  BY SubmitItemStays DEF Moves, SafeSessions, SoundSessions

LEMMA MovesKeepInput ==
  ASSUME NEW w \in Worlds, NEW v, NEW next \in SafeSessions, Moves(w, v, next), clock \in Int,
         NEW i \in Items, NEW input, InputKept(w, i, input)
  PROVE  InputKept(v, i, input)
  <1> DEFINE from == ActiveKeyOf(w.session)
             to   == ActiveKeyOf(next)
  <1>1. /\ v.instances[i] = w.instances[i]
        /\ v.stores[i] = NoStore <=> w.stores[i] = NoStore
        /\ ActiveKeyOf(v.session) = to
    BY ForwardedStays DEF Moves
  <1>2. w.instances[i] # NoInstance => w.instances[i] # NoState
    BY SessionStoreAssumption DEF Worlds, InstanceMaps
  <1> SUFFICES ASSUME w.stores[i] # NoStore,
                      w.instances[i] = NoInstance \/ to # i
               PROVE  input = Remembered(v.stores[i])
    BY <1>1 DEF InputKept
  <1>3. v.stores[i].states = IF from # to /\ i = from /\ w.instances[i] # NoInstance
                             THEN w.instances[i] ELSE w.stores[i].states
    BY DEF Moves, Passes
  <1>4. CASE from = i /\ w.instances[i] # NoInstance
    BY <1>2, <1>3, <1>4 DEF InputKept, Remembered
  <1>5. CASE from # i \/ w.instances[i] = NoInstance
    <2>1. input = Remembered(w.stores[i])
      BY <1>5 DEF InputKept
    <2>2. v.stores[i].states = w.stores[i].states
      BY <1>3, <1>5
    <2> QED BY <2>1, <2>2 DEF Remembered
  <1> QED BY <1>4, <1>5

InputInv == \A i \in Items : InputKept(World, i, typed[i])

LEMMA MovingKeepsInput ==
  ASSUME SessionInv, InputInv, Moving, made \in [Items -> Nat]
  PROVE  InputInv'
  <1>1. ASSUME NEW next \in SafeSessions, Moves(World, World', next), typed' = typed
        PROVE  InputInv'
    <2>1. \A i \in Items : InputKept(World', i, typed[i])
      BY <1>1, InvWorld, MovesKeepInput DEF InputInv
    <2> QED BY <1>1, <2>1 DEF InputInv, InputKept, Remembered, ActiveKeyOf
  <1>2. SameClocks(World, World') => Moves(World, World', session)
    BY InvWorld, SameMoves
  <1>3. CASE SurfaceCall
    BY <1>1, <1>3, SurfaceMoves, InvWorld, TransitionSafe
  <1>4. CASE Answer
    BY <1>1, <1>2, <1>4, AnswerMoves, InvWorld
  <1>5. CASE SubmitAttempt
    <2>1. \A i \in Items, r \in Results : SubmitItem(session, i, r) \in SafeSessions
      BY InvWorld, TransitionSafe DEF Transitions
    <2> QED BY <1>1, <1>2, <1>5, <2>1, SubmitAttemptMoves, InvWorld
  <1> QED BY <1>3, <1>4, <1>5 DEF Moving

\* A store opened is blank, and runs where its item is the active one.
LEMMA OpeningShape ==
  ASSUME SessionInv, OpenItem \/ AssessmentResult
  PROVE  /\ UNCHANGED <<session, instances, clock, activeTime, made, typed>>
         /\ \A i \in Items :
              \/ stores'[i] = stores[i]
              \/ /\ stores[i] = NoStore /\ stores'[i] # NoStore
                 /\ stores'[i].states = NoState /\ stores'[i].activeMs = 0
                 /\ stores'[i].runningSince = IF ActiveKeyOf(session) = i THEN clock ELSE Stopped
                 /\ stores'[i].templateDefaults = session.templateDefaultValues[i]
  <1> DEFINE Fresh(i, st) ==
               /\ stores[i] = NoStore /\ st # NoStore
               /\ st.states = NoState /\ st.activeMs = 0
               /\ st.runningSince = IF ActiveKeyOf(session) = i THEN clock ELSE Stopped
               /\ st.templateDefaults = session.templateDefaultValues[i]
  <1>1. ASSUME NEW i \in Items
        PROVE  LET v == OpenStore(World, i)
               IN /\ v.session = session /\ v.instances = instances
                  /\ \A j \in Items \ {i} : v.stores[j] = stores[j]
                  /\ v.stores[i] = stores[i] \/ Fresh(i, v.stores[i])
    <2> DEFINE since  == IF ActiveKeyOf(session) = i THEN clock ELSE Stopped
               opened == FreshStore(since, session.templateDefaultValues[i])
               u      == [World EXCEPT !.stores[i] = opened]
    <2>1. session.templateDefaultValues[i] \in TestOutcomes \cup {NoResult}
      BY InvWorld DEF SessionState
    <2>2. opened \in AttemptStores
      BY <2>1, InvWorld, FreshStoreType
    <2>3. opened # NoStore /\ opened.states = NoState /\ opened.activeMs = 0
          /\ opened.runningSince = since
          /\ opened.templateDefaults = session.templateDefaultValues[i]
      BY <2>2, StoreIsRecord DEF FreshStore
    <2>4. OpenStore(World, i) = World \/ (stores[i] = NoStore /\ OpenStore(World, i) = u)
      BY InvWorld DEF OpenStore, Opened
    <2> HIDE DEF opened
    <2>5. /\ u.session = session /\ u.instances = instances /\ u.stores[i] = opened
          /\ \A j \in Items \ {i} : u.stores[j] = stores[j]
      BY <2>2, InvWorld, PutStore
    <2> HIDE DEF u
    <2> QED BY <2>3, <2>4, <2>5, InvWorld
  <1>2. CASE OpenItem
    <2>1. PICK i \in Items : WorldIs(OpenStore(World, i)) /\ Unobserved
      BY <1>2 DEF OpenItem
    <2> HIDE DEF Fresh
    <2>2. /\ session' = session /\ instances' = instances
          /\ \A j \in Items : stores'[j] = stores[j] \/ Fresh(j, stores'[j])
      BY <1>1, <2>1 DEF WorldIs
    <2> QED BY <2>1, <2>2 DEF WorldIs, Unobserved, Fresh
  <1>3. CASE AssessmentResult
    <2>1. /\ stores' = [i \in Items |-> OpenStore(World, i).stores[i]]
          /\ UNCHANGED <<session, instances, clock, activeTime, made, typed>>
      BY <1>3, InvWorld DEF AssessmentResult, WorldIs, Unobserved, World
    <2> QED BY <1>1, <2>1
  <1> QED BY <1>2, <1>3

LEMMA ResetShape ==
  ASSUME SessionInv, ResetAttempt
  PROVE  \E i \in Items :
           /\ stores[i] # NoStore
           /\ ResetsAnywhere \/ ActiveKeyOf(session) = i
           /\ UNCHANGED <<session, instances, clock, activeTime, made>>
           /\ \A j \in Items \ {i} : stores'[j] = stores[j]
           /\ stores'[i] # NoStore /\ stores'[i].states = NoState
           /\ stores'[i].activeMs = 0 /\ stores'[i].runningSince = clock
           /\ stores'[i].templateDefaults = stores[i].templateDefaults
           /\ typed' = [typed EXCEPT ![i] = IF instances[i] = NoInstance THEN NoResponse ELSE @]
  <1>1. PICK i \in Items :
          /\ Opened(World, i)
          /\ ResetsAnywhere \/ ActiveKeyOf(session) = i
          /\ WorldIs(ResetStore(World, i))
          /\ typed' = [typed EXCEPT ![i] = IF instances[i] = NoInstance THEN NoResponse ELSE @]
          /\ UNCHANGED made
    BY DEF ResetAttempt
  <1>2. LET v == ResetStore(World, i)
        IN /\ v.session = session /\ v.instances = instances
           /\ \A j \in Items \ {i} : v.stores[j] = stores[j]
           /\ v.stores[i] # NoStore /\ v.stores[i].states = NoState
           /\ v.stores[i].activeMs = 0 /\ v.stores[i].runningSince = clock
           /\ v.stores[i].templateDefaults = stores[i].templateDefaults
    BY <1>1, InvWorld, ResetStoreMoves
  <1> QED BY <1>1, <1>2, InvWorld DEF WorldIs, Opened

LEMMA PageShape ==
  ASSUME SessionInv, Mount \/ Unmount \/ Interact
  PROVE  /\ UNCHANGED <<session, stores, clock, activeTime, made>>
         /\ \E i \in Imperative : \E v \in Responses \cup {NoInstance} :
              /\ instances' = [instances EXCEPT ![i] = v]
              /\ \/ /\ stores[i] # NoStore /\ instances[i] = NoInstance
                    /\ v = Remembered(stores[i]) /\ typed' = typed
                 \/ ActiveKeyOf(session) # i /\ v = NoInstance /\ typed' = typed
                 \/ /\ ActiveKeyOf(session) = i /\ instances[i] # NoInstance
                    /\ v \in Responses /\ typed' = [typed EXCEPT ![i] = v]
  <1>1. ASSUME NEW i \in Items, NEW v, WorldIs([World EXCEPT !.instances[i] = v])
        PROVE  /\ UNCHANGED <<session, stores, clock, activeTime>>
               /\ instances' = [instances EXCEPT ![i] = v]
    BY <1>1 DEF WorldIs, World
  <1>2. CASE Mount
    <2>1. PICK i \in Imperative :
            /\ Opened(World, i) /\ instances[i] = NoInstance
            /\ WorldIs([World EXCEPT !.instances[i] = Remembered(stores[i])])
            /\ Unobserved
      BY <1>2 DEF Mount, Remembered
    <2>2. i \in Items /\ stores[i] # NoStore /\ stores[i] \in StoreRecord
      BY <2>1, InvWorld, StoreIsRecord DEF Opened
    <2>3. Remembered(stores[i]) \in Responses
      BY <2>2, SessionStoreAssumption DEF Remembered, StoreRecord
    <2> QED BY <1>1, <2>1, <2>2, <2>3 DEF Unobserved
  <1>3. CASE Unmount
    BY <1>1, <1>3, SessionStoreAssumption DEF Unmount, Unobserved
  <1>4. CASE Interact
    BY <1>1, <1>4, SessionStoreAssumption DEF Interact
  <1> QED BY <1>2, <1>3, <1>4

\* Every step of the composed system but those that may move the session.
LEMMA StepKinds ==
  ASSUME [SessionNext]_sessionVars
  PROVE  \/ Moving
         \/ OpenItem \/ AssessmentResult
         \/ ResetAttempt
         \/ Mount \/ Unmount \/ Interact
         \/ Restart
         \/ Wait \/ UNCHANGED sessionVars
  BY DEF SessionNext, Moving, SurfaceCall

LEMMA OthersKeepInput ==
  ASSUME SessionInv, InputInv, ~ResetsAnywhere, typed \in [Items -> Responses],
         \/ OpenItem \/ AssessmentResult \/ ResetAttempt
         \/ Mount \/ Unmount \/ Interact \/ Restart \/ Wait \/ UNCHANGED sessionVars
  PROVE  InputInv'
  <1>1. \A i \in Items : InputKept([session |-> session, stores |-> stores,
                                    instances |-> instances], i, typed[i])
    BY DEF InputInv, World
  <1>2. InputInv' <=> \A i \in Items : InputKept([session |-> session', stores |-> stores',
                                                  instances |-> instances'], i, typed'[i])
    BY DEF InputInv, World, InputKept, Remembered, ActiveKeyOf
  <1>3. CASE OpenItem \/ AssessmentResult
    <2>1. ASSUME NEW i \in Items
          PROVE  \/ stores'[i] = stores[i]
                 \/ /\ stores[i] = NoStore /\ stores'[i] # NoStore
                    /\ stores'[i].states = NoState
      BY <1>3, OpeningShape
    <2> QED BY <1>1, <1>2, <1>3, <2>1, OpeningShape DEF InputKept, Remembered
  <1>4. CASE ResetAttempt
    <2>1. PICK i \in Items :
           /\ stores[i] # NoStore
           /\ ActiveKeyOf(session) = i
           /\ UNCHANGED <<session, instances>>
           /\ \A j \in Items \ {i} : stores'[j] = stores[j]
           /\ stores'[i] # NoStore /\ stores'[i].states = NoState
           /\ typed' = [typed EXCEPT ![i] = IF instances[i] = NoInstance THEN NoResponse ELSE @]
      BY <1>4, ResetShape
    <2>2. \A j \in Items \ {i} : typed'[j] = typed[j]
      BY <2>1
    <2>3. typed'[i] = IF instances[i] = NoInstance THEN NoResponse ELSE typed[i]
      BY <2>1
    <2> QED BY <1>1, <1>2, <2>1, <2>2, <2>3 DEF InputKept, Remembered
  <1>5. CASE Mount \/ Unmount \/ Interact
    <2>1. PICK i \in Imperative, v \in Responses \cup {NoInstance} :
              /\ UNCHANGED <<session, stores>>
              /\ instances' = [instances EXCEPT ![i] = v]
              /\ \/ /\ stores[i] # NoStore /\ instances[i] = NoInstance
                    /\ v = Remembered(stores[i]) /\ typed' = typed
                 \/ ActiveKeyOf(session) # i /\ v = NoInstance /\ typed' = typed
                 \/ /\ ActiveKeyOf(session) = i /\ instances[i] # NoInstance
                    /\ v \in Responses /\ typed' = [typed EXCEPT ![i] = v]
      BY <1>5, PageShape
    <2>2. i \in Items /\ NoInstance \notin Responses
      BY SessionStoreAssumption
    <2>3. instances'[i] = v /\ \A j \in Items \ {i} : instances'[j] = instances[j]
      BY <2>1, <2>2, InvWorld
    <2>4. typed' = [typed EXCEPT ![i] = v] => /\ typed'[i] = v
                                              /\ \A j \in Items \ {i} : typed'[j] = typed[j]
      BY <2>2
    <2> QED BY <1>1, <1>2, <2>1, <2>2, <2>3, <2>4 DEF InputKept
  <1>6. CASE Restart
    <2>1. stores' = [i \in Items |-> NoStore] /\ instances' = [i \in Items |-> NoInstance]
          /\ typed' = [i \in Items |-> NoResponse]
      BY <1>6 DEF Restart, WorldIs, NoStores, NoInstances
    <2> QED BY <1>2, <2>1 DEF InputKept
  <1>7. CASE Wait \/ UNCHANGED sessionVars
    <2>1. UNCHANGED <<session, stores, instances, typed>>
      BY <1>7 DEF Wait, AdvanceClock, sessionVars
    <2> QED BY <1>1, <1>2, <2>1
  <1> QED BY <1>3, <1>4, <1>5, <1>6, <1>7

\* Work in an interaction survives leaving its item and returning, however the
\* session was moved on: the departed store captures it before it is unmounted
\* (emit of session-store.ts, suspend of store.ts).
THEOREM InputIsKept ==
  ASSUME ~ResetsAnywhere
  PROVE  SessionSpec => []InputSurvives
  <1>1. SessionInit => InputInv
    BY DEF SessionInit, InputInv, InputKept, World, NoStores, NoInstances
  <1>2. SessionInv /\ StoresTypeOK /\ InputInv /\ [SessionNext]_sessionVars => InputInv'
    <2> SUFFICES ASSUME SessionInv, StoresTypeOK, InputInv, [SessionNext]_sessionVars
                 PROVE  InputInv'
      OBVIOUS
    <2>1. made \in [Items -> Nat] /\ typed \in [Items -> Responses]
      BY DEF StoresTypeOK
    <2> QED BY <2>1, StepKinds, MovingKeepsInput, OthersKeepInput
  <1>3. InputInv => InputSurvives
    BY SessionStoreAssumption DEF InputInv, InputKept, World, InputSurvives
  <1> QED BY <1>1, <1>2, <1>3, SessionInvariant, StoresTypeCorrect, PTL DEF SessionSpec

(***************************************************************************)
(* Time.  A store that runs has counted no more than the controller has    *)
(* folded, up to the readings the two go on from; one that stands has      *)
(* counted no more than is folded.                                         *)
(***************************************************************************)

ItemSeconds(s, i) == s.seconds[<<"item", i>>]

CountFits(s, st, i) ==
  /\ st.activeMs >= 0
  /\ st.runningSince = Stopped => st.activeMs <= ItemSeconds(s, i)
  /\ st.runningSince # Stopped =>
       /\ st.runningSince <= clock
       /\ st.activeMs - st.runningSince <= ItemSeconds(s, i) - s.lastTransitionAtMs

ClockAhead(s) == s.status = "in-progress" => s.lastTransitionAtMs <= clock

LEMMA TransitionStamps ==
  ASSUME NEW s \in SessionState, NEW next \in Transitions(s), clock \in Int
  PROVE  Stamps(s, next)
  BY SubmitItemStamps, MovesStamp, OthersStamp DEF Transitions

\* What becomes of the time of an item when the session goes on from s to t.
TimePasses(s, t) ==
  LET from == ActiveKeyOf(s)
      to   == ActiveKeyOf(t)
  IN /\ ClockAhead(t)
     /\ \A i \in Items : ItemSeconds(t, i) >= ItemSeconds(s, i)
     /\ from \in Items /\ from # to =>
          ItemSeconds(t, from) >= ItemSeconds(s, from) + (clock - s.lastTransitionAtMs)
     /\ from \in Items /\ from = to =>
          ItemSeconds(t, from) - t.lastTransitionAtMs >= ItemSeconds(s, from) - s.lastTransitionAtMs
     /\ to \in Items /\ from # to => t.lastTransitionAtMs = clock

LEMMA ItemFolds ==
  ASSUME NEW s \in SessionState, clock \in Int, s.status = "in-progress",
         s.currentItemKey \in Items
  PROVE  \A i \in Items : ItemSeconds(Touch(s), i)
                            = ItemSeconds(s, i) + (IF i = s.currentItemKey THEN Elapsed(s) ELSE 0)
  <1>1. \A j \in Items : Touch(s).seconds[<<"item", j>>]
                            = s.seconds[<<"item", j>>] + (IF j = s.currentItemKey THEN Elapsed(s) ELSE 0)
    BY FoldAdds, Zenon
  <1> QED BY <1>1 DEF ItemSeconds

LEMMA StampedTime ==
  ASSUME NEW s \in SessionState, NEW t \in SessionState, clock \in Int,
         InTime(s), ClockAhead(s), Stamps(s, t), Handover(s, t)
  PROVE  TimePasses(s, t)
  <1> DEFINE from == ActiveKeyOf(s)
             to   == ActiveKeyOf(t)
  <1>1. /\ s.lastTransitionAtMs \in Int /\ t.lastTransitionAtMs \in Int
        /\ \A i \in Items : ItemSeconds(s, i) \in Nat /\ ItemSeconds(t, i) \in Nat
    BY DEF SessionState, ItemSeconds, Scopes, ItemScopes
  <1>2. /\ from \in Items <=> s.status = "in-progress"
        /\ from \in Items => from = s.currentItemKey
    BY DEF ActiveKeyOf, InTime, SessionState, NoItem, Items
  <1>3. /\ to \in Items => t.status = "in-progress"
    BY DEF ActiveKeyOf, NoItem, Items
  <1>4. CASE /\ t.seconds = s.seconds /\ t.status = s.status
             /\ t.lastTransitionAtMs = s.lastTransitionAtMs
    <2>1. from # to => s.status = "in-progress" /\ t.lastTransitionAtMs = clock
      BY <1>4 DEF Handover, Stamped, ActiveKeyOf
    <2>2. \A i \in Items : ItemSeconds(t, i) = ItemSeconds(s, i)
      BY <1>4 DEF ItemSeconds
    <2> QED BY <1>1, <1>4, <2>1, <2>2 DEF TimePasses, ClockAhead
  <1>5. CASE /\ t.seconds = Touch(s).seconds
             /\ t.status = "in-progress" => t.lastTransitionAtMs = clock
    <2>1. CASE from \in Items
      <3>1. Elapsed(s) = clock - s.lastTransitionAtMs
        BY <1>1, <1>2, <2>1 DEF ClockAhead, Elapsed
      <3>2. \A i \in Items : ItemSeconds(t, i) = ItemSeconds(s, i) + (IF i = from THEN Elapsed(s) ELSE 0)
        BY <1>2, <1>5, <2>1, ItemFolds DEF ItemSeconds
      <3>3. Elapsed(s) >= 0
        BY <1>1 DEF Elapsed
      <3>4. t.status = "in-progress" => t.lastTransitionAtMs = clock
        BY <1>5
      <3>5. from = to => t.lastTransitionAtMs = clock
        BY <1>2, <1>3, <2>1, <3>4
      <3> QED BY <1>1, <1>3, <3>1, <3>2, <3>3, <3>4, <3>5 DEF TimePasses, ClockAhead
    <2>2. CASE from \notin Items
      <3>1. t.seconds = s.seconds
        BY <1>2, <1>5, <2>2 DEF Touch
      <3>2. \A i \in Items : ItemSeconds(t, i) = ItemSeconds(s, i)
        BY <3>1 DEF ItemSeconds
      <3> QED BY <1>1, <1>3, <1>5, <2>2, <3>2 DEF TimePasses, ClockAhead
    <2> QED BY <2>1, <2>2
  <1> QED BY <1>4, <1>5 DEF Stamps

\* A snapshot forwarded at the reading of the transition adds no time.
LEMMA ForwardedTime ==
  ASSUME NEW w \in Worlds, NEW v, NEW next \in SafeSessions, clock \in Int,
         Moves(w, v, next), TimePasses(w.session, next)
  PROVE  TimePasses(w.session, v.session)
  <1>1. next \in SessionState /\ InTime(next)
    BY DEF SafeSessions, SoundSessions
  <1>2. CASE v.session = next
    BY <1>2
  <1>3. ASSUME NEW i \in Items, NEW r \in Results, v.session = SubmitItem(next, i, r),
               Stamped(next), v.session # next
        PROVE  TimePasses(w.session, v.session)
    <2>1. next.status = "in-progress" /\ next.currentItemKey \in Items
      BY <1>1, <1>3 DEF SubmitItem, InTime, SessionState
    <2>2. ActiveKeyOf(v.session) = ActiveKeyOf(next) /\ Stamped(v.session)
      BY <1>1, <1>3, SubmitItemStays
    <2>3. v.session.status = "in-progress" /\ v.session.lastTransitionAtMs = clock
      BY <2>1, <2>2 DEF ActiveKeyOf, NoItem, Items, Stamped
    <2>4. next.lastTransitionAtMs = clock /\ Elapsed(next) = 0
      BY <1>3, <2>1 DEF Stamped, Elapsed
    <2>5. \A j \in Items : ItemSeconds(next, j) \in Nat
      BY <1>1 DEF SessionState, ItemSeconds, Scopes, ItemScopes
    <2>6. \A j \in Items : ItemSeconds(v.session, j) = ItemSeconds(next, j)
      <3>1. Stamps(next, v.session)
        BY <1>1, <1>3, SubmitItemStamps
      <3>2. \A j \in Items : ItemSeconds(Touch(next), j) = ItemSeconds(next, j)
        <4>1. \A j \in Items : ItemSeconds(Touch(next), j)
                = ItemSeconds(next, j) + (IF j = next.currentItemKey THEN Elapsed(next) ELSE 0)
          BY <1>1, <2>1, ItemFolds
        <4> QED BY <2>4, <2>5, <4>1
      <3> QED BY <3>1, <3>2 DEF Stamps, ItemSeconds
    <2>7. \A s : s.status = "in-progress" /\ s.lastTransitionAtMs = clock => ClockAhead(s)
      BY DEF ClockAhead
    <2> QED BY <2>2, <2>3, <2>4, <2>6, <2>7 DEF TimePasses
  <1> QED BY <1>2, <1>3 DEF Moves

LEMMA MovesKeepCount ==
  ASSUME NEW w \in Worlds, NEW v, NEW next \in SafeSessions, clock \in Int,
         Moves(w, v, next), TimePasses(w.session, v.session), ClocksMatch(w),
         v.session \in SessionState,
         ClockAhead(w.session), NEW i \in Items, w.stores[i] # NoStore,
         CountFits(w.session, w.stores[i], i)
  PROVE  CountFits(v.session, v.stores[i], i)
  <1> DEFINE from == ActiveKeyOf(w.session)
             to   == ActiveKeyOf(next)
             st   == w.stores[i]
             st2  == v.stores[i]
  <1>1. /\ w.session.lastTransitionAtMs \in Int /\ v.session.lastTransitionAtMs \in Int
        /\ ItemSeconds(w.session, i) \in Nat /\ ItemSeconds(v.session, i) \in Nat
    <2>1. w.session \in SessionState
      BY DEF Worlds, SafeSessions, SoundSessions
    <2> QED BY <2>1 DEF SessionState, ItemSeconds, Scopes, ItemScopes
  <1>2. st.activeMs \in Int /\ st.runningSince \in Int \cup {Stopped} /\ Stopped \notin Int
    <2>1. st \in StoreRecord
      BY StoreIsRecord DEF Worlds, StoreMaps
    <2> QED BY <2>1, SessionStoreAssumption DEF StoreRecord
  <1>3. st.runningSince # Stopped <=> from = i
    BY DEF ClocksMatch, RunsFor
  <1>4. ActiveKeyOf(v.session) = to
    BY ForwardedStays
  <1>5. Passes(st, st2, i, from, to, w.instances[i])
    BY DEF Moves
  <1>6. CASE from = to
    <2>1. st2.activeMs = st.activeMs /\ st2.runningSince = st.runningSince
      BY <1>5, <1>6 DEF Passes
    <2>2. ItemSeconds(v.session, i) >= ItemSeconds(w.session, i)
      BY DEF TimePasses
    <2>3. from = i => ItemSeconds(v.session, i) - v.session.lastTransitionAtMs
                        >= ItemSeconds(w.session, i) - w.session.lastTransitionAtMs
      BY <1>4, <1>6 DEF TimePasses
    <2> QED BY <1>1, <1>2, <1>3, <2>1, <2>2, <2>3 DEF CountFits
  <1>7. CASE from # to /\ from = i
    <2>1. st2.activeMs = st.activeMs + clock - st.runningSince /\ st2.runningSince = Stopped
      BY <1>3, <1>5, <1>7 DEF Passes, Counted
    <2>2. ItemSeconds(v.session, i) >= ItemSeconds(w.session, i) + (clock - w.session.lastTransitionAtMs)
      BY <1>4, <1>7 DEF TimePasses
    <2> QED BY <1>1, <1>2, <1>3, <1>7, <2>1, <2>2 DEF CountFits
  <1>8. CASE from # to /\ to = i
    <2>1. st2.activeMs = st.activeMs /\ st2.runningSince = clock
      BY <1>3, <1>5, <1>8 DEF Passes
    <2>2. ItemSeconds(v.session, i) >= ItemSeconds(w.session, i) /\ v.session.lastTransitionAtMs = clock
      BY <1>4, <1>8 DEF TimePasses
    <2> QED BY <1>1, <1>2, <1>3, <1>8, <2>1, <2>2 DEF CountFits
  <1>9. CASE from # i /\ to # i
    <2>1. st2.activeMs = st.activeMs /\ st2.runningSince = Stopped
      BY <1>3, <1>5, <1>9 DEF Passes
    <2>2. ItemSeconds(v.session, i) >= ItemSeconds(w.session, i)
      BY DEF TimePasses
    <2> QED BY <1>1, <1>2, <1>3, <1>9, <2>1, <2>2 DEF CountFits
  <1> QED BY <1>6, <1>7, <1>8, <1>9

\* The session's stamp is behind the clock, and every store's count fits.
TimeInv ==
  /\ ClockAhead(session)
  /\ \A i \in Items : stores[i] # NoStore => CountFits(session, stores[i], i)

LEMMA MovingKeepsTime ==
  ASSUME SessionInv, SessionInv', ClocksMatch(World), TimeInv, Moving, made \in [Items -> Nat]
  PROVE  TimeInv'
  <1>1. ASSUME NEW next \in SafeSessions, Moves(World, World', next), clock' = clock,
               TimePasses(session, next)
        PROVE  TimeInv'
    <2>1. session' \in SessionState
      <3>1. World' \in Worlds
        BY WorldsStay DEF SessionInv
      <3> QED BY <3>1 DEF World, Worlds, SafeSessions, SoundSessions
    <2>2. World'.session = session' /\ World'.stores = stores'
      BY DEF World
    <2>3. TimePasses(session, session')
      BY <1>1, <2>2, InvWorld, ForwardedTime
    <2>4. \A i \in Items : stores[i] = NoStore <=> stores'[i] = NoStore
      BY <1>1, <2>2, InvWorld DEF Moves
    <2>5. ASSUME NEW i \in Items, stores[i] # NoStore PROVE CountFits(session', stores'[i], i)
      <3>1. ClockAhead(session) /\ CountFits(session, stores[i], i)
        BY <2>5 DEF TimeInv
      <3> QED BY <1>1, <2>1, <2>2, <2>3, <2>5, <3>1, InvWorld, MovesKeepCount
    <2> QED BY <1>1, <2>3, <2>4, <2>5 DEF TimeInv, TimePasses, ClockAhead, CountFits, ItemSeconds
  <1>2. SameClocks(World, World') => Moves(World, World', session)
    BY InvWorld, SameMoves
  <1>3. ASSUME NEW next \in Transitions(session) \cup {session} PROVE TimePasses(session, next)
    <2>1. next \in SafeSessions /\ next \in SessionState
      BY InvWorld, TransitionSafe DEF SafeSessions, SoundSessions
    <2>2. Stamps(session, next) /\ Handover(session, next)
      BY InvWorld, TransitionStamps, TransitionStamped DEF Stamps, Handover
    <2> QED BY <2>1, <2>2, InvWorld, StampedTime DEF TimeInv
  <1>4. CASE SurfaceCall
    BY <1>1, <1>3, <1>4, SurfaceMoves, InvWorld, TransitionSafe
  <1>5. CASE Answer
    BY <1>1, <1>2, <1>3, <1>5, AnswerMoves, InvWorld
  <1>6. CASE SubmitAttempt
    <2>1. \A i \in Items, r \in Results : /\ SubmitItem(session, i, r) \in SafeSessions
                                          /\ SubmitItem(session, i, r) \in Transitions(session)
      BY InvWorld, TransitionSafe DEF Transitions
    <2> QED BY <1>1, <1>2, <1>3, <1>6, <2>1, SubmitAttemptMoves, InvWorld
  <1> QED BY <1>4, <1>5, <1>6 DEF Moving

LEMMA OthersKeepTime ==
  ASSUME SessionInv, ClocksMatch(World), TimeInv, ~ResetsAnywhere, ClockSteps \subseteq Nat,
         \/ OpenItem \/ AssessmentResult \/ ResetAttempt
         \/ Mount \/ Unmount \/ Interact \/ Restart \/ Wait \/ UNCHANGED sessionVars
  PROVE  TimeInv'
  <1>1. /\ session.lastTransitionAtMs \in Int /\ clock \in Int /\ Stopped \notin Int
        /\ \A i \in Items : ItemSeconds(session, i) \in Nat
    BY InvWorld, SessionStoreAssumption DEF SessionState, ItemSeconds, Scopes, ItemScopes
  <1>2. \A i \in Items : ActiveKeyOf(session) = i => session.lastTransitionAtMs <= clock
    BY DEF TimeInv, ClockAhead, ActiveKeyOf, NoItem, Items
  <1>3. ASSUME NEW i \in Items, NEW st, st.activeMs = 0, ClockAhead(session),
               st.runningSince = IF ActiveKeyOf(session) = i THEN clock ELSE Stopped
        PROVE  CountFits(session, st, i)
    BY <1>1, <1>2, <1>3 DEF CountFits
  <1>4. CASE OpenItem \/ AssessmentResult
    <2>1. UNCHANGED <<session, clock>> /\
          \A i \in Items :
              \/ stores'[i] = stores[i]
              \/ /\ stores[i] = NoStore /\ stores'[i] # NoStore
                 /\ stores'[i].activeMs = 0
                 /\ stores'[i].runningSince = IF ActiveKeyOf(session) = i THEN clock ELSE Stopped
      BY <1>4, OpeningShape
    <2>2. \A i \in Items : stores'[i] # NoStore => CountFits(session, stores'[i], i)
      BY <1>3, <2>1 DEF TimeInv
    <2> QED BY <2>1, <2>2 DEF TimeInv, ClockAhead, CountFits, ItemSeconds
  <1>5. CASE ResetAttempt
    <2>1. PICK i \in Items :
           /\ ActiveKeyOf(session) = i
           /\ UNCHANGED <<session, clock>>
           /\ \A j \in Items \ {i} : stores'[j] = stores[j]
           /\ stores'[i].activeMs = 0 /\ stores'[i].runningSince = clock
      BY <1>5, ResetShape
    <2>2. \A j \in Items : stores'[j] # NoStore => CountFits(session, stores'[j], j)
      BY <1>3, <2>1 DEF TimeInv
    <2> QED BY <2>1, <2>2 DEF TimeInv, ClockAhead, CountFits, ItemSeconds
  <1>6. CASE Mount \/ Unmount \/ Interact \/ UNCHANGED sessionVars
    <2>1. UNCHANGED <<session, stores, clock>>
      BY <1>6, PageShape DEF sessionVars
    <2> QED BY <2>1 DEF TimeInv, ClockAhead, CountFits, ItemSeconds
  <1>7. CASE Restart
    <2>1. session' = session /\ clock' = clock /\ stores' = [i \in Items |-> NoStore]
      BY <1>7 DEF Restart, WorldIs, NoStores, Restored
    <2> QED BY <2>1 DEF TimeInv, ClockAhead
  <1>8. CASE Wait
    <2>1. PICK d \in Nat : clock' = clock + d /\ session' = session /\ stores' = stores
      BY <1>8 DEF Wait, AdvanceClock
    <2>2. ClockAhead(session)'
      BY <1>1, <2>1 DEF TimeInv, ClockAhead
    <2>3. ASSUME NEW i \in Items, stores[i] # NoStore PROVE CountFits(session, stores[i], i)'
      <3>1. stores[i].runningSince \in Int \cup {Stopped}
        BY <2>3, InvWorld, StoreIsRecord DEF StoreRecord
      <3> QED BY <1>1, <2>1, <2>3, <3>1 DEF TimeInv, CountFits, ItemSeconds
    <2> QED BY <2>1, <2>2, <2>3 DEF TimeInv
  <1> QED BY <1>4, <1>5, <1>6, <1>7, <1>8

LEMMA CountsFit ==
  ASSUME SessionInv, ClocksMatch(World), TimeInv
  PROVE  StoreTimeFits
  <1> SUFFICES ASSUME NEW i \in Items, stores[i] # NoStore
               PROVE  StoreTime(stores[i]) \in 0 .. ItemTime(i)
    BY DEF StoreTimeFits
  <1>1. /\ session.lastTransitionAtMs \in Int /\ clock \in Int /\ Stopped \notin Int
        /\ ItemSeconds(session, i) \in Nat
        /\ stores[i].runningSince \in Int \cup {Stopped} /\ stores[i].activeMs \in Int
    BY InvWorld, StoreIsRecord, SessionStoreAssumption
       DEF SessionState, ItemSeconds, Scopes, ItemScopes, StoreRecord
  <1>2. stores[i].runningSince # Stopped
          <=> session.status = "in-progress" /\ session.currentItemKey = i
    <2>1. RunsFor(stores[i], i, ActiveKeyOf(session))
      BY DEF ClocksMatch, World
    <2>2. ActiveKeyOf(session) = i
            <=> session.status = "in-progress" /\ session.currentItemKey = i
      BY PlanAssumption DEF ActiveKeyOf, NoItem, Items
    <2> QED BY <2>1, <2>2, Zenon DEF RunsFor
  <1>3. CountFits(session, stores[i], i)
    BY DEF TimeInv
  <1>4. CASE stores[i].runningSince = Stopped
    <2>1. StoreTime(stores[i]) = stores[i].activeMs /\ ItemTime(i) = ItemSeconds(session, i)
      BY <1>1, <1>2, <1>4 DEF StoreTime, ItemTime, ItemSeconds
    <2> QED BY <1>1, <1>3, <1>4, <2>1 DEF CountFits
  <1>5. CASE stores[i].runningSince # Stopped
    <2>1. Elapsed(session) = clock - session.lastTransitionAtMs
      BY <1>1, <1>2, <1>5 DEF Elapsed, TimeInv, ClockAhead
    <2>2. /\ StoreTime(stores[i]) = stores[i].activeMs + (clock - stores[i].runningSince)
          /\ ItemTime(i) = ItemSeconds(session, i) + (clock - session.lastTransitionAtMs)
      BY <1>1, <1>2, <1>5, <2>1 DEF StoreTime, ItemTime, ItemSeconds
    <2> QED BY <1>1, <1>3, <1>5, <2>2 DEF CountFits
  <1> QED BY <1>4, <1>5

\* With a clock that does not run backwards, the duration an attempt store reports
\* never exceeds the time the controller enforces limits on, and is never negative:
\* stopped and started by navigation, expiry, suspension, late opening and restart,
\* the two clocks never drift apart (emit of session-store.ts, touch of controller.ts).
THEOREM StoreTimeNeverExceeds ==
  ASSUME ~ResetsAnywhere, ClockSteps \subseteq Nat
  PROVE  SessionSpec => []StoreTimeFits
  <1> DEFINE Match == ClocksMatch(World)
             IInv == Match /\ TimeInv
  <1>1. SessionInit => IInv
    <2> SUFFICES ASSUME SessionInit PROVE IInv
      OBVIOUS
    <2>1. clock = 0 /\ clock \in Int /\ session = StartState
      BY DEF SessionInit, Init
    <2>2. PICK s \in SessionState : /\ StartState = MoveToItem(s, FirstNavigable(s, 1))
                                   /\ s.lastTransitionAtMs = clock
      BY <2>1, StartStateOpens
    <2>3. session.status = "ended" \/ session.lastTransitionAtMs = 0
      BY <2>1, <2>2, FirstNavigableIsOpen, MoveToItemLands
    <2>4. TimeInv
      BY <2>1, <2>3 DEF TimeInv, ClockAhead, SessionInit, NoStores
    <2> QED BY <2>4, SessionStarts
  <1>2. SessionInv /\ SessionInv' /\ StoresTypeOK /\ IInv /\ [SessionNext]_sessionVars => IInv'
    <2> SUFFICES ASSUME SessionInv, SessionInv', StoresTypeOK, IInv, [SessionNext]_sessionVars
                 PROVE  IInv'
      OBVIOUS
    <2>1. Match'
      BY StepYields, WorldsStay
    <2>2. made \in [Items -> Nat]
      BY DEF StoresTypeOK
    <2>3. TimeInv'
      BY <2>2, StepKinds, MovingKeepsTime, OthersKeepTime
    <2> QED BY <2>1, <2>3
  <1>3. SessionInv /\ IInv => StoreTimeFits
    BY CountsFit
  <1> HIDE DEF IInv
  <1> QED BY <1>1, <1>2, <1>3, SessionInvariant, StoresTypeCorrect, PTL DEF SessionSpec

(***************************************************************************)
(* Attempts.  Nothing but a submission adds to what the session has taken  *)
(* of an item, whether recorded, held or reported late.                    *)
(***************************************************************************)

Held(result) == IF result = NoResult THEN 0 ELSE 1

Late(s, i) == {k \in DOMAIN s.rejectedSubmissions : s.rejectedSubmissions[k].itemKey = i}

Taken(s, i) == Len(s.attemptHistory[i]) + Held(s.pendingItemResults[i]) + Cardinality(Late(s, i))

LEMMA FlushKeepsLate ==
  ASSUME NEW s \in SessionState, NEW leaving, leaving \subseteq Items
  PROVE  FlushPending(s, leaving).rejectedSubmissions = s.rejectedSubmissions
  BY DEF FlushPending, Commit, SessionState

LEMMA EndedKeepsLate ==
  ASSUME NEW s \in SessionState
  PROVE  Ended(s).rejectedSubmissions = s.rejectedSubmissions
  <1> DEFINE flushed == FlushPending(s, Items)
  <1>1. flushed \in SessionState /\ flushed.rejectedSubmissions = s.rejectedSubmissions
    BY FlushPendingType, FlushKeepsLate
  <1>2. Ended(s) = [flushed EXCEPT !.status = "ended", !.currentItemKey = NoItem,
                                   !.testOutcomes = RunOutcomeProcessing(flushed)]
    BY DEF Ended
  <1> HIDE DEF flushed
  <1> QED BY <1>1, <1>2 DEF SessionState

LEMMA MoveToItemKeepsLate ==
  ASSUME NEW s \in SessionState, NEW i \in Items \cup {NoItem}
  PROVE  MoveToItem(s, i).rejectedSubmissions = s.rejectedSubmissions
  <1> DEFINE flushed == FlushPending(s, {j \in Items : PartOf[j] = PartOf[s.currentItemKey]})
             left == LeavePart(s, i)
             d == WithTemplateDefaults(left, i)
  <1>1. flushed \in SessionState /\ flushed.rejectedSubmissions = s.rejectedSubmissions
    BY FlushPendingType, FlushKeepsLate
  <1>2. left = s \/ left = [flushed EXCEPT !.testOutcomes = RunOutcomeProcessing(flushed)]
    BY DEF LeavePart
  <1> HIDE DEF flushed
  <1>3. left \in SessionState /\ left.rejectedSubmissions = s.rejectedSubmissions
    <2>1. left.rejectedSubmissions = s.rejectedSubmissions
      <3> HIDE DEF left
      <3> QED BY <1>1, <1>2 DEF SessionState
    <2> QED BY <2>1, LeavePartType
  <1> HIDE DEF left
  <1>4. i \in Items => d \in SessionState /\ d.rejectedSubmissions = left.rejectedSubmissions
    BY <1>3, WithTemplateDefaultsType DEF WithTemplateDefaults, SessionState
  <1>5. MoveToItem(s, i) = IF i = NoItem THEN Ended(s) ELSE Present(d, i)
    BY DEF MoveToItem, left
  <1> HIDE DEF d
  <1>6. i \in Items => Present(d, i).rejectedSubmissions = d.rejectedSubmissions
    BY <1>4 DEF Present, SessionState
  <1> QED BY <1>3, <1>4, <1>5, <1>6, EndedKeepsLate

LEMMA ApplyExpiriesKeepsLate ==
  ASSUME NEW s \in SessionState
  PROVE  ApplyExpiries(s).rejectedSubmissions = s.rejectedSubmissions
  <1>1. MoveToItem(s, FirstNavigable(s, s.currentItemKey + 1)).rejectedSubmissions
          = s.rejectedSubmissions
    BY FirstNavigableIsOpen, MoveToItemKeepsLate
  <1> QED BY <1>1, EndedKeepsLate DEF ApplyExpiries

\* What was taken of an item is where it was, or moved from held to recorded.
LEMMA CollectsKeepsTaken ==
  ASSUME NEW w, NEW a, NEW t, NEW i \in Items, Collects(w, a, t),
         a[i] \in Seq(Submission), w[i] \in Submission \cup {NoResult}
  PROVE  Len(t.attemptHistory[i]) + Held(t.pendingItemResults[i]) = Len(a[i]) + Held(w[i])
  <1> DEFINE collected == {j \in Items : w[j] # NoResult /\ t.pendingItemResults[j] = NoResult}
  <1>1. /\ t.pendingItemResults[i] = IF i \in collected THEN NoResult ELSE w[i]
        /\ t.attemptHistory[i] = IF i \in collected THEN Append(a[i], w[i]) ELSE a[i]
    BY DEF Collects
  <1>2. CASE i \in collected
    <2>1. w[i] \in Submission /\ w[i] # NoResult
      BY <1>2
    <2>2. Len(t.attemptHistory[i]) = Len(a[i]) + 1 /\ t.pendingItemResults[i] = NoResult
      BY <1>1, <1>2, <2>1
    <2>3. Len(a[i]) \in Nat
      OBVIOUS
    <2> HIDE DEF collected
    <2> QED BY <2>1, <2>2, <2>3 DEF Held
  <1>3. CASE i \notin collected
    BY <1>1, <1>3
  <1> QED BY <1>2, <1>3

\* From s to t the ledger was settled and no submission reported late.
SettlesOnly(s, t) == Settles(s, t) /\ t.rejectedSubmissions = s.rejectedSubmissions

LEMMA SettlesKeepsTaken ==
  ASSUME NEW s \in SessionState, NEW t, NEW i \in Items, SettlesOnly(s, t)
  PROVE  Taken(t, i) = Taken(s, i)
  <1>1. s.attemptHistory[i] \in Seq(Submission) /\ s.pendingItemResults[i] \in Submission \cup {NoResult}
    BY DEF SessionState
  <1>2. Len(t.attemptHistory[i]) + Held(t.pendingItemResults[i])
          = Len(s.attemptHistory[i]) + Held(s.pendingItemResults[i])
    <2>1. Collects(s.pendingItemResults, s.attemptHistory, t)
      BY DEF SettlesOnly, Settles
    <2> QED BY <1>1, <2>1, CollectsKeepsTaken, Zenon
  <1>3. Late(t, i) = Late(s, i)
    BY SMTT(30) DEF Late, SettlesOnly
  <1> QED BY <1>2, <1>3 DEF Taken

\* The transitions that submit nothing.
OtherTransitions(s) ==
  {NextItem(s), EndTest(s), TickClock(s), Suspend(s), Resume(s)}
    \cup {MoveTo(s, i) : i \in Items}
    \cup {Review(s, i) : i \in Items}
    \cup {SetItemComment(s, i) : i \in Items}

LEMMA TouchSettles ==
  ASSUME NEW s \in SessionState, clock \in Int
  PROVE  /\ Touch(s) \in SessionState
         /\ Touch(s).rejectedSubmissions = s.rejectedSubmissions
         /\ \A t : SettlesOnly(Touch(s), t) => SettlesOnly(s, t)
  <1>1. Touch(s) \in SessionState /\ Touch(s).rejectedSubmissions = s.rejectedSubmissions
    BY TouchType, ZenonT(40) DEF Touch, SessionState
  <1> QED BY <1>1, AfterTouch, SMTT(30) DEF SettlesOnly

LEMMA OthersKeepTaken ==
  ASSUME NEW s \in SessionState, clock \in Int, NEW next \in OtherTransitions(s), NEW i \in Items
  PROVE  Taken(next, i) = Taken(s, i)
  <1> DEFINE t == Touch(s)
             k == NextDestination(t)
             settled == ApplyExpiries(t)
             parked == [settled EXCEPT !.status = "suspended"]
             open == [s EXCEPT !.status = "in-progress", !.lastTransitionAtMs = clock]
             shown(j) == [s EXCEPT !.currentItemKey = j]
             noted(j) == [s EXCEPT !.itemComments = @ \cup {j}]
  <1>1. /\ t \in SessionState
        /\ \A x : SettlesOnly(t, x) => SettlesOnly(s, x)
    BY TouchSettles
  <1>2. /\ NextItem(s) \in {s, settled} \/ (~NextRefused(t) /\ NextItem(s) = MoveToItem(t, k))
        /\ EndTest(s) \in {s, Ended(t)}
        /\ TickClock(s) \in {s, settled}
        /\ Suspend(s) \in {s, settled, parked}
        /\ Resume(s) \in {s, open}
        /\ \A j \in Items : /\ MoveTo(s, j) \in {s, settled, Present(t, j)}
                            /\ Review(s, j) \in {s, shown(j)}
                            /\ SetItemComment(s, j) \in {s, noted(j)}
    BY DEF NextItem, EndTest, TickClock, Suspend, Resume, MoveTo, Review, SetItemComment,
           WithTransition
  <1>3. settled \in SessionState /\ SettlesOnly(t, settled) /\ SettlesOnly(t, Ended(t))
    <2> HIDE DEF t
    <2> QED BY <1>1, ApplyExpiriesType, ApplyExpiriesSettles, ApplyExpiriesKeepsLate,
               EndedSettles, EndedKeepsLate DEF SettlesOnly
  <1>4. ~NextRefused(t) => SettlesOnly(t, MoveToItem(t, k))
    <2> HIDE DEF t
    <2>1. ~NextRefused(t) => k \in Items \cup {NoItem}
      BY <1>1, NextDestinationType DEF NextRefused
    <2> HIDE DEF k
    <2> QED BY <1>1, <2>1, MoveToItemSettles, MoveToItemKeepsLate DEF SettlesOnly
  <1> DEFINE Same(x, y) == /\ y.attemptHistory = x.attemptHistory
                           /\ y.pendingItemResults = x.pendingItemResults
                           /\ y.rejectedSubmissions = x.rejectedSubmissions
  <1>5. ASSUME NEW x, NEW y, Same(x, y) PROVE Taken(y, i) = Taken(x, i)
    BY <1>5 DEF Taken, Late
  <1>6. \A j \in Items : Same(t, Present(t, j)) /\ Same(s, shown(j)) /\ Same(s, noted(j))
    <2>1. \A j \in Items : Same(t, Present(t, j))
      <3> HIDE DEF t
      <3> QED BY <1>1 DEF Present, SessionState
    <2> QED BY <2>1 DEF SessionState
  <1>7. Same(s, open) /\ Same(s, t)
    BY TouchKeepsLedger, TouchSettles DEF SessionState
  <1>8. Same(settled, parked)
    <2> HIDE DEF settled
    <2> QED BY <1>3 DEF SessionState
  <1>9. ASSUME NEW x, SettlesOnly(t, x) PROVE Taken(x, i) = Taken(s, i)
    BY <1>1, <1>9, SettlesKeepsTaken
  <1>10. /\ Taken(settled, i) = Taken(s, i) /\ Taken(Ended(t), i) = Taken(s, i)
         /\ Taken(parked, i) = Taken(settled, i)
         /\ Taken(open, i) = Taken(s, i) /\ Taken(t, i) = Taken(s, i)
         /\ ~NextRefused(t) => Taken(MoveToItem(t, k), i) = Taken(s, i)
    BY <1>3, <1>4, <1>5, <1>7, <1>8, <1>9
  <1>11. \A j \in Items : /\ Taken(Present(t, j), i) = Taken(s, i)
                          /\ Taken(shown(j), i) = Taken(s, i)
                          /\ Taken(noted(j), i) = Taken(s, i)
    BY <1>5, <1>6, <1>10
  <1> HIDE DEF t, k, settled, parked, open, shown, noted, Same
  <1> QED BY <1>2, <1>10, <1>11 DEF OtherTransitions

\* A submission reported late is one more reported late.
LEMMA LateAdds ==
  ASSUME NEW s \in SessionState, NEW t, NEW entry \in Rejection, NEW i \in Items,
         t.rejectedSubmissions = Append(s.rejectedSubmissions, entry)
  PROVE  Cardinality(Late(t, i)) = Cardinality(Late(s, i)) + (IF entry.itemKey = i THEN 1 ELSE 0)
  <1> DEFINE old == s.rejectedSubmissions
             n   == Len(old) + 1
  <1>1. /\ old \in Seq(Rejection) /\ n \in Nat /\ n \notin 1 .. Len(old)
        /\ DOMAIN old = 1 .. Len(old) /\ IsFiniteSet(DOMAIN old)
    <2>1. old \in Seq(Rejection)
      BY DEF SessionState
    <2> HIDE DEF old
    <2>2. Len(old) \in Nat /\ DOMAIN old = 1 .. Len(old)
      BY <2>1
    <2>3. IsFiniteSet(1 .. Len(old))
      BY <2>2, FS_Interval
    <2>4. n \in Nat /\ n \notin 1 .. Len(old)
      BY <2>2
    <2> QED BY <2>1, <2>2, <2>3, <2>4
  <1>2. /\ DOMAIN t.rejectedSubmissions = DOMAIN old \cup {n}
        /\ t.rejectedSubmissions[n] = entry
        /\ \A k \in DOMAIN old : t.rejectedSubmissions[k] = old[k]
    <2>1. t.rejectedSubmissions = Append(old, entry)
      OBVIOUS
    <2> HIDE DEF old
    <2>2. 1 .. n = (1 .. Len(old)) \cup {n}
      BY <1>1
    <2>3. /\ DOMAIN Append(old, entry) = 1 .. n
          /\ Append(old, entry)[n] = entry
          /\ \A k \in 1 .. Len(old) : Append(old, entry)[k] = old[k]
      BY <1>1
    <2> QED BY <1>1, <2>1, <2>2, <2>3
  <1>3. Late(t, i) = IF entry.itemKey = i THEN Late(s, i) \cup {n} ELSE Late(s, i)
    BY <1>1, <1>2 DEF Late
  <1>4. IsFiniteSet(Late(s, i)) /\ n \notin Late(s, i)
    <2>1. Late(s, i) \subseteq DOMAIN old
      BY DEF Late
    <2> QED BY <1>1, <2>1, FS_Subset
  <1>5. /\ Cardinality(Late(s, i) \cup {n}) = Cardinality(Late(s, i)) + 1
        /\ Cardinality(Late(s, i)) \in Nat
    BY <1>4, FS_AddElement, FS_CardinalityType
  <1> QED BY <1>3, <1>5

LEMMA SubmitBodyKeepsLate ==
  ASSUME NEW s \in SessionState, NEW i \in Items, NEW r \in Results
  PROVE  SubmitBody(s, i, r).rejectedSubmissions = s.rejectedSubmissions
  BY DEF SubmitBody, Commit, SessionState

LEMMA TakenType ==
  ASSUME NEW s \in SessionState, NEW i \in Items
  PROVE  /\ Len(s.attemptHistory[i]) \in Nat /\ Held(s.pendingItemResults[i]) \in {0, 1}
         /\ IsFiniteSet(Late(s, i)) /\ Cardinality(Late(s, i)) \in Nat /\ Taken(s, i) \in Nat
  <1>1. Len(s.attemptHistory[i]) \in Nat
    BY DEF SessionState
  <1>2. IsFiniteSet(DOMAIN s.rejectedSubmissions)
    <2>1. Len(s.rejectedSubmissions) \in Nat
          /\ DOMAIN s.rejectedSubmissions = 1 .. Len(s.rejectedSubmissions)
      BY DEF SessionState
    <2> QED BY <2>1, FS_Interval
  <1>3. Late(s, i) \subseteq DOMAIN s.rejectedSubmissions
    BY DEF Late
  <1>4. IsFiniteSet(Late(s, i)) /\ Cardinality(Late(s, i)) \in Nat
    BY <1>2, <1>3, FS_Subset, FS_CardinalityType
  <1>5. Held(s.pendingItemResults[i]) \in {0, 1}
    BY DEF Held
  <1> QED BY <1>1, <1>4, <1>5 DEF Taken

\* One submission takes one of its item at most, and none of another.
LEMMA SubmitItemTakes ==
  ASSUME NEW s \in SessionState, NEW i \in Items, NEW r \in Results, clock \in Int, NEW j \in Items
  PROVE  Taken(SubmitItem(s, i, r), j) <= Taken(s, j) + (IF i = j THEN 1 ELSE 0)
  <1> DEFINE t == Touch(s)
             b == SubmitBody(t, i, r)
             entry == [itemKey |-> i, scope |-> BarringScope(t, i),
                       atTestSeconds |-> t.seconds[TestScope]]
             late == [t EXCEPT !.rejectedSubmissions = Append(@, entry)]
             more == IF i = j THEN 1 ELSE 0
  <1>1. /\ t \in SessionState /\ Taken(t, j) = Taken(s, j)
    <2>1. /\ Touch(s).attemptHistory = s.attemptHistory
          /\ Touch(s).pendingItemResults = s.pendingItemResults
          /\ Touch(s).rejectedSubmissions = s.rejectedSubmissions
      BY TouchKeepsLedger, TouchSettles
    <2> QED BY <2>1, TouchSettles DEF Taken, Late
  <1>2. \/ SubmitItem(s, i, r) \in {s, ApplyExpiries(b)}
        \/ BarringScopes(t, i) # {} /\ SubmitItem(s, i, r) = ApplyExpiries(late)
    BY DEF SubmitItem
  <1> HIDE DEF t
  <1>3. ASSUME NEW x \in SessionState PROVE Taken(ApplyExpiries(x), j) = Taken(x, j)
    BY ApplyExpiriesSettles, ApplyExpiriesKeepsLate, SettlesKeepsTaken DEF SettlesOnly
  <1>4. BarringScopes(t, i) # {} => late \in SessionState /\ Taken(late, j) = Taken(t, j) + more
    <2> SUFFICES ASSUME BarringScopes(t, i) # {}
                 PROVE  late \in SessionState /\ Taken(late, j) = Taken(t, j) + more
      OBVIOUS
    <2>1. late \in SessionState
      BY <1>1, LateType
    <2>2. /\ late.attemptHistory = t.attemptHistory /\ late.pendingItemResults = t.pendingItemResults
          /\ late.rejectedSubmissions = Append(t.rejectedSubmissions, entry)
      BY <1>1 DEF SessionState
    <2>3. entry.itemKey = i /\ entry \in Rejection
      <3>1. BarringScope(t, i) \in Scopes
        BY BarringScopeType
      <3>2. t.seconds[TestScope] \in Nat
        BY <1>1 DEF SessionState, Scopes
      <3> QED BY <3>1, <3>2 DEF Rejection
    <2> HIDE DEF late, entry
    <2>4. Cardinality(Late(late, j)) = Cardinality(Late(t, j)) + more
      BY <1>1, <2>2, <2>3, LateAdds
    <2>5. Taken(late, j) = Taken(t, j) + more
      <3>1. more \in Nat
        OBVIOUS
      <3>2. /\ Len(t.attemptHistory[j]) \in Nat /\ Held(t.pendingItemResults[j]) \in Nat
            /\ Cardinality(Late(t, j)) \in Nat
        BY <1>1, TakenType
      <3> HIDE DEF more
      <3> QED BY <2>2, <2>4, <3>1, <3>2 DEF Taken
    <2> QED BY <2>1, <2>5
  <1>5. b \in SessionState /\ Taken(b, j) <= Taken(t, j) + more
    <2> DEFINE sent == [result |-> r, submittedAtMs |-> clock]
               had  == t.attemptHistory[j]
    <2>1. b \in SessionState /\ b.rejectedSubmissions = t.rejectedSubmissions
      BY <1>1, SubmitBodyType, SubmitBodyKeepsLate
    <2>2. /\ PartOf[i] \in Simultaneous =>
                 /\ b.pendingItemResults = [t.pendingItemResults EXCEPT ![i] = sent]
                 /\ b.attemptHistory = t.attemptHistory
          /\ PartOf[i] \notin Simultaneous =>
                 /\ b.pendingItemResults = t.pendingItemResults
                 /\ b.attemptHistory = [t.attemptHistory EXCEPT ![i] = Append(@, sent)]
      BY <1>1, SubmitBodyAdds
    <2>3. sent \in Submission
      BY SubmissionType
    <2> HIDE DEF b, sent
    <2>4. Late(b, j) = Late(t, j)
      BY <2>1 DEF Late
    <2>5. /\ t.attemptHistory \in [Items -> Seq(Submission)]
          /\ t.pendingItemResults \in [Items -> Submission \cup {NoResult}]
      BY <1>1 DEF SessionState
    <2>6. /\ had \in Seq(Submission) /\ Len(had) \in Nat /\ more \in Nat
          /\ Held(t.pendingItemResults[j]) \in {0, 1} /\ Held(b.pendingItemResults[j]) \in {0, 1}
          /\ Cardinality(Late(t, j)) \in Nat
      BY <1>1, <2>1, <2>5, TakenType
    <2>7. Len(Append(had, sent)) = Len(had) + 1
      <3> HIDE DEF had
      <3> QED BY <2>3, <2>6
    <2>8. i # j => /\ b.attemptHistory[j] = had
                   /\ b.pendingItemResults[j] = t.pendingItemResults[j]
      BY <2>2, <2>5
    <2>9. i = j => \/ b.attemptHistory[j] = had
                   \/ /\ b.attemptHistory[j] = Append(had, sent)
                      /\ b.pendingItemResults[j] = t.pendingItemResults[j]
      BY <2>2, <2>5
    <2> DEFINE h == Held(t.pendingItemResults[j])
               g == Held(b.pendingItemResults[j])
               m == Len(had)
               l == Len(b.attemptHistory[j])
               c == Cardinality(Late(t, j))
    <2>10. \/ more = 1 /\ l = m
           \/ more = 1 /\ l = m + 1 /\ g = h
           \/ l = m /\ g = h
      BY <2>7, <2>8, <2>9
    <2>11. Taken(b, j) = l + g + c /\ Taken(t, j) = m + h + c
      BY <2>4 DEF Taken
    <2>12. m \in Nat /\ h \in {0, 1} /\ g \in {0, 1} /\ c \in Nat /\ more \in Nat
      BY <2>6
    <2> HIDE DEF m, h, g, c, l, more
    <2> QED BY <2>1, <2>10, <2>11, <2>12
  <1> HIDE DEF b, late
  <1>6. Taken(s, j) \in Nat /\ Taken(t, j) \in Nat
    BY <1>1, TakenType
  <1> QED BY <1>1, <1>2, <1>3, <1>4, <1>5, <1>6

(***************************************************************************)
(* Where no interaction holds input of its own, an emit forwards nothing   *)
(* on the way, and the session goes on exactly as the controller says.     *)
(***************************************************************************)

NothingMounted == \A i \in Items : instances[i] = NoInstance

LEMMA NothingMounts ==
  ASSUME SessionInv, StoresTypeOK, NothingMounted, Imperative = {}, [SessionNext]_sessionVars
  PROVE  ~(Mount \/ Unmount \/ Interact) /\ NothingMounted'
  <1>1. ~(Mount \/ Unmount \/ Interact)
    BY DEF Mount, Unmount, Interact
  <1> SUFFICES NothingMounted'
    BY <1>1
  <1>2. CASE Moving
    <2>1. \A next : Moves(World, World', next) => instances' = instances
      BY DEF Moves, World
    <2>2. SameClocks(World, World') => instances' = instances
      BY DEF SameClocks, World
    <2>3. made \in [Items -> Nat]
      BY DEF StoresTypeOK
    <2>4. instances' = instances
      BY <1>2, <2>1, <2>2, <2>3, SurfaceMoves, AnswerMoves, SubmitAttemptMoves DEF Moving
    <2> QED BY <2>4 DEF NothingMounted
  <1>3. CASE OpenItem \/ AssessmentResult
    BY <1>3, OpeningShape DEF NothingMounted
  <1>4. CASE ResetAttempt
    BY <1>4, ResetShape DEF NothingMounted
  <1>5. CASE Restart
    BY <1>5 DEF NothingMounted, Restart, WorldIs, NoInstances
  <1>6. CASE Wait \/ UNCHANGED sessionVars
    BY <1>6 DEF NothingMounted, Wait, sessionVars
  <1> QED BY <1>1, <1>2, <1>3, <1>4, <1>5, <1>6, StepKinds

LEMMA MovesExactly ==
  ASSUME SessionInv, NothingMounted, NEW next, Moves(World, World', next)
  PROVE  session' = next
  BY DEF Moves, World, NothingMounted

\* What a call on the surface makes of the session.
LEMMA SurfaceIsController ==
  ASSUME SessionInv, NothingMounted, NEW next \in Transitions(session), Calls(next)
  PROVE  session' = next /\ UNCHANGED <<clock, activeTime, made, typed>>
  <1>1. Moves(World, Emit(World, next), next)
    BY InvWorld, TransitionSafe, TransitionStamped, EmitMoves
  <1>2. Moves(World, World', next)
    BY <1>1 DEF Calls, WorldIs, World, Moves
  <1> QED BY <1>2, MovesExactly DEF Calls, WorldIs, Unobserved

\* Opening, resetting, waiting and losing the page leave the session alone.
LEMMA OthersLeaveSession ==
  ASSUME SessionInv, \/ OpenItem \/ AssessmentResult \/ ResetAttempt
                     \/ Restart \/ UNCHANGED sessionVars
  PROVE  UNCHANGED <<session, clock, activeTime, made>>
  <1>1. OpenItem \/ AssessmentResult => UNCHANGED <<session, clock, activeTime, made>>
    BY OpeningShape
  <1>2. ResetAttempt => UNCHANGED <<session, clock, activeTime, made>>
    BY ResetShape
  <1>3. Restart => UNCHANGED <<session, clock, activeTime, made>>
    BY DEF Restart, WorldIs, Restored
  <1> QED BY <1>1, <1>2, <1>3 DEF sessionVars

\* Refinement: a session shared by any number of attempt stores, opened late, reset,
\* restarted and suspended, goes on as the controller alone does, one transition per
\* call.  Interactions with input of their own break it: leaving a submitted one
\* forwards a second submission within the same call.
THEOREM SharedSessionIsAController ==
  ASSUME Imperative = {}
  PROVE  SessionSpec => ImplementsController
  <1>1. SessionInit => Init /\ NothingMounted
    BY DEF SessionInit, NothingMounted, NoInstances
  <1>2. SessionInv /\ StoresTypeOK /\ NothingMounted /\ [SessionNext]_sessionVars => NothingMounted'
    BY NothingMounts
  <1>3. SessionInv /\ StoresTypeOK /\ NothingMounted /\ [SessionNext]_sessionVars => [Next]_vars
    <2> SUFFICES ASSUME SessionInv, StoresTypeOK, NothingMounted, [SessionNext]_sessionVars
                 PROVE  [Next]_vars
      OBVIOUS
    <2>1. CASE SurfaceCall
      <3>1. \A next \in Transitions(session) : Calls(next) => Becomes(next)
        BY SurfaceIsController DEF Becomes
      <3>2. /\ {NextItem(session), EndTest(session), TickClock(session), Suspend(session),
                Resume(session)} \subseteq Transitions(session)
            /\ \A i \in Items : {MoveTo(session, i), Review(session, i),
                                 SetItemComment(session, i)} \subseteq Transitions(session)
        BY DEF Transitions
      <3> QED BY <2>1, <3>1, <3>2
              DEF SurfaceCall, CallMoveTo, CallNext, CallEnd, CallTick, CallSuspend, CallResume,
                  CallReview, CallComment, Next, DoMoveTo, DoNext, DoEnd, DoTick, DoSuspend,
                  DoResume, DoReview, DoComment
    <2>2. CASE Answer
      BY <2>2, AnswerMoves DEF SameClocks, World, vars
    <2>3. CASE SubmitAttempt
      <3>1. CASE SameClocks(World, World')
        BY <2>3, <3>1, SubmitAttemptMoves DEF StoresTypeOK, SameClocks, World, vars
      <3>2. CASE ~SameClocks(World, World')
        <4>1. made \in [Items -> Nat]
          BY DEF StoresTypeOK
        <4>2. PICK i \in Items, r \in Results :
                /\ Moves(World, World', SubmitItem(session, i, r))
                /\ Len(session'.attemptHistory[i]) <= MaxCommitted
                /\ Len(session'.rejectedSubmissions) <= MaxRejected
          BY <2>3, <3>2, <4>1, SubmitAttemptMoves
        <4>3. Becomes(SubmitItem(session, i, r))
          BY <2>3, <4>1, <4>2, MovesExactly, SubmitAttemptMoves DEF Becomes
        <4> QED BY <4>2, <4>3 DEF Next, DoSubmit
      <3> QED BY <3>1, <3>2
    <2>4. CASE OpenItem \/ AssessmentResult \/ ResetAttempt \/ Restart \/ UNCHANGED sessionVars
      BY <2>4, OthersLeaveSession DEF vars
    <2>5. CASE Wait
      BY <2>5 DEF Wait, Next
    <2> QED BY <2>1, <2>2, <2>3, <2>4, <2>5, StepKinds, NothingMounts DEF Moving
  <1> QED BY <1>1, <1>2, <1>3, SessionInvariant, StoresTypeCorrect, PTL
          DEF SessionSpec, ImplementsController

TakenInv == \A i \in Items : Taken(session, i) <= made[i]

\* Nothing is recorded, held or reported late but what was submitted: leaving an item,
\* suspending, expiring, reopening and restarting add no attempt of their own, and a
\* submission is taken once (the subscription of session-store.ts, ADR 0005).
THEOREM NoAttemptOutOfNothing ==
  ASSUME Imperative = {}
  PROVE  SessionSpec => []NoAttemptInvented
  <1>1. SessionInit => NothingMounted /\ TakenInv
    <2> SUFFICES ASSUME SessionInit PROVE TakenInv
      BY DEF SessionInit, NothingMounted, NoInstances
    <2>1. clock \in Int /\ session = StartState /\ made = [i \in Items |-> 0]
      BY DEF SessionInit, Init
    <2>2. PICK s \in SessionState :
            /\ StartState = MoveToItem(s, FirstNavigable(s, 1))
            /\ s.pendingItemResults = [i \in Items |-> NoResult]
            /\ s.attemptHistory = [i \in Items |-> <<>>]
            /\ s.rejectedSubmissions = <<>>
      BY <2>1, StartStateOpens
    <2>3. SettlesOnly(s, StartState)
      BY <2>1, <2>2, FirstNavigableIsOpen, MoveToItemSettles, MoveToItemKeepsLate DEF SettlesOnly
    <2>4. ASSUME NEW i \in Items PROVE Taken(StartState, i) = 0
      <3>1. Len(s.attemptHistory[i]) = 0 /\ Held(s.pendingItemResults[i]) = 0 /\ Late(s, i) = {}
        BY <2>2 DEF Held, Late
      <3>2. Taken(s, i) = 0
        BY <3>1, FS_EmptySet DEF Taken
      <3> QED BY <2>3, <3>2, SettlesKeepsTaken
    <2> QED BY <2>1, <2>4 DEF TakenInv
  <1>2. SessionInv /\ StoresTypeOK /\ NothingMounted /\ [SessionNext]_sessionVars => NothingMounted'
    BY NothingMounts
  <1>3. /\ SessionInv /\ SessionInv' /\ StoresTypeOK /\ NothingMounted /\ TakenInv
        /\ [SessionNext]_sessionVars
        => TakenInv'
    <2> SUFFICES ASSUME SessionInv, SessionInv', StoresTypeOK, NothingMounted, TakenInv,
                        [SessionNext]_sessionVars, NEW j \in Items
                 PROVE  Taken(session', j) <= made'[j]
      BY DEF TakenInv, Taken, Late
    <2>1. /\ made \in [Items -> Nat] /\ Taken(session, j) <= made[j]
          /\ Taken(session, j) \in Nat /\ Taken(session', j) \in Nat /\ clock \in Int
          /\ session \in SessionState
      <3>1. session \in SessionState /\ session' \in SessionState
        BY InvWorld DEF SessionInv, World, Worlds, SafeSessions, SoundSessions
      <3> QED BY <3>1, InvWorld, TakenType DEF StoresTypeOK, TakenInv
    <2>2. UNCHANGED <<session, made>> => Taken(session', j) <= made'[j]
      BY <2>1
    <2>3. CASE SurfaceCall
      <3>1. PICK next \in OtherTransitions(session) : Calls(next)
        BY <2>3 DEF SurfaceCall, OtherTransitions, CallMoveTo, CallNext, CallEnd, CallTick,
                    CallSuspend, CallResume, CallReview, CallComment
      <3>2. next \in Transitions(session)
        BY DEF OtherTransitions, Transitions
      <3>3. session' = next /\ made' = made
        BY <3>1, <3>2, SurfaceIsController
      <3>4. Taken(next, j) = Taken(session, j)
        BY <2>1, OthersKeepTaken
      <3> QED BY <2>1, <3>3, <3>4
    <2>4. CASE Answer
      BY <2>2, <2>4, AnswerMoves DEF SameClocks, World
    <2>5. CASE SubmitAttempt
      <3>1. \A k \in Items : made'[k] >= made[k]
        BY <2>1, <2>5, SubmitAttemptMoves
      <3>2. made' \in [Items -> Nat]
        BY <2>1, <2>5 DEF SubmitAttempt
      <3>3. CASE SameClocks(World, World')
        <4>1. session' = session
          BY <3>3 DEF SameClocks, World
        <4> QED BY <2>1, <3>1, <3>2, <4>1
      <3>4. CASE ~SameClocks(World, World')
        <4>1. PICK i \in Items, r \in Results :
                /\ Moves(World, World', SubmitItem(session, i, r))
                /\ made'[i] = made[i] + 1
          BY <2>1, <2>5, <3>4, SubmitAttemptMoves
        <4>2. session' = SubmitItem(session, i, r)
          BY <4>1, MovesExactly
        <4>3. Taken(session', j) <= Taken(session, j) + (IF i = j THEN 1 ELSE 0)
          BY <2>1, <4>2, SubmitItemTakes
        <4>4. made[j] \in Nat /\ made'[j] \in Nat /\ made'[j] >= made[j]
          BY <2>1, <3>1, <3>2
        <4>5. CASE i = j
          <5>1. made'[j] = made[j] + 1
            BY <4>1, <4>5
          <5> QED BY <2>1, <4>3, <4>4, <4>5, <5>1
        <4>6. CASE i # j
          BY <2>1, <4>3, <4>4, <4>6
        <4> QED BY <4>5, <4>6
      <3> QED BY <3>3, <3>4
    <2>6. CASE OpenItem \/ AssessmentResult \/ ResetAttempt \/ Restart \/ UNCHANGED sessionVars
      BY <2>2, <2>6, OthersLeaveSession
    <2>7. CASE Wait
      BY <2>2, <2>7 DEF Wait, AdvanceClock
    <2> QED BY <2>3, <2>4, <2>5, <2>6, <2>7, StepKinds, NothingMounts DEF Moving
  <1>4. TakenInv => NoAttemptInvented
    BY DEF TakenInv, Taken, Held, Late, NoAttemptInvented, LateFor
  <1> QED BY <1>1, <1>2, <1>3, <1>4, SessionInvariant, StoresTypeCorrect, PTL DEF SessionSpec

\* What is proved of the controller alone is proved of the one that stores share:
\* among it, that no submission is lost, doubled or collected without its part.
THEOREM SharedSessionKeepsLedger ==
  ASSUME Imperative = {}
  PROVE  SessionSpec => ImplementsLedger
  <1>1. SessionSpec => Spec
    BY SharedSessionIsAController DEF ImplementsController, Spec
  <1> QED BY <1>1, ControllerImplementsLedger

(***************************************************************************)
(* Template defaults.  They are evaluated once, and a store keeps those it *)
(* was opened with.                                                        *)
(***************************************************************************)

\* From s to t no default is evaluated again.
KeepsDefaults(s, t) ==
  \A i \in Items : s.templateDefaultValues[i] # NoResult \/ i \notin TemplateItems =>
                     t.templateDefaultValues[i] = s.templateDefaultValues[i]

LEMMA DefaultsKeptTwice ==
  ASSUME NEW s, NEW t, NEW u, KeepsDefaults(s, t), KeepsDefaults(t, u)
  PROVE  KeepsDefaults(s, u)
  BY DEF KeepsDefaults

LEMMA SameDefaultsKept ==
  ASSUME NEW s, NEW t, t.templateDefaultValues = s.templateDefaultValues
  PROVE  KeepsDefaults(s, t)
  BY DEF KeepsDefaults

LEMMA FlushKeepsDefaults ==
  ASSUME NEW s \in SessionState, NEW leaving, leaving \subseteq Items
  PROVE  FlushPending(s, leaving).templateDefaultValues = s.templateDefaultValues
  BY DEF FlushPending, Commit, SessionState

LEMMA EndedKeepsDefaults ==
  ASSUME NEW s \in SessionState
  PROVE  KeepsDefaults(s, Ended(s))
  <1> DEFINE flushed == FlushPending(s, Items)
  <1>1. /\ flushed \in SessionState
        /\ flushed.templateDefaultValues = s.templateDefaultValues
    BY FlushPendingType, FlushKeepsDefaults
  <1>2. Ended(s) = [flushed EXCEPT !.status = "ended", !.currentItemKey = NoItem,
                                   !.testOutcomes = RunOutcomeProcessing(flushed)]
    BY DEF Ended
  <1> HIDE DEF flushed
  <1>3. Ended(s).templateDefaultValues = s.templateDefaultValues
    BY <1>1, <1>2 DEF SessionState
  <1> QED BY <1>3, SameDefaultsKept

\* Presenting an item evaluates the defaults that are due and were not recorded.
LEMMA MoveToItemKeepsDefaults ==
  ASSUME NEW s \in SessionState, NEW i \in Items \cup {NoItem}
  PROVE  KeepsDefaults(s, MoveToItem(s, i))
  <1> DEFINE flushed == FlushPending(s, {j \in Items : PartOf[j] = PartOf[s.currentItemKey]})
             left == LeavePart(s, i)
             d == WithTemplateDefaults(left, i)
             due == IF PartOf[i] \in Linear THEN {i} ELSE {j \in Items : PartOf[j] = PartOf[i]}
             values == [j \in Items |->
                          IF j \in due \cap TemplateItems /\ left.templateDefaultValues[j] = NoResult
                          THEN left.testOutcomes ELSE left.templateDefaultValues[j]]
  <1>1. /\ flushed \in SessionState
        /\ flushed.templateDefaultValues = s.templateDefaultValues
    BY FlushPendingType, FlushKeepsDefaults
  <1>2. left = s \/ left = [flushed EXCEPT !.testOutcomes = RunOutcomeProcessing(flushed)]
    BY DEF LeavePart
  <1> HIDE DEF flushed
  <1>3. left \in SessionState /\ left.templateDefaultValues = s.templateDefaultValues
    <2>1. left.templateDefaultValues = s.templateDefaultValues
      <3> HIDE DEF left
      <3> QED BY <1>1, <1>2 DEF SessionState
    <2> QED BY <2>1, LeavePartType
  <1>4. MoveToItem(s, i) = IF i = NoItem THEN Ended(s) ELSE Present(d, i)
    BY DEF MoveToItem
  <1>5. d = [left EXCEPT !.templateDefaultValues = values]
    BY DEF WithTemplateDefaults
  <1>6. KeepsDefaults(s, [templateDefaultValues |-> values])
    <2> HIDE DEF left, due
    <2> QED BY <1>3 DEF KeepsDefaults
  <1> HIDE DEF left, values
  <1>7. i \in Items => d \in SessionState /\ d.templateDefaultValues = values
    <2>1. i \in Items => d \in SessionState
      BY <1>3, WithTemplateDefaultsType
    <2> HIDE DEF d
    <2> QED BY <1>3, <1>5, <2>1 DEF SessionState
  <1> HIDE DEF d
  <1>8. i \in Items => Present(d, i).templateDefaultValues = values
    BY <1>7 DEF Present, SessionState
  <1>9. i \in Items => KeepsDefaults(s, Present(d, i))
    BY <1>6, <1>8 DEF KeepsDefaults
  <1> QED BY <1>4, <1>9, EndedKeepsDefaults

LEMMA ApplyExpiriesKeepsDefaults ==
  ASSUME NEW s \in SessionState
  PROVE  KeepsDefaults(s, ApplyExpiries(s))
  <1>1. KeepsDefaults(s, MoveToItem(s, FirstNavigable(s, s.currentItemKey + 1)))
    BY FirstNavigableIsOpen, MoveToItemKeepsDefaults
  <1>2. KeepsDefaults(s, s)
    BY SameDefaultsKept
  <1> QED BY <1>1, <1>2, EndedKeepsDefaults DEF ApplyExpiries

LEMMA TouchKeepsDefaults ==
  ASSUME NEW s \in SessionState, clock \in Int
  PROVE  Touch(s) \in SessionState /\ KeepsDefaults(s, Touch(s))
  <1>1. Touch(s).templateDefaultValues = s.templateDefaultValues
    BY DEF Touch, SessionState
  <1> QED BY <1>1, TouchType, SameDefaultsKept

LEMMA SubmitItemKeepsDefaults ==
  ASSUME NEW s \in SessionState, NEW i \in Items, NEW r \in Results, clock \in Int
  PROVE  KeepsDefaults(s, SubmitItem(s, i, r))
  <1> DEFINE t == Touch(s)
             b == SubmitBody(t, i, r)
             entry == [itemKey |-> i, scope |-> BarringScope(t, i),
                       atTestSeconds |-> t.seconds[TestScope]]
             late == [t EXCEPT !.rejectedSubmissions = Append(@, entry)]
  <1>1. t \in SessionState /\ KeepsDefaults(s, t)
    BY TouchKeepsDefaults
  <1>2. \/ SubmitItem(s, i, r) \in {s, ApplyExpiries(b)}
        \/ BarringScopes(t, i) # {} /\ SubmitItem(s, i, r) = ApplyExpiries(late)
    BY DEF SubmitItem
  <1> HIDE DEF t
  <1>3. b \in SessionState /\ b.templateDefaultValues = t.templateDefaultValues
    <2>1. b.templateDefaultValues = t.templateDefaultValues
      BY <1>1 DEF SubmitBody, Commit, SessionState
    <2> QED BY <1>1, <2>1, SubmitBodyType
  <1>4. BarringScopes(t, i) # {} =>
          late \in SessionState /\ late.templateDefaultValues = t.templateDefaultValues
    <2>1. BarringScopes(t, i) # {} => late \in SessionState
      BY <1>1, LateType
    <2>2. late.templateDefaultValues = t.templateDefaultValues
      BY <1>1 DEF SessionState
    <2> QED BY <2>1, <2>2
  <1> HIDE DEF b, late
  <1>5. ASSUME NEW x \in SessionState, x.templateDefaultValues = t.templateDefaultValues
        PROVE  KeepsDefaults(s, ApplyExpiries(x))
    <2>1. KeepsDefaults(s, x)
      BY <1>1, <1>5, SameDefaultsKept, DefaultsKeptTwice
    <2> QED BY <2>1, ApplyExpiriesKeepsDefaults, DefaultsKeptTwice
  <1>6. KeepsDefaults(s, s)
    BY SameDefaultsKept
  <1> QED BY <1>2, <1>3, <1>4, <1>5, <1>6

LEMMA OthersKeepDefaults ==
  ASSUME NEW s \in SessionState, clock \in Int, NEW next \in OtherTransitions(s)
  PROVE  KeepsDefaults(s, next)
  <1> DEFINE t == Touch(s)
             k == NextDestination(t)
             settled == ApplyExpiries(t)
             parked == [settled EXCEPT !.status = "suspended"]
             open == [s EXCEPT !.status = "in-progress", !.lastTransitionAtMs = clock]
             shown(j) == [s EXCEPT !.currentItemKey = j]
             noted(j) == [s EXCEPT !.itemComments = @ \cup {j}]
  <1>1. t \in SessionState /\ KeepsDefaults(s, t)
    BY TouchKeepsDefaults
  <1>2. /\ NextItem(s) \in {s, settled} \/ (~NextRefused(t) /\ NextItem(s) = MoveToItem(t, k))
        /\ EndTest(s) \in {s, Ended(t)}
        /\ TickClock(s) \in {s, settled}
        /\ Suspend(s) \in {s, settled, parked}
        /\ Resume(s) \in {s, open}
        /\ \A j \in Items : /\ MoveTo(s, j) \in {s, settled, Present(t, j)}
                            /\ Review(s, j) \in {s, shown(j)}
                            /\ SetItemComment(s, j) \in {s, noted(j)}
    BY DEF NextItem, EndTest, TickClock, Suspend, Resume, MoveTo, Review, SetItemComment,
           WithTransition
  <1> HIDE DEF t
  <1>3. settled \in SessionState /\ KeepsDefaults(s, settled) /\ KeepsDefaults(s, Ended(t))
    BY <1>1, ApplyExpiriesType, ApplyExpiriesKeepsDefaults, EndedKeepsDefaults, DefaultsKeptTwice
  <1>4. ~NextRefused(t) => KeepsDefaults(s, MoveToItem(t, k))
    <2>1. ~NextRefused(t) => k \in Items \cup {NoItem}
      BY <1>1, NextDestinationType DEF NextRefused
    <2> HIDE DEF k
    <2> QED BY <1>1, <2>1, MoveToItemKeepsDefaults, DefaultsKeptTwice
  <1> HIDE DEF settled
  <1>5. KeepsDefaults(s, parked)
    <2>1. parked.templateDefaultValues = settled.templateDefaultValues
      BY <1>3 DEF SessionState
    <2> HIDE DEF parked
    <2> QED BY <1>3, <2>1, SameDefaultsKept, DefaultsKeptTwice
  <1>6. KeepsDefaults(s, s) /\ KeepsDefaults(s, open)
    <2>1. open.templateDefaultValues = s.templateDefaultValues
      BY DEF SessionState
    <2> QED BY <2>1, SameDefaultsKept
  <1>7. ASSUME NEW j \in Items
        PROVE  KeepsDefaults(s, Present(t, j)) /\ KeepsDefaults(s, shown(j)) /\ KeepsDefaults(s, noted(j))
    <2>1. Present(t, j).templateDefaultValues = t.templateDefaultValues
      BY <1>1 DEF Present, SessionState
    <2>2. /\ shown(j).templateDefaultValues = s.templateDefaultValues
          /\ noted(j).templateDefaultValues = s.templateDefaultValues
      BY DEF SessionState
    <2> QED BY <1>1, <2>1, <2>2, SameDefaultsKept, DefaultsKeptTwice
  <1> HIDE DEF k, parked, open, shown, noted
  <1> QED BY <1>2, <1>3, <1>4, <1>5, <1>6, <1>7 DEF OtherTransitions

LEMMA TransitionsKeepDefaults ==
  ASSUME NEW s \in SafeSessions, NEW next \in Transitions(s), clock \in Int
  PROVE  KeepsDefaults(s, next)
  <1>1. s \in SessionState
    BY DEF SafeSessions, SoundSessions
  <1>2. \/ next \in OtherTransitions(s)
        \/ \E i \in Items, r \in Results : next = SubmitItem(s, i, r)
    BY DEF Transitions, OtherTransitions
  <1> QED BY <1>1, <1>2, OthersKeepDefaults, SubmitItemKeepsDefaults

\* What a step makes of the defaults the session records and of those a store
\* was opened with.
DefaultsStep ==
  /\ KeepsDefaults(session, session')
  /\ \A i \in Items : stores'[i] # NoStore =>
       \/ stores[i] # NoStore /\ stores'[i].templateDefaults = stores[i].templateDefaults
       \/ /\ stores[i] = NoStore /\ session' = session
          /\ stores'[i].templateDefaults = session.templateDefaultValues[i]

LEMMA MovesKeepDefaults ==
  ASSUME SessionInv, NEW next \in SafeSessions, KeepsDefaults(session, next),
         Moves(World, World', next)
  PROVE  DefaultsStep
  <1>1. next \in SessionState
    BY DEF SafeSessions, SoundSessions
  <1>2. \/ session' = next
        \/ \E i \in Items, r \in Results : session' = SubmitItem(next, i, r)
    BY InvWorld DEF Moves, World
  <1>3. KeepsDefaults(session, session')
    <2>1. CASE session' = next
      BY <2>1
    <2>2. ASSUME NEW i \in Items, NEW r \in Results, session' = SubmitItem(next, i, r)
          PROVE  KeepsDefaults(session, session')
      BY <1>1, <2>2, InvWorld, SubmitItemKeepsDefaults, DefaultsKeptTwice
    <2> QED BY <1>2, <2>1, <2>2
  <1>4. ASSUME NEW i \in Items, stores'[i] # NoStore
        PROVE  stores[i] # NoStore /\ stores'[i].templateDefaults = stores[i].templateDefaults
    BY <1>4 DEF Moves, Passes, World
  <1> QED BY <1>3, <1>4 DEF DefaultsStep

LEMMA StepKeepsDefaults ==
  ASSUME SessionInv, StoresTypeOK, [SessionNext]_sessionVars
  PROVE  DefaultsStep
  <1>1. KeepsDefaults(session, session)
    BY SameDefaultsKept
  <1>2. SameClocks(World, World') => DefaultsStep
    <2>1. SameClocks(World, World') => Moves(World, World', session)
      BY InvWorld, SameMoves
    <2> QED BY <1>1, <2>1, InvWorld, MovesKeepDefaults
  <1>3. CASE SurfaceCall
    <2>1. PICK next \in Transitions(session) : Moves(World, World', next)
      BY <1>3, SurfaceMoves
    <2>2. next \in SafeSessions /\ KeepsDefaults(session, next)
      BY InvWorld, TransitionSafe, TransitionsKeepDefaults
    <2> QED BY <2>1, <2>2, MovesKeepDefaults
  <1>4. CASE Answer
    BY <1>2, <1>4, AnswerMoves
  <1>5. CASE SubmitAttempt
    <2>1. made \in [Items -> Nat]
      BY DEF StoresTypeOK
    <2>2. CASE SameClocks(World, World')
      BY <1>2, <2>2
    <2>3. ASSUME NEW i \in Items, NEW r \in Results, Moves(World, World', SubmitItem(session, i, r))
          PROVE  DefaultsStep
      <3>1. SubmitItem(session, i, r) \in Transitions(session)
        BY DEF Transitions
      <3>2. /\ SubmitItem(session, i, r) \in SafeSessions
            /\ KeepsDefaults(session, SubmitItem(session, i, r))
        BY <3>1, InvWorld, TransitionSafe, TransitionsKeepDefaults
      <3> QED BY <2>3, <3>2, MovesKeepDefaults
    <2> QED BY <1>5, <2>1, <2>2, <2>3, SubmitAttemptMoves
  <1>6. CASE OpenItem \/ AssessmentResult
    <2>1. session' = session
      BY <1>6, OpeningShape
    <2>2. \A i \in Items : \/ stores'[i] = stores[i]
                           \/ /\ stores[i] = NoStore
                              /\ stores'[i].templateDefaults = session.templateDefaultValues[i]
      BY <1>6, OpeningShape
    <2> QED BY <1>1, <2>1, <2>2 DEF DefaultsStep
  <1>7. CASE ResetAttempt
    <2>1. session' = session
      BY <1>7, ResetShape
    <2>2. \A j \in Items : stores'[j] = stores[j] \/ (/\ stores[j] # NoStore
                                                      /\ stores'[j].templateDefaults = stores[j].templateDefaults)
      BY <1>7, ResetShape
    <2> QED BY <1>1, <2>1, <2>2 DEF DefaultsStep
  <1>8. CASE Mount \/ Unmount \/ Interact
    BY <1>1, <1>8, PageShape DEF DefaultsStep
  <1>9. CASE Restart
    <2>1. session' = session /\ stores' = [i \in Items |-> NoStore]
      BY <1>9, InvWorld DEF Restart, WorldIs, Restored, NoStores
    <2> QED BY <1>1, <2>1 DEF DefaultsStep
  <1>10. CASE Wait \/ UNCHANGED sessionVars
    <2>1. UNCHANGED <<session, stores>>
      BY <1>10 DEF Wait, AdvanceClock, sessionVars
    <2> QED BY <1>1, <2>1 DEF DefaultsStep
  <1> QED BY <1>3, <1>4, <1>5, <1>6, <1>7, <1>8, <1>9, <1>10, StepKinds DEF Moving

\* Template defaults are evaluated once: what is recorded for an item stays,
\* however often it is presented and whatever the outcomes are by then, and an
\* item without template defaults gets none (withTemplateDefaults of controller.ts).
THEOREM TemplatesAreEvaluatedOnce ==
  SessionSpec => [][KeepsDefaults(session, session')]_sessionVars
  <1>1. SessionInv /\ StoresTypeOK /\ [SessionNext]_sessionVars
          => [KeepsDefaults(session, session')]_sessionVars
    BY StepKeepsDefaults DEF DefaultsStep
  <1> QED BY <1>1, SessionInvariant, StoresTypeCorrect, PTL DEF SessionSpec

\* A clone is built from the template defaults recorded for its item or, where
\* its store was opened before they were evaluated, from none; from no others
\* (itemStore of session-store.ts, reset of store.ts).
THEOREM ClonesUseRecordedOrNone ==
  SessionSpec => [](\A i \in Items : stores[i] # NoStore =>
                      stores[i].templateDefaults \in {NoResult, session.templateDefaultValues[i]})
  <1> DEFINE Inv == \A i \in Items : stores[i] # NoStore =>
                      stores[i].templateDefaults \in {NoResult, session.templateDefaultValues[i]}
  <1>1. SessionInit => Inv
    BY DEF SessionInit, NoStores
  <1>2. SessionInv /\ StoresTypeOK /\ Inv /\ [SessionNext]_sessionVars => Inv'
    <2> SUFFICES ASSUME SessionInv, StoresTypeOK, Inv, DefaultsStep PROVE Inv'
      BY StepKeepsDefaults
    <2> QED BY DEF DefaultsStep, KeepsDefaults
  <1> QED BY <1>1, <1>2, SessionInvariant, StoresTypeCorrect, PTL DEF SessionSpec

\* For every plan and every order of calls: once the template defaults of an item are
\* recorded, a store opened from then on is built from them and stays so, through
\* resets and restarts (itemStore of session-store.ts, reset of store.ts,
\* withTemplateDefaults of controller.ts).
THEOREM RecordedClonesStay == SessionSpec => ClonesStayOnRecord
  <1> DEFINE Kept(i) ==
        /\ session.templateDefaultValues[i] # NoResult
        /\ stores[i] = NoStore \/ stores[i].templateDefaults = session.templateDefaultValues[i]
        => /\ session'.templateDefaultValues[i] = session.templateDefaultValues[i]
           /\ stores'[i] = NoStore \/ stores'[i].templateDefaults = session'.templateDefaultValues[i]
  <1>1. SessionInv /\ StoresTypeOK /\ [SessionNext]_sessionVars => [\A i \in Items : Kept(i)]_sessionVars
    <2> SUFFICES ASSUME SessionInv, StoresTypeOK, [SessionNext]_sessionVars, NEW i \in Items
                 PROVE  Kept(i)
      OBVIOUS
    <2>1. DefaultsStep
      BY StepKeepsDefaults
    <2>2. CASE session.templateDefaultValues[i] = NoResult
      BY <2>2
    <2>3. CASE session.templateDefaultValues[i] # NoResult
      <3>1. session'.templateDefaultValues[i] = session.templateDefaultValues[i]
        BY <2>1, <2>3 DEF DefaultsStep, KeepsDefaults
      <3>2. ASSUME stores'[i] # NoStore,
                   stores[i] = NoStore \/ stores[i].templateDefaults = session.templateDefaultValues[i]
            PROVE  stores'[i].templateDefaults = session'.templateDefaultValues[i]
        BY <2>1, <3>1, <3>2 DEF DefaultsStep
      <3> QED BY <3>1, <3>2
    <2> QED BY <2>2, <2>3
  <1> QED BY <1>1, SessionInvariant, StoresTypeCorrect, PTL DEF SessionSpec, ClonesStayOnRecord
=============================================================================
