------------------------- MODULE Cmi5AdapterProofs -------------------------
(***************************************************************************)
(* Theorems about the cmi5 reference adapter, for any packages, sessions,  *)
(* registrations, callers and request ids, any movement of the clock, and  *)
(* a process that may stop at every write.                                 *)
(***************************************************************************)
EXTENDS Cmi5AdapterProperties, TLAPS

(***************************************************************************)
(* What a call leaves behind                                               *)
(***************************************************************************)

(* The result of a handler is whole: the maps it leaves are those it wrote *)
(* last, or the ones it found.                                             *)
Whole(h, st) ==
    /\ h.after \in States
    /\ h.writes \in Seq(States)
    /\ h.after = IF h.writes = <<>> THEN st ELSE h.writes[Len(h.writes)]

Written(h) == {h.writes[k] : k \in DOMAIN h.writes}

Lost == TornWrites /\ mem' = EmptyState /\ disk' = NoFile

LEMMA EmptyStateType == EmptyState \in States
  BY SMT DEF EmptyState, States, Launches, Accesses, NoLaunch, NoAccess, TokenValues, Stamps

LEMMA CallSettles ==
  ASSUME NEW h, Whole(h, mem), mem = Load(disk),
         disk \in [readable : BOOLEAN, snapshot : States],
         Answer(h) \/ Crash(h)
  PROVE  /\ mem' = Load(disk')
         /\ disk' \in [readable : BOOLEAN, snapshot : States]
         /\ mem' = mem \/ Lost \/ mem' \in Written(h)
         /\ mem' \in States
  <1> DEFINE n == Len(h.writes)
             file(k) == FileAfter(h, k)
  <1>1. n \in Nat /\ DOMAIN h.writes = 1 .. n /\ \A k \in 1 .. n : h.writes[k] \in States
    BY DEF Whole
  <1>2. NoFile \in [readable : BOOLEAN, snapshot : States]
    BY EmptyStateType DEF NoFile
  <1>3. ASSUME NEW k \in 0 .. n, disk' = file(k)
        PROVE  /\ disk' \in [readable : BOOLEAN, snapshot : States]
               /\ Load(disk') = IF k = 0 THEN mem ELSE h.writes[k]
    BY <1>1, <1>3 DEF FileAfter, File, Load
  <1>4. mem \in States
    BY EmptyStateType DEF Load
  <1>5. CASE Answer(h)
    <2>1. disk' = file(n) /\ mem' = h.after
      BY <1>5 DEF Answer
    <2>2. mem' = IF n = 0 THEN mem ELSE h.writes[n]
      BY <1>1, <2>1 DEF Whole
    <2> QED BY <1>1, <1>3, <1>4, <2>1, <2>2 DEF Written
  <1>6. CASE \E k \in 0 .. n : disk' = file(k) /\ mem' = Load(disk')
    <2>1. PICK k \in 0 .. n : disk' = file(k) /\ mem' = Load(disk')
      BY <1>6
    <2> QED BY <1>1, <1>3, <1>4, <2>1 DEF Written
  <1>7. CASE TornWrites /\ disk' = NoFile /\ mem' = Load(disk')
    BY <1>2, <1>7, EmptyStateType DEF Lost, Load, NoFile
  <1> QED BY <1>5, <1>6, <1>7 DEF Crash

Gives(h, st, written) == Whole(h, st) /\ Written(h) = written

LEMMA RefusedUnread ==
  ASSUME NEW st \in States, NEW code
  PROVE  Gives(Refuse(code, st, <<>>), st, {})
  BY DEF Gives, Whole, Written, Refuse

LEMMA RefusedOnce ==
  ASSUME NEW st, NEW a \in States, NEW code
  PROVE  Gives(Refuse(code, a, <<a>>), st, {a})
  BY DEF Gives, Whole, Written, Refuse

LEMMA RefusedTwice ==
  ASSUME NEW st, NEW a \in States, NEW b \in States, NEW code
  PROVE  Gives(Refuse(code, b, <<a, b>>), st, {a, b})
  BY DEF Gives, Whole, Written, Refuse

LEMMA AcceptedUnwritten ==
  ASSUME NEW st \in States, NEW body
  PROVE  Gives(Accept(body, st, <<>>), st, {})
  BY DEF Gives, Whole, Written, Accept

LEMMA AcceptedOnce ==
  ASSUME NEW st, NEW a \in States, NEW body
  PROVE  Gives(Accept(body, a, <<a>>), st, {a})
  BY DEF Gives, Whole, Written, Accept

LEMMA AcceptedTwice ==
  ASSUME NEW st, NEW a \in States, NEW b \in States, NEW body
  PROVE  Gives(Accept(body, b, <<a, b>>), st, {a, b})
  BY DEF Gives, Whole, Written, Accept

LEMMA AcceptedThrice ==
  ASSUME NEW st, NEW a \in States, NEW b \in States, NEW c \in States, NEW body
  PROVE  Gives(Accept(body, c, <<a, b, c>>), st, {a, b, c})
  BY DEF Gives, Whole, Written, Accept

(***************************************************************************)
(* The helpers of cmi5-state.ts keep the types of the maps                 *)
(***************************************************************************)

LaunchRecords == Launches \ {NoLaunch}

LEMMA FieldTypes ==
  ASSUME NEW st \in States
  PROVE  /\ st.launches \in [Sessions -> Launches]
         /\ st.access \in [Sessions -> Accesses]
         /\ st.replay \in [Sessions -> SUBSET RequestIds]
         /\ st.statements \in [Sessions -> Seq(Verbs)]
         /\ st.registrations \in SUBSET Registrations
         /\ st.waived \in [Registrations -> Stamps(0)]
         /\ st.abandoned \in SUBSET Sessions
         /\ st.packages \in SUBSET Packages
  BY DEF States

LEMMA FieldUpdates ==
  ASSUME NEW st \in States
  PROVE  /\ \A x \in SUBSET Packages : [st EXCEPT !.packages = x] \in States
         /\ \A x \in [Sessions -> Launches] : [st EXCEPT !.launches = x] \in States
         /\ \A x \in [Sessions -> Accesses] : [st EXCEPT !.access = x] \in States
         /\ \A x \in [Sessions -> SUBSET RequestIds] : [st EXCEPT !.replay = x] \in States
         /\ \A x \in [Sessions -> Seq(Verbs)] : [st EXCEPT !.statements = x] \in States
         /\ \A x \in SUBSET Registrations : [st EXCEPT !.registrations = x] \in States
         /\ \A x \in [Registrations -> Stamps(0)] : [st EXCEPT !.waived = x] \in States
         /\ \A x \in SUBSET Sessions : [st EXCEPT !.abandoned = x] \in States
  <1> DEFINE PackagesT == SUBSET Packages
             LaunchesT == [Sessions -> Launches]
             AccessT   == [Sessions -> Accesses]
             ReplayT   == [Sessions -> SUBSET RequestIds]
             LogsT     == [Sessions -> Seq(Verbs)]
             KnownT    == SUBSET Registrations
             WaivedT   == [Registrations -> Stamps(0)]
             GoneT     == SUBSET Sessions
  <1>1. States = [packages : PackagesT, launches : LaunchesT, access : AccessT, replay : ReplayT,
                  statements : LogsT, registrations : KnownT, waived : WaivedT, abandoned : GoneT]
    BY DEF States
  <1> HIDE DEF PackagesT, LaunchesT, AccessT, ReplayT, LogsT, KnownT, WaivedT, GoneT
  <1>2. /\ \A x \in PackagesT : [st EXCEPT !.packages = x] \in States
        /\ \A x \in LaunchesT : [st EXCEPT !.launches = x] \in States
        /\ \A x \in AccessT : [st EXCEPT !.access = x] \in States
        /\ \A x \in ReplayT : [st EXCEPT !.replay = x] \in States
    BY <1>1
  <1>3. /\ \A x \in LogsT : [st EXCEPT !.statements = x] \in States
        /\ \A x \in KnownT : [st EXCEPT !.registrations = x] \in States
        /\ \A x \in WaivedT : [st EXCEPT !.waived = x] \in States
        /\ \A x \in GoneT : [st EXCEPT !.abandoned = x] \in States
    BY <1>1
  <1> QED
    BY <1>2, <1>3 DEF PackagesT, LaunchesT, AccessT, ReplayT, LogsT, KnownT, WaivedT, GoneT

LEMMA RecordReplayType ==
  ASSUME NEW st \in States, NEW s \in Sessions, NEW id \in RequestIds \union {NoId}
  PROVE  RecordReplay(st, s, id) \in States
  <1>1. CASE id \in RequestIds /\ id # NoId
    <2> DEFINE replay == [st.replay EXCEPT ![s] = @ \union {id}]
    <2>1. replay \in [Sessions -> SUBSET RequestIds]
      BY <1>1, FieldTypes
    <2>2. RecordReplay(st, s, id) = [st EXCEPT !.replay = replay]
      BY <1>1 DEF RecordReplay
    <2> QED BY <2>1, <2>2, FieldUpdates
  <1> QED BY <1>1 DEF RecordReplay

LEMMA AppendStatementType ==
  ASSUME NEW st \in States, NEW s \in Sessions, NEW v \in Verbs
  PROVE  AppendStatement(st, s, v) \in States
  <1> DEFINE logs == [st.statements EXCEPT ![s] = Append(@, v)]
  <1>1. logs \in [Sessions -> Seq(Verbs)]
    BY FieldTypes
  <1>2. AppendStatement(st, s, v) = [st EXCEPT !.statements = logs]
    BY DEF AppendStatement
  <1> QED BY <1>1, <1>2, FieldUpdates

LEMMA SaveLaunchType ==
  ASSUME NEW st \in States, NEW s \in Sessions, NEW launch \in LaunchRecords, NEW t \in Times
  PROVE  SaveLaunch(st, s, launch, t) \in States
  <1> DEFINE opened   == [NoAccess EXCEPT !.fetchExpires = t + FetchTtl]
             launches == [st.launches EXCEPT ![s] = launch]
             access   == [st.access EXCEPT ![s] = opened]
             replay   == [st.replay EXCEPT ![s] = {}]
             logs     == [st.statements EXCEPT ![s] = <<>>]
             known    == st.registrations \union {launch.registration}
             st1 == [st EXCEPT !.launches = launches]
             st2 == [st1 EXCEPT !.registrations = known]
             st3 == [st2 EXCEPT !.statements = logs]
             st4 == [st3 EXCEPT !.replay = replay]
             st5 == [st4 EXCEPT !.access = access]
  <1>1. opened \in Accesses
    <2>1. t + FetchTtl \in Stamps(FetchTtl) /\ Never \in Stamps(FetchTtl) /\ Never \in Stamps(AuthTtl)
      BY TimeAssumption DEF Stamps, Times
    <2>2. NoToken \in TokenValues
      BY DEF TokenValues
    <2>3. NoAccess \in Accesses
      BY <2>1, <2>2 DEF NoAccess, Accesses
    <2> QED BY <2>1, <2>3 DEF Accesses
  <1>2. launch \in Launches /\ launch.registration \in Registrations
    BY DEF LaunchRecords, Launches
  <1> HIDE DEF opened
  <1>3. /\ launches \in [Sessions -> Launches]
        /\ access \in [Sessions -> Accesses]
        /\ replay \in [Sessions -> SUBSET RequestIds]
        /\ logs \in [Sessions -> Seq(Verbs)]
        /\ known \in SUBSET Registrations
    BY <1>1, <1>2, FieldTypes
  <1>4. SaveLaunch(st, s, launch, t) = st5
    BY DEF SaveLaunch, opened
  <1> HIDE DEF launches, access, replay, logs, known
  <1>5. st1 \in States
    BY <1>3, FieldUpdates
  <1>6. st2 \in States
    BY <1>3, <1>5, FieldUpdates
  <1>7. st3 \in States
    BY <1>3, <1>6, FieldUpdates
  <1>8. st4 \in States
    BY <1>3, <1>7, FieldUpdates
  <1>9. st5 \in States
    BY <1>3, <1>8, FieldUpdates
  <1> QED BY <1>4, <1>9

LEMMA ConsumeFetchTokenType ==
  ASSUME NEW st \in States, NEW s \in Sessions, NEW token \in TokenValues, NEW t \in Times
  PROVE  ConsumeFetchToken(st, s, token, t) \in States
  <1> DEFINE used   == [st.access[s] EXCEPT !.consumed = TRUE, !.token = token, !.authExpires = t + AuthTtl]
             access == [st.access EXCEPT ![s] = used]
             replay == [st.replay EXCEPT ![s] = {}]
             st1    == [st EXCEPT !.access = access]
  <1>1. st.access[s] \in Accesses
    BY FieldTypes
  <1>2. used \in Accesses
    <2>1. t + AuthTtl \in Stamps(AuthTtl)
      BY TimeAssumption DEF Stamps, Times
    <2> QED BY <1>1, <2>1 DEF Accesses
  <1>3. ConsumeFetchToken(st, s, token, t) = [st1 EXCEPT !.replay = replay]
    BY DEF ConsumeFetchToken
  <1> HIDE DEF used
  <1>4. access \in [Sessions -> Accesses] /\ replay \in [Sessions -> SUBSET RequestIds]
    BY <1>2, FieldTypes
  <1> HIDE DEF access, replay
  <1>5. st1 \in States
    BY <1>4, FieldUpdates
  <1> HIDE DEF st1
  <1> QED BY <1>3, <1>4, <1>5, FieldUpdates

LEMMA WaiveType ==
  ASSUME NEW st \in States, NEW r \in Registrations, NEW t \in Times
  PROVE  Waive(st, r, t) \in States
  <1> DEFINE waived == [st.waived EXCEPT ![r] = t]
  <1>1. waived \in [Registrations -> Stamps(0)]
    BY FieldTypes, TimeAssumption DEF Stamps, Times
  <1>2. Waive(st, r, t) = [st EXCEPT !.waived = waived]
    BY DEF Waive
  <1> QED BY <1>1, <1>2, FieldUpdates

LEMMA AbandonType ==
  ASSUME NEW st \in States, NEW s \in Sessions, NEW t \in Times
  PROVE  Abandon(st, s, t) \in States
  <1> DEFINE closed == [st.access[s] EXCEPT !.authExpires = t]
             access == [st.access EXCEPT ![s] = closed]
             gone   == st.abandoned \union {s}
             st1    == [st EXCEPT !.abandoned = gone]
  <1>1. st.access[s] \in Accesses
    BY FieldTypes
  <1>2. closed \in Accesses
    BY <1>1, TimeAssumption DEF Accesses, Stamps, Times
  <1>3. Abandon(st, s, t) = [st1 EXCEPT !.access = access]
    BY DEF Abandon
  <1> HIDE DEF closed
  <1>4. access \in [Sessions -> Accesses] /\ gone \in SUBSET Sessions
    BY <1>2, FieldTypes
  <1> HIDE DEF access, gone
  <1>5. st1 \in States
    BY <1>4, FieldUpdates
  <1> HIDE DEF st1
  <1> QED BY <1>3, <1>4, <1>5, FieldUpdates

(***************************************************************************)
(* The effects a step can have on the maps and on what callers hold.       *)
(* Whether a call was answered or cut off, they are these and no others.   *)
(***************************************************************************)

FileHoldsState == mem = Load(disk)

Settled == /\ mem' = Load(disk')
           /\ disk' \in [readable : BOOLEAN, snapshot : States]
           /\ mem' \in States

Unnoticed == UNCHANGED <<holding, served>>

KeepEffect == mem' = mem /\ Unnoticed
LossEffect == TornWrites /\ mem' = EmptyState /\ Unnoticed

ImportEffect(p) == mem' = [mem EXCEPT !.packages = @ \union {p}] /\ Unnoticed

LaunchEffect(s, launch) ==
    /\ s \notin mem.abandoned
    /\ mem' = SaveLaunch(mem, s, launch, now)
    /\ Unnoticed

Fresh(s) == Token(s, issued[s] + 1)

FetchEffect(s) ==
    /\ Launched(mem, s)
    /\ mem' = ConsumeFetchToken(mem, s, Fresh(s), now)
    /\ issued' = [issued EXCEPT ![s] = @ + 1]
    /\ holding' \in {holding, holding \union {[token |-> Fresh(s), round |-> mem.launches[s].round]}}
    /\ UNCHANGED served

Acknowledges(s, id) ==
    /\ UNCHANGED holding
    /\ \/ UNCHANGED served
       \/ /\ id \in RequestIds
          /\ mem.access[s].token # NoToken
          /\ served' = served \union {[token |-> mem.access[s].token, id |-> id]}

NoteEffect(s, id) ==
    /\ mem' = RecordReplay(mem, s, id)
    /\ Acknowledges(s, id)

LogEffect(s, id, v) ==
    /\ Launched(mem, s)
    /\ s \notin mem.abandoned
    /\ AcceptsVerb(mem.launches[s].moveOn, mem.statements[s], v)
    /\ mem' = AppendStatement(RecordReplay(mem, s, id), s, v)
    /\ Acknowledges(s, id)

WaiveEffect(r) == mem.waived[r] = Never /\ mem' = Waive(mem, r, now) /\ Unnoticed
AbandonEffect(s) == mem' = Abandon(mem, s, now) /\ Unnoticed

LEMMA StateType ==
  ASSUME AdapterTypeOK
  PROVE  mem \in States /\ now \in Times /\ disk \in [readable : BOOLEAN, snapshot : States]
  BY DEF AdapterTypeOK

LEMMA ImportEffects ==
  ASSUME AdapterTypeOK, FileHoldsState, NEW p \in Packages, NEW u,
         ImportCall([package |-> p, upload |-> u])
  PROVE  Settled /\ (KeepEffect \/ LossEffect \/ ImportEffect(p))
  <1> DEFINE q     == [package |-> p, upload |-> u]
             h     == PackageImport(mem, q)
             saved == [mem EXCEPT !.packages = @ \union {p}]
  <1>1. mem.packages \union {p} \in SUBSET Packages /\ mem \in States
    BY FieldTypes, StateType
  <1>2. saved \in States
    BY <1>1, FieldUpdates
  <1>3. h = IF PackageAccepted(u) THEN Accept(Ok, saved, <<saved>>) ELSE Refuse(400, mem, <<>>)
    <2>1. q.package = p /\ q.upload = u
      OBVIOUS
    <2> HIDE DEF q
    <2> QED BY <2>1, Zenon DEF PackageImport
  <1> HIDE DEF saved
  <1>4. (Answer(h) \/ Crash(h)) /\ Unnoticed
    BY DEF ImportCall, Unnoticed
  <1> HIDE DEF h
  <1>5. Gives(h, mem, {}) \/ Gives(h, mem, {saved})
    BY <1>1, <1>2, <1>3, RefusedUnread, AcceptedOnce, Zenon
  <1>6. Settled /\ (mem' = mem \/ Lost \/ mem' \in Written(h))
    BY <1>4, <1>5, CallSettles, StateType DEF Gives, Settled, FileHoldsState
  <1> QED BY <1>4, <1>5, <1>6 DEF Gives, KeepEffect, LossEffect, ImportEffect, Lost, saved

LEMMA LaunchEffects ==
  ASSUME AdapterTypeOK, FileHoldsState,
         NEW p, NEW s \in Sessions, NEW r \in Registrations, NEW m \in MoveOns, NEW f,
         LaunchCall([package |-> p, session |-> s, registration |-> r, moveOn |-> m, flaw |-> f])
  PROVE  /\ Settled
         /\ \/ KeepEffect \/ LossEffect
            \/ \E launch \in LaunchRecords : LaunchEffect(s, launch)
  <1> DEFINE q      == [package |-> p, session |-> s, registration |-> r, moveOn |-> m, flaw |-> f]
             h      == LaunchCreate(mem, q, now)
             launch == [registration |-> r, moveOn |-> m, round |-> rounds[s] + 1]
             saved  == SaveLaunch(mem, s, launch, now)
  <1>1. mem \in States /\ now \in Times /\ rounds[s] \in Nat
    BY StateType DEF AdapterTypeOK
  <1>2. launch \in LaunchRecords
    BY <1>1, MoveOnsAssumption DEF LaunchRecords, Launches, NoLaunch
  <1>3. saved \in States
    BY <1>1, <1>2, SaveLaunchType
  <1>4. LaunchStatus(mem, q) = 200 => s \notin mem.abandoned
    BY DEF LaunchStatus
  <1>5. \/ h = Refuse(LaunchStatus(mem, q), mem, <<>>)
        \/ /\ LaunchStatus(mem, q) = 200
           /\ \E body : h = Accept(body, saved, <<saved>>)
    <2> DEFINE body == [status |-> 200, session |-> s, registration |-> r, moveOn |-> m, waivedAt |-> mem.waived[r]]
    <2>1. q.session = s /\ q.registration = r /\ q.moveOn = m
      OBVIOUS
    <2> HIDE DEF q
    <2>2. h = IF LaunchStatus(mem, q) = 200
              THEN Accept(body, saved, <<saved>>) ELSE Refuse(LaunchStatus(mem, q), mem, <<>>)
      BY <2>1 DEF LaunchCreate
    <2> HIDE DEF h, launch, saved, body
    <2>3. CASE LaunchStatus(mem, q) = 200
      BY <2>2, <2>3
    <2>4. CASE LaunchStatus(mem, q) # 200
      BY <2>2, <2>4
    <2> QED BY <2>3, <2>4
  <1>6. (Answer(h) \/ Crash(h)) /\ Unnoticed
    BY DEF LaunchCall, Unnoticed
  <1> HIDE DEF h, q, launch, saved
  <1>7. Gives(h, mem, {}) \/ (Gives(h, mem, {saved}) /\ s \notin mem.abandoned)
    <2>1. CASE h = Refuse(LaunchStatus(mem, q), mem, <<>>)
      BY <1>1, <2>1, RefusedUnread, Zenon
    <2>2. ASSUME NEW body, h = Accept(body, saved, <<saved>>)
          PROVE  Gives(h, mem, {saved})
      BY <1>3, <2>2, AcceptedOnce, Zenon
    <2> QED BY <1>4, <1>5, <2>1, <2>2
  <1>8. Settled /\ (mem' = mem \/ Lost \/ mem' \in Written(h))
    BY <1>6, <1>7, CallSettles, StateType DEF Gives, Settled, FileHoldsState
  <1> QED BY <1>2, <1>6, <1>7, <1>8 DEF Gives, KeepEffect, LossEffect, LaunchEffect, Lost, saved

LEMMA FetchEffects ==
  ASSUME AdapterTypeOK, FileHoldsState, NEW s \in Sessions, NEW x \in Sessions,
         FetchCall([session |-> s, token |-> x])
  PROVE  Settled /\ (KeepEffect \/ LossEffect \/ FetchEffect(s))
  <1> DEFINE q     == [session |-> s, token |-> x]
             h     == Fetch(mem, q, now)
             saved == ConsumeFetchToken(mem, s, Fresh(s), now)
             key   == [token |-> Fresh(s), round |-> mem.launches[s].round]
  <1>1. mem \in States /\ now \in Times /\ issued[s] \in Nat
    BY StateType DEF AdapterTypeOK
  <1>2. Fresh(s) \in TokenValues
    BY <1>1 DEF Fresh, Token, TokenValues
  <1>3. saved \in States /\ saved.access[s].token = Fresh(s)
    <2>1. s \in DOMAIN mem.access /\ mem.access[s] \in Accesses
      BY <1>1, FieldTypes
    <2>2. [mem.access[s] EXCEPT !.consumed = TRUE, !.token = Fresh(s), !.authExpires = now + AuthTtl].token = Fresh(s)
      BY <2>1 DEF Accesses
    <2> QED BY <1>1, <1>2, <2>1, <2>2, ConsumeFetchTokenType DEF ConsumeFetchToken, States
  <1>4. \/ \E code : code # 200 /\ h = Refuse(code, mem, <<>>)
        \/ Launched(mem, s) /\ h = Accept([status |-> 200, token |-> Fresh(s)], saved, <<saved>>)
    <2>1. q.session = s /\ q.token = x /\ FetchStatus(mem, s, now) \in {409, 403, 200}
      BY DEF FetchStatus
    <2> HIDE DEF q
    <2> QED BY <2>1, SessionsAssumption DEF Fetch, Fresh
  <1>5. q.session = s
    OBVIOUS
  <1>6. FetchCall(q)
    OBVIOUS
  <1> HIDE DEF h, q, saved
  <1>7. CASE \E code : code # 200 /\ h = Refuse(code, mem, <<>>)
    <2>1. Gives(h, mem, {}) /\ ~Accepted(h)
      BY <1>1, <1>7, RefusedUnread DEF Accepted, Refuse
    <2>2. (Answer(h) \/ Crash(h)) /\ Unnoticed
      BY <1>6, <2>1 DEF FetchCall, Unnoticed, h
    <2> QED BY <2>1, <2>2, CallSettles, StateType DEF Gives, Settled, FileHoldsState, KeepEffect, LossEffect, Lost
  <1>8. CASE Launched(mem, s) /\ h = Accept([status |-> 200, token |-> Fresh(s)], saved, <<saved>>)
    <2>1. Gives(h, mem, {saved})
      BY <1>3, <1>8, AcceptedOnce
    <2>2. Accepted(h) /\ h.reply.token = Fresh(s) /\ h.after = saved
      BY <1>8 DEF Accepted, Accept
    <2>3. /\ (Answer(h) /\ holding' = holding \union {key}) \/ (Crash(h) /\ UNCHANGED holding)
          /\ UNCHANGED served
          /\ mem'.access[s].token = Fresh(s) => issued' = [issued EXCEPT ![s] = @ + 1]
      BY <1>5, <1>6, <2>2 DEF FetchCall, h, Fresh
    <2>4. Settled /\ (mem' = mem \/ Lost \/ mem' = saved)
      BY <2>1, <2>3, CallSettles, StateType DEF Gives, Settled, FileHoldsState
    <2>5. CASE Answer(h)
      BY <1>3, <1>8, <2>2, <2>3, <2>4, <2>5 DEF Answer, FetchEffect, saved
    <2>6. CASE Crash(h) /\ UNCHANGED holding
      BY <1>3, <1>8, <2>3, <2>4, <2>6 DEF FetchEffect, KeepEffect, LossEffect, Lost, Unnoticed, saved
    <2> QED BY <2>3, <2>5, <2>6
  <1> QED BY <1>4, <1>7, <1>8

(* A token that opens session s is the one recorded for it.               *)
LEMMA AuthorizedToken ==
  ASSUME NEW st, NEW token, NEW s, NEW t, AuthStatus(st, token, s, t) = 200
  PROVE  s \in Sessions /\ st.access[s].token = token /\ token # NoToken /\ s \notin st.abandoned
  BY DEF AuthStatus

LEMMA AuthStatuses ==
  ASSUME NEW st, NEW token, NEW s, NEW t
  PROVE  AuthStatus(st, token, s, t) \in {200, 401, 403}
  BY DEF AuthStatus

LEMMA LaunchDataEffects ==
  ASSUME AdapterTypeOK, FileHoldsState,
         NEW s \in Sessions, NEW k, NEW id \in RequestIds \union {NoId},
         LaunchDataCall([session |-> s, token |-> k, id |-> id])
  PROVE  Settled /\ (KeepEffect \/ LossEffect \/ NoteEffect(s, id))
  <1> DEFINE q     == [session |-> s, token |-> k, id |-> id]
             h     == LaunchData(mem, q, now)
             noted == RecordReplay(mem, s, id)
  <1>1. mem \in States /\ noted \in States
    BY StateType, RecordReplayType
  <1>2. q.session = s /\ q.token = k /\ q.id = id /\ LaunchDataCall(q)
    OBVIOUS
  <1> HIDE DEF q
  <1>3. \/ \E code : code # 200 /\ (h = Refuse(code, mem, <<>>) \/ h = Refuse(code, mem, <<mem>>))
        \/ /\ AuthStatus(mem, k, s, now) = 200
           /\ \E body : body.status = 200 /\ h = Accept(body, noted, <<mem, noted>>)
    BY <1>2, AuthStatuses DEF LaunchData
  <1>4. /\ (Answer(h) /\ ((Accepted(h) /\ id # NoId) \/ UNCHANGED served)) \/ (Crash(h) /\ UNCHANGED served)
        /\ UNCHANGED holding
        /\ served' # served => served' = served \union {FirstOf(q)}
    BY <1>2 DEF LaunchDataCall
  <1> HIDE DEF h, noted
  <1>5. CASE \E code : code # 200 /\ (h = Refuse(code, mem, <<>>) \/ h = Refuse(code, mem, <<mem>>))
    <2>1. Gives(h, mem, {}) \/ Gives(h, mem, {mem})
      BY <1>1, <1>5, RefusedUnread, RefusedOnce, Zenon
    <2>2. ~Accepted(h)
      BY <1>5 DEF Accepted, Refuse
    <2>3. (Answer(h) \/ Crash(h)) /\ Unnoticed
      BY <1>4, <2>2 DEF Unnoticed
    <2> QED BY <2>1, <2>3, CallSettles, StateType DEF Gives, Settled, FileHoldsState, KeepEffect, LossEffect, Lost
  <1>6. ASSUME NEW body, body.status = 200, h = Accept(body, noted, <<mem, noted>>), AuthStatus(mem, k, s, now) = 200
        PROVE  Settled /\ (KeepEffect \/ LossEffect \/ NoteEffect(s, id))
    <2>1. Gives(h, mem, {mem, noted})
      BY <1>1, <1>6, AcceptedTwice, Zenon
    <2>2. h.after = noted
      BY <1>6 DEF Accept
    <2>3. Settled /\ (mem' = mem \/ Lost \/ mem' = noted)
      BY <1>4, <2>1, CallSettles, StateType DEF Gives, Settled, FileHoldsState
    <2>4. CASE UNCHANGED served
      BY <1>4, <2>3, <2>4 DEF NoteEffect, Acknowledges, KeepEffect, LossEffect, Lost, Unnoticed, noted
    <2>5. CASE served' # served
      <3>1. mem' = noted /\ id \in RequestIds
        BY <1>4, <2>2, <2>5 DEF Answer
      <3>2. mem.access[s].token = k /\ k # NoToken
        BY <1>6, AuthorizedToken
      <3>3. served' = served \union {[token |-> k, id |-> id]}
        BY <1>2, <1>4, <2>5 DEF FirstOf
      <3> QED BY <1>4, <2>3, <3>1, <3>2, <3>3 DEF NoteEffect, Acknowledges, noted
    <2> QED BY <2>4, <2>5
  <1> QED BY <1>3, <1>5, <1>6

LEMMA StatementEffects ==
  ASSUME AdapterTypeOK, FileHoldsState,
         NEW s \in Sessions, NEW r, NEW v \in Verbs, NEW k, NEW id \in RequestIds \union {NoId},
         StatementCall([session |-> s, registration |-> r, verb |-> v, token |-> k, id |-> id])
  PROVE  Settled /\ (KeepEffect \/ LossEffect \/ NoteEffect(s, id) \/ LogEffect(s, id, v))
  <1> DEFINE q      == [session |-> s, registration |-> r, verb |-> v, token |-> k, id |-> id]
             h      == PostStatement(mem, q, now)
             noted  == RecordReplay(mem, s, id)
             logged == AppendStatement(noted, s, v)
             Fits   == /\ Launched(mem, s)
                       /\ AuthStatus(mem, k, s, now) = 200
                       /\ s \notin mem.abandoned
                       /\ AcceptsVerb(mem.launches[s].moveOn, mem.statements[s], v)
  <1>1. mem \in States /\ noted \in States /\ logged \in States
    BY StateType, RecordReplayType, AppendStatementType
  <1>2. q.session = s /\ q.token = k /\ q.id = id /\ q.verb = v /\ StatementCall(q)
    OBVIOUS
  <1> HIDE DEF q
  <1>3. \/ \E code : code # 200 /\ (h = Refuse(code, mem, <<>>) \/ h = Refuse(code, mem, <<mem>>))
        \/ h = Refuse(409, noted, <<mem, noted>>)
        \/ Fits /\ h = Accept(Ok, logged, <<mem, noted, logged>>)
    BY <1>2, AuthStatuses DEF PostStatement
  <1>4. /\ (Answer(h) /\ ((Accepted(h) /\ id # NoId) \/ UNCHANGED served)) \/ (Crash(h) /\ UNCHANGED served)
        /\ UNCHANGED holding
        /\ served' # served => served' = served \union {FirstOf(q)}
    BY <1>2 DEF StatementCall
  <1> HIDE DEF h, noted, logged
  <1>5. CASE \E code : code # 200 /\ (h = Refuse(code, mem, <<>>) \/ h = Refuse(code, mem, <<mem>>))
    <2>1. Gives(h, mem, {}) \/ Gives(h, mem, {mem})
      BY <1>1, <1>5, RefusedUnread, RefusedOnce, Zenon
    <2>2. ~Accepted(h)
      BY <1>5 DEF Accepted, Refuse
    <2>3. (Answer(h) \/ Crash(h)) /\ Unnoticed
      BY <1>4, <2>2 DEF Unnoticed
    <2> QED BY <2>1, <2>3, CallSettles, StateType DEF Gives, Settled, FileHoldsState, KeepEffect, LossEffect, Lost
  <1>6. CASE h = Refuse(409, noted, <<mem, noted>>)
    <2>1. Gives(h, mem, {mem, noted})
      BY <1>1, <1>6, RefusedTwice, Zenon
    <2>2. ~Accepted(h)
      BY <1>6 DEF Accepted, Refuse
    <2>3. (Answer(h) \/ Crash(h)) /\ Unnoticed
      BY <1>4, <2>2 DEF Unnoticed
    <2>4. Settled /\ (mem' = mem \/ Lost \/ mem' = noted)
      BY <2>1, <2>3, CallSettles, StateType DEF Gives, Settled, FileHoldsState
    <2> QED BY <2>3, <2>4 DEF NoteEffect, Acknowledges, KeepEffect, LossEffect, Lost, Unnoticed, noted
  <1>7. CASE Fits /\ h = Accept(Ok, logged, <<mem, noted, logged>>)
    <2>1. Gives(h, mem, {mem, noted, logged})
      BY <1>1, <1>7, AcceptedThrice, Zenon
    <2>2. h.after = logged
      BY <1>7 DEF Accept
    <2>3. Settled /\ (mem' = mem \/ Lost \/ mem' = noted \/ mem' = logged)
      BY <1>4, <2>1, CallSettles, StateType DEF Gives, Settled, FileHoldsState
    <2>4. CASE UNCHANGED served
      <3>1. Acknowledges(s, id) /\ Unnoticed
        BY <1>4, <2>4 DEF Acknowledges, Unnoticed
      <3> QED BY <1>7, <2>3, <3>1 DEF LogEffect, NoteEffect, KeepEffect, LossEffect, Lost, noted, logged
    <2>5. CASE served' # served
      <3>1. mem' = logged /\ id \in RequestIds
        BY <1>4, <2>2, <2>5 DEF Answer
      <3>2. mem.access[s].token = k /\ k # NoToken
        BY <1>7, AuthorizedToken
      <3>3. served' = served \union {[token |-> k, id |-> id]}
        BY <1>2, <1>4, <2>5 DEF FirstOf
      <3> QED BY <1>4, <1>7, <2>3, <3>1, <3>2, <3>3 DEF LogEffect, Acknowledges, noted, logged
    <2> QED BY <2>4, <2>5
  <1> QED BY <1>3, <1>5, <1>6, <1>7

LEMMA StatementsEffects ==
  ASSUME AdapterTypeOK, FileHoldsState, NEW s \in Sessions, NEW k,
         StatementsCall([session |-> s, token |-> k])
  PROVE  Settled /\ (KeepEffect \/ LossEffect)
  <1> DEFINE h == GetStatements(mem, [session |-> s, token |-> k], now)
  <1>1. mem \in States
    BY StateType
  <1>2. \/ \E code : h = Refuse(code, mem, <<>>)
        \/ \E body : h = Accept(body, mem, <<mem>>)
    BY DEF GetStatements
  <1>3. (Answer(h) \/ Crash(h)) /\ Unnoticed
    BY DEF StatementsCall, Unnoticed
  <1> HIDE DEF h
  <1>4. Gives(h, mem, {}) \/ Gives(h, mem, {mem})
    BY <1>1, <1>2, RefusedUnread, AcceptedOnce, Zenon
  <1> QED BY <1>3, <1>4, CallSettles, StateType DEF Gives, Settled, FileHoldsState, KeepEffect, LossEffect, Lost

LEMMA WaiveEffects ==
  ASSUME AdapterTypeOK, FileHoldsState, NEW r \in Registrations, WaiveCall([registration |-> r])
  PROVE  Settled /\ (KeepEffect \/ LossEffect \/ WaiveEffect(r))
  <1> DEFINE h     == WaiveRegistration(mem, [registration |-> r], now)
             saved == Waive(mem, r, now)
  <1>1. mem \in States /\ saved \in States
    BY StateType, WaiveType
  <1>2. \/ \E code : h = Refuse(code, mem, <<>>)
        \/ \E body : h = Accept(body, mem, <<>>)
        \/ mem.waived[r] = Never /\ \E body : h = Accept(body, saved, <<saved>>)
    BY DEF WaiveRegistration
  <1>3. (Answer(h) \/ Crash(h)) /\ Unnoticed
    BY DEF WaiveCall, Unnoticed
  <1> HIDE DEF h, saved
  <1>4. Gives(h, mem, {}) \/ (Gives(h, mem, {saved}) /\ mem.waived[r] = Never)
    BY <1>1, <1>2, RefusedUnread, AcceptedUnwritten, AcceptedOnce, Zenon
  <1>5. Settled /\ (mem' = mem \/ Lost \/ mem' \in Written(h))
    BY <1>3, <1>4, CallSettles, StateType DEF Gives, Settled, FileHoldsState
  <1> QED BY <1>3, <1>4, <1>5 DEF Gives, KeepEffect, LossEffect, WaiveEffect, Lost, saved

LEMMA AbandonEffects ==
  ASSUME AdapterTypeOK, FileHoldsState, NEW s \in Sessions, AbandonCall([session |-> s])
  PROVE  Settled /\ (KeepEffect \/ LossEffect \/ AbandonEffect(s))
  <1> DEFINE h     == AbandonSession(mem, [session |-> s], now)
             saved == Abandon(mem, s, now)
  <1>1. mem \in States /\ saved \in States
    BY StateType, AbandonType
  <1>2. (\E code : h = Refuse(code, mem, <<>>)) \/ h = Accept(Ok, saved, <<saved>>)
    BY DEF AbandonSession
  <1>3. (Answer(h) \/ Crash(h)) /\ Unnoticed
    BY DEF AbandonCall, Unnoticed
  <1> HIDE DEF h, saved
  <1>4. Gives(h, mem, {}) \/ Gives(h, mem, {saved})
    BY <1>1, <1>2, RefusedUnread, AcceptedOnce, Zenon
  <1>5. Settled /\ (mem' = mem \/ Lost \/ mem' \in Written(h))
    BY <1>3, <1>4, CallSettles, StateType DEF Gives, Settled, FileHoldsState
  <1> QED BY <1>3, <1>4, <1>5 DEF Gives, KeepEffect, LossEffect, AbandonEffect, Lost, saved

Effects ==
    \/ KeepEffect
    \/ LossEffect
    \/ \E p \in Packages : ImportEffect(p)
    \/ \E s \in Sessions, launch \in LaunchRecords : LaunchEffect(s, launch)
    \/ \E s \in Sessions : FetchEffect(s)
    \/ \E s \in Sessions, id \in RequestIds \union {NoId} : NoteEffect(s, id)
    \/ \E s \in Sessions, id \in RequestIds \union {NoId}, v \in Verbs : LogEffect(s, id, v)
    \/ \E r \in Registrations : WaiveEffect(r)
    \/ \E s \in Sessions : AbandonEffect(s)

CountersGrow ==
    /\ now' \in Times
    /\ rounds' \in [Sessions -> Nat]
    /\ issued' \in [Sessions -> Nat]
    /\ \A s \in Sessions : issued'[s] >= issued[s]

LEMMA StepEffects ==
  ASSUME AdapterTypeOK, FileHoldsState, [AdapterNext]_adapterVars
  PROVE  Settled /\ Effects
  <1> USE DEF Effects
  <1>1. CASE AnyImport
    BY <1>1, ImportEffects DEF AnyImport
  <1>2. CASE AnyLaunch
    BY <1>2, LaunchEffects DEF AnyLaunch
  <1>3. CASE AnyFetch
    BY <1>3, FetchEffects DEF AnyFetch
  <1>4. CASE AnyStatement
    BY <1>4, StatementEffects DEF AnyStatement
  <1>5. CASE AnyLaunchData
    BY <1>5, LaunchDataEffects DEF AnyLaunchData
  <1>6. CASE AnyStatements
    BY <1>6, StatementsEffects DEF AnyStatements
  <1>7. CASE AnyWaive
    BY <1>7, WaiveEffects DEF AnyWaive
  <1>8. CASE AnyAbandon
    BY <1>8, AbandonEffects DEF AnyAbandon
  <1>9. CASE ReloadCall
    BY <1>9, StateType DEF ReloadCall, Settled, FileHoldsState, KeepEffect, Unnoticed
  <1>10. CASE Clock \/ UNCHANGED adapterVars
    BY <1>10, StateType DEF Clock, adapterVars, Settled, FileHoldsState, KeepEffect, Unnoticed
  <1> QED
    BY <1>1, <1>2, <1>3, <1>4, <1>5, <1>6, <1>7, <1>8, <1>9, <1>10 DEF AdapterNext

LEMMA StepCounters ==
  ASSUME AdapterTypeOK, [AdapterNext]_adapterVars
  PROVE  CountersGrow
  <1>1. now \in Times /\ issued \in [Sessions -> Nat] /\ rounds \in [Sessions -> Nat]
    BY DEF AdapterTypeOK
  <1>2. CASE UNCHANGED <<now, issued, rounds>>
    BY <1>1, <1>2 DEF CountersGrow
  <1>3. CASE AnyLaunch
    <2>1. PICK p \in Packages, s \in Sessions, r \in Registrations, m \in MoveOns, f \in {"none", "field"} :
            LaunchCall([package |-> p, session |-> s, registration |-> r, moveOn |-> m, flaw |-> f])
      BY <1>3 DEF AnyLaunch
    <2>2. UNCHANGED <<now, issued>> /\ rounds' \in {rounds, [rounds EXCEPT ![s] = @ + 1]}
      BY <2>1 DEF LaunchCall
    <2> QED BY <1>1, <2>2 DEF CountersGrow
  <1>4. CASE AnyFetch
    <2>1. PICK s \in Sessions, x \in Sessions : FetchCall([session |-> s, token |-> x])
      BY <1>4 DEF AnyFetch
    <2>2. UNCHANGED <<now, rounds>> /\ issued' \in {issued, [issued EXCEPT ![s] = @ + 1]}
      BY <2>1 DEF FetchCall
    <2> QED BY <1>1, <2>2 DEF CountersGrow
  <1>5. CASE Clock
    BY <1>1, <1>5 DEF CountersGrow, Clock
  <1>6. ASSUME NEW q, ImportCall(q) PROVE UNCHANGED <<now, issued, rounds>>
    BY <1>6 DEF ImportCall
  <1>7. ASSUME NEW q, StatementCall(q) PROVE UNCHANGED <<now, issued, rounds>>
    BY <1>7 DEF StatementCall
  <1>8. ASSUME NEW q, LaunchDataCall(q) PROVE UNCHANGED <<now, issued, rounds>>
    BY <1>8 DEF LaunchDataCall
  <1>9. ASSUME NEW q, StatementsCall(q) PROVE UNCHANGED <<now, issued, rounds>>
    BY <1>9 DEF StatementsCall
  <1>10. ASSUME NEW q, WaiveCall(q) PROVE UNCHANGED <<now, issued, rounds>>
    BY <1>10 DEF WaiveCall
  <1>11. ASSUME NEW q, AbandonCall(q) PROVE UNCHANGED <<now, issued, rounds>>
    BY <1>11 DEF AbandonCall
  <1>12. CASE ReloadCall \/ UNCHANGED adapterVars
    BY <1>2, <1>12 DEF ReloadCall, adapterVars
  <1> QED
    BY <1>2, <1>3, <1>4, <1>5, <1>6, <1>7, <1>8, <1>9, <1>10, <1>11, <1>12
    DEF AdapterNext, AnyImport, AnyStatement, AnyLaunchData, AnyStatements, AnyWaive, AnyAbandon

(***************************************************************************)
(* Type correctness, and the file                                          *)
(***************************************************************************)

Sound == AdapterTypeOK /\ FileHoldsState

LEMMA InitSound == AdapterInit => Sound
  <1> SUFFICES ASSUME AdapterInit PROVE Sound
    OBVIOUS
  <1>1. mem = EmptyState /\ disk = NoFile /\ mem = Load(disk)
    BY DEF AdapterInit, Load, NoFile
  <1>2. disk \in [readable : BOOLEAN, snapshot : States]
    BY <1>1, EmptyStateType DEF NoFile
  <1>3. now \in Times /\ issued \in [Sessions -> Nat] /\ rounds \in [Sessions -> Nat]
    BY TimeAssumption DEF AdapterInit, Times
  <1> QED BY <1>1, <1>2, <1>3, EmptyStateType DEF AdapterInit, Sound, AdapterTypeOK, FileHoldsState

LEMMA LaunchedRecord ==
  ASSUME NEW st \in States, NEW s, Launched(st, s)
  PROVE  s \in Sessions /\ st.launches[s] \in LaunchRecords /\ st.launches[s].round \in Nat \ {0}
  BY FieldTypes DEF Launched, LaunchRecords, Launches

LEMMA StepSound ==
  ASSUME Sound, [AdapterNext]_adapterVars
  PROVE  Sound'
  <1>1. AdapterTypeOK /\ FileHoldsState /\ Settled /\ Effects /\ CountersGrow
    BY StepEffects, StepCounters DEF Sound
  <1>2. /\ mem \in States
        /\ issued \in [Sessions -> Nat]
        /\ holding \subseteq [token : TokenValues, round : Nat \ {0}]
        /\ served \subseteq [token : TokenValues, id : RequestIds]
    BY <1>1 DEF AdapterTypeOK
  <1>3. holding' \subseteq [token : TokenValues, round : Nat \ {0}]
    <2>1. ASSUME NEW s \in Sessions, FetchEffect(s)
          PROVE  holding' \subseteq [token : TokenValues, round : Nat \ {0}]
      <3>1. Fresh(s) \in TokenValues
        BY <1>2 DEF Fresh, Token, TokenValues
      <3>2. mem.launches[s].round \in Nat \ {0}
        BY <1>2, <2>1, LaunchedRecord DEF FetchEffect
      <3> QED BY <1>2, <2>1, <3>1, <3>2 DEF FetchEffect
    <2>2. (\E s \in Sessions : FetchEffect(s)) \/ UNCHANGED holding
      BY <1>1 DEF Effects, KeepEffect, LossEffect, ImportEffect, LaunchEffect, NoteEffect, LogEffect,
                  WaiveEffect, AbandonEffect, Acknowledges, Unnoticed
    <2> QED BY <1>2, <2>1, <2>2
  <1>4. served' \subseteq [token : TokenValues, id : RequestIds]
    <2>1. ASSUME NEW s \in Sessions, NEW id, Acknowledges(s, id)
          PROVE  served' \subseteq [token : TokenValues, id : RequestIds]
      <3>1. mem.access[s].token \in TokenValues
        BY <1>2, FieldTypes DEF Accesses
      <3> QED BY <1>2, <2>1, <3>1 DEF Acknowledges
    <2>2. (\E s \in Sessions, id \in RequestIds \union {NoId} : Acknowledges(s, id)) \/ UNCHANGED served
      BY <1>1 DEF Effects, KeepEffect, LossEffect, ImportEffect, LaunchEffect, FetchEffect, NoteEffect,
                  LogEffect, WaiveEffect, AbandonEffect, Unnoticed
    <2> QED BY <1>2, <2>1, <2>2
  <1> QED BY <1>1, <1>3, <1>4 DEF Sound, AdapterTypeOK, FileHoldsState, Settled, CountersGrow

\* Whatever is called, wherever the process stops and however the clock moves,
\* the maps, the state file and what callers hold have their types
\* (cmi5-state.ts).
THEOREM AdapterTypeCorrect == AdapterSpec => []AdapterTypeOK
  <1>1. Sound => AdapterTypeOK
    BY DEF Sound
  <1>2. Sound /\ [AdapterNext]_adapterVars => Sound'
    BY StepSound
  <1> QED BY InitSound, <1>1, <1>2, PTL DEF AdapterSpec

\* No route leaves in memory what the next restart would undo: a readable
\* state file is the state (cmi5-state.ts, writeStateToDisk).
THEOREM FileStaysMemory == AdapterSpec => []FileIsMemory
  <1>1. Sound => FileIsMemory
    BY DEF Sound, FileHoldsState, Load, FileIsMemory
  <1>2. Sound /\ [AdapterNext]_adapterVars => Sound'
    BY StepSound
  <1> QED BY InitSound, <1>1, <1>2, PTL DEF AdapterSpec

(***************************************************************************)
(* What the helpers leave alone                                            *)
(***************************************************************************)

LEMMA RecordReplayFields ==
  ASSUME NEW st \in States, NEW s \in Sessions, NEW id \in RequestIds \union {NoId},
         NEW after, after = RecordReplay(st, s, id)
  PROVE  /\ after.access = st.access
         /\ after.launches = st.launches
         /\ after.statements = st.statements
         /\ after.abandoned = st.abandoned
         /\ after.waived = st.waived
         /\ \A x \in Sessions : st.replay[x] \subseteq after.replay[x]
         /\ id \in RequestIds => id \in after.replay[s]
  BY FieldTypes, RequestIdsAssumption DEF RecordReplay, States

LEMMA AppendStatementFields ==
  ASSUME NEW st \in States, NEW s \in Sessions, NEW v,
         NEW after, after = AppendStatement(st, s, v)
  PROVE  /\ after.access = st.access
         /\ after.launches = st.launches
         /\ after.replay = st.replay
         /\ after.abandoned = st.abandoned
         /\ after.waived = st.waived
         /\ after.statements[s] = Append(st.statements[s], v)
         /\ \A x \in Sessions \ {s} : after.statements[x] = st.statements[x]
  BY FieldTypes DEF AppendStatement, States

LEMMA SaveLaunchFields ==
  ASSUME NEW st \in States, NEW s \in Sessions, NEW launch, NEW t,
         NEW after, after = SaveLaunch(st, s, launch, t)
  PROVE  /\ after.launches[s] = launch
         /\ after.statements[s] = <<>>
         /\ after.replay[s] = {}
         /\ after.access[s].token = NoToken
         /\ \A x \in Sessions \ {s} : /\ after.launches[x] = st.launches[x]
                                      /\ after.statements[x] = st.statements[x]
                                      /\ after.replay[x] = st.replay[x]
                                      /\ after.access[x] = st.access[x]
         /\ after.abandoned = st.abandoned
         /\ after.waived = st.waived
  BY FieldTypes DEF SaveLaunch, States, NoAccess

LEMMA ConsumeFetchTokenFields ==
  ASSUME NEW st \in States, NEW s \in Sessions, NEW token, NEW t,
         NEW after, after = ConsumeFetchToken(st, s, token, t)
  PROVE  /\ after.launches = st.launches
         /\ after.statements = st.statements
         /\ after.replay[s] = {}
         /\ \A x \in Sessions \ {s} : after.replay[x] = st.replay[x]
         /\ after.abandoned = st.abandoned
         /\ after.waived = st.waived
         /\ after.access[s].token = token
         /\ \A x \in Sessions \ {s} : after.access[x] = st.access[x]
  BY FieldTypes DEF ConsumeFetchToken, States, Accesses

LEMMA AbandonFields ==
  ASSUME NEW st \in States, NEW s \in Sessions, NEW t,
         NEW after, after = Abandon(st, s, t)
  PROVE  /\ after.launches = st.launches
         /\ after.statements = st.statements
         /\ after.replay = st.replay
         /\ after.abandoned = st.abandoned \union {s}
         /\ after.waived = st.waived
         /\ \A x \in Sessions : after.access[x].token = st.access[x].token
  BY FieldTypes DEF Abandon, States, Accesses

LEMMA WaiveFields ==
  ASSUME NEW st \in States, NEW r \in Registrations, NEW t,
         NEW after, after = Waive(st, r, t)
  PROVE  /\ after.launches = st.launches
         /\ after.statements = st.statements
         /\ after.replay = st.replay
         /\ after.abandoned = st.abandoned
         /\ \A x \in Registrations \ {r} : after.waived[x] = st.waived[x]
         /\ after.access = st.access
  BY FieldTypes DEF Waive, States

(***************************************************************************)
(* Tokens.  A token in use was issued for its session, so a new one is not *)
(* yet held by anyone and no request was acknowledged under it; and what a *)
(* holder's token opens is the launch it was issued in.                    *)
(***************************************************************************)

Issued(counts, token) == \E s \in Sessions : \E n \in Nat \ {0} : n <= counts[s] /\ token = Token(s, n)

TokensIssued ==
    /\ \A s \in Sessions : mem.access[s].token # NoToken =>
         mem.access[s].token.session = s /\ Issued(issued, mem.access[s].token)
    /\ \A k \in holding : Issued(issued, k.token)
    /\ \A p \in served : Issued(issued, p.token)

HoldersInTheirLaunch ==
    \A k \in holding, s \in Sessions :
        mem.access[s].token = k.token => k.round = mem.launches[s].round

TokensKept == TokensIssued /\ HoldersInTheirLaunch /\ AcknowledgedIdsRemembered

(* Tokens and launches stay, request ids are only added.                   *)
SameTokens ==
    /\ \A s \in Sessions : mem'.access[s].token = mem.access[s].token
    /\ mem'.launches = mem.launches
    /\ \A s \in Sessions : mem.replay[s] \subseteq mem'.replay[s]

LEMMA IssuedToken ==
  ASSUME NEW token, Issued(issued, token)
  PROVE  token # NoToken /\ token.session \in Sessions
  BY SessionsAssumption DEF Issued, Token, NoToken

LEMMA FreshToken ==
  ASSUME AdapterTypeOK, NEW s \in Sessions
  PROVE  ~Issued(issued, Fresh(s)) /\ Fresh(s) # NoToken /\ Fresh(s).session = s
  <1>1. issued[s] \in Nat
    BY DEF AdapterTypeOK
  <1>2. Fresh(s).session = s /\ Fresh(s).issue = issued[s] + 1
    BY DEF Fresh, Token
  <1>3. ASSUME NEW x \in Sessions, NEW n \in Nat \ {0}, n <= issued[x], Fresh(s) = Token(x, n)
        PROVE  FALSE
    BY <1>1, <1>2, <1>3 DEF Token
  <1>4. Fresh(s) # NoToken
    BY <1>2, SessionsAssumption DEF NoToken, Token
  <1> QED BY <1>2, <1>3, <1>4 DEF Issued

LEMMA IssuedStays ==
  ASSUME CountersGrow, AdapterTypeOK, NEW token, Issued(issued, token)
  PROVE  Issued(issued', token)
  BY DEF CountersGrow, AdapterTypeOK, Issued, Token

LEMMA SameTokensKept ==
  ASSUME AdapterTypeOK, CountersGrow, TokensKept, SameTokens, UNCHANGED holding,
         \A p \in served' \ served : \E s \in Sessions :
            /\ p.token = mem.access[s].token /\ p.token # NoToken
            /\ p.id \in mem'.replay[s]
  PROVE  TokensKept'
  <1>1. TokensIssued'
    <2>1. \A s \in Sessions : mem'.access[s].token # NoToken =>
             mem'.access[s].token.session = s /\ Issued(issued', mem'.access[s].token)
      BY IssuedStays DEF TokensKept, TokensIssued, SameTokens
    <2>2. \A k \in holding' : Issued(issued', k.token)
      BY IssuedStays DEF TokensKept, TokensIssued
    <2>3. \A p \in served' : Issued(issued', p.token)
      BY IssuedStays DEF TokensKept, TokensIssued
    <2> QED BY <2>1, <2>2, <2>3 DEF TokensIssued
  <1>2. HoldersInTheirLaunch'
    BY DEF TokensKept, HoldersInTheirLaunch, SameTokens
  <1>3. AcknowledgedIdsRemembered'
    <2>1. ASSUME NEW p \in served', mem'.access[p.token.session].token = p.token
          PROVE  p.id \in mem'.replay[p.token.session]
      <3>1. CASE p \in served
        <4>1. p.token.session \in Sessions
          BY <3>1, IssuedToken DEF TokensKept, TokensIssued
        <4> QED BY <2>1, <3>1, <4>1 DEF TokensKept, AcknowledgedIdsRemembered, SameTokens
      <3>2. CASE p \notin served
        <4>1. PICK s \in Sessions : /\ p.token = mem.access[s].token /\ p.token # NoToken
                                    /\ p.id \in mem'.replay[s]
          BY <3>2
        <4>2. p.token.session = s
          BY <4>1 DEF TokensKept, TokensIssued
        <4> QED BY <4>1, <4>2
      <3> QED BY <3>1, <3>2
    <2> QED BY <2>1 DEF AcknowledgedIdsRemembered
  <1> QED BY <1>1, <1>2, <1>3 DEF TokensKept

LEMMA LossKeepsTokens ==
  ASSUME CountersGrow, AdapterTypeOK, TokensKept, LossEffect
  PROVE  TokensKept'
  <1>1. \A s \in Sessions : mem'.access[s].token = NoToken
    BY DEF LossEffect, EmptyState, NoAccess
  <1>2. \A k \in holding' : Issued(issued', k.token) /\ k.token # NoToken
    BY IssuedStays, IssuedToken DEF TokensKept, TokensIssued, LossEffect, Unnoticed
  <1>3. \A p \in served' : Issued(issued', p.token) /\ p.token # NoToken /\ p.token.session \in Sessions
    BY IssuedStays, IssuedToken DEF TokensKept, TokensIssued, LossEffect, Unnoticed
  <1> QED BY <1>1, <1>2, <1>3 DEF TokensKept, TokensIssued, HoldersInTheirLaunch, AcknowledgedIdsRemembered

LEMMA LaunchKeepsTokens ==
  ASSUME CountersGrow, AdapterTypeOK, TokensKept, NEW s \in Sessions, NEW launch, LaunchEffect(s, launch)
  PROVE  TokensKept'
  <1>1. /\ mem'.access[s].token = NoToken
        /\ \A x \in Sessions \ {s} : /\ mem'.launches[x] = mem.launches[x]
                                     /\ mem'.replay[x] = mem.replay[x]
                                     /\ mem'.access[x] = mem.access[x]
    BY SaveLaunchFields, StateType DEF LaunchEffect
  <1>2. mem.launches \in [Sessions -> Launches] /\ mem.replay \in [Sessions -> SUBSET RequestIds]
    BY FieldTypes, StateType
  <1>3. UNCHANGED <<holding, served>>
    BY DEF LaunchEffect, Unnoticed
  <1>4. \A k \in holding' : Issued(issued', k.token) /\ k.token # NoToken
    BY <1>3, IssuedStays, IssuedToken DEF TokensKept, TokensIssued
  <1>5. \A p \in served' : Issued(issued', p.token) /\ p.token # NoToken /\ p.token.session \in Sessions
    BY <1>3, IssuedStays, IssuedToken DEF TokensKept, TokensIssued
  <1>6. \A x \in Sessions : mem'.access[x].token # NoToken =>
           mem'.access[x].token.session = x /\ Issued(issued', mem'.access[x].token)
    BY <1>1, IssuedStays DEF TokensKept, TokensIssued
  <1>7. TokensIssued'
    BY <1>4, <1>5, <1>6 DEF TokensIssued
  <1>8. HoldersInTheirLaunch'
    BY <1>1, <1>2, <1>3, <1>4 DEF TokensKept, HoldersInTheirLaunch
  <1>9. AcknowledgedIdsRemembered'
    BY <1>1, <1>2, <1>3, <1>5 DEF TokensKept, AcknowledgedIdsRemembered
  <1> QED BY <1>7, <1>8, <1>9 DEF TokensKept

LEMMA FetchKeepsTokens ==
  ASSUME CountersGrow, AdapterTypeOK, TokensKept, NEW s \in Sessions, FetchEffect(s)
  PROVE  TokensKept'
  <1>1. /\ mem'.launches = mem.launches
        /\ mem'.replay[s] = {}
        /\ \A x \in Sessions \ {s} : mem'.replay[x] = mem.replay[x]
        /\ mem'.access[s].token = Fresh(s)
        /\ \A x \in Sessions \ {s} : mem'.access[x] = mem.access[x]
    BY ConsumeFetchTokenFields, StateType DEF FetchEffect
  <1>2. mem.launches \in [Sessions -> Launches] /\ mem.replay \in [Sessions -> SUBSET RequestIds]
    BY FieldTypes, StateType
  <1>3. ~Issued(issued, Fresh(s)) /\ Fresh(s) # NoToken /\ Fresh(s).session = s
    BY FreshToken
  <1>4. Issued(issued', Fresh(s))
    <2>1. issued[s] + 1 \in Nat \ {0} /\ issued'[s] = issued[s] + 1
      BY DEF FetchEffect, AdapterTypeOK
    <2> QED BY <2>1 DEF Issued, Fresh
  <1>5. \A k \in holding : Issued(issued, k.token) /\ Issued(issued', k.token)
    BY IssuedStays DEF TokensKept, TokensIssued
  <1>6. \A k \in holding' \ holding : k.token = Fresh(s) /\ k.round = mem.launches[s].round
    BY DEF FetchEffect
  <1>7. \A p \in served' : p \in served /\ Issued(issued, p.token) /\ Issued(issued', p.token) /\ p.token.session \in Sessions
    BY IssuedStays, IssuedToken DEF TokensKept, TokensIssued, FetchEffect
  <1>8. \A x \in Sessions : mem'.access[x].token # NoToken =>
           mem'.access[x].token.session = x /\ Issued(issued', mem'.access[x].token)
    BY <1>1, <1>3, <1>4, IssuedStays DEF TokensKept, TokensIssued
  <1>9. TokensIssued'
    BY <1>4, <1>5, <1>6, <1>7, <1>8 DEF TokensIssued
  <1>10. HoldersInTheirLaunch'
    <2>1. ASSUME NEW k \in holding', NEW x \in Sessions, mem'.access[x].token = k.token
          PROVE  k.round = mem'.launches[x].round
      <3>1. CASE k \in holding
        BY <1>1, <1>3, <1>5, <2>1, <3>1 DEF TokensKept, HoldersInTheirLaunch
      <3>2. CASE k \notin holding
        <4>1. mem.access[x].token = Fresh(s) => x = s
          BY <1>3 DEF TokensKept, TokensIssued
        <4> QED BY <1>1, <1>6, <2>1, <3>2, <4>1
      <3> QED BY <3>1, <3>2
    <2> QED BY <2>1 DEF HoldersInTheirLaunch
  <1>11. AcknowledgedIdsRemembered'
    BY <1>1, <1>2, <1>3, <1>7 DEF TokensKept, AcknowledgedIdsRemembered
  <1> QED BY <1>9, <1>10, <1>11 DEF TokensKept

LEMMA AcknowledgementKeepsTokens ==
  ASSUME AdapterTypeOK, CountersGrow, TokensKept, SameTokens,
         NEW s \in Sessions, NEW id, Acknowledges(s, id),
         id \in RequestIds => id \in mem'.replay[s]
  PROVE  TokensKept'
  <1>1. \A p \in served' \ served : \E x \in Sessions :
           /\ p.token = mem.access[x].token /\ p.token # NoToken
           /\ p.id \in mem'.replay[x]
    BY DEF Acknowledges
  <1> QED BY <1>1, SameTokensKept DEF Acknowledges

LEMMA StepKeepsTokens ==
  ASSUME Sound, TokensKept, [AdapterNext]_adapterVars
  PROVE  TokensKept'
  <1>1. AdapterTypeOK /\ CountersGrow /\ Effects /\ mem \in States
    BY StepEffects, StepCounters, StateType DEF Sound
  <1>2. Unnoticed /\ SameTokens => TokensKept'
    BY <1>1, SameTokensKept DEF Unnoticed
  <1>3. CASE KeepEffect
    BY <1>2, <1>3 DEF KeepEffect, SameTokens
  <1>4. CASE LossEffect
    BY <1>1, <1>4, LossKeepsTokens
  <1>5. ASSUME NEW p \in Packages, ImportEffect(p) PROVE TokensKept'
    BY <1>1, <1>2, <1>5 DEF ImportEffect, SameTokens, States
  <1>6. ASSUME NEW s \in Sessions, NEW launch \in LaunchRecords, LaunchEffect(s, launch) PROVE TokensKept'
    BY <1>1, <1>6, LaunchKeepsTokens
  <1>7. ASSUME NEW s \in Sessions, FetchEffect(s) PROVE TokensKept'
    BY <1>1, <1>7, FetchKeepsTokens
  <1>8. ASSUME NEW s \in Sessions, NEW id \in RequestIds \union {NoId}, NoteEffect(s, id) PROVE TokensKept'
    <2>1. SameTokens /\ (id \in RequestIds => id \in mem'.replay[s])
      BY <1>1, <1>8, RecordReplayFields DEF NoteEffect, SameTokens
    <2> QED BY <1>1, <1>8, <2>1, AcknowledgementKeepsTokens DEF NoteEffect
  <1>9. ASSUME NEW s \in Sessions, NEW id \in RequestIds \union {NoId}, NEW v \in Verbs, LogEffect(s, id, v)
        PROVE  TokensKept'
    <2> DEFINE noted == RecordReplay(mem, s, id)
    <2>1. noted \in States /\ mem' = AppendStatement(noted, s, v)
      BY <1>1, <1>9, RecordReplayType DEF LogEffect
    <2>2. mem'.access = noted.access /\ mem'.launches = noted.launches /\ mem'.replay = noted.replay
      BY <2>1, AppendStatementFields
    <2>3. /\ noted.access = mem.access /\ noted.launches = mem.launches
          /\ \A x \in Sessions : mem.replay[x] \subseteq noted.replay[x]
          /\ id \in RequestIds => id \in noted.replay[s]
      BY <1>1, RecordReplayFields
    <2> HIDE DEF noted
    <2>4. SameTokens /\ (id \in RequestIds => id \in mem'.replay[s])
      BY <2>2, <2>3 DEF SameTokens
    <2> QED BY <1>1, <1>9, <2>4, AcknowledgementKeepsTokens DEF LogEffect
  <1>10. ASSUME NEW r \in Registrations, WaiveEffect(r) PROVE TokensKept'
    <2>1. mem'.access = mem.access /\ mem'.launches = mem.launches /\ mem'.replay = mem.replay
      BY <1>1, <1>10, WaiveFields DEF WaiveEffect
    <2> QED BY <1>2, <1>10, <2>1 DEF WaiveEffect, SameTokens
  <1>11. ASSUME NEW s \in Sessions, AbandonEffect(s) PROVE TokensKept'
    <2>1. /\ mem'.launches = mem.launches /\ mem'.replay = mem.replay
          /\ \A x \in Sessions : mem'.access[x].token = mem.access[x].token
      BY <1>1, <1>11, AbandonFields DEF AbandonEffect
    <2> QED BY <1>2, <1>11, <2>1 DEF AbandonEffect, SameTokens
  <1> QED BY <1>1, <1>3, <1>4, <1>5, <1>6, <1>7, <1>8, <1>9, <1>10, <1>11 DEF Effects

LEMMA InitTokens == AdapterInit => TokensKept
  BY DEF AdapterInit, EmptyState, NoAccess, TokensKept, TokensIssued, HoldersInTheirLaunch,
         AcknowledgedIdsRemembered

\* A token opens the session it was issued for, in the launch it was issued
\* in, and no other: no relaunch, restart or torn state file lets the holder
\* of an old token in (cmi5-state.ts, validateAuthToken and saveLaunch).
THEOREM TokensStayConfined == AdapterSpec => []TokensAreConfined
  <1>1. Sound /\ TokensKept => TokensAreConfined
    <2> SUFFICES ASSUME Sound, TokensKept, NEW k \in holding, NEW s \in Sessions, NEW t \in Times,
                        AuthStatus(mem, k.token, s, t) = 200
                 PROVE  k.token.session = s /\ k.round = mem.launches[s].round
      BY DEF TokensAreConfined
    <2>1. mem.access[s].token = k.token /\ k.token # NoToken
      BY AuthorizedToken
    <2> QED BY <2>1 DEF TokensKept, TokensIssued, HoldersInTheirLaunch
  <1>2. AdapterInit => Sound /\ TokensKept
    BY InitSound, InitTokens
  <1>3. Sound /\ TokensKept /\ [AdapterNext]_adapterVars => (Sound /\ TokensKept)'
    BY StepSound, StepKeepsTokens
  <1> QED BY <1>1, <1>2, <1>3, PTL DEF AdapterSpec

\* A request acknowledged under a token is remembered as long as the token is
\* its session's, wherever the process stopped: no retry is done a second time
\* (cmi5-state.ts, recordRequestReplay).
THEOREM AcknowledgedStayRemembered == AdapterSpec => []AcknowledgedIdsRemembered
  <1>1. TokensKept => AcknowledgedIdsRemembered
    BY DEF TokensKept
  <1>2. AdapterInit => Sound /\ TokensKept
    BY InitSound, InitTokens
  <1>3. Sound /\ TokensKept /\ [AdapterNext]_adapterVars => (Sound /\ TokensKept)'
    BY StepSound, StepKeepsTokens
  <1> QED BY <1>1, <1>2, <1>3, PTL DEF AdapterSpec

(***************************************************************************)
(* Decisions                                                               *)
(***************************************************************************)

Decided ==
    /\ \A s \in mem.abandoned :
         /\ s \in mem'.abandoned
         /\ mem'.launches[s] = mem.launches[s]
         /\ mem'.statements[s] = mem.statements[s]
    /\ \A r \in Registrations : mem.waived[r] # Never => mem'.waived[r] = mem.waived[r]

LEMMA StepDecided ==
  ASSUME ~TornWrites, Sound, [AdapterNext]_adapterVars
  PROVE  Decided
  <1>1. Effects /\ mem \in States
    BY StepEffects, StateType DEF Sound
  <1>2. mem.abandoned \subseteq Sessions /\ mem.statements \in [Sessions -> Seq(Verbs)]
          /\ mem.waived \in [Registrations -> Stamps(0)]
    BY <1>1, FieldTypes
  <1>3. CASE KeepEffect \/ LossEffect
    BY <1>3 DEF KeepEffect, LossEffect, Decided
  <1>4. ASSUME NEW p \in Packages, ImportEffect(p) PROVE Decided
    BY <1>1, <1>4 DEF ImportEffect, Decided, States
  <1>5. ASSUME NEW s \in Sessions, NEW launch \in LaunchRecords, LaunchEffect(s, launch) PROVE Decided
    <2>1. /\ s \notin mem.abandoned
          /\ \A x \in Sessions \ {s} : /\ mem'.launches[x] = mem.launches[x]
                                       /\ mem'.statements[x] = mem.statements[x]
          /\ mem'.abandoned = mem.abandoned
          /\ mem'.waived = mem.waived
      BY <1>1, <1>5, SaveLaunchFields DEF LaunchEffect
    <2> QED BY <1>2, <2>1 DEF Decided
  <1>6. ASSUME NEW s \in Sessions, FetchEffect(s) PROVE Decided
    <2>1. mem'.launches = mem.launches /\ mem'.statements = mem.statements
            /\ mem'.abandoned = mem.abandoned /\ mem'.waived = mem.waived
      BY <1>1, <1>6, ConsumeFetchTokenFields DEF FetchEffect
    <2> QED BY <2>1 DEF Decided
  <1>7. ASSUME NEW s \in Sessions, NEW id \in RequestIds \union {NoId}, NoteEffect(s, id) PROVE Decided
    <2>1. mem'.launches = mem.launches /\ mem'.statements = mem.statements
            /\ mem'.abandoned = mem.abandoned /\ mem'.waived = mem.waived
      BY <1>1, <1>7, RecordReplayFields DEF NoteEffect
    <2> QED BY <2>1 DEF Decided
  <1>8. ASSUME NEW s \in Sessions, NEW id \in RequestIds \union {NoId}, NEW v \in Verbs, LogEffect(s, id, v)
        PROVE  Decided
    <2> DEFINE noted == RecordReplay(mem, s, id)
    <2>1. noted \in States /\ mem' = AppendStatement(noted, s, v) /\ s \notin mem.abandoned
      BY <1>1, <1>8, RecordReplayType DEF LogEffect
    <2>2. /\ mem'.launches = noted.launches
          /\ mem'.abandoned = noted.abandoned /\ mem'.waived = noted.waived
          /\ \A x \in Sessions \ {s} : mem'.statements[x] = noted.statements[x]
      BY <2>1, AppendStatementFields
    <2>3. noted.launches = mem.launches /\ noted.statements = mem.statements
            /\ noted.abandoned = mem.abandoned /\ noted.waived = mem.waived
      BY <1>1, RecordReplayFields
    <2> HIDE DEF noted
    <2> QED BY <1>2, <2>1, <2>2, <2>3 DEF Decided
  <1>9. ASSUME NEW r \in Registrations, WaiveEffect(r) PROVE Decided
    <2>1. /\ mem.waived[r] = Never
          /\ mem'.launches = mem.launches /\ mem'.statements = mem.statements
          /\ mem'.abandoned = mem.abandoned
          /\ \A x \in Registrations \ {r} : mem'.waived[x] = mem.waived[x]
      BY <1>1, <1>9, WaiveFields DEF WaiveEffect
    <2> QED BY <1>2, <2>1 DEF Decided
  <1>10. ASSUME NEW s \in Sessions, AbandonEffect(s) PROVE Decided
    <2>1. mem'.launches = mem.launches /\ mem'.statements = mem.statements
            /\ mem'.abandoned = mem.abandoned \union {s} /\ mem'.waived = mem.waived
      BY <1>1, <1>10, AbandonFields DEF AbandonEffect
    <2> QED BY <2>1 DEF Decided
  <1> QED BY <1>1, <1>3, <1>4, <1>5, <1>6, <1>7, <1>8, <1>9, <1>10 DEF Effects

\* As long as a write of the state file is not torn, abandoning a session and
\* waiving a registration are for good: through restarts, reloads and
\* relaunches the abandoned session is neither launched nor written again, and
\* the waiver keeps its date (cmi5-state.ts, abandonSession and
\* waiveRegistration).
THEOREM DecisionsStandForGood == TornWrites = FALSE => (AdapterSpec => DecisionsStand)
  <1> SUFFICES ASSUME TornWrites = FALSE PROVE AdapterSpec => DecisionsStand
    OBVIOUS
  <1>1. Sound /\ [AdapterNext]_adapterVars => Sound'
    BY StepSound
  <1>2. Sound /\ [AdapterNext]_adapterVars =>
          [/\ \A s \in mem.abandoned :
                /\ s \in mem'.abandoned
                /\ mem'.launches[s] = mem.launches[s]
                /\ mem'.statements[s] = mem.statements[s]
           /\ \A r \in Registrations : mem.waived[r] # Never => mem'.waived[r] = mem.waived[r]]_adapterVars
    BY StepDecided DEF Decided
  <1> QED BY InitSound, <1>1, <1>2, PTL DEF AdapterSpec, DecisionsStand

(***************************************************************************)
(* Records                                                                 *)
(***************************************************************************)

LEMMA AppendedVerb ==
  ASSUME NEW log \in Seq(Verbs), NEW v \in Verbs, NEW longer, longer = Append(log, v)
  PROVE  /\ longer \in Seq(Verbs)
         /\ Len(longer) = Len(log) + 1
         /\ DOMAIN log = 1 .. Len(log) /\ DOMAIN longer = 1 .. Len(log) + 1
         /\ \A i \in 1 .. Len(log) : longer[i] = log[i]
         /\ longer[Len(log) + 1] = v
         /\ Len(log) \in Nat
  OBVIOUS

LEMMA AppendedHasVerb ==
  ASSUME NEW log \in Seq(Verbs), NEW v \in Verbs, NEW longer, longer = Append(log, v), NEW w
  PROVE  HasVerb(longer, w) <=> (HasVerb(log, w) \/ w = v)
  BY AppendedVerb DEF HasVerb

(* The sequence rules keep a record a cmi5 session. *)
LEMMA AcceptedKeepsWellFormed ==
  ASSUME NEW moveOn, NEW log \in Seq(Verbs), NEW v \in Verbs, NEW longer, longer = Append(log, v),
         WellFormed(moveOn, log), AcceptsVerb(moveOn, log, v)
  PROVE  WellFormed(moveOn, longer)
  <1> DEFINE n == Len(log)
  <1>1. /\ n \in Nat
        /\ DOMAIN log = 1 .. n /\ DOMAIN longer = 1 .. n + 1 /\ Len(longer) = n + 1
        /\ \A i \in 1 .. n : longer[i] = log[i]
        /\ longer[n + 1] = v
    BY AppendedVerb
  <1>2. \A w : HasVerb(log, w) <=> \E i \in 1 .. n : log[i] = w
    BY <1>1 DEF HasVerb
  <1>3. \A w : HasVerb(longer, w) <=> (HasVerb(log, w) \/ w = v)
    BY AppendedHasVerb
  <1>4. \A i \in 1 .. n : (log[i] = "initialized" <=> i = 1) /\ (log[i] = "launched" <=> i = 2)
    BY <1>1 DEF WellFormed
  <1> HIDE DEF n
  <1>5. (v = "initialized" <=> n = 0) /\ (v = "launched" <=> n = 1)
    <2>1. ~HasVerb(log, "terminated")
      BY DEF AcceptsVerb
    <2>2. CASE n = 0
      <3>1. \A w : ~HasVerb(log, w)
        BY <1>1, <1>2, <2>2
      <3> QED BY <2>2, <3>1 DEF AcceptsVerb, Verbs
    <2>3. CASE n = 1
      <3>1. \A w : HasVerb(log, w) => w = "initialized"
        BY <1>1, <1>2, <1>4, <2>3
      <3>2. log # <<>>
        BY <1>1, <2>3 DEF n
      <3> QED BY <2>3, <3>1, <3>2 DEF AcceptsVerb, Verbs
    <2>4. CASE n > 1
      <3>1. HasVerb(log, "launched")
        BY <1>1, <1>2, <1>4, <2>4
      <3>2. log # <<>>
        BY <1>1, <2>4 DEF n
      <3> QED BY <1>1, <2>4, <3>1, <3>2 DEF AcceptsVerb
    <2> QED BY <1>1, <2>2, <2>3, <2>4
  <1>6. ASSUME v # "progressed" PROVE ~HasVerb(log, v)
    <2>1. v \in {"initialized", "launched"} => ~HasVerb(log, v)
      BY <1>1, <1>2, <1>4, <1>5
    <2> QED BY <1>6, <2>1 DEF AcceptsVerb, Verbs
  <1>7. ASSUME NEW i \in 1 .. n + 1
        PROVE  /\ (longer[i] = "initialized") <=> (i = 1)
               /\ (longer[i] = "launched") <=> (i = 2)
               /\ longer[i] # "progressed" => \A j \in 1 .. n + 1 : longer[j] = longer[i] => j = i
               /\ longer[i] \in {"passed", "failed"} => \E j \in 1 .. i - 1 : longer[j] = "completed"
               /\ longer[i] = "progressed" => ~\E j \in 1 .. i - 1 : longer[j] = "completed"
               /\ longer[i] = "terminated" => i = n + 1 /\ MoveOnSatisfied(moveOn, longer)
    <2>1. CASE i \in 1 .. n
      <3>1. /\ log[i] # "progressed" => \A j \in 1 .. n : log[j] = log[i] => j = i
            /\ log[i] \in {"passed", "failed"} => \E j \in 1 .. i - 1 : log[j] = "completed"
            /\ log[i] = "progressed" => ~\E j \in 1 .. i - 1 : log[j] = "completed"
        BY <1>1, <2>1 DEF WellFormed
      <3>2. log[i] # "terminated"
        BY <1>2, <2>1 DEF AcceptsVerb
      <3>3. longer[i] = log[i] /\ \A j \in 1 .. i - 1 : longer[j] = log[j]
        BY <1>1, <2>1
      <3>4. log[i] # "progressed" => v # log[i]
        BY <1>2, <1>6, <2>1
      <3>5. longer[i] # "progressed" => \A j \in 1 .. n + 1 : longer[j] = longer[i] => j = i
        BY <1>1, <2>1, <3>1, <3>3, <3>4
      <3> QED BY <1>4, <2>1, <3>1, <3>2, <3>3, <3>5
    <2>2. CASE i = n + 1
      <3>1. longer[i] = v
        BY <1>1, <2>2
      <3>2. \A j \in 1 .. i - 1 : j \in 1 .. n /\ longer[j] = log[j]
        BY <1>1, <2>2
      <3>3. (longer[i] = "initialized" <=> i = 1) /\ (longer[i] = "launched" <=> i = 2)
        BY <1>1, <1>5, <2>2, <3>1
      <3>4. longer[i] # "progressed" => \A j \in 1 .. n + 1 : longer[j] = longer[i] => j = i
        BY <1>1, <1>2, <1>6, <2>2, <3>1
      <3>5. v \in {"passed", "failed"} => \E j \in 1 .. i - 1 : longer[j] = "completed"
        BY <1>1, <1>2, <2>2 DEF AcceptsVerb
      <3>6. v = "progressed" => ~\E j \in 1 .. i - 1 : longer[j] = "completed"
        BY <1>2, <3>2 DEF AcceptsVerb
      <3>7. v = "terminated" => MoveOnSatisfied(moveOn, longer)
        BY <1>3 DEF AcceptsVerb, MoveOnSatisfied
      <3> QED BY <2>2, <3>1, <3>3, <3>4, <3>5, <3>6, <3>7
    <2> QED BY <1>1, <2>1, <2>2
  <1>8. ~(HasVerb(longer, "passed") /\ HasVerb(longer, "failed"))
    BY <1>3 DEF WellFormed, AcceptsVerb
  <1> QED BY <1>1, <1>7, <1>8 DEF WellFormed

LEMMA EmptyWellFormed == \A moveOn : WellFormed(moveOn, <<>>)
  BY DEF WellFormed, HasVerb

LEMMA StepWellFormed ==
  ASSUME Sound, LogsWellFormed, [AdapterNext]_adapterVars
  PROVE  LogsWellFormed'
  <1>1. Effects /\ mem \in States
    BY StepEffects, StateType DEF Sound
  <1>2. mem'.launches = mem.launches /\ mem'.statements = mem.statements => LogsWellFormed'
    BY DEF LogsWellFormed, Launched
  <1>3. CASE KeepEffect
    BY <1>2, <1>3 DEF KeepEffect
  <1>4. CASE LossEffect
    <2>1. \A s \in Sessions : mem'.statements[s] = <<>>
      BY <1>4 DEF LossEffect, EmptyState
    <2> QED BY <2>1, EmptyWellFormed DEF LogsWellFormed
  <1>5. ASSUME NEW p \in Packages, ImportEffect(p) PROVE LogsWellFormed'
    BY <1>1, <1>2, <1>5 DEF ImportEffect, States
  <1>6. ASSUME NEW s \in Sessions, NEW launch \in LaunchRecords, LaunchEffect(s, launch) PROVE LogsWellFormed'
    <2>1. /\ mem'.statements[s] = <<>>
          /\ \A x \in Sessions \ {s} : /\ mem'.launches[x] = mem.launches[x]
                                       /\ mem'.statements[x] = mem.statements[x]
      BY <1>1, <1>6, SaveLaunchFields DEF LaunchEffect
    <2> QED BY <2>1, EmptyWellFormed DEF LogsWellFormed, Launched
  <1>7. ASSUME NEW s \in Sessions, FetchEffect(s) PROVE LogsWellFormed'
    <2>1. mem'.launches = mem.launches /\ mem'.statements = mem.statements
      BY <1>1, <1>7, ConsumeFetchTokenFields DEF FetchEffect
    <2> QED BY <1>2, <2>1
  <1>8. ASSUME NEW s \in Sessions, NEW id \in RequestIds \union {NoId}, NoteEffect(s, id) PROVE LogsWellFormed'
    <2>1. mem'.launches = mem.launches /\ mem'.statements = mem.statements
      BY <1>1, <1>8, RecordReplayFields DEF NoteEffect
    <2> QED BY <1>2, <2>1
  <1>9. ASSUME NEW s \in Sessions, NEW id \in RequestIds \union {NoId}, NEW v \in Verbs, LogEffect(s, id, v)
        PROVE  LogsWellFormed'
    <2> DEFINE noted == RecordReplay(mem, s, id)
    <2>1. noted \in States /\ mem' = AppendStatement(noted, s, v) /\ Launched(mem, s)
            /\ AcceptsVerb(mem.launches[s].moveOn, mem.statements[s], v)
      BY <1>1, <1>9, RecordReplayType DEF LogEffect
    <2>2. /\ mem'.launches = noted.launches
          /\ mem'.statements[s] = Append(noted.statements[s], v)
          /\ \A x \in Sessions \ {s} : mem'.statements[x] = noted.statements[x]
      BY <2>1, AppendStatementFields
    <2>3. noted.launches = mem.launches /\ noted.statements = mem.statements
      BY <1>1, RecordReplayFields
    <2> HIDE DEF noted
    <2>4. mem.statements[s] \in Seq(Verbs)
      BY <1>1, FieldTypes
    <2>5. WellFormed(mem.launches[s].moveOn, mem'.statements[s])
      BY <2>1, <2>2, <2>3, <2>4, AcceptedKeepsWellFormed DEF LogsWellFormed
    <2> QED BY <2>1, <2>2, <2>3, <2>5 DEF LogsWellFormed, Launched
  <1>10. ASSUME NEW r \in Registrations, WaiveEffect(r) PROVE LogsWellFormed'
    <2>1. mem'.launches = mem.launches /\ mem'.statements = mem.statements
      BY <1>1, <1>10, WaiveFields DEF WaiveEffect
    <2> QED BY <1>2, <2>1
  <1>11. ASSUME NEW s \in Sessions, AbandonEffect(s) PROVE LogsWellFormed'
    <2>1. mem'.launches = mem.launches /\ mem'.statements = mem.statements
      BY <1>1, <1>11, AbandonFields DEF AbandonEffect
    <2> QED BY <1>2, <2>1
  <1> QED BY <1>1, <1>3, <1>4, <1>5, <1>6, <1>7, <1>8, <1>9, <1>10, <1>11 DEF Effects

\* The record of every session is a cmi5 session after every call, refusal,
\* relaunch, crash and loss of the state file (cmi5-state.ts,
\* appendSessionStatement).
THEOREM RecordsAreSessions == AdapterSpec => []LogsWellFormed
  <1>1. AdapterInit => Sound /\ LogsWellFormed
    <2>1. AdapterInit => LogsWellFormed
      BY EmptyWellFormed DEF AdapterInit, EmptyState, LogsWellFormed
    <2> QED BY <2>1, InitSound
  <1>2. Sound /\ LogsWellFormed /\ [AdapterNext]_adapterVars => (Sound /\ LogsWellFormed)'
    BY StepSound, StepWellFormed
  <1> QED BY <1>1, <1>2, PTL DEF AdapterSpec

(***************************************************************************)
(* The way to the end                                                      *)
(***************************************************************************)

Said(log) == {log[i] : i \in DOMAIN log}

LEMMA SaidVerbs == \A log, v : HasVerb(log, v) <=> v \in Said(log)
  BY DEF HasVerb, Said

(* What the sequence rules accept, by what was said alone.                  *)
AcceptsAfter(moveOn, said, v) ==
    /\ "terminated" \notin said
    /\ v = "initialized" => said = {}
    /\ v = "launched"    => "initialized" \in said /\ "launched" \notin said
    /\ v = "completed"   => "launched" \in said /\ "completed" \notin said
    /\ v = "passed"      => /\ "completed" \in said /\ "passed" \notin said /\ "failed" \notin said
                            /\ moveOn # "NotApplicable"
    /\ v = "terminated"  => /\ "launched" \in said
                            /\ \/ moveOn \in {"Passed", "CompletedOrPassed"} /\ "passed" \in said
                               \/ moveOn \in {"Completed", "CompletedOrPassed"} /\ "completed" \in said
                               \/ moveOn = "CompletedAndPassed" /\ {"completed", "passed"} \subseteq said
                               \/ moveOn = "NotApplicable"

LEMMA AcceptedBySaid ==
  ASSUME NEW moveOn, NEW log \in Seq(Verbs), NEW v, v \notin {"progressed", "failed"},
         AcceptsAfter(moveOn, Said(log), v)
  PROVE  AcceptsVerb(moveOn, log, v)
  <1>1. \A w : HasVerb(log, w) <=> w \in Said(log)
    BY SaidVerbs
  <1>2. Said(log) = {} => log = <<>>
    BY SMTT(30) DEF Said
  <1> QED BY <1>1, <1>2 DEF AcceptsAfter, AcceptsVerb, MoveOnSatisfied

LEMMA JoinedVerbs ==
  ASSUME NEW a \in Seq(Verbs), NEW b \in Seq(Verbs), NEW all, all = a \o b
  PROVE  /\ all \in Seq(Verbs) /\ Len(a) \in Nat /\ Len(b) \in Nat /\ Len(all) = Len(a) + Len(b)
         /\ \A k \in 1 .. Len(all) : all[k] = IF k <= Len(a) THEN a[k] ELSE b[k - Len(a)]
  OBVIOUS

LEMMA SaidJoined ==
  ASSUME NEW a \in Seq(Verbs), NEW b \in Seq(Verbs)
  PROVE  Said(a \o b) = Said(a) \union Said(b)
  <1> DEFINE all == a \o b
  <1>0. all = a \o b
    OBVIOUS
  <1> HIDE DEF all
  <1>1. /\ all \in Seq(Verbs) /\ Len(a) \in Nat /\ Len(b) \in Nat /\ Len(all) = Len(a) + Len(b)
        /\ \A k \in 1 .. Len(all) : all[k] = IF k <= Len(a) THEN a[k] ELSE b[k - Len(a)]
    BY <1>0, JoinedVerbs
  <1>6. DOMAIN a = 1 .. Len(a) /\ DOMAIN b = 1 .. Len(b) /\ DOMAIN all = 1 .. Len(all)
    BY <1>1
  <1>2. \A v : /\ v \in Said(a) <=> \E i \in 1 .. Len(a) : v = a[i]
               /\ v \in Said(b) <=> \E i \in 1 .. Len(b) : v = b[i]
               /\ v \in Said(all) <=> \E i \in 1 .. Len(all) : v = all[i]
    BY <1>6, Zenon DEF Said
  <1>3. ASSUME NEW v \in Said(all) PROVE v \in Said(a) \/ v \in Said(b)
    <2>1. PICK k \in 1 .. Len(all) : v = all[k]
      BY <1>2
    <2>2. k <= Len(a) => k \in 1 .. Len(a)
      BY <1>1
    <2>3. ~(k <= Len(a)) => k - Len(a) \in 1 .. Len(b)
      BY <1>1
    <2> QED BY <1>1, <1>2, <2>1, <2>2, <2>3
  <1>4. ASSUME NEW v \in Said(a) PROVE v \in Said(all)
    <2>1. PICK k \in 1 .. Len(a) : v = a[k]
      BY <1>2
    <2>2. k \in 1 .. Len(all) /\ k <= Len(a)
      BY <1>1
    <2> QED BY <1>1, <1>2, <2>1, <2>2
  <1>5. ASSUME NEW v \in Said(b) PROVE v \in Said(all)
    <2>1. PICK k \in 1 .. Len(b) : v = b[k]
      BY <1>2
    <2>2. k + Len(a) \in 1 .. Len(all) /\ ~(k + Len(a) <= Len(a)) /\ (k + Len(a)) - Len(a) = k
      BY <1>1
    <2>3. all[k + Len(a)] = b[(k + Len(a)) - Len(a)]
      BY <1>1, <2>2
    <2> QED BY <1>2, <2>1, <2>2, <2>3
  <1> QED BY <1>0, <1>3, <1>4, <1>5

LEMMA SaidBefore ==
  ASSUME NEW log \in Seq(Verbs), NEW more \in Seq(Verbs), NEW k \in 0 .. Len(more)
  PROVE  /\ log \o SubSeq(more, 1, k) \in Seq(Verbs)
         /\ Said(log \o SubSeq(more, 1, k)) = Said(log) \union {more[j] : j \in 1 .. k}
  <1> DEFINE part == SubSeq(more, 1, k)
  <1>1. part \in Seq(Verbs) /\ Len(part) = k /\ (\A j \in 1 .. k : part[j] = more[j]) /\ k \in Nat
    OBVIOUS
  <1> HIDE DEF part
  <1>2. Said(part) = {more[j] : j \in 1 .. k}
    BY <1>1, SMTT(30) DEF Said
  <1>3. log \o part \in Seq(Verbs) /\ Said(log \o part) = Said(log) \union Said(part)
    BY <1>1, SaidJoined
  <1> QED BY <1>2, <1>3 DEF part

(* A row of verbs is accepted when each is, after those before it.          *)
LEMMA RowAccepted ==
  ASSUME NEW moveOn, NEW log \in Seq(Verbs), NEW more \in Seq(Verbs),
         \A i \in 1 .. Len(more) :
           /\ more[i] \notin {"progressed", "failed"}
           /\ AcceptsAfter(moveOn, Said(log) \union {more[j] : j \in 1 .. i - 1}, more[i])
  PROVE  Accepted_(moveOn, log, more)
  <1> SUFFICES ASSUME NEW i \in DOMAIN more
               PROVE  AcceptsVerb(moveOn, log \o SubSeq(more, 1, i - 1), more[i])
    BY DEF Accepted_
  <1>1. i \in 1 .. Len(more) /\ i - 1 \in 0 .. Len(more)
    OBVIOUS
  <1>2. /\ log \o SubSeq(more, 1, i - 1) \in Seq(Verbs)
        /\ Said(log \o SubSeq(more, 1, i - 1)) = Said(log) \union {more[j] : j \in 1 .. i - 1}
    BY <1>1, SaidBefore
  <1> QED BY <1>1, <1>2, AcceptedBySaid

(* Row by row: what a row says in front of its i-th verb.                   *)
RowFits(moveOn, said, row) ==
    \A i \in 1 .. Len(row) :
        /\ row[i] \notin {"progressed", "failed"}
        /\ AcceptsAfter(moveOn, said \union {row[j] : j \in 1 .. i - 1}, row[i])

LEMMA RowsAccepted ==
  ASSUME NEW moveOn, NEW log \in Seq(Verbs), NEW o \in Seq(Verbs), NEW c \in Seq(Verbs),
         RowFits(moveOn, Said(log), o), RowFits(moveOn, Said(log) \union Said(o), c)
  PROVE  Accepted_(moveOn, log, o \o c)
  <1> DEFINE more == o \o c
             m == Len(o)
  <1>0. more = o \o c /\ m = Len(o)
    OBVIOUS
  <1> HIDE DEF more, m
  <1>1. /\ more \in Seq(Verbs) /\ m \in Nat /\ Len(c) \in Nat /\ Len(more) = m + Len(c)
        /\ \A k \in 1 .. Len(more) : more[k] = IF k <= m THEN o[k] ELSE c[k - m]
    BY <1>0, JoinedVerbs
  <1>2. DOMAIN o = 1 .. m
    BY <1>0
  <1>3. ASSUME NEW i \in 1 .. Len(more)
        PROVE  /\ more[i] \notin {"progressed", "failed"}
               /\ AcceptsAfter(moveOn, Said(log) \union {more[j] : j \in 1 .. i - 1}, more[i])
    <2>1. CASE i <= m
      <3>1. i \in 1 .. m /\ more[i] = o[i]
        BY <1>1, <2>1
      <3>2. \A j \in 1 .. i - 1 : more[j] = o[j]
        <4>1. \A j \in 1 .. i - 1 : j \in 1 .. Len(more) /\ j <= m
          BY <1>1, <2>1
        <4> QED BY <1>1, <4>1
      <3>3. {more[j] : j \in 1 .. i - 1} = {o[j] : j \in 1 .. i - 1}
        BY <3>2
      <3> QED BY <1>0, <3>1, <3>3 DEF RowFits
    <2>2. CASE ~(i <= m)
      <3> DEFINE k == i - m
      <3>1. k \in 1 .. Len(c) /\ i = m + k /\ more[i] = c[k]
        BY <1>1, <2>2
      <3> HIDE DEF k
      <3>2. /\ \A j \in 1 .. m : more[j] = o[j] /\ j \in 1 .. i - 1
            /\ \A j \in 1 .. k - 1 : more[m + j] = c[j] /\ m + j \in 1 .. i - 1
            /\ \A j \in 1 .. i - 1 : j \in 1 .. m \/ \E l \in 1 .. k - 1 : j = m + l
        <4>1. \A j \in 1 .. m : j \in 1 .. Len(more) /\ j <= m /\ j \in 1 .. i - 1
          BY <1>1, <3>1
        <4>2. \A j \in 1 .. k - 1 : m + j \in 1 .. Len(more) /\ ~(m + j <= m) /\ (m + j) - m = j /\ m + j \in 1 .. i - 1
          BY <1>1, <3>1
        <4>3. \A j \in 1 .. k - 1 : more[m + j] = c[j]
          BY <1>1, <4>2
        <4>4. \A j \in 1 .. i - 1 : j \in 1 .. m \/ (j - m \in 1 .. k - 1 /\ j = m + (j - m))
          BY <1>1, <3>1, SMTT(30)
        <4>5. \A j \in 1 .. m : more[j] = o[j]
          BY <1>1, <4>1
        <4> QED BY <4>1, <4>2, <4>3, <4>4, <4>5
      <3>3. {more[j] : j \in 1 .. i - 1} = Said(o) \union {c[j] : j \in 1 .. k - 1}
        <4>1. Said(o) = {o[j] : j \in 1 .. m}
          BY <1>2 DEF Said
        <4>2. ASSUME NEW v \in {more[j] : j \in 1 .. i - 1} PROVE v \in Said(o) \union {c[j] : j \in 1 .. k - 1}
          <5>1. PICK j \in 1 .. i - 1 : v = more[j]
            BY <4>2
          <5> QED BY <3>2, <4>1, <5>1, SMTT(30)
        <4>3. ASSUME NEW v \in Said(o) \union {c[j] : j \in 1 .. k - 1} PROVE v \in {more[j] : j \in 1 .. i - 1}
          BY <3>2, <4>1
        <4> QED BY <4>2, <4>3
      <3>4. Said(log) \union {more[j] : j \in 1 .. i - 1} = (Said(log) \union Said(o)) \union {c[j] : j \in 1 .. k - 1}
        BY <3>3
      <3> QED BY <3>1, <3>4 DEF RowFits
    <2> QED BY <2>1, <2>2
  <1>4. Accepted_(moveOn, log, more)
    BY <1>1, <1>3, RowAccepted
  <1> QED BY <1>0, <1>4

(* A session that was launched and not terminated, and failed only where    *)
(* that does not close the way, has a closing.                              *)
LEMMA ClosingFits ==
  ASSUME NEW moveOn \in AllMoveOns, NEW said, "launched" \in said, "terminated" \notin said,
         "passed" \in said \/ "failed" \in said => "completed" \in said,
         "failed" \in said => moveOn = "Completed"
  PROVE  \E c \in Closings : c \in Seq(Verbs) /\ RowFits(moveOn, said, c)
  <1>1. ASSUME NEW v \in Verbs \ {"progressed", "failed"}, AcceptsAfter(moveOn, said, v)
        PROVE  RowFits(moveOn, said, <<v>>)
    <2>1. said \union {<<v>>[j] : j \in 1 .. 1 - 1} = said
      OBVIOUS
    <2>2. Len(<<v>>) = 1 /\ <<v>>[1] = v
      OBVIOUS
    <2> QED BY <1>1, <2>1, <2>2 DEF RowFits
  <1>2. ASSUME NEW v \in Verbs \ {"progressed", "failed"}, AcceptsAfter(moveOn, said, v),
               NEW w \in Verbs \ {"progressed", "failed"}, AcceptsAfter(moveOn, said \union {v}, w)
        PROVE  RowFits(moveOn, said, <<v, w>>)
    <2>1. said \union {<<v, w>>[j] : j \in 1 .. 1 - 1} = said /\ said \union {<<v, w>>[j] : j \in 1 .. 2 - 1} = said \union {v}
      OBVIOUS
    <2>2. Len(<<v, w>>) = 2 /\ <<v, w>>[1] = v /\ <<v, w>>[2] = w /\ \A i \in 1 .. 2 : i = 1 \/ i = 2
      OBVIOUS
    <2> QED BY <1>2, <2>1, <2>2 DEF RowFits
  <1>3. ASSUME NEW v \in Verbs \ {"progressed", "failed"}, AcceptsAfter(moveOn, said, v),
               NEW w \in Verbs \ {"progressed", "failed"}, AcceptsAfter(moveOn, said \union {v}, w),
               NEW x \in Verbs \ {"progressed", "failed"}, AcceptsAfter(moveOn, said \union {v, w}, x)
        PROVE  RowFits(moveOn, said, <<v, w, x>>)
    <2> DEFINE row == <<v, w, x>>
    <2>1. /\ said \union {row[j] : j \in 1 .. 1 - 1} = said /\ said \union {row[j] : j \in 1 .. 2 - 1} = said \union {v}
          /\ said \union {row[j] : j \in 1 .. 3 - 1} = said \union {v, w}
      OBVIOUS
    <2>2. Len(row) = 3 /\ row[1] = v /\ row[2] = w /\ row[3] = x /\ \A i \in 1 .. 3 : i = 1 \/ i = 2 \/ i = 3
      OBVIOUS
    <2> HIDE DEF row
    <2>3. RowFits(moveOn, said, row)
      BY <1>3, <2>1, <2>2 DEF RowFits
    <2> QED BY <2>3 DEF row
  <1>4. CASE AcceptsAfter(moveOn, said, "terminated")
    BY <1>1, <1>4 DEF Closings, Verbs
  <1>5. CASE AcceptsAfter(moveOn, said, "passed") /\ AcceptsAfter(moveOn, said \union {"passed"}, "terminated")
    BY <1>2, <1>5 DEF Closings, Verbs
  <1>6. CASE AcceptsAfter(moveOn, said, "completed") /\ AcceptsAfter(moveOn, said \union {"completed"}, "terminated")
    BY <1>2, <1>6 DEF Closings, Verbs
  <1>7. CASE /\ AcceptsAfter(moveOn, said, "completed") /\ AcceptsAfter(moveOn, said \union {"completed"}, "passed")
             /\ AcceptsAfter(moveOn, said \union {"completed", "passed"}, "terminated")
    BY <1>3, <1>7 DEF Closings, Verbs
  <1>8. CASE moveOn = "NotApplicable"
    BY <1>4, <1>8 DEF AcceptsAfter
  <1>9. CASE moveOn \in {"Completed", "CompletedOrPassed"}
    BY <1>4, <1>6, <1>9 DEF AcceptsAfter
  <1>10. CASE moveOn \in {"Passed", "CompletedAndPassed"}
    BY <1>4, <1>5, <1>7, <1>10 DEF AcceptsAfter
  <1> QED BY <1>8, <1>9, <1>10 DEF AllMoveOns

(* Whatever was said so far, an opening brings the session to launched.     *)
LEMMA OpeningFits ==
  ASSUME NEW moveOn, NEW log \in Seq(Verbs), WellFormed(moveOn, log), "terminated" \notin Said(log)
  PROVE  \E o \in Openings : /\ o \in Seq(Verbs) /\ RowFits(moveOn, Said(log), o)
                             /\ "launched" \in Said(log) \union Said(o)
                             /\ Said(o) \cap {"terminated", "passed", "failed", "completed"} = {}
  <1>1. Len(log) \in Nat /\ DOMAIN log = 1 .. Len(log)
    OBVIOUS
  <1>2. \A i \in 1 .. Len(log) : (log[i] = "initialized" <=> i = 1) /\ (log[i] = "launched" <=> i = 2)
    BY <1>1 DEF WellFormed
  <1>3. CASE Len(log) >= 2
    <2>1. log[2] = "launched"
      BY <1>1, <1>2, <1>3
    <2>2. "launched" \in Said(log)
      BY <1>1, <1>3, <2>1 DEF Said
    <2>3. RowFits(moveOn, Said(log), <<>>) /\ Said(<<>>) = {}
      BY DEF RowFits, Said
    <2> QED BY <2>2, <2>3 DEF Openings
  <1>4. CASE Len(log) = 1
    <2>1. Said(log) = {"initialized"}
      BY <1>1, <1>2, <1>4 DEF Said
    <2>2. Said(<<"launched">>) = {"launched"}
      BY DEF Said
    <2>3. RowFits(moveOn, Said(log), <<"launched">>)
      BY <2>1 DEF RowFits, AcceptsAfter
    <2>4. <<"launched">> \in Seq(Verbs)
      BY DEF Verbs
    <2> QED BY <2>2, <2>3, <2>4 DEF Openings
  <1>5. CASE Len(log) = 0
    <2> DEFINE row == <<"initialized", "launched">>
    <2>1. Said(log) = {}
      BY <1>1, <1>5 DEF Said
    <2>2. Len(row) = 2 /\ row[1] = "initialized" /\ row[2] = "launched" /\ \A i \in 1 .. 2 : i = 1 \/ i = 2
      OBVIOUS
    <2>3. {row[j] : j \in 1 .. 1 - 1} = {} /\ {row[j] : j \in 1 .. 2 - 1} = {"initialized"}
      OBVIOUS
    <2>4. Said(row) = {"initialized", "launched"} /\ row \in Seq(Verbs) /\ row \in Openings
      BY DEF Said, Verbs, Openings
    <2> HIDE DEF row
    <2>5. RowFits(moveOn, {}, row)
      BY <2>2, <2>3 DEF RowFits, AcceptsAfter
    <2> QED BY <2>1, <2>4, <2>5
  <1>6. Len(log) = 0 \/ Len(log) = 1 \/ Len(log) >= 2
    BY <1>1
  <1> QED BY <1>3, <1>4, <1>5, <1>6

LEMMA WayToTheEnd ==
  ASSUME NEW moveOn \in AllMoveOns, NEW log \in Seq(Verbs), WellFormed(moveOn, log),
         ~HasVerb(log, "terminated"), HasVerb(log, "failed") => moveOn = "Completed"
  PROVE  \E o \in Openings, c \in Closings : Accepted_(moveOn, log, o \o c)
  <1>1. \A v : HasVerb(log, v) <=> v \in Said(log)
    BY SaidVerbs
  <1>2. PICK o \in Openings : /\ o \in Seq(Verbs) /\ RowFits(moveOn, Said(log), o)
                              /\ "launched" \in Said(log) \union Said(o)
                              /\ Said(o) \cap {"terminated", "passed", "failed", "completed"} = {}
    BY <1>1, OpeningFits
  <1>3. "passed" \in Said(log) \/ "failed" \in Said(log) => "completed" \in Said(log)
    <2>1. ASSUME NEW i \in DOMAIN log, log[i] \in {"passed", "failed"} PROVE "completed" \in Said(log)
      <3>1. PICK j \in 1 .. i - 1 : log[j] = "completed"
        BY <2>1 DEF WellFormed
      <3>2. j \in DOMAIN log
        BY <3>1
      <3> QED BY <3>1, <3>2 DEF Said
    <2> QED BY <2>1 DEF Said
  <1> DEFINE said == Said(log) \union Said(o)
  <1>4. /\ "launched" \in said /\ "terminated" \notin said
        /\ "passed" \in said \/ "failed" \in said => "completed" \in said
        /\ "failed" \in said => moveOn = "Completed"
    BY <1>1, <1>2, <1>3
  <1> HIDE DEF said
  <1>5. PICK c \in Closings : c \in Seq(Verbs) /\ RowFits(moveOn, said, c)
    BY <1>4, ClosingFits
  <1>6. Accepted_(moveOn, log, o \o c)
    BY <1>2, <1>5, RowsAccepted DEF said
  <1> QED BY <1>6

(* Why the failure of a session never closes its way: the adapter records   *)
(* one only where completion alone ends the session.                        *)
FailuresFit ==
    \A s \in Sessions : HasVerb(mem.statements[s], "failed") => mem.launches[s].moveOn = "Completed"

LEMMA NothingFailed == \A v : ~HasVerb(<<>>, v)
  BY DEF HasVerb

LEMMA StepFailuresFit ==
  ASSUME Sound, FailuresFit, [AdapterNext]_adapterVars
  PROVE  FailuresFit'
  <1>1. Effects /\ mem \in States
    BY StepEffects, StateType DEF Sound
  <1>2. mem'.launches = mem.launches /\ mem'.statements = mem.statements => FailuresFit'
    BY DEF FailuresFit
  <1>3. CASE KeepEffect
    BY <1>2, <1>3 DEF KeepEffect
  <1>4. CASE LossEffect
    <2>1. \A s \in Sessions : mem'.statements[s] = <<>>
      BY <1>4 DEF LossEffect, EmptyState
    <2> QED BY <2>1, NothingFailed DEF FailuresFit
  <1>5. ASSUME NEW p \in Packages, ImportEffect(p) PROVE FailuresFit'
    BY <1>1, <1>2, <1>5 DEF ImportEffect, States
  <1>6. ASSUME NEW s \in Sessions, NEW launch \in LaunchRecords, LaunchEffect(s, launch) PROVE FailuresFit'
    <2>1. /\ mem'.statements[s] = <<>>
          /\ \A x \in Sessions \ {s} : /\ mem'.launches[x] = mem.launches[x]
                                       /\ mem'.statements[x] = mem.statements[x]
      BY <1>1, <1>6, SaveLaunchFields DEF LaunchEffect
    <2> QED BY <2>1, NothingFailed DEF FailuresFit
  <1>7. ASSUME NEW s \in Sessions, FetchEffect(s) PROVE FailuresFit'
    <2>1. mem'.launches = mem.launches /\ mem'.statements = mem.statements
      BY <1>1, <1>7, ConsumeFetchTokenFields DEF FetchEffect
    <2> QED BY <1>2, <2>1
  <1>8. ASSUME NEW s \in Sessions, NEW id \in RequestIds \union {NoId}, NoteEffect(s, id) PROVE FailuresFit'
    <2>1. mem'.launches = mem.launches /\ mem'.statements = mem.statements
      BY <1>1, <1>8, RecordReplayFields DEF NoteEffect
    <2> QED BY <1>2, <2>1
  <1>9. ASSUME NEW s \in Sessions, NEW id \in RequestIds \union {NoId}, NEW v \in Verbs, LogEffect(s, id, v)
        PROVE  FailuresFit'
    <2> DEFINE noted == RecordReplay(mem, s, id)
    <2>1. noted \in States /\ mem' = AppendStatement(noted, s, v)
            /\ AcceptsVerb(mem.launches[s].moveOn, mem.statements[s], v)
      BY <1>1, <1>9, RecordReplayType DEF LogEffect
    <2>2. /\ mem'.launches = noted.launches
          /\ mem'.statements[s] = Append(noted.statements[s], v)
          /\ \A x \in Sessions \ {s} : mem'.statements[x] = noted.statements[x]
      BY <2>1, AppendStatementFields
    <2>3. noted.launches = mem.launches /\ noted.statements = mem.statements
      BY <1>1, RecordReplayFields
    <2> HIDE DEF noted
    <2>4. mem.statements[s] \in Seq(Verbs)
      BY <1>1, FieldTypes
    <2>5. HasVerb(mem'.statements[s], "failed") => HasVerb(mem.statements[s], "failed") \/ v = "failed"
      <3>1. mem'.statements[s] = Append(mem.statements[s], v)
        BY <2>2, <2>3
      <3>2. \A longer : longer = Append(mem.statements[s], v) =>
              (HasVerb(longer, "failed") => HasVerb(mem.statements[s], "failed") \/ v = "failed")
        BY <1>9, <2>4, AppendedHasVerb
      <3> QED BY <3>1, <3>2
    <2>6. v = "failed" => mem.launches[s].moveOn = "Completed"
      BY <2>1 DEF AcceptsVerb
    <2> QED BY <2>2, <2>3, <2>5, <2>6 DEF FailuresFit
  <1>10. ASSUME NEW r \in Registrations, WaiveEffect(r) PROVE FailuresFit'
    <2>1. mem'.launches = mem.launches /\ mem'.statements = mem.statements
      BY <1>1, <1>10, WaiveFields DEF WaiveEffect
    <2> QED BY <1>2, <2>1
  <1>11. ASSUME NEW s \in Sessions, AbandonEffect(s) PROVE FailuresFit'
    <2>1. mem'.launches = mem.launches /\ mem'.statements = mem.statements
      BY <1>1, <1>11, AbandonFields DEF AbandonEffect
    <2> QED BY <1>2, <2>1
  <1> QED BY <1>1, <1>3, <1>4, <1>5, <1>6, <1>7, <1>8, <1>9, <1>10, <1>11 DEF Effects

LEMMA RecordsHaveAWay ==
  ASSUME Sound, LogsWellFormed, FailuresFit
  PROVE  NoDeadEnd
  <1> SUFFICES ASSUME NEW s \in Sessions, Launched(mem, s), ~HasVerb(mem.statements[s], "terminated")
               PROVE  \E o \in Openings, c \in Closings :
                        Accepted_(mem.launches[s].moveOn, mem.statements[s], o \o c)
    BY DEF NoDeadEnd
  <1>1. mem \in States
    BY StateType DEF Sound
  <1>2. mem.launches[s].moveOn \in AllMoveOns
    BY <1>1, LaunchedRecord DEF LaunchRecords, Launches, NoLaunch
  <1>3. mem.statements[s] \in Seq(Verbs)
    BY <1>1, FieldTypes
  <1> QED BY <1>2, <1>3, WayToTheEnd DEF LogsWellFormed, FailuresFit

\* A session that is not over can always still be brought to its end, after
\* every call, refusal, relaunch and crash: no accepted statement closes the
\* way to the moveOn criterion (cmi5-state.ts, appendSessionStatement).
THEOREM NothingIsADeadEnd == AdapterSpec => []NoDeadEnd
  <1> DEFINE Inv == Sound /\ LogsWellFormed /\ FailuresFit
  <1>1. AdapterInit => Inv
    <2>1. AdapterInit => LogsWellFormed
      BY EmptyWellFormed DEF AdapterInit, EmptyState, LogsWellFormed
    <2>2. AdapterInit => FailuresFit
      BY NothingFailed DEF AdapterInit, EmptyState, FailuresFit
    <2> QED BY <2>1, <2>2, InitSound
  <1>2. Inv /\ [AdapterNext]_adapterVars => Inv'
    BY StepSound, StepWellFormed, StepFailuresFit
  <1>3. Inv => NoDeadEnd
    BY RecordsHaveAWay
  <1> QED BY <1>1, <1>2, <1>3, PTL DEF AdapterSpec
=============================================================================
