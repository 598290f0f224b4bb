---------------------------- MODULE Cmi5Adapter ----------------------------
(***************************************************************************)
(* The cmi5 reference adapter: a small server that imports packages,       *)
(* creates launches, exchanges a launch's fetch token for an authorization *)
(* token, records the statements of a session, waives registrations and    *)
(* abandons sessions.  It keeps everything in memory and rewrites one      *)
(* state file after every change; a restart, or the reload route, reads    *)
(* the file back.                                                          *)
(*                                                                         *)
(* A route reads its body first and then runs to its reply without giving  *)
(* up the event loop, so a call is one step; but a call can write the file *)
(* several times, and the process can stop at any of those writes.  Every  *)
(* handler is therefore an operator from the state to a result: the reply, *)
(* and the snapshots written on the way to it.                             *)
(***************************************************************************)
EXTENDS Integers, Sequences

CONSTANTS
    Packages,        \* package ids
    Sessions,        \* launch session ids, made up by the caller or by newId
    NoSession,       \* no session id at all
    Registrations,   \* registration ids
    NoRegistration,  \* the registration of a session never launched
    RequestIds,      \* values of the x-cmi5-request-id header
    NoId,            \* a request without that header
    MoveOns,         \* the moveOn criteria the launches of this instance ask for
    FetchTtl,        \* CMI5_FETCH_TOKEN_TTL_SECONDS
    AuthTtl,         \* CMI5_AUTH_TOKEN_TTL_SECONDS
    MaxTime,         \* bound: the largest reading of the clock
    MaxLaunches,     \* bound, per session id: its launches
    MaxStatements,   \* bound, per session id: statements in its record
    TornWrites       \* whether a crash can leave a half-written state file

Verbs == {"initialized", "launched", "progressed", "completed", "passed", "failed", "terminated"}
AllMoveOns == {"Passed", "Completed", "CompletedAndPassed", "CompletedOrPassed", "NotApplicable"}

ASSUME SessionsAssumption == NoSession \notin Sessions
ASSUME RegistrationsAssumption == NoRegistration \notin Registrations
ASSUME RequestIdsAssumption == NoId \notin RequestIds
ASSUME MoveOnsAssumption == MoveOns \subseteq AllMoveOns
ASSUME TimeAssumption == FetchTtl \in Nat /\ AuthTtl \in Nat /\ MaxTime \in Nat
ASSUME BoundsAssumption == /\ \A s \in Sessions : MaxLaunches[s] \in Nat /\ MaxStatements[s] \in Nat
                           /\ TornWrites \in BOOLEAN

Never == -1                    \* a date that was never set
Times == 0 .. MaxTime

(***************************************************************************)
(* The state.  A token names its session (makeAuthToken) and a fresh       *)
(* identifier (newId), here the number of the token among those of its     *)
(* session; a launch has an identity too, its number among the launches of *)
(* its session id.  Use counts and the dates no route reads back are left  *)
(* out.                                                                    *)
(***************************************************************************)
Token(s, n) == [session |-> s, issue |-> n]
NoToken     == Token(NoSession, 0)       \* no authorization header, or none issued yet
ForeignToken == Token(NoSession, 1)      \* a header the adapter never issued

NoLaunch == [registration |-> NoRegistration, moveOn |-> "NotApplicable", round |-> 0]
NoAccess == [consumed |-> FALSE, fetchExpires |-> Never, token |-> NoToken, authExpires |-> Never]

EmptyState ==
    [packages      |-> {},
     launches      |-> [s \in Sessions |-> NoLaunch],
     access        |-> [s \in Sessions |-> NoAccess],
     replay        |-> [s \in Sessions |-> {}],
     statements    |-> [s \in Sessions |-> <<>>],
     registrations |-> {},
     waived        |-> [r \in Registrations |-> Never],
     abandoned     |-> {}]

Launched(st, s) == s \in Sessions /\ st.launches[s] # NoLaunch

(* The state file: absent or unreadable, or a whole snapshot. *)
NoFile == [readable |-> FALSE, snapshot |-> EmptyState]
File(st) == [readable |-> TRUE, snapshot |-> st]
\* Mutant: request ids are left out of the snapshot.
LoadWithoutReplay(file) ==
    IF file.readable THEN [file.snapshot EXCEPT !.replay = EmptyState.replay] ELSE EmptyState

Load(file) == IF file.readable THEN file.snapshot ELSE EmptyState

VARIABLES
    mem,     \* the adapter's maps
    disk,    \* the state file
    now,     \* Date.now(), a wall clock: it can be set back
    issued,  \* per session, how many authorization tokens were ever made (newId never repeats)
    rounds,  \* per session, how many launches were ever made
    holding, \* the tokens delivered to callers, each with the round of the launch it was made in
    served   \* the pairs of token and request id acknowledged so far

adapterVars == <<mem, disk, now, issued, rounds, holding, served>>

(***************************************************************************)
(* The result of a handler: its reply, the maps it leaves, and the         *)
(* snapshots it wrote on the way.                                          *)
(***************************************************************************)
Refuse(code, after, writes) == [reply |-> [status |-> code], after |-> after, writes |-> writes]
Accept(body, after, writes) == [reply |-> body, after |-> after, writes |-> writes]
Ok == [status |-> 200]

(***************************************************************************)
(* The helpers of cmi5-state.ts.                                           *)
(***************************************************************************)
HasVerb(log, v) == \E i \in DOMAIN log : log[i] = v

MoveOnSatisfied(moveOn, log) ==
    LET completed == HasVerb(log, "completed")
        passed    == HasVerb(log, "passed")
    IN  \/ moveOn = "Passed" /\ passed
        \/ moveOn = "Completed" /\ completed
        \/ moveOn = "CompletedAndPassed" /\ completed /\ passed
        \/ moveOn = "CompletedOrPassed" /\ (completed \/ passed)
        \/ moveOn = "NotApplicable"

\* Mutant: failed is accepted whatever the moveOn criterion.
AcceptsVerbFailedAlways(moveOn, log, v) ==
    LET done(w) == HasVerb(log, w)
    IN  /\ ~done("terminated")
        /\ v = "initialized" => log = <<>>
        /\ v = "launched"    => done("initialized") /\ ~done("launched")
        /\ v \in {"progressed", "completed"} => done("launched") /\ ~done("completed")
        /\ v \in {"passed", "failed"} => done("completed") /\ ~done("passed") /\ ~done("failed")
        /\ v = "passed"      => moveOn # "NotApplicable"
        /\ v = "terminated"  => done("launched") /\ MoveOnSatisfied(moveOn, log)

(* The sequence rules of a session's statements. *)
AcceptsVerb(moveOn, log, v) ==
    LET done(w) == HasVerb(log, w)
    IN  /\ ~done("terminated")
        /\ v = "initialized" => log = <<>>
        /\ v = "launched"    => done("initialized") /\ ~done("launched")
        /\ v = "progressed"  => done("launched") /\ ~done("completed")
        /\ v = "completed"   => done("launched") /\ ~done("completed")
        /\ v = "passed"      => /\ done("completed") /\ ~done("passed") /\ ~done("failed")
                                /\ moveOn # "NotApplicable"
        /\ v = "failed"      => /\ done("completed") /\ ~done("passed") /\ ~done("failed")
                                /\ moveOn = "Completed"
        /\ v = "terminated"  => done("launched") /\ MoveOnSatisfied(moveOn, log)

AppendStatement(st, s, v) == [st EXCEPT !.statements[s] = Append(@, v)]

\* Mutant: a session launched again keeps its statements.
SaveLaunchKeepingLog(st, s, launch, t) ==
    [st EXCEPT !.launches[s] = launch,
               !.registrations = @ \union {launch.registration},
               !.replay[s] = {},
               !.access[s] = [NoAccess EXCEPT !.fetchExpires = t + FetchTtl]]

(* A launch replaces whatever the session id stood for before. *)
SaveLaunch(st, s, launch, t) ==
    [st EXCEPT !.launches[s] = launch,
               !.registrations = @ \union {launch.registration},
               !.statements[s] = <<>>,
               !.replay[s] = {},
               !.access[s] = [NoAccess EXCEPT !.fetchExpires = t + FetchTtl]]

(* Exchanging the fetch token, and what it is refused for. *)
FetchStatus(st, s, t) ==
    IF st.access[s].consumed THEN 409
    ELSE IF t >= st.access[s].fetchExpires THEN 403
    ELSE 200

\* Mutant: the token's time is added to the fetch token's.
ConsumeFetchTokenLate(st, s, token, t) ==
    [st EXCEPT !.access[s] = [@ EXCEPT !.consumed = TRUE,
                                       !.token = token,
                                       !.authExpires = st.access[s].fetchExpires + AuthTtl],
               !.replay[s] = {}]

ConsumeFetchToken(st, s, token, t) ==
    [st EXCEPT !.access[s] = [@ EXCEPT !.consumed = TRUE,
                                       !.token = token,
                                       !.authExpires = t + AuthTtl],
               !.replay[s] = {}]

\* Mutant: any token that was issued will do.
AuthStatusAnySession(st, token, s, t) ==
    IF \A x \in Sessions : st.access[x].token = NoToken \/ st.access[x].token # token THEN 401
    ELSE IF t >= st.access[s].authExpires \/ s \in st.abandoned THEN 403
    ELSE 200

(* The session an authorization header belongs to must be the one asked for. *)
AuthStatus(st, token, s, t) ==
    LET holders == {x \in Sessions : st.access[x].token # NoToken /\ st.access[x].token = token}
    IN  IF s \notin holders THEN 401
        ELSE IF t >= st.access[s].authExpires THEN 403
        ELSE IF s \in st.abandoned THEN 403
        ELSE 200

IsReplay(st, s, id) == id # NoId /\ id \in st.replay[s]
RecordReplay(st, s, id) == IF id = NoId THEN st ELSE [st EXCEPT !.replay[s] = @ \union {id}]

Waive(st, r, t) == [st EXCEPT !.waived[r] = t]

Abandon(st, s, t) ==
    [st EXCEPT !.abandoned = @ \union {s}, !.access[s].authExpires = t]

(***************************************************************************)
(* The routes.  Payloads that cannot be read, and the adapter's bearer     *)
(* token, are refused before the state is looked at.                       *)
(***************************************************************************)
(* An imported package: its manifest, and its assignable units as pairs of *)
(* an id and a moveOn that may be malformed.                               *)
PackageAccepted(upload) ==
    /\ upload.manifest
    /\ upload.aus # <<>>
    /\ \A i \in DOMAIN upload.aus : upload.aus[i].moveOn \in AllMoveOns
    /\ \A i, j \in DOMAIN upload.aus : i # j => upload.aus[i].id # upload.aus[j].id

PackageImport(st, q) ==
    LET saved == [st EXCEPT !.packages = @ \union {q.package}]
    IN  IF PackageAccepted(q.upload) THEN Accept(Ok, saved, <<saved>>) ELSE Refuse(400, st, <<>>)

\* Mutant: an abandoned session can be launched again.
LaunchStatusAbandoned(st, q) ==
    IF q.flaw = "package" THEN 400
    ELSE IF q.package \notin st.packages THEN 404
    ELSE IF q.flaw \in {"mode", "field"} THEN 400
    ELSE 200

(* flaw: where the payload is malformed.  The checks come in this order. *)
LaunchStatus(st, q) ==
    IF q.flaw = "package" THEN 400
    ELSE IF q.package \notin st.packages THEN 404
    ELSE IF q.flaw = "mode" THEN 400
    ELSE IF q.session \in st.abandoned THEN 409
    ELSE IF q.flaw = "field" THEN 400
    ELSE 200

LaunchCreate(st, q, t) ==
    LET launch == [registration |-> q.registration, moveOn |-> q.moveOn, round |-> rounds[q.session] + 1]
        saved  == SaveLaunch(st, q.session, launch, t)
        body   == [status |-> 200, session |-> q.session, registration |-> q.registration,
                   moveOn |-> q.moveOn, waivedAt |-> st.waived[q.registration]]
    IN  IF LaunchStatus(st, q) = 200
        THEN Accept(body, saved, <<saved>>)
        ELSE Refuse(LaunchStatus(st, q), st, <<>>)

(* q.token is the session whose fetch token the caller shows: a fetch token *)
(* is made from the session id alone, so it outlives the launch it was in.  *)
Fetch(st, q, t) ==
    LET token == Token(q.session, issued[q.session] + 1)
        saved == ConsumeFetchToken(st, q.session, token, t)
    IN  IF q.session = NoSession \/ q.token = NoSession THEN Refuse(400, st, <<>>)
        ELSE IF ~Launched(st, q.session) \/ q.token # q.session THEN Refuse(404, st, <<>>)
        ELSE IF FetchStatus(st, q.session, t) # 200
             THEN Refuse(FetchStatus(st, q.session, t), st, <<>>)
        ELSE Accept([status |-> 200, token |-> token], saved, <<saved>>)

LaunchData(st, q, t) ==
    LET noted == RecordReplay(st, q.session, q.id)
        launch == st.launches[q.session]
        body  == [status |-> 200, registration |-> launch.registration, moveOn |-> launch.moveOn,
                  waivedAt |-> st.waived[launch.registration]]
    IN  IF ~Launched(st, q.session) THEN Refuse(404, st, <<>>)
        ELSE IF q.token = NoToken THEN Refuse(401, st, <<>>)
        ELSE IF AuthStatus(st, q.token, q.session, t) # 200
             THEN Refuse(AuthStatus(st, q.token, q.session, t), st, <<>>)
        ELSE IF IsReplay(st, q.session, q.id) THEN Refuse(409, st, <<st>>)
        ELSE Accept(body, noted, <<st, noted>>)

(* A refused statement has used up its request id. *)
PostStatement(st, q, t) ==
    LET noted  == RecordReplay(st, q.session, q.id)
        launch == st.launches[q.session]
        logged == AppendStatement(noted, q.session, q.verb)
    IN  IF q.token = NoToken THEN Refuse(401, st, <<>>)
        ELSE IF ~Launched(st, q.session) THEN Refuse(404, st, <<>>)
        ELSE IF AuthStatus(st, q.token, q.session, t) # 200
             THEN Refuse(AuthStatus(st, q.token, q.session, t), st, <<>>)
        ELSE IF IsReplay(st, q.session, q.id) THEN Refuse(409, st, <<st>>)
        ELSE IF \/ launch.registration # q.registration
                \/ q.session \in st.abandoned
                \/ ~AcceptsVerb(launch.moveOn, st.statements[q.session], q.verb)
             THEN Refuse(409, noted, <<st, noted>>)
        ELSE Accept(Ok, logged, <<st, noted, logged>>)

GetStatements(st, q, t) ==
    LET log  == st.statements[q.session]
        body == [status |-> 200, verbs |-> log,
                 moveOnSatisfied |-> MoveOnSatisfied(st.launches[q.session].moveOn, log)]
    IN  IF ~Launched(st, q.session) THEN Refuse(404, st, <<>>)
        ELSE IF q.token = NoToken THEN Refuse(401, st, <<>>)
        ELSE IF AuthStatus(st, q.token, q.session, t) # 200
             THEN Refuse(AuthStatus(st, q.token, q.session, t), st, <<>>)
        ELSE Accept(body, st, <<st>>)

WaiveRegistration(st, q, t) ==
    LET already == st.waived[q.registration] # Never
        at      == IF already THEN st.waived[q.registration] ELSE t
        body    == [status |-> 200, already |-> already, waivedAt |-> at]
    IN  IF q.registration = NoRegistration THEN Refuse(400, st, <<>>)
        ELSE IF q.registration \notin st.registrations THEN Refuse(404, st, <<>>)
        ELSE IF already THEN Accept(body, st, <<>>)
        ELSE Accept(body, Waive(st, q.registration, t), <<Waive(st, q.registration, t)>>)

\* Mutant: the abandonment is not written to the file.
AbandonSessionUnsaved(st, q, t) ==
    IF q.session = NoSession THEN Refuse(400, st, <<>>)
    ELSE IF ~Launched(st, q.session) THEN Refuse(404, st, <<>>)
    ELSE IF q.session \in st.abandoned THEN Refuse(409, st, <<>>)
    ELSE Accept(Ok, Abandon(st, q.session, t), <<>>)

AbandonSession(st, q, t) ==
    IF q.session = NoSession THEN Refuse(400, st, <<>>)
    ELSE IF ~Launched(st, q.session) THEN Refuse(404, st, <<>>)
    ELSE IF q.session \in st.abandoned THEN Refuse(409, st, <<>>)
    ELSE Accept(Ok, Abandon(st, q.session, t), <<Abandon(st, q.session, t)>>)

(***************************************************************************)
(* A call is answered: what it left is in memory, what it wrote is in the  *)
(* file.  Or the process stops on the way, after any of the call's writes  *)
(* or in the middle of one, and starts again from the file; the caller has *)
(* no reply.                                                               *)
(***************************************************************************)
FileAfter(h, k) == IF k = 0 THEN disk ELSE File(h.writes[k])

Answer(h) ==
    /\ mem' = h.after
    /\ disk' = FileAfter(h, Len(h.writes))

Crash(h) ==
    /\ \/ \E k \in 0 .. Len(h.writes) : disk' = FileAfter(h, k)
       \/ TornWrites /\ h.writes # <<>> /\ disk' = NoFile
    /\ mem' = Load(disk')

Accepted(h) == h.reply.status = 200
FirstOf(q) == [token |-> q.token, id |-> q.id]

ImportCall(q) ==
    LET h == PackageImport(mem, q)
    IN  /\ Answer(h) \/ Crash(h)
        /\ UNCHANGED <<now, issued, rounds, holding, served>>

(* newId gives every launch and every token an identifier of its own.  One  *)
(* that neither the caller nor the file ever saw is not counted.            *)
LaunchCall(q) ==
    LET h == LaunchCreate(mem, q, now)
    IN  /\ Answer(h) \/ Crash(h)
        /\ rounds' = IF Accepted(h) /\ mem'.launches[q.session].round = rounds[q.session] + 1
                     THEN [rounds EXCEPT ![q.session] = @ + 1]
                     ELSE rounds
        /\ UNCHANGED <<now, issued, holding, served>>

FetchCall(q) ==
    LET h == Fetch(mem, q, now)
    IN  /\ \/ /\ Answer(h)
              /\ holding' = IF Accepted(h)
                            THEN holding \union {[token |-> h.reply.token, round |-> mem.launches[q.session].round]}
                            ELSE holding
           \/ Crash(h) /\ UNCHANGED holding
        /\ issued' = IF Accepted(h) /\ mem'.access[q.session].token = Token(q.session, issued[q.session] + 1)
                     THEN [issued EXCEPT ![q.session] = @ + 1]
                     ELSE issued
        /\ UNCHANGED <<now, rounds, served>>

StatementCall(q) ==
    LET h == PostStatement(mem, q, now)
    IN  /\ \/ /\ Answer(h)
              /\ served' = IF Accepted(h) /\ q.id # NoId THEN served \union {FirstOf(q)} ELSE served
           \/ Crash(h) /\ UNCHANGED served
        /\ UNCHANGED <<now, issued, rounds, holding>>

LaunchDataCall(q) ==
    LET h == LaunchData(mem, q, now)
    IN  /\ \/ /\ Answer(h)
              /\ served' = IF Accepted(h) /\ q.id # NoId THEN served \union {FirstOf(q)} ELSE served
           \/ Crash(h) /\ UNCHANGED served
        /\ UNCHANGED <<now, issued, rounds, holding>>

StatementsCall(q) ==
    LET h == GetStatements(mem, q, now)
    IN  /\ Answer(h) \/ Crash(h)
        /\ UNCHANGED <<now, issued, rounds, holding, served>>

WaiveCall(q) ==
    LET h == WaiveRegistration(mem, q, now)
    IN  /\ Answer(h) \/ Crash(h)
        /\ UNCHANGED <<now, issued, rounds, holding, served>>

AbandonCall(q) ==
    LET h == AbandonSession(mem, q, now)
    IN  /\ Answer(h) \/ Crash(h)
        /\ UNCHANGED <<now, issued, rounds, holding, served>>

(* The reload route forgets everything and reads the file, like a restart. *)
ReloadCall ==
    /\ mem' = Load(disk)
    /\ UNCHANGED <<disk, now, issued, rounds, holding, served>>

(***************************************************************************)
(* Any caller, holding any token that was delivered, at any time.          *)
(***************************************************************************)
Tokens == {h.token : h \in holding} \union {NoToken, ForeignToken}
GoodPackage == [manifest |-> TRUE, aus |-> <<[id |-> 1, moveOn |-> "Completed"]>>]
BadPackage  == [GoodPackage EXCEPT !.aus = <<>>]

AnyImport == \E p \in Packages, u \in {GoodPackage, BadPackage} :
    ImportCall([package |-> p, upload |-> u])

AnyLaunch == \E p \in Packages, s \in Sessions, r \in Registrations, m \in MoveOns, f \in {"none", "field"} :
    /\ rounds[s] < MaxLaunches[s]
    /\ LaunchCall([package |-> p, session |-> s, registration |-> r, moveOn |-> m, flaw |-> f])

AnyFetch == \E s, x \in Sessions : FetchCall([session |-> s, token |-> x])

AnyStatement == \E s \in Sessions, r \in Registrations, v \in Verbs, k \in Tokens, i \in RequestIds \union {NoId} :
    /\ Len(mem.statements[s]) < MaxStatements[s]
    /\ StatementCall([session |-> s, registration |-> r, verb |-> v, token |-> k, id |-> i])

AnyLaunchData == \E s \in Sessions, k \in Tokens, i \in RequestIds \union {NoId} :
    LaunchDataCall([session |-> s, token |-> k, id |-> i])

AnyStatements == \E s \in Sessions, k \in Tokens : StatementsCall([session |-> s, token |-> k])

AnyWaive == \E r \in Registrations : WaiveCall([registration |-> r])

AnyAbandon == \E s \in Sessions : AbandonCall([session |-> s])

Clock == \E t \in Times : now' = t /\ UNCHANGED <<mem, disk, issued, rounds, holding, served>>

(* No file yet.  Starting from an earlier life's file is what Crash does.  *)
AdapterInit ==
    /\ mem = EmptyState
    /\ disk = NoFile
    /\ now = 0
    /\ issued = [s \in Sessions |-> 0]
    /\ rounds = [s \in Sessions |-> 0]
    /\ holding = {}
    /\ served = {}

AdapterNext ==
    \/ AnyImport \/ AnyLaunch \/ AnyFetch \/ AnyStatement \/ AnyLaunchData
    \/ AnyStatements \/ AnyWaive \/ AnyAbandon \/ ReloadCall \/ Clock

AdapterSpec == AdapterInit /\ [][AdapterNext]_adapterVars

=============================================================================
