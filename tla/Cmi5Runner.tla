----------------------------- MODULE Cmi5Runner -----------------------------
(***************************************************************************)
(* Conformance runs against the cmi5 reference adapter.  A run is a long   *)
(* list of calls and of what each must be answered; the calls of one check *)
(* share a verdict, recorded when the last of them is answered.  Several   *)
(* runs share one adapter, and share it with nothing but their names to    *)
(* keep them apart (two may be configured with the same package id); the   *)
(* adapter can restart between two calls, and a run that meets it down in  *)
(* the middle of a call ends without a report.                             *)
(*                                                                         *)
(* The adapter here is Cmi5Adapter, with the same handlers.  Each script   *)
(* exchanges a session's fetch token once at most, so the identifiers that *)
(* adapter counts for its own properties are left as they are.             *)
(***************************************************************************)
EXTENDS Cmi5Adapter, SequencesExt

CONSTANTS
    Runners,     \* the conformance runs
    PackageId,   \* runner -> the id of its package: what its configuration gives, or one made for the run
    Uploads,     \* what a run's configuration may give as the package
    Adverts      \* the operations and optional features an adapter may advertise

VARIABLES
    runs,        \* runner -> its run
    advertised   \* what the adapter advertises

runnerVars == <<adapterVars, runs, advertised>>

(***************************************************************************)
(* Names.  Session ids come from newId and registration ids too, so they   *)
(* are the runner's own, but for the ones a check fixes.                   *)
(***************************************************************************)
LaunchedAs == [Passed |-> "as Passed", Completed |-> "as Completed", CompletedAndPassed |-> "as CompletedAndPassed",
               CompletedOrPassed |-> "as CompletedOrPassed", NotApplicable |-> "as NotApplicable"]
Slots == {"initial", "security", "second", "identity", "browse", "review", "resumed", "anew",
          "waived", "crossA", "crossB"} \union AllMoveOns \union {LaunchedAs[m] : m \in AllMoveOns}
\* Mutant: the ids a run launches with are fixed, not made for the run.
OwnFixed(r, slot) == <<CHOOSE x \in Runners : TRUE, slot>>

Own(r, slot)  == <<r, slot>>
Explicit      == <<"any runner", "explicit">>    \* session-explicit-001, registration-explicit-001
Missing       == <<"no runner", "missing">>      \* missing-session, registration-missing
MissingPackage == "missing-package"
RunnerSessions == (Runners \X Slots) \union {Explicit}

ASSUME NamesAssumption == /\ Sessions = RunnerSessions /\ Registrations = RunnerSessions
                          /\ PackageId \in [Runners -> Packages] /\ Runners \subseteq RequestIds
ASSUME NamesApart == /\ Explicit \notin Runners \X Slots /\ \A r \in Runners : PackageId[r] # MissingPackage
                     /\ Missing \notin RunnerSessions /\ Missing # NoSession /\ Missing # NoRegistration

RequiredOperations == {"import", "launch", "waive", "abandon", "fixtures"}
OptionalOperations == {"fetch", "data", "post", "get", "reload"}
OptionalFeatures == {"structure", "fetch security", "replay protection", "durable", "cross system"}

(***************************************************************************)
(* A step of a script: the call, what its reply must show, the checks that *)
(* fail when it does not, the checks whose verdict is recorded with it,    *)
(* and the sessions the call cannot do without: launched, or exchanged for *)
(* a token.  An inner step is passed over when the first launch failed.    *)
(***************************************************************************)
Do(op, q, expect) ==
    [op |-> op, q |-> q, expect |-> expect, feeds |-> {}, closes |-> {}, skips |-> {},
     needs |-> {}, tokens |-> {}, inner |-> FALSE, date |-> "free"]
Read(expect) == Do("read", <<>>, expect)     \* another look at the last reply
Status(code) == [status |-> code]

Needing(slots, tokens, steps) ==
    [i \in DOMAIN steps |-> [steps[i] EXCEPT !.needs = @ \union slots, !.tokens = @ \union tokens]]
Inner(steps) == [i \in DOMAIN steps |-> [steps[i] EXCEPT !.inner = TRUE]]
Feeding(checks, steps) == [i \in DOMAIN steps |-> [steps[i] EXCEPT !.feeds = @ \union checks]]
Closing(checks, steps) == [steps EXCEPT ![Len(steps)].closes = @ \union checks]
Check(name, steps) == Closing({name}, Feeding({name}, steps))
Skip(name) == <<[Do("read", <<>>, <<>>) EXCEPT !.skips = {name}]>>
CheckIf(possible, name, steps) == IF possible THEN Check(name, steps) ELSE Skip(name)
Each(cases, Steps(_)) == FlattenSeq([i \in DOMAIN cases |-> Steps(cases[i])])

Import(r, upload)  == [package |-> PackageId[r], upload |-> upload]
LaunchOf(r, s, g)  == [package |-> PackageId[r], session |-> s, registration |-> g, moveOn |-> "CompletedAndPassed", flaw |-> "none"]
Launching(r, slot) == LaunchOf(r, Own(r, slot), Own(r, slot))
Exchange(r, slot)  == Do("fetch", [session |-> Own(r, slot), token |-> Own(r, slot)], Status(200))
TokenOf(r, slot)   == Token(Own(r, slot), 1)
Statement(r, slot, verb, id, code) ==
    Do("post", [session |-> Own(r, slot), registration |-> Own(r, slot), verb |-> verb,
                token |-> TokenOf(r, slot), id |-> id], Status(code))
Statements(r, slot, verbs) == [i \in DOMAIN verbs |-> Statement(r, slot, verbs[i], NoId, 200)]
Data(r, slot, token, expect) == Do("data", [session |-> Own(r, slot), token |-> token, id |-> NoId], expect)
Get(r, slot, token, expect) == Do("get", [session |-> Own(r, slot), token |-> token], expect)

(***************************************************************************)
(* The checks, in the order of run.ts.                                     *)
(***************************************************************************)
Fixtures(r) == Check("fixtures-provision", <<Do("fixtures", <<>>, Status(200))>>)

InvalidPackage(r) == Check("invalid-package-rejection", <<Do("import", Import(r, BadPackage), Status(400))>>)

MalformedPackages ==
    <<[GoodPackage EXCEPT !.manifest = FALSE, !.aus = <<>>], [GoodPackage EXCEPT !.manifest = FALSE], BadPackage,
      [GoodPackage EXCEPT !.aus = <<[id |-> 1, moveOn |-> "Any"]>>]>>
StructureMatrix(r, offers) ==
    CheckIf("structure" \in offers, "package-structure-matrix",
            [i \in DOMAIN MalformedPackages |-> Do("import", Import(r, MalformedPackages[i]), Status(400))])

ImportPackage(r, upload) == Check("package-import", <<Do("import", Import(r, upload), Status(200))>>)

InitialLaunch(r) ==
    Check("launch-create",
          <<Do("launch", Launching(r, "initial"),
               [status |-> 200, session |-> Own(r, "initial"), registration |-> Own(r, "initial")])>>)

LaunchContract(r) ==
    Check("launch-data-contract", <<Read([moveOn |-> "CompletedAndPassed", session |-> Own(r, "initial")])>>)
ActorContract(r) == Check("actor-entitlement-contract", <<Read(Status(200))>>)
LaunchUrlContract(r) ==
    Check("launch-url-query-contract", <<Read([registration |-> Own(r, "initial"), moveOn |-> "CompletedAndPassed"])>>)

FetchLaunchData(r, offers) ==
    CheckIf({"fetch", "data"} \subseteq offers, "fetch-launch-data-contract",
            <<Exchange(r, "initial")>>
            \o Needing({}, {"initial"},
                 <<Data(r, "initial", TokenOf(r, "initial"),
                        [status |-> 200, registration |-> Own(r, "initial"), moveOn |-> "CompletedAndPassed"]),
                   [Exchange(r, "initial") EXCEPT !.expect = Status(409)]>>))

SecurityMatrix(r, offers) ==
    LET at == Own(r, "security")
        replayed == IF {"post", "replay protection"} \subseteq offers
                    THEN <<Statement(r, "security", "initialized", r, 200), Statement(r, "security", "launched", r, 409)>>
                    ELSE <<>>
    IN  CheckIf({"fetch", "data", "fetch security"} \subseteq offers, "fetch-auth-security-matrix",
            <<Do("launch", Launching(r, "security"), Status(200)),
              Do("fetch", [session |-> NoSession, token |-> NoSession], Status(400))>>
            \o Needing({"security"}, {},
                 <<Do("fetch", [session |-> at, token |-> Missing], Status(404)), Exchange(r, "security")>>)
            \o Needing({}, {"security"},
                 <<Data(r, "security", NoToken, Status(401)), Data(r, "security", ForeignToken, Status(401)),
                   Do("launch", Launching(r, "second"), Status(200))>>
                 \o Needing({"second"}, {}, <<Exchange(r, "second")>>)
                 \o Needing({}, {"second"}, <<Data(r, "second", TokenOf(r, "security"), Status(401))>>)
                 \o replayed)
            \o Needing({"security"}, {}, <<Do("fetch", [session |-> Missing, token |-> at], Status(404))>>))

(* The statements each moveOn criterion is tried with, and a verb that must *)
(* be refused after them.                                                   *)
Flow(m) ==
    CASE m \in {"Passed", "CompletedOrPassed"} ->
            <<"initialized", "launched", "progressed", "completed", "passed", "terminated">>
      [] m = "Completed" -> <<"initialized", "launched", "progressed", "completed", "failed", "terminated">>
      [] m = "CompletedAndPassed" -> <<"initialized", "launched", "completed", "passed", "terminated">>
      [] m = "NotApplicable" -> <<"initialized", "launched", "progressed", "terminated">>
Refused(m) == IF m = "Completed" THEN <<>> ELSE IF m = "NotApplicable" THEN <<"passed">> ELSE <<"failed">>
MoveOnCases == <<"Passed", "Completed", "CompletedAndPassed", "CompletedOrPassed", "NotApplicable">>

LifecycleMatrix(r, offers) ==
    CheckIf({"fetch", "post", "get"} \subseteq offers, "au-runtime-lifecycle-matrix",
        Each(MoveOnCases, LAMBDA m :
            <<Do("launch", [Launching(r, m) EXCEPT !.moveOn = m], Status(200))>>
            \o Needing({m}, {}, <<Exchange(r, m)>>)
            \o Needing({}, {m},
                 Statements(r, m, Flow(m))
                 \o Each(Refused(m), LAMBDA v : <<Statement(r, m, v, NoId, 409)>>)
                 \o <<Get(r, m, TokenOf(r, m),
                          [status |-> 200, verbs |-> Flow(m), terminated |-> TRUE, moveOnSatisfied |-> TRUE])>>)))

IdentityMatrix(r) == Check("identity-override-matrix", <<Do("launch", Launching(r, "identity"), Status(200))>>)

IdentityPassthrough(r) ==
    Check("launch-identity-passthrough",
          <<Do("launch", LaunchOf(r, Explicit, Explicit), [status |-> 200, session |-> Explicit, registration |-> Explicit])>>)

MoveOnMatrix(r) ==
    Closing({"moveon-matrix"}, Feeding({"moveon-matrix", "context-template-matrix"},
        Each(MoveOnCases, LAMBDA m :
            <<Do("launch", [Launching(r, LaunchedAs[m]) EXCEPT !.moveOn = m], [status |-> 200, moveOn |-> m])>>)))

LaunchModeMatrix(r) ==
    Closing({"launch-mode-matrix", "context-template-matrix"}, Feeding({"launch-mode-matrix", "context-template-matrix"},
        <<Do("launch", Launching(r, "browse"), Status(200)), Do("launch", Launching(r, "review"), Status(200))>>))

InvalidLaunches(r) ==
    LET flawed(f) == [Launching(r, "anew") EXCEPT !.flaw = f]
        bad(q, code) == Do("launch", q, Status(code))
    IN  Check("invalid-launch-matrix",
            <<bad(flawed("package"), 400), bad([Launching(r, "anew") EXCEPT !.package = MissingPackage], 404),
              bad(flawed("mode"), 400), bad(flawed("mode"), 400)>>
            \o [i \in 1 .. 5 |-> bad(flawed("field"), 400)])

Resume(r) ==
    Check("resume-continuity",
          <<Do("launch", LaunchOf(r, Own(r, "resumed"), Own(r, "initial")),
               [status |-> 200, registration |-> Own(r, "initial"), session |-> Own(r, "resumed")])>>)

ResumeMatrix(r) ==
    LET again == LaunchOf(r, Own(r, "anew"), Own(r, "initial"))
    IN  Check("resume-matrix",
            <<Do("launch", [again EXCEPT !.flaw = "package"], Status(400)),
              Do("launch", Launching(r, "anew"), Status(200)),
              Do("launch", [again EXCEPT !.package = MissingPackage], Status(404))>>)

Waiver(r, expect, date) ==
    [Do("waive", [registration |-> Own(r, "initial")], expect) EXCEPT !.date = date, !.needs = {"initial"}]
Abandonment(r, code) ==
    [Do("abandon", [session |-> Own(r, "initial")], Status(code)) EXCEPT !.needs = {"initial"}]
LaunchAbandoned(r) ==
    [Do("launch", LaunchOf(r, Own(r, "initial"), Own(r, "anew")), Status(409)) EXCEPT !.needs = {"initial"}]

Lifecycle == "lifecycle-state-matrix"
WaiveChecks(r) ==
    Check("registration-waive", <<Waiver(r, Status(200), "first")>>)
    \o Feeding({Lifecycle},
         <<[Read([already |-> FALSE]) EXCEPT !.needs = {"initial"}],
           Waiver(r, [status |-> 200, already |-> TRUE], "same"),
           [Do("launch", LaunchOf(r, Own(r, "waived"), Own(r, "initial")), Status(200))
                EXCEPT !.date = "same", !.needs = {"initial"}]>>)

AbandonChecks(r) ==
    Check("session-abandon", <<Abandonment(r, 200)>>)
    \o Feeding({Lifecycle}, <<Abandonment(r, 409), LaunchAbandoned(r)>>)
    \o Inner(Closing({Lifecycle}, <<Read(<<>>)>>))

(* Without the reload operation the check fails rather than being skipped. *)
DurableMatrix(r, offers) ==
    CheckIf("durable" \in offers, "durable-state-matrix",
        (IF "reload" \in offers
         THEN <<Do("reload", <<>>, [status |-> 200, loaded |-> TRUE])>>
              \o Inner(<<Waiver(r, [status |-> 200, already |-> TRUE], "free"), Abandonment(r, 409), LaunchAbandoned(r)>>)
         ELSE <<Read([loaded |-> TRUE])>>)
        \o <<Read(<<>>)>>)

CrossSystem(r, offers) ==
    CheckIf({"fetch", "data", "post", "get", "cross system"} \subseteq offers, "cross-system-integration-matrix",
        <<Do("launch", Launching(r, "crossA"), Status(200)), Do("launch", Launching(r, "crossB"), Status(200))>>
        \o Needing({"crossA", "crossB"}, {}, <<Exchange(r, "crossA"), Exchange(r, "crossB")>>)
        \o Needing({}, {"crossA", "crossB"},
             Statements(r, "crossB", Flow("CompletedAndPassed"))
             \o Statements(r, "crossA", <<"initialized", "launched", "progressed">>)
             \o <<Get(r, "crossA", TokenOf(r, "crossA"), [status |-> 200, count |-> 3]),
                  Get(r, "crossB", TokenOf(r, "crossB"), [status |-> 200, count |-> 5]),
                  Get(r, "crossA", TokenOf(r, "crossB"), Status(401))>>))

InvalidOperations(r) ==
    Closing({"invalid-operation-matrix"}, Feeding({"invalid-operation-matrix"},
        <<Do("waive", [registration |-> NoRegistration], Status(400)),
          Do("waive", [registration |-> Missing], Status(404)),
          Do("abandon", [session |-> NoSession], Status(400)),
          Do("abandon", [session |-> Missing], Status(404))>>
        \o Inner(<<Abandonment(r, 409)>>)
        \o <<Read(<<>>)>>))

(* Everything that hangs on the first launch is inner. *)
ScriptOf(r, offers, upload) ==
    Fixtures(r) \o InvalidPackage(r) \o StructureMatrix(r, offers) \o ImportPackage(r, upload) \o InitialLaunch(r)
    \o Inner(LaunchContract(r) \o ActorContract(r) \o LaunchUrlContract(r) \o FetchLaunchData(r, offers)
             \o SecurityMatrix(r, offers) \o LifecycleMatrix(r, offers) \o IdentityMatrix(r) \o IdentityPassthrough(r)
             \o MoveOnMatrix(r) \o LaunchModeMatrix(r) \o InvalidLaunches(r))
    \o Resume(r) \o ResumeMatrix(r) \o WaiveChecks(r) \o AbandonChecks(r)
    \o DurableMatrix(r, offers) \o CrossSystem(r, offers) \o InvalidOperations(r)

Scripts == [r \in Runners |-> [offers \in Adverts |-> [upload \in Uploads |-> ScriptOf(r, offers, upload)]]]
Script(r) == Scripts[r][advertised][runs[r].upload]

(***************************************************************************)
(* The run.                                                                *)
(***************************************************************************)
NewRun(upload) ==
    [stage |-> "preflight", upload |-> upload, pc |-> 1, launched |-> {}, held |-> {}, failing |-> {},
     verdicts |-> <<>>, waivedAt |-> Never, reply |-> <<>>]

(* The run ends before its first call unless the adapter advertises what    *)
(* every run needs.                                                         *)
Preflight(r) ==
    /\ runs[r].stage = "preflight"
    /\ runs' = [runs EXCEPT ![r].stage = IF RequiredOperations \subseteq advertised THEN "running" ELSE "refused"]
    /\ UNCHANGED <<adapterVars, advertised>>

(* What the runner reads in a reply. *)
Seen(reply) ==
    IF "verbs" \in DOMAIN reply
    THEN [f \in DOMAIN reply \union {"count", "terminated"} |->
            CASE f = "count" -> Len(reply.verbs)
              [] f = "terminated" -> HasVerb(reply.verbs, "terminated")
              [] OTHER -> reply[f]]
    ELSE reply

Meets(run, step, reply) ==
    /\ \A f \in DOMAIN step.expect : f \in DOMAIN Seen(reply) /\ Seen(reply)[f] = step.expect[f]
    /\ step.date = "same" => reply.status = 200 /\ reply.waivedAt = run.waivedAt

(* The first verdict of a check stays. *)
Recorded(run, step, failing) ==
    [c \in DOMAIN run.verdicts \union step.closes \union step.skips |->
        IF c \in DOMAIN run.verdicts THEN run.verdicts[c]
        ELSE IF c \notin step.closes THEN "skipped"
        ELSE IF c \in failing THEN "failed" ELSE "passed"]

(* The run after a step that was answered, in the sense of the reply.      *)
AfterReply(run, step, reply) ==
    LET failing == IF Meets(run, step, reply) THEN run.failing ELSE run.failing \union step.feeds
        good    == "status" \in DOMAIN reply /\ reply.status = 200
    IN  [run EXCEPT !.pc = @ + 1,
                    !.failing = failing,
                    !.reply = reply,
                    !.launched = IF good /\ step.op = "launch" THEN @ \union {step.q.session[2]} ELSE @,
                    !.held = IF good /\ step.op = "fetch" THEN @ \union {step.q.session[2]} ELSE @,
                    !.waivedAt = IF good /\ step.date = "first" THEN reply.waivedAt ELSE @,
                    !.verdicts = Recorded(run, step, failing)]

(* A step whose session is missing fails its checks without a call. *)
WithoutCall(run, step) ==
    LET failing == IF step.inner /\ "initial" \notin run.launched THEN run.failing ELSE run.failing \union step.feeds
    IN  [run EXCEPT !.pc = @ + 1,
                    !.failing = failing,
                    !.verdicts = IF step.inner /\ "initial" \notin run.launched THEN @ ELSE Recorded(run, step, failing)]

CanCall(run, step) ==
    /\ step.inner => "initial" \in run.launched
    /\ step.needs \subseteq run.launched
    /\ step.tokens \subseteq run.held

Reload(st) == Accept([status |-> 200, loaded |-> disk.readable], Load(disk), <<>>)

Handled(step) ==
    CASE step.op = "fixtures" -> Accept(Ok, mem, <<>>)
      [] step.op = "import"   -> PackageImport(mem, step.q)
      [] step.op = "launch"   -> LaunchCreate(mem, step.q, now)
      [] step.op = "fetch"    -> Fetch(mem, step.q, now)
      [] step.op = "data"     -> LaunchData(mem, step.q, now)
      [] step.op = "post"     -> PostStatement(mem, step.q, now)
      [] step.op = "get"      -> GetStatements(mem, step.q, now)
      [] step.op = "waive"    -> WaiveRegistration(mem, step.q, now)
      [] step.op = "abandon"  -> AbandonSession(mem, step.q, now)
      [] step.op = "reload"   -> Reload(mem)

Current(r) == Script(r)[runs[r].pc]
AtCall(r) ==
    /\ runs[r].stage = "running" /\ runs[r].pc <= Len(Script(r))
    /\ CanCall(runs[r], Current(r)) /\ Current(r).op # "read"

Call(r) ==
    /\ AtCall(r)
    /\ Answer(Handled(Current(r)))
    /\ runs' = [runs EXCEPT ![r] = AfterReply(@, Current(r), Handled(Current(r)).reply)]
    /\ UNCHANGED <<now, issued, rounds, holding, served, advertised>>

(* A read, or a call that cannot be made. *)
Pass(r) ==
    /\ runs[r].stage = "running" /\ runs[r].pc <= Len(Script(r)) /\ ~AtCall(r)
    /\ runs' = [runs EXCEPT ![r] = IF CanCall(@, Current(r)) THEN AfterReply(@, Current(r), @.reply)
                                   ELSE WithoutCall(@, Current(r))]
    /\ UNCHANGED <<adapterVars, advertised>>

(* The adapter stops while it handles the call: fetch rejects, and so does  *)
(* the run, with all it had recorded.                                       *)
CutOff(r) ==
    /\ AtCall(r)
    /\ Crash(Handled(Current(r)))
    /\ runs' = [runs EXCEPT ![r] = [NewRun(@.upload) EXCEPT !.stage = "rejected"]]
    /\ UNCHANGED <<now, issued, rounds, holding, served, advertised>>

Finish(r) ==
    /\ runs[r].stage = "running" /\ runs[r].pc > Len(Script(r))
    /\ runs' = [runs EXCEPT ![r].stage = "reported"]
    /\ UNCHANGED <<adapterVars, advertised>>

(* The summary of a run. *)
Count(verdicts, v) == Cardinality({c \in DOMAIN verdicts : verdicts[c] = v})
\* Mutant: a run passes unless every check failed.
SummaryAnyPassed(run) ==
    [status  |-> IF Count(run.verdicts, "passed") > 0 THEN "passed" ELSE "failed",
     passed  |-> Count(run.verdicts, "passed"),
     failed  |-> Count(run.verdicts, "failed"),
     skipped |-> Count(run.verdicts, "skipped")]

Summary(run) ==
    [status  |-> IF Count(run.verdicts, "failed") = 0 THEN "passed" ELSE "failed",
     passed  |-> Count(run.verdicts, "passed"),
     failed  |-> Count(run.verdicts, "failed"),
     skipped |-> Count(run.verdicts, "skipped")]

(* The adapter restarts between two calls, or another run reloads it. *)
Restart == ReloadCall /\ UNCHANGED <<runs, advertised>>

RunnerInit ==
    /\ AdapterInit
    /\ advertised \in Adverts
    /\ \E f \in [Runners -> Uploads] : runs = [r \in Runners |-> NewRun(f[r])]

RunnerStep(r) == Preflight(r) \/ Call(r) \/ Pass(r) \/ Finish(r)
RunnerNext == Restart \/ \E r \in Runners : RunnerStep(r) \/ CutOff(r)

RunnerSpec == RunnerInit /\ [][RunnerNext]_runnerVars

(***************************************************************************)
(* Runs do not interfere: a run with a package the adapter takes records   *)
(* no failure and leaves out no check, whatever another run is doing in    *)
(* between, whatever run was cut off half way, however often the adapter   *)
(* restarted, and whether or not the other run imports a package under the *)
(* same id.  (An adapter that calls itself durable and has no reload       *)
(* operation fails that one check.)                                        *)
(***************************************************************************)
ChecksOf(r) == UNION {Script(r)[i].closes \union Script(r)[i].skips : i \in DOMAIN Script(r)}
Excused == IF "durable" \in advertised /\ "reload" \notin advertised THEN {"durable-state-matrix"} ELSE {}

RunsDoNotInterfere ==
    \A r \in Runners : runs[r].upload = GoodPackage =>
        /\ runs[r].failing \subseteq Excused
        /\ runs[r].stage = "reported" => DOMAIN runs[r].verdicts = ChecksOf(r)

(***************************************************************************)
(* A run whose package was refused goes on with its script.  Most of its   *)
(* checks are never made, or they pass on the package another run imported *)
(* under the same id; its report must not say that the adapter passed.     *)
(***************************************************************************)
NoEmptyPass ==
    \A r \in Runners : runs[r].stage = "reported" /\ ~PackageAccepted(runs[r].upload) =>
        Summary(runs[r]).status = "failed"

=============================================================================
