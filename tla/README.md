# Verification of conform-ed

TLA+ models of the stateful core of this repository, the TLC runs that check them on small
instances, and theorems about them that TLAPS proves for every value of the constants.

1. [The system](#1-the-system), its parts and what makes each one correct
2. [The modules](#2-modules), and how they correspond to the code
3. [The runs](#3-runs): questions, bounds, fairness, disagreements
4. [The proofs](#4-proofs)
5. [Not modelled](#5-not-modelled), and what is left to do

## 1. The system

conform-ed is a TypeScript monorepo of educational-standards tooling. Most of it is conversion (XML
to JSON trees, schemas, coverage reports, renderers). The parts that keep state, decide something,
or in which an order of events can go wrong, are these.

| Component | State it keeps | Operations | Interacts with | Status |
| --- | --- | --- | --- | --- |
| Plan resolution (`test/controller.ts`, `resolvePlan`) | none: a seeded generator per test | select, shuffle, hoist, cascade controls and conditions, name instances | gives the controller its plan | modelled |
| Test controller (`test/controller.ts`) | none of its own: a persisted `TestSessionState` goes in and out | `start`, `moveTo`, `next`, `submitItem`, `end`, `tick`, `suspend`, `resume`, `review`, `setItemComment`; the queries `canMoveTo`, `canNext` | reads the injected clock; called by the session store | modelled |
| Results reporting (`test/results.ts`) | none | `buildAssessmentResult` | reads the session state | modelled |
| Attempt store (`store.ts`) | one item's clone, responses, outcomes, attempt count, clock, captured interaction states | `setResponse`, `submit`, `suspend`, `resume`, `reset`, collectors | runs template and response processing; notifies subscribers synchronously; pulls the collectors of mounted interactions | modelled |
| Test session store (`test/session-store.ts`) | the controller's state, the attempt stores opened so far, the last attempt forwarded per item | the controller's operations, `itemStore`, `assessmentResult` | subscribes to every attempt store and forwards submitted snapshots; suspends and resumes them on navigation | modelled |
| Response processing (`rp/*`, `response-processing.ts`, `response-validity.ts`) | none: variables of one run, a generator's position | template rules, response rules, expressions, standard templates, lookup tables, the static gates, scoring and flags | called by the attempt store | partly |
| PCI hosting (`pci/*`) | registered and resolved modules, mounted instances | `load`, `resolve`, `mountPci`, dispose | registers collectors with the attempt store; fetches; waits for `onready` | partly |
| cmi5 reference adapter (`apps/cmi5-adapter-reference`) | launches, tokens, request ids, statements, waivers, abandonments, a JSON file | import, launch, fetch, statements, launch data, abandon, waive, reload | HTTP; rewrites its file on every change | modelled |
| cmi5 runner (`apps/cmi5-runner`) | the verdicts of one run | a list of checks | calls the adapter | partly |
| LRS runner (`apps/lrs-runner`) | the call stack of a tree of suites, verdicts, a child process | load, run, hooks, bail, timeout | child process and its exit code | partly |
| Credential verification, QTI XML, Common Cartridge, contracts, item runtime, skin, coverage, reporting, CLI, LTI, harness | none that outlives a call | conversions, schemas, reports, rendering | | not modelled, see [5](#5-not-modelled) |

What is hard in them: time limits that expire between two calls; results that are held before they
are committed; calls that arrive late, twice or after the end; synchronous callbacks that re-enter
the store that is notifying; modules that finish loading after their host has gone; a file that is
rewritten while the process dies; errors thrown by a test body that has already settled; rules that
are aborted half way. `PROJECT.json` lists each hazard at its line with the properties about it.

What makes each part correct:

- **Plan resolution**: whatever is drawn, a section serves what it declares, every item keeps its
  conditions and controls, every instance its own key.
- **Controller**: the attempt ledger is consistent, a submission is taken at most once and none is
  lost, attempt limits hold, no time is lost or invented, an open session stands on an open item, an
  ended session is final, an overdue test closes.
- **Results**: a report taken at any moment numbers attempts rightly and adds up.
- **Session and attempt stores**: attempts come from submissions, exactly the current item's clock
  runs, the candidate's input survives navigation, a clone built from the recorded defaults stays one.
- **Response processing**: three-valued logic guesses nothing, what the gate admits runs to its end,
  what is aborted gives no outcome and no template value, the two scorers agree.
- **PCI hosting**: nothing mounts behind the page, work survives, failures are shown.
- **cmi5 adapter**: a session's record stays a cmi5 session and can always be closed, tokens open
  their own launch only, what was acknowledged is remembered, what is answered is what a restart
  restores.
- **cmi5 runner**: runs that share an adapter do not disturb each other; no refused run passes.
- **LRS runner**: the report tells what happened, success means success, a run ends.

## 2. Modules

| Module | Models |
| --- | --- |
| `PlanResolution`, `PlanProperties` | `resolvePlan`: the set of plans a declared test can yield; what such a plan owes to its declaration |
| `TestController` | every transition of the controller's public surface |
| `TestControllerProperties` | its type, safety, action and liveness properties |
| `ResultsReport` | `buildAssessmentResult` |
| `AttemptLedger` | abstract specification: what a delivery promises about submissions |
| `TestControllerProofs`, `TestNavigationProofs` | theorems about the controller: ledger, limits, order and that it implements `AttemptLedger`; what a candidate can rely on |
| `MCTestController` | plans for TLC, one of them resolved by `PlanResolution` |
| `TestSession`, `TestSessionProperties` | session store and attempt stores, composed with the controller, which they EXTEND and whose operators they apply |
| `TestSessionProofs`, `AttemptStoreProofs` | theorems about the composition: the shared session; clocks, input and template defaults of the stores over time, and its refinement to the controller |
| `ResponseValues`, `Expressions`, `ItemProcessing` | values and scoring, the expression evaluator, the rules of templates and responses and what an attempt makes of them |
| `ItemProperties`, `MCItems` | what processing owes to an item; the small items it is checked on |
| `MCTestSession` | sessions for TLC, scored by `ItemProcessing` |
| `Cmi5Adapter`, `Cmi5AdapterProperties`, `MCCmi5Adapter` | the adapter, what it must keep true, its instances |
| `Cmi5AdapterProofs` | theorems about the adapter |
| `Cmi5Runner`, `MCCmi5Runner` | conformance runs over the adapter, which they EXTEND |
| `Cmi5RunnerProofs` | theorems about conformance runs that share an adapter |
| `PciHost` | hosts, mounts and the attempt store around them, with the search for a module as a parameter |
| `PciRegistry`, `PciLoading`, `MCPciHost` | the module registry; the search over it; two hosts that search it |
| `PciHostProofs` | theorems about hosts, for any search |
| `SuiteRuntime`, `MCSuiteRuntime`, `SuiteRuntimeProofs` | a run of the LRS suite in its process under its parent; theorems about it |

Definitions named as mutants are variants of a mapped definition with one plausible bug; each run's
properties are tried on them (`PROJECT.json`, "mutants"). They take no part in a specification.

### TestController

The controller is a set of pure functions from a session state to a session state, and the model
keeps that shape: each function of `controller.ts` is an operator on a session record with the
same name (`touch` is `Touch`, `flushPending` is `FlushPending`, `moveToItem` is `MoveToItem`),
and an action applies one public function to the variable `session`. `withTransition`, which folds
the clock, settles expiries and only then runs the operation, is an operator of its own, so every
action is the whole call. The remaining action, `AdvanceClock`, moves what `options.now()`
returns, backwards too where a run says so.

Abstractions:

- The resolved plan is a constant: parts, navigation and submission modes, sections, session
  control, limits, branch rules. An item is its position in plan order, so `firstNavigable` is a
  minimum. `null` for "no current item" is `NoItem = 0`.
- A timing scope is a pair (`<<"item", i>>`, `<<"section", x>>`, `<<"part", p>>`, the test).
  Seconds are integers.
- Expression evaluation and outcome rules are constant operators over the session (`Evaluate`,
  `OutcomeRules`): the theorems hold for any of them, the runs use score rules. An unsupported
  condition passes and an unsupported outcome rule falls back to the declared defaults, as in
  `conditionPasses` and `runOutcomeProcessing`.
- A template default is represented by the test outcomes it was evaluated on.
- `activeTime` is an observer: the time the session has really been in progress.

Bounds, all in the guards of the actions: `MaxClock` (clock and active time), `MaxCommitted`
(history per item), `MaxRejected` (late submissions).

`PlanResolution` models `resolvePlan` as the *set* of its outcomes: a seed stands for one sequence of
draws, and every draw is open. The plan of run `drill` is one such outcome, so a declared test, its
resolution and its delivery are checked in one line.

### TestSession

The session store keeps the controller's state and one attempt store per item. Both run on one
thread and call back into each other synchronously: a store that submits notifies the session
store, which calls the controller and emits, which suspends the departed store, which makes a new
snapshot and notifies again. The model keeps this as operators from a *world* (`[session, stores,
instances]`) to the world after the call, and an action is one call with everything it triggers.

| Code | Model |
| --- | --- |
| `state` of the session store | `session`, the variable of `TestController` |
| `itemStores` and each store's snapshot and clock | `stores[i]`, `NoStore` until `itemStore` opens it |
| `forwardedAttempts` | `stores[i].forwarded`: the current snapshot object is the one handed over |
| `emit` of the session store, `emit` of a store | `Emit`, `StoreEmit` |
| the subscription in `itemStore` | `Forward`, and `Reforward` where it fires inside an `emit` |
| `submit`, `setResponse`, `suspend`, `resume`, `reset` of a store | `SubmitStore`, `SetResponse`, `SuspendStore`, `ResumeStore`, `ResetStore` |
| a mounted custom interaction and its `getState`/`getResponse` collectors | `instances[i]`; `Mount`, `Unmount`, `Interact` |
| a page reload with the persisted state | `Restart` |
| `assessmentResult`, which opens the store of every planned item | `AssessmentResult` |

Abstractions:

- A call reads one clock value. The code reads the clock a few times per call, a few microseconds
  apart.
- An `emit` inside an `emit` is unrolled once. It happens when the store of the item just left has
  a new snapshot: at that clock reading all expiries are settled, so the inner call moves no one
  (`SubmitItemStays` proves it) and its own suspension and resumption are of equal items.
- Scoring, response processing and adaptive completion are the constants `Score`, `Completes`,
  `NextAttempt`; `result # NoResult` stands for `attemptCount > 0`. The theorems hold for any
  scoring. The runs give them `ResultOf`, `CompletedAt` and `KeptBetween` of `ItemProcessing`, so that
  what the session records is what the rules of the item compute.
- A custom interaction is unmounted some time after its item was left (`Unmount` may lag), as the
  renderer does it.
- `made` and `typed` are observers: completed submissions, and what the candidate last put into an
  interaction.

`ResetsAnywhere` says whether the consumer resets stores of items that are not current. The
runs assume it does not: a reset elsewhere starts a clock that should be suspended.

### Response processing

The evaluator, the interpreters and the scorers are functions, and so are the operators. A value is a
record of cardinality, base type and members (`RpValue`), a scalar is tagged with its JavaScript
type, NULL is a value of its own. `EvaluateExpression` returns the value, the generator's new
position and whether the expression was refused (the evaluator throws there). Rules are run over a
state with a signal: an exit, a missed constraint or a refused construct ends what follows, and
`ExecuteTemplateProcessing` and `ExecuteResponseProcessing` say what is kept in each case. `Attempt`
and `Clone` are what the attempt store does with both.

What a *text* stands for is constant: its number, its pair, its point, its letter case, whether it is
a pattern. A generator is a sequence of draws. `MaxConstraintAttempts`, 100 in the code, is a
constant. The operators of expressions recurse (`RECURSIVE`), so these modules hold no theorem.

### Cmi5Adapter

A route reads its body first and then runs to its reply without giving up the event loop, so a call
is one step. But it may write the state file several times, and the process can stop at each write.
Every handler is therefore an operator from the state to a *result*: the reply and the snapshots
written on the way. An action takes a whole result, or its first writes and a restart from them
(`Crash`); with `TornWrites` the last write may be cut and the file is unreadable, in which case the
adapter silently begins empty, as `loadStateFromDisk` does.

| Code | Model |
| --- | --- |
| the maps of `cmi5-state.ts` | `mem`, one record |
| the state file | `disk` |
| `makeAuthToken`, `newId` | the number of a token among those of its session |
| the wall clock | `now`, which `Clock` moves to any time, backwards too |
| what callers hold, and which requests they saw acknowledged | `holding`, `served` (observers) |
| `issued`, `rounds` | observers: tokens and launches made so far |

`Cmi5Runner` runs scripts of calls on those same handlers. A script is the list of checks of `run.ts`
in order, each call with what its reply must show, the checks that fail when it does not, and what is
skipped when the adapter lacks a feature or the first launch failed.

### PCI hosting

`PciRegistry` is the registry: a source stands for what evaluating it does (its defines, their
dependencies, what their factories register, return or throw), and resolving an id runs factories.
`PciLoading` is `resolveModule` and `load` over it, cut where they await a fetch: a search goes on to
its next fetch, or to a module, or to none.
`PciHost` has one *run* per execution of a host's effect. A run is a little process: it fetches
candidates, instantiates, waits for `onready`, is mounted, fails, or is gone; React's StrictMode
starts two on one container. How a module is searched for is a pair of operators that `PciHost` takes
as constants (`Search`, `SearchOn`); the run gives it those of `PciLoading`, and the theorems hold of
any. An instance that neither is returned nor throws is one that may call `onready`. The attempt store around them collects responses and states; the
candidate's work in an instance is a count.

### SuiteRuntime

The runtime walks a tree with one runnable at a time, a body or a before hook. The call stack is
`frames`. A runnable may pass, fail, never settle, or throw after it has settled: `stray` counts
errors still to come, which whoever listens then is blamed for. Around it are the runner's process
(loading, record, exit code with its eight bits) and the parent with its timeout.

## 3. Runs

Twelve runs, ten of which pass. Each asks a question of its own.

| Run | Question | Instance and properties |
| --- | --- | --- |
| `mixed_parts` | Do attempts, held results, flags, outcomes, template defaults and reports agree in every order of calls, and is a submission neither lost nor taken twice? | five items in a nonlinear individual part (two attempts; an unskippable validating item), a linear simultaneous part and an individual part behind a precondition on the score; the clock stands still, two commits an item. `LedgerAgrees`, `ReportAddsUp`, `ReportNumbersAttempts`, `ImplementsLedger` |
| `timed_parts` | Is time neither lost nor counted twice, does nobody stay on closed content, does an overdue test close by ticks alone? | three items, limits on an item, a part and the test, nested sections with minimum times, extra time, late submissions allowed in one part; a clock up to 4, under fairness. `CurrentInTime`, `NoTimeLost`, `NextOfferIsHonoured`, `OverdueTestCloses` |
| `drill` | Do branch rules over repeated instances and exits move forward, is a presented item left behind unserved by a branch, an exit or an expiry, does a clock that steps back take time away, are resolved plans what the tests declare? | a ref drawn twice, with a maximum time, an item with a minimum, section, part and test exits, clock steps of +1 and -1; four declared tests (the drill's, a shuffled, a nested, a repeated one) under every draw. `BranchesMoveForward`, `LinearItemsServed`, `TimeNeverDecreases`, `PlansAreAdmissible` |
| `stale_preconditions` | *violation*, see below | a simultaneous part before a part with preconditions. `EnteredPartMeetsPreConditions` |
| `session_flow` | Does work in a custom interaction survive, does a clone keep the defaults recorded for it; and is the processing that scores submissions sound? | two nonlinear items (one validating with two attempts, one custom with templates), then an adaptive item that cannot be skipped, whose template defaults are recorded when it is reached and which may be opened before; the clock stands still. `InputSurvives`, `ClonesStayOnRecord`; at the start of the session, once, `NullLogicIsSound`, `GateIsSound`, `NothingHalfDone`, `ScorersAgree` |
| `session_late` | Do the stores' clocks follow the active item when time forces the candidate on, does every attempt go back to a submission, is the session a controller's, one transition per call? | two freely navigable items, the first with no time to spend, two submissions each, one unit of clock, reports and restarts. `OnlyActiveClockRuns`, `StoreTimeFits`, `NoAttemptInvented`, `ImplementsController` |
| `resubmitted_on_leave` | *violation*, see below | a custom interaction of two attempts, one submission. `NoAttemptInvented` |
| `adapter_session` | Does a session's record stay a cmi5 session that can be closed, does a restart give back what was there, do decisions stand? | one session launched twice, five statements, every moveOn, a clock of 0 and 1 that moves both ways, a process that stops at any write. `LogsWellFormed`, `NoDeadEnd`, `FileIsMemory`, `DecisionsStand` |
| `adapter_tokens` | Do tokens open their own launch only, is an acknowledged request remembered? | two sessions, three launches, two request ids, tokens of each presented to each, torn writes. `TokensAreConfined`, `AcknowledgedIdsRemembered` |
| `cmi5_pair` | Do two conformance runs on one adapter disturb each other, does a run whose package was refused pass? | two whole scripts configured with one package id and interleaved call by call, with restarts and a process that stops under either, good and bad packages, adapters that offer everything, little or nothing. `RunsDoNotInterfere`, `NoEmptyPass` |
| `pci_host` | Does nothing come up behind the page, does work survive, does every load end in an interaction or an error? | two hosts that load one id along different candidates, one under StrictMode, refused fetches, late and failing instances, one step of work each. `HandleIsLive`, `WorkSurvives`, `ResolvedOnce`, `SubmittedStays`, `NeverSilent` |
| `suite_run` | Is what a run reports what happened? | four suites, four hooks, six cases, every selection, with and without bail, each runnable passing, failing, never settling or throwing late, a timeout at every moment; three exit codes, so that enough failures wrap to 0. `ReportIsTrue`, `HooksComeFirst`, `NothingAfterBail`, `ZeroMeansPassed`, `RunEnds` |

Why the bounds are enough. *Controller*: two parts with two items reach every path of `moveToItem`
(within a part, across parts, to the end), two instances "the next instance after the current one", and
a clock of four passes every limit and comes back from a suspension; a second commit is where a
limit of attempts, a stale flag and a revised result show. *Session*: a store matters to the others
only when its item is left or entered, which two items show; one unit of clock separates "before"
from "after" an expiry. *Processing*: operators of three-valued logic are checked over three
variables and two levels; 2800 rule lists put every construct before, after and within every other;
777 templates meet sixteen runs of the generator, so that a first, a second and a last draw miss; keys
and responses of two members over seven base types tell a bag from a sequence and from a set.
*Adapter*: an old and a new launch of one session, and another session, are all a token can be mistaken
for; five statements are a whole session. *PCI*: two runs of a host are what StrictMode
makes, a second host what shares its module. *Suite*: a suite in a suite, a suite after it and a
case beside them put a failed hook above, before and after a case; one late error falls on every
runnable there is; the exit codes are a constant, 256 in the code, and with three of them ten nodes fail
often enough to come round to 0. *Runner*: two runs with one package id can do to each other
whatever two runs with different ids can, and launch the other's package besides.

Deadlock is checked in the runs of the controller, the session and the adapter, where a call is always
possible. It is not in `cmi5_pair`, `pci_host` and `suite_run`, which come to an end: scripts are
done, the bounds on effects are used up, the parent has reported.

### Fairness

- `FairSpec` of the controller: the clock runs and the consumer keeps calling `tick` (`types.ts`
  documents the cadence as the consumer's). Nothing is assumed of the candidate.
- `PciHost`: a fetch is answered, be it with a refusal. An instance may never call `onready`, and
  `NeverSilent` says what can be said then.
- `SuiteRuntime`: a configured timeout goes off and the parent hears of a process that has ended. A
  body owes nothing; `RunEnds` holds by the parent alone.

### Disagreements the runs show

- `stale_preconditions`: `next` chooses its destination before the departed part's held results are
  committed and outcomes processed, so an item is shown whose preconditions are false on the
  committed outcomes (`controller.ts:1172`; `types.ts:177` "all must pass").
- `resubmitted_on_leave`: leaving a submitted custom interaction captures its state in a new
  snapshot, which is forwarded as a second attempt (`store.ts:414`; ADR 0005 "suspension never alters
  responses, outcomes, or attempt counts").

### Behaviour worth knowing

Met while modelling, without a run of its own. Where a property holds only beside such a case, its
comment says so.

*Controller and session.* A plain branch target behind the current item sends a linear candidate
back (ADR 0005: "branch paths only move forward"; theorem `LinearMovesForward` needs
`ForwardRules`). A result for an item of a simultaneous part already left is held until the test ends.
`moveTo` does not check the preconditions `canMoveTo` checks. A refusal of `canNext` is not final: it
judges recorded time, `next` the folded one. Attempts at one clock reading carry equal datestamps.
`assessmentResult` in mid-session opens stores of items not reached yet (`session-store.ts:346`), before a
linear part evaluates their template defaults; they are later shown and scored with the declared ones,
where `store.ts:90-91` says "the test session store supplies them from the controller's recorded
`templateDefaultValues`" (`ClonesStayOnRecord` therefore speaks of clones on record). A submission in a suspended session locks its store and is dropped. `reset` of a
store that is not current starts its clock. `preConditions` of a test part and `branchRules` of sections and
test parts are parsed (`types.ts:89-102`) and never evaluated. A section drawn twice shares one
timing scope. A ref literally named `Q.1` has the key of the first draw of a ref `Q` drawn twice.

*Response processing.* Where a construct the interpreter lacks aborts template processing, the values go
back to their defaults and the correct responses set before it stay (`template-processing.ts:225-227`,
"abort, never a partial clone"): the clone is scored by a key of a draw that was given up.
`NothingHalfDone` states this exception. A second point in an area already used adds the default value, though the comment gives that to "points hitting
no area" (`response-processing.ts:205-242`), so with overlapping areas a score depends on the order of
points. An item without template processing reads its template variables as NULL whatever their
defaults or overrides (`store.ts:167-173`). The flags and the outcome are scored by two comparisons
that differ on texts not of their base type: an empty string equals 0 in `match` (`values.ts:144`), a
duration is a number to one and a text to the other, texts without a base type are normalised by one.
`map_response` of a NULL response is 0 to one, the lower bound to the other. An `anyN` with `min` above
`max` stays NULL where it could be FALSE. A pattern read from a variable passes the gate
(`evaluate.ts:1061-1065`) and is refused when it is run. After `reset` or a reload the generator and the
attempt count are not those of "seed plus submission sequence". `minPlays` counts plays only of a number
(`response-validity.ts:123-128`), `reference-skin/media.ts:69` stores a text: with validation on,
such an item cannot be submitted.

*PCI.* A plain library among a node's declared modules makes loading fail. A load whose candidates all
fail is rejected although another host has registered the id meanwhile. An instance that never calls
`onready` keeps its mount waiting for ever. The `ondone` of an unmounted instance reaches the store.

*cmi5.* A crash in the middle of a write leaves a file that cannot be read, and the next start silently
begins empty. A request id is recorded before its statement is judged, so a refusal uses it up and
the corrected retry is a conflict (`cmi5-statements.ts:57`). A run that shares a configured package id
goes on with the other run's package when its own was refused. The JUnit report writes a `<failure>` for a skipped record (`run.ts:2274-2290`).

*LRS runner.* The exit code keeps eight bits of the number of failures: 256 failures are a success. A
body that never settles is ended by the parent's timeout only. A late error is blamed on whichever
runnable runs next. The run state "cancelled" is never reached, and a failed hook counts as a failure
besides the cases it cancels.

## 4. Proofs

All proofs are checked by TLAPS to the last leaf, for every value of the constants. They rest on the
named assumptions of the modules, which every run evaluates: `PlanAssumption`, `TimeAssumption` and
`ResultAssumption` (the plan's maps are total and typed, results have their shape),
`SessionStoreAssumption` and `StoreAssumption` (constants that stand for nothing are no values; scoring
returns results), the adapter's six (identifiers differ from the marks for their absence, lifetimes and
bounds are naturals), the runner's `NamesAssumption` and `NamesApart` (the sessions and registrations are
those the scripts name; the session every run fixes and the missing names are nobody's own, and no run is
configured with the package id "missing-package"; two runs may have one package id),
`TreeAssumption` (suites and cases are finite, disjoint, and a tree: no node is
listed twice, no set of suites hangs below itself; exit codes are 2 to 256 in number) and `SplitAssumption` (a suite's cases and suites, in
the order they are run, are its children). `PciHost` assumes nothing.

A theorem that holds of some plans or environments only says of which; each hypothesis is met by plans
the code accepts and by a run's instance.

| Theorem | Says | Of |
| --- | --- | --- |
| `TypeCorrect` | a session stays a `TestSessionState` | |
| `LedgerIsConsistent`, `AttemptLimitsHold` | the ledger invariants | |
| `CurrentStaysInTime` | an open session stands on a presented item whose time is not spent | |
| `EndedStaysFinal` | an ended session changes nothing but the item under review | |
| `TimeOnlyAccrues` | no call takes recorded time from any scope, wherever the clock has gone | |
| `LinearMovesForward` | a linear candidate does not go back | plans whose branch rules name later items (`ForwardRules`) |
| `ReportsNumberAttempts` | the report of any reachable session numbers attempts as it should | |
| `ControllerImplementsLedger` | the controller implements `AttemptLedger` | |
| `LinearItemsAreServed` | no item of a linear part that was presented is left before it was served, unless its time ran out; items never presented may be stepped over by a branch or an exit | |
| `NextOffersAreHonoured` | what `canNext` offers, `next()` does | `ForwardRules`, and no condition of the plan reads a duration (`TimelessConditions`) |
| `ReportsAddUp` | the report's test outcomes are those of the commits it lists | outcome rules that read commits only (`RulesReadCommits`) |
| `ScopeTimesStayInStep` | every section, every part and the test have the sum of the seconds of their items | |
| `NoTimeIsLost` | the test's time is the time it was in progress | clocks that do not run back |
| `SharedSessionIsSound`, `SharedSessionIsInTime` | ledger, limits and time hold of the session that attempt stores share | |
| `StoresTypeCorrect` | the stores keep their types, and a submitted snapshot has been handed over when its call is done | |
| `ActiveClockRunsAlone` | exactly the active item's clock runs | stores reset on their active item only (`~ResetsAnywhere`) |
| `InputIsKept` | a mounted instance shows what the candidate entered, however its item was left | `~ResetsAnywhere` |
| `StoreTimeNeverExceeds` | a store never reports more time than the controller enforces limits on, nor less than none | `~ResetsAnywhere`, clocks that do not run back |
| `TemplatesAreEvaluatedOnce` | recorded template defaults stay, and no other item gets any | |
| `ClonesUseRecordedOrNone` | a clone is built from the defaults recorded for its item or from none | |
| `RecordedClonesStay` | a clone built from the defaults recorded for its item stays one | |
| `SharedSessionIsAController`, `SharedSessionKeepsLedger` | the shared session implements `TestController`, and so the ledger | no custom interactions (`Imperative = {}`) |
| `NoAttemptOutOfNothing` | nothing is recorded, held or reported late but what was submitted | `Imperative = {}` |
| `AdapterTypeCorrect`, `FileStaysMemory` | the adapter's types; no route leaves in memory what a restart would undo | |
| `TokensStayConfined`, `AcknowledgedStayRemembered` | a token opens its own launch only; an acknowledged request is remembered as long as its token lives | |
| `RecordsAreSessions` | the record of every session is a cmi5 session | |
| `NothingIsADeadEnd` | a session that is not over can still be brought to its end | |
| `DecisionsStandForGood` | abandonment and waivers are for good | no write is torn |
| `RefusedPackageNeverPasses` | a run whose package was refused never reports that the adapter passed | |
| `RunsStayApart` | a call of one run changes nothing the adapter holds of another; its package it may add, if the two have one package id, and never takes away | no write is torn |
| `GoodRunsDoNotFail` | a run with a package the adapter takes records no failure and leaves out no check, among any number of runs | no write is torn, token lifetimes are not zero |
| `PageTypeCorrect` | runs, handles and the store's records have their types | |
| `HandlesAreLive` | a host holds the handle of its newest, uncancelled run, and nothing else of it is mounted | |
| `WorkIsKept` | a ready instance has all the work of the last suspend | |
| `SubmittedIsFinal` | only a reset changes the responses of a submitted attempt | |
| `SuiteTypeCorrect` | the call stack is a path of the tree | |
| `BailStopsTheRun` | with bail nothing is started after the first failure | |
| `HooksPassFirst` | a case has run only if every hook above it passed | |
| `ReportsAreTrue` | a complete report gives every selected case one verdict, blames what failed and counts right | |
| `ZeroIsSuccess` | exit code 0 means a written report of a run that judged every selected case, and that failed nowhere or so often that the count wraps | |

**Controller.** One lemma per helper of the code (`TouchType`, `FlushPendingSound`, `MoveToItemLands`),
then one step per action. The ledger invariants are inductive only together: that a held result is the
first of its item (`Provisional`) is what keeps its later commit within the limit (`WithinMax`), and
that the count is the length of the history (`LedgerOf`) is what makes the limit check mean what it
says. `SoundSessions` is that conjunction. `CurrentStaysInTime` rests on two facts: a search lands on
an open item or on none (`FirstNavigableIsOpen`), and only the fold of the clock writes seconds
(`MoveToItemLands`).

**Navigation.** `LinearItemsServed` speaks of the items behind the candidate and is not inductive: a
backward branch leaves items ahead that a later call may put behind again. `LeftServed` speaks of every
presented item but the current one. `canNext` judges the recorded state and `next()` the state after the
clock is folded; they differ only where folding closes a scope around the candidate, which moves the
session by itself (`TouchKeepsOffer`), or where a condition reads a duration, which is the
hypothesis. `OutcomesFollow` (the recorded test outcomes are what the rules make of the commits) carries
`ReportsAddUp`, and holds because every commit is followed by outcome processing. `NoTimeLost` and
`ScopeTimesAgree` follow from one account of the clock, `FoldAdds`: a transition either stamps and adds
the same elapsed time to the item, its sections, its part and the test, or does neither. That the sums
move with it (`SumStep`) is proved from a least counterexample, without an induction theorem.

**Refinement.** `ControllerImplementsLedger` maps a session to its status, its held results and its
histories. A transition is a closing, a suspension, a resumption, a collection of whole parts with or
without one recorded submission, or a stutter; that a part is collected in whole is
`FlushPending`'s.

**Session.** The controller's lemmas are stated of a transition and not of a step of `Spec`, so that they
serve here, where one call makes several transitions (`TransitionSafe`). The invariant is that the
world is in `Worlds`: a safe session, and attempt stores that have a result when they are locked. The
clock theorem needs one more fact about the controller: a transition that changes the active item has
folded the clock (`Handover`, `TransitionStamped`). A snapshot forwarded from within that `emit`
therefore finds no time to fold and nothing expired, moves no one (`SubmitItemStays`), and the item
that `emit` goes on to resume is still the active one. None of it assumes a clock that only goes
forward.

**Stores over time.** `AttemptStoreProofs` adds one account of an `emit` (`Moves`): which store is
suspended, which is resumed, and what each has counted (`Counted`). From it follow `InputIsKept`, with an
invariant that names, for every item, where its input is (`InputKept`); `StoreTimeNeverExceeds`, whose
invariant (`CountFits`) says that a stopped store has counted no more than its item's seconds and that a
running one is not ahead of the controller's clock; and `SharedSessionIsAController`: where no instance can be mounted
(`NothingMounted`, an invariant when `Imperative = {}`) nothing is forwarded from within an `emit`, and
a call of the composition is a call of the controller or a stutter. With custom interactions the
refinement is false: leaving a submitted one submits again within the same call, which the run
`resubmitted_on_leave` shows. `NoAttemptOutOfNothing` counts what was taken (`Taken`: recorded, held or
late) against what was submitted. Template defaults need two facts of every transition (`DefaultsStep`): what
is recorded stays (`KeepsDefaults`), and a store keeps what it was opened with. What a store was
opened with is therefore what is recorded, or nothing (`ClonesUseRecordedOrNone`), and once it is on record
it stays so (`RecordedClonesStay`). That it is recorded in time is false: a report may open the store first.

**Adapter.** Each route has a lemma that says what it changes, whether it is answered or refused.
`FileStaysMemory` is inductive with the shape of the file: what is readable is what was last written.
`TokensAreConfined` is not inductive: `TokensKept` adds that every token held was issued, under a number
not given since, and that the token of a session's current launch belongs to its current round.
`RecordsAreSessions` says of the verb rules that appending an accepted verb to a well-formed record
gives one (`AcceptsVerb`). `NoDeadEnd` does not follow from the records being sessions: a `failed` would
close the way of a session that must be passed. That the adapter takes a failure only where completion
alone is asked (`FailuresFit`) is the missing invariant; with it a way to the end is built from what was
said so far (`WayToTheEnd`, from `OpeningFits` and `ClosingFits`). `DecisionsStandForGood` assumes
`TornWrites = FALSE`, because a torn file forgets decisions with the rest.

**Conformance runs.** A script is a concatenation of checks, and each is made of its parts by mappings
that change a field of every step, so facts about every step are shown part by part (`ScriptPart`): a
step's call names the run's own sessions and registrations, its package, the one session every run fixes, or
nothing anybody has. `RefusedPackageNeverPasses` follows one verdict, that of the import: the script has
one step that decides it (`ImportIsOneStep`), which needs no session and is therefore never passed over,
and the first verdict of a check stays (`RunOK`). `RunsStayApart` says for each handler what it can change
(`Confined`), at every write on the way and therefore wherever the process stops.

`GoodRunsDoNotFail` needs the outcome of every step. What a run knows of the adapter between two steps is a
record: for each of its sessions, whether it is launched, its token exchanged, what it has said. `Good`
says that a step, with this known, must have the outcome its check asks for, and what is known after
it. A script then has a route (`Route`), one such record before each step, and that it has one is shown check by
check from the calls they are made of (`Goes`, and `RouteIs` for the whole script). The invariant `Following`
is that a run's verdicts are those of the part of the route behind it, and that the adapter and the run's
last reply show what the route says at its next step. A step of the run moves it one record on (`GoodCall`,
`GoodRead`); a step of another run changes nothing the record speaks of, which is what `RunsStayApart` says
(`OthersKeepIt`); and a restart gives back what was there. In the model a run takes no time, which
is why lifetimes must only not be zero.

**Custom interactions.** `HandleIsLive` is inductive with one more fact, that every run but the newest is
cancelled (`Lives`): so the run that becomes ready uncancelled is the one whose host has no handle yet.
`WorkSurvives` compares with the last suspend and needs a comparison with the store: the newest run, if
not cancelled, has at least the work the store holds of it. It began with that, and the store is
given only its own work while it lives. What a search answers is never looked at.

**Suite.** With bail `running` is empty once something has failed, although hooks are started without
looking at `cancelRemaining`: hooks come first, so whoever set it is past them. `BailGuard`
is that invariant. The other three are about what is still to come: all that is ahead of the call stack
in the tree is fresh and apart from what the stack has been through (`Course`, over `Ahead`), so that a
suite whose hook failed is never met again, and a selected case without a verdict is ahead (`Reached`),
so that none is left out when the stack is empty. The counts agree with the verdicts (`Counted`), each
case being judged once; something failed or cancelled means a failure was counted (`Blamed`); and a
failure below is a failure above once its suite is left (`Upward`). That `Below` is what lies below a
node of any finite tree is proved by taking away a counterexample (`TreeAssumption`'s well-foundedness).
The number of failures comes round to exit code 0 at a multiple of `ExitCodes`; any such number that is
not 0 is at least `ExitCodes` (`FitsItsCode`), which is the exception `ZeroMeansPassed` names.

### What is only model-checked

Liveness (`OverdueTestCloses`, `NeverSilent`, `RunEnds`), which is out of the prover's reach. Whatever
stands on recursive operators: `PlansAreAdmissible`, the four properties of response processing
(`NullLogicIsSound`, `GateIsSound`, `NothingHalfDone`, `ScorersAgree`), and of `pci_host` `ResolvedOnce`,
which is about the registry. The refinements and `NoAttemptInvented` in sessions with custom interactions,
which hold within the bounds of their runs where no submitted one is left (see `resubmitted_on_leave`).

## 5. Not modelled

- **QTI XML, Common Cartridge, contracts**: conversions between document trees and generated schemas.
  Their correctness is agreement of two texts of some thousand lines with a standard; a model would
  repeat one of them.
- **Item runtime, reference skin, interactions, harness**: rendering over the attempt store. What of
  it has an order (mounting, unmounting, collectors) is in `TestSession` and `PciHost`.
- **Credential verification**: one pass that keeps no state, a conjunction of external cryptographic
  and schema checks.
- **Coverage, reporting, CLI, core, scripts**: walkers and writers without state.
- **LTI 1.3 adapter and runner**: a stateless stub and a sequential list of checks.
- **LRS suites** (`runtime/batteries.ts` and the suites' helpers): test bodies. Their runtime is
  modelled; what they ask of an external LRS is not code of this repository's state. The older
  `bin/testRunner.ts` reads per-test messages its child no longer sends.

Left out of modelled parts: record responses, relative tolerances and half-open bounds, the
generator's arithmetic and the typing of reported values; the aggregates of a test in expressions, which
the controller answers; hashing and URL forms of PCI modules; texts of launch URLs and report files of
the cmi5 runner; writes of the adapter's file that fail while the process lives.

What could come next: the controller's own lookups of test-level aggregates, in place of the constant
`Evaluate`; the refinement of a session with custom interactions to a controller that takes two
submissions in one call; and `ResolvedOnce` for a registry whose factories
are called without recursion.
