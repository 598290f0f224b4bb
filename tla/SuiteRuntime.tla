---------------------------- MODULE SuiteRuntime ----------------------------
(***************************************************************************)
(* One run of the LRS conformance suite: the parent that starts the        *)
(* console runner with a timeout, the runner's process, and in it the      *)
(* runtime that walks the tree of suites and cases.                        *)
(*                                                                         *)
(* A runnable is a case's body or a before hook.  While one runs it alone  *)
(* listens for the errors nobody caught, its own and those of bodies that  *)
(* settled earlier; it may never settle.  Between two runnables the        *)
(* runtime does not wait, so nothing else happens there.                   *)
(***************************************************************************)
EXTENDS Naturals, FiniteSets, Sequences, SequencesExt, Functions

CONSTANTS
    Suites, Cases,
    Root,
    Children,      \* Children[s]: cases and suites of s in the order they were registered
    Hooks,         \* Hooks[s]: how many before hooks s has
    Written,       \* the cases that have a body
    ExitCodes,     \* how many exit codes a process has: 256, eight bits
    MaxStray       \* bound: errors that come late in one run

Nodes == Suites \union Cases
NoRunnable == <<"none">>
NoResult == 256           \* no exit code
Terminated == 143         \* the exit code of a process that SIGTERM ended

VARIABLES
    matching,      \* the cases grep selects
    bail,
    frames,        \* the suites entered, outermost first, each with the item it is at
    running,       \* the runnable that has not settled
    verdict,       \* verdict[n], "none" while node n has no result
    summary,
    cancelRemaining,
    broken,        \* suites with a failed before hook
    stray,         \* errors to come from bodies that have settled
    stage,         \* of the runner's process
    code,          \* its exit code
    written,       \* the run record was written
    timedOut,
    result         \* what the parent reports

walk == <<frames, running, verdict, summary, cancelRemaining, broken>>
parent == <<timedOut, result>>
vars == <<matching, bail, walk, stray, stage, code, written, parent>>

(***************************************************************************)
(* The tree.                                                               *)
(***************************************************************************)
Parent(n) == CHOOSE s \in Suites : n \in ToSet(Children[s])
Above[n \in Nodes] == IF n = Root THEN {} ELSE {Parent(n)} \union Above[Parent(n)]
Below(s) == {n \in Nodes : s \in Above[n]}

(* Every suite but the root, and every case, was registered once and in one *)
(* suite; the way up from any of them ends at the root.                     *)
ASSUME TreeAssumption ==
    /\ Root \in Suites
    /\ Suites \cap Cases = {} /\ IsFiniteSet(Suites) /\ IsFiniteSet(Cases)
    /\ MaxStray \in Nat
    /\ ExitCodes \in 2 .. 256
    /\ Children \in [Suites -> Seq(Nodes)]
    /\ Hooks \in [Suites -> Nat]
    /\ Written \subseteq Cases
    /\ \A s \in Suites : IsInjective(Children[s]) /\ Root \notin ToSet(Children[s])
    /\ \A n \in Nodes \ {Root} : Cardinality({s \in Suites : n \in ToSet(Children[s])}) = 1
    /\ \A ns \in (SUBSET Nodes) \ {{}} : \E n \in ns : n = Root \/ Parent(n) \notin ns

Matches(s) == Below(s) \cap matching          \* hasMatchingDescendant when not empty

CasesOf(s)  == SelectSeq(Children[s], LAMBDA n : n \in Cases)
SuitesOf(s) == SelectSeq(Children[s], LAMBDA n : n \in Suites)

(* The items a suite goes through: its hooks, its cases, its suites.        *)
ExecutionItems(s) ==
    [k \in 1 .. Hooks[s] |-> <<s, k>>]
      \o [i \in DOMAIN CasesOf(s) |-> <<CasesOf(s)[i], 0>>]
      \o [i \in DOMAIN SuitesOf(s) |-> <<SuitesOf(s)[i], 0>>]

(* Picking members out of a sequence keeps those members, each where it     *)
(* stood once.                                                              *)
ASSUME SplitAssumption ==
    \A s \in Suites :
        /\ CasesOf(s) \in Seq(Cases) /\ ToSet(CasesOf(s)) = ToSet(Children[s]) \cap Cases
        /\ SuitesOf(s) \in Seq(Suites) /\ ToSet(SuitesOf(s)) = ToSet(Children[s]) \cap Suites
        /\ IsInjective(CasesOf(s)) /\ IsInjective(SuitesOf(s))

\* Mutant: the last result decides.
RollupLast(results) ==
    IF "failed" \in results /\ "passed" \notin results THEN "failed"
    ELSE IF "cancelled" \in results THEN "cancelled" ELSE "passed"

Rollup(results) ==
    IF "failed" \in results THEN "failed"
    ELSE IF "cancelled" \in results THEN "cancelled" ELSE "passed"

(***************************************************************************)
(* Walking it.                                                             *)
(***************************************************************************)
Top == Last(frames)
Here == ExecutionItems(Top.suite)[Top.at]
Past(fs) == [fs EXCEPT ![Len(fs)].at = @ + 1]
AtItem == frames # <<>> /\ running = NoRunnable /\ Top.at <= Len(ExecutionItems(Top.suite))
AtCase == AtItem /\ Here[1] \in Cases
AtHook == AtItem /\ Here[1] \in Suites /\ Here[2] # 0
AtSuite == AtItem /\ Here[1] \in Suites /\ Here[2] = 0

Count(field) == [summary EXCEPT ![field] = @ + 1]
CountAll(s, field, cases) == [s EXCEPT ![field] = @ + Cardinality(cases)]

(* What is not run below s: its selected cases and the suites that hold one.*)
Cancelled(s) ==
    [n \in Nodes |->
        IF n \in Below(s) /\ verdict[n] = "none" /\ (n \in matching \/ (n \in Suites /\ Matches(n) # {}))
        THEN "cancelled" ELSE verdict[n]]

PassOver ==
    /\ \/ AtCase /\ Here[1] \notin matching
       \/ AtSuite /\ Matches(Here[1]) = {}
    /\ frames' = Past(frames)
    /\ UNCHANGED <<running, verdict, summary, cancelRemaining, broken>>

SkipCase ==
    /\ AtCase /\ Here[1] \in matching \ Written /\ ~cancelRemaining
    /\ verdict' = [verdict EXCEPT ![Here[1]] = "skipped"]
    /\ summary' = Count("skipped")
    /\ frames' = Past(frames)
    /\ UNCHANGED <<running, cancelRemaining, broken>>

CancelCase ==
    /\ AtCase /\ Here[1] \in matching /\ cancelRemaining
    /\ verdict' = [verdict EXCEPT ![Here[1]] = "cancelled"]
    /\ summary' = Count("cancelled")
    /\ frames' = Past(frames)
    /\ UNCHANGED <<running, cancelRemaining, broken>>

\* Mutant: the cases of a cancelled suite are not counted.
CancelSuiteUncounted ==
    /\ AtSuite /\ Matches(Here[1]) # {} /\ cancelRemaining
    /\ verdict' = [Cancelled(Here[1]) EXCEPT ![Here[1]] = "cancelled"]
    /\ frames' = Past(frames)
    /\ UNCHANGED <<running, summary, cancelRemaining, broken>>

CancelSuite ==
    /\ AtSuite /\ Matches(Here[1]) # {} /\ cancelRemaining
    /\ verdict' = [Cancelled(Here[1]) EXCEPT ![Here[1]] = "cancelled"]
    /\ summary' = CountAll(summary, "cancelled", Matches(Here[1]))
    /\ frames' = Past(frames)
    /\ UNCHANGED <<running, cancelRemaining, broken>>

EnterSuite ==
    /\ AtSuite /\ Matches(Here[1]) # {} /\ ~cancelRemaining
    /\ frames' = Append(frames, [suite |-> Here[1], at |-> 1])
    /\ UNCHANGED <<running, verdict, summary, cancelRemaining, broken>>

\* Mutant: a cancelled run goes on with the cases of the suite it is in.
RunsCaseCancelled == AtCase /\ Here[1] \in matching \cap Written

RunsCase == AtCase /\ Here[1] \in matching \cap Written /\ ~cancelRemaining

StartRunnable ==
    /\ AtHook \/ RunsCase
    /\ running' = Here
    /\ UNCHANGED <<frames, verdict, summary, cancelRemaining, broken>>

(* A suite ends with the status its children give it, and the one it is in  *)
(* goes on.                                                                 *)
LeaveSuite ==
    /\ frames # <<>> /\ Top.at > Len(ExecutionItems(Top.suite))
    /\ verdict' = [verdict EXCEPT ![Top.suite] = Rollup({verdict[n] : n \in ToSet(Children[Top.suite])})]
    /\ frames' = IF Len(frames) = 1 THEN <<>> ELSE Past(Front(frames))
    /\ UNCHANGED <<running, summary, cancelRemaining, broken>>

Pass ==
    /\ running' = NoRunnable
    /\ frames' = Past(frames)
    /\ IF running[1] \in Cases
       THEN /\ verdict' = [verdict EXCEPT ![running[1]] = "passed"]
            /\ summary' = Count("passed")
       ELSE UNCHANGED <<verdict, summary>>
    /\ UNCHANGED <<cancelRemaining, broken>>

FailCase ==
    /\ running[1] \in Cases
    /\ running' = NoRunnable
    /\ verdict' = [verdict EXCEPT ![running[1]] = "failed"]
    /\ summary' = Count("failed")
    /\ cancelRemaining' = (cancelRemaining \/ bail)
    /\ frames' = Past(frames)
    /\ UNCHANGED broken

\* Mutant: after a failed hook the suite goes on.
FailHookAndGoOn ==
    /\ running[1] \in Suites
    /\ running' = NoRunnable
    /\ verdict' = verdict
    /\ summary' = Count("failed")
    /\ cancelRemaining' = (cancelRemaining \/ bail)
    /\ broken' = broken \union {running[1]}
    /\ frames' = Past(frames)

(* A failed before hook fails its suite; everything below is cancelled.     *)
FailHook ==
    /\ running[1] \in Suites
    /\ running' = NoRunnable
    /\ verdict' = [Cancelled(running[1]) EXCEPT ![running[1]] = "failed"]
    /\ summary' = CountAll(Count("failed"), "cancelled", Matches(running[1]))
    /\ cancelRemaining' = (cancelRemaining \/ bail)
    /\ broken' = broken \union {running[1]}
    /\ frames' = IF Len(frames) = 1 THEN <<>> ELSE Past(Front(frames))

Fail == FailCase \/ FailHook

(***************************************************************************)
(* The runner's process.                                                   *)
(***************************************************************************)
Running == stage = "running"

(* The suite files are registered; one that cannot be loaded ends the run.  *)
Load ==
    /\ stage = "loading"
    /\ stage' = "running"
    /\ frames' = <<[suite |-> Root, at |-> 1]>>
    /\ UNCHANGED <<matching, bail, running, verdict, summary, cancelRemaining, broken, stray, code, written, parent>>

Exit(status) == stage' = "exited" /\ code' = status % ExitCodes

LoadFails ==
    /\ stage = "loading"
    /\ Exit(1)
    /\ UNCHANGED <<matching, bail, walk, stray, written, parent>>

Step ==
    /\ Running
    /\ PassOver \/ SkipCase \/ CancelCase \/ CancelSuite \/ EnterSuite \/ StartRunnable \/ LeaveSuite
    /\ UNCHANGED <<matching, bail, stray, stage, code, written, parent>>

(* The runnable settles; what it left behind may still throw later.         *)
Settle ==
    /\ Running /\ running # NoRunnable
    /\ Pass \/ Fail
    /\ stray' \in {stray} \union (IF stray < MaxStray THEN {stray + 1} ELSE {})
    /\ UNCHANGED <<matching, bail, stage, code, written, parent>>

(* An error that comes late fails the runnable that listens now, whose own  *)
(* body goes on and may throw later; when none listens any more, it ends    *)
(* the process.                                                             *)
StrayError ==
    /\ stray > 0
    /\ \/ Running /\ running # NoRunnable /\ Fail /\ stray' \in {stray - 1, stray} /\ UNCHANGED <<stage, code>>
       \/ stage = "reporting" /\ Exit(1) /\ stray' = stray - 1 /\ UNCHANGED walk
    /\ UNCHANGED <<matching, bail, written, parent>>

Finish ==
    /\ Running /\ frames = <<>>
    /\ stage' = "reporting"
    /\ UNCHANGED <<matching, bail, walk, stray, code, written, parent>>

WriteRecord ==
    /\ stage = "reporting" /\ ~written
    /\ written' = TRUE
    /\ UNCHANGED <<matching, bail, walk, stray, stage, code, parent>>

\* Mutant: the record is not waited for, its failure goes unnoticed.
WriteFailsUnnoticed ==
    /\ stage = "reporting" /\ ~written
    /\ Exit(summary.failed)
    /\ UNCHANGED <<matching, bail, walk, stray, written, parent>>

WriteFails ==
    /\ stage = "reporting" /\ ~written
    /\ Exit(1)
    /\ UNCHANGED <<matching, bail, walk, stray, written, parent>>

Report ==
    /\ stage = "reporting" /\ written
    /\ Exit(summary.failed)
    /\ UNCHANGED <<matching, bail, walk, stray, written, parent>>

(***************************************************************************)
(* The parent.                                                             *)
(***************************************************************************)
\* Mutant: the timeout is noted, the process left alone.
TimeOutOnly ==
    /\ result = NoResult /\ ~timedOut
    /\ timedOut' = TRUE
    /\ UNCHANGED <<matching, bail, walk, stray, stage, code, written, result>>

(* The timer runs until the output was read to its end, also past the exit. *)
TimeOut ==
    /\ result = NoResult /\ ~timedOut
    /\ timedOut' = TRUE
    /\ IF stage = "exited"
       THEN UNCHANGED <<stage, code>>
       ELSE stage' = "killed" /\ code' = Terminated
    /\ UNCHANGED <<matching, bail, walk, stray, written, result>>

Collect ==
    /\ stage \in {"exited", "killed"} /\ result = NoResult
    /\ result' = IF timedOut THEN 124 ELSE code
    /\ UNCHANGED <<matching, bail, walk, stray, stage, code, written, timedOut>>

-----------------------------------------------------------------------------
Init ==
    /\ matching \in SUBSET Cases
    /\ bail \in BOOLEAN
    /\ frames = <<>>
    /\ running = NoRunnable
    /\ verdict = [n \in Nodes |-> "none"]
    /\ summary = [passed |-> 0, failed |-> 0, skipped |-> 0, cancelled |-> 0]
    /\ cancelRemaining = FALSE
    /\ broken = {}
    /\ stray = 0
    /\ stage = "loading"
    /\ code = 0
    /\ written = FALSE
    /\ timedOut = FALSE
    /\ result = NoResult

Next ==
    \/ Load \/ LoadFails \/ Step \/ Settle \/ StrayError \/ Finish
    \/ WriteRecord \/ WriteFails \/ Report
    \/ TimeOut \/ Collect

(* The timer goes off and a process that has ended is noticed; a body owes  *)
(* nothing.                                                                 *)
Fairness == WF_vars(TimeOut) /\ WF_vars(Collect)

Spec == Init /\ [][Next]_vars /\ Fairness

-----------------------------------------------------------------------------
(***************************************************************************)
(* What must hold.                                                         *)
(***************************************************************************)
Verdicts == {"none", "passed", "failed", "skipped", "cancelled"}

(* Types of the state.  The call stack is a path of the tree: a suite that  *)
(* was entered is the item the one around it is at; what runs is the item   *)
(* of the innermost.                                                        *)
PathOK(fs) ==
    /\ fs \in Seq([suite : Suites, at : Nat \ {0}])
    /\ \A i \in 1 .. Len(fs) : fs[i].at <= Len(ExecutionItems(fs[i].suite)) + 1
    /\ \A i \in 1 .. Len(fs) - 1 :
         /\ fs[i].at <= Len(ExecutionItems(fs[i].suite))
         /\ ExecutionItems(fs[i].suite)[fs[i].at] = <<fs[i + 1].suite, 0>>

WalkTypeOK ==
    /\ PathOK(frames)
    /\ running # NoRunnable =>
         /\ frames # <<>> /\ Top.at <= Len(ExecutionItems(Top.suite))
         /\ running = Here /\ (running[1] \in Suites => running[2] # 0)

SuiteTypeOK ==
    /\ matching \subseteq Cases /\ bail \in BOOLEAN
    /\ WalkTypeOK
    /\ verdict \in [Nodes -> Verdicts]
    /\ summary \in [passed : Nat, failed : Nat, skipped : Nat, cancelled : Nat]
    /\ cancelRemaining \in BOOLEAN
    /\ broken \subseteq Suites
    /\ stray \in 0 .. MaxStray
    /\ stage \in {"loading", "running", "reporting", "exited", "killed"}
    /\ code \in 0 .. 255
    /\ written \in BOOLEAN /\ timedOut \in BOOLEAN
    /\ result \in 0 .. 256

With(v) == {c \in Cases : verdict[c] = v}

(* The summary counts every selected case once, under the verdict it has in *)
(* the tree, and a failed before hook as one failure more; no case outside  *)
(* the selection has a verdict (runtime.ts, run and what it calls).         *)
SummaryAgrees ==
    /\ summary.passed = Cardinality(With("passed"))
    /\ summary.failed = Cardinality(With("failed")) + Cardinality(broken)
    /\ summary.skipped = Cardinality(With("skipped"))
    /\ summary.cancelled = Cardinality(With("cancelled"))
    /\ Cases \ With("none") \subseteq matching
    /\ stage = "reporting" => matching \cap With("none") = {}

(* The record that shows the failures only, under failed suites only, holds *)
(* every case and every hook that failed (run-record.ts,                    *)
(* filterFailedLogRecord).                                                  *)
FailedLog == {n \in Nodes : \A m \in {n} \union Above[n] : verdict[m] = "failed"}
FailuresAreShown ==
    stage = "reporting" =>
        /\ With("failed") \union broken \subseteq FailedLog
        /\ summary.failed = 0 => verdict[Root] # "failed"

(* The summary, the tree and the record of failures tell one story, however *)
(* bail, failed hooks and late errors met (runtime.ts, console-runner.ts).  *)
ReportIsTrue == SummaryAgrees /\ FailuresAreShown

(* A case runs only if every before hook of every suite around it passed    *)
(* (runtime.ts, executeSuite).                                              *)
HooksComeFirst ==
    \A c \in Cases :
        verdict[c] \in {"passed", "failed", "skipped"} \/ running = <<c, 0>> => Above[c] \cap broken = {}

(* With bail, nothing more is started after the first failure, be it of a   *)
(* case, of a hook or blamed on one (runtime.ts, cancelRemaining).          *)
NothingAfterBail == bail /\ summary.failed > 0 => running = NoRunnable

(* The runner reports success only for a run that went to its end, judged   *)
(* every selected case and wrote its record, and in which nothing failed -- *)
(* or so much that the number of failures no longer fits the exit code      *)
(* (console-runner.ts, run.ts runLrs).                                      *)
ZeroMeansPassed ==
    result = 0 =>
        /\ written /\ frames = <<>>
        /\ \A c \in matching : verdict[c] # "none"
        /\ \/ summary.failed >= ExitCodes
           \/ broken = {} /\ \A c \in matching : verdict[c] \in {"passed", "skipped"}

(* With a timeout set the run comes to a result, also when a body never     *)
(* settles (run.ts, runLrs).                                                *)
RunEnds == <>(result # NoResult)
=============================================================================
