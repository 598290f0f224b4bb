---------------------------- MODULE ResultsReport ----------------------------
(***************************************************************************)
(* The results document of a session (results.ts, buildAssessmentResult).  *)
(* Its item results are kept per item, in plan order, which stands for     *)
(* identifier and sequenceIndex.  A submission's responses, duration and   *)
(* outcomes are those of the record it comes from; declarations, supports  *)
(* and the formatting of values are left out.                              *)
(***************************************************************************)
EXTENDS TestController

ItemResult(status, numAttempts, datestamp, record) ==
  [sessionStatus |-> status, numAttempts |-> numAttempts, datestamp |-> datestamp,
   record |-> record, comment |-> FALSE]

\* One final entry per committed attempt, stamped with its submission.
FinalResults(s, i) ==
  [n \in DOMAIN s.attemptHistory[i] |->
     ItemResult("final", n, s.attemptHistory[i][n].submittedAtMs, s.attemptHistory[i][n].result)]

\* A held submission: responses are in, outcomes are not.
PendingResults(s, i) ==
  IF s.pendingItemResults[i] = NoResult THEN <<>>
  ELSE <<ItemResult("pendingResponseProcessing", 1, s.pendingItemResults[i].submittedAtMs,
                    s.pendingItemResults[i].result)>>

\* Selected and never attempted.
InitialResult(now) == ItemResult("initial", 0, now, NoResult)

\* The candidate's comment rides the latest entry.
Commented(s, i, entries) ==
  [n \in DOMAIN entries |->
     [entries[n] EXCEPT !.comment = n = Len(entries) /\ i \in s.itemComments]]

\* Mutant: an item whose submission is held still counts as never attempted.
ItemResultsHeldInitial(s, i, now) ==
  Commented(s, i, (IF FinalResults(s, i) = <<>> THEN <<InitialResult(now)>>
                   ELSE FinalResults(s, i)) \o PendingResults(s, i))

ItemResults(s, i, now) ==
  LET attempted == FinalResults(s, i) \o PendingResults(s, i)
  IN Commented(s, i, IF attempted = <<>> THEN <<InitialResult(now)>> ELSE attempted)

BuildAssessmentResult(s, now) ==
  [datestamp    |-> now,
   durations    |-> [c \in Scopes \ ItemScopes |-> s.seconds[c]],
   testOutcomes |-> s.testOutcomes,
   itemResults  |-> [i \in Items |-> ItemResults(s, i, now)]]
==============================================================================
