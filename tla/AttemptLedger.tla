---------------------------- MODULE AttemptLedger ----------------------------
(***************************************************************************)
(* What a test delivery promises the people it scores, whatever its        *)
(* navigation, its time limits and its clock: a submission is taken at     *)
(* most once and never lost.  Items of a group submitted together wait,    *)
(* revisable, until the whole group is collected; the others are recorded  *)
(* at once, within their attempt limit.  Nothing is taken while the        *)
(* session is suspended, closing collects everything that waits, and a     *)
(* closed session is closed.  TestController is shown to implement it.     *)
(***************************************************************************)
EXTENDS Naturals, Sequences

CONSTANTS
    Items,
    GroupOf,       \* GroupOf[i]: the group item i belongs to
    Together,      \* the groups submitted together
    Limit,         \* Limit[i]: attempts of item i, 0 for no limit
    Submissions,
    None           \* nothing waits

VARIABLES
    phase,         \* "in-progress", "suspended" or "ended"
    waiting,       \* waiting[i]: the submission that waits to be collected
    attempts       \* attempts[i]: those recorded

ledger == <<phase, waiting, attempts>>

Init ==
    /\ phase \in {"in-progress", "ended"}
    /\ waiting = [i \in Items |-> None]
    /\ attempts = [i \in Items |-> <<>>]

(* Some groups are collected, each in whole, from the submissions w that    *)
(* wait on top of the attempts a.                                           *)
Collect(w, a) ==
    LET collected == {i \in Items : w[i] # None /\ waiting'[i] = None}
    IN  /\ waiting' = [i \in Items |-> IF i \in collected THEN None ELSE w[i]]
        /\ attempts' = [i \in Items |-> IF i \in collected THEN Append(a[i], w[i]) ELSE a[i]]
        /\ \A i \in collected, j \in Items :
             GroupOf[j] = GroupOf[i] /\ w[j] # None => j \in collected

(* A session moves between its phases; ending it collects everything.       *)
Continues ==
    \/ phase = "in-progress" /\ phase' \in {"in-progress", "suspended"}
    \/ phase # "ended" /\ phase' = "ended" /\ waiting' = [i \in Items |-> None]

Work == Collect(waiting, attempts) /\ Continues

Resume == phase = "suspended" /\ phase' = "in-progress" /\ UNCHANGED <<waiting, attempts>>

(* A submission is held, in place of the one before ...                     *)
Hold(i, submission) ==
    /\ phase = "in-progress"
    /\ GroupOf[i] \in Together
    /\ attempts[i] = <<>>
    /\ Collect([waiting EXCEPT ![i] = submission], attempts)
    /\ Continues

(* ... or recorded.                                                         *)
Record(i, submission) ==
    /\ phase = "in-progress"
    /\ GroupOf[i] \notin Together
    /\ Limit[i] = 0 \/ Len(attempts[i]) < Limit[i]
    /\ Collect(waiting, [attempts EXCEPT ![i] = Append(@, submission)])
    /\ Continues

Next ==
    \/ Work
    \/ Resume
    \/ \E i \in Items, submission \in Submissions : Hold(i, submission) \/ Record(i, submission)

Spec == Init /\ [][Next]_ledger

=============================================================================
