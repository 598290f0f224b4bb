------------------------ MODULE TestSessionProperties ------------------------
(***************************************************************************)
(* What the session store and its attempt stores promise together, and     *)
(* what their documentation says that the code does not keep.              *)
(***************************************************************************)
EXTENDS TestSession, Functions

StoreRecord ==
  [response : Responses,
   submitted : BOOLEAN,
   result : Results \cup {NoResult},
   activeMs : Int,
   runningSince : Int \cup {Stopped},
   states : Responses \cup {NoState},
   templateDefaults : TestOutcomes \cup {NoResult},
   forwarded : BOOLEAN]

\* An item without a store is told from one with a store.
ASSUME StoreAssumption == NoStore \notin StoreRecord

\* Type invariant; and every submitted snapshot, which has a result, has been handed
\* to the controller once the call that made it is done, however deep in an emit it
\* was made.  (session-store.ts, the subscription in itemStore.)
StoresTypeOK ==
  /\ stores \in [Items -> StoreRecord \cup {NoStore}]
  /\ instances \in [Items -> Responses \cup {NoInstance}]
  /\ made \in [Items -> Nat]
  /\ typed \in [Items -> Responses]
  /\ \A i \in Items : stores[i] # NoStore /\ stores[i].submitted =>
                        stores[i].forwarded /\ stores[i].result \in Results

(***************************************************************************)
(* Safety                                                                  *)
(***************************************************************************)

\* Exactly the active item's store has its clock running, whatever sequence of
\* navigation, expiry, suspension, late opening and restart led here.
OnlyActiveClockRuns ==
  \A i \in Items :
    stores[i] # NoStore =>
      (stores[i].runningSince # Stopped
         <=> session.status = "in-progress" /\ session.currentItemKey = i)

StoreTime(st) ==
  st.activeMs + IF st.runningSince = Stopped THEN 0 ELSE clock - st.runningSince

ItemTime(i) ==
  session.seconds[<<"item", i>>]
    + IF session.status = "in-progress" /\ session.currentItemKey = i
      THEN Elapsed(session) ELSE 0

\* The duration an attempt store reports never exceeds the time the controller
\* enforces limits on for that item, and is never negative.
StoreTimeFits ==
  \A i \in Items : stores[i] # NoStore => StoreTime(stores[i]) \in 0 .. ItemTime(i)

LateFor(i) == {k \in DOMAIN session.rejectedSubmissions :
                 session.rejectedSubmissions[k].itemKey = i}

\* Every attempt recorded, held or reported late goes back to a submission the
\* candidate made: navigation and suspension are clock-only.
\* (ADR 0005: "suspension never alters responses, outcomes, or attempt counts".)
NoAttemptInvented ==
  \A i \in Items :
    Len(session.attemptHistory[i])
      + (IF session.pendingItemResults[i] = NoResult THEN 0 ELSE 1)
      + Cardinality(LateFor(i)) <= made[i]

\* In-progress work in an interaction survives leaving its item and returning:
\* a mounted interaction holds what the candidate last gave it.
\* (ADR 0012: the session store's suspend and resume "drives it end to end".)
InputSurvives ==
  \A i \in Imperative : instances[i] # NoInstance => instances[i] = typed[i]

(***************************************************************************)
(* Action properties                                                       *)
(***************************************************************************)

\* Once the template defaults of an item are recorded, no call, forwarded submission
\* or restart takes its clone off them: a store opened from then on is built from
\* what was recorded, a store built from it stays so through resets, and it is never
\* evaluated anew.  Of a store opened before that, as a report opens those of items not
\* reached yet, it says nothing: its clone keeps the declared defaults.  (store.ts:90-91:
\* "the test session store supplies them from the controller's recorded
\* templateDefaultValues"; types.ts: "so item-store creation reads a stable, replayable
\* value".)
ClonesStayOnRecord ==
  [][\A i \in Items :
       /\ session.templateDefaultValues[i] # NoResult
       /\ stores[i] = NoStore \/ stores[i].templateDefaults = session.templateDefaultValues[i]
       => /\ session'.templateDefaultValues[i] = session.templateDefaultValues[i]
          /\ stores'[i] = NoStore \/ stores'[i].templateDefaults = session'.templateDefaultValues[i]
    ]_sessionVars

\* Refinement: whatever stores, interactions and restarts do, the session they
\* share behaves as a test controller does: one transition per call.
ImplementsController == Init /\ [][Next]_vars
=============================================================================
