----------------------------- MODULE TestSession -----------------------------
(***************************************************************************)
(* The test session store (packages/qti-react/src/test/session-store.ts)   *)
(* and the attempt stores it drives (src/store.ts), composed with the test *)
(* controller.  The session store holds the controller's state, opens one  *)
(* attempt store per item, forwards what those stores submit and keeps     *)
(* their clocks in step with navigation; imperative interactions (PCI)     *)
(* hold their own input and are asked for it.                              *)
(*                                                                         *)
(* A call runs to completion, listeners included, at one clock reading.    *)
(* The operators below map a world [session, stores, instances] to the     *)
(* world after the call.  Stores and instances die with the page; the      *)
(* session state is what the consumer persists.                            *)
(***************************************************************************)
EXTENDS TestController

CONSTANTS
  Resolvable,         \* items whose view resolveItem can deliver
  Imperative,         \* items whose body mounts an interaction with getState
  Responses,          \* what a candidate can answer
  NoResponse,         \* the null response
  Stopped,            \* no running stretch of a clock
  NoStore,            \* no attempt store opened
  NoInstance,         \* no interaction mounted
  NoState,            \* no interaction state captured
  ResetsAnywhere,     \* whether the consumer resets stores off the current item
  MaxMade,            \* bound: submissions explored per item
  Score(_, _, _),     \* result of an item's response, given the prior result
  Completes(_, _),    \* whether a result completes an adaptive item
  NextAttempt(_)      \* the response an adaptive item keeps between attempts

ASSUME SessionStoreAssumption ==
  /\ Resolvable \subseteq Items
  /\ Imperative \subseteq Items
  /\ NoResponse \in Responses
  /\ NoInstance \notin Responses
  /\ NoState \notin Responses
  /\ Stopped \notin Int
  /\ ResetsAnywhere \in BOOLEAN
  /\ \A i \in Items, v \in Responses, prior \in Results \cup {NoResult} :
       Score(i, v, prior) \in Results
  /\ \A v \in Responses : NextAttempt(v) \in Responses

VARIABLES
  stores,      \* stores[i]: the item's attempt store, or NoStore
  instances,   \* instances[i]: the input the mounted interaction holds
  made,        \* observability: completed submissions per item
  typed        \* observability: what the candidate last gave the interaction

sessionVars == <<session, clock, activeTime, stores, instances, made, typed>>

World == [session |-> session, stores |-> stores, instances |-> instances]

(***************************************************************************)
(* The attempt store                                                       *)
(***************************************************************************)

Opened(w, i) == i \in Items /\ w.stores[i] # NoStore

\* Mutant: the session's status is not looked at.
CurrentKeyOf(s) == s.currentItemKey

\* The item whose clock should run: current, in an open session.
ActiveKeyOf(s) == IF s.status = "in-progress" THEN s.currentItemKey ELSE NoItem

\* Snapshot, clock and template defaults of a store.  result # NoResult stands
\* for attemptCount > 0; forwarded says that the current snapshot object is the
\* one last handed to the controller.
FreshStore(since, defaults) ==
  [response |-> NoResponse, submitted |-> FALSE, result |-> NoResult,
   activeMs |-> 0, runningSince |-> since, states |-> NoState,
   templateDefaults |-> defaults, forwarded |-> FALSE]

\* Mutant: every store starts with its clock running.
OpenStoreRunning(w, i) ==
  IF Opened(w, i) \/ i \notin Resolvable THEN w
  ELSE [w EXCEPT !.stores[i] = FreshStore(clock, w.session.templateDefaultValues[i])]

\* itemStore: opened once, suspended unless its item is the active one.
OpenStore(w, i) ==
  IF Opened(w, i) \/ i \notin Resolvable THEN w
  ELSE [w EXCEPT !.stores[i] =
          FreshStore(IF ActiveKeyOf(w.session) = i THEN clock ELSE Stopped,
                     w.session.templateDefaultValues[i])]

\* Mutant: the stretch is subtracted the wrong way round.
StopClockReversed(st) ==
  IF st.runningSince = Stopped THEN st
  ELSE [st EXCEPT !.activeMs = st.activeMs + st.runningSince - clock,
                  !.runningSince = Stopped]

StopClock(st) ==
  IF st.runningSince = Stopped THEN st
  ELSE [st EXCEPT !.activeMs = st.activeMs + clock - st.runningSince,
                  !.runningSince = Stopped]

\* Another snapshot of a submitted store reaches the controller as another
\* submission.  It happens where the item has just been left: at this clock
\* reading every expiry is settled and the call moves no one.
Reforward(w, i) ==
  LET st == w.stores[i]
  IN IF ~st.submitted THEN w
     ELSE [w EXCEPT !.session = SubmitItem(w.session, i, st.result),
                    !.stores[i].forwarded = TRUE]

\* Mutant: a store already submitted captures nothing.
SuspendStoreOpenOnly(w, i) ==
  LET st == StopClock(w.stores[i])
  IN IF w.instances[i] = NoInstance \/ st.submitted THEN [w EXCEPT !.stores[i] = st]
     ELSE [w EXCEPT !.stores[i] = [st EXCEPT !.states = w.instances[i], !.forwarded = FALSE]]

\* suspend(): the clock stops and the mounted interaction's state is captured,
\* which makes a new snapshot and notifies the subscribers.
SuspendStore(w, i) ==
  LET st == StopClock(w.stores[i])
  IN IF w.instances[i] = NoInstance THEN [w EXCEPT !.stores[i] = st]
     ELSE Reforward([w EXCEPT !.stores[i] =
                       [st EXCEPT !.states = w.instances[i], !.forwarded = FALSE]], i)

ResumeStore(w, i) ==
  IF w.stores[i].runningSince # Stopped THEN w
  ELSE [w EXCEPT !.stores[i].runningSince = clock]

(***************************************************************************)
(* The session store                                                       *)
(***************************************************************************)

\* emit: the state first, then the clocks of the departed and the entered item.
Emit(w, next) ==
  LET from  == ActiveKeyOf(w.session)
      to    == ActiveKeyOf(next)
      moved == [w EXCEPT !.session = next]
      left  == IF from # to /\ Opened(moved, from) THEN SuspendStore(moved, from) ELSE moved
  IN IF from # to /\ Opened(left, to) THEN ResumeStore(left, to) ELSE left

\* The subscription on every attempt store: a submitted snapshot not handed
\* over yet goes to the controller.
Forward(w, i) ==
  LET st    == w.stores[i]
      taken == [w EXCEPT !.stores[i].forwarded = TRUE]
      next  == SubmitItem(w.session, i, st.result)
  IN IF ~st.submitted \/ st.forwarded THEN w
     ELSE IF next = w.session THEN taken ELSE Emit(taken, next)

StoreEmit(w, i, st) ==
  Forward([w EXCEPT !.stores[i] = [st EXCEPT !.forwarded = FALSE]], i)

\* Mutant: a submitted store takes further responses.
SetResponseUnlocked(w, i, v) ==
  StoreEmit(w, i, [w.stores[i] EXCEPT !.response = v])

SetResponse(w, i, v) ==
  IF w.stores[i].submitted THEN w
  ELSE StoreEmit(w, i, [w.stores[i] EXCEPT !.response = v])

\* The response submit() scores: a mounted interaction is asked for its own.
Collected(w, i) ==
  IF w.instances[i] = NoInstance THEN w.stores[i].response ELSE w.instances[i]

Scored(w, i) ==
  Score(i, Collected(w, i), IF i \in Adaptive THEN w.stores[i].result ELSE NoResult)

\* validate-responses applies to individual parts only.
RefusesInvalid(i) == Control[i].validateResponses /\ PartOf[i] \notin Simultaneous

\* The submission locks the store: it is scored, and the item completed.
Locks(w, i) ==
  /\ ~w.stores[i].submitted
  /\ LET scored == Scored(w, i)
     IN /\ RefusesInvalid(i) => scored.valid
        /\ i \in Adaptive => Completes(i, scored)

\* submit(): an invalid response is refused, an adaptive item stays open until
\* its result completes it, everything else locks.
SubmitStore(w, i) ==
  LET st     == w.stores[i]
      pulled == [st EXCEPT !.response = Collected(w, i)]
      scored == Scored(w, i)
      locks  == Locks(w, i)
  IN IF st.submitted THEN w
     ELSE IF RefusesInvalid(i) /\ ~scored.valid THEN StoreEmit(w, i, pulled)
     ELSE StoreEmit(w, i,
            [pulled EXCEPT !.result = scored, !.submitted = locks,
                           !.response = IF locks THEN @ ELSE NextAttempt(@)])

\* reset(): a blank snapshot and a clock restarted from zero.
ResetStore(w, i) ==
  StoreEmit(w, i, FreshStore(clock, w.stores[i].templateDefaults))

(***************************************************************************)
(* Actions                                                                 *)
(***************************************************************************)

WorldIs(w) ==
  /\ session' = w.session
  /\ stores' = w.stores
  /\ instances' = w.instances
  /\ UNCHANGED <<clock, activeTime>>

Unobserved == UNCHANGED <<made, typed>>

\* The session surface: the controller's transition, emitted.
Calls(next) == WorldIs(Emit(World, next)) /\ Unobserved

CallMoveTo  == \E i \in Items : Calls(MoveTo(session, i))
CallNext    == Calls(NextItem(session))
CallEnd     == Calls(EndTest(session))
CallTick    == Calls(TickClock(session))
CallSuspend == Calls(Suspend(session))
CallResume  == Calls(Resume(session))
CallReview  == \E i \in Items : Calls(Review(session, i))
CallComment == \E i \in Items : Calls(SetItemComment(session, i))

OpenItem == \E i \in Items : WorldIs(OpenStore(World, i)) /\ Unobserved

\* assessmentResult reads every planned item's store, and opens it for that.
AssessmentResult ==
  /\ WorldIs([World EXCEPT !.stores =
                [i \in Items |-> OpenStore(World, i).stores[i]]])
  /\ Unobserved

\* A skin reports the candidate's input; an interaction only once it is done.
Answer ==
  \E i \in Items, v \in Responses :
    /\ Opened(World, i)
    /\ i \in Imperative => v = instances[i] /\ ActiveKeyOf(session) = i
    /\ WorldIs(SetResponse(World, i, v))
    /\ Unobserved

SubmitAttempt ==
  \E i \in Items :
    /\ Opened(World, i)
    /\ made[i] < MaxMade
    /\ WorldIs(SubmitStore(World, i))
    /\ Len(session'.attemptHistory[i]) <= MaxCommitted
    /\ Len(session'.rejectedSubmissions) <= MaxRejected
    /\ made' = [made EXCEPT ![i] = IF Locks(World, i) THEN @ + 1 ELSE @]
    /\ UNCHANGED typed

ResetAttempt ==
  \E i \in Items :
    /\ Opened(World, i)
    /\ ResetsAnywhere \/ ActiveKeyOf(session) = i
    /\ WorldIs(ResetStore(World, i))
    /\ typed' = [typed EXCEPT ![i] = IF instances[i] = NoInstance THEN NoResponse ELSE @]
    /\ UNCHANGED made

\* The renderer mounts the active item's interaction with the captured state
\* and unmounts it some time after the item was left.
Mount ==
  \E i \in Imperative :
    /\ Opened(World, i) /\ ActiveKeyOf(session) = i /\ instances[i] = NoInstance
    /\ WorldIs([World EXCEPT !.instances[i] =
                  IF stores[i].states = NoState THEN NoResponse ELSE stores[i].states])
    /\ Unobserved

Unmount ==
  \E i \in Imperative :
    /\ instances[i] # NoInstance /\ ActiveKeyOf(session) # i
    /\ WorldIs([World EXCEPT !.instances[i] = NoInstance])
    /\ Unobserved

\* The candidate works in the mounted interaction, which tells no one.
Interact ==
  \E i \in Imperative, v \in Responses :
    /\ instances[i] # NoInstance /\ ActiveKeyOf(session) = i
    /\ WorldIs([World EXCEPT !.instances[i] = v])
    /\ typed' = [typed EXCEPT ![i] = v]
    /\ UNCHANGED made

NoStores    == [i \in Items |-> NoStore]
NoInstances == [i \in Items |-> NoInstance]

\* Mutant: the persisted state is not handed back.
RestoredFresh == StartState

\* The state a new session store starts from after the page is gone.
Restored == session

Restart ==
  /\ WorldIs([session |-> Restored, stores |-> NoStores, instances |-> NoInstances])
  /\ typed' = [i \in Items |-> NoResponse]
  /\ UNCHANGED made

Wait == AdvanceClock /\ UNCHANGED <<stores, instances, made, typed>>

SessionInit ==
  /\ stores = NoStores
  /\ instances = NoInstances
  /\ made = [i \in Items |-> 0]
  /\ typed = [i \in Items |-> NoResponse]
  /\ Init

SessionNext ==
  \/ CallMoveTo
  \/ CallNext
  \/ CallEnd
  \/ CallTick
  \/ CallSuspend
  \/ CallResume
  \/ CallReview
  \/ CallComment
  \/ OpenItem
  \/ AssessmentResult
  \/ Answer
  \/ SubmitAttempt
  \/ ResetAttempt
  \/ Mount
  \/ Unmount
  \/ Interact
  \/ Restart
  \/ Wait

SessionSpec == SessionInit /\ [][SessionNext]_sessionVars
=============================================================================
