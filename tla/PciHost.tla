------------------------------ MODULE PciHost ------------------------------
(***************************************************************************)
(* Portable custom interactions of one item: the host effect of each       *)
(* interaction, the mount it starts, and the attempt store that collects   *)
(* what the instances hold.                                                *)
(*                                                                         *)
(* A run is one execution of a host's effect.  It waits for sources to be  *)
(* fetched and for its instance to be ready; what it does between two      *)
(* waits is one step.  React's StrictMode starts two runs at once on one   *)
(* container and cancels the first.  The candidate's work in an instance   *)
(* is counted, and the count stands for the response and for the state.    *)
(*                                                                         *)
(* How a module is found is a parameter: Search and SearchOn may be any    *)
(* operators that say how the registry changed and either which fetch the  *)
(* run waits for (an entry above 0, and a candidate) or which module it    *)
(* mounts (NoModule when there is none).  PciLoading gives them.           *)
(***************************************************************************)
EXTENDS Naturals, Sequences

CONSTANTS
    Hosts,
    Registries,          \* what the application may have registered
    Search(_, _),        \* Search(reg, h): host h begins to look for its module
    SearchOn(_, _, _, _),\* SearchOn(reg, h, fetch, bytes): it goes on with what the fetch delivered
    NoModule,
    Bytes,               \* what a fetch may deliver
    MaxRuns,             \* MaxRuns[h], bound: runs of host h
    Working,             \* bound: the interactions the candidate works in
    MaxWork              \* bound: the candidate's steps in one of them

VARIABLES
    reg,           \* the registry
    runs,          \* runs[h]: the runs of host h, the last one its newest
    fetches,       \* fetches[h][i]: the fetch run i of host h waits for, with entry 0 for none
    handle,        \* handle[h]: the run whose mount handle host h holds, 0 for none
    error,         \* error[h]: the host shows its error note
    response,      \* response[h]: the response in the attempt store
    states,        \* states[h]: the captured state in the attempt store, 0 for none
    submitted,
    saved          \* saved[h] (history): the work that was there at the last suspend of a ready instance

page == <<runs, fetches, handle, error>>
store == <<response, states, submitted, saved>>
vars == <<reg, page, store>>

Phases == {"fetching", "waiting", "mounted", "failed", "gone"}
Effects == [phase : Phases, cancelled : BOOLEAN, root : BOOLEAN, work : Nat]

PageTypeOK ==
    /\ runs \in [Hosts -> Seq(Effects)]
    /\ handle \in [Hosts -> Nat]
    /\ error \in [Hosts -> BOOLEAN]
    /\ response \in [Hosts -> Nat]
    /\ states \in [Hosts -> Nat]
    /\ submitted \in BOOLEAN
    /\ saved \in [Hosts -> Nat]

Current(h) == Len(runs[h])
Newest(h) == runs[h][Current(h)]
Attached(h) == runs[h] # <<>> /\ ~Newest(h).cancelled

(***************************************************************************)
(* Mounting.  The instance is made inside a root of its own; one module    *)
(* returns it, one reports it later through onready, one throws.  A run    *)
(* cancelled in the meantime is torn down as soon as its instance is ready.*)
(***************************************************************************)
Unmount(rs, i) == [rs EXCEPT ![i].phase = "gone", ![i].root = FALSE]

\* Mutant: what was cancelled while it loaded is mounted all the same.
SettleAlways(rs, i) == [rs EXCEPT ![i].phase = "mounted"]

Settle(rs, i) == IF rs[i].cancelled THEN Unmount(rs, i) ELSE [rs EXCEPT ![i].phase = "mounted"]

Mount(rs, i, module) ==
    LET made == [rs EXCEPT ![i].root = TRUE]
    IN  IF module.instance = "throws" THEN [made EXCEPT ![i].phase = "failed"]
        ELSE IF module.instance = "returned" THEN Settle(made, i)
        ELSE [made EXCEPT ![i].phase = "waiting"]

Continue(rs, i, next) ==
    IF next.entry # 0 THEN rs
    ELSE IF next.module # NoModule THEN Mount(rs, i, next.module)
    ELSE [rs EXCEPT ![i].phase = "failed"]

Fetch(next) == [entry |-> next.entry, candidate |-> next.candidate]

\* Mutant: a failed mount is not shown.
ToldHandleOnly(h, i, rs) ==
    /\ runs' = [runs EXCEPT ![h] = rs]
    /\ handle' = [handle EXCEPT ![h] = IF rs[i].phase = "mounted" THEN i ELSE @]
    /\ error' = error

(* The runs of host h are now rs; run i tells the host of a handle, or of   *)
(* an error to show.                                                        *)
Told(h, i, rs) ==
    /\ runs' = [runs EXCEPT ![h] = rs]
    /\ handle' = [handle EXCEPT ![h] = IF rs[i].phase = "mounted" THEN i ELSE @]
    /\ error' = [error EXCEPT ![h] = @ \/ (rs[i].phase = "failed" /\ ~rs[i].cancelled)]

NewRun(h, cancelled) ==
    [phase |-> "fetching", cancelled |-> cancelled, root |-> FALSE, work |-> states[h]]

(* The interaction is rendered for the first time, or again.                *)
Attach(h) ==
    LET next == Search(reg, h)
        i == Current(h) + 1
    IN  /\ ~Attached(h)
        /\ i <= MaxRuns[h]
        /\ reg' = next.reg
        /\ fetches' = [fetches EXCEPT ![h] = Append(@, Fetch(next))]
        /\ Told(h, i, Continue(Append(runs[h], NewRun(h, FALSE)), i, next))
        /\ UNCHANGED store

(* Under StrictMode the effect runs, is cleaned up and runs again before    *)
(* anything it awaits goes on.                                              *)
StrictAttach(h) ==
    LET first == Search(reg, h)
        next == Search(first.reg, h)
        i == Current(h) + 2
        started == runs[h] \o <<NewRun(h, TRUE), NewRun(h, FALSE)>>
    IN  /\ ~Attached(h)
        /\ i <= MaxRuns[h]
        /\ reg' = next.reg
        /\ fetches' = [fetches EXCEPT ![h] = @ \o <<Fetch(first), Fetch(next)>>]
        /\ Told(h, i, Continue(Continue(started, i - 1, first), i, next))
        /\ UNCHANGED store

(* The effect's cleanup; the interaction leaves the page with its note.     *)
Detach(h) ==
    LET i == Current(h)
        cancelled == [runs[h] EXCEPT ![i].cancelled = TRUE]
    IN  /\ Attached(h)
        /\ runs' = [runs EXCEPT ![h] = IF handle[h] = i THEN Unmount(cancelled, i) ELSE cancelled]
        /\ handle' = [handle EXCEPT ![h] = 0]
        /\ error' = [error EXCEPT ![h] = FALSE]
        /\ UNCHANGED <<reg, fetches, store>>

(* A fetch of run i comes back.                                             *)
FetchReply(h, i, bytes) ==
    LET next == SearchOn(reg, h, fetches[h][i], bytes)
    IN  /\ runs[h][i].phase = "fetching"
        /\ UNCHANGED store
        /\ reg' = next.reg
        /\ fetches' = [fetches EXCEPT ![h][i] = Fetch(next)]
        /\ Told(h, i, Continue(runs[h], i, next))

(* The instance of run i reports that it is ready.                          *)
OnReady(h, i) ==
    /\ runs[h][i].phase = "waiting"
    /\ Told(h, i, Settle(runs[h], i))
    /\ UNCHANGED <<reg, fetches, store>>

(***************************************************************************)
(* The candidate and the attempt store.                                    *)
(***************************************************************************)
Interact(h) ==
    /\ h \in Working
    /\ handle[h] # 0
    /\ runs[h][handle[h]].work < MaxWork
    /\ runs' = [runs EXCEPT ![h][handle[h]].work = @ + 1]
    /\ UNCHANGED <<reg, fetches, handle, error, store>>

\* Mutant: a submitted attempt still takes responses.
SetResponseAlways(h, value) == response' = [response EXCEPT ![h] = value]

SetResponse(h, value) == response' = IF submitted THEN response ELSE [response EXCEPT ![h] = value]

(* An instance says it is done; the one of a cancelled run may say it too.  *)
OnDone(h, i) ==
    /\ runs[h][i].phase \in {"waiting", "mounted", "gone"}
    /\ SetResponse(h, runs[h][i].work)
    /\ UNCHANGED <<reg, page, states, submitted, saved>>

Ready == {h \in Hosts : handle[h] # 0}

(* Submitting collects the response of every ready instance.                *)
Submit ==
    /\ ~submitted
    /\ response' = [h \in Hosts |-> IF h \in Ready THEN runs[h][handle[h]].work ELSE response[h]]
    /\ submitted' = TRUE
    /\ UNCHANGED <<reg, page, states, saved>>

\* Mutant: an instance that is not ready is captured without state.
CaptureAll == [h \in Hosts |-> IF h \in Ready THEN runs[h][handle[h]].work ELSE 0]

Capture == [h \in Hosts |-> IF h \in Ready THEN runs[h][handle[h]].work ELSE states[h]]

Suspend ==
    /\ states' = Capture
    /\ saved' = [h \in Hosts |-> IF h \in Ready THEN runs[h][handle[h]].work ELSE saved[h]]
    /\ UNCHANGED <<reg, page, response, submitted>>

(* The attempt starts over with the responses and states it first had.      *)
Reset ==
    /\ response' = [h \in Hosts |-> 0]
    /\ states' = [h \in Hosts |-> 0]
    /\ saved' = [h \in Hosts |-> 0]
    /\ submitted' = FALSE
    /\ UNCHANGED <<reg, page>>

-----------------------------------------------------------------------------
Init ==
    /\ reg \in Registries
    /\ runs = [h \in Hosts |-> <<>>]
    /\ fetches = [h \in Hosts |-> <<>>]
    /\ handle = [h \in Hosts |-> 0]
    /\ error = [h \in Hosts |-> FALSE]
    /\ response = [h \in Hosts |-> 0]
    /\ states = [h \in Hosts |-> 0]
    /\ submitted = FALSE
    /\ saved = [h \in Hosts |-> 0]

AnyFetch == \E h \in Hosts : \E i \in DOMAIN runs[h] : \E bytes \in Bytes : FetchReply(h, i, bytes)

Next ==
    \/ AnyFetch
    \/ \E h \in Hosts : Attach(h) \/ StrictAttach(h) \/ Detach(h) \/ Interact(h)
    \/ \E h \in Hosts : \E i \in DOMAIN runs[h] : OnReady(h, i) \/ OnDone(h, i)
    \/ Submit \/ Suspend \/ Reset

(* Fetches are answered, be it with a refusal; an instance may never be     *)
(* ready, and the candidate owes nothing.                                   *)
Fairness == WF_vars(AnyFetch)

Spec == Init /\ [][Next]_vars /\ Fairness

-----------------------------------------------------------------------------
(***************************************************************************)
(* What must hold.                                                         *)
(***************************************************************************)

(* A host holds the handle of its newest, uncancelled run or none, and no   *)
(* other run of it is mounted: an interaction disposed while its module     *)
(* loads or its instance starts does not come up behind the page, and the   *)
(* one on the page keeps its root whatever earlier runs on the container    *)
(* are torn down meanwhile (skin.ts, the effect; mount.ts, its root).       *)
HandleIsLive ==
    \A h \in Hosts : \A i \in DOMAIN runs[h] :
        /\ runs[h][i].phase = "mounted" <=> handle[h] = i
        /\ handle[h] = i => i = Current(h) /\ Attached(h)
        /\ runs[h][i].phase = "gone" => runs[h][i].cancelled
        /\ runs[h][i].phase \in {"waiting", "mounted"} => runs[h][i].root

(* What the candidate had done in a ready instance when the attempt was     *)
(* suspended is there again in every instance that comes up later, also     *)
(* when the attempt was suspended again before one was ready (store.ts,     *)
(* suspend; skin.ts, the initial state).                                    *)
WorkSurvives == \A h \in Hosts : handle[h] # 0 => runs[h][handle[h]].work >= saved[h]

(* Hosts that load one id at the same time, from whatever candidates, share *)
(* the module the first of them resolved (registry.ts, resolve and load).   *)
ResolvedOnce ==
    [][\A id \in DOMAIN reg.resolved : id \in DOMAIN reg'.resolved /\ reg'.resolved[id] = reg.resolved[id]]_vars

(* The responses of a submitted attempt are final: no instance that comes   *)
(* up, is done or is torn down late changes them (store.ts, setResponse).   *)
SubmittedStays == [][submitted /\ submitted' => response' = response]_vars

(* An interaction on the page comes up or shows its error, unless it leaves *)
(* the page or its instance never reports that it is ready (skin.ts: module *)
(* failures are never a silent drop).                                       *)
NeverSilent ==
    \A h \in Hosts :
        Attached(h) ~> \/ handle[h] # 0
                       \/ error[h]
                       \/ ~Attached(h)
                       \/ Newest(h).phase = "waiting"
=============================================================================
