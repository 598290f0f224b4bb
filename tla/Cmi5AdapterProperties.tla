----------------------- MODULE Cmi5AdapterProperties -----------------------
(***************************************************************************)
(* What the cmi5 reference adapter must keep true whatever is called, in   *)
(* whatever order, wherever the process stops, and however the clock moves.*)
(***************************************************************************)
EXTENDS Cmi5Adapter, FiniteSets

Stamps(ttl) == {Never} \union 0 .. MaxTime + ttl
TokenValues == [session : Sessions, issue : Nat \ {0}] \union {NoToken, ForeignToken}

Launches == [registration : Registrations, moveOn : AllMoveOns, round : Nat \ {0}] \union {NoLaunch}
Accesses == [consumed : BOOLEAN, fetchExpires : Stamps(FetchTtl), token : TokenValues, authExpires : Stamps(AuthTtl)]

States ==
    [packages      : SUBSET Packages,
     launches      : [Sessions -> Launches],
     access        : [Sessions -> Accesses],
     replay        : [Sessions -> SUBSET RequestIds],
     statements    : [Sessions -> Seq(Verbs)],
     registrations : SUBSET Registrations,
     waived        : [Registrations -> Stamps(0)],
     abandoned     : SUBSET Sessions]

(* The maps, the file and the dates have the types cmi5-state.ts gives them. *)
AdapterTypeOK ==
    /\ mem \in States
    /\ disk \in [readable : BOOLEAN, snapshot : States]
    /\ now \in Times
    /\ issued \in [Sessions -> Nat] /\ rounds \in [Sessions -> Nat]
    /\ holding \subseteq [token : TokenValues, round : Nat \ {0}]
    /\ served \subseteq [token : TokenValues, id : RequestIds]

(***************************************************************************)
(* The record of a session is a cmi5 session, whatever was relaunched,     *)
(* refused, retried or lost on the way: it opens with initialized and      *)
(* launched, nothing but progressed is said twice, progress and the        *)
(* outcome are on their side of completed, there is one outcome at most,   *)
(* and terminated closes it with the launch's moveOn criterion met.        *)
(***************************************************************************)
WellFormed(moveOn, log) ==
    /\ \A i \in DOMAIN log :
        /\ (log[i] = "initialized") <=> (i = 1)
        /\ (log[i] = "launched") <=> (i = 2)
        /\ log[i] # "progressed" => \A j \in DOMAIN log : log[j] = log[i] => j = i
        /\ log[i] \in {"passed", "failed"} => \E j \in 1 .. i - 1 : log[j] = "completed"
        /\ log[i] = "progressed" => ~\E j \in 1 .. i - 1 : log[j] = "completed"
        /\ log[i] = "terminated" => i = Len(log) /\ MoveOnSatisfied(moveOn, log)
    /\ ~(HasVerb(log, "passed") /\ HasVerb(log, "failed"))

LogsWellFormed ==
    \A s \in Sessions :
        /\ WellFormed(mem.launches[s].moveOn, mem.statements[s])
        /\ ~Launched(mem, s) => mem.statements[s] = <<>>

(***************************************************************************)
(* No statement the adapter accepts can trap a learner: a session that is  *)
(* not over can still be brought to terminated, so an outcome that closes  *)
(* the way to the moveOn criterion is never recorded.                      *)
(***************************************************************************)
Closings ==
    {<<"terminated">>, <<"passed", "terminated">>, <<"completed", "terminated">>,
     <<"completed", "passed", "terminated">>}
Openings == {<<>>, <<"launched">>, <<"initialized", "launched">>}

Accepted_(moveOn, log, more) ==
    \A i \in DOMAIN more : AcceptsVerb(moveOn, log \o SubSeq(more, 1, i - 1), more[i])

NoDeadEnd ==
    \A s \in Sessions :
        Launched(mem, s) /\ ~HasVerb(mem.statements[s], "terminated") =>
            \E o \in Openings, c \in Closings :
                Accepted_(mem.launches[s].moveOn, mem.statements[s], o \o c)

(***************************************************************************)
(* A token opens the session it was issued for, in the launch it was       *)
(* issued in, and no other: a relaunch shuts out the holders of the old    *)
(* launch's token, and the state file brings none of them back.            *)
(***************************************************************************)
TokensAreConfined ==
    \A k \in holding, s \in Sessions, t \in Times :
        AuthStatus(mem, k.token, s, t) = 200 =>
            k.token.session = s /\ k.round = mem.launches[s].round

(***************************************************************************)
(* A request that was acknowledged is remembered for as long as its token  *)
(* is the session's, so that no retry, whatever was lost in a restart,     *)
(* makes the adapter do it a second time.                                  *)
(***************************************************************************)
AcknowledgedIdsRemembered ==
    \A p \in served :
        LET s == p.token.session
        IN  mem.access[s].token = p.token => p.id \in mem.replay[s]

(***************************************************************************)
(* A readable state file is the state: no call leaves a change in memory   *)
(* that the next restart would undo.                                       *)
(***************************************************************************)
FileIsMemory == disk.readable => disk.snapshot = mem

(***************************************************************************)
(* Abandoning a session and waiving a registration are for good, through   *)
(* restarts and relaunches: the abandoned session is neither launched nor  *)
(* written again, and the waiver keeps its date.                           *)
(***************************************************************************)
DecisionsStand ==
    [][/\ \A s \in mem.abandoned :
            /\ s \in mem'.abandoned
            /\ mem'.launches[s] = mem.launches[s]
            /\ mem'.statements[s] = mem.statements[s]
       /\ \A r \in Registrations : mem.waived[r] # Never => mem'.waived[r] = mem.waived[r]]_adapterVars

=============================================================================
