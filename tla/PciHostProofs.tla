--------------------------- MODULE PciHostProofs ---------------------------
(***************************************************************************)
(* The mounts of custom interactions and the work the store keeps of them, *)
(* for any hosts and any way of finding a module: nothing is assumed of    *)
(* Search and SearchOn, so the results hold whatever the registry and the  *)
(* network answer, in whatever order.                                      *)
(***************************************************************************)
EXTENDS PciHost, TLAPS

(* A host whose runs are rs, which holds the handle of run held, and whose  *)
(* captured state is state: only the newest run may not be cancelled, only  *)
(* the run of the handle is mounted, and a newest run that is not cancelled *)
(* began with that state or was captured in it.                             *)
Lives(rs, held, state) ==
    /\ \A i \in 1 .. Len(rs) :
        /\ rs[i].phase = "mounted" <=> held = i
        /\ i # Len(rs) => rs[i].cancelled
        /\ rs[i].phase = "gone" => rs[i].cancelled
        /\ rs[i].phase \in {"waiting", "mounted"} => rs[i].root
    /\ held # 0 => held = Len(rs) /\ ~rs[Len(rs)].cancelled
    /\ Len(rs) # 0 /\ ~rs[Len(rs)].cancelled => rs[Len(rs)].work >= state

HostsLive ==
    /\ PageTypeOK
    /\ \A h \in Hosts : Lives(runs[h], handle[h], states[h]) /\ saved[h] = states[h]

(* Run i of rs goes on and leaves rs2: it keeps its mark and its work, and  *)
(* is mounted unless it was cancelled, or gone because it was.              *)
GoesOn(rs, i, rs2) ==
    /\ rs2 \in Seq(Effects) /\ Len(rs2) = Len(rs)
    /\ \A j \in 1 .. Len(rs) : j # i => rs2[j] = rs[j]
    /\ rs2[i].cancelled = rs[i].cancelled /\ rs2[i].work = rs[i].work
    /\ rs2[i].phase = "mounted" => ~rs[i].cancelled
    /\ rs2[i].phase = "gone" => rs[i].cancelled
    /\ rs2[i].phase \in {"waiting", "mounted"} => rs2[i].root

-----------------------------------------------------------------------------
(***************************************************************************)
(* Runs                                                                    *)
(***************************************************************************)

LEMMA EffectUpdates ==
  ASSUME NEW e \in Effects
  PROVE  /\ e.phase \in Phases /\ e.cancelled \in BOOLEAN /\ e.root \in BOOLEAN /\ e.work \in Nat
         /\ \A x \in Phases : /\ [e EXCEPT !.phase = x] \in Effects
                              /\ [e EXCEPT !.phase = x].phase = x
                              /\ [e EXCEPT !.phase = x].cancelled = e.cancelled
                              /\ [e EXCEPT !.phase = x].root = e.root
                              /\ [e EXCEPT !.phase = x].work = e.work
         /\ \A x \in BOOLEAN : /\ [e EXCEPT !.root = x] \in Effects
                               /\ [e EXCEPT !.root = x].phase = e.phase
                               /\ [e EXCEPT !.root = x].cancelled = e.cancelled
                               /\ [e EXCEPT !.root = x].root = x
                               /\ [e EXCEPT !.root = x].work = e.work
         /\ \A x \in BOOLEAN : /\ [e EXCEPT !.cancelled = x] \in Effects
                               /\ [e EXCEPT !.cancelled = x].phase = e.phase
                               /\ [e EXCEPT !.cancelled = x].cancelled = x
                               /\ [e EXCEPT !.cancelled = x].root = e.root
                               /\ [e EXCEPT !.cancelled = x].work = e.work
         /\ \A x \in Nat : /\ [e EXCEPT !.work = x] \in Effects
                           /\ [e EXCEPT !.work = x].phase = e.phase
                           /\ [e EXCEPT !.work = x].cancelled = e.cancelled
                           /\ [e EXCEPT !.work = x].root = e.root
                           /\ [e EXCEPT !.work = x].work = x
  BY DEF Effects

LEMMA RunReplaced ==
  ASSUME NEW rs \in Seq(Effects), NEW i \in 1 .. Len(rs), NEW e \in Effects
  PROVE  /\ [rs EXCEPT ![i] = e] \in Seq(Effects)
         /\ Len([rs EXCEPT ![i] = e]) = Len(rs)
         /\ [rs EXCEPT ![i] = e][i] = e
         /\ \A j \in 1 .. Len(rs) : j # i => [rs EXCEPT ![i] = e][j] = rs[j]
         /\ rs[i] \in Effects
  OBVIOUS

(* What is left of run i when it is taken down.                             *)
LEMMA UnmountedRun ==
  ASSUME NEW rs \in Seq(Effects), NEW i \in 1 .. Len(rs)
  PROVE  /\ Unmount(rs, i) \in Seq(Effects) /\ Len(Unmount(rs, i)) = Len(rs)
         /\ \A j \in 1 .. Len(rs) : j # i => Unmount(rs, i)[j] = rs[j]
         /\ Unmount(rs, i)[i].phase = "gone"
         /\ Unmount(rs, i)[i].cancelled = rs[i].cancelled
         /\ Unmount(rs, i)[i].work = rs[i].work
  <1> DEFINE e == [rs[i] EXCEPT !.phase = "gone"]
             f == [e EXCEPT !.root = FALSE]
  <1>1. rs[i] \in Effects
    OBVIOUS
  <1>2. e \in Effects /\ e.phase = "gone" /\ e.cancelled = rs[i].cancelled /\ e.work = rs[i].work
    BY <1>1, EffectUpdates DEF Phases
  <1> HIDE DEF e
  <1>3. f \in Effects /\ f.phase = "gone" /\ f.cancelled = rs[i].cancelled /\ f.work = rs[i].work
    BY <1>2, EffectUpdates
  <1>4. Unmount(rs, i) = [rs EXCEPT ![i] = f]
    BY DEF Unmount, e
  <1> HIDE DEF f
  <1> QED BY <1>3, <1>4, RunReplaced

LEMMA SettledRun ==
  ASSUME NEW rs \in Seq(Effects), NEW i \in 1 .. Len(rs), rs[i].root
  PROVE  GoesOn(rs, i, Settle(rs, i))
  <1> DEFINE e == [rs[i] EXCEPT !.phase = "mounted"]
  <1>1. rs[i] \in Effects
    OBVIOUS
  <1>2. e \in Effects /\ e.phase = "mounted" /\ e.cancelled = rs[i].cancelled
          /\ e.work = rs[i].work /\ e.root = rs[i].root
    BY <1>1, EffectUpdates DEF Phases
  <1> HIDE DEF e
  <1>3. CASE rs[i].cancelled
    BY <1>3, UnmountedRun DEF GoesOn, Settle
  <1>4. CASE ~rs[i].cancelled
    <2> DEFINE rs2 == [rs EXCEPT ![i] = e]
    <2>1. Settle(rs, i) = rs2
      BY <1>4 DEF Settle, e
    <2>2. /\ rs2 \in Seq(Effects) /\ Len(rs2) = Len(rs) /\ rs2[i] = e
          /\ \A j \in 1 .. Len(rs) : j # i => rs2[j] = rs[j]
      BY <1>2, RunReplaced
    <2> HIDE DEF rs2
    <2> QED BY <1>2, <1>4, <2>1, <2>2 DEF GoesOn
  <1> QED BY <1>3, <1>4

LEMMA PhasedRun ==
  ASSUME NEW rs \in Seq(Effects), NEW i \in 1 .. Len(rs), NEW p \in {"waiting", "failed"},
         p = "waiting" => rs[i].root
  PROVE  GoesOn(rs, i, [rs EXCEPT ![i].phase = p])
  <1> DEFINE e == [rs[i] EXCEPT !.phase = p]
  <1>1. rs[i] \in Effects
    OBVIOUS
  <1>2. e \in Effects /\ e.phase = p /\ e.cancelled = rs[i].cancelled
          /\ e.work = rs[i].work /\ e.root = rs[i].root
    <2>1. p \in Phases
      BY DEF Phases
    <2> QED BY <1>1, <2>1, EffectUpdates
  <1> HIDE DEF e
  <1>3. [rs EXCEPT ![i].phase = p] = [rs EXCEPT ![i] = e]
    BY DEF e
  <1> QED BY <1>2, <1>3, RunReplaced DEF GoesOn

LEMMA MountedRun ==
  ASSUME NEW rs \in Seq(Effects), NEW i \in 1 .. Len(rs), NEW module
  PROVE  GoesOn(rs, i, Mount(rs, i, module))
  <1> DEFINE e == [rs[i] EXCEPT !.root = TRUE]
             made == [rs EXCEPT ![i] = e]
  <1>1. rs[i] \in Effects
    OBVIOUS
  <1>2. e \in Effects /\ e.cancelled = rs[i].cancelled /\ e.work = rs[i].work /\ e.root
    BY <1>1, EffectUpdates
  <1>3. made = [rs EXCEPT ![i].root = TRUE]
    OBVIOUS
  <1> HIDE DEF e
  <1>4. /\ made \in Seq(Effects) /\ Len(made) = Len(rs) /\ made[i] = e
        /\ \A j \in 1 .. Len(rs) : j # i => made[j] = rs[j]
    BY <1>2, RunReplaced
  <1> HIDE DEF made
  <1>5. \/ Mount(rs, i, module) = [made EXCEPT ![i].phase = "failed"]
        \/ Mount(rs, i, module) = Settle(made, i)
        \/ Mount(rs, i, module) = [made EXCEPT ![i].phase = "waiting"]
    BY <1>3 DEF Mount
  <1>6. GoesOn(made, i, Mount(rs, i, module))
    <2>1. i \in 1 .. Len(made) /\ made[i].root
      BY <1>2, <1>4
    <2>2. GoesOn(made, i, Settle(made, i))
      BY <1>4, <2>1, SettledRun
    <2>3. /\ GoesOn(made, i, [made EXCEPT ![i].phase = "failed"])
          /\ GoesOn(made, i, [made EXCEPT ![i].phase = "waiting"])
      BY <1>4, <2>1, PhasedRun
    <2> QED BY <1>5, <2>2, <2>3
  <1> QED BY <1>2, <1>4, <1>6 DEF GoesOn

(* Whatever the registry answers, a run goes on.                            *)
LEMMA ContinuedRun ==
  ASSUME NEW rs \in Seq(Effects), NEW i \in 1 .. Len(rs), rs[i].phase = "fetching", NEW next
  PROVE  GoesOn(rs, i, Continue(rs, i, next))
  <1>1. GoesOn(rs, i, rs)
    BY DEF GoesOn
  <1>2. GoesOn(rs, i, [rs EXCEPT ![i].phase = "failed"])
    BY PhasedRun
  <1> QED BY <1>1, <1>2, MountedRun DEF Continue

(* A host stays alive over a run of it that goes on, if it takes the handle *)
(* when the run is mounted.                                                 *)
LEMMA LivesOn ==
  ASSUME NEW rs \in Seq(Effects), NEW held \in Nat, NEW state \in Nat, Lives(rs, held, state),
         NEW i \in 1 .. Len(rs), rs[i].phase # "mounted",
         NEW rs2, GoesOn(rs, i, rs2),
         NEW held2, held2 = IF rs2[i].phase = "mounted" THEN i ELSE held
  PROVE  Lives(rs2, held2, state)
  <1>1. rs2 \in Seq(Effects) /\ Len(rs2) = Len(rs) /\ Len(rs) \in Nat
    BY DEF GoesOn
  <1>2. held # i
    BY DEF Lives
  <1>3. rs2[i].phase = "mounted" => i = Len(rs) /\ held = 0
    BY <1>1, <1>2 DEF GoesOn, Lives
  <1>4. ASSUME NEW j \in 1 .. Len(rs2)
        PROVE  /\ rs2[j].phase = "mounted" <=> held2 = j
               /\ j # Len(rs2) => rs2[j].cancelled
               /\ rs2[j].phase = "gone" => rs2[j].cancelled
               /\ rs2[j].phase \in {"waiting", "mounted"} => rs2[j].root
    <2>1. CASE j = i
      BY <1>1, <1>2, <2>1 DEF GoesOn, Lives
    <2>2. CASE j # i
      BY <1>1, <1>3, <1>4, <2>2 DEF GoesOn, Lives
    <2> QED BY <2>1, <2>2
  <1>5. held2 # 0 => held2 = Len(rs2) /\ ~rs2[Len(rs2)].cancelled
    <2>1. CASE rs2[i].phase = "mounted"
      BY <1>1, <1>3, <2>1 DEF GoesOn
    <2>2. CASE rs2[i].phase # "mounted"
      BY <1>1, <1>2, <2>2 DEF GoesOn, Lives
    <2> QED BY <2>1, <2>2
  <1>6. Len(rs2) # 0 /\ ~rs2[Len(rs2)].cancelled => rs2[Len(rs2)].work >= state
    BY <1>1 DEF GoesOn, Lives
  <1> QED BY <1>4, <1>5, <1>6 DEF Lives

LEMMA HostStep ==
  ASSUME HostsLive, NEW h \in Hosts, NEW rs \in Seq(Effects), NEW held \in Nat,
         runs' = [runs EXCEPT ![h] = rs], handle' = [handle EXCEPT ![h] = held],
         error' \in [Hosts -> BOOLEAN], UNCHANGED store, Lives(rs, held, states[h])
  PROVE  HostsLive'
  <1>1. PageTypeOK'
    BY DEF HostsLive, PageTypeOK, store
  <1>2. ASSUME NEW k \in Hosts PROVE Lives(runs'[k], handle'[k], states'[k]) /\ saved'[k] = states'[k]
    <2>1. states' = states /\ saved' = saved /\ saved[k] = states[k]
      BY <1>2 DEF HostsLive, store
    <2>2. CASE k = h
      <3>1. runs'[k] = rs /\ handle'[k] = held
        BY <2>2 DEF HostsLive, PageTypeOK
      <3> QED BY <2>1, <2>2, <3>1
    <2>3. CASE k # h
      <3>1. runs'[k] = runs[k] /\ handle'[k] = handle[k]
        BY <1>2, <2>3 DEF HostsLive, PageTypeOK
      <3> QED BY <1>2, <2>1, <3>1 DEF HostsLive
    <2> QED BY <2>2, <2>3
  <1> QED BY <1>1, <1>2 DEF HostsLive

(* Run i of host h, whose runs are started, goes on, and the host is told.  *)
LEMMA ToldStep ==
  ASSUME HostsLive, NEW h \in Hosts, NEW started \in Seq(Effects), Lives(started, handle[h], states[h]),
         NEW i \in 1 .. Len(started), started[i].phase # "mounted",
         NEW rs, GoesOn(started, i, rs), Told(h, i, rs), UNCHANGED store
  PROVE  HostsLive'
  <1> DEFINE held == IF rs[i].phase = "mounted" THEN i ELSE handle[h]
  <1>1. handle[h] \in Nat /\ states[h] \in Nat /\ error \in [Hosts -> BOOLEAN]
    BY DEF HostsLive, PageTypeOK
  <1>2. held \in Nat /\ rs \in Seq(Effects)
    BY <1>1 DEF GoesOn
  <1>3. runs' = [runs EXCEPT ![h] = rs] /\ handle' = [handle EXCEPT ![h] = held]
    BY DEF Told
  <1>4. error' \in [Hosts -> BOOLEAN]
    BY <1>1 DEF Told
  <1>5. Lives(rs, held, states[h])
    BY <1>1, LivesOn
  <1> HIDE DEF held
  <1> QED BY <1>2, <1>3, <1>4, <1>5, HostStep

LEMMA InitHostsLive == Init => HostsLive
  <1> SUFFICES ASSUME Init PROVE HostsLive
    OBVIOUS
  <1>1. PageTypeOK
    <2>1. <<>> \in Seq(Effects) /\ 0 \in Nat
      OBVIOUS
    <2>2. /\ runs = [h \in Hosts |-> <<>>] /\ handle = [h \in Hosts |-> 0] /\ states = [h \in Hosts |-> 0]
          /\ response = [h \in Hosts |-> 0] /\ saved = [h \in Hosts |-> 0]
          /\ error = [h \in Hosts |-> FALSE] /\ submitted = FALSE
      BY DEF Init
    <2>3. runs \in [Hosts -> Seq(Effects)]
      BY <2>1, <2>2
    <2>4. /\ handle \in [Hosts -> Nat] /\ states \in [Hosts -> Nat]
          /\ response \in [Hosts -> Nat] /\ saved \in [Hosts -> Nat]
      BY <2>1, <2>2
    <2>5. error \in [Hosts -> BOOLEAN] /\ submitted \in BOOLEAN
      BY <2>2
    <2> QED BY <2>3, <2>4, <2>5 DEF PageTypeOK
  <1>2. ASSUME NEW h \in Hosts PROVE Lives(runs[h], handle[h], states[h]) /\ saved[h] = states[h]
    <2>1. runs[h] = <<>> /\ handle[h] = 0 /\ states[h] = 0 /\ saved[h] = 0
      BY <1>2 DEF Init
    <2> QED BY <2>1 DEF Lives
  <1> QED BY <1>1, <1>2 DEF HostsLive

(* A host that shows no interaction has cancelled all its runs.             *)
LEMMA DetachedHost ==
  ASSUME HostsLive, NEW h \in Hosts, ~Attached(h)
  PROVE  /\ runs[h] \in Seq(Effects) /\ Len(runs[h]) \in Nat /\ handle[h] = 0 /\ states[h] \in Nat
         /\ \A i \in 1 .. Len(runs[h]) : /\ runs[h][i] \in Effects /\ runs[h][i].cancelled
                                         /\ runs[h][i].phase # "mounted"
                                         /\ runs[h][i].phase \in {"waiting", "mounted"} => runs[h][i].root
  <1>1. runs[h] \in Seq(Effects) /\ Len(runs[h]) \in Nat /\ states[h] \in Nat /\ handle[h] \in Nat
    BY DEF HostsLive, PageTypeOK
  <1>2. Lives(runs[h], handle[h], states[h])
    BY DEF HostsLive
  <1>3. Len(runs[h]) # 0 => runs[h] # <<>> /\ runs[h][Len(runs[h])].cancelled
    BY <1>1 DEF Attached, Newest, Current
  <1>4. handle[h] = 0
    BY <1>1, <1>2, <1>3 DEF Lives
  <1>5. \A i \in 1 .. Len(runs[h]) : runs[h][i] \in Effects
    BY <1>1
  <1> QED BY <1>1, <1>2, <1>3, <1>4, <1>5 DEF Lives

LEMMA NewRunType ==
  ASSUME HostsLive, NEW h \in Hosts, NEW c \in BOOLEAN
  PROVE  /\ NewRun(h, c) \in Effects
         /\ NewRun(h, c).phase = "fetching" /\ NewRun(h, c).cancelled = c /\ NewRun(h, c).work = states[h]
  <1>1. states[h] \in Nat
    BY DEF HostsLive, PageTypeOK
  <1> QED BY <1>1 DEF NewRun, Effects, Phases

LEMMA AttachStep ==
  ASSUME HostsLive, NEW h \in Hosts, Attach(h)
  PROVE  HostsLive'
  <1> DEFINE next == Search(reg, h)
             i == Current(h) + 1
             new == NewRun(h, FALSE)
             started == Append(runs[h], new)
             rs == Continue(started, i, next)
  <1>1. ~Attached(h) /\ Told(h, i, rs) /\ UNCHANGED store
    BY DEF Attach
  <1>2. /\ runs[h] \in Seq(Effects) /\ Len(runs[h]) \in Nat /\ handle[h] = 0 /\ states[h] \in Nat
        /\ \A j \in 1 .. Len(runs[h]) : /\ runs[h][j] \in Effects /\ runs[h][j].cancelled
                                        /\ runs[h][j].phase # "mounted"
                                        /\ runs[h][j].phase \in {"waiting", "mounted"} => runs[h][j].root
    BY <1>1, DetachedHost
  <1>3. new \in Effects /\ new.phase = "fetching" /\ new.cancelled = FALSE /\ new.work = states[h]
    BY NewRunType
  <1> HIDE DEF new
  <1>4. /\ started \in Seq(Effects) /\ Len(started) = Len(runs[h]) + 1 /\ started[Len(runs[h]) + 1] = new
        /\ \A j \in 1 .. Len(runs[h]) : started[j] = runs[h][j]
    BY <1>2, <1>3
  <1>5. i = Len(started) /\ i \in 1 .. Len(started) /\ i = Len(runs[h]) + 1
    BY <1>2, <1>4 DEF Current
  <1> HIDE DEF started, i
  <1>6. Lives(started, handle[h], states[h])
    <2>1. ASSUME NEW j \in 1 .. Len(started)
          PROVE  /\ started[j].phase # "mounted" /\ j # 0
                 /\ j # Len(started) => started[j].cancelled
                 /\ started[j].phase = "gone" => started[j].cancelled
                 /\ started[j].phase \in {"waiting", "mounted"} => started[j].root
      <3>1. CASE j = Len(started)
        BY <1>3, <1>4, <1>5, <3>1
      <3>2. CASE j \in 1 .. Len(runs[h])
        BY <1>2, <1>4, <3>2
      <3> QED BY <1>2, <1>4, <2>1, <3>1, <3>2
    <2>2. started[Len(started)].work >= states[h]
      BY <1>2, <1>3, <1>4, <1>5
    <2> QED BY <1>2, <2>1, <2>2 DEF Lives
  <1>7. started[i].phase = "fetching"
    BY <1>3, <1>4, <1>5
  <1>8. GoesOn(started, i, rs)
    BY <1>4, <1>5, <1>7, ContinuedRun
  <1> HIDE DEF rs
  <1> QED BY <1>1, <1>4, <1>5, <1>6, <1>7, <1>8, ToldStep

LEMMA StrictAttachStep ==
  ASSUME HostsLive, NEW h \in Hosts, StrictAttach(h)
  PROVE  HostsLive'
  <1> DEFINE first == Search(reg, h)
             next == Search(first.reg, h)
             i == Current(h) + 2
             old == NewRun(h, TRUE)
             new == NewRun(h, FALSE)
             started == runs[h] \o <<old, new>>
             cleaned == Continue(started, i - 1, first)
             rs == Continue(cleaned, i, next)
  <1>1. ~Attached(h) /\ Told(h, i, rs) /\ UNCHANGED store
    BY DEF StrictAttach
  <1>2. /\ runs[h] \in Seq(Effects) /\ Len(runs[h]) \in Nat /\ handle[h] = 0 /\ states[h] \in Nat
        /\ \A j \in 1 .. Len(runs[h]) : /\ runs[h][j] \in Effects /\ runs[h][j].cancelled
                                        /\ runs[h][j].phase # "mounted"
                                        /\ runs[h][j].phase \in {"waiting", "mounted"} => runs[h][j].root
    BY <1>1, DetachedHost
  <1>3. /\ old \in Effects /\ old.phase = "fetching" /\ old.cancelled = TRUE /\ old.work = states[h]
        /\ new \in Effects /\ new.phase = "fetching" /\ new.cancelled = FALSE /\ new.work = states[h]
    BY NewRunType
  <1> HIDE DEF old, new
  <1>4. /\ started \in Seq(Effects) /\ Len(started) = Len(runs[h]) + 2
        /\ started[Len(runs[h]) + 1] = old /\ started[Len(runs[h]) + 2] = new
        /\ \A j \in 1 .. Len(runs[h]) : started[j] = runs[h][j]
    BY <1>2, <1>3
  <1>5. /\ i = Len(started) /\ i \in 1 .. Len(started) /\ i = Len(runs[h]) + 2
        /\ i - 1 \in 1 .. Len(started) /\ i - 1 = Len(runs[h]) + 1
    BY <1>2, <1>4 DEF Current
  <1> HIDE DEF started, i
  <1>6. Lives(started, handle[h], states[h])
    <2>1. ASSUME NEW j \in 1 .. Len(started)
          PROVE  /\ started[j].phase # "mounted" /\ j # 0
                 /\ j # Len(started) => started[j].cancelled
                 /\ started[j].phase = "gone" => started[j].cancelled
                 /\ started[j].phase \in {"waiting", "mounted"} => started[j].root
      <3>1. CASE j = Len(runs[h]) + 2
        BY <1>3, <1>4, <1>5, <3>1
      <3>2. CASE j = Len(runs[h]) + 1
        BY <1>3, <1>4, <1>5, <3>2
      <3>3. CASE j \in 1 .. Len(runs[h])
        BY <1>2, <1>4, <3>3
      <3> QED BY <1>2, <1>4, <2>1, <3>1, <3>2, <3>3
    <2>2. started[Len(started)].work >= states[h]
      BY <1>2, <1>3, <1>4, <1>5
    <2> QED BY <1>2, <2>1, <2>2 DEF Lives
  <1>7. started[i - 1].phase = "fetching" /\ started[i - 1].cancelled /\ started[i].phase = "fetching"
    BY <1>3, <1>4, <1>5
  <1>8. GoesOn(started, i - 1, cleaned)
    BY <1>4, <1>5, <1>7, ContinuedRun
  <1> HIDE DEF cleaned
  <1>9. cleaned[i - 1].phase # "mounted"
    BY <1>7, <1>8 DEF GoesOn
  <1>10. Lives(cleaned, handle[h], states[h])
    <2>1. handle[h] \in Nat /\ started[i - 1].phase # "mounted"
      BY <1>2, <1>7
    <2>2. handle[h] = IF cleaned[i - 1].phase = "mounted" THEN i - 1 ELSE handle[h]
      BY <1>9
    <2> QED BY <1>2, <1>4, <1>5, <1>6, <1>8, <2>1, <2>2, LivesOn
  <1>11. cleaned \in Seq(Effects) /\ i \in 1 .. Len(cleaned) /\ cleaned[i].phase = "fetching"
    <2>1. cleaned \in Seq(Effects) /\ Len(cleaned) = Len(started)
      BY <1>8 DEF GoesOn
    <2>2. i # i - 1
      BY <1>2, <1>5
    <2>3. cleaned[i] = started[i]
      BY <1>5, <1>8, <2>2 DEF GoesOn
    <2> QED BY <1>5, <1>7, <2>1, <2>3
  <1>12. GoesOn(cleaned, i, rs)
    BY <1>11, ContinuedRun
  <1> HIDE DEF rs
  <1>13. cleaned[i].phase # "mounted"
    BY <1>11
  <1> QED BY <1>1, <1>10, <1>11, <1>12, <1>13, ToldStep

LEMMA DetachStep ==
  ASSUME HostsLive, NEW h \in Hosts, Detach(h)
  PROVE  HostsLive'
  <1> DEFINE i == Current(h)
             e == [runs[h][i] EXCEPT !.cancelled = TRUE]
             cancelled == [runs[h] EXCEPT ![i] = e]
             rs == IF handle[h] = i THEN Unmount(cancelled, i) ELSE cancelled
  <1>1. /\ runs[h] \in Seq(Effects) /\ Len(runs[h]) \in Nat /\ states[h] \in Nat
        /\ error \in [Hosts -> BOOLEAN] /\ Lives(runs[h], handle[h], states[h])
    BY DEF HostsLive, PageTypeOK
  <1>2. i = Len(runs[h]) /\ i \in 1 .. Len(runs[h])
    BY <1>1 DEF Detach, Attached, Current
  <1>3. runs' = [runs EXCEPT ![h] = rs] /\ handle' = [handle EXCEPT ![h] = 0]
          /\ error' = [error EXCEPT ![h] = FALSE] /\ UNCHANGED store
    BY DEF Detach
  <1>4. runs[h][i] \in Effects
    BY <1>1, <1>2
  <1> HIDE DEF i
  <1>5. /\ e \in Effects /\ e.cancelled = TRUE /\ e.phase = runs[h][i].phase /\ e.root = runs[h][i].root
    BY <1>4, EffectUpdates
  <1> HIDE DEF e
  <1>6. /\ cancelled \in Seq(Effects) /\ Len(cancelled) = Len(runs[h]) /\ cancelled[i] = e
        /\ \A j \in 1 .. Len(runs[h]) : j # i => cancelled[j] = runs[h][j]
    BY <1>1, <1>2, <1>5, RunReplaced
  <1> HIDE DEF cancelled
  <1>7. /\ rs \in Seq(Effects) /\ Len(rs) = Len(runs[h])
        /\ \A j \in 1 .. Len(runs[h]) : j # i => rs[j] = runs[h][j]
        /\ rs[i].cancelled
        /\ rs[i].phase = IF handle[h] = i THEN "gone" ELSE runs[h][i].phase
        /\ handle[h] # i => rs[i].root = runs[h][i].root
    <2>1. CASE handle[h] = i
      <3>1. rs = Unmount(cancelled, i) /\ i \in 1 .. Len(cancelled)
        BY <1>2, <1>6, <2>1
      <3> HIDE DEF rs
      <3>2. /\ rs \in Seq(Effects) /\ Len(rs) = Len(cancelled)
            /\ \A j \in 1 .. Len(cancelled) : j # i => rs[j] = cancelled[j]
            /\ rs[i].phase = "gone"
            /\ rs[i].cancelled = cancelled[i].cancelled
        BY <1>6, <3>1, UnmountedRun
      <3> QED BY <1>5, <1>6, <2>1, <3>2
    <2>2. CASE handle[h] # i
      BY <1>5, <1>6, <2>2
    <2> QED BY <2>1, <2>2
  <1> HIDE DEF rs
  <1>8. ASSUME NEW j \in 1 .. Len(rs)
        PROVE  /\ rs[j].phase # "mounted" /\ rs[j].cancelled
               /\ rs[j].phase \in {"waiting", "mounted"} => rs[j].root
    <2>1. handle[h] # 0 => handle[h] = i
      BY <1>1, <1>2 DEF Lives
    <2>2. CASE j = i
      BY <1>1, <1>2, <1>7, <2>2 DEF Lives
    <2>3. CASE j # i
      BY <1>1, <1>2, <1>7, <1>8, <2>1, <2>3 DEF Lives
    <2> QED BY <2>2, <2>3
  <1>9. Lives(rs, 0, states[h])
    BY <1>1, <1>2, <1>7, <1>8 DEF Lives
  <1>10. error' \in [Hosts -> BOOLEAN]
    BY <1>1, <1>3
  <1> QED BY <1>3, <1>7, <1>9, <1>10, HostStep

LEMMA FetchReplyStep ==
  ASSUME HostsLive, NEW h \in Hosts, NEW i \in DOMAIN runs[h], NEW bytes \in Bytes, FetchReply(h, i, bytes)
  PROVE  HostsLive'
  <1> DEFINE next == SearchOn(reg, h, fetches[h][i], bytes)
             rs == Continue(runs[h], i, next)
  <1>1. runs[h][i].phase = "fetching" /\ Told(h, i, rs) /\ UNCHANGED store
    BY DEF FetchReply
  <1>2. runs[h] \in Seq(Effects) /\ i \in 1 .. Len(runs[h]) /\ Lives(runs[h], handle[h], states[h])
    BY DEF HostsLive, PageTypeOK
  <1>3. GoesOn(runs[h], i, rs)
    BY <1>1, <1>2, ContinuedRun
  <1> HIDE DEF rs
  <1>4. runs[h][i].phase # "mounted"
    BY <1>1
  <1> QED BY <1>1, <1>2, <1>3, <1>4, ToldStep

LEMMA OnReadyStep ==
  ASSUME HostsLive, NEW h \in Hosts, NEW i \in DOMAIN runs[h], OnReady(h, i)
  PROVE  HostsLive'
  <1> DEFINE rs == Settle(runs[h], i)
  <1>1. runs[h][i].phase = "waiting" /\ Told(h, i, rs) /\ UNCHANGED store
    BY DEF OnReady
  <1>2. runs[h] \in Seq(Effects) /\ i \in 1 .. Len(runs[h]) /\ Lives(runs[h], handle[h], states[h])
    BY DEF HostsLive, PageTypeOK
  <1>3. runs[h][i].root
    BY <1>1, <1>2 DEF Lives
  <1>4. GoesOn(runs[h], i, rs)
    BY <1>2, <1>3, SettledRun
  <1> HIDE DEF rs
  <1>5. runs[h][i].phase # "mounted"
    BY <1>1
  <1> QED BY <1>1, <1>2, <1>4, <1>5, ToldStep

(***************************************************************************)
(* The candidate and the store                                             *)
(***************************************************************************)

(* A host that holds a handle holds it of its newest run.                   *)
LEMMA HeldRun ==
  ASSUME HostsLive, NEW h \in Hosts, handle[h] # 0
  PROVE  /\ runs[h] \in Seq(Effects) /\ Len(runs[h]) \in Nat
         /\ handle[h] = Len(runs[h]) /\ handle[h] \in 1 .. Len(runs[h])
         /\ runs[h][handle[h]] \in Effects /\ ~runs[h][handle[h]].cancelled
         /\ runs[h][handle[h]].work \in Nat /\ runs[h][handle[h]].work >= states[h]
  <1>1. runs[h] \in Seq(Effects) /\ Len(runs[h]) \in Nat /\ Lives(runs[h], handle[h], states[h])
    BY DEF HostsLive, PageTypeOK
  <1>2. handle[h] = Len(runs[h]) /\ handle[h] \in 1 .. Len(runs[h])
    BY <1>1 DEF Lives
  <1>3. runs[h][handle[h]] \in Effects
    BY <1>1, <1>2
  <1> QED BY <1>1, <1>2, <1>3, EffectUpdates DEF Lives

LEMMA InteractStep ==
  ASSUME HostsLive, NEW h \in Hosts, Interact(h)
  PROVE  HostsLive'
  <1> DEFINE i == handle[h]
             e == [runs[h][i] EXCEPT !.work = @ + 1]
             rs == [runs[h] EXCEPT ![i] = e]
  <1>1. handle[h] # 0 /\ runs' = [runs EXCEPT ![h] = rs] /\ handle' = handle /\ error' = error /\ UNCHANGED store
    BY DEF Interact
  <1>2. /\ runs[h] \in Seq(Effects) /\ Len(runs[h]) \in Nat
        /\ i = Len(runs[h]) /\ i \in 1 .. Len(runs[h]) /\ runs[h][i] \in Effects
        /\ runs[h][i].work \in Nat /\ runs[h][i].work >= states[h]
    BY <1>1, HeldRun
  <1>3. states[h] \in Nat /\ error \in [Hosts -> BOOLEAN] /\ handle \in [Hosts -> Nat]
          /\ Lives(runs[h], handle[h], states[h])
    BY DEF HostsLive, PageTypeOK
  <1>4. /\ e \in Effects /\ e.phase = runs[h][i].phase /\ e.cancelled = runs[h][i].cancelled
        /\ e.root = runs[h][i].root /\ e.work = runs[h][i].work + 1
    <2>1. runs[h][i].work + 1 \in Nat
      BY <1>2
    <2> QED BY <1>2, <2>1, EffectUpdates
  <1> HIDE DEF e
  <1>5. /\ rs \in Seq(Effects) /\ Len(rs) = Len(runs[h]) /\ rs[i] = e
        /\ \A j \in 1 .. Len(runs[h]) : j # i => rs[j] = runs[h][j]
    BY <1>2, <1>4, RunReplaced
  <1> HIDE DEF rs
  <1>6. \A j \in 1 .. Len(rs) : /\ rs[j].phase = runs[h][j].phase
                                /\ rs[j].cancelled = runs[h][j].cancelled
                                /\ rs[j].root = runs[h][j].root
    BY <1>4, <1>5
  <1>7. Len(rs) # 0 => rs[Len(rs)].work >= states[h]
    BY <1>2, <1>3, <1>4, <1>5
  <1>8. Lives(rs, handle[h], states[h])
    <2>1. \A j \in 1 .. Len(rs) :
            /\ rs[j].phase = "mounted" <=> handle[h] = j
            /\ j # Len(rs) => rs[j].cancelled
            /\ rs[j].phase = "gone" => rs[j].cancelled
            /\ rs[j].phase \in {"waiting", "mounted"} => rs[j].root
      BY <1>3, <1>5, <1>6 DEF Lives
    <2>2. handle[h] # 0 => handle[h] = Len(rs) /\ ~rs[Len(rs)].cancelled
      BY <1>2, <1>3, <1>5, <1>6 DEF Lives
    <2> QED BY <1>7, <2>1, <2>2 DEF Lives
  <1>9. handle' = [handle EXCEPT ![h] = handle[h]] /\ handle[h] \in Nat
    BY <1>1, <1>3
  <1> QED BY <1>1, <1>3, <1>5, <1>8, <1>9, HostStep

LEMMA OnDoneStep ==
  ASSUME HostsLive, NEW h \in Hosts, NEW i \in DOMAIN runs[h], OnDone(h, i)
  PROVE  HostsLive'
  <1>1. runs[h] \in Seq(Effects) /\ response \in [Hosts -> Nat]
    BY DEF HostsLive, PageTypeOK
  <1>2. runs[h][i].work \in Nat
    BY <1>1, EffectUpdates
  <1>3. response' \in [Hosts -> Nat]
    BY <1>1, <1>2 DEF OnDone, SetResponse
  <1>4. UNCHANGED <<runs, handle, error, states, submitted, saved>>
    BY DEF OnDone, page
  <1> QED BY <1>3, <1>4 DEF HostsLive, PageTypeOK

(* What the store takes from the instances that are ready.                  *)
LEMMA CollectedType ==
  ASSUME HostsLive, NEW other \in [Hosts -> Nat], NEW h \in Hosts
  PROVE  (IF h \in Ready THEN runs[h][handle[h]].work ELSE other[h]) \in Nat
  BY HeldRun DEF Ready

LEMMA SubmitStep ==
  ASSUME HostsLive, Submit
  PROVE  HostsLive'
  <1>1. response \in [Hosts -> Nat]
    BY DEF HostsLive, PageTypeOK
  <1>2. response' \in [Hosts -> Nat] /\ submitted' \in BOOLEAN
    BY <1>1, CollectedType DEF Submit
  <1>3. UNCHANGED <<runs, handle, error, states, saved>>
    BY DEF Submit, page
  <1> QED BY <1>2, <1>3 DEF HostsLive, PageTypeOK

(* An instance that is ready has at least the work it began with: what the  *)
(* store captures of it keeps the host alive.                               *)
LEMMA SuspendStep ==
  ASSUME HostsLive, Suspend
  PROVE  HostsLive'
  <1>1. states \in [Hosts -> Nat] /\ saved \in [Hosts -> Nat]
    BY DEF HostsLive, PageTypeOK
  <1>2. states' \in [Hosts -> Nat] /\ saved' \in [Hosts -> Nat]
    BY <1>1, CollectedType DEF Suspend, Capture
  <1>3. UNCHANGED <<runs, handle, error, response, submitted>>
    BY DEF Suspend, page
  <1>4. ASSUME NEW h \in Hosts PROVE Lives(runs[h], handle[h], states'[h]) /\ saved'[h] = states'[h]
    <2>1. Lives(runs[h], handle[h], states[h]) /\ saved[h] = states[h]
      BY <1>4 DEF HostsLive
    <2>2. CASE handle[h] # 0
      <3>1. states'[h] = runs[h][handle[h]].work /\ saved'[h] = runs[h][handle[h]].work
        BY <1>4, <2>2 DEF Suspend, Capture, Ready
      <3>2. handle[h] = Len(runs[h]) /\ runs[h][handle[h]].work \in Nat
        BY <1>4, <2>2, HeldRun
      <3>3. runs[h][Len(runs[h])].work >= states'[h]
        BY <3>1, <3>2
      <3> QED BY <2>1, <3>1, <3>3 DEF Lives
    <2>3. CASE handle[h] = 0
      <3>1. states'[h] = states[h] /\ saved'[h] = saved[h]
        BY <1>4, <2>3 DEF Suspend, Capture, Ready
      <3> QED BY <2>1, <3>1
    <2> QED BY <2>2, <2>3
  <1> QED BY <1>2, <1>3, <1>4 DEF HostsLive, PageTypeOK

LEMMA ResetStep ==
  ASSUME HostsLive, Reset
  PROVE  HostsLive'
  <1>1. response' \in [Hosts -> Nat] /\ states' \in [Hosts -> Nat]
          /\ saved' \in [Hosts -> Nat] /\ submitted' \in BOOLEAN
    BY DEF Reset
  <1>2. UNCHANGED <<runs, handle, error>>
    BY DEF Reset, page
  <1>3. ASSUME NEW h \in Hosts PROVE Lives(runs[h], handle[h], states'[h]) /\ saved'[h] = states'[h]
    <2>1. states'[h] = 0 /\ saved'[h] = 0
      BY <1>3 DEF Reset
    <2>2. Lives(runs[h], handle[h], states[h]) /\ runs[h] \in Seq(Effects)
      BY <1>3 DEF HostsLive, PageTypeOK
    <2>3. Len(runs[h]) # 0 => runs[h][Len(runs[h])].work >= 0
      <3>1. ASSUME Len(runs[h]) # 0 PROVE runs[h][Len(runs[h])] \in Effects
        BY <2>2, <3>1
      <3> QED BY <3>1, EffectUpdates
    <2> QED BY <2>1, <2>2, <2>3 DEF Lives
  <1> QED BY <1>1, <1>2, <1>3 DEF HostsLive, PageTypeOK

-----------------------------------------------------------------------------
LEMMA StepHostsLive ==
  ASSUME HostsLive, [Next]_vars
  PROVE  HostsLive'
  <1>1. CASE UNCHANGED vars
    <2>1. UNCHANGED <<runs, handle, error, response, states, submitted, saved>>
      BY <1>1 DEF vars, page, store
    <2> QED BY <2>1 DEF HostsLive, PageTypeOK
  <1>2. CASE AnyFetch
    BY <1>2, FetchReplyStep DEF AnyFetch
  <1>3. CASE \E h \in Hosts : Attach(h) \/ StrictAttach(h) \/ Detach(h) \/ Interact(h)
    BY <1>3, AttachStep, StrictAttachStep, DetachStep, InteractStep
  <1>4. CASE \E h \in Hosts : \E i \in DOMAIN runs[h] : OnReady(h, i) \/ OnDone(h, i)
    BY <1>4, OnReadyStep, OnDoneStep
  <1>5. CASE Submit \/ Suspend \/ Reset
    BY <1>5, SubmitStep, SuspendStep, ResetStep
  <1> QED BY <1>1, <1>2, <1>3, <1>4, <1>5 DEF Next

LEMMA HostsStayLive == Spec => []HostsLive
  BY InitHostsLive, StepHostsLive, PTL DEF Spec

\* The runs of every host, the handle it holds and what the attempt store
\* keeps of it have their types (skin.ts, the effect; store.ts, snapshot).
THEOREM PageTypeCorrect == Spec => []PageTypeOK
  <1>1. HostsLive => PageTypeOK
    BY DEF HostsLive
  <1> QED BY <1>1, HostsStayLive, PTL

\* Whatever a search for a module answers and in whatever order runs start,
\* are cancelled and become ready, a host holds the handle of its newest run,
\* uncancelled, and nothing else of it is mounted (skin.ts, the effect;
\* mount.ts, its root).
THEOREM HandlesAreLive == Spec => []HandleIsLive
  <1>1. HostsLive => HandleIsLive
    <2> SUFFICES ASSUME HostsLive, NEW h \in Hosts, NEW i \in DOMAIN runs[h]
                 PROVE  /\ runs[h][i].phase = "mounted" <=> handle[h] = i
                        /\ handle[h] = i => i = Current(h) /\ Attached(h)
                        /\ runs[h][i].phase = "gone" => runs[h][i].cancelled
                        /\ runs[h][i].phase \in {"waiting", "mounted"} => runs[h][i].root
      BY DEF HandleIsLive
    <2>1. runs[h] \in Seq(Effects) /\ i \in 1 .. Len(runs[h]) /\ Lives(runs[h], handle[h], states[h])
      BY DEF HostsLive, PageTypeOK
    <2>2. handle[h] = i => i = Current(h) /\ Attached(h)
      BY <2>1 DEF Lives, Current, Attached, Newest
    <2> QED BY <2>1, <2>2 DEF Lives
  <1> QED BY <1>1, HostsStayLive, PTL

\* An instance that is ready holds all the work that was there when the
\* attempt was last suspended (store.ts, suspend; skin.ts, the initial state).
THEOREM WorkIsKept == Spec => []WorkSurvives
  <1>1. HostsLive => WorkSurvives
    BY HeldRun DEF HostsLive, WorkSurvives
  <1> QED BY <1>1, HostsStayLive, PTL

\* Nothing but starting the attempt over changes the responses of a submitted
\* attempt: no late onready, ondone, teardown or second submit does (store.ts,
\* setResponse and submit).
THEOREM SubmittedIsFinal == Spec => SubmittedStays
  <1>1. [Next]_vars => (submitted /\ submitted' => response' = response)
    BY DEF Next, AnyFetch, FetchReply, Attach, StrictAttach, Detach, Interact, OnReady, OnDone, SetResponse,
           Submit, Suspend, Reset, vars, store
  <1>2. [Next]_vars => [submitted /\ submitted' => response' = response]_vars
    BY <1>1
  <1> QED BY <1>2, PTL DEF Spec, SubmittedStays
=============================================================================
