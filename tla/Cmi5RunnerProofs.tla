-------------------------- MODULE Cmi5RunnerProofs --------------------------
(***************************************************************************)
(* Theorems about conformance runs on one adapter, for any number of runs, *)
(* any packages, anything an adapter may advertise and every order of      *)
(* their calls.  Scripts are concatenations: what holds of every step of   *)
(* one is shown check by check.  So is the route of a run: what is known   *)
(* of the adapter after each step, and that every step then has the        *)
(* outcome the check asks for.                                             *)
(***************************************************************************)
EXTENDS Cmi5Runner, Cmi5AdapterProofs, FiniteSetTheorems, SequenceTheorems

(***************************************************************************)
(* Scripts are sequences                                                   *)
(***************************************************************************)
IsSeq(s) == Len(s) \in Nat /\ s = [i \in 1 .. Len(s) |-> s[i]]

LEMMA SeqDomain ==
  ASSUME NEW s, IsSeq(s)
  PROVE  /\ Len(s) \in Nat /\ DOMAIN s = 1 .. Len(s)
         /\ s \in Seq({s[i] : i \in DOMAIN s})
  <1>1. Len(s) \in Nat /\ DOMAIN s = 1 .. Len(s)
    BY DEF IsSeq
  <1> DEFINE S == {s[i] : i \in DOMAIN s}
  <1>2. s \in [1 .. Len(s) -> S]
    BY <1>1 DEF IsSeq
  <1> QED BY <1>1, <1>2, SeqDef

LEMMA JoinedSeq ==
  ASSUME NEW s, NEW t, IsSeq(s), IsSeq(t)
  PROVE  /\ IsSeq(s \o t)
         /\ Len(s \o t) = Len(s) + Len(t)
         /\ DOMAIN (s \o t) = 1 .. Len(s) + Len(t)
         /\ \A i \in 1 .. Len(s) : (s \o t)[i] = s[i]
         /\ \A i \in 1 .. Len(t) : (s \o t)[Len(s) + i] = t[i]
  <1> DEFINE S == {s[i] : i \in DOMAIN s} \union {t[i] : i \in DOMAIN t}
  <1>1. s \in Seq(S) /\ t \in Seq(S)
    <2>1. Seq({s[i] : i \in DOMAIN s}) \subseteq Seq(S) /\ Seq({t[i] : i \in DOMAIN t}) \subseteq Seq(S)
      BY SeqMonotonic
    <2> QED BY <2>1, SeqDomain
  <1> HIDE DEF S
  <1>2. /\ s \o t \in Seq(S)
        /\ Len(s \o t) = Len(s) + Len(t)
        /\ \A i \in 1 .. Len(s) + Len(t) : (s \o t)[i] = IF i <= Len(s) THEN s[i] ELSE t[i - Len(s)]
    BY <1>1, ConcatProperties
  <1>3. Len(s) \in Nat /\ Len(t) \in Nat
    BY DEF IsSeq
  <1>4. IsSeq(s \o t) /\ DOMAIN (s \o t) = 1 .. Len(s) + Len(t)
    BY <1>2, LenProperties DEF IsSeq
  <1> QED BY <1>2, <1>3, <1>4

LEMMA MappedSeq ==
  ASSUME NEW s, NEW t, IsSeq(s), DOMAIN t = DOMAIN s, t = [i \in DOMAIN s |-> t[i]]
  PROVE  IsSeq(t) /\ Len(t) = Len(s)
  <1> DEFINE T == {t[i] : i \in DOMAIN s}
             n == Len(s)
  <1>1. n \in Nat /\ DOMAIN s = 1 .. n
    BY SeqDomain
  <1>2. t \in [1 .. n -> T]
    BY <1>1
  <1>3. t \in Seq(T)
    BY <1>1, <1>2, SeqDef
  <1>4. Len(t) \in Nat /\ DOMAIN t = 1 .. Len(t)
    BY <1>3, LenProperties
  <1>5. Len(t) = n
    BY <1>1, <1>4
  <1> QED BY <1>1, <1>5 DEF IsSeq

(***************************************************************************)
(* What a run's calls name: its own sessions and registrations, its        *)
(* package, the session every run fixes, and names nothing answers to.     *)
(***************************************************************************)
OwnSlots(r) == {r} \X Slots
Reach(r)    == OwnSlots(r) \union {Explicit}

StepFields == {"op", "q", "expect", "feeds", "closes", "skips", "needs", "tokens", "inner", "date"}
IsStep(s) == DOMAIN s = StepFields

Names(r, op, q) ==
    \/ op \in {"fixtures", "reload", "read"}
    \/ op = "import" /\ q.package = PackageId[r]
    \/ /\ op = "launch"
       /\ q.session \in Reach(r) /\ q.registration \in Reach(r) /\ q.moveOn \in AllMoveOns
    \/ op = "fetch" /\ q.session \in OwnSlots(r) \union {NoSession, Missing}
    \/ op = "data" /\ q.session \in OwnSlots(r) /\ q.id = NoId
    \/ op = "post" /\ q.session \in OwnSlots(r) /\ q.id \in {NoId, r} /\ q.verb \in Verbs
    \/ op = "get" /\ q.session \in OwnSlots(r)
    \/ op = "waive" /\ q.registration \in OwnSlots(r) \union {NoRegistration, Missing}
    \/ op = "abandon" /\ q.session \in OwnSlots(r) \union {NoSession, Missing}

Step(r, s) == IsStep(s) /\ Names(r, s.op, s.q) /\ IsFiniteSet(s.closes) /\ IsFiniteSet(s.skips)

Part(r, s) == IsSeq(s) /\ Len(s) >= 1 /\ \A i \in DOMAIN s : Step(r, s[i])

LEMMA JoinedPart ==
  ASSUME NEW r, NEW s, NEW t, Part(r, s), Part(r, t)
  PROVE  Part(r, s \o t)
  <1>1. /\ IsSeq(s \o t)
        /\ Len(s \o t) = Len(s) + Len(t)
        /\ DOMAIN (s \o t) = 1 .. Len(s) + Len(t)
        /\ \A i \in 1 .. Len(s) : (s \o t)[i] = s[i]
        /\ \A i \in 1 .. Len(t) : (s \o t)[Len(s) + i] = t[i]
    BY JoinedSeq DEF Part
  <1>2. /\ Len(s) \in Nat /\ Len(t) \in Nat /\ Len(s) >= 1
        /\ DOMAIN s = 1 .. Len(s) /\ DOMAIN t = 1 .. Len(t)
    BY SeqDomain DEF Part
  <1>3. ASSUME NEW i \in 1 .. Len(s) + Len(t)
        PROVE  Step(r, (s \o t)[i])
    <2>1. CASE i \in 1 .. Len(s)
      BY <1>1, <1>2, <2>1 DEF Part
    <2>2. CASE i \notin 1 .. Len(s)
      <3>1. i - Len(s) \in 1 .. Len(t) /\ i = Len(s) + (i - Len(s))
        BY <1>2, <2>2
      <3>2. (s \o t)[i] = t[i - Len(s)]
        BY <1>1, <3>1
      <3> QED BY <1>2, <3>1, <3>2 DEF Part
    <2> QED BY <2>1, <2>2
  <1> QED BY <1>1, <1>2, <1>3 DEF Part

LEMMA NeedingStep ==
  ASSUME NEW r, NEW s, Step(r, s), NEW x, NEW y
  PROVE  Step(r, [s EXCEPT !.needs = @ \union x, !.tokens = @ \union y])
  <1> DEFINE e == [s EXCEPT !.needs = @ \union x, !.tokens = @ \union y]
  <1>1. IsStep(s) /\ Names(r, s.op, s.q) /\ IsFiniteSet(s.closes) /\ IsFiniteSet(s.skips)
    BY DEF Step
  <1>2. IsStep(e) /\ e.op = s.op /\ e.q = s.q /\ e.skips = s.skips /\ e.closes = s.closes
    BY <1>1 DEF IsStep, StepFields
  <1> HIDE DEF e
  <1>3. Step(r, e)
    BY <1>1, <1>2 DEF Step
  <1> QED BY <1>3 DEF e

LEMMA InnerStep ==
  ASSUME NEW r, NEW s, Step(r, s)
  PROVE  Step(r, [s EXCEPT !.inner = TRUE])
  <1> DEFINE e == [s EXCEPT !.inner = TRUE]
  <1>1. IsStep(s) /\ Names(r, s.op, s.q) /\ IsFiniteSet(s.closes) /\ IsFiniteSet(s.skips)
    BY DEF Step
  <1>2. IsStep(e) /\ e.op = s.op /\ e.q = s.q /\ e.skips = s.skips /\ e.closes = s.closes
    BY <1>1 DEF IsStep, StepFields
  <1> HIDE DEF e
  <1>3. Step(r, e)
    BY <1>1, <1>2 DEF Step
  <1> QED BY <1>3 DEF e

LEMMA FeedingStep ==
  ASSUME NEW r, NEW s, Step(r, s), NEW x
  PROVE  Step(r, [s EXCEPT !.feeds = @ \union x])
  <1> DEFINE e == [s EXCEPT !.feeds = @ \union x]
  <1>1. IsStep(s) /\ Names(r, s.op, s.q) /\ IsFiniteSet(s.closes) /\ IsFiniteSet(s.skips)
    BY DEF Step
  <1>2. IsStep(e) /\ e.op = s.op /\ e.q = s.q /\ e.skips = s.skips /\ e.closes = s.closes
    BY <1>1 DEF IsStep, StepFields
  <1> HIDE DEF e
  <1>3. Step(r, e)
    BY <1>1, <1>2 DEF Step
  <1> QED BY <1>3 DEF e

LEMMA ClosingStep ==
  ASSUME NEW r, NEW s, Step(r, s), NEW x, IsFiniteSet(x)
  PROVE  Step(r, [s EXCEPT !.closes = @ \union x])
  <1> DEFINE e == [s EXCEPT !.closes = @ \union x]
  <1>1. IsStep(s) /\ Names(r, s.op, s.q) /\ IsFiniteSet(s.closes) /\ IsFiniteSet(s.skips)
    BY DEF Step
  <1>2. IsStep(e) /\ e.op = s.op /\ e.q = s.q /\ e.skips = s.skips /\ e.closes = s.closes \union x
    BY <1>1 DEF IsStep, StepFields
  <1> HIDE DEF e
  <1>3. Step(r, e)
    BY <1>1, <1>2, FS_Union DEF Step
  <1> QED BY <1>3 DEF e

LEMMA NeedingPart ==
  ASSUME NEW r, NEW slots, NEW tokens, NEW s, Part(r, s)
  PROVE  Part(r, Needing(slots, tokens, s))
  <1> DEFINE t == Needing(slots, tokens, s)
  <1>1. /\ DOMAIN t = DOMAIN s /\ t = [i \in DOMAIN s |-> t[i]]
        /\ \A i \in DOMAIN s : t[i] = [s[i] EXCEPT !.needs = @ \union slots, !.tokens = @ \union tokens]
    BY DEF Needing
  <1>2. \A i \in DOMAIN s : Step(r, t[i])
    <2> TAKE i \in DOMAIN s
    <2>1. Step(r, s[i]) /\ t[i] = [s[i] EXCEPT !.needs = @ \union slots, !.tokens = @ \union tokens]
      BY <1>1 DEF Part
    <2> DEFINE si == s[i]
    <2> HIDE DEF si
    <2>2. Step(r, si) /\ t[i] = [si EXCEPT !.needs = @ \union slots, !.tokens = @ \union tokens]
      BY <2>1 DEF si
    <2>3. Step(r, [si EXCEPT !.needs = @ \union slots, !.tokens = @ \union tokens])
      BY <2>2, NeedingStep
    <2> QED BY <2>2, <2>3
  <1> HIDE DEF t
  <1>3. Part(r, t)
    BY <1>1, <1>2, MappedSeq DEF Part
  <1> QED BY <1>3 DEF t

LEMMA InnerPart ==
  ASSUME NEW r, NEW s, Part(r, s)
  PROVE  Part(r, Inner(s))
  <1> DEFINE t == Inner(s)
  <1>1. /\ DOMAIN t = DOMAIN s /\ t = [i \in DOMAIN s |-> t[i]]
        /\ \A i \in DOMAIN s : t[i] = [s[i] EXCEPT !.inner = TRUE]
    BY DEF Inner
  <1>2. \A i \in DOMAIN s : Step(r, t[i])
    BY <1>1, InnerStep DEF Part
  <1> HIDE DEF t
  <1>3. Part(r, t)
    BY <1>1, <1>2, MappedSeq DEF Part
  <1> QED BY <1>3 DEF t

LEMMA FeedingPart ==
  ASSUME NEW r, NEW checks, NEW s, Part(r, s)
  PROVE  Part(r, Feeding(checks, s))
  <1> DEFINE t == Feeding(checks, s)
  <1>1. /\ DOMAIN t = DOMAIN s /\ t = [i \in DOMAIN s |-> t[i]]
        /\ \A i \in DOMAIN s : t[i] = [s[i] EXCEPT !.feeds = @ \union checks]
    BY DEF Feeding
  <1>2. \A i \in DOMAIN s : Step(r, t[i])
    BY <1>1, FeedingStep, SMTT(30) DEF Part
  <1> HIDE DEF t
  <1>3. Part(r, t)
    BY <1>1, <1>2, MappedSeq DEF Part
  <1> QED BY <1>3 DEF t

LEMMA ClosingPart ==
  ASSUME NEW r, NEW checks, IsFiniteSet(checks), NEW s, Part(r, s)
  PROVE  Part(r, Closing(checks, s))
  <1> DEFINE t == Closing(checks, s)
             n == Len(s)
             last == [s[n] EXCEPT !.closes = @ \union checks]
  <1>1. n \in Nat /\ n >= 1 /\ DOMAIN s = 1 .. n
    BY SeqDomain DEF Part
  <1>2. Step(r, s[n])
    BY <1>1 DEF Part
  <1>4. Step(r, last)
    BY <1>2, ClosingStep
  <1>5. t = [s EXCEPT ![n] = last]
    BY DEF Closing
  <1> HIDE DEF last
  <1>6. DOMAIN t = DOMAIN s /\ t = [i \in DOMAIN s |-> t[i]]
    BY <1>1, <1>5
  <1>7. \A i \in DOMAIN s : Step(r, t[i])
    BY <1>1, <1>4, <1>5 DEF Part
  <1> HIDE DEF t
  <1>8. Part(r, t)
    BY <1>1, <1>6, <1>7, MappedSeq DEF Part
  <1> QED BY <1>8 DEF t

LEMMA CheckPart ==
  ASSUME NEW r, NEW name, NEW s, Part(r, s)
  PROVE  Part(r, Check(name, s))
  BY FeedingPart, ClosingPart, FS_Singleton DEF Check

LEMMA SkipPart ==
  ASSUME NEW r, NEW name
  PROVE  Part(r, Skip(name))
  <1> DEFINE step == [Do("read", <<>>, <<>>) EXCEPT !.skips = {name}]
  <1>1. IsStep(step) /\ step.op = "read" /\ step.closes = {} /\ step.skips = {name}
    BY DEF IsStep, StepFields, Do
  <1> HIDE DEF step
  <1>2. Names(r, step.op, step.q)
    BY <1>1 DEF Names
  <1>3. Step(r, step)
    <2>1. IsFiniteSet({}) /\ IsFiniteSet({name})
      BY FS_Singleton, FS_EmptySet
    <2> QED BY <1>1, <1>2, <2>1 DEF Step
  <1>4. Part(r, <<step>>)
    BY <1>3 DEF Part, IsSeq
  <1> QED BY <1>4 DEF Skip, step

LEMMA CheckIfPart ==
  ASSUME NEW r, NEW possible, NEW name, NEW s, Part(r, s)
  PROVE  Part(r, CheckIf(possible, name, s))
  BY CheckPart, SkipPart DEF CheckIf

LEMMA DoStep ==
  ASSUME NEW r, NEW op, NEW q, NEW expect, Names(r, op, q)
  PROVE  Step(r, Do(op, q, expect))
  <1> DEFINE s == Do(op, q, expect)
  <1>1. IsStep(s) /\ s.op = op /\ s.q = q /\ s.closes = {} /\ s.skips = {}
    BY DEF IsStep, StepFields, Do
  <1> HIDE DEF s
  <1>2. Step(r, s)
    BY <1>1, FS_EmptySet DEF Step
  <1> QED BY <1>2 DEF s

LEMMA TuplePart ==
  ASSUME NEW r
  PROVE  /\ \A a : Step(r, a) => Part(r, <<a>>)
         /\ \A a, b : Step(r, a) /\ Step(r, b) => Part(r, <<a, b>>)
         /\ \A a, b, c : Step(r, a) /\ Step(r, b) /\ Step(r, c) => Part(r, <<a, b, c>>)
         /\ \A a, b, c, d : Step(r, a) /\ Step(r, b) /\ Step(r, c) /\ Step(r, d) => Part(r, <<a, b, c, d>>)
  BY DEF Part, IsSeq

(* FlattenSeq is a recursive function: one that satisfies its equation has  *)
(* to be shown before it can be unfolded.                                   *)
LEMMA FlattenedNone == FlattenSeq(<<>>) = <<>>
  BY DEF FlattenSeq

LEMMA FlattenedOne ==
  ASSUME NEW s, Len(s) = 1
  PROVE  FlattenSeq(s) = s[1]
  <1> DEFINE eq(f) == f = [i \in 1 .. Len(s) |-> IF i = 1 THEN s[i] ELSE f[i - 1] \o s[i]]
             flat == CHOOSE f : eq(f)
             g == [i \in 1 .. 1 |-> s[i]]
  <1>1. eq(g)
    OBVIOUS
  <1> HIDE DEF g
  <1>2. eq(flat)
    BY <1>1
  <1>3. FlattenSeq(s) = flat[Len(s)]
    BY DEF FlattenSeq
  <1> HIDE DEF flat
  <1> QED BY <1>2, <1>3

LEMMA FlattenedFive ==
  ASSUME NEW s, Len(s) = 5
  PROVE  FlattenSeq(s) = s[1] \o s[2] \o s[3] \o s[4] \o s[5]
  <1> DEFINE eq(f) == f = [i \in 1 .. Len(s) |-> IF i = 1 THEN s[i] ELSE f[i - 1] \o s[i]]
             flat == CHOOSE f : eq(f)
             g1 == s[1]
             g2 == g1 \o s[2]
             g3 == g2 \o s[3]
             g4 == g3 \o s[4]
             g5 == g4 \o s[5]
             g == [i \in 1 .. 5 |-> IF i = 1 THEN g1 ELSE IF i = 2 THEN g2 ELSE IF i = 3 THEN g3
                                    ELSE IF i = 4 THEN g4 ELSE g5]
             next(f, i) == IF i = 1 THEN s[i] ELSE f[i - 1] \o s[i]
  <1>1. g[1] = g1 /\ g[2] = g2 /\ g[3] = g3 /\ g[4] = g4 /\ g[5] = g5
    BY SMTT(30)
  <1>2. g = [i \in 1 .. 5 |-> g[i]]
    OBVIOUS
  <1> HIDE DEF g
  <1>3. \A i \in 1 .. 5 : g[i] = next(g, i)
    <2>1. /\ next(g, 1) = s[1] /\ next(g, 2) = g[1] \o s[2] /\ next(g, 3) = g[2] \o s[3]
          /\ next(g, 4) = g[3] \o s[4] /\ next(g, 5) = g[4] \o s[5]
      OBVIOUS
    <2> HIDE DEF next
    <2>2. \A i \in 1 .. 5 : i = 1 \/ i = 2 \/ i = 3 \/ i = 4 \/ i = 5
      OBVIOUS
    <2> QED BY <1>1, <2>1, <2>2
  <1>4. eq(g)
    <2>1. g = [i \in 1 .. 5 |-> next(g, i)]
      BY <1>2, <1>3
    <2> QED BY <2>1
  <1>5. eq(flat)
    BY <1>4
  <1>6. FlattenSeq(s) = flat[Len(s)]
    BY DEF FlattenSeq
  <1> HIDE DEF flat
  <1>7. \A i \in 1 .. 5 : flat[i] = next(flat, i)
    BY <1>5
  <1>8. /\ flat[1] = s[1] /\ flat[2] = flat[1] \o s[2] /\ flat[3] = flat[2] \o s[3]
        /\ flat[4] = flat[3] \o s[4] /\ flat[5] = flat[4] \o s[5]
    <2>1. /\ next(flat, 1) = s[1] /\ next(flat, 2) = flat[1] \o s[2] /\ next(flat, 3) = flat[2] \o s[3]
          /\ next(flat, 4) = flat[3] \o s[4] /\ next(flat, 5) = flat[4] \o s[5]
      OBVIOUS
    <2> HIDE DEF next
    <2>2. 1 \in 1 .. 5 /\ 2 \in 1 .. 5 /\ 3 \in 1 .. 5 /\ 4 \in 1 .. 5 /\ 5 \in 1 .. 5
      OBVIOUS
    <2>3. /\ flat[1] = next(flat, 1) /\ flat[2] = next(flat, 2) /\ flat[3] = next(flat, 3)
          /\ flat[4] = next(flat, 4) /\ flat[5] = next(flat, 5)
      BY <1>7, <2>2
    <2> QED BY <2>1, <2>3
  <1> QED BY <1>6, <1>8

(***************************************************************************)
(* Every step of every check is one                                        *)
(***************************************************************************)
LEMMA OwnNames ==
  ASSUME NEW r, NEW slot \in Slots
  PROVE  Own(r, slot) \in OwnSlots(r) /\ Own(r, slot) \in Reach(r)
  BY DEF Own, OwnSlots, Reach

LEMMA MoveOnSlots ==
  ASSUME NEW m \in AllMoveOns
  PROVE  m \in Slots /\ LaunchedAs[m] \in Slots
  BY DEF Slots

LaunchQuery(r, q) ==
    /\ DOMAIN q = {"package", "session", "registration", "moveOn", "flaw"}
    /\ q.session \in Reach(r) /\ q.registration \in Reach(r) /\ q.moveOn \in AllMoveOns

LEMMA LaunchQueryStep ==
  ASSUME NEW r, NEW q, LaunchQuery(r, q), NEW expect
  PROVE  Step(r, Do("launch", q, expect))
  <1>1. Names(r, "launch", q)
    BY DEF LaunchQuery, Names
  <1> QED BY <1>1, DoStep

LEMMA EditedLaunchQuery ==
  ASSUME NEW r, NEW q, LaunchQuery(r, q), NEW x
  PROVE  /\ x \in AllMoveOns => LaunchQuery(r, [q EXCEPT !.moveOn = x])
         /\ LaunchQuery(r, [q EXCEPT !.flaw = x])
         /\ LaunchQuery(r, [q EXCEPT !.package = x])
  BY DEF LaunchQuery

LEMMA LaunchOfQuery ==
  ASSUME NEW r, NEW s \in Reach(r), NEW g \in Reach(r)
  PROVE  LaunchQuery(r, LaunchOf(r, s, g))
  BY DEF LaunchQuery, LaunchOf, AllMoveOns

LEMMA LaunchingQuery ==
  ASSUME NEW r, NEW slot \in Slots
  PROVE  LaunchQuery(r, Launching(r, slot))
  BY LaunchOfQuery, OwnNames DEF Launching

LEMMA LaunchStep ==
  ASSUME NEW r, NEW s \in Reach(r), NEW g \in Reach(r), NEW expect
  PROVE  Step(r, Do("launch", LaunchOf(r, s, g), expect))
  BY LaunchOfQuery, LaunchQueryStep

LEMMA LaunchingStep ==
  ASSUME NEW r, NEW slot \in Slots, NEW expect
  PROVE  Step(r, Do("launch", Launching(r, slot), expect))
  BY LaunchingQuery, LaunchQueryStep

LEMMA AimedLaunchStep ==
  ASSUME NEW r, NEW slot \in Slots, NEW m \in AllMoveOns, NEW expect
  PROVE  Step(r, Do("launch", [Launching(r, slot) EXCEPT !.moveOn = m], expect))
  <1> DEFINE q == Launching(r, slot)
  <1>1. LaunchQuery(r, q)
    BY LaunchingQuery
  <1> HIDE DEF q
  <1>2. Step(r, Do("launch", [q EXCEPT !.moveOn = m], expect))
    BY <1>1, EditedLaunchQuery, LaunchQueryStep
  <1> QED BY <1>2 DEF q

LEMMA ImportStep ==
  ASSUME NEW r, NEW upload, NEW expect
  PROVE  Step(r, Do("import", Import(r, upload), expect))
  <1>1. Names(r, "import", Import(r, upload))
    BY DEF Names, Import
  <1> QED BY <1>1, DoStep

LEMMA QuietStep ==
  ASSUME NEW r, NEW expect
  PROVE  /\ Step(r, Do("fixtures", <<>>, expect))
         /\ Step(r, Do("reload", <<>>, expect))
         /\ Step(r, Read(expect))
  <1>1. Names(r, "fixtures", <<>>) /\ Names(r, "reload", <<>>) /\ Names(r, "read", <<>>)
    BY DEF Names
  <1> QED BY <1>1, DoStep DEF Read

LEMMA FetchStep ==
  ASSUME NEW r, NEW s \in OwnSlots(r) \union {NoSession, Missing}, NEW token, NEW expect
  PROVE  Step(r, Do("fetch", [session |-> s, token |-> token], expect))
  <1>1. Names(r, "fetch", [session |-> s, token |-> token])
    BY DEF Names
  <1> QED BY <1>1, DoStep

LEMMA ExchangeStep ==
  ASSUME NEW r, NEW slot \in Slots
  PROVE  /\ Step(r, Exchange(r, slot))
         /\ \A e : Step(r, [Exchange(r, slot) EXCEPT !.expect = e])
  <1> DEFINE x == Exchange(r, slot)
  <1>1. Step(r, x)
    BY FetchStep, OwnNames DEF Exchange
  <1>2. \A e : Step(r, [x EXCEPT !.expect = e])
    <2> TAKE e
    <2> HIDE DEF x
    <2> DEFINE y == [x EXCEPT !.expect = e]
    <2>1. IsStep(x) /\ Names(r, x.op, x.q) /\ IsFiniteSet(x.closes) /\ IsFiniteSet(x.skips)
      BY <1>1 DEF Step
    <2>2. IsStep(y) /\ y.op = x.op /\ y.q = x.q /\ y.skips = x.skips /\ y.closes = x.closes
      BY <2>1 DEF IsStep, StepFields
    <2> HIDE DEF y
    <2>3. Step(r, y)
      BY <2>1, <2>2 DEF Step
    <2> QED BY <2>3 DEF y
  <1> QED BY <1>1, <1>2

LEMMA StatementStep ==
  ASSUME NEW r, NEW slot \in Slots, NEW verb \in Verbs, NEW id \in {NoId, r}, NEW code
  PROVE  Step(r, Statement(r, slot, verb, id, code))
  <1> DEFINE q == [session |-> Own(r, slot), registration |-> Own(r, slot), verb |-> verb,
                   token |-> TokenOf(r, slot), id |-> id]
  <1>1. Names(r, "post", q)
    BY OwnNames DEF Names
  <1> HIDE DEF q
  <1>2. Step(r, Do("post", q, Status(code)))
    BY <1>1, DoStep
  <1> QED BY <1>2 DEF Statement, q

LEMMA DataStep ==
  ASSUME NEW r, NEW slot \in Slots, NEW token, NEW expect
  PROVE  Step(r, Data(r, slot, token, expect)) /\ Step(r, Get(r, slot, token, expect))
  <1> DEFINE q == [session |-> Own(r, slot), token |-> token, id |-> NoId]
             p == [session |-> Own(r, slot), token |-> token]
  <1>1. Names(r, "data", q) /\ Names(r, "get", p)
    BY OwnNames DEF Names
  <1> HIDE DEF q, p
  <1>2. Step(r, Do("data", q, expect)) /\ Step(r, Do("get", p, expect))
    BY <1>1, DoStep
  <1> QED BY <1>2 DEF Data, Get, q, p

LEMMA WaiveStep ==
  ASSUME NEW r, NEW g \in OwnSlots(r) \union {NoRegistration, Missing}, NEW expect
  PROVE  Step(r, Do("waive", [registration |-> g], expect))
  <1>1. Names(r, "waive", [registration |-> g])
    BY DEF Names
  <1> QED BY <1>1, DoStep

LEMMA AbandonStep ==
  ASSUME NEW r, NEW s \in OwnSlots(r) \union {NoSession, Missing}, NEW expect
  PROVE  Step(r, Do("abandon", [session |-> s], expect))
  <1>1. Names(r, "abandon", [session |-> s])
    BY DEF Names
  <1> QED BY <1>1, DoStep

LEMMA DatedStep ==
  ASSUME NEW r, NEW s, Step(r, s), NEW x, NEW y
  PROVE  /\ Step(r, [s EXCEPT !.date = x, !.needs = y])
         /\ Step(r, [s EXCEPT !.needs = y])
  <1> DEFINE e == [s EXCEPT !.date = x, !.needs = y]
             d == [s EXCEPT !.needs = y]
  <1>1. IsStep(s) /\ Names(r, s.op, s.q) /\ IsFiniteSet(s.closes) /\ IsFiniteSet(s.skips)
    BY DEF Step
  <1>2. /\ IsStep(e) /\ e.op = s.op /\ e.q = s.q /\ e.skips = s.skips /\ e.closes = s.closes
        /\ IsStep(d) /\ d.op = s.op /\ d.q = s.q /\ d.skips = s.skips /\ d.closes = s.closes
    BY <1>1 DEF IsStep, StepFields
  <1> HIDE DEF e, d
  <1>3. Step(r, e) /\ Step(r, d)
    BY <1>1, <1>2 DEF Step
  <1> QED BY <1>3 DEF e, d

LEMMA SlotList ==
  /\ "initial" \in Slots /\ "security" \in Slots /\ "second" \in Slots /\ "identity" \in Slots
  /\ "browse" \in Slots /\ "review" \in Slots /\ "resumed" \in Slots /\ "anew" \in Slots
  /\ "waived" \in Slots /\ "crossA" \in Slots /\ "crossB" \in Slots
  BY DEF Slots

LEMMA OwnLaunchStep ==
  ASSUME NEW r, NEW a \in Slots, NEW b \in Slots, NEW expect
  PROVE  Step(r, Do("launch", LaunchOf(r, Own(r, a), Own(r, b)), expect))
  BY LaunchStep, OwnNames

LEMMA FixturesPart == \A r : Part(r, Fixtures(r))
  BY QuietStep, TuplePart, CheckPart DEF Fixtures

LEMMA InvalidPackagePart == \A r : Part(r, InvalidPackage(r))
  BY ImportStep, TuplePart, CheckPart DEF InvalidPackage

LEMMA StructureMatrixPart == \A r, offers : Part(r, StructureMatrix(r, offers))
  <1> TAKE r, offers
  <1> DEFINE bad(i) == Do("import", Import(r, MalformedPackages[i]), Status(400))
             steps == [i \in DOMAIN MalformedPackages |-> bad(i)]
  <1>1. Step(r, bad(1)) /\ Step(r, bad(2)) /\ Step(r, bad(3)) /\ Step(r, bad(4))
    BY ImportStep
  <1>2. DOMAIN MalformedPackages = 1 .. 4
    BY DEF MalformedPackages
  <1> HIDE DEF bad
  <1>3. steps = <<bad(1), bad(2), bad(3), bad(4)>>
    BY <1>2
  <1>4. Part(r, steps)
    BY <1>1, <1>3, TuplePart
  <1> HIDE DEF steps
  <1>5. Part(r, CheckIf("structure" \in offers, "package-structure-matrix", steps))
    BY <1>4, CheckIfPart
  <1> QED BY <1>5 DEF StructureMatrix, steps, bad

LEMMA ImportPackagePart == \A r, upload : Part(r, ImportPackage(r, upload))
  BY ImportStep, TuplePart, CheckPart DEF ImportPackage

LEMMA LaunchParts ==
  \A r : Part(r, InitialLaunch(r)) /\ Part(r, IdentityMatrix(r)) /\ Part(r, IdentityPassthrough(r)) /\ Part(r, Resume(r))
  <1> TAKE r
  <1>1. Part(r, InitialLaunch(r))
    BY LaunchingStep, SlotList, TuplePart, CheckPart DEF InitialLaunch
  <1>2. Part(r, IdentityMatrix(r))
    BY LaunchingStep, SlotList, TuplePart, CheckPart DEF IdentityMatrix
  <1>3. Part(r, IdentityPassthrough(r))
    <2>1. Explicit \in Reach(r)
      BY DEF Reach
    <2> QED BY <2>1, LaunchStep, TuplePart, CheckPart DEF IdentityPassthrough
  <1>4. Part(r, Resume(r))
    BY OwnLaunchStep, SlotList, TuplePart, CheckPart DEF Resume
  <1> QED BY <1>1, <1>2, <1>3, <1>4

LEMMA ContractParts ==
  \A r : Part(r, LaunchContract(r)) /\ Part(r, ActorContract(r)) /\ Part(r, LaunchUrlContract(r))
  BY QuietStep, TuplePart, CheckPart DEF LaunchContract, ActorContract, LaunchUrlContract

LEMMA FetchLaunchDataPart == \A r, offers : Part(r, FetchLaunchData(r, offers))
  <1> TAKE r, offers
  <1> DEFINE one == <<Exchange(r, "initial")>>
             two == <<Data(r, "initial", TokenOf(r, "initial"),
                        [status |-> 200, registration |-> Own(r, "initial"), moveOn |-> "CompletedAndPassed"]),
                      [Exchange(r, "initial") EXCEPT !.expect = Status(409)]>>
  <1>1. Part(r, one)
    BY ExchangeStep, SlotList, TuplePart
  <1>2. Part(r, two)
    BY ExchangeStep, DataStep, SlotList, TuplePart
  <1> HIDE DEF one, two
  <1>3. Part(r, one \o Needing({}, {"initial"}, two))
    BY <1>1, <1>2, NeedingPart, JoinedPart
  <1>4. Part(r, CheckIf({"fetch", "data"} \subseteq offers, "fetch-launch-data-contract",
                        one \o Needing({}, {"initial"}, two)))
    BY <1>3, CheckIfPart
  <1> QED BY <1>4 DEF FetchLaunchData, one, two

LEMMA SecurityMatrixPart == \A r, offers : Part(r, SecurityMatrix(r, offers))
  <1> TAKE r, offers
  <1> DEFINE at == Own(r, "security")
             replayed == <<Statement(r, "security", "initialized", r, 200), Statement(r, "security", "launched", r, 409)>>
             s1 == <<Do("launch", Launching(r, "security"), Status(200)),
                     Do("fetch", [session |-> NoSession, token |-> NoSession], Status(400))>>
             s2 == <<Do("fetch", [session |-> at, token |-> Missing], Status(404)), Exchange(r, "security")>>
             s3 == <<Data(r, "security", NoToken, Status(401)), Data(r, "security", ForeignToken, Status(401)),
                     Do("launch", Launching(r, "second"), Status(200))>>
             s4 == <<Exchange(r, "second")>>
             s5 == <<Data(r, "second", TokenOf(r, "security"), Status(401))>>
             s6 == IF {"post", "replay protection"} \subseteq offers THEN replayed ELSE <<>>
             s7 == <<Do("fetch", [session |-> Missing, token |-> at], Status(404))>>
             body == s3 \o Needing({"second"}, {}, s4) \o Needing({}, {"second"}, s5) \o s6
             all == s1 \o Needing({"security"}, {}, s2) \o Needing({}, {"security"}, body) \o Needing({"security"}, {}, s7)
  <1>1. Part(r, s1)
    <2>1. Step(r, Do("launch", Launching(r, "security"), Status(200)))
      BY LaunchingStep, SlotList
    <2>2. Step(r, Do("fetch", [session |-> NoSession, token |-> NoSession], Status(400)))
      BY FetchStep
    <2> QED BY <2>1, <2>2, TuplePart
  <1>2. Part(r, s2)
    BY ExchangeStep, FetchStep, OwnNames, SlotList, TuplePart
  <1>3. Part(r, s3)
    BY LaunchingStep, DataStep, SlotList, TuplePart
  <1>4. Part(r, s4)
    BY ExchangeStep, SlotList, TuplePart
  <1>5. Part(r, s5)
    BY DataStep, SlotList, TuplePart
  <1>6. Part(r, replayed)
    <2>1. "initialized" \in Verbs /\ "launched" \in Verbs
      BY DEF Verbs
    <2>2. Step(r, Statement(r, "security", "initialized", r, 200)) /\ Step(r, Statement(r, "security", "launched", r, 409))
      BY <2>1, StatementStep, SlotList
    <2> QED BY <2>2, TuplePart
  <1>7. Part(r, s7)
    BY FetchStep, TuplePart
  <1> HIDE DEF s1, s2, s3, s4, s5, s7, replayed
  <1>8. Part(r, s3 \o Needing({"second"}, {}, s4) \o Needing({}, {"second"}, s5))
    BY <1>3, <1>4, <1>5, NeedingPart, JoinedPart
  <1>9. Part(r, body)
    <2>1. CASE {"post", "replay protection"} \subseteq offers
      BY <1>6, <1>8, <2>1, JoinedPart
    <2>2. CASE ~({"post", "replay protection"} \subseteq offers)
      <3> DEFINE b == s3 \o Needing({"second"}, {}, s4) \o Needing({}, {"second"}, s5)
      <3>1. body = b \o <<>>
        BY <2>2
      <3> HIDE DEF b
      <3>2. b \o <<>> = b
        BY <1>8, SeqDomain, ConcatEmptySeq DEF Part, b
      <3> QED BY <1>8, <3>1, <3>2 DEF b
    <2> QED BY <2>1, <2>2
  <1> HIDE DEF body
  <1>10. Part(r, all)
    BY <1>1, <1>2, <1>7, <1>9, NeedingPart, JoinedPart
  <1> HIDE DEF all
  <1>11. Part(r, CheckIf({"fetch", "data", "fetch security"} \subseteq offers, "fetch-auth-security-matrix", all))
    BY <1>10, CheckIfPart
  <1> QED BY <1>11 DEF SecurityMatrix, all, body, s1, s2, s3, s4, s5, s6, s7, at, replayed

LEMMA StatementsPart ==
  ASSUME NEW r, NEW slot \in Slots, NEW verbs \in Seq(Verbs), verbs # <<>>
  PROVE  Part(r, Statements(r, slot, verbs))
  <1> DEFINE t == Statements(r, slot, verbs)
  <1>1. /\ IsSeq(verbs) /\ DOMAIN t = DOMAIN verbs /\ t = [i \in DOMAIN verbs |-> t[i]]
        /\ \A i \in DOMAIN verbs : t[i] = Statement(r, slot, verbs[i], NoId, 200) /\ verbs[i] \in Verbs
    BY LenProperties DEF Statements, IsSeq
  <1>2. \A i \in DOMAIN verbs : Step(r, t[i])
    <2> HIDE DEF t
    <2> TAKE i \in DOMAIN verbs
    <2>1. Step(r, Statement(r, slot, verbs[i], NoId, 200))
      BY <1>1, StatementStep, ZenonT(40)
    <2> QED BY <1>1, <2>1
  <1> HIDE DEF t
  <1>3. Len(verbs) >= 1
    BY EmptySeq, LenProperties
  <1>4. Part(r, t)
    BY <1>1, <1>2, <1>3, MappedSeq DEF Part
  <1> QED BY <1>4 DEF t

LEMMA FlowType ==
  ASSUME NEW m \in AllMoveOns
  PROVE  Flow(m) \in Seq(Verbs) /\ Flow(m) # <<>>
  <1>1. <<"initialized", "launched", "progressed", "completed", "passed", "terminated">> \in Seq(Verbs)
    BY DEF Verbs
  <1>2. <<"initialized", "launched", "progressed", "completed", "failed", "terminated">> \in Seq(Verbs)
    BY DEF Verbs
  <1>3. <<"initialized", "launched", "completed", "passed", "terminated">> \in Seq(Verbs)
    BY DEF Verbs
  <1>4. <<"initialized", "launched", "progressed", "terminated">> \in Seq(Verbs)
    BY DEF Verbs
  <1>5. m \in {"Passed", "CompletedOrPassed"} \/ m = "Completed" \/ m = "CompletedAndPassed" \/ m = "NotApplicable"
    BY DEF AllMoveOns
  <1> QED BY <1>1, <1>2, <1>3, <1>4, <1>5 DEF Flow

LEMMA MoveOnCaseList ==
  /\ Len(MoveOnCases) = 5 /\ DOMAIN MoveOnCases = 1 .. 5
  /\ \A i \in 1 .. 5 : MoveOnCases[i] \in AllMoveOns
  <1>1. MoveOnCases \in Seq(AllMoveOns) /\ Len(MoveOnCases) = 5
    BY DEF MoveOnCases, AllMoveOns
  <1> QED BY <1>1, LenProperties

(* A part for each moveOn criterion makes a part. *)
LEMMA EachPart ==
  ASSUME NEW r, NEW parts, DOMAIN parts = 1 .. 5, parts = [i \in 1 .. 5 |-> parts[i]],
         \A i \in 1 .. 5 : Part(r, parts[i])
  PROVE  Part(r, FlattenSeq(parts))
  <1>1. Len(parts) = 5
    <2>1. parts \in [1 .. 5 -> {parts[i] : i \in 1 .. 5}]
      OBVIOUS
    <2>2. parts \in Seq({parts[i] : i \in 1 .. 5})
      BY <2>1, SeqDef
    <2> QED BY <2>2, LenProperties
  <1>2. Part(r, parts[1]) /\ Part(r, parts[2]) /\ Part(r, parts[3]) /\ Part(r, parts[4]) /\ Part(r, parts[5])
    OBVIOUS
  <1>3. Part(r, parts[1] \o parts[2] \o parts[3] \o parts[4] \o parts[5])
    BY <1>2, JoinedPart
  <1> QED BY <1>1, <1>3, FlattenedFive

RefusedSteps(r, m) == Each(Refused(m), LAMBDA v : <<Statement(r, m, v, NoId, 409)>>)

LEMMA RefusedPart ==
  ASSUME NEW r, NEW m \in AllMoveOns, NEW s, Part(r, s)
  PROVE  Part(r, s \o RefusedSteps(r, m))
  <1> DEFINE one(v) == <<Statement(r, m, v, NoId, 409)>>
             steps == [i \in DOMAIN Refused(m) |-> one(Refused(m)[i])]
  <1>1. RefusedSteps(r, m) = FlattenSeq(steps)
    BY DEF Each, RefusedSteps
  <1>2. CASE m = "Completed"
    <2>1. steps = <<>>
      BY <1>2 DEF Refused
    <2>2. s \o <<>> = s
      BY SeqDomain, ConcatEmptySeq DEF Part
    <2> QED BY <1>1, <2>1, <2>2, FlattenedNone
  <1>3. CASE m # "Completed"
    <2> DEFINE v == IF m = "NotApplicable" THEN "passed" ELSE "failed"
    <2>1. Refused(m) = <<v>> /\ v \in Verbs
      BY <1>3 DEF Refused, Verbs
    <2> HIDE DEF v
    <2>2. steps = <<one(v)>>
      BY <2>1
    <2>3. Part(r, one(v))
      BY <2>1, MoveOnSlots, StatementStep, TuplePart
    <2> HIDE DEF one
    <2>4. FlattenSeq(steps) = one(v)
      BY <2>2, FlattenedOne
    <2>5. Part(r, s \o FlattenSeq(steps))
      BY <2>3, <2>4, JoinedPart
    <2> QED BY <1>1, <2>5 DEF one
  <1> QED BY <1>2, <1>3

LEMMA LifecycleMatrixPart == \A r, offers : Part(r, LifecycleMatrix(r, offers))
  <1> TAKE r, offers
  <1> DEFINE first(m) == <<Do("launch", [Launching(r, m) EXCEPT !.moveOn = m], Status(200))>>
             second(m) == <<Exchange(r, m)>>
             last(m) == <<Get(r, m, TokenOf(r, m),
                            [status |-> 200, verbs |-> Flow(m), terminated |-> TRUE, moveOnSatisfied |-> TRUE])>>
             of(m) == first(m) \o Needing({m}, {}, second(m))
                      \o Needing({}, {m}, Statements(r, m, Flow(m)) \o RefusedSteps(r, m) \o last(m))
             parts == [i \in DOMAIN MoveOnCases |-> of(MoveOnCases[i])]
  <1>1. ASSUME NEW m \in AllMoveOns
        PROVE  Part(r, of(m))
    <2>1. Part(r, first(m))
      BY MoveOnSlots, AimedLaunchStep, TuplePart
    <2>2. Part(r, second(m))
      BY MoveOnSlots, ExchangeStep, TuplePart
    <2>3. Part(r, Statements(r, m, Flow(m)) \o RefusedSteps(r, m))
      BY MoveOnSlots, FlowType, StatementsPart, RefusedPart
    <2>4. Part(r, last(m))
      BY MoveOnSlots, DataStep, TuplePart
    <2> HIDE DEF first, second, last
    <2> QED BY <2>1, <2>2, <2>3, <2>4, NeedingPart, JoinedPart
  <1> HIDE DEF of
  <1>2. Part(r, FlattenSeq(parts))
    BY <1>1, MoveOnCaseList, EachPart
  <1> HIDE DEF parts
  <1>3. Part(r, CheckIf({"fetch", "post", "get"} \subseteq offers, "au-runtime-lifecycle-matrix", FlattenSeq(parts)))
    BY <1>2, CheckIfPart
  <1> QED BY <1>3 DEF LifecycleMatrix, Each, RefusedSteps, parts, of, first, second, last

LEMMA MoveOnMatrixPart == \A r : Part(r, MoveOnMatrix(r))
  <1> TAKE r
  <1> DEFINE of(m) == <<Do("launch", [Launching(r, LaunchedAs[m]) EXCEPT !.moveOn = m], [status |-> 200, moveOn |-> m])>>
             parts == [i \in DOMAIN MoveOnCases |-> of(MoveOnCases[i])]
  <1>1. ASSUME NEW m \in AllMoveOns
        PROVE  Part(r, of(m))
    BY MoveOnSlots, AimedLaunchStep, TuplePart
  <1> HIDE DEF of
  <1>2. Part(r, FlattenSeq(parts))
    BY <1>1, MoveOnCaseList, EachPart
  <1> HIDE DEF parts
  <1>3. Part(r, Closing({"moveon-matrix"}, Feeding({"moveon-matrix", "context-template-matrix"}, FlattenSeq(parts))))
    BY <1>2, FeedingPart, ClosingPart, FS_Singleton
  <1> QED BY <1>3 DEF MoveOnMatrix, Each, parts, of

LEMMA TwoChecksFinite == \A a, b : IsFiniteSet({a, b})
  <1> TAKE a, b
  <1>1. {a, b} = {a} \union {b}
    OBVIOUS
  <1>2. IsFiniteSet({a}) /\ IsFiniteSet({b})
    BY FS_Singleton
  <1> QED BY <1>1, <1>2, FS_Union

LEMMA LaunchModeMatrixPart == \A r : Part(r, LaunchModeMatrix(r))
  <1> TAKE r
  <1> DEFINE steps == <<Do("launch", Launching(r, "browse"), Status(200)), Do("launch", Launching(r, "review"), Status(200))>>
  <1>1. Part(r, steps)
    BY SlotList, LaunchingStep, TuplePart
  <1> HIDE DEF steps
  <1>2. Part(r, Feeding({"launch-mode-matrix", "context-template-matrix"}, steps))
    BY <1>1, FeedingPart
  <1>3. Part(r, Closing({"launch-mode-matrix", "context-template-matrix"},
                        Feeding({"launch-mode-matrix", "context-template-matrix"}, steps)))
    BY <1>2, ClosingPart, TwoChecksFinite
  <1> QED BY <1>3 DEF LaunchModeMatrix, steps

LEMMA InvalidLaunchesPart == \A r : Part(r, InvalidLaunches(r))
  <1> TAKE r
  <1> DEFINE bad(q, code) == Do("launch", q, Status(code))
             flawed(f) == [Launching(r, "anew") EXCEPT !.flaw = f]
             lost == [Launching(r, "anew") EXCEPT !.package = MissingPackage]
             four == <<bad(flawed("package"), 400), bad(lost, 404), bad(flawed("mode"), 400), bad(flawed("mode"), 400)>>
             five == [i \in 1 .. 5 |-> bad(flawed("field"), 400)]
  <1>1. Step(r, bad(lost, 404)) /\ \A f : Step(r, bad(flawed(f), 400))
    <2> DEFINE q == Launching(r, "anew")
    <2>1. LaunchQuery(r, q)
      BY SlotList, LaunchingQuery
    <2> HIDE DEF q
    <2>2. /\ Step(r, Do("launch", [q EXCEPT !.package = MissingPackage], Status(404)))
          /\ \A f : Step(r, Do("launch", [q EXCEPT !.flaw = f], Status(400)))
      BY <2>1, EditedLaunchQuery, LaunchQueryStep, ZenonT(40)
    <2> QED BY <2>2 DEF q
  <1> HIDE DEF bad, flawed, lost
  <1>2. Part(r, four)
    BY <1>1, TuplePart
  <1>3. Part(r, five)
    <2>1. DOMAIN five = 1 .. 5 /\ five = [i \in 1 .. 5 |-> five[i]] /\ \A i \in 1 .. 5 : Step(r, five[i])
      BY <1>1
    <2> HIDE DEF five
    <2>2. five \in [1 .. 5 -> {five[i] : i \in 1 .. 5}]
      BY <2>1
    <2>3. five \in Seq({five[i] : i \in 1 .. 5})
      BY <2>2, SeqDef
    <2>4. Len(five) = 5
      BY <2>1, <2>3, LenProperties
    <2> QED BY <2>1, <2>4 DEF Part, IsSeq
  <1> HIDE DEF four, five
  <1>4. Part(r, Check("invalid-launch-matrix", four \o five))
    BY <1>2, <1>3, JoinedPart, CheckPart
  <1> QED BY <1>4 DEF InvalidLaunches, four, five, bad, flawed, lost

LEMMA ResumeMatrixPart == \A r : Part(r, ResumeMatrix(r))
  <1> TAKE r
  <1> DEFINE again == LaunchOf(r, Own(r, "anew"), Own(r, "initial"))
  <1>1. /\ Step(r, Do("launch", [again EXCEPT !.flaw = "package"], Status(400)))
        /\ Step(r, Do("launch", Launching(r, "anew"), Status(200)))
        /\ Step(r, Do("launch", [again EXCEPT !.package = MissingPackage], Status(404)))
    <2>1. Step(r, Do("launch", Launching(r, "anew"), Status(200)))
      BY SlotList, LaunchingStep
    <2>2. LaunchQuery(r, again)
      BY SlotList, OwnNames, LaunchOfQuery
    <2> HIDE DEF again
    <2>3. /\ Step(r, Do("launch", [again EXCEPT !.flaw = "package"], Status(400)))
          /\ Step(r, Do("launch", [again EXCEPT !.package = MissingPackage], Status(404)))
      BY <2>2, EditedLaunchQuery, LaunchQueryStep, ZenonT(40)
    <2> QED BY <2>1, <2>3
  <1> QED BY <1>1, TuplePart, CheckPart DEF ResumeMatrix

LEMMA LifecycleSteps ==
  ASSUME NEW r
  PROVE  /\ \A expect, date : Step(r, Waiver(r, expect, date))
         /\ \A code : Step(r, Abandonment(r, code))
         /\ Step(r, LaunchAbandoned(r))
         /\ \A expect : Step(r, [Read(expect) EXCEPT !.needs = {"initial"}])
         /\ Step(r, [Do("launch", LaunchOf(r, Own(r, "waived"), Own(r, "initial")), Status(200))
                       EXCEPT !.date = "same", !.needs = {"initial"}])
  <1>1. Own(r, "initial") \in OwnSlots(r)
    BY SlotList, OwnNames
  <1>2. \A expect, date : Step(r, Waiver(r, expect, date))
    BY <1>1, WaiveStep, DatedStep DEF Waiver
  <1>3. \A code : Step(r, Abandonment(r, code))
    BY <1>1, AbandonStep, DatedStep DEF Abandonment
  <1>4. Step(r, LaunchAbandoned(r))
    <2> DEFINE d == Do("launch", LaunchOf(r, Own(r, "initial"), Own(r, "anew")), Status(409))
    <2>1. Step(r, d)
      BY SlotList, OwnLaunchStep
    <2>2. LaunchAbandoned(r) = [d EXCEPT !.needs = {"initial"}]
      BY DEF LaunchAbandoned
    <2> HIDE DEF d
    <2>3. Step(r, [d EXCEPT !.needs = {"initial"}])
      BY <2>1, DatedStep
    <2> QED BY <2>2, <2>3
  <1>5. \A expect : Step(r, [Read(expect) EXCEPT !.needs = {"initial"}])
    BY QuietStep, DatedStep
  <1>6. Step(r, Do("launch", LaunchOf(r, Own(r, "waived"), Own(r, "initial")), Status(200)))
    BY SlotList, OwnLaunchStep
  <1> QED BY <1>2, <1>3, <1>4, <1>5, <1>6, DatedStep, ZenonT(40)

LEMMA WaiveChecksPart == \A r : Part(r, WaiveChecks(r))
  <1> TAKE r
  <1> DEFINE one == <<Waiver(r, Status(200), "first")>>
             again == [Do("launch", LaunchOf(r, Own(r, "waived"), Own(r, "initial")), Status(200))
                         EXCEPT !.date = "same", !.needs = {"initial"}]
             more == <<[Read([already |-> FALSE]) EXCEPT !.needs = {"initial"}],
                       Waiver(r, [status |-> 200, already |-> TRUE], "same"), again>>
  <1>1. Part(r, one) /\ Part(r, more)
    BY LifecycleSteps, TuplePart, ZenonT(40)
  <1> HIDE DEF one, more
  <1>2. Part(r, Check("registration-waive", one) \o Feeding({Lifecycle}, more))
    BY <1>1, CheckPart, FeedingPart, JoinedPart
  <1> QED BY <1>2 DEF WaiveChecks, one, more

LEMMA AbandonChecksPart == \A r : Part(r, AbandonChecks(r))
  <1> TAKE r
  <1> DEFINE one == <<Abandonment(r, 200)>>
             two == <<Abandonment(r, 409), LaunchAbandoned(r)>>
             last == <<Read(<<>>)>>
  <1>1. Part(r, one) /\ Part(r, two) /\ Part(r, last)
    <2>1. \A code : Step(r, Abandonment(r, code))
      BY LifecycleSteps
    <2>2. Step(r, LaunchAbandoned(r)) /\ Step(r, Read(<<>>))
      BY LifecycleSteps, QuietStep
    <2> QED BY <2>1, <2>2, TuplePart
  <1> HIDE DEF one, two, last
  <1>2. Part(r, Check("session-abandon", one) \o Feeding({Lifecycle}, two))
    BY <1>1, CheckPart, FeedingPart, JoinedPart
  <1>3. Part(r, Inner(Closing({Lifecycle}, last)))
    BY <1>1, InnerPart, ClosingPart, FS_Singleton
  <1> QED BY <1>2, <1>3, JoinedPart DEF AbandonChecks, one, two, last

LEMMA DurableMatrixPart == \A r, offers : Part(r, DurableMatrix(r, offers))
  <1> TAKE r, offers
  <1> DEFINE reload == <<Do("reload", <<>>, [status |-> 200, loaded |-> TRUE])>>
             after == <<Waiver(r, [status |-> 200, already |-> TRUE], "free"), Abandonment(r, 409), LaunchAbandoned(r)>>
             unable == <<Read([loaded |-> TRUE])>>
             last == <<Read(<<>>)>>
             body == (IF "reload" \in offers THEN reload \o Inner(after) ELSE unable) \o last
  <1>1. Part(r, reload) /\ Part(r, unable) /\ Part(r, last)
    BY QuietStep, TuplePart
  <1>2. Part(r, after)
    <2>1. \A expect, date : Step(r, Waiver(r, expect, date))
      BY LifecycleSteps
    <2>2. Step(r, Abandonment(r, 409)) /\ Step(r, LaunchAbandoned(r))
      BY LifecycleSteps
    <2> QED BY <2>1, <2>2, TuplePart
  <1> HIDE DEF reload, after, unable, last
  <1>3. Part(r, body)
    BY <1>1, <1>2, InnerPart, JoinedPart
  <1> HIDE DEF body
  <1>4. Part(r, CheckIf("durable" \in offers, "durable-state-matrix", body))
    BY <1>3, CheckIfPart
  <1> QED BY <1>4 DEF DurableMatrix, body, reload, after, unable, last

LEMMA CrossSystemPart == \A r, offers : Part(r, CrossSystem(r, offers))
  <1> TAKE r, offers
  <1> DEFINE s1 == <<Do("launch", Launching(r, "crossA"), Status(200)), Do("launch", Launching(r, "crossB"), Status(200))>>
             s2 == <<Exchange(r, "crossA"), Exchange(r, "crossB")>>
             s3 == Statements(r, "crossB", Flow("CompletedAndPassed"))
             s4 == Statements(r, "crossA", <<"initialized", "launched", "progressed">>)
             s5 == <<Get(r, "crossA", TokenOf(r, "crossA"), [status |-> 200, count |-> 3]),
                     Get(r, "crossB", TokenOf(r, "crossB"), [status |-> 200, count |-> 5]),
                     Get(r, "crossA", TokenOf(r, "crossB"), Status(401))>>
             all == s1 \o Needing({"crossA", "crossB"}, {}, s2) \o Needing({}, {"crossA", "crossB"}, s3 \o s4 \o s5)
  <1>1. Part(r, s1)
    BY SlotList, LaunchingStep, TuplePart
  <1>2. Part(r, s2)
    BY SlotList, ExchangeStep, TuplePart
  <1>3. Part(r, s3)
    BY SlotList, FlowType, StatementsPart DEF AllMoveOns
  <1>4. Part(r, s4)
    <2>1. <<"initialized", "launched", "progressed">> \in Seq(Verbs) /\ <<"initialized", "launched", "progressed">> # <<>>
      BY DEF Verbs
    <2> QED BY <2>1, SlotList, StatementsPart
  <1>5. Part(r, s5)
    BY SlotList, DataStep, TuplePart
  <1> HIDE DEF s1, s2, s3, s4, s5
  <1>6. Part(r, all)
    BY <1>1, <1>2, <1>3, <1>4, <1>5, NeedingPart, JoinedPart
  <1> HIDE DEF all
  <1>7. Part(r, CheckIf({"fetch", "data", "post", "get", "cross system"} \subseteq offers,
                        "cross-system-integration-matrix", all))
    BY <1>6, CheckIfPart
  <1> QED BY <1>7 DEF CrossSystem, all, s1, s2, s3, s4, s5

LEMMA InvalidOperationsPart == \A r : Part(r, InvalidOperations(r))
  <1> TAKE r
  <1> DEFINE four == <<Do("waive", [registration |-> NoRegistration], Status(400)),
                       Do("waive", [registration |-> Missing], Status(404)),
                       Do("abandon", [session |-> NoSession], Status(400)),
                       Do("abandon", [session |-> Missing], Status(404))>>
             again == <<Abandonment(r, 409)>>
             last == <<Read(<<>>)>>
  <1>1. Part(r, four)
    <2>1. /\ Step(r, Do("waive", [registration |-> NoRegistration], Status(400)))
          /\ Step(r, Do("waive", [registration |-> Missing], Status(404)))
      BY WaiveStep
    <2>2. /\ Step(r, Do("abandon", [session |-> NoSession], Status(400)))
          /\ Step(r, Do("abandon", [session |-> Missing], Status(404)))
      BY AbandonStep
    <2> QED BY <2>1, <2>2, TuplePart
  <1>2. Part(r, again) /\ Part(r, last)
    BY LifecycleSteps, QuietStep, TuplePart, ZenonT(40)
  <1> HIDE DEF four, again, last
  <1>3. Part(r, four \o Inner(again) \o last)
    BY <1>1, <1>2, InnerPart, JoinedPart
  <1> DEFINE all == four \o Inner(again) \o last
  <1> HIDE DEF all
  <1>4. Part(r, Closing({"invalid-operation-matrix"}, Feeding({"invalid-operation-matrix"}, all)))
    BY <1>3, FeedingPart, ClosingPart, FS_Singleton DEF all
  <1> QED BY <1>4 DEF InvalidOperations, all, four, again, last

(***************************************************************************)
(* The script as a whole                                                   *)
(***************************************************************************)
Early(r, offers) == Fixtures(r) \o InvalidPackage(r) \o StructureMatrix(r, offers)

InnerChecks(r, offers) ==
    LaunchContract(r) \o ActorContract(r) \o LaunchUrlContract(r) \o FetchLaunchData(r, offers)
    \o SecurityMatrix(r, offers) \o LifecycleMatrix(r, offers) \o IdentityMatrix(r) \o IdentityPassthrough(r)
    \o MoveOnMatrix(r) \o LaunchModeMatrix(r) \o InvalidLaunches(r)

LEMMA EarlyPart == \A r, offers : Part(r, Early(r, offers))
  BY FixturesPart, InvalidPackagePart, StructureMatrixPart, JoinedPart DEF Early

LEMMA InnerChecksPart == \A r, offers : Part(r, InnerChecks(r, offers))
  <1> TAKE r, offers
  <1>1. Part(r, LaunchContract(r)) /\ Part(r, ActorContract(r)) /\ Part(r, LaunchUrlContract(r))
    BY ContractParts
  <1>2. Part(r, FetchLaunchData(r, offers)) /\ Part(r, SecurityMatrix(r, offers)) /\ Part(r, LifecycleMatrix(r, offers))
    BY FetchLaunchDataPart, SecurityMatrixPart, LifecycleMatrixPart
  <1>3. Part(r, IdentityMatrix(r)) /\ Part(r, IdentityPassthrough(r)) /\ Part(r, MoveOnMatrix(r))
    BY LaunchParts, MoveOnMatrixPart
  <1>4. Part(r, LaunchModeMatrix(r)) /\ Part(r, InvalidLaunches(r))
    BY LaunchModeMatrixPart, InvalidLaunchesPart
  <1> QED BY <1>1, <1>2, <1>3, <1>4, JoinedPart DEF InnerChecks

LEMMA ScriptPart == \A r, offers, upload : Part(r, ScriptOf(r, offers, upload))
  <1> TAKE r, offers, upload
  <1>1. Part(r, Early(r, offers)) /\ Part(r, ImportPackage(r, upload)) /\ Part(r, InitialLaunch(r))
    BY EarlyPart, ImportPackagePart, LaunchParts
  <1>2. Part(r, Inner(InnerChecks(r, offers)))
    BY InnerChecksPart, InnerPart
  <1>3. Part(r, Resume(r)) /\ Part(r, ResumeMatrix(r)) /\ Part(r, WaiveChecks(r)) /\ Part(r, AbandonChecks(r))
    BY LaunchParts, ResumeMatrixPart, WaiveChecksPart, AbandonChecksPart
  <1>4. Part(r, DurableMatrix(r, offers)) /\ Part(r, CrossSystem(r, offers)) /\ Part(r, InvalidOperations(r))
    BY DurableMatrixPart, CrossSystemPart, InvalidOperationsPart
  <1>5. Part(r, Early(r, offers) \o ImportPackage(r, upload) \o InitialLaunch(r) \o Inner(InnerChecks(r, offers))
                \o Resume(r) \o ResumeMatrix(r) \o WaiveChecks(r) \o AbandonChecks(r))
    BY <1>1, <1>2, <1>3, JoinedPart
  <1> DEFINE most == Early(r, offers) \o ImportPackage(r, upload) \o InitialLaunch(r) \o Inner(InnerChecks(r, offers))
                     \o Resume(r) \o ResumeMatrix(r) \o WaiveChecks(r) \o AbandonChecks(r)
  <1>6. ScriptOf(r, offers, upload) = most \o DurableMatrix(r, offers) \o CrossSystem(r, offers) \o InvalidOperations(r)
    BY DEF ScriptOf, Early, InnerChecks
  <1> HIDE DEF most
  <1>7. Part(r, most \o DurableMatrix(r, offers) \o CrossSystem(r, offers) \o InvalidOperations(r))
    BY <1>4, <1>5, JoinedPart DEF most
  <1> QED BY <1>6, <1>7

(***************************************************************************)
(* Where the package is imported                                           *)
(***************************************************************************)
ImportPlace(r, offers) == Len(Early(r, offers)) + 1

SaysNothingOf(c, s) == \A i \in DOMAIN s : c \notin s[i].closes \union s[i].skips

LEMMA JoinedSaysNothing ==
  ASSUME NEW r, NEW c, NEW s, NEW t, Part(r, s), Part(r, t), SaysNothingOf(c, s), SaysNothingOf(c, t)
  PROVE  SaysNothingOf(c, s \o t)
  <1>1. /\ Len(s \o t) = Len(s) + Len(t)
        /\ DOMAIN (s \o t) = 1 .. Len(s) + Len(t)
        /\ \A i \in 1 .. Len(s) : (s \o t)[i] = s[i]
        /\ \A i \in 1 .. Len(t) : (s \o t)[Len(s) + i] = t[i]
    BY JoinedSeq DEF Part
  <1>2. /\ Len(s) \in Nat /\ Len(t) \in Nat
        /\ DOMAIN s = 1 .. Len(s) /\ DOMAIN t = 1 .. Len(t)
    BY SeqDomain DEF Part
  <1> SUFFICES ASSUME NEW i \in 1 .. Len(s) + Len(t)
               PROVE  c \notin (s \o t)[i].closes \union (s \o t)[i].skips
    BY <1>1 DEF SaysNothingOf
  <1>3. CASE i \in 1 .. Len(s)
    BY <1>1, <1>2, <1>3 DEF SaysNothingOf
  <1>4. CASE i \notin 1 .. Len(s)
    <2>1. i - Len(s) \in 1 .. Len(t) /\ i = Len(s) + (i - Len(s))
      BY <1>2, <1>4
    <2>2. (s \o t)[i] = t[i - Len(s)]
      BY <1>1, <2>1
    <2> QED BY <1>2, <2>1, <2>2 DEF SaysNothingOf
  <1> QED BY <1>3, <1>4

LEMMA CheckSaysNothing ==
  ASSUME NEW r, NEW c, NEW name, name # c, NEW s, Part(r, s), SaysNothingOf(c, s)
  PROVE  SaysNothingOf(c, Check(name, s)) /\ SaysNothingOf(c, Skip(name))
  <1> DEFINE f == Feeding({name}, s)
             n == Len(f)
             t == Closing({name}, f)
  <1>1. DOMAIN f = DOMAIN s /\ \A i \in DOMAIN s : f[i] = [s[i] EXCEPT !.feeds = @ \union {name}]
    BY DEF Feeding
  <1>2. \A i \in DOMAIN s : IsStep(s[i])
    BY DEF Part, Step
  <1>3. \A i \in DOMAIN s : IsStep(f[i]) /\ f[i].closes = s[i].closes /\ f[i].skips = s[i].skips
    BY <1>1, <1>2 DEF IsStep, StepFields
  <1>4. Part(r, f)
    BY FeedingPart
  <1>5. n \in DOMAIN s
    BY <1>1, <1>4, SeqDomain DEF Part
  <1> HIDE DEF f
  <1>6. DOMAIN t = DOMAIN s /\ \A i \in DOMAIN s : t[i] = IF i = n THEN [f[n] EXCEPT !.closes = @ \union {name}] ELSE f[i]
    BY <1>1, <1>5 DEF Closing
  <1>7. [f[n] EXCEPT !.closes = @ \union {name}].closes = f[n].closes \union {name}
        /\ [f[n] EXCEPT !.closes = @ \union {name}].skips = f[n].skips
    BY <1>3, <1>5 DEF IsStep, StepFields
  <1> HIDE DEF t
  <1>8. SaysNothingOf(c, t)
    <2> SUFFICES ASSUME NEW i \in DOMAIN s
                 PROVE  c \notin t[i].closes \union t[i].skips
      BY <1>6 DEF SaysNothingOf
    <2>1. c \notin s[i].closes /\ c \notin s[i].skips
      BY DEF SaysNothingOf
    <2>2. f[i].closes = s[i].closes /\ f[i].skips = s[i].skips
      BY <1>3
    <2>3. CASE i = n
      <3>1. t[i] = [f[n] EXCEPT !.closes = @ \union {name}]
        BY <1>6, <2>3
      <3>2. t[i].closes = f[n].closes \union {name} /\ t[i].skips = f[n].skips
        BY <1>7, <3>1
      <3> QED BY <2>1, <2>2, <2>3, <3>2
    <2>4. CASE i # n
      <3>1. t[i] = f[i]
        BY <1>6, <2>4
      <3> QED BY <2>1, <2>2, <3>1
    <2> QED BY <2>3, <2>4
  <1>9. SaysNothingOf(c, Skip(name))
    <2> DEFINE e == [Do("read", <<>>, <<>>) EXCEPT !.skips = {name}]
    <2>1. e.closes = {} /\ e.skips = {name}
      BY DEF Do
    <2> HIDE DEF e
    <2>2. SaysNothingOf(c, <<e>>)
      BY <2>1 DEF SaysNothingOf
    <2> QED BY <2>2 DEF Skip, e
  <1> QED BY <1>8, <1>9 DEF Check, t, f

LEMMA PlainSaysNothing ==
  ASSUME NEW c, NEW s, \A i \in DOMAIN s : s[i].closes = {} /\ s[i].skips = {}
  PROVE  SaysNothingOf(c, s)
  BY DEF SaysNothingOf

LEMMA EarlySaysNothing ==
  \A r, offers : SaysNothingOf("package-import", Early(r, offers))
  <1> TAKE r, offers
  <1> DEFINE c == "package-import"
  <1>1. SaysNothingOf(c, Fixtures(r))
    <2> DEFINE s == <<Do("fixtures", <<>>, Status(200))>>
    <2>1. Part(r, s)
      BY QuietStep, TuplePart
    <2>2. SaysNothingOf(c, s)
      BY PlainSaysNothing DEF Do
    <2> HIDE DEF s
    <2> QED BY <2>1, <2>2, CheckSaysNothing DEF Fixtures, s
  <1>2. SaysNothingOf(c, InvalidPackage(r))
    <2> DEFINE s == <<Do("import", Import(r, BadPackage), Status(400))>>
    <2>1. Part(r, s)
      BY ImportStep, TuplePart
    <2>2. SaysNothingOf(c, s)
      BY PlainSaysNothing DEF Do
    <2> HIDE DEF s
    <2> QED BY <2>1, <2>2, CheckSaysNothing DEF InvalidPackage, s
  <1>3. SaysNothingOf(c, StructureMatrix(r, offers))
    <2> DEFINE bad(i) == Do("import", Import(r, MalformedPackages[i]), Status(400))
               s == [i \in DOMAIN MalformedPackages |-> bad(i)]
    <2>1. Step(r, bad(1)) /\ Step(r, bad(2)) /\ Step(r, bad(3)) /\ Step(r, bad(4))
      BY ImportStep
    <2>2. DOMAIN MalformedPackages = 1 .. 4
      BY DEF MalformedPackages
    <2>3. \A i \in 1 .. 4 : s[i].closes = {} /\ s[i].skips = {}
      BY <2>2 DEF Do
    <2>4. SaysNothingOf(c, s)
      BY <2>2, <2>3, PlainSaysNothing
    <2> HIDE DEF bad
    <2>5. s = <<bad(1), bad(2), bad(3), bad(4)>>
      BY <2>2
    <2>6. Part(r, s)
      BY <2>1, <2>5, TuplePart
    <2> HIDE DEF s
    <2>7. SaysNothingOf(c, CheckIf("structure" \in offers, "package-structure-matrix", s))
      BY <2>4, <2>6, CheckSaysNothing DEF CheckIf
    <2> QED BY <2>7 DEF StructureMatrix, s, bad
  <1> HIDE DEF c
  <1> QED BY <1>1, <1>2, <1>3, FixturesPart, InvalidPackagePart, StructureMatrixPart, JoinedPart, JoinedSaysNothing DEF Early, c

LEMMA OneStepCheck ==
  ASSUME NEW name, NEW d, IsStep(d), d.feeds = {}, d.closes = {}, NEW s, s = <<d>>
  PROVE  \E c : /\ Check(name, s) = <<c>>
                /\ IsStep(c) /\ c.op = d.op /\ c.q = d.q /\ c.expect = d.expect /\ c.date = d.date
                /\ c.feeds = {name} /\ c.closes = {name} /\ c.skips = d.skips
                /\ c.needs = d.needs /\ c.tokens = d.tokens /\ c.inner = d.inner
  <1> DEFINE f == Feeding({name}, s)
             fd == [d EXCEPT !.feeds = @ \union {name}]
             cd == [fd EXCEPT !.closes = @ \union {name}]
             t == Closing({name}, f)
  <1>2. f = <<fd>>
    BY DEF Feeding
  <1>3. t = <<cd>>
    <2>1. Len(f) = 1 /\ f[1] = fd /\ DOMAIN f = {1}
      BY <1>2
    <2>2. t = [f EXCEPT ![1] = cd]
      BY <2>1 DEF Closing
    <2> HIDE DEF t, cd, fd, f
    <2>3. t = [i \in {1} |-> cd]
      BY <2>1, <2>2
    <2> QED BY <2>3
  <1>4. /\ IsStep(fd) /\ fd.op = d.op /\ fd.q = d.q /\ fd.expect = d.expect /\ fd.date = d.date /\ fd.feeds = {name}
        /\ fd.closes = {} /\ fd.skips = d.skips /\ fd.needs = d.needs /\ fd.tokens = d.tokens /\ fd.inner = d.inner
    BY DEF IsStep, StepFields
  <1> HIDE DEF fd
  <1>5. /\ IsStep(cd) /\ cd.op = d.op /\ cd.q = d.q /\ cd.expect = d.expect /\ cd.date = d.date /\ cd.feeds = {name}
        /\ cd.closes = {name} /\ cd.skips = d.skips /\ cd.needs = d.needs /\ cd.tokens = d.tokens /\ cd.inner = d.inner
    BY <1>4 DEF IsStep, StepFields
  <1> HIDE DEF cd, t, f
  <1>6. Check(name, s) = t
    BY DEF Check, t, f
  <1> QED BY <1>3, <1>5, <1>6

(* The one step of the check that imports the package. *)
IsImportStep(r, upload, c) ==
    /\ c.op = "import" /\ c.q = Import(r, upload) /\ c.expect = Status(200)
    /\ c.date = "free" /\ c.feeds = {"package-import"} /\ c.closes = {"package-import"}
    /\ c.skips = {} /\ c.needs = {} /\ c.tokens = {} /\ c.inner = FALSE
IsOneStep(s, c) == s = <<c>>

LEMMA ImportIsOneStep ==
  \A r, upload : \E c : IsOneStep(ImportPackage(r, upload), c) /\ IsImportStep(r, upload, c)
  <1> TAKE r, upload
  <1> DEFINE d == Do("import", Import(r, upload), Status(200))
             s == <<d>>
  <1>1. /\ IsStep(d) /\ d.op = "import" /\ d.q = Import(r, upload) /\ d.expect = Status(200) /\ d.date = "free"
        /\ d.feeds = {} /\ d.closes = {} /\ d.skips = {} /\ d.needs = {} /\ d.tokens = {} /\ d.inner = FALSE
    BY DEF IsStep, StepFields, Do
  <1>2a. ImportPackage(r, upload) = Check("package-import", s)
    BY DEF ImportPackage
  <1> HIDE DEF d
  <1>2. s = <<d>>
    OBVIOUS
  <1> HIDE DEF s
  <1>3. IsStep(d) /\ d.feeds = {} /\ d.closes = {}
    BY <1>1
  <1>4. PICK c :
           /\ Check("package-import", s) = <<c>>
           /\ IsStep(c) /\ c.op = d.op /\ c.q = d.q /\ c.expect = d.expect /\ c.date = d.date
           /\ c.feeds = {"package-import"} /\ c.closes = {"package-import"} /\ c.skips = d.skips
           /\ c.needs = d.needs /\ c.tokens = d.tokens /\ c.inner = d.inner
    BY <1>2, <1>3, OneStepCheck
  <1>5. ImportPackage(r, upload) = <<c>>
    BY <1>2a, <1>4
  <1>6. IsImportStep(r, upload, c)
    BY <1>1, <1>4 DEF IsImportStep
  <1> QED BY <1>5, <1>6 DEF IsOneStep

LEMMA ImportStepAt ==
  ASSUME NEW r, NEW offers, NEW upload
  PROVE  LET k == ImportPlace(r, offers)
             s == ScriptOf(r, offers, upload)
         IN  /\ k \in Nat \ {0} /\ k <= Len(s)
             /\ \A i \in 1 .. k - 1 : "package-import" \notin s[i].closes \union s[i].skips
             /\ IsImportStep(r, upload, s[k])
  <1> DEFINE early == Early(r, offers)
             import == ImportPackage(r, upload)
             s == ScriptOf(r, offers, upload)
             a == early \o import
             b == a \o InitialLaunch(r)
             c == b \o Inner(InnerChecks(r, offers))
             d == c \o Resume(r)
             e == d \o ResumeMatrix(r)
             f == e \o WaiveChecks(r)
             g == f \o AbandonChecks(r)
             h == g \o DurableMatrix(r, offers)
             j == h \o CrossSystem(r, offers)
  <1>1. Part(r, early) /\ Part(r, import)
    BY EarlyPart, ImportPackagePart
  <1>2. s = j \o InvalidOperations(r)
    BY DEF ScriptOf, Early, InnerChecks
  <1> DEFINE Kept(x, y) == Part(r, y) /\ Len(x) <= Len(y) /\ \A i \in 1 .. Len(x) : y[i] = x[i]
  <1>3. ASSUME NEW x, NEW y, NEW z, Kept(x, y), Part(r, x), Part(r, z)
        PROVE  Kept(x, y \o z)
    <2>1. Len(x) \in Nat /\ Len(y) \in Nat /\ Len(z) \in Nat
      BY <1>3 DEF Part, IsSeq
    <2>2. Part(r, y \o z) /\ Len(y \o z) = Len(y) + Len(z) /\ \A i \in 1 .. Len(y) : (y \o z)[i] = y[i]
      BY <1>3, JoinedPart, JoinedSeq DEF Part
    <2>3. \A i \in 1 .. Len(x) : (y \o z)[i] = x[i]
      BY <1>3, <2>1, <2>2
    <2> QED BY <1>3, <2>1, <2>2, <2>3
  <1> HIDE DEF Kept
  <1>4. Part(r, a) /\ Kept(a, a)
    <2>1. Part(r, a)
      BY <1>1, JoinedPart
    <2>2. Len(a) \in Nat
      BY <2>1 DEF Part, IsSeq
    <2> QED BY <2>1, <2>2 DEF Kept
  <1> HIDE DEF a
  <1>5. Kept(a, b)
    BY <1>3, <1>4, LaunchParts
  <1> HIDE DEF b
  <1>6. Kept(a, c)
    BY <1>3, <1>4, <1>5, InnerChecksPart, InnerPart
  <1> HIDE DEF c
  <1>7. Kept(a, d)
    BY <1>3, <1>4, <1>6, LaunchParts
  <1> HIDE DEF d
  <1>8. Kept(a, e)
    BY <1>3, <1>4, <1>7, ResumeMatrixPart
  <1> HIDE DEF e
  <1>9. Kept(a, f)
    BY <1>3, <1>4, <1>8, WaiveChecksPart
  <1> HIDE DEF f
  <1>10. Kept(a, g)
    BY <1>3, <1>4, <1>9, AbandonChecksPart
  <1> HIDE DEF g
  <1>11. Kept(a, h)
    BY <1>3, <1>4, <1>10, DurableMatrixPart
  <1> HIDE DEF h
  <1>12. Kept(a, j)
    BY <1>3, <1>4, <1>11, CrossSystemPart
  <1> HIDE DEF j
  <1>13. Kept(a, s)
    BY <1>2, <1>3, <1>4, <1>12, InvalidOperationsPart
  <1> HIDE DEF s
  <1>14. PICK c0 : IsOneStep(import, c0) /\ IsImportStep(r, upload, c0)
    BY ImportIsOneStep
  <1> HIDE DEF import, early
  <1>14a. import = <<c0>>
    BY <1>14 DEF IsOneStep
  <1>15. /\ Len(early) \in Nat /\ Len(early) >= 1 /\ DOMAIN early = 1 .. Len(early)
         /\ Len(import) = 1
         /\ Len(a) = Len(early) + 1 /\ a[Len(early) + 1] = import[1]
         /\ \A i \in 1 .. Len(early) : a[i] = early[i]
    <2>1. Len(import) = 1 /\ 1 \in 1 .. Len(import)
      BY <1>14a
    <2>2. /\ Len(early) \in Nat /\ Len(early) >= 1 /\ DOMAIN early = 1 .. Len(early)
          /\ IsSeq(early) /\ IsSeq(import)
      BY <1>1, SeqDomain DEF Part
    <2>3. /\ Len(a) = Len(early) + Len(import)
          /\ \A i \in 1 .. Len(early) : a[i] = early[i]
          /\ \A i \in 1 .. Len(import) : a[Len(early) + i] = import[i]
      BY <2>2, JoinedSeq DEF a
    <2> QED BY <2>1, <2>2, <2>3
  <1> DEFINE k == Len(early) + 1
  <1>16. k = ImportPlace(r, offers)
    BY DEF ImportPlace, early
  <1>17. IsImportStep(r, upload, import[1])
    BY <1>14, <1>14a
  <1>18. SaysNothingOf("package-import", early)
    BY EarlySaysNothing DEF early
  <1>19. k <= Len(s) /\ s[k] = import[1] /\ \A i \in 1 .. k - 1 : s[i] = early[i]
    BY <1>13, <1>15 DEF Kept
  <1>20. \A i \in 1 .. k - 1 : "package-import" \notin s[i].closes \union s[i].skips
    BY <1>15, <1>18, <1>19 DEF SaysNothingOf
  <1> QED BY <1>15, <1>16, <1>17, <1>19, <1>20 DEF s

(***************************************************************************)
(* What a run records                                                      *)
(***************************************************************************)
RunFields == {"stage", "upload", "pc", "launched", "held", "failing", "verdicts", "waivedAt", "reply"}

(* The verdict on the package's import: none before the step that imports  *)
(* it, and never "passed" after it when the package was refused.           *)
ImportJudged(run, k) ==
    /\ run.pc <= k => "package-import" \notin DOMAIN run.verdicts
    /\ run.pc > k /\ ~PackageAccepted(run.upload) =>
         "package-import" \in DOMAIN run.verdicts /\ run.verdicts["package-import"] = "failed"

RunOK(run, k) ==
    /\ DOMAIN run = RunFields
    /\ run.pc \in Nat \ {0}
    /\ IsFiniteSet(DOMAIN run.verdicts)
    /\ ImportJudged(run, k)
    /\ run.stage = "reported" => run.pc > k

RunsOK ==
    /\ advertised \in Adverts
    /\ runs = [r \in Runners |-> runs[r]]
    /\ \A r \in Runners : runs[r].upload \in Uploads /\ RunOK(runs[r], ImportPlace(r, advertised))

FailingAfter(run, step, reply) ==
    IF Meets(run, step, reply) THEN run.failing ELSE run.failing \union step.feeds

(* What both ways to go on leave of a run. *)
Advanced(run, t) ==
    /\ DOMAIN t = RunFields
    /\ t.stage = run.stage /\ t.upload = run.upload /\ t.pc = run.pc + 1

LEMMA AfterReplyFields ==
  ASSUME NEW run, DOMAIN run = RunFields, NEW step, NEW reply
  PROVE  /\ Advanced(run, AfterReply(run, step, reply))
         /\ AfterReply(run, step, reply).verdicts = Recorded(run, step, FailingAfter(run, step, reply))
  BY DEF AfterReply, Advanced, FailingAfter, RunFields

LEMMA WithoutCallFields ==
  ASSUME NEW run, DOMAIN run = RunFields, NEW step
  PROVE  /\ Advanced(run, WithoutCall(run, step))
         /\ \/ WithoutCall(run, step).verdicts = run.verdicts
            \/ \E failing : WithoutCall(run, step).verdicts = Recorded(run, step, failing)
  <1> DEFINE failing == IF step.inner /\ "initial" \notin run.launched THEN run.failing ELSE run.failing \union step.feeds
             verdicts == IF step.inner /\ "initial" \notin run.launched THEN run.verdicts ELSE Recorded(run, step, failing)
  <1>1. WithoutCall(run, step) = [run EXCEPT !.pc = @ + 1, !.failing = failing, !.verdicts = verdicts]
    BY DEF WithoutCall
  <1> QED BY <1>1 DEF Advanced, RunFields

(* One more step of a script, answered or passed over, keeps the verdict   *)
(* on the import right.                                                    *)
LEMMA AdvancedOK ==
  ASSUME NEW r, NEW offers, NEW run, NEW t, NEW script, script = ScriptOf(r, offers, run.upload),
         NEW k, k = ImportPlace(r, offers),
         RunOK(run, k), run.stage = "running", run.pc <= Len(script),
         Advanced(run, t),
         \/ /\ run.pc # k
            /\ t.verdicts = run.verdicts
         \/ \E failing : /\ t.verdicts = Recorded(run, script[run.pc], failing)
                         /\ run.pc = k /\ ~PackageAccepted(run.upload) => "package-import" \in failing
  PROVE  RunOK(t, k)
  <1> DEFINE name == "package-import"
             step == script[run.pc]
  <1>1. /\ k \in Nat \ {0} /\ k <= Len(script)
        /\ \A i \in 1 .. k - 1 : name \notin script[i].closes \union script[i].skips
        /\ IsImportStep(r, run.upload, script[k])
    BY ImportStepAt
  <1>2. /\ run.pc \in Nat \ {0} /\ t.pc = run.pc + 1 /\ t.stage = "running" /\ t.upload = run.upload
        /\ DOMAIN t = RunFields
    BY DEF RunOK, Advanced
  <1>3. IsFiniteSet(step.closes) /\ IsFiniteSet(step.skips)
    <2>1. Part(r, script)
      BY ScriptPart
    <2>2. DOMAIN script = 1 .. Len(script)
      BY <2>1, SeqDomain DEF Part
    <2> QED BY <1>2, <2>1, <2>2 DEF Part, Step
  <1>4. IsFiniteSet(DOMAIN run.verdicts) /\ ImportJudged(run, k)
    BY DEF RunOK
  <1> HIDE DEF step
  <1>5. CASE run.pc # k /\ t.verdicts = run.verdicts
    <2>1. ImportJudged(t, k)
      BY <1>1, <1>2, <1>4, <1>5 DEF ImportJudged
    <2> QED BY <1>2, <1>4, <1>5, <2>1 DEF RunOK
  <1>6. ASSUME NEW failing, t.verdicts = Recorded(run, step, failing),
               run.pc = k /\ ~PackageAccepted(run.upload) => name \in failing
        PROVE  RunOK(t, k)
    <2>1. /\ DOMAIN t.verdicts = DOMAIN run.verdicts \union step.closes \union step.skips
          /\ \A c \in DOMAIN run.verdicts : t.verdicts[c] = run.verdicts[c]
          /\ \A c \in step.closes \ DOMAIN run.verdicts :
                t.verdicts[c] = IF c \in failing THEN "failed" ELSE "passed"
      <3> DEFINE v == Recorded(run, step, failing)
      <3>1. /\ DOMAIN v = DOMAIN run.verdicts \union step.closes \union step.skips
            /\ \A c \in DOMAIN run.verdicts : v[c] = run.verdicts[c]
            /\ \A c \in step.closes \ DOMAIN run.verdicts : v[c] = IF c \in failing THEN "failed" ELSE "passed"
        BY DEF Recorded
      <3>2. t.verdicts = v
        BY <1>6
      <3> HIDE DEF v
      <3> QED BY <3>1, <3>2
    <2>2. IsFiniteSet(DOMAIN t.verdicts)
      <3>1. IsFiniteSet(DOMAIN run.verdicts \union step.closes)
        BY <1>3, <1>4, FS_Union
      <3>2. IsFiniteSet((DOMAIN run.verdicts \union step.closes) \union step.skips)
        BY <1>3, <3>1, FS_Union
      <3> QED BY <2>1, <3>2
    <2>3. ImportJudged(t, k)
      <3>1. CASE run.pc < k
        <4>1. name \notin step.closes \union step.skips
          BY <1>1, <1>2, <3>1 DEF step
        <4>2. name \notin DOMAIN run.verdicts
          BY <1>1, <1>2, <1>4, <3>1 DEF ImportJudged
        <4>3. t.pc <= k
          BY <1>1, <1>2, <3>1
        <4> QED BY <1>1, <1>2, <2>1, <4>1, <4>2, <4>3 DEF ImportJudged
      <3>2. CASE run.pc = k
        <4>1. step.closes = {name}
          BY <1>1, <3>2 DEF step, IsImportStep
        <4>2. name \notin DOMAIN run.verdicts
          BY <1>1, <1>2, <1>4, <3>2 DEF ImportJudged
        <4>3. t.verdicts[name] = IF name \in failing THEN "failed" ELSE "passed"
          BY <2>1, <4>1, <4>2
        <4>4. name \in DOMAIN t.verdicts
          BY <2>1, <4>1
        <4>5. t.pc > k
          BY <1>1, <1>2, <3>2
        <4> QED BY <1>1, <1>2, <1>6, <3>2, <4>3, <4>4, <4>5 DEF ImportJudged
      <3>3. CASE run.pc > k
        <4>1. ~PackageAccepted(t.upload) => name \in DOMAIN run.verdicts /\ run.verdicts[name] = "failed"
          BY <1>2, <1>4, <3>3 DEF ImportJudged
        <4>2. t.pc > k
          BY <1>1, <1>2, <3>3
        <4> QED BY <1>1, <1>2, <2>1, <4>1, <4>2 DEF ImportJudged
      <3> QED BY <1>1, <1>2, <3>1, <3>2, <3>3
    <2> QED BY <1>2, <2>2, <2>3 DEF RunOK
  <1>7. \/ run.pc # k /\ t.verdicts = run.verdicts
        \/ \E failing : /\ t.verdicts = Recorded(run, step, failing)
                        /\ run.pc = k /\ ~PackageAccepted(run.upload) => name \in failing
    BY DEF step
  <1> QED BY <1>5, <1>6, <1>7

(* The import step needs nothing, so it is never passed over. *)
LEMMA ImportIsCalled ==
  ASSUME NEW r, NEW upload, NEW step, IsImportStep(r, upload, step), NEW run
  PROVE  CanCall(run, step) /\ step.op # "read"
  BY DEF IsImportStep, CanCall

(* A refused package fails the import step. *)
LEMMA RefusedImportFails ==
  ASSUME NEW r, NEW upload, ~PackageAccepted(upload), NEW step, IsImportStep(r, upload, step), NEW run
  PROVE  "package-import" \in FailingAfter(run, step, Handled(step).reply)
  <1> DEFINE reply == Handled(step).reply
  <1>1. Handled(step) = PackageImport(mem, Import(r, upload))
    BY DEF Handled, IsImportStep
  <1>2. Import(r, upload).upload = upload
    BY DEF Import
  <1>3. Handled(step) = Refuse(400, mem, <<>>)
    BY <1>1, <1>2 DEF PackageImport
  <1>4. reply = [status |-> 400]
    BY <1>3 DEF Refuse
  <1> HIDE DEF reply
  <1>5. Seen(reply) = reply
    BY <1>4 DEF Seen
  <1>6. step.expect = [status |-> 200] /\ step.feeds = {"package-import"}
    BY DEF IsImportStep, Status
  <1>7. ~Meets(run, step, reply)
    <2>1. "status" \in DOMAIN step.expect /\ step.expect["status"] = 200
      BY <1>6
    <2>2. Seen(reply)["status"] = 400
      BY <1>4, <1>5
    <2> QED BY <2>1, <2>2 DEF Meets
  <1> QED BY <1>6, <1>7 DEF FailingAfter, reply

(* At most one run moves, and the others are where they were. *)
LEMMA OneRunMoves ==
  ASSUME RunsOK, NEW r \in Runners, NEW t, runs' = [runs EXCEPT ![r] = t], UNCHANGED advertised,
         t.upload = runs[r].upload, RunOK(t, ImportPlace(r, advertised))
  PROVE  RunsOK'
  <1>1. runs = [x \in Runners |-> runs[x]]
    BY DEF RunsOK
  <1>2. /\ runs' = [x \in Runners |-> runs'[x]]
        /\ runs'[r] = t
        /\ \A x \in Runners \ {r} : runs'[x] = runs[x]
    BY <1>1
  <1>3. ASSUME NEW x \in Runners
        PROVE  runs'[x].upload \in Uploads /\ RunOK(runs'[x], ImportPlace(x, advertised))
    BY <1>2 DEF RunsOK
  <1> QED BY <1>2, <1>3 DEF RunsOK

LEMMA RunsInit ==
  RunnerInit => RunsOK
  <1> SUFFICES ASSUME RunnerInit PROVE RunsOK
    OBVIOUS
  <1>1. PICK f \in [Runners -> Uploads] : runs = [r \in Runners |-> NewRun(f[r])]
    BY DEF RunnerInit
  <1>2. advertised \in Adverts
    BY DEF RunnerInit
  <1>3. ASSUME NEW r \in Runners
        PROVE  runs[r].upload \in Uploads /\ RunOK(runs[r], ImportPlace(r, advertised))
    <2> DEFINE t == NewRun(f[r])
               k == ImportPlace(r, advertised)
    <2>1. runs[r] = t /\ f[r] \in Uploads
      BY <1>1
    <2>2. /\ DOMAIN t = RunFields /\ t.pc = 1 /\ t.verdicts = <<>> /\ t.upload = f[r] /\ t.stage = "preflight"
      BY DEF NewRun, RunFields
    <2>3. k \in Nat \ {0}
      BY ImportStepAt
    <2>4. DOMAIN t.verdicts = {}
      BY <2>2
    <2>5. IsFiniteSet(DOMAIN t.verdicts)
      BY <2>4, FS_EmptySet
    <2> HIDE DEF t, k
    <2>6. ImportJudged(t, k)
      BY <2>2, <2>3, <2>4 DEF ImportJudged
    <2>7. RunOK(t, k)
      BY <2>2, <2>5, <2>6 DEF RunOK
    <2> QED BY <2>1, <2>2, <2>7 DEF k
  <1>4. runs = [r \in Runners |-> runs[r]]
    BY <1>1
  <1> QED BY <1>2, <1>3, <1>4 DEF RunsOK

(* The script of a run that the invariant holds of. *)
LEMMA ScriptOfRun ==
  ASSUME RunsOK, NEW r \in Runners
  PROVE  Script(r) = ScriptOf(r, advertised, runs[r].upload)
  <1>1. advertised \in Adverts /\ runs[r].upload \in Uploads
    BY DEF RunsOK
  <1> QED BY <1>1 DEF Script, Scripts

LEMMA RunsPreserved ==
  RunsOK /\ [RunnerNext]_runnerVars => RunsOK'
  <1> SUFFICES ASSUME RunsOK, [RunnerNext]_runnerVars
               PROVE  RunsOK'
    OBVIOUS
  <1>1. CASE UNCHANGED <<runs, advertised>>
    BY <1>1 DEF RunsOK
  <1>2. ASSUME NEW r \in Runners, Preflight(r)
        PROVE  RunsOK'
    <2> DEFINE stage == IF RequiredOperations \subseteq advertised THEN "running" ELSE "refused"
               run == runs[r]
               t == [run EXCEPT !.stage = stage]
               k == ImportPlace(r, advertised)
    <2>1. RunOK(run, k)
      BY DEF RunsOK
    <2>2. stage # "reported"
      OBVIOUS
    <2>3. runs' = [runs EXCEPT ![r] = t] /\ UNCHANGED advertised
      BY <1>2 DEF Preflight, RunsOK
    <2> HIDE DEF stage, run, k
    <2>4. /\ DOMAIN t = RunFields /\ t.stage = stage /\ t.pc = run.pc /\ t.verdicts = run.verdicts
          /\ t.upload = run.upload
      BY <2>1 DEF RunOK, RunFields
    <2> HIDE DEF t
    <2>5. RunOK(t, k)
      BY <2>1, <2>2, <2>4 DEF RunOK, ImportJudged
    <2> QED BY <2>3, <2>4, <2>5, OneRunMoves DEF run, k
  <1>3. ASSUME NEW r \in Runners, Finish(r)
        PROVE  RunsOK'
    <2> DEFINE run == runs[r]
               t == [run EXCEPT !.stage = "reported"]
               k == ImportPlace(r, advertised)
               script == Script(r)
    <2>1. RunOK(run, k)
      BY DEF RunsOK
    <2>2. runs' = [runs EXCEPT ![r] = t] /\ UNCHANGED advertised /\ run.pc > Len(script)
      BY <1>3 DEF Finish, RunsOK
    <2>3. k \in Nat \ {0} /\ k <= Len(script) /\ Len(script) \in Nat
      <3>1. script = ScriptOf(r, advertised, runs[r].upload)
        BY ScriptOfRun
      <3>2. Len(ScriptOf(r, advertised, runs[r].upload)) \in Nat
        BY ScriptPart DEF Part, IsSeq
      <3> HIDE DEF script, k
      <3>3. k \in Nat \ {0} /\ k <= Len(ScriptOf(r, advertised, runs[r].upload))
        BY ImportStepAt DEF k
      <3> QED BY <3>1, <3>2, <3>3
    <2> HIDE DEF run, k, script
    <2>4. /\ DOMAIN t = RunFields /\ t.pc = run.pc /\ t.verdicts = run.verdicts
          /\ t.upload = run.upload
      BY <2>1 DEF RunOK, RunFields
    <2> HIDE DEF t
    <2>5. run.pc > k
      BY <2>1, <2>2, <2>3 DEF RunOK
    <2>6. RunOK(t, k)
      BY <2>1, <2>4, <2>5 DEF RunOK, ImportJudged
    <2> QED BY <2>2, <2>4, <2>6, OneRunMoves DEF run, k
  <1>4. ASSUME NEW r \in Runners, CutOff(r)
        PROVE  RunsOK'
    <2> DEFINE run == runs[r]
               n == NewRun(run.upload)
               t == [n EXCEPT !.stage = "rejected"]
               k == ImportPlace(r, advertised)
    <2>1. runs' = [runs EXCEPT ![r] = t] /\ UNCHANGED advertised
      BY <1>4 DEF CutOff, RunsOK
    <2>2. DOMAIN n = RunFields /\ n.pc = 1 /\ n.verdicts = <<>> /\ n.upload = run.upload
      BY DEF NewRun, RunFields
    <2>3. k \in Nat \ {0}
      BY ImportStepAt
    <2> HIDE DEF run, k, n
    <2>4. DOMAIN t = RunFields /\ t.pc = 1 /\ t.verdicts = <<>> /\ t.upload = run.upload /\ t.stage = "rejected"
      BY <2>2 DEF RunFields
    <2> HIDE DEF t
    <2>5. DOMAIN t.verdicts = {}
      BY <2>4
    <2>6. IsFiniteSet(DOMAIN t.verdicts)
      BY <2>5, FS_EmptySet
    <2>7. RunOK(t, k)
      BY <2>3, <2>4, <2>5, <2>6 DEF RunOK, ImportJudged
    <2> QED BY <2>1, <2>4, <2>7, OneRunMoves DEF run, k
  <1>5. ASSUME NEW r \in Runners, Call(r) \/ Pass(r)
        PROVE  RunsOK'
    <2> DEFINE run == runs[r]
               k == ImportPlace(r, advertised)
               script == ScriptOf(r, advertised, run.upload)
               step == script[run.pc]
               answered == AfterReply(run, step, Handled(step).reply)
               reread == AfterReply(run, step, run.reply)
               skipped == WithoutCall(run, step)
    <2>1. RunOK(run, k)
      BY DEF RunsOK
    <2>2. Script(r) = script
      BY ScriptOfRun
    <2>3. run.stage = "running" /\ run.pc <= Len(script) /\ UNCHANGED advertised
      BY <1>5, <2>2 DEF Call, AtCall, Pass
    <2>4. Current(r) = step
      BY <2>2 DEF Current
    <2>5. k \in Nat \ {0} /\ IsImportStep(r, run.upload, script[k])
      BY ImportStepAt
    <2>6. PICK t : /\ runs' = [runs EXCEPT ![r] = t]
                   /\ \/ t = answered
                      \/ t = reread /\ run.pc # k
                      \/ t = skipped /\ run.pc # k
      <3>1. CASE Call(r)
        <4>1. runs' = [runs EXCEPT ![r] = answered]
          BY <2>4, <3>1 DEF Call, RunsOK
        <4> QED BY <4>1
      <3>2. CASE Pass(r)
        <4>1. ~AtCall(r)
          BY <3>2 DEF Pass
        <4>2. run.pc # k
          <5>1. SUFFICES ASSUME run.pc = k PROVE FALSE
            OBVIOUS
          <5>2. IsImportStep(r, run.upload, step)
            BY <2>5, <5>1
          <5>3. CanCall(run, step) /\ step.op # "read"
            BY <5>2, ImportIsCalled
          <5> QED BY <2>2, <2>3, <2>4, <4>1, <5>3 DEF AtCall
        <4>3. runs' = [runs EXCEPT ![r] = IF CanCall(run, step) THEN reread ELSE skipped]
          BY <2>4, <3>2 DEF Pass, RunsOK
        <4> HIDE DEF run, step, script, k, reread, skipped
        <4> QED BY <4>2, <4>3
      <3> QED BY <1>5, <3>1, <3>2
    <2>7. DOMAIN run = RunFields
      BY <2>1 DEF RunOK
    <2>8. /\ Advanced(run, t)
          /\ \/ run.pc # k /\ t.verdicts = run.verdicts
             \/ \E failing : /\ t.verdicts = Recorded(run, step, failing)
                             /\ run.pc = k /\ ~PackageAccepted(run.upload) => "package-import" \in failing
      <3>1. CASE t = answered
        <4> DEFINE failing == FailingAfter(run, step, Handled(step).reply)
        <4>1. run.pc = k /\ ~PackageAccepted(run.upload) => "package-import" \in failing
          BY <2>5, RefusedImportFails
        <4>2. Advanced(run, answered) /\ answered.verdicts = Recorded(run, step, failing)
          BY <2>7, AfterReplyFields
        <4> HIDE DEF answered, failing, step, run, k
        <4> QED BY <3>1, <4>1, <4>2
      <3>2. CASE t = reread /\ run.pc # k
        <4> DEFINE failing == FailingAfter(run, step, run.reply)
        <4>1. Advanced(run, reread) /\ reread.verdicts = Recorded(run, step, failing)
          BY <2>7, AfterReplyFields
        <4> HIDE DEF reread, failing, step, run, k
        <4> QED BY <3>2, <4>1
      <3>3. CASE t = skipped /\ run.pc # k
        <4>1. /\ Advanced(run, skipped)
              /\ \/ skipped.verdicts = run.verdicts
                 \/ \E failing : skipped.verdicts = Recorded(run, step, failing)
          BY <2>7, WithoutCallFields
        <4> HIDE DEF skipped, step, run, k
        <4> QED BY <3>3, <4>1
      <3> QED BY <2>6, <3>1, <3>2, <3>3
    <2>9. RunOK(t, k)
      <3> HIDE DEF k, script, run
      <3> QED BY <2>1, <2>3, <2>8, AdvancedOK DEF k, script
    <2>10. t.upload = run.upload
      BY <2>8 DEF Advanced
    <2> QED BY <2>3, <2>6, <2>9, <2>10, OneRunMoves
  <1> QED BY <1>1, <1>2, <1>3, <1>4, <1>5 DEF RunnerNext, RunnerStep, Restart, runnerVars

LEMMA RunsJudged ==
  RunsOK => NoEmptyPass
  <1> SUFFICES ASSUME RunsOK, NEW r \in Runners, runs[r].stage = "reported", ~PackageAccepted(runs[r].upload)
               PROVE  Summary(runs[r]).status = "failed"
    BY DEF NoEmptyPass
  <1> DEFINE verdicts == runs[r].verdicts
             S == {c \in DOMAIN verdicts : verdicts[c] = "failed"}
  <1>1. RunOK(runs[r], ImportPlace(r, advertised))
    BY DEF RunsOK
  <1>2. IsFiniteSet(DOMAIN verdicts) /\ "package-import" \in S
    BY <1>1 DEF RunOK, ImportJudged
  <1>3. S \subseteq DOMAIN verdicts
    OBVIOUS
  <1>4. IsFiniteSet(S)
    BY <1>2, <1>3, FS_Subset
  <1>5. Cardinality(S) # 0
    BY <1>2, <1>4, FS_EmptySet
  <1>6. Count(verdicts, "failed") = Cardinality(S)
    BY DEF Count
  <1> HIDE DEF S
  <1> QED BY <1>5, <1>6 DEF Summary

(* A run whose package the adapter refuses never reports that the adapter  *)
(* passed: whatever the other runs do, wherever a run is cut off, and      *)
(* however many checks its script leaves out, the verdict on the import is *)
(* recorded before the report and is "failed".                             *)
THEOREM RefusedPackageNeverPasses == RunnerSpec => []NoEmptyPass
  <1>1. RunnerInit => RunsOK
    BY RunsInit
  <1>2. RunsOK /\ [RunnerNext]_runnerVars => RunsOK'
    BY RunsPreserved
  <1>3. RunsOK => NoEmptyPass
    BY RunsJudged
  <1> QED BY <1>1, <1>2, <1>3, PTL DEF RunnerSpec

(***************************************************************************)
(* A run touches nothing but what its own calls name                       *)
(***************************************************************************)

(* The ids of the runs' packages. *)
OwnIds == {PackageId[r] : r \in Runners}

(* The adapter between two calls of any run. *)
AdapterOK ==
    /\ mem \in States
    /\ disk \in [readable : BOOLEAN, snapshot : States]
    /\ mem = Load(disk)
    /\ now = 0
    /\ issued = [s \in Sessions |-> 0]
    /\ rounds = [s \in Sessions |-> 0]
    /\ mem.packages \subseteq OwnIds
    /\ Explicit \notin mem.abandoned

(* From st to t only what run r can name has changed. *)
Within(r, st, t) ==
    /\ t.packages \in {st.packages, st.packages \union {PackageId[r]}}
    /\ st.registrations \subseteq t.registrations /\ t.registrations \subseteq st.registrations \union Reach(r)
    /\ st.abandoned \subseteq t.abandoned /\ t.abandoned \subseteq st.abandoned \union OwnSlots(r)
    /\ \A s \in Sessions \ Reach(r) : /\ t.launches[s] = st.launches[s]
                                      /\ t.access[s] = st.access[s]
                                      /\ t.replay[s] = st.replay[s]
                                      /\ t.statements[s] = st.statements[s]
    /\ \A g \in Registrations \ OwnSlots(r) : t.waived[g] = st.waived[g]

(* A result of which every snapshot is within r's reach. *)
Confined(r, h) == Whole(h, mem) /\ \A t \in Written(h) : t \in States /\ Within(r, mem, t)

LEMMA ReachIsKnown ==
  ASSUME NEW r \in Runners
  PROVE  /\ OwnSlots(r) \subseteq Reach(r) /\ Reach(r) \subseteq Sessions
         /\ Sessions = Registrations
         /\ PackageId[r] \in Packages /\ PackageId[r] \in OwnIds /\ r \in RequestIds
         /\ NoSession \notin Sessions /\ Missing \notin Sessions
  BY NamesAssumption, NamesApart, SessionsAssumption DEF OwnSlots, Reach, RunnerSessions, OwnIds

LEMMA WithinSelf ==
  ASSUME NEW r, NEW st
  PROVE  Within(r, st, st)
  BY DEF Within

LEMMA NothingWrittenConfined ==
  ASSUME NEW r, NEW h, Gives(h, mem, {})
  PROVE  Confined(r, h)
  BY DEF Gives, Confined

LEMMA ReadOnlyConfined ==
  ASSUME NEW r, mem \in States, NEW h, Gives(h, mem, {mem})
  PROVE  Confined(r, h)
  BY WithinSelf DEF Gives, Confined

LEMMA OneWrittenConfined ==
  ASSUME NEW r, NEW t \in States, Within(r, mem, t), NEW h, Gives(h, mem, {t})
  PROVE  Confined(r, h)
  BY DEF Gives, Confined

LEMMA ImportConfined ==
  ASSUME AdapterOK, NEW r \in Runners, NEW q, q.package = PackageId[r]
  PROVE  Confined(r, PackageImport(mem, q))
  <1> DEFINE h     == PackageImport(mem, q)
             known == mem.packages \union {PackageId[r]}
             saved == [mem EXCEPT !.packages = @ \union {PackageId[r]}]
  <1>1. mem \in States /\ known \in SUBSET Packages
    BY FieldTypes, ReachIsKnown DEF AdapterOK
  <1>2. saved = [mem EXCEPT !.packages = known] /\ saved \in States
    BY <1>1, FieldUpdates
  <1>3. Within(r, mem, saved)
    BY <1>1 DEF Within, States
  <1>4. h = IF PackageAccepted(q.upload) THEN Accept(Ok, saved, <<saved>>) ELSE Refuse(400, mem, <<>>)
    BY DEF PackageImport
  <1> HIDE DEF saved, h
  <1>5. Gives(h, mem, {}) \/ Gives(h, mem, {saved})
    BY <1>1, <1>2, <1>4, RefusedUnread, AcceptedOnce, ZenonT(40)
  <1>6. Confined(r, h)
    BY <1>2, <1>3, <1>5, NothingWrittenConfined, OneWrittenConfined, Zenon
  <1> QED BY <1>6 DEF h

LEMMA LaunchConfined ==
  ASSUME AdapterOK, NEW r \in Runners,
         NEW q, q.session \in Reach(r), q.registration \in Reach(r), q.moveOn \in AllMoveOns
  PROVE  Confined(r, LaunchCreate(mem, q, now))
  <1> DEFINE h      == LaunchCreate(mem, q, now)
             launch == [registration |-> q.registration, moveOn |-> q.moveOn, round |-> rounds[q.session] + 1]
             saved  == SaveLaunch(mem, q.session, launch, now)
             body   == [status |-> 200, session |-> q.session, registration |-> q.registration,
                        moveOn |-> q.moveOn, waivedAt |-> mem.waived[q.registration]]
  <1>1. mem \in States /\ now \in Times /\ q.session \in Sessions /\ q.registration \in Registrations
    BY ReachIsKnown, TimeAssumption DEF AdapterOK, Times
  <1>2. rounds[q.session] + 1 \in Nat \ {0}
    BY <1>1 DEF AdapterOK
  <1>3. launch \in LaunchRecords
    BY <1>1, <1>2, RegistrationsAssumption DEF LaunchRecords, Launches, NoLaunch
  <1>4. launch.registration = q.registration
    OBVIOUS
  <1>5. h = IF LaunchStatus(mem, q) = 200 THEN Accept(body, saved, <<saved>>)
            ELSE Refuse(LaunchStatus(mem, q), mem, <<>>)
    BY DEF LaunchCreate
  <1> HIDE DEF launch, body
  <1>6. saved \in States
    BY <1>1, <1>3, SaveLaunchType
  <1>7. Within(r, mem, saved)
    <2>1. /\ saved.packages = mem.packages
          /\ saved.registrations = mem.registrations \union {q.registration}
          /\ saved.abandoned = mem.abandoned
          /\ saved.waived = mem.waived
      BY <1>1, <1>4 DEF SaveLaunch, States
    <2>2. \A x \in Sessions \ {q.session} : /\ saved.launches[x] = mem.launches[x]
                                            /\ saved.statements[x] = mem.statements[x]
                                            /\ saved.replay[x] = mem.replay[x]
                                            /\ saved.access[x] = mem.access[x]
      BY <1>1, SaveLaunchFields
    <2> HIDE DEF saved
    <2> QED BY <2>1, <2>2 DEF Within
  <1> HIDE DEF saved, h
  <1>8. Gives(h, mem, {}) \/ Gives(h, mem, {saved})
    BY <1>1, <1>5, <1>6, RefusedUnread, AcceptedOnce, Zenon
  <1>9. Confined(r, h)
    BY <1>6, <1>7, <1>8, NothingWrittenConfined, OneWrittenConfined, Zenon
  <1> QED BY <1>9 DEF h

LEMMA FetchConfined ==
  ASSUME AdapterOK, NEW r \in Runners, NEW q, q.session \in OwnSlots(r) \union {NoSession, Missing}
  PROVE  Confined(r, Fetch(mem, q, now))
  <1> DEFINE h     == Fetch(mem, q, now)
             token == Token(q.session, issued[q.session] + 1)
             saved == ConsumeFetchToken(mem, q.session, token, now)
  <1>1. mem \in States /\ now \in Times
    BY TimeAssumption DEF AdapterOK, Times
  <1>2. \/ \E code : h = Refuse(code, mem, <<>>)
        \/ Launched(mem, q.session) /\ h = Accept([status |-> 200, token |-> token], saved, <<saved>>)
    BY DEF Fetch
  <1> HIDE DEF h
  <1>3. CASE \E code : h = Refuse(code, mem, <<>>)
    <2>1. Gives(h, mem, {})
      BY <1>1, <1>3, RefusedUnread, Zenon
    <2> QED BY <2>1, NothingWrittenConfined DEF h
  <1>4. CASE Launched(mem, q.session) /\ h = Accept([status |-> 200, token |-> token], saved, <<saved>>)
    <2>1. q.session \in Sessions /\ q.session \in OwnSlots(r)
      BY <1>4, ReachIsKnown DEF Launched
    <2>2. issued[q.session] + 1 \in Nat \ {0}
      BY <2>1 DEF AdapterOK
    <2>3. token \in TokenValues
      BY <2>1, <2>2 DEF Token, TokenValues
    <2> HIDE DEF token
    <2>4. saved \in States
      BY <1>1, <2>1, <2>3, ConsumeFetchTokenType
    <2>5. Within(r, mem, saved)
      <3>1. /\ saved.packages = mem.packages /\ saved.registrations = mem.registrations
            /\ saved.abandoned = mem.abandoned /\ saved.waived = mem.waived
            /\ saved.launches = mem.launches /\ saved.statements = mem.statements
        BY <1>1 DEF ConsumeFetchToken, States
      <3>2. \A x \in Sessions \ {q.session} : saved.replay[x] = mem.replay[x] /\ saved.access[x] = mem.access[x]
        BY <1>1, <2>1, ConsumeFetchTokenFields
      <3> HIDE DEF saved
      <3> QED BY <2>1, <3>1, <3>2, ReachIsKnown DEF Within
    <2> HIDE DEF saved
    <2>6. Gives(h, mem, {saved})
      BY <1>4, <2>4, AcceptedOnce, Zenon
    <2> QED BY <2>4, <2>5, <2>6, OneWrittenConfined DEF h
  <1> QED BY <1>2, <1>3, <1>4

LEMMA RecordedReplayWithin ==
  ASSUME mem \in States, NEW r \in Runners, NEW s \in OwnSlots(r), NEW id \in {NoId, r},
         NEW noted, noted = RecordReplay(mem, s, id)
  PROVE  noted \in States /\ Within(r, mem, noted)
  <1>1. s \in Sessions /\ s \in Reach(r) /\ id \in RequestIds \union {NoId}
    BY ReachIsKnown
  <1>2. noted \in States
    BY <1>1, RecordReplayType
  <1>3. CASE id = NoId
    BY <1>2, <1>3, WithinSelf DEF RecordReplay
  <1>4. CASE id # NoId
    <2>1. noted = [mem EXCEPT !.replay[s] = @ \union {id}]
      BY <1>4 DEF RecordReplay
    <2>2. /\ noted.packages = mem.packages /\ noted.registrations = mem.registrations
          /\ noted.abandoned = mem.abandoned /\ noted.waived = mem.waived
          /\ noted.launches = mem.launches /\ noted.statements = mem.statements /\ noted.access = mem.access
          /\ \A x \in Sessions \ {s} : noted.replay[x] = mem.replay[x]
      BY <1>1, <2>1, FieldTypes DEF States
    <2> QED BY <1>1, <1>2, <2>2 DEF Within
  <1> QED BY <1>3, <1>4

LEMMA AppendedWithin ==
  ASSUME mem \in States, NEW r \in Runners, NEW s \in OwnSlots(r), NEW v \in Verbs,
         NEW noted \in States, Within(r, mem, noted),
         NEW logged, logged = AppendStatement(noted, s, v)
  PROVE  logged \in States /\ Within(r, mem, logged)
  <1>1. s \in Sessions /\ s \in Reach(r)
    BY ReachIsKnown
  <1>2. logged \in States
    BY <1>1, AppendStatementType
  <1>3. /\ logged.packages = noted.packages /\ logged.registrations = noted.registrations
        /\ logged.abandoned = noted.abandoned /\ logged.waived = noted.waived
        /\ logged.launches = noted.launches /\ logged.replay = noted.replay /\ logged.access = noted.access
        /\ \A x \in Sessions \ {s} : logged.statements[x] = noted.statements[x]
    BY <1>1, FieldTypes DEF AppendStatement, States
  <1> QED BY <1>1, <1>2, <1>3 DEF Within

LEMMA DataConfined ==
  ASSUME AdapterOK, NEW r \in Runners, NEW q, q.session \in OwnSlots(r), q.id = NoId
  PROVE  Confined(r, LaunchData(mem, q, now))
  <1> DEFINE h == LaunchData(mem, q, now)
  <1>1. mem \in States
    BY DEF AdapterOK
  <1>2. RecordReplay(mem, q.session, q.id) = mem
    BY DEF RecordReplay
  <1>3. \/ \E code : h = Refuse(code, mem, <<>>)
        \/ \E code : h = Refuse(code, mem, <<mem>>)
        \/ \E body : h = Accept(body, mem, <<mem, mem>>)
    BY <1>2 DEF LaunchData
  <1> HIDE DEF h
  <1>4. Gives(h, mem, {}) \/ Gives(h, mem, {mem}) \/ Gives(h, mem, {mem, mem})
    <2>1. CASE \E code : h = Refuse(code, mem, <<>>)
      BY <1>1, <2>1, RefusedUnread, Zenon
    <2>2. CASE \E code : h = Refuse(code, mem, <<mem>>)
      BY <1>1, <2>2, RefusedOnce, Zenon
    <2>3. CASE \E body : h = Accept(body, mem, <<mem, mem>>)
      BY <1>1, <2>3, AcceptedTwice, Zenon
    <2> QED BY <1>3, <2>1, <2>2, <2>3
  <1>5. Gives(h, mem, {}) \/ Gives(h, mem, {mem})
    BY <1>4 DEF Gives
  <1>6. Confined(r, h)
    BY <1>1, <1>5, NothingWrittenConfined, ReadOnlyConfined, Zenon
  <1> QED BY <1>6 DEF h

LEMMA PostConfined ==
  ASSUME AdapterOK, NEW r \in Runners, NEW q, q.session \in OwnSlots(r), q.id \in {NoId, r}, q.verb \in Verbs
  PROVE  Confined(r, PostStatement(mem, q, now))
  <1> DEFINE h == PostStatement(mem, q, now)
             noted == RecordReplay(mem, q.session, q.id)
             logged == AppendStatement(noted, q.session, q.verb)
  <1>1. mem \in States
    BY DEF AdapterOK
  <1>2. noted \in States /\ Within(r, mem, noted)
    BY <1>1, RecordedReplayWithin
  <1>3. \/ \E code : h = Refuse(code, mem, <<>>)
        \/ \E code : h = Refuse(code, mem, <<mem>>)
        \/ h = Refuse(409, noted, <<mem, noted>>)
        \/ h = Accept(Ok, logged, <<mem, noted, logged>>)
    BY DEF PostStatement
  <1> HIDE DEF h, noted
  <1>4. logged \in States /\ Within(r, mem, logged)
    BY <1>1, <1>2, AppendedWithin
  <1> HIDE DEF logged
  <1>5. Gives(h, mem, {}) \/ Gives(h, mem, {mem}) \/ Gives(h, mem, {mem, noted}) \/ Gives(h, mem, {mem, noted, logged})
    <2>1. CASE \E code : h = Refuse(code, mem, <<>>)
      BY <1>1, <2>1, RefusedUnread, Zenon
    <2>2. CASE \E code : h = Refuse(code, mem, <<mem>>)
      BY <1>1, <2>2, RefusedOnce, Zenon
    <2>3. CASE h = Refuse(409, noted, <<mem, noted>>)
      BY <1>1, <1>2, <2>3, RefusedTwice, Zenon
    <2>4. CASE h = Accept(Ok, logged, <<mem, noted, logged>>)
      BY <1>1, <1>2, <1>4, <2>4, AcceptedThrice, Zenon
    <2> QED BY <1>3, <2>1, <2>2, <2>3, <2>4
  <1>6. Whole(h, mem) /\ Written(h) \subseteq {mem, noted, logged}
    BY <1>5 DEF Gives
  <1> QED BY <1>1, <1>2, <1>4, <1>6, WithinSelf DEF Confined, h

LEMMA GetConfined ==
  ASSUME AdapterOK, NEW r, NEW q
  PROVE  Confined(r, GetStatements(mem, q, now))
  <1> DEFINE h == GetStatements(mem, q, now)
  <1>1. mem \in States
    BY DEF AdapterOK
  <1>2. \/ \E code : h = Refuse(code, mem, <<>>)
        \/ \E body : h = Accept(body, mem, <<mem>>)
    BY DEF GetStatements
  <1> HIDE DEF h
  <1>3. Gives(h, mem, {}) \/ Gives(h, mem, {mem})
    BY <1>1, <1>2, RefusedUnread, AcceptedOnce, Zenon
  <1>4. Confined(r, h)
    BY <1>1, <1>3, NothingWrittenConfined, ReadOnlyConfined, Zenon
  <1> QED BY <1>4 DEF h

LEMMA WaiveConfined ==
  ASSUME AdapterOK, NEW r \in Runners, NEW q, q.registration \in OwnSlots(r) \union {NoRegistration, Missing}
  PROVE  Confined(r, WaiveRegistration(mem, q, now))
  <1> DEFINE h == WaiveRegistration(mem, q, now)
             saved == Waive(mem, q.registration, now)
  <1>1. mem \in States /\ now \in Times
    BY TimeAssumption DEF AdapterOK, Times
  <1>2. \/ \E code : h = Refuse(code, mem, <<>>)
        \/ \E body : h = Accept(body, mem, <<>>)
        \/ q.registration \in mem.registrations /\ \E body : h = Accept(body, saved, <<saved>>)
    BY DEF WaiveRegistration
  <1> HIDE DEF h
  <1>3. CASE (\E code : h = Refuse(code, mem, <<>>)) \/ \E body : h = Accept(body, mem, <<>>)
    <2>1. Gives(h, mem, {})
      BY <1>1, <1>3, RefusedUnread, AcceptedUnwritten, Zenon
    <2> QED BY <2>1, NothingWrittenConfined DEF h
  <1>4. CASE q.registration \in mem.registrations /\ \E body : h = Accept(body, saved, <<saved>>)
    <2>1. q.registration \in Registrations
      BY <1>1, <1>4, FieldTypes
    <2>2. q.registration \in OwnSlots(r)
      BY <2>1, ReachIsKnown, RegistrationsAssumption
    <2>3. saved \in States
      BY <1>1, <2>1, WaiveType
    <2>4. Within(r, mem, saved)
      <3>1. /\ saved.packages = mem.packages /\ saved.registrations = mem.registrations
            /\ saved.abandoned = mem.abandoned /\ saved.replay = mem.replay
            /\ saved.launches = mem.launches /\ saved.statements = mem.statements /\ saved.access = mem.access
            /\ \A x \in Registrations \ {q.registration} : saved.waived[x] = mem.waived[x]
        BY <1>1, <2>1, FieldTypes DEF Waive, States
      <3> HIDE DEF saved
      <3> QED BY <2>2, <3>1 DEF Within
    <2> HIDE DEF saved
    <2>5. Gives(h, mem, {saved})
      BY <1>4, <2>3, AcceptedOnce, Zenon
    <2> QED BY <2>3, <2>4, <2>5, OneWrittenConfined DEF h
  <1> QED BY <1>2, <1>3, <1>4

LEMMA AbandonConfined ==
  ASSUME AdapterOK, NEW r \in Runners, NEW q, q.session \in OwnSlots(r) \union {NoSession, Missing}
  PROVE  Confined(r, AbandonSession(mem, q, now))
  <1> DEFINE h == AbandonSession(mem, q, now)
             saved == Abandon(mem, q.session, now)
  <1>1. mem \in States /\ now \in Times
    BY TimeAssumption DEF AdapterOK, Times
  <1>2. \/ \E code : h = Refuse(code, mem, <<>>)
        \/ Launched(mem, q.session) /\ h = Accept(Ok, saved, <<saved>>)
    BY DEF AbandonSession
  <1> HIDE DEF h
  <1>3. CASE \E code : h = Refuse(code, mem, <<>>)
    <2>1. Gives(h, mem, {})
      BY <1>1, <1>3, RefusedUnread, Zenon
    <2> QED BY <2>1, NothingWrittenConfined DEF h
  <1>4. CASE Launched(mem, q.session) /\ h = Accept(Ok, saved, <<saved>>)
    <2>1. q.session \in Sessions /\ q.session \in OwnSlots(r)
      BY <1>4, ReachIsKnown DEF Launched
    <2>2. saved \in States
      BY <1>1, <2>1, AbandonType
    <2>3. Within(r, mem, saved)
      <3>1. /\ saved.packages = mem.packages /\ saved.registrations = mem.registrations
            /\ saved.abandoned = mem.abandoned \union {q.session} /\ saved.replay = mem.replay
            /\ saved.launches = mem.launches /\ saved.statements = mem.statements /\ saved.waived = mem.waived
            /\ \A x \in Sessions \ {q.session} : saved.access[x] = mem.access[x]
        BY <1>1, <2>1, FieldTypes DEF Abandon, States
      <3> HIDE DEF saved
      <3> QED BY <2>1, <3>1, ReachIsKnown DEF Within
    <2> HIDE DEF saved
    <2>4. Gives(h, mem, {saved})
      BY <1>4, <2>2, AcceptedOnce, Zenon
    <2> QED BY <2>2, <2>3, <2>4, OneWrittenConfined DEF h
  <1> QED BY <1>2, <1>3, <1>4

LEMMA UnwrittenConfined ==
  ASSUME AdapterOK, NEW r, NEW body
  PROVE  Confined(r, Accept(body, mem, <<>>))
  <1> DEFINE h == Accept(body, mem, <<>>)
  <1>1. Gives(h, mem, {})
    BY AcceptedUnwritten DEF AdapterOK
  <1> HIDE DEF h
  <1>2. Confined(r, h)
    BY <1>1, NothingWrittenConfined
  <1> QED BY <1>2 DEF h

(* Whatever a step of a run's script calls, the result is confined to it. *)
LEMMA CallsConfined ==
  ASSUME AdapterOK, NEW r \in Runners, NEW step, Step(r, step), step.op # "read"
  PROVE  Confined(r, Handled(step))
  <1> DEFINE q == step.q
  <1>1. Names(r, step.op, q)
    BY DEF Step
  <1>2. CASE step.op = "fixtures"
    BY <1>2, UnwrittenConfined DEF Handled
  <1>3. CASE step.op = "import"
    <2>1. q.package = PackageId[r]
      BY <1>1, <1>3 DEF Names
    <2> QED BY <1>3, <2>1, ImportConfined DEF Handled
  <1>4. CASE step.op = "launch"
    <2>1. q.session \in Reach(r) /\ q.registration \in Reach(r) /\ q.moveOn \in AllMoveOns
      BY <1>1, <1>4 DEF Names
    <2> QED BY <1>4, <2>1, LaunchConfined DEF Handled
  <1>5. CASE step.op = "fetch"
    <2>1. q.session \in OwnSlots(r) \union {NoSession, Missing}
      BY <1>1, <1>5 DEF Names
    <2> QED BY <1>5, <2>1, FetchConfined DEF Handled
  <1>6. CASE step.op = "data"
    <2>1. q.session \in OwnSlots(r) /\ q.id = NoId
      BY <1>1, <1>6 DEF Names
    <2> QED BY <1>6, <2>1, DataConfined DEF Handled
  <1>7. CASE step.op = "post"
    <2>1. q.session \in OwnSlots(r) /\ q.id \in {NoId, r} /\ q.verb \in Verbs
      BY <1>1, <1>7 DEF Names
    <2> QED BY <1>7, <2>1, PostConfined DEF Handled
  <1>8. CASE step.op = "get"
    BY <1>8, GetConfined DEF Handled
  <1>9. CASE step.op = "waive"
    <2>1. q.registration \in OwnSlots(r) \union {NoRegistration, Missing}
      BY <1>1, <1>9 DEF Names
    <2> QED BY <1>9, <2>1, WaiveConfined DEF Handled
  <1>10. CASE step.op = "abandon"
    <2>1. q.session \in OwnSlots(r) \union {NoSession, Missing}
      BY <1>1, <1>10 DEF Names
    <2> QED BY <1>10, <2>1, AbandonConfined DEF Handled
  <1>11. CASE step.op = "reload"
    <2>1. Handled(step) = Accept([status |-> 200, loaded |-> disk.readable], mem, <<>>)
      BY <1>11 DEF Handled, Reload, AdapterOK
    <2> QED BY <2>1, UnwrittenConfined
  <1> QED
    BY <1>1, <1>2, <1>3, <1>4, <1>5, <1>6, <1>7, <1>8, <1>9, <1>10, <1>11 DEF Names

LEMMA ExplicitIsApart ==
  ASSUME NEW r \in Runners
  PROVE  Explicit \notin OwnSlots(r)
  BY NamesApart DEF OwnSlots

(* A call, answered or cut off, leaves the adapter well-formed and changed *)
(* in the caller's part only.                                              *)
LEMMA CallKeepsAdapter ==
  ASSUME TornWrites = FALSE, AdapterOK, NEW r \in Runners, NEW h, Confined(r, h),
         Answer(h) \/ Crash(h), UNCHANGED <<now, issued, rounds>>
  PROVE  AdapterOK' /\ Within(r, mem, mem')
  <1>1. /\ mem' = Load(disk')
        /\ disk' \in [readable : BOOLEAN, snapshot : States]
        /\ mem' = mem \/ Lost \/ mem' \in Written(h)
        /\ mem' \in States
    BY CallSettles DEF Confined, AdapterOK
  <1>2. ~Lost
    BY DEF Lost
  <1>3. Within(r, mem, mem')
    BY <1>1, <1>2, WithinSelf DEF Confined
  <1>4. mem'.packages \subseteq OwnIds /\ Explicit \notin mem'.abandoned
    BY <1>3, ExplicitIsApart, ReachIsKnown DEF Within, AdapterOK
  <1> QED BY <1>1, <1>3, <1>4 DEF AdapterOK

LEMMA InitAdapterOK == AdapterInit => AdapterOK
  <1> SUFFICES ASSUME AdapterInit PROVE AdapterOK
    OBVIOUS
  <1>1. mem \in States /\ mem = EmptyState /\ disk = NoFile
    BY EmptyStateType DEF AdapterInit
  <1>2. disk \in [readable : BOOLEAN, snapshot : States] /\ Load(disk) = EmptyState
    BY <1>1 DEF NoFile, Load
  <1>3. mem.packages = {} /\ mem.abandoned = {}
    BY <1>1 DEF EmptyState
  <1> QED BY <1>1, <1>2, <1>3 DEF AdapterInit, AdapterOK

LEMMA StepOfRun ==
  ASSUME RunsOK, NEW r \in Runners, runs[r].pc <= Len(Script(r))
  PROVE  Step(r, Current(r))
  <1>1. Script(r) = ScriptOf(r, advertised, runs[r].upload)
    BY ScriptOfRun
  <1>2. Part(r, Script(r))
    BY <1>1, ScriptPart
  <1>3. runs[r].pc \in Nat \ {0}
    BY DEF RunsOK, RunOK
  <1>4. Len(Script(r)) \in Nat /\ DOMAIN Script(r) = 1 .. Len(Script(r))
    BY <1>2, SeqDomain DEF Part
  <1> QED BY <1>2, <1>3, <1>4 DEF Part, Current

(* One step of the runs and the adapter: it restarts and finds what it had, *)
(* or one run moves and the adapter with it, or nothing at all happens.     *)
LEMMA AdapterStep ==
  ASSUME TornWrites = FALSE, RunsOK, AdapterOK, [RunnerNext]_runnerVars
  PROVE  /\ AdapterOK'
         /\ \A r \in Runners : Call(r) \/ CutOff(r) => Within(r, mem, mem')
         /\ mem' = mem \/ \E r \in Runners : Call(r) \/ CutOff(r)
  <1>1. CASE UNCHANGED adapterVars
    <2>1. UNCHANGED <<mem, disk, now, issued, rounds>>
      BY <1>1 DEF adapterVars
    <2> QED BY <2>1, WithinSelf DEF AdapterOK
  <1>2. CASE Restart
    <2>1. mem' = Load(disk) /\ UNCHANGED <<disk, now, issued, rounds>>
      BY <1>2 DEF Restart, ReloadCall
    <2>2. mem' = mem
      BY <2>1 DEF AdapterOK
    <2> QED BY <2>1, <2>2, WithinSelf DEF AdapterOK
  <1>3. ASSUME NEW r \in Runners, Call(r) \/ CutOff(r)
        PROVE  AdapterOK' /\ Within(r, mem, mem')
    <2> DEFINE h == Handled(Current(r))
    <2>1. AtCall(r) /\ (Answer(h) \/ Crash(h)) /\ UNCHANGED <<now, issued, rounds>>
      BY <1>3 DEF Call, CutOff
    <2>2. Step(r, Current(r)) /\ Current(r).op # "read"
      BY <2>1, StepOfRun DEF AtCall
    <2>3. Confined(r, h)
      BY <2>2, CallsConfined
    <2> HIDE DEF h
    <2> QED BY <2>1, <2>3, CallKeepsAdapter
  <1>4. \/ UNCHANGED adapterVars \/ Restart
        \/ \E r \in Runners : Call(r) \/ CutOff(r)
    BY DEF RunnerNext, RunnerStep, Preflight, Pass, Finish, runnerVars
  <1>5. CASE \E r \in Runners : Call(r) \/ CutOff(r)
    <2>1. PICK r \in Runners : Call(r) \/ CutOff(r)
      BY <1>5
    <2> QED BY <1>3, <2>1
  <1> QED BY <1>1, <1>2, <1>4, <1>5

(* Everything the adapter holds of a run, but for its package. *)
OwnPart(r, st) ==
    [launches   |-> [s \in OwnSlots(r) |-> st.launches[s]],
     access     |-> [s \in OwnSlots(r) |-> st.access[s]],
     replay     |-> [s \in OwnSlots(r) |-> st.replay[s]],
     statements |-> [s \in OwnSlots(r) |-> st.statements[s]],
     known      |-> OwnSlots(r) \intersect st.registrations,
     waived     |-> [s \in OwnSlots(r) |-> st.waived[s]],
     abandoned  |-> OwnSlots(r) \intersect st.abandoned]

CallsStayApart ==
    \A r, o \in Runners : r # o /\ (Call(r) \/ CutOff(r)) =>
        /\ OwnPart(o, mem') = OwnPart(o, mem)
        /\ PackageId[o] \in mem.packages => PackageId[o] \in mem'.packages
        /\ PackageId[o] \in mem'.packages \ mem.packages => PackageId[o] = PackageId[r]

LEMMA SlotsAreApart ==
  ASSUME NEW r \in Runners, NEW o \in Runners, r # o, NEW s \in OwnSlots(o)
  PROVE  /\ s \in Sessions \ Reach(r) /\ s \in Registrations \ OwnSlots(r)
  <1>1. s \notin OwnSlots(r)
    BY DEF OwnSlots
  <1>2. s # Explicit
    BY ExplicitIsApart
  <1> QED BY <1>1, <1>2, ReachIsKnown DEF Reach

LEMMA WithinLeavesOthers ==
  ASSUME NEW r \in Runners, NEW o \in Runners, r # o, NEW st, NEW t, Within(r, st, t)
  PROVE  /\ PackageId[o] \in st.packages => PackageId[o] \in t.packages
         /\ PackageId[o] \in t.packages \ st.packages => PackageId[o] = PackageId[r]
         /\ \A s \in OwnSlots(o) : /\ t.launches[s] = st.launches[s]
                                   /\ t.access[s] = st.access[s]
                                   /\ t.replay[s] = st.replay[s]
                                   /\ t.statements[s] = st.statements[s]
                                   /\ t.waived[s] = st.waived[s]
                                   /\ s \in t.registrations <=> s \in st.registrations
                                   /\ s \in t.abandoned <=> s \in st.abandoned
  <1>1. /\ PackageId[o] \in st.packages => PackageId[o] \in t.packages
        /\ PackageId[o] \in t.packages \ st.packages => PackageId[o] = PackageId[r]
    BY DEF Within
  <1>2. ASSUME NEW s \in OwnSlots(o)
        PROVE  /\ t.launches[s] = st.launches[s]
               /\ t.access[s] = st.access[s]
               /\ t.replay[s] = st.replay[s]
               /\ t.statements[s] = st.statements[s]
               /\ t.waived[s] = st.waived[s]
               /\ s \in t.registrations <=> s \in st.registrations
               /\ s \in t.abandoned <=> s \in st.abandoned
    <2>1. s \in Sessions \ Reach(r) /\ s \in Registrations \ OwnSlots(r)
      BY SlotsAreApart
    <2> QED BY <2>1 DEF Within
  <1> QED BY <1>1, <1>2

LEMMA OthersPartKept ==
  ASSUME NEW r \in Runners, NEW o \in Runners, r # o, NEW st, NEW t, Within(r, st, t)
  PROVE  OwnPart(o, t) = OwnPart(o, st)
  <1> DEFINE S == OwnSlots(o)
  <1>1. \A s \in S : /\ t.launches[s] = st.launches[s]
                     /\ t.access[s] = st.access[s]
                     /\ t.replay[s] = st.replay[s]
                     /\ t.statements[s] = st.statements[s]
                     /\ t.waived[s] = st.waived[s]
                     /\ s \in t.registrations <=> s \in st.registrations
                     /\ s \in t.abandoned <=> s \in st.abandoned
    BY WithinLeavesOthers
  <1> HIDE DEF S
  <1>2. [s \in S |-> t.launches[s]] = [s \in S |-> st.launches[s]]
    BY <1>1
  <1>3. [s \in S |-> t.access[s]] = [s \in S |-> st.access[s]]
    BY <1>1
  <1>4. [s \in S |-> t.replay[s]] = [s \in S |-> st.replay[s]]
    BY <1>1
  <1>5. [s \in S |-> t.statements[s]] = [s \in S |-> st.statements[s]]
    BY <1>1
  <1>6. [s \in S |-> t.waived[s]] = [s \in S |-> st.waived[s]]
    BY <1>1
  <1>7. S \intersect t.registrations = S \intersect st.registrations /\ S \intersect t.abandoned = S \intersect st.abandoned
    BY <1>1
  <1> QED BY <1>2, <1>3, <1>4, <1>5, <1>6, <1>7, Zenon DEF OwnPart, S

(* A call of one run, answered or cut off, changes nothing the adapter     *)
(* holds of another: not its launches, tokens, request ids or statements,  *)
(* nor the registrations and sessions it waived or abandoned.  It never    *)
(* takes another's package away, and adds it only when the two runs are    *)
(* configured with one id.  (A crash that leaves half a file loses         *)
(* everybody's.)                                                           *)
THEOREM RunsStayApart == TornWrites = FALSE => (RunnerSpec => [][CallsStayApart]_runnerVars)
  <1> SUFFICES ASSUME TornWrites = FALSE
               PROVE  RunnerSpec => [][CallsStayApart]_runnerVars
    OBVIOUS
  <1> DEFINE Inv == RunsOK /\ AdapterOK
  <1>1. RunnerInit => Inv
    BY RunsInit, InitAdapterOK DEF RunnerInit
  <1>2. Inv /\ [RunnerNext]_runnerVars => Inv'
    BY RunsPreserved, AdapterStep
  <1>3. Inv /\ [RunnerNext]_runnerVars => [CallsStayApart]_runnerVars
    <2> SUFFICES ASSUME RunsOK, AdapterOK, [RunnerNext]_runnerVars,
                        NEW r \in Runners, NEW o \in Runners, r # o, Call(r) \/ CutOff(r)
                 PROVE  /\ OwnPart(o, mem') = OwnPart(o, mem)
                        /\ PackageId[o] \in mem.packages => PackageId[o] \in mem'.packages
                        /\ PackageId[o] \in mem'.packages \ mem.packages => PackageId[o] = PackageId[r]
      BY DEF CallsStayApart
    <2>1. Within(r, mem, mem')
      BY AdapterStep
    <2> QED BY <2>1, OthersPartKept, WithinLeavesOthers
  <1> HIDE DEF Inv
  <1> QED BY <1>1, <1>2, <1>3, PTL DEF RunnerSpec

(***************************************************************************)
(* What a run with a good package can count on                             *)
(***************************************************************************)

(* What is known of one of the run's sessions: the moveOn it was launched  *)
(* with ("none": nothing is known), whether its fetch token is unused or   *)
(* exchanged ("fresh", "held"), its record, and whether the run's request  *)
(* id was used.                                                            *)
SlotKnowledge(moveOn, access, log, noted) ==
    [moveOn |-> moveOn, access |-> access, log |-> log, noted |-> noted]
Unknown == SlotKnowledge("none", "unknown", <<>>, FALSE)

(* What is known between two steps: is the package there, is the first     *)
(* registration waived, which sessions are abandoned, each session, the    *)
(* sessions the run knows launched and exchanged, and the last reply.      *)
Know(imported, waived, gone, slots, called, tokens, seen) ==
    [imported |-> imported, waived |-> waived, gone |-> gone, slots |-> slots,
     called |-> called, tokens |-> tokens, seen |-> seen]
Knows(a) == DOMAIN a.slots = Slots /\ a.called \subseteq Slots /\ a.tokens \subseteq Slots

(* A reply that shows what is expected. *)
Fits(shown, expect) == \A f \in DOMAIN expect : f \in DOMAIN shown /\ shown[f] = expect[f]

SlotHolds(r, st, x, v) ==
    v.moveOn # "none" =>
        /\ st.launches[Own(r, x)].registration = Own(r, x)
        /\ st.launches[Own(r, x)].moveOn = v.moveOn
        /\ Own(r, x) \in st.registrations
        /\ st.statements[Own(r, x)] = v.log
        /\ r \in st.replay[Own(r, x)] <=> v.noted
        /\ v.access = "fresh" => ~st.access[Own(r, x)].consumed /\ st.access[Own(r, x)].fetchExpires > 0
        /\ v.access = "held" => /\ st.access[Own(r, x)].consumed
                                /\ st.access[Own(r, x)].token = TokenOf(r, x)
                                /\ st.access[Own(r, x)].authExpires > 0

(* What is known is true of the adapter, and of the run. *)
Holds(r, st, a) ==
    /\ a.imported => PackageId[r] \in st.packages
    /\ \A x \in Slots : Own(r, x) \in st.abandoned <=> x \in a.gone
    /\ st.waived[Own(r, "initial")] = IF a.waived THEN 0 ELSE Never
    /\ \A x \in Slots : SlotHolds(r, st, x, a.slots[x])

RunHolds(run, a) ==
    /\ a.called \subseteq run.launched
    /\ a.tokens \subseteq run.held
    /\ a.waived => run.waivedAt = 0
    /\ Fits(Seen(run.reply), a.seen)

(***************************************************************************)
(* The calls, by what is known before them.  A refused one:                *)
(***************************************************************************)
Clean(q, r) == q.package = PackageId[r] /\ q.flaw = "none"

Refused400(r, a, s) ==
    \/ s.op = "import" /\ ~PackageAccepted(s.q.upload)
    \/ s.op = "launch" /\ s.q.flaw = "package"
    \/ s.op = "launch" /\ s.q.flaw = "mode" /\ s.q.package = PackageId[r] /\ a.imported
    \/ /\ s.op = "launch" /\ s.q.flaw = "field" /\ s.q.package = PackageId[r] /\ a.imported
       /\ \E x \in Slots \ a.gone : s.q.session = Own(r, x)
    \/ s.op = "fetch" /\ s.q.session = NoSession
    \/ s.op = "waive" /\ s.q.registration = NoRegistration
    \/ s.op = "abandon" /\ s.q.session = NoSession

Refused404(r, a, s) ==
    \/ s.op = "launch" /\ s.q.flaw = "none" /\ s.q.package = MissingPackage
    \/ s.op = "fetch" /\ s.q.token = Missing /\ \E x \in Slots : s.q.session = Own(r, x)
    \/ s.op = "fetch" /\ s.q.session = Missing /\ s.q.token # NoSession
    \/ s.op = "waive" /\ s.q.registration = Missing
    \/ s.op = "abandon" /\ s.q.session = Missing

Held(a, x) == a.slots[x].moveOn # "none" /\ a.slots[x].access = "held"

Refused401(r, a, s) ==
    /\ s.op \in {"data", "get"}
    /\ \E x \in Slots : Held(a, x) /\ s.q.session = Own(r, x) /\ s.q.token # TokenOf(r, x)

Posts(r, a, s, x) ==
    /\ s.op = "post" /\ Held(a, x) /\ x \notin a.gone
    /\ s.q.session = Own(r, x) /\ s.q.registration = Own(r, x) /\ s.q.token = TokenOf(r, x)

Refused409(r, a, s) ==
    \/ s.op = "launch" /\ Clean(s.q, r) /\ a.imported /\ \E x \in Slots \intersect a.gone : s.q.session = Own(r, x)
    \/ s.op = "fetch" /\ \E x \in Slots : Held(a, x) /\ s.q.session = Own(r, x) /\ s.q.token = Own(r, x)
    \/ \E x \in Slots : Posts(r, a, s, x) /\ s.q.id = r /\ a.slots[x].noted
    \/ \E x \in Slots : /\ Posts(r, a, s, x) /\ s.q.id = NoId
                        /\ ~AcceptsVerb(a.slots[x].moveOn, a.slots[x].log, s.q.verb)
    \/ /\ s.op = "abandon"
       /\ \E x \in Slots \intersect a.gone : a.slots[x].moveOn # "none" /\ s.q.session = Own(r, x)

RefusedAs(r, a, s, code) ==
    \/ code = 400 /\ Refused400(r, a, s)
    \/ code = 404 /\ Refused404(r, a, s)
    \/ code = 401 /\ Refused401(r, a, s)
    \/ code = 409 /\ Refused409(r, a, s)

(* An accepted one that changes nothing of the run's own. *)
Told(r, a, s, shown) ==
    \/ s.op = "fixtures" /\ shown = Ok
    \/ s.op = "reload" /\ a.imported /\ shown = [status |-> 200, loaded |-> TRUE]
    \/ /\ s.op = "launch" /\ Clean(s.q, r) /\ a.imported
       /\ s.q.session = Explicit /\ s.q.registration = Explicit
       /\ shown = [status |-> 200, session |-> Explicit, registration |-> Explicit]
    \/ /\ s.op = "data" /\ s.q.id = NoId
       /\ \E x \in Slots \ a.gone : /\ Held(a, x) /\ s.q.session = Own(r, x) /\ s.q.token = TokenOf(r, x)
                                    /\ shown = [status |-> 200, registration |-> Own(r, x), moveOn |-> a.slots[x].moveOn]
    \/ /\ s.op = "get"
       /\ \E x \in Slots \ a.gone :
             /\ Held(a, x) /\ s.q.session = Own(r, x) /\ s.q.token = TokenOf(r, x)
             /\ shown = [status |-> 200, verbs |-> a.slots[x].log, count |-> Len(a.slots[x].log),
                         terminated |-> HasVerb(a.slots[x].log, "terminated"),
                         moveOnSatisfied |-> MoveOnSatisfied(a.slots[x].moveOn, a.slots[x].log)]
    \/ /\ s.op = "waive" /\ a.waived /\ a.slots["initial"].moveOn # "none"
       /\ s.q.registration = Own(r, "initial")
       /\ shown = [status |-> 200, already |-> TRUE, waivedAt |-> 0]

(* The accepted ones that do change it, and what they leave known. *)
SlotAfter(a, x, v) == [a.slots EXCEPT ![x] = v]

AfterImport(a, shown) == Know(TRUE, a.waived, a.gone, a.slots, a.called, a.tokens, shown)
AfterLaunch(a, x, v, shown) ==
    Know(a.imported, a.waived, a.gone, SlotAfter(a, x, v), a.called \union {x}, a.tokens, shown)
AfterFetch(a, x, shown) ==
    Know(a.imported, a.waived, a.gone,
         SlotAfter(a, x, SlotKnowledge(a.slots[x].moveOn, "held", a.slots[x].log, FALSE)),
         a.called, a.tokens \union {x}, shown)
AfterPost(a, x, verb, noted, shown) ==
    Know(a.imported, a.waived, a.gone,
         SlotAfter(a, x, SlotKnowledge(a.slots[x].moveOn, "held", Append(a.slots[x].log, verb), noted)),
         a.called, a.tokens, shown)
AfterWaive(a, shown) == Know(a.imported, TRUE, a.gone, a.slots, a.called, a.tokens, shown)
AfterAbandon(a, x, shown) ==
    Know(a.imported, a.waived, a.gone \union {x},
         SlotAfter(a, x, SlotKnowledge(a.slots[x].moveOn, "unknown", a.slots[x].log, a.slots[x].noted)),
         a.called, a.tokens, shown)
AfterSeeing(a, shown) == Know(a.imported, a.waived, a.gone, a.slots, a.called, a.tokens, shown)

ImportDone(r, a, s, shown, b) ==
    s.op = "import" /\ s.q.package = PackageId[r] /\ PackageAccepted(s.q.upload) /\ shown = Ok /\ b = AfterImport(a, shown)
LaunchDone(r, a, s, shown, b) ==
    /\ s.op = "launch" /\ Clean(s.q, r) /\ a.imported /\ s.q.moveOn \in AllMoveOns
    /\ \E x \in Slots \ a.gone :
          /\ s.q.session = Own(r, x) /\ s.q.registration = Own(r, x)
          /\ shown = [status |-> 200, session |-> Own(r, x), registration |-> Own(r, x), moveOn |-> s.q.moveOn]
          /\ b = AfterLaunch(a, x, SlotKnowledge(s.q.moveOn, "fresh", <<>>, FALSE), shown)
ResumeDone(r, a, s, shown, b) ==
    /\ s.op = "launch" /\ Clean(s.q, r) /\ a.imported
    /\ \E x \in Slots \ a.gone :
          /\ s.q.session = Own(r, x) /\ s.q.registration = Own(r, "initial")
          /\ shown = [status |-> 200, session |-> Own(r, x), registration |-> Own(r, "initial"),
                      waivedAt |-> IF a.waived THEN 0 ELSE Never]
          /\ b = AfterLaunch(a, x, Unknown, shown)
FetchDone(r, a, s, shown, b) ==
    /\ s.op = "fetch" /\ shown = Ok
    /\ \E x \in Slots : /\ a.slots[x].moveOn # "none" /\ a.slots[x].access = "fresh"
                        /\ s.q.session = Own(r, x) /\ s.q.token = Own(r, x)
                        /\ b = AfterFetch(a, x, shown)
PostDone(r, a, s, shown, b) ==
    /\ shown = Ok
    /\ \E x \in Slots : /\ Posts(r, a, s, x) /\ AcceptsVerb(a.slots[x].moveOn, a.slots[x].log, s.q.verb)
                        /\ s.q.id = NoId \/ (s.q.id = r /\ ~a.slots[x].noted)
                        /\ b = AfterPost(a, x, s.q.verb, a.slots[x].noted \/ s.q.id = r, shown)
WaiveDone(r, a, s, shown, b) ==
    /\ s.op = "waive" /\ s.date = "first" /\ ~a.waived /\ a.slots["initial"].moveOn # "none"
    /\ s.q.registration = Own(r, "initial")
    /\ shown = [status |-> 200, already |-> FALSE, waivedAt |-> 0]
    /\ b = AfterWaive(a, shown)
AbandonDone(r, a, s, shown, b) ==
    /\ s.op = "abandon" /\ shown = Ok
    /\ \E x \in Slots \ a.gone : /\ a.slots[x].moveOn # "none" /\ s.q.session = Own(r, x)
                                 /\ b = AfterAbandon(a, x, shown)

Done(r, a, s, shown, b) ==
    \/ ImportDone(r, a, s, shown, b) \/ LaunchDone(r, a, s, shown, b) \/ ResumeDone(r, a, s, shown, b)
    \/ FetchDone(r, a, s, shown, b) \/ PostDone(r, a, s, shown, b)
    \/ WaiveDone(r, a, s, shown, b) \/ AbandonDone(r, a, s, shown, b)

Outcome(r, a, s, shown, b) ==
    \/ \E code : RefusedAs(r, a, s, code) /\ shown = Status(code) /\ b = AfterSeeing(a, shown)
    \/ Told(r, a, s, shown) /\ b = AfterSeeing(a, shown)
    \/ Done(r, a, s, shown, b)

(***************************************************************************)
(* A step that what is known before it answers for: it can be made, its    *)
(* reply shows what the run expects, and b is known after it.  A check in  *)
(* E may fail at a read.                                                   *)
(***************************************************************************)
Able(a, s) ==
    /\ s.needs \subseteq a.called /\ s.tokens \subseteq a.tokens
    /\ s.inner => "initial" \in a.called

DateFits(a, s, shown) ==
    /\ s.date = "first" => "waivedAt" \in DOMAIN shown /\ shown.waivedAt = 0
    /\ s.date = "same" => /\ a.waived /\ "status" \in DOMAIN shown /\ shown.status = 200
                          /\ "waivedAt" \in DOMAIN shown /\ shown.waivedAt = 0

Good(E, r, a, s, b) ==
    /\ Able(a, s)
    /\ \/ s.op # "read" /\ \E shown : Outcome(r, a, s, shown, b) /\ Fits(shown, s.expect) /\ DateFits(a, s, shown)
       \/ s.op = "read" /\ s.date = "free" /\ b = a /\ Fits(a.seen, s.expect)
       \/ s.op = "read" /\ s.date = "free" /\ b = a /\ E # {} /\ s.feeds \subseteq E

(* What is known on the way through a list of steps. *)
Route(E, r, S, a, p) ==
    /\ p[0] = a
    /\ \A i \in 1 .. Len(S) : Good(E, r, p[i - 1], S[i], p[i])
    /\ \A i \in 0 .. Len(S) : Knows(p[i]) /\ a.called \subseteq p[i].called /\ a.tokens \subseteq p[i].tokens

Goes(E, r, S, a, b) ==
    /\ IsSeq(S)
    /\ \A i \in 1 .. Len(S) : IsStep(S[i])
    /\ \E p : Route(E, r, S, a, p) /\ p[Len(S)] = b

LEMMA GoesNowhere ==
  ASSUME NEW E, NEW r, NEW a, Knows(a)
  PROVE  Goes(E, r, <<>>, a, a)
  <1> DEFINE S == <<>>
             p == [i \in {0} |-> a]
  <1>1. IsSeq(S) /\ Len(S) = 0
    BY DEF IsSeq
  <1>2. p[0] = a /\ p[Len(S)] = a
    BY <1>1
  <1>3. \A i \in 0 .. Len(S) : p[i] = a
    BY <1>1
  <1> HIDE DEF p, S
  <1>4. Route(E, r, S, a, p)
    BY <1>1, <1>2, <1>3 DEF Route
  <1> QED BY <1>1, <1>2, <1>4 DEF Goes, S

LEMMA GoesOne ==
  ASSUME NEW E, NEW r, NEW a, NEW b, NEW s, Knows(a), Knows(b), IsStep(s), Good(E, r, a, s, b),
         a.called \subseteq b.called, a.tokens \subseteq b.tokens
  PROVE  Goes(E, r, <<s>>, a, b)
  <1> DEFINE S == <<s>>
             p == [i \in {0, 1} |-> IF i = 0 THEN a ELSE b]
  <1>1. IsSeq(S) /\ Len(S) = 1 /\ S[1] = s
    BY DEF IsSeq
  <1>2. p[0] = a /\ p[1] = b
    OBVIOUS
  <1> HIDE DEF p, S
  <1>3. Route(E, r, S, a, p)
    <2>1. \A i \in 1 .. Len(S) : i = 1
      BY <1>1
    <2>2. \A i \in 0 .. Len(S) : i = 0 \/ i = 1
      BY <1>1
    <2>3. \A i \in 1 .. Len(S) : Good(E, r, p[i - 1], S[i], p[i])
      BY <1>1, <1>2, <2>1
    <2>4. \A i \in 0 .. Len(S) : Knows(p[i]) /\ a.called \subseteq p[i].called /\ a.tokens \subseteq p[i].tokens
      BY <1>2, <2>2
    <2> QED BY <1>2, <2>3, <2>4 DEF Route
  <1>4. \A i \in 1 .. Len(S) : IsStep(S[i])
    BY <1>1
  <1> QED BY <1>1, <1>2, <1>3, <1>4 DEF Goes, S

LEMMA GoesOn ==
  ASSUME NEW E, NEW r, NEW S, NEW T, NEW a, NEW b, NEW c, Goes(E, r, S, a, b), Goes(E, r, T, b, c)
  PROVE  Goes(E, r, S \o T, a, c)
  <1> DEFINE U == S \o T
             m == Len(S)
             n == Len(T)
  <1>1. IsSeq(S) /\ IsSeq(T)
    BY DEF Goes
  <1>2. m \in Nat /\ n \in Nat
    BY <1>1 DEF IsSeq
  <1>3. /\ IsSeq(U) /\ Len(U) = m + n
        /\ \A i \in 1 .. m : U[i] = S[i]
        /\ \A i \in 1 .. n : U[m + i] = T[i]
    BY <1>1, JoinedSeq
  <1>4. PICK p : Route(E, r, S, a, p) /\ p[m] = b
    BY DEF Goes
  <1>5. PICK q : Route(E, r, T, b, q) /\ q[n] = c
    BY DEF Goes
  <1> DEFINE o == [i \in 0 .. m + n |-> IF i <= m THEN p[i] ELSE q[i - m]]
  <1>6. q[0] = b
    BY <1>5 DEF Route
  <1>7. /\ \A i \in 0 .. m : o[i] = p[i]
        /\ \A i \in 0 .. n : o[m + i] = q[i]
    BY <1>2, <1>4, <1>6
  <1>8. \A i \in 1 .. m + n : i \in 1 .. m \/ (i - m \in 1 .. n /\ i = m + (i - m))
    BY <1>2
  <1>9. \A i \in 0 .. m + n : i \in 0 .. m \/ (i - m \in 0 .. n /\ i = m + (i - m))
    BY <1>2
  <1> HIDE DEF o, U, m, n
  <1>10. ASSUME NEW i \in 1 .. m + n
         PROVE  Good(E, r, o[i - 1], U[i], o[i]) /\ IsStep(U[i])
    <2>1. CASE i \in 1 .. m
      <3>1. i - 1 \in 0 .. m /\ i \in 0 .. m
        BY <1>2, <2>1
      <3>2. o[i - 1] = p[i - 1] /\ o[i] = p[i] /\ U[i] = S[i]
        BY <1>3, <1>7, <2>1, <3>1
      <3>3. Good(E, r, p[i - 1], S[i], p[i])
        BY <1>4, <2>1 DEF Route, m
      <3>4. IsStep(S[i])
        BY <2>1 DEF Goes, m
      <3> QED BY <3>2, <3>3, <3>4
    <2>2. CASE i - m \in 1 .. n /\ i = m + (i - m)
      <3> DEFINE j == i - m
      <3>1. j - 1 \in 0 .. n /\ j \in 0 .. n /\ i - 1 = m + (j - 1) /\ i = m + j
        BY <1>2, <2>2
      <3>2. o[i - 1] = q[j - 1] /\ o[i] = q[j] /\ U[i] = T[j]
        BY <1>3, <1>7, <2>2, <3>1
      <3>3. Good(E, r, q[j - 1], T[j], q[j])
        BY <1>5, <2>2 DEF Route, n
      <3>4. IsStep(T[j])
        BY <2>2 DEF Goes, n
      <3> QED BY <3>2, <3>3, <3>4
    <2> QED BY <1>8, <2>1, <2>2
  <1>11. a.called \subseteq b.called /\ a.tokens \subseteq b.tokens
    <2>1. m \in 0 .. m
      BY <1>2
    <2> QED BY <1>4, <2>1 DEF Route, m
  <1>12. ASSUME NEW i \in 0 .. m + n
         PROVE  Knows(o[i]) /\ a.called \subseteq o[i].called /\ a.tokens \subseteq o[i].tokens
    <2>1. CASE i \in 0 .. m
      <3>1. Knows(p[i]) /\ a.called \subseteq p[i].called /\ a.tokens \subseteq p[i].tokens
        BY <1>4, <2>1 DEF Route, m
      <3> QED BY <1>7, <2>1, <3>1
    <2>2. CASE i - m \in 0 .. n /\ i = m + (i - m)
      <3>1. Knows(q[i - m]) /\ b.called \subseteq q[i - m].called /\ b.tokens \subseteq q[i - m].tokens
        BY <1>5, <2>2 DEF Route, n
      <3>2. o[i] = q[i - m]
        BY <1>7, <2>2
      <3> QED BY <1>11, <3>1, <3>2
    <2> QED BY <1>9, <2>1, <2>2
  <1>13. o[0] = a
    <2>1. 0 \in 0 .. m
      BY <1>2
    <2> QED BY <1>4, <1>7, <2>1 DEF Route
  <1>14. o[m + n] = c
    <2>1. n \in 0 .. n
      BY <1>2
    <2> QED BY <1>5, <1>7, <2>1
  <1>15. Route(E, r, U, a, o)
    BY <1>3, <1>10, <1>12, <1>13 DEF Route
  <1>16. Goes(E, r, U, a, c)
    BY <1>3, <1>10, <1>14, <1>15 DEF Goes
  <1> QED BY <1>16 DEF U

(* Excusing a check only adds to what is good. *)
LEMMA GoesExcused ==
  ASSUME NEW E, NEW r, NEW S, NEW a, NEW b, Goes({}, r, S, a, b)
  PROVE  Goes(E, r, S, a, b)
  <1>1. \A x, s, y : Good({}, r, x, s, y) => Good(E, r, x, s, y)
    BY DEF Good
  <1>2. PICK p : Route({}, r, S, a, p) /\ p[Len(S)] = b
    BY DEF Goes
  <1>3. Route(E, r, S, a, p)
    BY <1>1, <1>2 DEF Route
  <1> QED BY <1>2, <1>3 DEF Goes

(* The same call and the same expectation are as good, whatever checks     *)
(* they belong to.                                                         *)
LEMMA SameCallGood ==
  ASSUME NEW r, NEW a, NEW s, NEW b, Good({}, r, a, s, b),
         NEW t, t.op = s.op, t.q = s.q, t.expect = s.expect, t.date = s.date, Able(a, t)
  PROVE  Good({}, r, a, t, b)
  <1>1. \A shown : Outcome(r, a, s, shown, b) => Outcome(r, a, t, shown, b)
    <2> TAKE shown
    <2>1. \A code : RefusedAs(r, a, s, code) => RefusedAs(r, a, t, code)
      BY DEF RefusedAs, Refused400, Refused404, Refused401, Refused409, Posts, Clean
    <2>2. Told(r, a, s, shown) => Told(r, a, t, shown)
      BY SMTT(30) DEF Told, Clean
    <2>3. Done(r, a, s, shown, b) => Done(r, a, t, shown, b)
      BY DEF Done, ImportDone, LaunchDone, ResumeDone, FetchDone, PostDone, WaiveDone, AbandonDone, Posts, Clean
    <2> QED BY <2>1, <2>2, <2>3 DEF Outcome
  <1>2. \A shown : DateFits(a, s, shown) => DateFits(a, t, shown)
    BY DEF DateFits
  <1> QED BY <1>1, <1>2 DEF Good

(* A list of steps and the same calls put to other checks. *)
Relabels(a, s, t) ==
    /\ IsStep(t)
    /\ t.op = s.op /\ t.q = s.q /\ t.expect = s.expect /\ t.date = s.date
    /\ t.needs \subseteq s.needs \union a.called
    /\ t.tokens \subseteq s.tokens \union a.tokens
    /\ t.inner => s.inner \/ "initial" \in a.called

LEMMA GoesRelabelled ==
  ASSUME NEW r, NEW S, NEW T, NEW a, NEW b, Goes({}, r, S, a, b),
         IsSeq(T), Len(T) = Len(S), \A i \in 1 .. Len(S) : Relabels(a, S[i], T[i])
  PROVE  Goes({}, r, T, a, b)
  <1>1. PICK p : Route({}, r, S, a, p) /\ p[Len(S)] = b
    BY DEF Goes
  <1>2. ASSUME NEW i \in 1 .. Len(S)
        PROVE  Good({}, r, p[i - 1], T[i], p[i])
    <2> DEFINE s == S[i]
               t == T[i]
               x == p[i - 1]
    <2>1. Good({}, r, x, s, p[i]) /\ Relabels(a, s, t)
      BY <1>1 DEF Route
    <2>2. a.called \subseteq x.called /\ a.tokens \subseteq x.tokens
      <3>1. i - 1 \in 0 .. Len(S)
        BY DEF Goes, IsSeq
      <3> QED BY <1>1, <3>1 DEF Route
    <2> HIDE DEF s, t, x
    <2>3. Able(x, t)
      <3>1. Able(x, s)
        BY <2>1 DEF Good
      <3> QED BY <2>1, <2>2, <3>1 DEF Able, Relabels
    <2>4. t.op = s.op /\ t.q = s.q /\ t.expect = s.expect /\ t.date = s.date
      BY <2>1 DEF Relabels
    <2>5. Good({}, r, x, t, p[i])
      BY <2>1, <2>3, <2>4, SameCallGood
    <2> QED BY <2>5 DEF t, x
  <1>3. Route({}, r, T, a, p)
    BY <1>1, <1>2 DEF Route
  <1>4. \A i \in 1 .. Len(T) : IsStep(T[i])
    BY DEF Relabels
  <1> QED BY <1>1, <1>3, <1>4 DEF Goes

LEMMA GoesNeeding ==
  ASSUME NEW r, NEW S, NEW a, NEW b, Goes({}, r, S, a, b),
         NEW slots, NEW tokens, slots \subseteq a.called, tokens \subseteq a.tokens
  PROVE  Goes({}, r, Needing(slots, tokens, S), a, b)
  <1> DEFINE t == Needing(slots, tokens, S)
  <1>1. /\ DOMAIN t = DOMAIN S /\ t = [i \in DOMAIN S |-> t[i]]
        /\ \A i \in DOMAIN S : t[i] = [S[i] EXCEPT !.needs = @ \union slots, !.tokens = @ \union tokens]
    BY DEF Needing
  <1>2. IsSeq(S) /\ DOMAIN S = 1 .. Len(S)
    BY SeqDomain DEF Goes
  <1>3. ASSUME NEW i \in 1 .. Len(S)
        PROVE  Relabels(a, S[i], t[i])
    <2> DEFINE s == S[i]
               e == [s EXCEPT !.needs = @ \union slots, !.tokens = @ \union tokens]
    <2>1. IsStep(s) /\ t[i] = e
      BY <1>1, <1>2 DEF Goes
    <2> HIDE DEF s
    <2>2. /\ IsStep(e) /\ e.op = s.op /\ e.q = s.q /\ e.expect = s.expect /\ e.date = s.date
          /\ e.needs = s.needs \union slots /\ e.tokens = s.tokens \union tokens /\ e.inner = s.inner
      BY <2>1 DEF IsStep, StepFields
    <2> HIDE DEF e
    <2>3. Relabels(a, s, e)
      BY <2>2 DEF Relabels
    <2> QED BY <2>1, <2>3 DEF s
  <1> HIDE DEF t
  <1>4. IsSeq(t) /\ Len(t) = Len(S)
    BY <1>1, <1>2, MappedSeq
  <1>5. Goes({}, r, t, a, b)
    BY <1>3, <1>4, GoesRelabelled
  <1> QED BY <1>5 DEF t

LEMMA GoesInner ==
  ASSUME NEW r, NEW S, NEW a, NEW b, Goes({}, r, S, a, b), "initial" \in a.called
  PROVE  Goes({}, r, Inner(S), a, b)
  <1> DEFINE t == Inner(S)
  <1>1. /\ DOMAIN t = DOMAIN S /\ t = [i \in DOMAIN S |-> t[i]]
        /\ \A i \in DOMAIN S : t[i] = [S[i] EXCEPT !.inner = TRUE]
    BY DEF Inner
  <1>2. IsSeq(S) /\ DOMAIN S = 1 .. Len(S)
    BY SeqDomain DEF Goes
  <1>3. ASSUME NEW i \in 1 .. Len(S)
        PROVE  Relabels(a, S[i], t[i])
    <2> DEFINE s == S[i]
               e == [s EXCEPT !.inner = TRUE]
    <2>1. IsStep(s) /\ t[i] = e
      BY <1>1, <1>2 DEF Goes
    <2> HIDE DEF s
    <2>2. /\ IsStep(e) /\ e.op = s.op /\ e.q = s.q /\ e.expect = s.expect /\ e.date = s.date
          /\ e.needs = s.needs /\ e.tokens = s.tokens /\ e.inner = TRUE
      BY <2>1 DEF IsStep, StepFields
    <2> HIDE DEF e
    <2>3. Relabels(a, s, e)
      BY <2>2 DEF Relabels
    <2> QED BY <2>1, <2>3 DEF s
  <1> HIDE DEF t
  <1>4. IsSeq(t) /\ Len(t) = Len(S)
    BY <1>1, <1>2, MappedSeq
  <1>5. Goes({}, r, t, a, b)
    BY <1>3, <1>4, GoesRelabelled
  <1> QED BY <1>5 DEF t

LEMMA GoesFeeding ==
  ASSUME NEW r, NEW S, NEW a, NEW b, Goes({}, r, S, a, b), NEW checks
  PROVE  Goes({}, r, Feeding(checks, S), a, b)
  <1> DEFINE t == Feeding(checks, S)
  <1>1. /\ DOMAIN t = DOMAIN S /\ t = [i \in DOMAIN S |-> t[i]]
        /\ \A i \in DOMAIN S : t[i] = [S[i] EXCEPT !.feeds = @ \union checks]
    BY DEF Feeding
  <1>2. IsSeq(S) /\ DOMAIN S = 1 .. Len(S)
    BY SeqDomain DEF Goes
  <1>3. ASSUME NEW i \in 1 .. Len(S)
        PROVE  Relabels(a, S[i], t[i])
    <2> DEFINE s == S[i]
               e == [s EXCEPT !.feeds = @ \union checks]
    <2>1. IsStep(s) /\ t[i] = e
      BY <1>1, <1>2 DEF Goes
    <2> HIDE DEF s
    <2>2. /\ IsStep(e) /\ e.op = s.op /\ e.q = s.q /\ e.expect = s.expect /\ e.date = s.date
          /\ e.needs = s.needs /\ e.tokens = s.tokens /\ e.inner = s.inner
      BY <2>1 DEF IsStep, StepFields
    <2> HIDE DEF e
    <2>3. Relabels(a, s, e)
      BY <2>2 DEF Relabels
    <2> QED BY <2>1, <2>3 DEF s
  <1> HIDE DEF t
  <1>4. IsSeq(t) /\ Len(t) = Len(S)
    BY <1>1, <1>2, MappedSeq
  <1>5. Goes({}, r, t, a, b)
    BY <1>3, <1>4, GoesRelabelled
  <1> QED BY <1>5 DEF t

LEMMA GoesClosing ==
  ASSUME NEW r, NEW S, NEW a, NEW b, Goes({}, r, S, a, b), NEW checks
  PROVE  Goes({}, r, Closing(checks, S), a, b)
  <1> DEFINE t == Closing(checks, S)
             n == Len(S)
             s == S[n]
             e == [s EXCEPT !.closes = @ \union checks]
  <1>1. t = [S EXCEPT ![n] = e]
    BY DEF Closing
  <1>2. IsSeq(S) /\ DOMAIN S = 1 .. n /\ n \in Nat
    BY SeqDomain DEF Goes
  <1>3. DOMAIN t = DOMAIN S /\ t = [i \in DOMAIN S |-> t[i]]
    BY <1>1
  <1> HIDE DEF e
  <1>4. ASSUME NEW i \in 1 .. n
        PROVE  Relabels(a, S[i], t[i])
    <2>1. IsStep(S[i])
      BY DEF Goes
    <2>2. CASE i # n
      <3>1. t[i] = S[i]
        BY <1>1, <1>2, <2>2
      <3> QED BY <2>1, <3>1 DEF Relabels
    <2>3. CASE i = n
      <3>1. t[i] = e /\ S[i] = s /\ IsStep(s)
        BY <1>1, <1>2, <2>1, <2>3
      <3> HIDE DEF s
      <3>2. /\ IsStep(e) /\ e.op = s.op /\ e.q = s.q /\ e.expect = s.expect /\ e.date = s.date
            /\ e.needs = s.needs /\ e.tokens = s.tokens /\ e.inner = s.inner
        BY <3>1 DEF IsStep, StepFields, e
      <3>3. Relabels(a, s, e)
        BY <3>2 DEF Relabels
      <3> QED BY <3>1, <3>3
    <2> QED BY <2>2, <2>3
  <1> HIDE DEF t, s
  <1>5. IsSeq(t) /\ Len(t) = n
    BY <1>2, <1>3, MappedSeq
  <1>6. Goes({}, r, t, a, b)
    BY <1>4, <1>5, GoesRelabelled
  <1> QED BY <1>6 DEF t

LEMMA GoesCheck ==
  ASSUME NEW r, NEW S, NEW a, NEW b, Goes({}, r, S, a, b), NEW name
  PROVE  Goes({}, r, Check(name, S), a, b)
  BY GoesFeeding, GoesClosing DEF Check

LEMMA GoesSkip ==
  ASSUME NEW r, NEW a, Knows(a), NEW name
  PROVE  Goes({}, r, Skip(name), a, a)
  <1> DEFINE d == Do("read", <<>>, <<>>)
             s == [d EXCEPT !.skips = {name}]
  <1>1. /\ IsStep(d) /\ d.op = "read" /\ d.expect = <<>> /\ d.date = "free"
        /\ d.needs = {} /\ d.tokens = {} /\ d.inner = FALSE
    BY DEF Do, IsStep, StepFields
  <1> HIDE DEF d
  <1>2. /\ IsStep(s) /\ s.op = "read" /\ s.expect = <<>> /\ s.date = "free"
        /\ s.needs = {} /\ s.tokens = {} /\ s.inner = FALSE
    BY <1>1 DEF IsStep, StepFields
  <1>3. Skip(name) = <<s>>
    BY DEF Skip, d
  <1> HIDE DEF s
  <1>4. Good({}, r, a, s, a)
    BY <1>2 DEF Good, Able, Fits
  <1> QED BY <1>2, <1>3, <1>4, GoesOne

(* The plain step of a call. *)
Plain(s, op, q, expect) ==
    /\ IsStep(s) /\ s.op = op /\ s.q = q /\ s.expect = expect /\ s.date = "free"
    /\ s.needs = {} /\ s.tokens = {} /\ s.inner = FALSE

LEMMA DoPlain ==
  \A op, q, expect : Plain(Do(op, q, expect), op, q, expect)
  BY DEF Plain, Do, IsStep, StepFields

LEMMA PlainAble ==
  ASSUME NEW s, NEW op, NEW q, NEW expect, Plain(s, op, q, expect), NEW a
  PROVE  Able(a, s) /\ \A shown : DateFits(a, s, shown)
  BY DEF Plain, Able, DateFits

(* A call with a known outcome. *)
LEMMA GoesCall ==
  ASSUME NEW r, NEW a, Knows(a), NEW op, NEW q, NEW expect, op # "read",
         NEW s, Plain(s, op, q, expect),
         NEW shown, NEW b, Outcome(r, a, s, shown, b), Fits(shown, expect), Knows(b),
         a.called \subseteq b.called, a.tokens \subseteq b.tokens
  PROVE  Goes({}, r, <<s>>, a, b)
  <1>1. Good({}, r, a, s, b)
    <2>1. Able(a, s) /\ DateFits(a, s, shown)
      BY PlainAble
    <2>2. s.op # "read" /\ s.expect = expect
      BY DEF Plain
    <2> QED BY <2>1, <2>2 DEF Good
  <1>2. IsStep(s)
    BY DEF Plain
  <1> QED BY <1>1, <1>2, GoesOne

LEMMA SeeingKnows ==
  ASSUME NEW a, Knows(a), NEW shown, NEW b, b = AfterSeeing(a, shown)
  PROVE  /\ Knows(b)
         /\ b.imported = a.imported /\ b.waived = a.waived /\ b.gone = a.gone /\ b.slots = a.slots
         /\ b.called = a.called /\ b.tokens = a.tokens /\ b.seen = shown
  BY DEF AfterSeeing, Know, Knows

(* A call that is refused as expected, and one that is only told something. *)
LEMMA GoesRefused ==
  ASSUME NEW r, NEW a, Knows(a), NEW op, NEW q, NEW code, op # "read",
         NEW s, Plain(s, op, q, Status(code)), RefusedAs(r, a, s, code)
  PROVE  Goes({}, r, <<s>>, a, AfterSeeing(a, Status(code)))
  <1> DEFINE shown == Status(code)
             b == AfterSeeing(a, shown)
  <1>1. Outcome(r, a, s, shown, b)
    BY DEF Outcome
  <1>2. Fits(shown, Status(code))
    BY DEF Fits
  <1> HIDE DEF b
  <1>3. Knows(b) /\ b.called = a.called /\ b.tokens = a.tokens
    BY SeeingKnows DEF b
  <1>4. Goes({}, r, <<s>>, a, b)
    BY <1>1, <1>2, <1>3, GoesCall
  <1> QED BY <1>4 DEF b

LEMMA GoesTold ==
  ASSUME NEW r, NEW a, Knows(a), NEW op, NEW q, NEW expect, op # "read",
         NEW s, Plain(s, op, q, expect), NEW shown, Told(r, a, s, shown), Fits(shown, expect)
  PROVE  Goes({}, r, <<s>>, a, AfterSeeing(a, shown))
  <1> DEFINE b == AfterSeeing(a, shown)
  <1>1. Outcome(r, a, s, shown, b)
    BY DEF Outcome
  <1> HIDE DEF b
  <1>3. Knows(b) /\ b.called = a.called /\ b.tokens = a.tokens
    BY SeeingKnows DEF b
  <1>4. Goes({}, r, <<s>>, a, b)
    BY <1>1, <1>3, GoesCall
  <1> QED BY <1>4 DEF b

(* Another look at the last reply. *)
LEMMA GoesRead ==
  ASSUME NEW r, NEW a, Knows(a), NEW expect, Fits(a.seen, expect)
  PROVE  Goes({}, r, <<Read(expect)>>, a, a)
  <1> DEFINE s == Read(expect)
  <1>1. Plain(s, "read", <<>>, expect)
    BY DoPlain DEF Read
  <1> HIDE DEF s
  <1>2. Good({}, r, a, s, a) /\ IsStep(s)
    <2>1. Able(a, s)
      BY <1>1, PlainAble
    <2> QED BY <1>1, <2>1 DEF Good, Plain
  <1>3. Goes({}, r, <<s>>, a, a)
    BY <1>2, GoesOne
  <1> QED BY <1>3 DEF s

LEMMA FitsNothing == \A shown : Fits(shown, <<>>)
  BY DEF Fits

LEMMA PairJoined ==
  ASSUME NEW s, NEW t
  PROVE  <<s, t>> = <<s>> \o <<t>>
  <1> DEFINE x == <<s>>
             y == <<t>>
             z == <<s, t>>
             w == x \o y
  <1>1. IsSeq(x) /\ Len(x) = 1 /\ x[1] = s /\ IsSeq(y) /\ Len(y) = 1 /\ y[1] = t
    BY DEF IsSeq
  <1>2. z = [i \in 1 .. 2 |-> z[i]] /\ z[1] = s /\ z[2] = t
    OBVIOUS
  <1> HIDE DEF x, y, z
  <1>6. /\ IsSeq(w) /\ Len(w) = Len(x) + Len(y)
        /\ \A i \in 1 .. Len(x) : w[i] = x[i]
        /\ \A i \in 1 .. Len(y) : w[Len(x) + i] = y[i]
    <2>1. IsSeq(x) /\ IsSeq(y)
      BY <1>1
    <2> QED BY ONLY <2>1, JoinedSeq
  <1> HIDE DEF w
  <1>3. IsSeq(w) /\ Len(w) = 2 /\ w[1] = s /\ w[2] = t
    BY <1>1, <1>6
  <1>4. \A i \in 1 .. 2 : w[i] = z[i]
    <2>1. \A i \in 1 .. 2 : i = 1 \/ i = 2
      OBVIOUS
    <2> QED BY <1>2, <1>3, <2>1
  <1>5. w = z
    BY <1>2, <1>3, <1>4 DEF IsSeq
  <1> QED BY <1>5 DEF x, y, z, w

LEMMA GoesTwo ==
  ASSUME NEW r, NEW s, NEW t, NEW a, NEW b, NEW c, Goes({}, r, <<s>>, a, b), Goes({}, r, <<t>>, b, c)
  PROVE  Goes({}, r, <<s, t>>, a, c)
  <1>1. <<s, t>> = <<s>> \o <<t>>
    BY PairJoined
  <1>2. Goes({}, r, <<s>> \o <<t>>, a, c)
    BY GoesOn
  <1> QED BY <1>1, <1>2

LEMMA GoesThree ==
  ASSUME NEW r, NEW s, NEW t, NEW u, NEW a, NEW b, NEW c, NEW d,
         Goes({}, r, <<s>>, a, b), Goes({}, r, <<t>>, b, c), Goes({}, r, <<u>>, c, d)
  PROVE  Goes({}, r, <<s, t, u>>, a, d)
  <1>1. <<s, t, u>> = <<s, t>> \o <<u>>
    OBVIOUS
  <1>2. Goes({}, r, <<s, t>> \o <<u>>, a, d)
    BY GoesTwo, GoesOn
  <1> QED BY <1>1, <1>2

LEMMA GoesFour ==
  ASSUME NEW r, NEW s, NEW t, NEW u, NEW v, NEW a, NEW b, NEW c, NEW d, NEW e,
         Goes({}, r, <<s>>, a, b), Goes({}, r, <<t>>, b, c), Goes({}, r, <<u>>, c, d), Goes({}, r, <<v>>, d, e)
  PROVE  Goes({}, r, <<s, t, u, v>>, a, e)
  <1>1. <<s, t, u, v>> = <<s, t, u>> \o <<v>>
    OBVIOUS
  <1>2. Goes({}, r, <<s, t, u>> \o <<v>>, a, e)
    BY GoesThree, GoesOn
  <1> QED BY <1>1, <1>2

(* What calls leave of what was known before. *)
FreshSlot(m) == SlotKnowledge(m, "fresh", <<>>, FALSE)

Keeps(a, b) ==
    /\ Knows(a) /\ Knows(b)
    /\ b.imported = a.imported /\ b.waived = a.waived /\ b.gone = a.gone
    /\ a.called \subseteq b.called /\ a.tokens \subseteq b.tokens
Same(a, b) == Keeps(a, b) /\ b.slots = a.slots
Changes(a, b, x, v) == Keeps(a, b) /\ b.slots[x] = v /\ \A y \in Slots \ {x} : b.slots[y] = a.slots[y]

LEMMA SeeingSame ==
  ASSUME NEW a, Knows(a), NEW shown, NEW b, b = AfterSeeing(a, shown)
  PROVE  Same(a, b) /\ b.seen = shown
  BY SeeingKnows DEF Same, Keeps

(* Between two checks: the package is there, the first session is launched, *)
(* and what has been waived and abandoned is known.                         *)
Steady(a, waived, gone) ==
    /\ Knows(a) /\ a.imported /\ a.waived = waived /\ a.gone = gone
    /\ "initial" \in a.called /\ a.slots["initial"].moveOn = "CompletedAndPassed"

LEMMA SteadySame ==
  ASSUME NEW a, NEW b, NEW waived, NEW gone, Steady(a, waived, gone), Same(a, b)
  PROVE  Steady(b, waived, gone)
  BY DEF Steady, Same, Keeps

LEMMA SteadyChange ==
  ASSUME NEW a, NEW b, NEW waived, NEW gone, Steady(a, waived, gone),
         NEW x, NEW v, Changes(a, b, x, v), x # "initial"
  PROVE  Steady(b, waived, gone)
  BY SlotList DEF Steady, Changes, Keeps

(* The calls one by one.  A launch of a session of its own: *)
LaunchQ(q, r, x, m) ==
    /\ q.package = PackageId[r] /\ q.flaw = "none" /\ q.moveOn = m
    /\ q.session = Own(r, x) /\ q.registration = Own(r, x)

LaunchShown(r, x, m) == [status |-> 200, session |-> Own(r, x), registration |-> Own(r, x), moveOn |-> m]
FreshIn(a, b, r, x, m) == Changes(a, b, x, FreshSlot(m)) /\ x \in b.called /\ b.seen = LaunchShown(r, x, m)

LEMMA LaunchingIs ==
  ASSUME NEW r, NEW x
  PROVE  /\ LaunchQ(Launching(r, x), r, x, "CompletedAndPassed")
         /\ \A m : LaunchQ([Launching(r, x) EXCEPT !.moveOn = m], r, x, m)
  BY DEF LaunchQ, Launching, LaunchOf

LEMMA AfterLaunchIs ==
  ASSUME NEW a, Knows(a), NEW x \in Slots, NEW v, NEW shown, NEW b, b = AfterLaunch(a, x, v, shown)
  PROVE  Changes(a, b, x, v) /\ x \in b.called /\ b.seen = shown
  <1>1. /\ b.imported = a.imported /\ b.waived = a.waived /\ b.gone = a.gone
        /\ b.slots = [a.slots EXCEPT ![x] = v] /\ b.called = a.called \union {x}
        /\ b.tokens = a.tokens /\ b.seen = shown
    BY DEF AfterLaunch, Know, SlotAfter
  <1>2. Knows(b) /\ b.slots[x] = v /\ \A y \in Slots \ {x} : b.slots[y] = a.slots[y]
    BY <1>1 DEF Knows
  <1> QED BY <1>1, <1>2 DEF Changes, Keeps

LEMMA GoesLaunch ==
  ASSUME NEW r, NEW a, Knows(a), a.imported, NEW x \in Slots \ a.gone, NEW m \in AllMoveOns,
         NEW q, LaunchQ(q, r, x, m), NEW expect, Fits(LaunchShown(r, x, m), expect)
  PROVE  \E b : Goes({}, r, <<Do("launch", q, expect)>>, a, b) /\ FreshIn(a, b, r, x, m)
  <1> DEFINE s == Do("launch", q, expect)
             shown == LaunchShown(r, x, m)
             b == AfterLaunch(a, x, FreshSlot(m), shown)
  <1>1. Plain(s, "launch", q, expect)
    BY DoPlain
  <1> HIDE DEF s
  <1>2. LaunchDone(r, a, s, shown, b)
    <2>1. s.op = "launch" /\ s.q = q
      BY <1>1 DEF Plain
    <2> HIDE DEF b
    <2>2. shown = [status |-> 200, session |-> Own(r, x), registration |-> Own(r, x), moveOn |-> s.q.moveOn]
      BY <2>1 DEF LaunchQ, LaunchShown
    <2>3. b = AfterLaunch(a, x, SlotKnowledge(s.q.moveOn, "fresh", <<>>, FALSE), shown)
      BY <2>1 DEF LaunchQ, b, FreshSlot
    <2> HIDE DEF shown
    <2> QED BY <2>1, <2>2, <2>3 DEF LaunchDone, Clean, LaunchQ
  <1>3. Outcome(r, a, s, shown, b)
    BY <1>2 DEF Outcome, Done
  <1> HIDE DEF b
  <1>4. Changes(a, b, x, FreshSlot(m)) /\ x \in b.called /\ b.seen = shown
    BY AfterLaunchIs DEF b
  <1> HIDE DEF shown
  <1>5. Knows(b) /\ a.called \subseteq b.called /\ a.tokens \subseteq b.tokens
    BY <1>4 DEF Changes, Keeps
  <1>6. Goes({}, r, <<s>>, a, b)
    BY <1>1, <1>3, <1>5, GoesCall DEF shown
  <1>7. FreshIn(a, b, r, x, m)
    BY <1>4 DEF FreshIn, shown
  <1> QED BY <1>6, <1>7 DEF s

(* A fetch token exchanged. *)
HeldIn(a, b, x) ==
    /\ Changes(a, b, x, SlotKnowledge(a.slots[x].moveOn, "held", a.slots[x].log, FALSE))
    /\ x \in b.tokens

LEMMA AfterFetchIs ==
  ASSUME NEW a, Knows(a), NEW x \in Slots, NEW shown, NEW b, b = AfterFetch(a, x, shown)
  PROVE  HeldIn(a, b, x)
  <1> DEFINE v == SlotKnowledge(a.slots[x].moveOn, "held", a.slots[x].log, FALSE)
  <1>1. /\ b.imported = a.imported /\ b.waived = a.waived /\ b.gone = a.gone
        /\ b.slots = [a.slots EXCEPT ![x] = v] /\ b.called = a.called
        /\ b.tokens = a.tokens \union {x}
    BY DEF AfterFetch, Know, SlotAfter
  <1> HIDE DEF v
  <1>2. Knows(b) /\ b.slots[x] = v /\ \A y \in Slots \ {x} : b.slots[y] = a.slots[y]
    BY <1>1 DEF Knows
  <1>3. Changes(a, b, x, v)
    BY <1>1, <1>2 DEF Changes, Keeps
  <1> QED BY <1>1, <1>3 DEF HeldIn, v

LEMMA GoesExchange ==
  ASSUME NEW r, NEW a, Knows(a), NEW x \in Slots, a.slots[x].moveOn # "none", a.slots[x].access = "fresh"
  PROVE  \E b : Goes({}, r, <<Exchange(r, x)>>, a, b) /\ HeldIn(a, b, x)
  <1> DEFINE q == [session |-> Own(r, x), token |-> Own(r, x)]
             s == Exchange(r, x)
             b == AfterFetch(a, x, Ok)
  <1>1. Plain(s, "fetch", q, Status(200))
    BY DoPlain DEF Exchange
  <1> HIDE DEF s, b
  <1>2. Outcome(r, a, s, Ok, b)
    <2>1. s.op = "fetch" /\ s.q.session = Own(r, x) /\ s.q.token = Own(r, x)
      BY <1>1 DEF Plain
    <2>2. FetchDone(r, a, s, Ok, b)
      BY <2>1 DEF FetchDone, b
    <2> QED BY <2>2 DEF Outcome, Done
  <1>3. HeldIn(a, b, x)
    BY AfterFetchIs DEF b
  <1>4. Knows(b) /\ a.called \subseteq b.called /\ a.tokens \subseteq b.tokens
    BY <1>3 DEF HeldIn, Changes, Keeps
  <1>5. Fits(Ok, Status(200))
    BY DEF Fits, Ok, Status
  <1> HIDE DEF q
  <1>6. Goes({}, r, <<s>>, a, b)
    BY <1>1, <1>2, <1>4, <1>5, GoesCall
  <1> QED BY <1>3, <1>6 DEF s

(* A statement stored. *)
SaidIn(a, b, x, verb, noted) ==
    Changes(a, b, x, SlotKnowledge(a.slots[x].moveOn, "held", Append(a.slots[x].log, verb), noted))

LEMMA AfterPostIs ==
  ASSUME NEW a, Knows(a), NEW x \in Slots, NEW verb, NEW noted, NEW shown, NEW b, b = AfterPost(a, x, verb, noted, shown)
  PROVE  SaidIn(a, b, x, verb, noted)
  <1> DEFINE v == SlotKnowledge(a.slots[x].moveOn, "held", Append(a.slots[x].log, verb), noted)
  <1>1. /\ b.imported = a.imported /\ b.waived = a.waived /\ b.gone = a.gone
        /\ b.slots = [a.slots EXCEPT ![x] = v] /\ b.called = a.called /\ b.tokens = a.tokens
    BY DEF AfterPost, Know, SlotAfter
  <1> HIDE DEF v
  <1>2. Knows(b) /\ b.slots[x] = v /\ \A y \in Slots \ {x} : b.slots[y] = a.slots[y]
    BY <1>1 DEF Knows
  <1>3. Changes(a, b, x, v)
    BY <1>1, <1>2 DEF Changes, Keeps
  <1> QED BY <1>3 DEF SaidIn, v

LEMMA StatementIs ==
  ASSUME NEW r, NEW x, NEW verb, NEW id, NEW code, NEW s, s = Statement(r, x, verb, id, code),
         NEW a, Held(a, x), x \notin a.gone
  PROVE  Plain(s, "post", s.q, Status(code)) /\ Posts(r, a, s, x) /\ s.q.verb = verb /\ s.q.id = id
  <1> DEFINE q == [session |-> Own(r, x), registration |-> Own(r, x), verb |-> verb,
                   token |-> TokenOf(r, x), id |-> id]
  <1>1. Plain(s, "post", q, Status(code))
    BY DoPlain DEF Statement
  <1>2. s.op = "post" /\ s.q = q
    BY <1>1 DEF Plain
  <1>3. Posts(r, a, s, x)
    BY <1>2 DEF Posts
  <1>4. s.q.verb = verb /\ s.q.id = id
    BY <1>2
  <1> HIDE DEF q
  <1> QED BY <1>1, <1>2, <1>3, <1>4

LEMMA SaidGood ==
  ASSUME NEW r, NEW a, NEW x \in Slots \ a.gone, Held(a, x),
         NEW verb, AcceptsVerb(a.slots[x].moveOn, a.slots[x].log, verb),
         NEW id, id = NoId \/ (id = r /\ ~a.slots[x].noted),
         NEW b, b = AfterPost(a, x, verb, a.slots[x].noted \/ id = r, Ok)
  PROVE  Good({}, r, a, Statement(r, x, verb, id, 200), b) /\ IsStep(Statement(r, x, verb, id, 200))
  <1> DEFINE s == Statement(r, x, verb, id, 200)
  <1> HIDE DEF s
  <1>1. Plain(s, "post", s.q, Status(200)) /\ Posts(r, a, s, x) /\ s.q.verb = verb /\ s.q.id = id
    BY StatementIs DEF s
  <1>2. s.op # "read" /\ s.expect = Status(200) /\ IsStep(s)
    BY <1>1 DEF Plain
  <1>3. PostDone(r, a, s, Ok, b)
    BY <1>1, <1>2 DEF PostDone
  <1>4. Outcome(r, a, s, Ok, b)
    BY <1>3 DEF Outcome, Done
  <1>5. Fits(Ok, Status(200))
    BY DEF Fits, Ok, Status
  <1>6. Able(a, s) /\ DateFits(a, s, Ok)
    BY <1>1, PlainAble
  <1>7. Good({}, r, a, s, b)
    BY <1>2, <1>4, <1>5, <1>6 DEF Good
  <1> QED BY <1>2, <1>7 DEF s

LEMMA GoesStatement ==
  ASSUME NEW r, NEW a, Knows(a), NEW x \in Slots \ a.gone, Held(a, x),
         NEW verb, AcceptsVerb(a.slots[x].moveOn, a.slots[x].log, verb),
         NEW id, id = NoId \/ (id = r /\ ~a.slots[x].noted)
  PROVE  \E b : /\ Goes({}, r, <<Statement(r, x, verb, id, 200)>>, a, b)
                /\ SaidIn(a, b, x, verb, a.slots[x].noted \/ id = r)
  <1> DEFINE s == Statement(r, x, verb, id, 200)
             noted == a.slots[x].noted \/ id = r
             b == AfterPost(a, x, verb, noted, Ok)
  <1>1. Good({}, r, a, s, b) /\ IsStep(s)
    BY SaidGood
  <1> HIDE DEF b, s, noted
  <1>2. SaidIn(a, b, x, verb, noted)
    BY AfterPostIs DEF b
  <1>3. Knows(b) /\ a.called \subseteq b.called /\ a.tokens \subseteq b.tokens
    BY <1>2 DEF SaidIn, Changes, Keeps
  <1>4. Goes({}, r, <<s>>, a, b)
    BY <1>1, <1>3, GoesOne
  <1> QED BY <1>2, <1>4 DEF s, noted

(* The calls that are refused, and leave everything as it was. *)
LEMMA GoesRefusal ==
  ASSUME NEW r, NEW a, Knows(a), NEW op, op # "read", NEW q, NEW code, NEW s, Plain(s, op, q, Status(code)),
         RefusedAs(r, a, s, code)
  PROVE  \E b : Goes({}, r, <<s>>, a, b) /\ Same(a, b)
  <1> DEFINE b == AfterSeeing(a, Status(code))
  <1>1. Goes({}, r, <<s>>, a, b)
    BY GoesRefused
  <1>2. Same(a, b)
    BY SeeingSame
  <1> HIDE DEF b
  <1> QED BY <1>1, <1>2

LEMMA ImportRefused ==
  ASSUME NEW r, NEW a, Knows(a), NEW upload, ~PackageAccepted(upload)
  PROVE  \E b : Goes({}, r, <<Do("import", Import(r, upload), Status(400))>>, a, b) /\ Same(a, b)
  <1> DEFINE q == Import(r, upload)
             s == Do("import", q, Status(400))
  <1>1. Plain(s, "import", q, Status(400))
    BY DoPlain
  <1> HIDE DEF s
  <1>2. s.op = "import" /\ s.q.upload = upload
    BY <1>1 DEF Plain, Import
  <1>3. RefusedAs(r, a, s, 400)
    BY <1>2 DEF RefusedAs, Refused400
  <1> HIDE DEF q
  <1>4. \E b : Goes({}, r, <<s>>, a, b) /\ Same(a, b)
    BY <1>1, <1>3, GoesRefusal
  <1> QED BY <1>4 DEF s, q

LaunchFlawed(r, a, q, code) ==
    \/ code = 400 /\ q.flaw = "package"
    \/ code = 400 /\ q.flaw = "mode" /\ q.package = PackageId[r] /\ a.imported
    \/ /\ code = 400 /\ q.flaw = "field" /\ q.package = PackageId[r] /\ a.imported
       /\ \E x \in Slots \ a.gone : q.session = Own(r, x)
    \/ code = 404 /\ q.flaw = "none" /\ q.package = MissingPackage

LEMMA LaunchRefused ==
  ASSUME NEW r, NEW a, Knows(a), NEW q, NEW code, LaunchFlawed(r, a, q, code)
  PROVE  \E b : Goes({}, r, <<Do("launch", q, Status(code))>>, a, b) /\ Same(a, b)
  <1> DEFINE s == Do("launch", q, Status(code))
  <1>1. Plain(s, "launch", q, Status(code))
    BY DoPlain
  <1> HIDE DEF s
  <1>2. s.op = "launch" /\ s.q = q
    BY <1>1 DEF Plain
  <1>3. RefusedAs(r, a, s, code)
    BY <1>2 DEF LaunchFlawed, RefusedAs, Refused400, Refused404
  <1>4. \E b : Goes({}, r, <<s>>, a, b) /\ Same(a, b)
    BY <1>1, <1>3, GoesRefusal
  <1> QED BY <1>4 DEF s

FetchAstray(r, session, token, code) ==
    \/ code = 400 /\ session = NoSession
    \/ code = 404 /\ token = Missing /\ \E x \in Slots : session = Own(r, x)
    \/ code = 404 /\ session = Missing /\ token # NoSession

LEMMA FetchRefused ==
  ASSUME NEW r, NEW a, Knows(a), NEW session, NEW token, NEW code, FetchAstray(r, session, token, code)
  PROVE  \E b : Goes({}, r, <<Do("fetch", [session |-> session, token |-> token], Status(code))>>, a, b) /\ Same(a, b)
  <1> DEFINE q == [session |-> session, token |-> token]
             s == Do("fetch", q, Status(code))
  <1>1. Plain(s, "fetch", q, Status(code))
    BY DoPlain
  <1> HIDE DEF s
  <1>2. s.op = "fetch" /\ s.q.session = session /\ s.q.token = token
    BY <1>1 DEF Plain
  <1>3. RefusedAs(r, a, s, code)
    BY <1>2 DEF FetchAstray, RefusedAs, Refused400, Refused404
  <1> HIDE DEF q
  <1>4. \E b : Goes({}, r, <<s>>, a, b) /\ Same(a, b)
    BY <1>1, <1>3, GoesRefusal
  <1> QED BY <1>4 DEF s, q

LEMMA ExchangeRefused ==
  ASSUME NEW r, NEW a, Knows(a), NEW x \in Slots, Held(a, x)
  PROVE  \E b : Goes({}, r, <<[Exchange(r, x) EXCEPT !.expect = Status(409)]>>, a, b) /\ Same(a, b)
  <1> DEFINE q == [session |-> Own(r, x), token |-> Own(r, x)]
             d == Exchange(r, x)
             s == [d EXCEPT !.expect = Status(409)]
  <1>1. Plain(d, "fetch", q, Status(200))
    BY DoPlain DEF Exchange
  <1> HIDE DEF d
  <1>2. Plain(s, "fetch", q, Status(409))
    BY <1>1 DEF Plain, IsStep, StepFields
  <1> HIDE DEF s
  <1>3. s.op = "fetch" /\ s.q.session = Own(r, x) /\ s.q.token = Own(r, x)
    BY <1>2 DEF Plain
  <1>4. RefusedAs(r, a, s, 409)
    BY <1>3 DEF RefusedAs, Refused409
  <1> HIDE DEF q
  <1>5. \E b : Goes({}, r, <<s>>, a, b) /\ Same(a, b)
    BY <1>2, <1>4, GoesRefusal
  <1> QED BY <1>5 DEF s, d

LEMMA OtherTokens ==
  ASSUME NEW r \in Runners, NEW x \in Slots
  PROVE  /\ Own(r, x) \in Sessions /\ Own(r, x) # NoSession /\ Own(r, x) # Missing /\ Own(r, x) # Explicit
         /\ NoToken # TokenOf(r, x) /\ ForeignToken # TokenOf(r, x)
         /\ \A y \in Slots \ {x} : TokenOf(r, y) # TokenOf(r, x)
  <1>1. Own(r, x) \in Sessions /\ Own(r, x) # Missing
    BY NamesAssumption, NamesApart DEF RunnerSessions, Own
  <1>2. Own(r, x) # NoSession /\ Own(r, x) # Explicit
    BY <1>1, SessionsAssumption, NamesApart DEF Own
  <1>3. \A y \in Slots \ {x} : Own(r, y) # Own(r, x)
    BY DEF Own
  <1> QED BY <1>1, <1>2, <1>3 DEF TokenOf, Token, NoToken, ForeignToken

(* A step after which everything is as it was. *)
Unmoved(r, s, a) == \E b : Goes({}, r, <<s>>, a, b) /\ Same(a, b)

LEMMA DataRefused ==
  ASSUME NEW r, NEW a, Knows(a), NEW x \in Slots, Held(a, x), NEW token, token # TokenOf(r, x)
  PROVE  /\ Unmoved(r, Data(r, x, token, Status(401)), a)
         /\ Unmoved(r, Get(r, x, token, Status(401)), a)
  <1> DEFINE q == [session |-> Own(r, x), token |-> token, id |-> NoId]
             p == [session |-> Own(r, x), token |-> token]
             s == Data(r, x, token, Status(401))
             t == Get(r, x, token, Status(401))
  <1>1. Plain(s, "data", q, Status(401)) /\ Plain(t, "get", p, Status(401))
    BY DoPlain DEF Data, Get
  <1> HIDE DEF s, t
  <1>2. /\ s.op = "data" /\ s.q.session = Own(r, x) /\ s.q.token = token
        /\ t.op = "get" /\ t.q.session = Own(r, x) /\ t.q.token = token
    BY <1>1 DEF Plain
  <1>3. RefusedAs(r, a, s, 401) /\ RefusedAs(r, a, t, 401)
    BY <1>2 DEF RefusedAs, Refused401
  <1> HIDE DEF q, p
  <1>4. /\ \E b : Goes({}, r, <<s>>, a, b) /\ Same(a, b)
        /\ \E b : Goes({}, r, <<t>>, a, b) /\ Same(a, b)
    BY <1>1, <1>3, GoesRefusal
  <1>5. Unmoved(r, s, a) /\ Unmoved(r, t, a)
    BY <1>4 DEF Unmoved
  <1> QED BY <1>5 DEF s, t

LEMMA StatementRefused ==
  ASSUME NEW r, NEW a, Knows(a), NEW x \in Slots \ a.gone, Held(a, x), NEW verb, NEW id,
         \/ id = r /\ a.slots[x].noted
         \/ id = NoId /\ ~AcceptsVerb(a.slots[x].moveOn, a.slots[x].log, verb)
  PROVE  \E b : Goes({}, r, <<Statement(r, x, verb, id, 409)>>, a, b) /\ Same(a, b)
  <1> DEFINE s == Statement(r, x, verb, id, 409)
  <1> HIDE DEF s
  <1>1. Plain(s, "post", s.q, Status(409)) /\ Posts(r, a, s, x) /\ s.q.verb = verb /\ s.q.id = id
    BY StatementIs DEF s
  <1>3. RefusedAs(r, a, s, 409)
    BY <1>1 DEF RefusedAs, Refused409
  <1>4. \E b : Goes({}, r, <<s>>, a, b) /\ Same(a, b)
    BY <1>1, <1>3, GoesRefusal
  <1> QED BY <1>4 DEF s

LEMMA UnknownRefused ==
  ASSUME NEW r, NEW a, Knows(a)
  PROVE  /\ \E b : Goes({}, r, <<Do("waive", [registration |-> NoRegistration], Status(400))>>, a, b) /\ Same(a, b)
         /\ \E b : Goes({}, r, <<Do("waive", [registration |-> Missing], Status(404))>>, a, b) /\ Same(a, b)
         /\ \E b : Goes({}, r, <<Do("abandon", [session |-> NoSession], Status(400))>>, a, b) /\ Same(a, b)
         /\ \E b : Goes({}, r, <<Do("abandon", [session |-> Missing], Status(404))>>, a, b) /\ Same(a, b)
  <1>1. ASSUME NEW op, NEW q, NEW code,
               \/ op = "waive" /\ code = 400 /\ q = [registration |-> NoRegistration]
               \/ op = "waive" /\ code = 404 /\ q = [registration |-> Missing]
               \/ op = "abandon" /\ code = 400 /\ q = [session |-> NoSession]
               \/ op = "abandon" /\ code = 404 /\ q = [session |-> Missing]
        PROVE  \E b : Goes({}, r, <<Do(op, q, Status(code))>>, a, b) /\ Same(a, b)
    <2> DEFINE s == Do(op, q, Status(code))
    <2>1. Plain(s, op, q, Status(code))
      BY DoPlain
    <2> HIDE DEF s
    <2>2. s.op = op /\ s.q = q
      BY <2>1 DEF Plain
    <2>3. RefusedAs(r, a, s, code) /\ op # "read"
      BY <1>1, <2>2 DEF RefusedAs, Refused400, Refused404
    <2>4. \E b : Goes({}, r, <<s>>, a, b) /\ Same(a, b)
      BY <2>1, <2>3, GoesRefusal
    <2> QED BY <2>4 DEF s
  <1> QED BY <1>1

(* The calls that are answered, and leave everything as it was. *)
LEMMA GoesAnswered ==
  ASSUME NEW r, NEW a, Knows(a), NEW op, op # "read", NEW q, NEW expect, NEW s, Plain(s, op, q, expect),
         NEW shown, Told(r, a, s, shown), Fits(shown, expect)
  PROVE  \E b : Goes({}, r, <<s>>, a, b) /\ Same(a, b)
  <1> DEFINE b == AfterSeeing(a, shown)
  <1>1. Goes({}, r, <<s>>, a, b)
    BY GoesTold
  <1>2. Same(a, b)
    BY SeeingSame
  <1> HIDE DEF b
  <1> QED BY <1>1, <1>2

LEMMA FixturesAnswered ==
  ASSUME NEW r, NEW a, Knows(a)
  PROVE  \E b : Goes({}, r, <<Do("fixtures", <<>>, Status(200))>>, a, b) /\ Same(a, b)
  <1> DEFINE s == Do("fixtures", <<>>, Status(200))
  <1>1. Plain(s, "fixtures", <<>>, Status(200))
    BY DoPlain
  <1> HIDE DEF s
  <1>2. Told(r, a, s, Ok)
    BY <1>1 DEF Told, Plain
  <1>3. Fits(Ok, Status(200))
    BY DEF Fits, Ok, Status
  <1>4. \E b : Goes({}, r, <<s>>, a, b) /\ Same(a, b)
    BY <1>1, <1>2, <1>3, GoesAnswered
  <1> QED BY <1>4 DEF s

LEMMA ReloadAnswered ==
  ASSUME NEW r, NEW a, Knows(a), a.imported
  PROVE  \E b : Goes({}, r, <<Do("reload", <<>>, [status |-> 200, loaded |-> TRUE])>>, a, b) /\ Same(a, b)
  <1> DEFINE shown == [status |-> 200, loaded |-> TRUE]
             s == Do("reload", <<>>, shown)
  <1>1. Plain(s, "reload", <<>>, shown)
    BY DoPlain
  <1> HIDE DEF s
  <1>2. Told(r, a, s, shown)
    BY <1>1 DEF Told, Plain
  <1>3. Fits(shown, shown)
    BY DEF Fits
  <1> HIDE DEF shown
  <1>4. \E b : Goes({}, r, <<s>>, a, b) /\ Same(a, b)
    BY <1>1, <1>2, <1>3, GoesAnswered
  <1> QED BY <1>4 DEF s, shown

ExplicitShown == [status |-> 200, session |-> Explicit, registration |-> Explicit]

LEMMA ExplicitAnswered ==
  ASSUME NEW r, NEW a, Knows(a), a.imported
  PROVE  \E b : Goes({}, r, <<Do("launch", LaunchOf(r, Explicit, Explicit), ExplicitShown)>>, a, b) /\ Same(a, b)
  <1> DEFINE q == LaunchOf(r, Explicit, Explicit)
             s == Do("launch", q, ExplicitShown)
  <1>1. Plain(s, "launch", q, ExplicitShown)
    BY DoPlain
  <1> HIDE DEF s
  <1>2. /\ s.op = "launch" /\ s.q.package = PackageId[r] /\ s.q.flaw = "none"
        /\ s.q.session = Explicit /\ s.q.registration = Explicit
    BY <1>1 DEF Plain, LaunchOf
  <1>3. Told(r, a, s, ExplicitShown)
    BY <1>2 DEF Told, Clean, ExplicitShown
  <1>4. Fits(ExplicitShown, ExplicitShown)
    BY DEF Fits
  <1> HIDE DEF q
  <1>5. \E b : Goes({}, r, <<s>>, a, b) /\ Same(a, b)
    BY <1>1, <1>3, <1>4, GoesAnswered
  <1> QED BY <1>5 DEF s, q

LEMMA DataAnswered ==
  ASSUME NEW r, NEW a, Knows(a), NEW x \in Slots \ a.gone, Held(a, x), NEW moveOn, a.slots[x].moveOn = moveOn
  PROVE  \E b : /\ Goes({}, r, <<Data(r, x, TokenOf(r, x),
                                      [status |-> 200, registration |-> Own(r, x), moveOn |-> moveOn])>>, a, b)
                /\ Same(a, b)
  <1> DEFINE q == [session |-> Own(r, x), token |-> TokenOf(r, x), id |-> NoId]
             shown == [status |-> 200, registration |-> Own(r, x), moveOn |-> moveOn]
             s == Data(r, x, TokenOf(r, x), shown)
  <1>1. Plain(s, "data", q, shown)
    BY DoPlain DEF Data
  <1> HIDE DEF s
  <1>2. s.op = "data" /\ s.q.session = Own(r, x) /\ s.q.token = TokenOf(r, x) /\ s.q.id = NoId
    BY <1>1 DEF Plain
  <1>3. Told(r, a, s, shown)
    BY <1>2 DEF Told
  <1>4. Fits(shown, shown)
    BY DEF Fits
  <1> HIDE DEF q, shown
  <1>5. \E b : Goes({}, r, <<s>>, a, b) /\ Same(a, b)
    BY <1>1, <1>3, <1>4, GoesAnswered
  <1> QED BY <1>5 DEF s, shown

LogShown(moveOn, log) ==
    [status |-> 200, verbs |-> log, count |-> Len(log), terminated |-> HasVerb(log, "terminated"),
     moveOnSatisfied |-> MoveOnSatisfied(moveOn, log)]

LEMMA GetAnswered ==
  ASSUME NEW r, NEW a, Knows(a), NEW x \in Slots \ a.gone, Held(a, x),
         NEW expect, Fits(LogShown(a.slots[x].moveOn, a.slots[x].log), expect)
  PROVE  \E b : Goes({}, r, <<Get(r, x, TokenOf(r, x), expect)>>, a, b) /\ Same(a, b)
  <1> DEFINE q == [session |-> Own(r, x), token |-> TokenOf(r, x)]
             shown == LogShown(a.slots[x].moveOn, a.slots[x].log)
             s == Get(r, x, TokenOf(r, x), expect)
  <1>1. Plain(s, "get", q, expect)
    BY DoPlain DEF Get
  <1> HIDE DEF s
  <1>2. s.op = "get" /\ s.q.session = Own(r, x) /\ s.q.token = TokenOf(r, x)
    BY <1>1 DEF Plain
  <1>3. Told(r, a, s, shown)
    BY <1>2 DEF Told, LogShown
  <1> HIDE DEF q, shown
  <1>4. \E b : Goes({}, r, <<s>>, a, b) /\ Same(a, b)
    BY <1>1, <1>3, GoesAnswered DEF shown
  <1> QED BY <1>4 DEF s

(* What has been said when the first i statements of a flow are stored. *)
Spoken(flow, i) == [j \in 1 .. i |-> flow[j]]
Sayable(moveOn, flow) == \A i \in 1 .. Len(flow) : AcceptsVerb(moveOn, Spoken(flow, i - 1), flow[i])

LEMMA SpokenIs ==
  ASSUME NEW flow \in Seq(Verbs)
  PROVE  /\ Spoken(flow, 0) = <<>>
         /\ Spoken(flow, Len(flow)) = flow
         /\ \A i \in 1 .. Len(flow) : Append(Spoken(flow, i - 1), flow[i]) = Spoken(flow, i)
  <1>1. Len(flow) \in Nat /\ DOMAIN flow = 1 .. Len(flow) /\ \A i \in 1 .. Len(flow) : flow[i] \in Verbs
    BY LenProperties, ElementOfSeq
  <1>2. Spoken(flow, 0) = <<>>
    BY DEF Spoken
  <1>3. Spoken(flow, Len(flow)) = flow
    BY <1>1 DEF Spoken
  <1>4. ASSUME NEW i \in 1 .. Len(flow)
        PROVE  Append(Spoken(flow, i - 1), flow[i]) = Spoken(flow, i)
    <2> DEFINE s == Spoken(flow, i - 1)
               t == Spoken(flow, i)
               u == Append(s, flow[i])
    <2>1. s \in [1 .. i - 1 -> Verbs] /\ t \in [1 .. i -> Verbs] /\ i - 1 \in Nat /\ i \in Nat
      BY <1>1 DEF Spoken
    <2>2. \A j \in 1 .. i - 1 : s[j] = flow[j]
      BY DEF Spoken
    <2>3. \A j \in 1 .. i : t[j] = flow[j]
      BY DEF Spoken
    <2> HIDE DEF s, t
    <2>4. s \in Seq(Verbs) /\ t \in Seq(Verbs) /\ Len(s) = i - 1 /\ Len(t) = i
      <3>1. s \in Seq(Verbs) /\ t \in Seq(Verbs)
        BY <2>1, SeqDef
      <3> QED BY <2>1, <3>1, LenProperties
    <2>5. u \in Seq(Verbs) /\ Len(u) = i /\ \A j \in 1 .. Len(u) : u[j] = IF j <= Len(s) THEN s[j] ELSE flow[i]
      BY <1>1, <2>1, <2>4, AppendProperties
    <2> HIDE DEF u
    <2>6. Len(u) = Len(t) /\ \A j \in 1 .. Len(u) : u[j] = t[j]
      BY <2>1, <2>2, <2>3, <2>4, <2>5
    <2>7. u = t
      BY <2>4, <2>5, <2>6, SeqEqual
    <2> QED BY <2>7 DEF u, s, t
  <1> QED BY <1>2, <1>3, <1>4

LEMMA StatementsGo ==
  ASSUME NEW r \in Runners, NEW a, Knows(a), NEW x \in Slots \ a.gone,
         NEW m, m # "none", a.slots[x] = SlotKnowledge(m, "held", <<>>, FALSE),
         NEW flow \in Seq(Verbs), Sayable(m, flow)
  PROVE  \E b : /\ Goes({}, r, Statements(r, x, flow), a, b)
                /\ Changes(a, b, x, SlotKnowledge(m, "held", flow, FALSE))
  <1> DEFINE n == Len(flow)
             v(i) == SlotKnowledge(m, "held", Spoken(flow, i), FALSE)
             said(i) == Know(a.imported, a.waived, a.gone, SlotAfter(a, x, v(i)), a.called, a.tokens, Ok)
             p == [i \in 0 .. n |-> IF i = 0 THEN a ELSE said(i)]
             S == Statements(r, x, flow)
  <1>1. n \in Nat /\ DOMAIN flow = 1 .. n
    BY LenProperties
  <1>2. /\ DOMAIN S = 1 .. n /\ S = [i \in 1 .. n |-> S[i]]
        /\ \A i \in 1 .. n : S[i] = Statement(r, x, flow[i], NoId, 200)
    BY <1>1 DEF Statements
  <1> HIDE DEF said
  <1>3. p[0] = a /\ \A i \in 0 .. n : i # 0 => p[i] = said(i)
    BY <1>1
  <1> HIDE DEF p, S
  <1>4. ASSUME NEW i \in 0 .. n
        PROVE  /\ Knows(p[i]) /\ p[i].imported = a.imported /\ p[i].waived = a.waived /\ p[i].gone = a.gone
               /\ p[i].called = a.called /\ p[i].tokens = a.tokens
               /\ p[i].slots[x] = v(i) /\ SlotAfter(p[i], x, v(i + 1)) = SlotAfter(a, x, v(i + 1))
               /\ \A y \in Slots \ {x} : p[i].slots[y] = a.slots[y]
    <2>1. CASE i = 0
      <3>1. p[i] = a /\ v(0) = a.slots[x]
        BY <1>3, <2>1, SpokenIs
      <3> QED BY <2>1, <3>1
    <2>2. CASE i # 0
      <3>1. p[i] = said(i)
        BY <1>3, <2>2
      <3> DEFINE c == p[i]
                 w == v(i)
                 z == v(i + 1)
      <3> HIDE DEF w, z
      <3>2. /\ c.imported = a.imported /\ c.waived = a.waived /\ c.gone = a.gone
            /\ c.called = a.called /\ c.tokens = a.tokens /\ c.slots = [a.slots EXCEPT ![x] = w]
        BY <3>1 DEF Know, SlotAfter, w, said
      <3> HIDE DEF c
      <3>3. Knows(c) /\ c.slots[x] = w /\ \A y \in Slots \ {x} : c.slots[y] = a.slots[y]
        BY <3>2 DEF Knows
      <3>4. SlotAfter(c, x, z) = SlotAfter(a, x, z)
        BY <3>2 DEF SlotAfter, Knows
      <3> QED BY <3>2, <3>3, <3>4 DEF c, w, z
    <2> QED BY <2>1, <2>2
  <1>5. ASSUME NEW i \in 1 .. n
        PROVE  Good({}, r, p[i - 1], S[i], p[i]) /\ IsStep(S[i])
    <2> DEFINE c == p[i - 1]
    <2>1. i - 1 \in 0 .. n /\ (i - 1) + 1 = i
      BY <1>1
    <2>2. /\ c.imported = a.imported /\ c.waived = a.waived /\ c.gone = a.gone
          /\ c.called = a.called /\ c.tokens = a.tokens
          /\ c.slots[x] = v(i - 1) /\ SlotAfter(c, x, v(i)) = SlotAfter(a, x, v(i))
      BY <1>4, <2>1
    <2>3. p[i] = said(i)
      <3>1. i \in 0 .. n /\ i # 0
        BY <1>1
      <3> QED BY <1>3, <3>1
    <2> HIDE DEF c
    <2>4. c.slots[x].moveOn = m /\ c.slots[x].access = "held" /\ c.slots[x].log = Spoken(flow, i - 1) /\ c.slots[x].noted = FALSE
      BY <2>2 DEF SlotKnowledge
    <2>5. NoId # r
      BY NamesAssumption, RequestIdsAssumption
    <2>6. AfterPost(c, x, flow[i], c.slots[x].noted \/ NoId = r, Ok) = said(i)
      <3>1. (c.slots[x].noted \/ NoId = r) = FALSE
        BY <2>4, <2>5
      <3>2. Append(c.slots[x].log, flow[i]) = Spoken(flow, i)
        BY <2>4, SpokenIs
      <3>3. AfterPost(c, x, flow[i], FALSE, Ok) = said(i)
        BY <2>2, <2>4, <3>2 DEF AfterPost, said
      <3> QED BY <3>1, <3>3
    <2>7. Held(c, x) /\ x \in Slots \ c.gone
      BY <2>2, <2>4 DEF Held
    <2>8. AcceptsVerb(c.slots[x].moveOn, c.slots[x].log, flow[i])
      BY <2>4 DEF Sayable
    <2>9. Good({}, r, c, Statement(r, x, flow[i], NoId, 200), p[i]) /\ IsStep(Statement(r, x, flow[i], NoId, 200))
      <3> DEFINE b == p[i]
      <3>1. b = AfterPost(c, x, flow[i], c.slots[x].noted \/ NoId = r, Ok)
        BY <2>3, <2>6
      <3> HIDE DEF b
      <3>2. Good({}, r, c, Statement(r, x, flow[i], NoId, 200), b) /\ IsStep(Statement(r, x, flow[i], NoId, 200))
        BY <2>7, <2>8, <3>1, SaidGood
      <3> QED BY <3>2 DEF b
    <2> QED BY <1>2, <2>9 DEF c
  <1> HIDE DEF v
  <1>6. IsSeq(S) /\ Len(S) = n
    <2>1. IsSeq(flow)
      BY <1>1 DEF IsSeq
    <2> QED BY <1>1, <1>2, <2>1, MappedSeq
  <1>7. Route({}, r, S, a, p)
    BY <1>3, <1>4, <1>5, <1>6 DEF Route
  <1>8. Goes({}, r, S, a, p[n])
    BY <1>5, <1>6, <1>7 DEF Goes
  <1>9. Changes(a, p[n], x, v(n))
    <2>1. n \in 0 .. n
      BY <1>1
    <2> QED BY <1>4, <2>1 DEF Changes, Keeps
  <1>10. v(n) = SlotKnowledge(m, "held", flow, FALSE)
    BY SpokenIs DEF v
  <1> QED BY <1>8, <1>9, <1>10 DEF S

(* The flows of the lifecycle matrix can be said, and end their sessions. *)
LEMMA SpokenVerb ==
  ASSUME NEW flow, NEW i, NEW v
  PROVE  HasVerb(Spoken(flow, i), v) <=> \E j \in 1 .. i : flow[j] = v
  BY DEF HasVerb, Spoken

LEMMA OpeningSayable ==
  ASSUME NEW flow, NEW m, flow[1] = "initialized", flow[2] = "launched"
  PROVE  /\ AcceptsVerb(m, Spoken(flow, 0), flow[1])
         /\ AcceptsVerb(m, Spoken(flow, 1), flow[2])
  <1>1. Spoken(flow, 0) = <<>>
    BY DEF Spoken
  <1>2. \A v : ~HasVerb(Spoken(flow, 0), v)
    BY SpokenVerb
  <1>3. \A v : HasVerb(Spoken(flow, 1), v) <=> v = "initialized"
    BY SpokenVerb
  <1> QED BY <1>1, <1>2, <1>3 DEF AcceptsVerb

LEMMA ProgressSayable ==
  ASSUME NEW flow, NEW m, flow[1] = "initialized", flow[2] = "launched", flow[3] \in {"progressed", "completed"}
  PROVE  AcceptsVerb(m, Spoken(flow, 2), flow[3])
  <1>1. \A v : HasVerb(Spoken(flow, 2), v) <=> v \in {"initialized", "launched"}
    <2>1. \A j \in 1 .. 2 : j = 1 \/ j = 2
      OBVIOUS
    <2> QED BY <2>1, SpokenVerb
  <1> QED BY <1>1 DEF AcceptsVerb

LEMMA LongFlowSayable ==
  ASSUME NEW flow, Len(flow) = 6, NEW m \in {"Passed", "Completed", "CompletedOrPassed"},
         flow[1] = "initialized", flow[2] = "launched", flow[3] = "progressed", flow[4] = "completed",
         flow[5] = IF m = "Completed" THEN "failed" ELSE "passed", flow[6] = "terminated"
  PROVE  Sayable(m, flow)
  <1>1. /\ AcceptsVerb(m, Spoken(flow, 0), flow[1]) /\ AcceptsVerb(m, Spoken(flow, 1), flow[2])
        /\ AcceptsVerb(m, Spoken(flow, 2), flow[3])
    BY OpeningSayable, ProgressSayable
  <1>2. \A v : HasVerb(Spoken(flow, 3), v) <=> v \in {"initialized", "launched", "progressed"}
    <2>1. \A j \in 1 .. 3 : j = 1 \/ j = 2 \/ j = 3
      OBVIOUS
    <2> QED BY <2>1, SpokenVerb
  <1>3. \A v : HasVerb(Spoken(flow, 4), v) <=> v \in {"initialized", "launched", "progressed", "completed"}
    <2>1. \A j \in 1 .. 4 : j = 1 \/ j = 2 \/ j = 3 \/ j = 4
      OBVIOUS
    <2> QED BY <2>1, SpokenVerb
  <1>4. \A v : HasVerb(Spoken(flow, 5), v) <=> v \in {"initialized", "launched", "progressed", "completed", flow[5]}
    <2>1. \A j \in 1 .. 5 : j = 1 \/ j = 2 \/ j = 3 \/ j = 4 \/ j = 5
      OBVIOUS
    <2> QED BY <2>1, SpokenVerb
  <1>5. AcceptsVerb(m, Spoken(flow, 3), flow[4])
    BY <1>2 DEF AcceptsVerb
  <1>6. AcceptsVerb(m, Spoken(flow, 4), flow[5])
    BY <1>3 DEF AcceptsVerb
  <1>7. AcceptsVerb(m, Spoken(flow, 5), flow[6])
    BY <1>4 DEF AcceptsVerb, MoveOnSatisfied
  <1>8. \A i \in 1 .. 6 : i = 1 \/ i = 2 \/ i = 3 \/ i = 4 \/ i = 5 \/ i = 6
    OBVIOUS
  <1> QED BY <1>1, <1>5, <1>6, <1>7, <1>8 DEF Sayable

LEMMA BothFlowSayable ==
  ASSUME NEW flow, Len(flow) = 5, NEW m, m = "CompletedAndPassed",
         flow[1] = "initialized", flow[2] = "launched", flow[3] = "completed", flow[4] = "passed", flow[5] = "terminated"
  PROVE  Sayable(m, flow)
  <1>1. /\ AcceptsVerb(m, Spoken(flow, 0), flow[1]) /\ AcceptsVerb(m, Spoken(flow, 1), flow[2])
        /\ AcceptsVerb(m, Spoken(flow, 2), flow[3])
    BY OpeningSayable, ProgressSayable
  <1>2. \A v : HasVerb(Spoken(flow, 3), v) <=> v \in {"initialized", "launched", "completed"}
    <2>1. \A j \in 1 .. 3 : j = 1 \/ j = 2 \/ j = 3
      OBVIOUS
    <2> QED BY <2>1, SpokenVerb
  <1>3. \A v : HasVerb(Spoken(flow, 4), v) <=> v \in {"initialized", "launched", "completed", "passed"}
    <2>1. \A j \in 1 .. 4 : j = 1 \/ j = 2 \/ j = 3 \/ j = 4
      OBVIOUS
    <2> QED BY <2>1, SpokenVerb
  <1>4. AcceptsVerb(m, Spoken(flow, 3), flow[4])
    BY <1>2 DEF AcceptsVerb
  <1>5. AcceptsVerb(m, Spoken(flow, 4), flow[5])
    BY <1>3 DEF AcceptsVerb, MoveOnSatisfied
  <1>6. \A i \in 1 .. 5 : i = 1 \/ i = 2 \/ i = 3 \/ i = 4 \/ i = 5
    OBVIOUS
  <1> QED BY <1>1, <1>4, <1>5, <1>6 DEF Sayable

LEMMA ShortFlowSayable ==
  ASSUME NEW flow, NEW m, flow[1] = "initialized", flow[2] = "launched", flow[3] = "progressed",
         \/ Len(flow) = 3
         \/ Len(flow) = 4 /\ flow[4] = "terminated" /\ m = "NotApplicable"
  PROVE  Sayable(m, flow)
  <1>1. /\ AcceptsVerb(m, Spoken(flow, 0), flow[1]) /\ AcceptsVerb(m, Spoken(flow, 1), flow[2])
        /\ AcceptsVerb(m, Spoken(flow, 2), flow[3])
    BY OpeningSayable, ProgressSayable
  <1>2. \A v : HasVerb(Spoken(flow, 3), v) <=> v \in {"initialized", "launched", "progressed"}
    <2>1. \A j \in 1 .. 3 : j = 1 \/ j = 2 \/ j = 3
      OBVIOUS
    <2> QED BY <2>1, SpokenVerb
  <1>3. Len(flow) = 4 => AcceptsVerb(m, Spoken(flow, 3), flow[4])
    BY <1>2 DEF AcceptsVerb, MoveOnSatisfied
  <1>4. \A i \in 1 .. 3 : i = 1 \/ i = 2 \/ i = 3
    OBVIOUS
  <1>5. \A i \in 1 .. 4 : i = 1 \/ i = 2 \/ i = 3 \/ i = 4
    OBVIOUS
  <1>6. CASE Len(flow) = 3
    BY <1>1, <1>4, <1>6 DEF Sayable
  <1>7. CASE Len(flow) = 4
    BY <1>1, <1>3, <1>5, <1>7 DEF Sayable
  <1> QED BY <1>6, <1>7

FirstWords == <<"initialized", "launched", "progressed">>

LEMMA FlowsSayable ==
  /\ \A m \in AllMoveOns : Sayable(m, Flow(m)) /\ HasVerb(Flow(m), "terminated") /\ MoveOnSatisfied(m, Flow(m))
  /\ \A m : Sayable(m, FirstWords)
  /\ Len(Flow("CompletedAndPassed")) = 5 /\ Len(FirstWords) = 3
  <1>1. ASSUME NEW m \in {"Passed", "Completed", "CompletedOrPassed"}
        PROVE  Sayable(m, Flow(m)) /\ HasVerb(Flow(m), "terminated") /\ MoveOnSatisfied(m, Flow(m))
    <2> DEFINE flow == Flow(m)
               fifth == IF m = "Completed" THEN "failed" ELSE "passed"
    <2>1. flow = <<"initialized", "launched", "progressed", "completed", fifth, "terminated">>
      BY DEF Flow
    <2> HIDE DEF flow
    <2>2. /\ Len(flow) = 6 /\ DOMAIN flow = 1 .. 6 /\ flow[1] = "initialized" /\ flow[2] = "launched"
          /\ flow[3] = "progressed" /\ flow[4] = "completed" /\ flow[5] = fifth /\ flow[6] = "terminated"
      BY <2>1
    <2>3. Sayable(m, flow)
      BY <2>2, LongFlowSayable
    <2>4. HasVerb(flow, "terminated") /\ HasVerb(flow, "completed") /\ (m # "Completed" => HasVerb(flow, "passed"))
      BY <2>2 DEF HasVerb
    <2>5. MoveOnSatisfied(m, flow)
      BY <2>4 DEF MoveOnSatisfied
    <2> QED BY <2>3, <2>4, <2>5 DEF flow
  <1>2. ASSUME NEW m, m = "CompletedAndPassed"
        PROVE  /\ Sayable(m, Flow(m)) /\ HasVerb(Flow(m), "terminated") /\ MoveOnSatisfied(m, Flow(m))
               /\ Len(Flow(m)) = 5
    <2> DEFINE flow == Flow(m)
    <2>1. flow = <<"initialized", "launched", "completed", "passed", "terminated">>
      BY <1>2 DEF Flow
    <2> HIDE DEF flow
    <2>2. /\ Len(flow) = 5 /\ DOMAIN flow = 1 .. 5 /\ flow[1] = "initialized" /\ flow[2] = "launched"
          /\ flow[3] = "completed" /\ flow[4] = "passed" /\ flow[5] = "terminated"
      BY <2>1
    <2>3. Sayable(m, flow)
      BY <1>2, <2>2, BothFlowSayable
    <2>4. HasVerb(flow, "terminated") /\ HasVerb(flow, "completed") /\ HasVerb(flow, "passed")
      BY <2>2 DEF HasVerb
    <2>5. MoveOnSatisfied(m, flow)
      BY <1>2, <2>4 DEF MoveOnSatisfied
    <2> QED BY <2>2, <2>3, <2>4, <2>5 DEF flow
  <1>3. ASSUME NEW m, m = "NotApplicable"
        PROVE  Sayable(m, Flow(m)) /\ HasVerb(Flow(m), "terminated") /\ MoveOnSatisfied(m, Flow(m))
    <2> DEFINE flow == Flow(m)
    <2>1. flow = <<"initialized", "launched", "progressed", "terminated">>
      BY <1>3 DEF Flow
    <2> HIDE DEF flow
    <2>2. /\ Len(flow) = 4 /\ DOMAIN flow = 1 .. 4 /\ flow[1] = "initialized" /\ flow[2] = "launched"
          /\ flow[3] = "progressed" /\ flow[4] = "terminated"
      BY <2>1
    <2>3. Sayable(m, flow)
      BY <1>3, <2>2, ShortFlowSayable
    <2>4. HasVerb(flow, "terminated")
      BY <2>2 DEF HasVerb
    <2>5. MoveOnSatisfied(m, flow)
      BY <1>3 DEF MoveOnSatisfied
    <2> QED BY <2>3, <2>4, <2>5 DEF flow
  <1>4. \A m : Sayable(m, FirstWords)
    <2>1. /\ Len(FirstWords) = 3 /\ FirstWords[1] = "initialized" /\ FirstWords[2] = "launched"
          /\ FirstWords[3] = "progressed"
      BY DEF FirstWords
    <2> QED BY <2>1, ShortFlowSayable
  <1>5. Len(FirstWords) = 3
    BY DEF FirstWords
  <1>6. \A m \in AllMoveOns : m \in {"Passed", "Completed", "CompletedOrPassed"} \/ m = "CompletedAndPassed" \/ m = "NotApplicable"
    BY DEF AllMoveOns
  <1> QED BY <1>1, <1>2, <1>3, <1>4, <1>5, <1>6

(***************************************************************************)
(* The checks one after another.  Each carries what is known between two   *)
(* checks to what is known between the next two.                           *)
(***************************************************************************)
Carries(E, r, S, waived, gone, waived2, gone2) ==
    \A a : Steady(a, waived, gone) => \E b : Goes(E, r, S, a, b) /\ Steady(b, waived2, gone2)

LEMMA CarriesOn ==
  ASSUME NEW E, NEW r, NEW S, NEW T, NEW w1, NEW g1, NEW w2, NEW g2, NEW w3, NEW g3,
         Carries(E, r, S, w1, g1, w2, g2), Carries(E, r, T, w2, g2, w3, g3)
  PROVE  Carries(E, r, S \o T, w1, g1, w3, g3)
  <1> SUFFICES ASSUME NEW a, Steady(a, w1, g1)
               PROVE  \E c : Goes(E, r, S \o T, a, c) /\ Steady(c, w3, g3)
    BY DEF Carries
  <1>1. PICK b : Goes(E, r, S, a, b) /\ Steady(b, w2, g2)
    BY DEF Carries
  <1>2. PICK c : Goes(E, r, T, b, c) /\ Steady(c, w3, g3)
    BY <1>1 DEF Carries
  <1>3. Goes(E, r, S \o T, a, c)
    BY <1>1, <1>2, GoesOn
  <1> QED BY <1>2, <1>3

LEMMA CarriesExcused ==
  ASSUME NEW E, NEW r, NEW S, NEW w1, NEW g1, NEW w2, NEW g2, Carries({}, r, S, w1, g1, w2, g2)
  PROVE  Carries(E, r, S, w1, g1, w2, g2)
  <1> SUFFICES ASSUME NEW a, Steady(a, w1, g1)
               PROVE  \E b : Goes(E, r, S, a, b) /\ Steady(b, w2, g2)
    BY DEF Carries
  <1>1. PICK b : Goes({}, r, S, a, b) /\ Steady(b, w2, g2)
    BY DEF Carries
  <1>2. Goes(E, r, S, a, b)
    BY <1>1, GoesExcused
  <1> QED BY <1>1, <1>2

LEMMA CarriesCheck ==
  ASSUME NEW r, NEW S, NEW w1, NEW g1, NEW w2, NEW g2, Carries({}, r, S, w1, g1, w2, g2), NEW name
  PROVE  Carries({}, r, Check(name, S), w1, g1, w2, g2)
  <1> SUFFICES ASSUME NEW a, Steady(a, w1, g1)
               PROVE  \E b : Goes({}, r, Check(name, S), a, b) /\ Steady(b, w2, g2)
    BY DEF Carries
  <1>1. PICK b : Goes({}, r, S, a, b) /\ Steady(b, w2, g2)
    BY DEF Carries
  <1>2. Goes({}, r, Check(name, S), a, b)
    BY <1>1, GoesCheck
  <1> QED BY <1>1, <1>2

LEMMA CarriesCheckIf ==
  ASSUME NEW r, NEW S, NEW w, NEW g, NEW possible \in BOOLEAN, NEW name, Carries({}, r, S, w, g, w, g)
  PROVE  Carries({}, r, CheckIf(possible, name, S), w, g, w, g)
  <1>1. CASE possible
    BY <1>1, CarriesCheck DEF CheckIf
  <1>2. CASE ~possible
    <2> SUFFICES ASSUME NEW a, Steady(a, w, g)
                 PROVE  \E b : Goes({}, r, CheckIf(possible, name, S), a, b) /\ Steady(b, w, g)
      BY DEF Carries
    <2>1. Goes({}, r, Skip(name), a, a)
      BY GoesSkip DEF Steady
    <2> QED BY <1>2, <2>1 DEF CheckIf
  <1> QED BY <1>1, <1>2

LEMMA CarriesInner ==
  ASSUME NEW r, NEW S, NEW w1, NEW g1, NEW w2, NEW g2, Carries({}, r, S, w1, g1, w2, g2)
  PROVE  Carries({}, r, Inner(S), w1, g1, w2, g2)
  <1> SUFFICES ASSUME NEW a, Steady(a, w1, g1)
               PROVE  \E b : Goes({}, r, Inner(S), a, b) /\ Steady(b, w2, g2)
    BY DEF Carries
  <1>1. PICK b : Goes({}, r, S, a, b) /\ Steady(b, w2, g2)
    BY DEF Carries
  <1>2. Goes({}, r, Inner(S), a, b)
    BY <1>1, GoesInner DEF Steady
  <1> QED BY <1>1, <1>2

(* The calls made before a package is there. *)
LEMMA GoodIsAccepted ==
  /\ PackageAccepted(GoodPackage) /\ ~PackageAccepted(BadPackage)
  /\ \A i \in 1 .. 4 : ~PackageAccepted(MalformedPackages[i])
  /\ Len(MalformedPackages) = 4 /\ DOMAIN MalformedPackages = 1 .. 4
  <1> DEFINE M == MalformedPackages
  <1>1. PackageAccepted(GoodPackage)
    BY DEF PackageAccepted, GoodPackage, AllMoveOns
  <1>2. ~PackageAccepted(BadPackage)
    BY DEF PackageAccepted, GoodPackage, BadPackage
  <1>3. /\ ~M[1].manifest /\ ~M[2].manifest /\ M[3] = BadPackage
        /\ M[4].aus = <<[id |-> 1, moveOn |-> "Any"]>> /\ Len(M) = 4 /\ DOMAIN M = 1 .. 4
    <2> DEFINE m1 == [GoodPackage EXCEPT !.manifest = FALSE, !.aus = <<>>]
               m2 == [GoodPackage EXCEPT !.manifest = FALSE]
               m4 == [GoodPackage EXCEPT !.aus = <<[id |-> 1, moveOn |-> "Any"]>>]
    <2>1. M = <<m1, m2, BadPackage, m4>>
      BY DEF MalformedPackages
    <2>2. ~m1.manifest /\ ~m2.manifest /\ m4.aus = <<[id |-> 1, moveOn |-> "Any"]>>
      BY DEF GoodPackage
    <2> HIDE DEF M, m1, m2, m4
    <2> QED BY <2>1, <2>2
  <1>4. ~PackageAccepted(M[4])
    <2>1. 1 \in DOMAIN M[4].aus /\ M[4].aus[1].moveOn \notin AllMoveOns
      BY <1>3 DEF AllMoveOns
    <2> HIDE DEF M
    <2> QED BY <2>1 DEF PackageAccepted
  <1> HIDE DEF M
  <1>5. \A i \in 1 .. 4 : i = 1 \/ i = 2 \/ i = 3 \/ i = 4
    OBVIOUS
  <1>6. ~PackageAccepted(M[1]) /\ ~PackageAccepted(M[2]) /\ ~PackageAccepted(M[3])
    BY <1>2, <1>3 DEF PackageAccepted
  <1>7. \A i \in 1 .. 4 : ~PackageAccepted(M[i])
    BY <1>4, <1>5, <1>6
  <1> QED BY <1>1, <1>2, <1>3, <1>7 DEF M

LEMMA SameTwice ==
  ASSUME NEW a, NEW b, NEW c, Same(a, b), Same(b, c)
  PROVE  Same(a, c)
  BY DEF Same, Keeps

LEMMA SameKnows == \A a, b : Same(a, b) => Knows(b)
  BY DEF Same, Keeps

LEMMA SameSelf ==
  ASSUME NEW a, Knows(a)
  PROVE  Same(a, a)
  BY DEF Same, Keeps

LEMMA StructureGoes ==
  ASSUME NEW r, NEW a, Knows(a), NEW offers
  PROVE  \E b : Goes({}, r, StructureMatrix(r, offers), a, b) /\ Same(a, b)
  <1> DEFINE bad(i) == Do("import", Import(r, MalformedPackages[i]), Status(400))
             steps == [i \in DOMAIN MalformedPackages |-> bad(i)]
             possible == "structure" \in offers
  <1>1. \A i \in 1 .. 4 : \A x : Knows(x) => \E y : Goes({}, r, <<bad(i)>>, x, y) /\ Same(x, y)
    BY GoodIsAccepted, ImportRefused
  <1>2. steps = <<bad(1), bad(2), bad(3), bad(4)>>
    <2> HIDE DEF bad
    <2> QED BY GoodIsAccepted
  <1> HIDE DEF bad, steps
  <1>3. PICK b : Goes({}, r, <<bad(1)>>, a, b) /\ Same(a, b)
    BY <1>1
  <1>4. PICK c : Goes({}, r, <<bad(2)>>, b, c) /\ Same(b, c)
    BY <1>1, <1>3, SameKnows
  <1>5. PICK d : Goes({}, r, <<bad(3)>>, c, d) /\ Same(c, d)
    BY <1>1, <1>4, SameKnows
  <1>6. PICK e : Goes({}, r, <<bad(4)>>, d, e) /\ Same(d, e)
    BY <1>1, <1>5, SameKnows
  <1>7. Goes({}, r, steps, a, e) /\ Same(a, e)
    <2>1. Same(a, e)
      BY <1>3, <1>4, <1>5, <1>6, SameTwice
    <2>2. Goes({}, r, <<bad(1), bad(2), bad(3), bad(4)>>, a, e)
      BY <1>3, <1>4, <1>5, <1>6, GoesFour
    <2> QED BY <1>2, <2>1, <2>2
  <1>8. CASE possible
    <2>1. Goes({}, r, Check("package-structure-matrix", steps), a, e)
      BY <1>7, GoesCheck
    <2>2. StructureMatrix(r, offers) = Check("package-structure-matrix", steps)
      BY <1>8 DEF StructureMatrix, CheckIf, steps, bad
    <2> QED BY <1>7, <2>1, <2>2
  <1>9. CASE ~possible
    <2>1. Goes({}, r, Skip("package-structure-matrix"), a, a)
      BY GoesSkip
    <2>2. StructureMatrix(r, offers) = Skip("package-structure-matrix")
      BY <1>9 DEF StructureMatrix, CheckIf
    <2> QED BY <2>1, <2>2, SameSelf
  <1> QED BY <1>8, <1>9

LEMMA EarlyGoes ==
  ASSUME NEW r, NEW a, Knows(a), NEW offers
  PROVE  \E b : Goes({}, r, Early(r, offers), a, b) /\ Same(a, b)
  <1>1. PICK b : Goes({}, r, <<Do("fixtures", <<>>, Status(200))>>, a, b) /\ Same(a, b)
    BY FixturesAnswered
  <1>2. Goes({}, r, Fixtures(r), a, b) /\ Knows(b)
    BY <1>1, GoesCheck DEF Fixtures, Same, Keeps
  <1>3. PICK c : Goes({}, r, <<Do("import", Import(r, BadPackage), Status(400))>>, b, c) /\ Same(b, c)
    BY <1>2, ImportRefused, GoodIsAccepted
  <1>4. Goes({}, r, InvalidPackage(r), b, c) /\ Knows(c)
    BY <1>3, GoesCheck DEF InvalidPackage, Same, Keeps
  <1>5. PICK d : Goes({}, r, StructureMatrix(r, offers), c, d) /\ Same(c, d)
    BY <1>4, StructureGoes
  <1>6. Goes({}, r, Early(r, offers), a, d)
    BY <1>2, <1>4, <1>5, GoesOn DEF Early
  <1>7. Same(a, d)
    BY <1>1, <1>3, <1>5, SameTwice
  <1> QED BY <1>6, <1>7

(* The package, and the first launch. *)
LEMMA ImportGoes ==
  ASSUME NEW r, NEW a, Knows(a)
  PROVE  \E b : /\ Goes({}, r, ImportPackage(r, GoodPackage), a, b)
                /\ Knows(b) /\ b.imported /\ b.waived = a.waived /\ b.gone = a.gone
  <1> DEFINE q == Import(r, GoodPackage)
             s == Do("import", q, Status(200))
             b == AfterImport(a, Ok)
  <1>1. Plain(s, "import", q, Status(200)) /\ q.package = PackageId[r] /\ q.upload = GoodPackage
    BY DoPlain DEF Import
  <1> HIDE DEF s, q
  <1>2. /\ b.imported /\ b.waived = a.waived /\ b.gone = a.gone /\ b.slots = a.slots
        /\ b.called = a.called /\ b.tokens = a.tokens
    BY DEF AfterImport, Know
  <1> HIDE DEF b
  <1>3. Outcome(r, a, s, Ok, b)
    <2>1. ImportDone(r, a, s, Ok, b)
      BY <1>1, GoodIsAccepted DEF ImportDone, Plain, b
    <2> QED BY <2>1 DEF Outcome, Done
  <1>4. Fits(Ok, Status(200))
    BY DEF Fits, Ok, Status
  <1>5. Knows(b) /\ a.called \subseteq b.called /\ a.tokens \subseteq b.tokens
    BY <1>2 DEF Knows
  <1>6. Goes({}, r, <<s>>, a, b)
    BY <1>1, <1>3, <1>4, <1>5, GoesCall
  <1>7. Goes({}, r, Check("package-import", <<s>>), a, b)
    BY <1>6, GoesCheck
  <1>8. ImportPackage(r, GoodPackage) = Check("package-import", <<s>>)
    BY DEF ImportPackage, s, q
  <1> QED BY <1>2, <1>5, <1>7, <1>8

LEMMA InitialGoes ==
  ASSUME NEW r, NEW a, Knows(a), a.imported, ~a.waived, a.waived \in BOOLEAN, a.gone = {}
  PROVE  \E b : /\ Goes({}, r, InitialLaunch(r), a, b) /\ Steady(b, FALSE, {})
                /\ b.slots["initial"] = FreshSlot("CompletedAndPassed")
                /\ b.seen = LaunchShown(r, "initial", "CompletedAndPassed")
  <1> DEFINE both == "CompletedAndPassed"
             expect == [status |-> 200, session |-> Own(r, "initial"), registration |-> Own(r, "initial")]
             q == Launching(r, "initial")
             s == Do("launch", q, expect)
  <1>1. Fits(LaunchShown(r, "initial", both), expect)
    BY DEF Fits, LaunchShown
  <1>2. "initial" \in Slots \ a.gone /\ both \in AllMoveOns
    BY DEF Slots, AllMoveOns
  <1>3. LaunchQ(q, r, "initial", both)
    BY LaunchingIs
  <1>4. \E b : Goes({}, r, <<s>>, a, b) /\ FreshIn(a, b, r, "initial", both)
    <2> HIDE DEF q, expect
    <2> QED BY <1>1, <1>2, <1>3, GoesLaunch
  <1>5. InitialLaunch(r) = Check("launch-create", <<s>>)
    BY DEF InitialLaunch
  <1> HIDE DEF s
  <1>6. PICK b : Goes({}, r, <<s>>, a, b) /\ FreshIn(a, b, r, "initial", both)
    BY <1>4
  <1>7. Goes({}, r, InitialLaunch(r), a, b)
    BY <1>5, <1>6, GoesCheck
  <1>8. /\ Keeps(a, b) /\ b.slots["initial"] = FreshSlot(both) /\ "initial" \in b.called
        /\ b.seen = LaunchShown(r, "initial", both)
    BY <1>6 DEF FreshIn, Changes
  <1>9. Steady(b, FALSE, {})
    BY <1>8 DEF Keeps, Steady, FreshSlot, SlotKnowledge
  <1> QED BY <1>7, <1>8, <1>9

LEMMA ContractsGo ==
  ASSUME NEW r, NEW a, Knows(a), a.seen = LaunchShown(r, "initial", "CompletedAndPassed")
  PROVE  /\ Goes({}, r, LaunchContract(r), a, a) /\ Goes({}, r, ActorContract(r), a, a)
         /\ Goes({}, r, LaunchUrlContract(r), a, a)
  <1> DEFINE e1 == [moveOn |-> "CompletedAndPassed", session |-> Own(r, "initial")]
             e2 == [registration |-> Own(r, "initial"), moveOn |-> "CompletedAndPassed"]
  <1>1. Fits(a.seen, e1) /\ Fits(a.seen, Status(200)) /\ Fits(a.seen, e2)
    BY DEF Fits, LaunchShown, Status
  <1> HIDE DEF e1, e2
  <1>2. Goes({}, r, <<Read(e1)>>, a, a) /\ Goes({}, r, <<Read(Status(200))>>, a, a) /\ Goes({}, r, <<Read(e2)>>, a, a)
    BY <1>1, GoesRead
  <1>3. /\ Goes({}, r, Check("launch-data-contract", <<Read(e1)>>), a, a)
        /\ Goes({}, r, Check("actor-entitlement-contract", <<Read(Status(200))>>), a, a)
        /\ Goes({}, r, Check("launch-url-query-contract", <<Read(e2)>>), a, a)
    BY <1>2, GoesCheck
  <1> QED BY <1>3 DEF LaunchContract, ActorContract, LaunchUrlContract, e1, e2

(* A session of the run's, held and not abandoned, with an empty record. *)
HeldSlot(a, x, m) == Knows(a) /\ x \in Slots \ a.gone /\ x \in a.tokens /\ a.slots[x] = SlotKnowledge(m, "held", <<>>, FALSE)

LEMMA HeldSlotIsHeld ==
  ASSUME NEW a, NEW x, NEW m \in AllMoveOns, HeldSlot(a, x, m)
  PROVE  Knows(a) /\ x \in Slots \ a.gone /\ Held(a, x) /\ a.slots[x].moveOn = m /\ x \in a.tokens
  BY DEF HeldSlot, Held, SlotKnowledge, AllMoveOns

LEMMA ExchangeGoes ==
  ASSUME NEW r, NEW a, Knows(a), NEW x \in Slots \ a.gone, NEW m \in AllMoveOns, a.slots[x] = FreshSlot(m)
  PROVE  \E b : /\ Goes({}, r, <<Exchange(r, x)>>, a, b)
                /\ Changes(a, b, x, SlotKnowledge(m, "held", <<>>, FALSE)) /\ HeldSlot(b, x, m)
  <1>1. /\ a.slots[x].moveOn = m /\ a.slots[x].moveOn # "none" /\ a.slots[x].access = "fresh"
        /\ a.slots[x].log = <<>>
    BY DEF FreshSlot, SlotKnowledge, AllMoveOns
  <1>2. PICK b : Goes({}, r, <<Exchange(r, x)>>, a, b) /\ HeldIn(a, b, x)
    BY <1>1, GoesExchange
  <1>3. Changes(a, b, x, SlotKnowledge(m, "held", <<>>, FALSE)) /\ x \in b.tokens
    BY <1>1, <1>2 DEF HeldIn
  <1>4. HeldSlot(b, x, m)
    BY <1>3 DEF HeldSlot, Changes, Keeps
  <1> QED BY <1>2, <1>3, <1>4

LEMMA FetchLaunchDataGoes ==
  ASSUME NEW r, NEW a, Steady(a, FALSE, {}), a.slots["initial"] = FreshSlot("CompletedAndPassed"), NEW offers
  PROVE  \E b : Goes({}, r, FetchLaunchData(r, offers), a, b) /\ Steady(b, FALSE, {})
  <1> DEFINE both == "CompletedAndPassed"
             x == "initial"
             d == Data(r, x, TokenOf(r, x), [status |-> 200, registration |-> Own(r, x), moveOn |-> both])
             e == [Exchange(r, x) EXCEPT !.expect = Status(409)]
             later == <<d, e>>
             steps == <<Exchange(r, x)>> \o Needing({}, {x}, later)
             possible == {"fetch", "data"} \subseteq offers
  <1>1. x \in Slots \ a.gone /\ both \in AllMoveOns /\ Knows(a)
    BY DEF Slots, AllMoveOns, Steady
  <1>2. PICK b : /\ Goes({}, r, <<Exchange(r, x)>>, a, b)
                 /\ Changes(a, b, x, SlotKnowledge(both, "held", <<>>, FALSE)) /\ HeldSlot(b, x, both)
    BY <1>1, ExchangeGoes
  <1>3. Knows(b) /\ x \in Slots \ b.gone /\ Held(b, x) /\ b.slots[x].moveOn = both /\ x \in b.tokens
    BY <1>1, <1>2, HeldSlotIsHeld
  <1>4. PICK c : Goes({}, r, <<d>>, b, c) /\ Same(b, c)
    BY <1>3, DataAnswered
  <1>5. Knows(c) /\ Held(c, x)
    BY <1>3, <1>4 DEF Same, Keeps, Held
  <1>6. PICK f : Goes({}, r, <<e>>, c, f) /\ Same(c, f)
    BY <1>1, <1>5, ExchangeRefused
  <1> HIDE DEF d, e
  <1>7. Goes({}, r, later, b, f)
    BY <1>4, <1>6, GoesTwo
  <1> HIDE DEF later
  <1>8. Goes({}, r, Needing({}, {x}, later), b, f)
    BY <1>3, <1>7, GoesNeeding
  <1>9. Goes({}, r, steps, a, f)
    BY <1>2, <1>8, GoesOn
  <1>10. Steady(f, FALSE, {})
    <2>1. Steady(b, FALSE, {})
      BY <1>1, <1>2 DEF Steady, Changes, Keeps, SlotKnowledge
    <2> QED BY <1>4, <1>6, <2>1, SteadySame
  <1>11. CASE possible
    <2>1. FetchLaunchData(r, offers) = Check("fetch-launch-data-contract", steps)
      BY <1>11 DEF FetchLaunchData, CheckIf, later, d, e
    <2>2. Goes({}, r, Check("fetch-launch-data-contract", steps), a, f)
      <3> HIDE DEF steps
      <3> QED BY <1>9, GoesCheck
    <2> QED BY <1>10, <2>1, <2>2
  <1>12. CASE ~possible
    <2>1. FetchLaunchData(r, offers) = Skip("fetch-launch-data-contract")
      BY <1>12 DEF FetchLaunchData, CheckIf
    <2> QED BY <1>1, <2>1, GoesSkip
  <1> QED BY <1>11, <1>12

(* A session opened: launched and its token exchanged. *)
LEMMA KeepsKnows ==
  /\ \A a, b : Keeps(a, b) => Knows(a) /\ Knows(b) /\ a.called \subseteq b.called /\ a.tokens \subseteq b.tokens
  /\ \A a, b : Same(a, b) => Keeps(a, b)
  /\ \A a, b, x, v : Changes(a, b, x, v) => Keeps(a, b)
  BY DEF Keeps, Same, Changes

LEMMA HeldSlotSame ==
  ASSUME NEW a, NEW b, Same(a, b), NEW x, NEW m, HeldSlot(a, x, m)
  PROVE  HeldSlot(b, x, m)
  BY DEF Same, Keeps, HeldSlot

LEMMA HeldSlotChange ==
  ASSUME NEW a, NEW b, NEW y, NEW v, Changes(a, b, y, v), NEW x, NEW m, HeldSlot(a, x, m), x # y
  PROVE  HeldSlot(b, x, m)
  BY DEF Changes, Keeps, HeldSlot

LEMMA FreshInIs ==
  ASSUME NEW a, NEW b, NEW r, NEW x, NEW m, FreshIn(a, b, r, x, m)
  PROVE  Changes(a, b, x, FreshSlot(m)) /\ b.slots[x] = FreshSlot(m) /\ x \in b.called /\ Knows(b) /\ b.gone = a.gone
  BY DEF FreshIn, Changes, Keeps

LEMMA PlainLaunchGoes ==
  ASSUME NEW r, NEW a, Knows(a), a.imported, NEW x \in Slots \ a.gone
  PROVE  \E b : Goes({}, r, <<Do("launch", Launching(r, x), Status(200))>>, a, b) /\ FreshIn(a, b, r, x, "CompletedAndPassed")
  <1>1. LaunchQ(Launching(r, x), r, x, "CompletedAndPassed") /\ "CompletedAndPassed" \in AllMoveOns
    BY LaunchingIs DEF AllMoveOns
  <1>2. Fits(LaunchShown(r, x, "CompletedAndPassed"), Status(200))
    BY DEF Fits, LaunchShown, Status
  <1> QED BY <1>1, <1>2, GoesLaunch

(* The security matrix: *)
SecurityOpening(r) ==
    <<Do("launch", Launching(r, "security"), Status(200)),
      Do("fetch", [session |-> NoSession, token |-> NoSession], Status(400))>>
    \o Needing({"security"}, {},
         <<Do("fetch", [session |-> Own(r, "security"), token |-> Missing], Status(404)), Exchange(r, "security")>>)

SecurityTokens(r) ==
    <<Data(r, "security", NoToken, Status(401)), Data(r, "security", ForeignToken, Status(401)),
      Do("launch", Launching(r, "second"), Status(200))>>
    \o Needing({"second"}, {}, <<Exchange(r, "second")>>)
    \o Needing({}, {"second"}, <<Data(r, "second", TokenOf(r, "security"), Status(401))>>)

SecurityReplay(r, offers) ==
    IF {"post", "replay protection"} \subseteq offers
    THEN <<Statement(r, "security", "initialized", r, 200), Statement(r, "security", "launched", r, 409)>>
    ELSE <<>>

SecurityClosing(r) ==
    Needing({"security"}, {}, <<Do("fetch", [session |-> Missing, token |-> Own(r, "security")], Status(404))>>)

SecurityOpen(a) ==
    Steady(a, FALSE, {}) /\ HeldSlot(a, "security", "CompletedAndPassed") /\ "security" \in a.called

LEMMA SecurityOpens ==
  ASSUME NEW r \in Runners, NEW a, Steady(a, FALSE, {})
  PROVE  \E e : Goes({}, r, SecurityOpening(r), a, e) /\ SecurityOpen(e)
  <1> DEFINE both == "CompletedAndPassed"
             x == "security"
             s1 == Do("launch", Launching(r, x), Status(200))
             s2 == Do("fetch", [session |-> NoSession, token |-> NoSession], Status(400))
             s3 == Do("fetch", [session |-> Own(r, x), token |-> Missing], Status(404))
             s4 == Exchange(r, x)
  <1>1. x \in Slots \ a.gone /\ both \in AllMoveOns /\ Knows(a) /\ a.imported /\ a.gone = {} /\ x # "initial"
    BY DEF Slots, AllMoveOns, Steady
  <1>2. PICK b : Goes({}, r, <<s1>>, a, b) /\ FreshIn(a, b, r, x, both)
    BY <1>1, PlainLaunchGoes
  <1>3. Changes(a, b, x, FreshSlot(both)) /\ b.slots[x] = FreshSlot(both) /\ x \in b.called /\ Knows(b) /\ b.gone = {}
    BY <1>1, <1>2, FreshInIs
  <1>4. PICK c : Goes({}, r, <<s2>>, b, c) /\ Same(b, c)
    BY <1>3, FetchRefused DEF FetchAstray
  <1>5. PICK d : Goes({}, r, <<s3>>, c, d) /\ Same(c, d)
    <2>1. Knows(c)
      BY <1>4, SameKnows
    <2>2. FetchAstray(r, Own(r, x), Missing, 404)
      BY <1>1 DEF FetchAstray
    <2> QED BY <2>1, <2>2, FetchRefused
  <1>6. Knows(d) /\ x \in Slots \ d.gone /\ d.slots[x] = FreshSlot(both) /\ Knows(c) /\ x \in c.called
    BY <1>1, <1>3, <1>4, <1>5 DEF Same, Keeps
  <1>7. PICK e : /\ Goes({}, r, <<s4>>, d, e) /\ Changes(d, e, x, SlotKnowledge(both, "held", <<>>, FALSE))
                 /\ HeldSlot(e, x, both)
    BY <1>1, <1>6, ExchangeGoes
  <1> HIDE DEF s1, s2, s3, s4
  <1>8. Goes({}, r, <<s1, s2>>, a, c) /\ Goes({}, r, <<s3, s4>>, c, e)
    BY <1>2, <1>4, <1>5, <1>7, GoesTwo
  <1>9. Goes({}, r, Needing({x}, {}, <<s3, s4>>), c, e)
    BY <1>6, <1>8, GoesNeeding
  <1>10. Goes({}, r, <<s1, s2>> \o Needing({x}, {}, <<s3, s4>>), a, e)
    BY <1>8, <1>9, GoesOn
  <1>11. Steady(e, FALSE, {})
    <2>1. Steady(b, FALSE, {})
      BY <1>1, <1>3, SteadyChange
    <2>2. Steady(d, FALSE, {})
      BY <1>4, <1>5, <2>1, SteadySame
    <2> QED BY <1>1, <1>7, <2>2, SteadyChange
  <1>12. x \in e.called
    BY <1>5, <1>6, <1>7 DEF Same, Changes, Keeps
  <1>13. SecurityOpening(r) = <<s1, s2>> \o Needing({x}, {}, <<s3, s4>>)
    BY DEF SecurityOpening, s1, s2, s3, s4
  <1> QED BY <1>7, <1>10, <1>11, <1>12, <1>13 DEF SecurityOpen

LEMMA SecurityTokensGo ==
  ASSUME NEW r \in Runners, NEW a, SecurityOpen(a)
  PROVE  \E e : Goes({}, r, SecurityTokens(r), a, e) /\ SecurityOpen(e)
  <1> DEFINE both == "CompletedAndPassed"
             x == "security"
             y == "second"
             s1 == Data(r, x, NoToken, Status(401))
             s2 == Data(r, x, ForeignToken, Status(401))
             s3 == Do("launch", Launching(r, y), Status(200))
             s4 == Exchange(r, y)
             s5 == Data(r, y, TokenOf(r, x), Status(401))
  <1>1. x \in Slots /\ y \in Slots /\ both \in AllMoveOns /\ x # y /\ y # "initial"
    BY DEF Slots, AllMoveOns
  <1>2. Steady(a, FALSE, {}) /\ HeldSlot(a, x, both) /\ x \in a.called
    BY DEF SecurityOpen
  <1>3. Knows(a) /\ Held(a, x) /\ NoToken # TokenOf(r, x) /\ ForeignToken # TokenOf(r, x) /\ TokenOf(r, x) # TokenOf(r, y)
    BY <1>1, <1>2, HeldSlotIsHeld, OtherTokens
  <1>4. PICK b : Goes({}, r, <<s1>>, a, b) /\ Same(a, b)
    <2> HIDE DEF x
    <2>1. Knows(a) /\ x \in Slots /\ Held(a, x) /\ NoToken # TokenOf(r, x)
      BY <1>1, <1>3
    <2>2. Unmoved(r, Data(r, x, NoToken, Status(401)), a)
      BY <2>1, DataRefused
    <2> QED BY <2>2 DEF Unmoved
  <1>5. Steady(b, FALSE, {}) /\ HeldSlot(b, x, both) /\ Knows(b) /\ Held(b, x)
    BY <1>1, <1>2, <1>4, SteadySame, HeldSlotSame, HeldSlotIsHeld
  <1>6. PICK c : Goes({}, r, <<s2>>, b, c) /\ Same(b, c)
    <2> HIDE DEF x
    <2>1. Knows(b) /\ x \in Slots /\ Held(b, x) /\ ForeignToken # TokenOf(r, x)
      BY <1>1, <1>3, <1>5
    <2>2. Unmoved(r, Data(r, x, ForeignToken, Status(401)), b)
      BY <2>1, DataRefused
    <2> QED BY <2>2 DEF Unmoved
  <1>7. Steady(c, FALSE, {}) /\ HeldSlot(c, x, both)
    BY <1>5, <1>6, SteadySame, HeldSlotSame
  <1>8. Knows(c) /\ c.imported /\ y \in Slots \ c.gone
    BY <1>1, <1>7 DEF Steady
  <1>9. PICK d : Goes({}, r, <<s3>>, c, d) /\ FreshIn(c, d, r, y, both)
    BY <1>8, PlainLaunchGoes
  <1>10. /\ Changes(c, d, y, FreshSlot(both)) /\ d.slots[y] = FreshSlot(both) /\ y \in d.called /\ Knows(d)
         /\ y \in Slots \ d.gone
    BY <1>8, <1>9, FreshInIs
  <1>11. PICK e : /\ Goes({}, r, <<s4>>, d, e) /\ Changes(d, e, y, SlotKnowledge(both, "held", <<>>, FALSE))
                  /\ HeldSlot(e, y, both)
    BY <1>1, <1>10, ExchangeGoes
  <1>12. Knows(e) /\ Held(e, y) /\ y \in e.tokens
    BY <1>1, <1>11, HeldSlotIsHeld
  <1>13. PICK f : Goes({}, r, <<s5>>, e, f) /\ Same(e, f)
    <2>1. Unmoved(r, s5, e)
      BY <1>1, <1>3, <1>12, DataRefused
    <2> QED BY <2>1 DEF Unmoved
  <1> HIDE DEF s1, s2, s3, s4, s5
  <1>14. Goes({}, r, <<s1, s2, s3>>, a, d)
    BY <1>4, <1>6, <1>9, GoesThree
  <1>15. Goes({}, r, Needing({y}, {}, <<s4>>), d, e) /\ Goes({}, r, Needing({}, {y}, <<s5>>), e, f)
    BY <1>10, <1>11, <1>12, <1>13, GoesNeeding
  <1>16. Goes({}, r, <<s1, s2, s3>> \o Needing({y}, {}, <<s4>>) \o Needing({}, {y}, <<s5>>), a, f)
    BY <1>14, <1>15, GoesOn
  <1>17. Steady(f, FALSE, {})
    <2>1. Steady(d, FALSE, {})
      BY <1>1, <1>7, <1>10, SteadyChange
    <2>2. Steady(e, FALSE, {})
      BY <1>1, <1>11, <2>1, SteadyChange
    <2> QED BY <1>13, <2>2, SteadySame
  <1>18. HeldSlot(f, x, both)
    <2>1. HeldSlot(d, x, both)
      BY <1>1, <1>7, <1>10, HeldSlotChange
    <2>2. HeldSlot(e, x, both)
      BY <1>1, <1>11, <2>1, HeldSlotChange
    <2> QED BY <1>13, <2>2, HeldSlotSame
  <1>19. x \in f.called
    BY <1>2, <1>4, <1>6, <1>10, <1>11, <1>13 DEF Same, Changes, Keeps
  <1>20. SecurityTokens(r) = <<s1, s2, s3>> \o Needing({y}, {}, <<s4>>) \o Needing({}, {y}, <<s5>>)
    BY DEF SecurityTokens, s1, s2, s3, s4, s5
  <1> QED BY <1>16, <1>17, <1>18, <1>19, <1>20 DEF SecurityOpen

LEMMA SecurityReplayGoes ==
  ASSUME NEW r \in Runners, NEW a, SecurityOpen(a), NEW offers
  PROVE  \E b : Goes({}, r, SecurityReplay(r, offers), a, b) /\ Steady(b, FALSE, {}) /\ "security" \in b.called
  <1> DEFINE both == "CompletedAndPassed"
             x == "security"
             s1 == Statement(r, x, "initialized", r, 200)
             s2 == Statement(r, x, "launched", r, 409)
             possible == {"post", "replay protection"} \subseteq offers
  <1>1. Steady(a, FALSE, {}) /\ HeldSlot(a, x, both) /\ x \in a.called /\ both \in AllMoveOns /\ x # "initial"
    BY DEF SecurityOpen, AllMoveOns
  <1>2. CASE possible
    <2>1. Knows(a) /\ x \in Slots \ a.gone /\ Held(a, x) /\ a.slots[x] = SlotKnowledge(both, "held", <<>>, FALSE)
      BY <1>1, HeldSlotIsHeld DEF HeldSlot
    <2>2. a.slots[x].moveOn = both /\ a.slots[x].log = <<>> /\ ~a.slots[x].noted
      BY <2>1 DEF SlotKnowledge
    <2>3. AcceptsVerb(a.slots[x].moveOn, a.slots[x].log, "initialized")
      BY <2>2 DEF AcceptsVerb, HasVerb
    <2>4. PICK b : Goes({}, r, <<s1>>, a, b) /\ SaidIn(a, b, x, "initialized", a.slots[x].noted \/ r = r)
      BY <2>1, <2>2, <2>3, GoesStatement
    <2>5. Changes(a, b, x, SlotKnowledge(both, "held", Append(<<>>, "initialized"), TRUE))
      <3>1. SaidIn(a, b, x, "initialized", TRUE)
        BY <2>4
      <3> QED BY <2>2, <3>1 DEF SaidIn
    <2>6. Knows(b) /\ x \in Slots \ b.gone /\ Held(b, x) /\ b.slots[x].noted
      BY <1>1, <2>1, <2>5 DEF Changes, Keeps, Held, SlotKnowledge
    <2>7. PICK c : Goes({}, r, <<s2>>, b, c) /\ Same(b, c)
      BY <2>6, StatementRefused
    <2> HIDE DEF s1, s2
    <2>8. Goes({}, r, <<s1, s2>>, a, c)
      BY <2>4, <2>7, GoesTwo
    <2>9. Steady(c, FALSE, {}) /\ x \in c.called
      <3>1. Steady(b, FALSE, {})
        BY <1>1, <2>5, SteadyChange
      <3> QED BY <1>1, <2>5, <2>7, <3>1, SteadySame DEF Same, Changes, Keeps
    <2>10. SecurityReplay(r, offers) = <<s1, s2>>
      BY <1>2 DEF SecurityReplay, s1, s2
    <2> QED BY <2>8, <2>9, <2>10
  <1>3. CASE ~possible
    <2>1. SecurityReplay(r, offers) = <<>>
      BY <1>3 DEF SecurityReplay
    <2>2. Goes({}, r, <<>>, a, a)
      BY <1>1, GoesNowhere DEF Steady
    <2> QED BY <1>1, <2>1, <2>2
  <1> QED BY <1>2, <1>3

LEMMA SecurityMatrixCarries ==
  ASSUME NEW r \in Runners, NEW offers
  PROVE  Carries({}, r, SecurityMatrix(r, offers), FALSE, {}, FALSE, {})
  <1> DEFINE middle == SecurityTokens(r) \o SecurityReplay(r, offers)
             steps == SecurityOpening(r) \o Needing({}, {"security"}, middle) \o SecurityClosing(r)
             possible == {"fetch", "data", "fetch security"} \subseteq offers
             name == "fetch-auth-security-matrix"
             last == Do("fetch", [session |-> Missing, token |-> Own(r, "security")], Status(404))
  <1>1. SecurityMatrix(r, offers) = CheckIf(possible, name, steps)
    BY DEF SecurityMatrix, SecurityOpening, SecurityTokens, SecurityReplay, SecurityClosing
  <1>2. ASSUME NEW a, Steady(a, FALSE, {})
        PROVE  \E b : Goes({}, r, steps, a, b) /\ Steady(b, FALSE, {})
    <2>1. PICK b : Goes({}, r, SecurityOpening(r), a, b) /\ SecurityOpen(b)
      BY <1>2, SecurityOpens
    <2>2. PICK c : Goes({}, r, SecurityTokens(r), b, c) /\ SecurityOpen(c)
      BY <2>1, SecurityTokensGo
    <2>3. PICK d : Goes({}, r, SecurityReplay(r, offers), c, d) /\ Steady(d, FALSE, {}) /\ "security" \in d.called
      BY <2>2, SecurityReplayGoes
    <2>4. PICK e : Goes({}, r, <<last>>, d, e) /\ Same(d, e)
      <3>1. Own(r, "security") # NoSession
        <4>1. "security" \in Slots
          BY DEF Slots
        <4> QED BY <4>1, OtherTokens
      <3>2. FetchAstray(r, Missing, Own(r, "security"), 404) /\ Knows(d)
        BY <2>3, <3>1 DEF FetchAstray, Steady
      <3> QED BY <3>2, FetchRefused
    <2> HIDE DEF last
    <2>5. Goes({}, r, SecurityClosing(r), d, e)
      <3>1. SecurityClosing(r) = Needing({"security"}, {}, <<last>>)
        BY DEF SecurityClosing, last
      <3> QED BY <2>3, <2>4, <3>1, GoesNeeding
    <2>6. Goes({}, r, middle, b, d)
      BY <2>2, <2>3, GoesOn
    <2>7. "security" \in b.tokens
      BY <2>1 DEF SecurityOpen, HeldSlot
    <2> HIDE DEF middle
    <2>8. Goes({}, r, Needing({}, {"security"}, middle), b, d)
      BY <2>6, <2>7, GoesNeeding
    <2>9. Goes({}, r, steps, a, e)
      BY <2>1, <2>5, <2>8, GoesOn
    <2>10. Steady(e, FALSE, {})
      BY <2>3, <2>4, SteadySame
    <2> QED BY <2>9, <2>10
  <1> HIDE DEF steps
  <1>3. Carries({}, r, steps, FALSE, {}, FALSE, {})
    BY <1>2 DEF Carries
  <1>4. possible \in BOOLEAN
    OBVIOUS
  <1> HIDE DEF possible
  <1> QED BY <1>1, <1>3, <1>4, CarriesCheckIf

(* The lifecycle matrix, one moveOn criterion at a time. *)
LEMMA EachCarries ==
  ASSUME NEW r, NEW w, NEW g, NEW parts, DOMAIN parts = 1 .. 5, parts = [i \in 1 .. 5 |-> parts[i]],
         \A i \in 1 .. 5 : Carries({}, r, parts[i], w, g, w, g)
  PROVE  Carries({}, r, FlattenSeq(parts), w, g, w, g)
  <1>1. Len(parts) = 5
    <2>1. parts \in [1 .. 5 -> {parts[i] : i \in 1 .. 5}]
      OBVIOUS
    <2>2. parts \in Seq({parts[i] : i \in 1 .. 5})
      BY <2>1, SeqDef
    <2> QED BY <2>2, LenProperties
  <1>2. /\ Carries({}, r, parts[1], w, g, w, g) /\ Carries({}, r, parts[2], w, g, w, g)
        /\ Carries({}, r, parts[3], w, g, w, g) /\ Carries({}, r, parts[4], w, g, w, g)
        /\ Carries({}, r, parts[5], w, g, w, g)
    OBVIOUS
  <1>3. Carries({}, r, parts[1] \o parts[2] \o parts[3] \o parts[4] \o parts[5], w, g, w, g)
    BY <1>2, CarriesOn
  <1> QED BY <1>1, <1>3, FlattenedFive

(* A session with the whole of a flow in its record. *)
HasSaid(a, x, m, flow) ==
    Knows(a) /\ x \in Slots \ a.gone /\ x \in a.tokens /\ a.slots[x] = SlotKnowledge(m, "held", flow, FALSE)

LEMMA RefusedGoes ==
  ASSUME NEW r, NEW m \in AllMoveOns, NEW a, HasSaid(a, m, m, Flow(m))
  PROVE  \E b : Goes({}, r, RefusedSteps(r, m), a, b) /\ Same(a, b)
  <1> DEFINE one(v) == <<Statement(r, m, v, NoId, 409)>>
             steps == [i \in DOMAIN Refused(m) |-> one(Refused(m)[i])]
  <1>1. RefusedSteps(r, m) = FlattenSeq(steps)
    BY DEF Each, RefusedSteps
  <1>2. CASE m = "Completed"
    <2>1. steps = <<>>
      BY <1>2 DEF Refused
    <2>2. Goes({}, r, <<>>, a, a) /\ Same(a, a)
      BY GoesNowhere, SameSelf DEF HasSaid
    <2> QED BY <1>1, <2>1, <2>2, FlattenedNone
  <1>3. CASE m # "Completed"
    <2> DEFINE v == IF m = "NotApplicable" THEN "passed" ELSE "failed"
    <2>1. Refused(m) = <<v>>
      BY <1>3 DEF Refused
    <2> HIDE DEF v
    <2>2. steps = <<one(v)>>
      BY <2>1
    <2>3. Knows(a) /\ m \in Slots \ a.gone /\ Held(a, m) /\ a.slots[m].moveOn = m /\ a.slots[m].log = Flow(m)
      BY DEF HasSaid, Held, SlotKnowledge, AllMoveOns
    <2>4. ~AcceptsVerb(a.slots[m].moveOn, a.slots[m].log, v)
      BY <2>3, FlowsSayable DEF AcceptsVerb
    <2>5. \E b : Goes({}, r, one(v), a, b) /\ Same(a, b)
      BY <2>3, <2>4, StatementRefused
    <2> HIDE DEF one
    <2>6. FlattenSeq(steps) = one(v)
      BY <2>2, FlattenedOne
    <2> QED BY <1>1, <2>5, <2>6
  <1> QED BY <1>2, <1>3

LifecycleShown(r, m) ==
    <<Get(r, m, TokenOf(r, m), [status |-> 200, verbs |-> Flow(m), terminated |-> TRUE, moveOnSatisfied |-> TRUE])>>

LifecycleCase(r, m) ==
    <<Do("launch", [Launching(r, m) EXCEPT !.moveOn = m], Status(200))>>
    \o Needing({m}, {}, <<Exchange(r, m)>>)
    \o Needing({}, {m}, Statements(r, m, Flow(m)) \o RefusedSteps(r, m) \o LifecycleShown(r, m))

LEMMA LifecycleShownGoes ==
  ASSUME NEW r, NEW m \in AllMoveOns, NEW a, HasSaid(a, m, m, Flow(m))
  PROVE  \E b : Goes({}, r, LifecycleShown(r, m), a, b) /\ Same(a, b)
  <1> DEFINE expect == [status |-> 200, verbs |-> Flow(m), terminated |-> TRUE, moveOnSatisfied |-> TRUE]
             shown == LogShown(m, Flow(m))
  <1>1. Knows(a) /\ m \in Slots \ a.gone /\ Held(a, m) /\ a.slots[m].moveOn = m /\ a.slots[m].log = Flow(m)
    BY DEF HasSaid, Held, SlotKnowledge, AllMoveOns
  <1>2. HasVerb(Flow(m), "terminated") = TRUE /\ MoveOnSatisfied(m, Flow(m)) = TRUE
    <2>1. HasVerb(Flow(m), "terminated") /\ MoveOnSatisfied(m, Flow(m))
      BY FlowsSayable
    <2> QED BY <2>1 DEF HasVerb, MoveOnSatisfied
  <1>3. /\ DOMAIN shown = {"status", "verbs", "count", "terminated", "moveOnSatisfied"}
        /\ shown.status = 200 /\ shown.verbs = Flow(m) /\ shown.terminated = TRUE /\ shown.moveOnSatisfied = TRUE
    BY <1>2 DEF LogShown
  <1>4. /\ DOMAIN expect = {"status", "verbs", "terminated", "moveOnSatisfied"}
        /\ expect.status = 200 /\ expect.verbs = Flow(m) /\ expect.terminated = TRUE /\ expect.moveOnSatisfied = TRUE
    OBVIOUS
  <1> HIDE DEF shown, expect
  <1>5. Fits(shown, expect)
    <2>1. \A f \in DOMAIN expect : f = "status" \/ f = "verbs" \/ f = "terminated" \/ f = "moveOnSatisfied"
      BY <1>4
    <2>2. \A f \in DOMAIN expect : f \in DOMAIN shown
      BY <1>3, <1>4
    <2>3. \A f \in DOMAIN expect : shown[f] = expect[f]
      <3>1. shown.terminated = expect.terminated
        BY <1>3, <1>4, Zenon
      <3>2. shown.moveOnSatisfied = expect.moveOnSatisfied
        BY <1>3, <1>4, Zenon
      <3>3. shown.status = expect.status /\ shown.verbs = expect.verbs
        BY <1>3, <1>4
      <3> QED BY <2>1, <3>1, <3>2, <3>3
    <2> QED BY <2>2, <2>3 DEF Fits
  <1>6. \E b : Goes({}, r, <<Get(r, m, TokenOf(r, m), expect)>>, a, b) /\ Same(a, b)
    BY <1>1, <1>5, GetAnswered DEF shown
  <1> QED BY <1>6 DEF LifecycleShown, expect

LEMMA LifecycleCaseCarries ==
  ASSUME NEW r \in Runners, NEW m \in AllMoveOns
  PROVE  Carries({}, r, LifecycleCase(r, m), FALSE, {}, FALSE, {})
  <1> SUFFICES ASSUME NEW a, Steady(a, FALSE, {})
               PROVE  \E b : Goes({}, r, LifecycleCase(r, m), a, b) /\ Steady(b, FALSE, {})
    BY DEF Carries
  <1> DEFINE q == [Launching(r, m) EXCEPT !.moveOn = m]
             s1 == Do("launch", q, Status(200))
             s2 == Exchange(r, m)
             said == Statements(r, m, Flow(m))
             more == said \o RefusedSteps(r, m) \o LifecycleShown(r, m)
  <1>1. Knows(a) /\ a.imported /\ m \in Slots \ a.gone /\ m # "initial"
    BY MoveOnSlots DEF Steady, AllMoveOns
  <1>2. PICK b : Goes({}, r, <<s1>>, a, b) /\ FreshIn(a, b, r, m, m)
    <2>1. LaunchQ(q, r, m, m)
      BY LaunchingIs
    <2>2. Fits(LaunchShown(r, m, m), Status(200))
      BY DEF Fits, LaunchShown, Status
    <2> HIDE DEF q
    <2> QED BY <1>1, <2>1, <2>2, GoesLaunch
  <1>3. Changes(a, b, m, FreshSlot(m)) /\ b.slots[m] = FreshSlot(m) /\ m \in b.called /\ Knows(b) /\ m \in Slots \ b.gone
    BY <1>1, <1>2, FreshInIs
  <1>4. PICK c : Goes({}, r, <<s2>>, b, c) /\ Changes(b, c, m, SlotKnowledge(m, "held", <<>>, FALSE)) /\ HeldSlot(c, m, m)
    BY <1>3, ExchangeGoes
  <1>5. Knows(c) /\ m \in Slots \ c.gone /\ m \in c.tokens /\ c.slots[m] = SlotKnowledge(m, "held", <<>>, FALSE)
    BY <1>4 DEF HeldSlot
  <1>6. PICK d : Goes({}, r, said, c, d) /\ Changes(c, d, m, SlotKnowledge(m, "held", Flow(m), FALSE))
    <2>1. m # "none" /\ Flow(m) \in Seq(Verbs) /\ Sayable(m, Flow(m))
      BY FlowType, FlowsSayable DEF AllMoveOns
    <2> QED BY <1>5, <2>1, StatementsGo
  <1>7. HasSaid(d, m, m, Flow(m))
    BY <1>5, <1>6 DEF HasSaid, Changes, Keeps
  <1>8. PICK e : Goes({}, r, RefusedSteps(r, m), d, e) /\ Same(d, e)
    BY <1>7, RefusedGoes
  <1>9. HasSaid(e, m, m, Flow(m))
    BY <1>7, <1>8 DEF HasSaid, Same, Keeps
  <1>10. PICK f : Goes({}, r, LifecycleShown(r, m), e, f) /\ Same(e, f)
    BY <1>9, LifecycleShownGoes
  <1>11. Goes({}, r, more, c, f)
    BY <1>6, <1>8, <1>10, GoesOn
  <1> HIDE DEF s1, s2, said, more
  <1>12. Goes({}, r, Needing({m}, {}, <<s2>>), b, c) /\ Goes({}, r, Needing({}, {m}, more), c, f)
    BY <1>3, <1>4, <1>5, <1>11, GoesNeeding
  <1>13. Goes({}, r, <<s1>> \o Needing({m}, {}, <<s2>>) \o Needing({}, {m}, more), a, f)
    BY <1>2, <1>12, GoesOn
  <1>14. Steady(f, FALSE, {})
    <2>1. Steady(b, FALSE, {})
      BY <1>1, <1>3, SteadyChange
    <2>2. Steady(c, FALSE, {})
      BY <1>1, <1>4, <2>1, SteadyChange
    <2>3. Steady(d, FALSE, {})
      BY <1>1, <1>6, <2>2, SteadyChange
    <2> QED BY <1>8, <1>10, <2>3, SteadySame
  <1>15. LifecycleCase(r, m) = <<s1>> \o Needing({m}, {}, <<s2>>) \o Needing({}, {m}, more)
    BY DEF LifecycleCase, s1, s2, said, more
  <1> QED BY <1>13, <1>14, <1>15

LEMMA LifecycleMatrixCarries ==
  ASSUME NEW r \in Runners, NEW offers
  PROVE  Carries({}, r, LifecycleMatrix(r, offers), FALSE, {}, FALSE, {})
  <1> DEFINE parts == [i \in DOMAIN MoveOnCases |-> LifecycleCase(r, MoveOnCases[i])]
             possible == {"fetch", "post", "get"} \subseteq offers
             name == "au-runtime-lifecycle-matrix"
  <1>1. Carries({}, r, FlattenSeq(parts), FALSE, {}, FALSE, {})
    BY LifecycleCaseCarries, MoveOnCaseList, EachCarries
  <1>2. LifecycleMatrix(r, offers) = CheckIf(possible, name, FlattenSeq(parts))
    BY DEF LifecycleMatrix, Each, RefusedSteps, LifecycleCase, LifecycleShown
  <1> HIDE DEF parts
  <1>3. possible \in BOOLEAN
    OBVIOUS
  <1> HIDE DEF possible
  <1> QED BY <1>1, <1>2, <1>3, CarriesCheckIf

(* The checks that only launch. *)
LEMMA OneCarries ==
  ASSUME NEW r, NEW s, NEW w, NEW g,
         \A a : Steady(a, w, g) => \E b : Goes({}, r, <<s>>, a, b) /\ Same(a, b)
  PROVE  Carries({}, r, <<s>>, w, g, w, g)
  <1> SUFFICES ASSUME NEW a, Steady(a, w, g)
               PROVE  \E b : Goes({}, r, <<s>>, a, b) /\ Steady(b, w, g)
    BY DEF Carries
  <1>1. PICK b : Goes({}, r, <<s>>, a, b) /\ Same(a, b)
    OBVIOUS
  <1>2. Steady(b, w, g)
    BY <1>1, SteadySame
  <1> QED BY <1>1, <1>2

LEMMA LaunchCarries ==
  ASSUME NEW r, NEW w, NEW g, NEW x \in Slots \ g, x # "initial", NEW m \in AllMoveOns,
         NEW q, LaunchQ(q, r, x, m), NEW expect, Fits(LaunchShown(r, x, m), expect)
  PROVE  Carries({}, r, <<Do("launch", q, expect)>>, w, g, w, g)
  <1> SUFFICES ASSUME NEW a, Steady(a, w, g)
               PROVE  \E b : Goes({}, r, <<Do("launch", q, expect)>>, a, b) /\ Steady(b, w, g)
    BY DEF Carries
  <1>1. Knows(a) /\ a.imported /\ x \in Slots \ a.gone
    BY DEF Steady
  <1>2. PICK b : Goes({}, r, <<Do("launch", q, expect)>>, a, b) /\ FreshIn(a, b, r, x, m)
    BY <1>1, GoesLaunch
  <1>3. Changes(a, b, x, FreshSlot(m))
    BY <1>2, FreshInIs
  <1>4. Steady(b, w, g)
    BY <1>3, SteadyChange
  <1> QED BY <1>2, <1>4

LEMMA PlainLaunchCarries ==
  ASSUME NEW r, NEW w, NEW g, NEW x \in Slots \ g, x # "initial"
  PROVE  Carries({}, r, <<Do("launch", Launching(r, x), Status(200))>>, w, g, w, g)
  <1>1. LaunchQ(Launching(r, x), r, x, "CompletedAndPassed") /\ "CompletedAndPassed" \in AllMoveOns
    BY LaunchingIs DEF AllMoveOns
  <1>2. Fits(LaunchShown(r, x, "CompletedAndPassed"), Status(200))
    BY DEF Fits, LaunchShown, Status
  <1> QED BY <1>1, <1>2, LaunchCarries

LEMMA CarriesFeeding ==
  ASSUME NEW r, NEW S, NEW w1, NEW g1, NEW w2, NEW g2, Carries({}, r, S, w1, g1, w2, g2), NEW checks
  PROVE  Carries({}, r, Feeding(checks, S), w1, g1, w2, g2)
  <1> SUFFICES ASSUME NEW a, Steady(a, w1, g1)
               PROVE  \E b : Goes({}, r, Feeding(checks, S), a, b) /\ Steady(b, w2, g2)
    BY DEF Carries
  <1>1. PICK b : Goes({}, r, S, a, b) /\ Steady(b, w2, g2)
    BY DEF Carries
  <1>2. Goes({}, r, Feeding(checks, S), a, b)
    BY <1>1, GoesFeeding
  <1> QED BY <1>1, <1>2

LEMMA CarriesClosing ==
  ASSUME NEW r, NEW S, NEW w1, NEW g1, NEW w2, NEW g2, Carries({}, r, S, w1, g1, w2, g2), NEW checks
  PROVE  Carries({}, r, Closing(checks, S), w1, g1, w2, g2)
  <1> SUFFICES ASSUME NEW a, Steady(a, w1, g1)
               PROVE  \E b : Goes({}, r, Closing(checks, S), a, b) /\ Steady(b, w2, g2)
    BY DEF Carries
  <1>1. PICK b : Goes({}, r, S, a, b) /\ Steady(b, w2, g2)
    BY DEF Carries
  <1>2. Goes({}, r, Closing(checks, S), a, b)
    BY <1>1, GoesClosing
  <1> QED BY <1>1, <1>2

LEMMA CarriesTwo ==
  ASSUME NEW r, NEW w1, NEW g1, NEW w2, NEW g2, NEW w3, NEW g3, NEW s, NEW t,
         Carries({}, r, <<s>>, w1, g1, w2, g2), Carries({}, r, <<t>>, w2, g2, w3, g3)
  PROVE  Carries({}, r, <<s, t>>, w1, g1, w3, g3)
  <1> SUFFICES ASSUME NEW a, Steady(a, w1, g1)
               PROVE  \E c : Goes({}, r, <<s, t>>, a, c) /\ Steady(c, w3, g3)
    BY DEF Carries
  <1>1. PICK b : Goes({}, r, <<s>>, a, b) /\ Steady(b, w2, g2)
    BY DEF Carries
  <1>2. PICK c : Goes({}, r, <<t>>, b, c) /\ Steady(c, w3, g3)
    BY <1>1 DEF Carries
  <1>3. Goes({}, r, <<s, t>>, a, c)
    BY <1>1, <1>2, GoesTwo
  <1> QED BY <1>2, <1>3

LEMMA CarriesThree ==
  ASSUME NEW r, NEW w, NEW g, NEW s, NEW t, NEW u,
         Carries({}, r, <<s>>, w, g, w, g), Carries({}, r, <<t>>, w, g, w, g), Carries({}, r, <<u>>, w, g, w, g)
  PROVE  Carries({}, r, <<s, t, u>>, w, g, w, g)
  <1>1. <<s, t, u>> = <<s, t>> \o <<u>>
    OBVIOUS
  <1>2. Carries({}, r, <<s, t>> \o <<u>>, w, g, w, g)
    BY CarriesTwo, CarriesOn
  <1> QED BY <1>1, <1>2

LEMMA CarriesFour ==
  ASSUME NEW r, NEW w, NEW g, NEW s, NEW t, NEW u, NEW v,
         Carries({}, r, <<s>>, w, g, w, g), Carries({}, r, <<t>>, w, g, w, g), Carries({}, r, <<u>>, w, g, w, g),
         Carries({}, r, <<v>>, w, g, w, g)
  PROVE  Carries({}, r, <<s, t, u, v>>, w, g, w, g)
  <1>1. <<s, t, u, v>> = <<s, t, u>> \o <<v>>
    OBVIOUS
  <1>2. Carries({}, r, <<s, t, u>> \o <<v>>, w, g, w, g)
    BY CarriesThree, CarriesOn
  <1> QED BY <1>1, <1>2

LEMMA CarriesFive ==
  ASSUME NEW r, NEW w, NEW g, NEW s, Carries({}, r, <<s>>, w, g, w, g), NEW S, S = [i \in 1 .. 5 |-> s]
  PROVE  Carries({}, r, S, w, g, w, g)
  <1>1. S = <<s, s, s, s>> \o <<s>>
    <2>1. S = <<s, s, s, s, s>>
      OBVIOUS
    <2> QED BY <2>1
  <1>2. Carries({}, r, <<s, s, s, s>> \o <<s>>, w, g, w, g)
    BY CarriesFour, CarriesOn
  <1> QED BY <1>1, <1>2

LEMMA IdentityCarries ==
  ASSUME NEW r, NEW w
  PROVE  Carries({}, r, IdentityMatrix(r), w, {}, w, {}) /\ Carries({}, r, IdentityPassthrough(r), w, {}, w, {})
  <1>1. "identity" \in Slots \ {} /\ "identity" # "initial"
    BY DEF Slots
  <1>2. Carries({}, r, <<Do("launch", Launching(r, "identity"), Status(200))>>, w, {}, w, {})
    BY <1>1, PlainLaunchCarries
  <1>3. Carries({}, r, IdentityMatrix(r), w, {}, w, {})
    BY <1>2, CarriesCheck DEF IdentityMatrix
  <1> DEFINE s == Do("launch", LaunchOf(r, Explicit, Explicit), ExplicitShown)
  <1>4. \A a : Steady(a, w, {}) => \E b : Goes({}, r, <<s>>, a, b) /\ Same(a, b)
    BY ExplicitAnswered DEF Steady
  <1>5. IdentityPassthrough(r) = Check("launch-identity-passthrough", <<s>>)
    BY DEF IdentityPassthrough, ExplicitShown
  <1> HIDE DEF s
  <1>6. Carries({}, r, IdentityPassthrough(r), w, {}, w, {})
    <2>1. Carries({}, r, <<s>>, w, {}, w, {})
      BY <1>4, OneCarries
    <2> QED BY <1>5, <2>1, CarriesCheck
  <1> QED BY <1>3, <1>6

LEMMA MoveOnMatrixCarries ==
  ASSUME NEW r, NEW w
  PROVE  Carries({}, r, MoveOnMatrix(r), w, {}, w, {})
  <1> DEFINE of(m) == <<Do("launch", [Launching(r, LaunchedAs[m]) EXCEPT !.moveOn = m], [status |-> 200, moveOn |-> m])>>
             parts == [i \in DOMAIN MoveOnCases |-> of(MoveOnCases[i])]
  <1>1. ASSUME NEW m \in AllMoveOns
        PROVE  Carries({}, r, of(m), w, {}, w, {})
    <2> DEFINE x == LaunchedAs[m]
               q == [Launching(r, x) EXCEPT !.moveOn = m]
               expect == [status |-> 200, moveOn |-> m]
    <2>1. x \in Slots \ {} /\ x # "initial"
      <3>1. x \in Slots
        BY MoveOnSlots
      <3>2. x # "initial"
        <4>1. /\ LaunchedAs.Passed # "initial" /\ LaunchedAs.Completed # "initial"
              /\ LaunchedAs.CompletedAndPassed # "initial" /\ LaunchedAs.CompletedOrPassed # "initial"
              /\ LaunchedAs.NotApplicable # "initial"
          BY DEF LaunchedAs
        <4>2. \/ m = "Passed" \/ m = "Completed" \/ m = "CompletedAndPassed" \/ m = "CompletedOrPassed"
              \/ m = "NotApplicable"
          BY DEF AllMoveOns
        <4> QED BY <4>1, <4>2
      <3> QED BY <3>1, <3>2
    <2>2. LaunchQ(q, r, x, m)
      BY LaunchingIs
    <2>3. Fits(LaunchShown(r, x, m), expect)
      BY DEF Fits, LaunchShown
    <2> HIDE DEF x, q, expect
    <2>4. Carries({}, r, <<Do("launch", q, expect)>>, w, {}, w, {})
      BY <2>1, <2>2, <2>3, LaunchCarries
    <2> QED BY <2>4 DEF x, q, expect
  <1> HIDE DEF of
  <1>2. Carries({}, r, FlattenSeq(parts), w, {}, w, {})
    BY <1>1, MoveOnCaseList, EachCarries
  <1> HIDE DEF parts
  <1>3. Carries({}, r, Closing({"moveon-matrix"}, Feeding({"moveon-matrix", "context-template-matrix"}, FlattenSeq(parts))),
                w, {}, w, {})
    BY <1>2, CarriesFeeding, CarriesClosing
  <1> QED BY <1>3 DEF MoveOnMatrix, Each, parts, of

LEMMA LaunchModeCarries ==
  ASSUME NEW r, NEW w
  PROVE  Carries({}, r, LaunchModeMatrix(r), w, {}, w, {})
  <1> DEFINE s == Do("launch", Launching(r, "browse"), Status(200))
             t == Do("launch", Launching(r, "review"), Status(200))
             both == {"launch-mode-matrix", "context-template-matrix"}
  <1>1. "browse" \in Slots \ {} /\ "review" \in Slots \ {}
    BY DEF Slots
  <1>2. Carries({}, r, <<s>>, w, {}, w, {}) /\ Carries({}, r, <<t>>, w, {}, w, {})
    BY <1>1, PlainLaunchCarries
  <1>3. LaunchModeMatrix(r) = Closing(both, Feeding(both, <<s, t>>))
    BY DEF LaunchModeMatrix
  <1> HIDE DEF s, t, both
  <1>4. Carries({}, r, <<s, t>>, w, {}, w, {})
    BY <1>2, CarriesTwo
  <1> QED BY <1>3, <1>4, CarriesFeeding, CarriesClosing

LEMMA FlawedCarries ==
  ASSUME NEW r, NEW q, NEW code, NEW w, NEW g,
         \A a : a.imported /\ a.gone = g => LaunchFlawed(r, a, q, code)
  PROVE  Carries({}, r, <<Do("launch", q, Status(code))>>, w, g, w, g)
  <1>1. \A a : Steady(a, w, g) => \E b : Goes({}, r, <<Do("launch", q, Status(code))>>, a, b) /\ Same(a, b)
    <2>1. \A a : Steady(a, w, g) => Knows(a) /\ LaunchFlawed(r, a, q, code)
      BY DEF Steady
    <2> QED BY <2>1, LaunchRefused
  <1> QED BY <1>1, OneCarries

LEMMA InvalidLaunchesCarries ==
  ASSUME NEW r, NEW w
  PROVE  Carries({}, r, InvalidLaunches(r), w, {}, w, {})
  <1> DEFINE launch == Launching(r, "anew")
             flawed(f) == [launch EXCEPT !.flaw = f]
             lost == [launch EXCEPT !.package = MissingPackage]
             bad(q, code) == Do("launch", q, Status(code))
             s == bad(flawed("package"), 400)
             t == bad(lost, 404)
             u == bad(flawed("mode"), 400)
             v == bad(flawed("field"), 400)
             S == [i \in 1 .. 5 |-> v]
  <1>1. /\ flawed("package").flaw = "package"
        /\ lost.flaw = "none" /\ lost.package = MissingPackage
        /\ flawed("mode").flaw = "mode" /\ flawed("mode").package = PackageId[r]
        /\ flawed("field").flaw = "field" /\ flawed("field").package = PackageId[r] /\ flawed("field").session = Own(r, "anew")
        /\ "anew" \in Slots
    BY DEF Launching, LaunchOf, Slots
  <1> HIDE DEF flawed, lost
  <1>2. Carries({}, r, <<s>>, w, {}, w, {})
    <2>1. \A a : LaunchFlawed(r, a, flawed("package"), 400)
      BY <1>1 DEF LaunchFlawed
    <2> QED BY <2>1, FlawedCarries
  <1>3. Carries({}, r, <<t>>, w, {}, w, {})
    <2>1. \A a : LaunchFlawed(r, a, lost, 404)
      BY <1>1 DEF LaunchFlawed
    <2> QED BY <2>1, FlawedCarries
  <1>4. Carries({}, r, <<u>>, w, {}, w, {})
    <2>1. \A a : a.imported /\ a.gone = {} => LaunchFlawed(r, a, flawed("mode"), 400)
      BY <1>1 DEF LaunchFlawed
    <2> QED BY <2>1, FlawedCarries
  <1>5. Carries({}, r, <<v>>, w, {}, w, {})
    <2>1. \A a : a.imported /\ a.gone = {} => LaunchFlawed(r, a, flawed("field"), 400)
      BY <1>1 DEF LaunchFlawed
    <2> QED BY <2>1, FlawedCarries
  <1>6. InvalidLaunches(r) = Check("invalid-launch-matrix", <<s, t, u, u>> \o S)
    BY DEF InvalidLaunches, flawed, lost
  <1> HIDE DEF s, t, u, v
  <1>7. Carries({}, r, <<s, t, u, u>>, w, {}, w, {})
    BY <1>2, <1>3, <1>4, CarriesFour
  <1>8. Carries({}, r, S, w, {}, w, {})
    BY <1>5, CarriesFive
  <1> HIDE DEF S
  <1> QED BY <1>6, <1>7, <1>8, CarriesOn, CarriesCheck

(* A launch for the first registration, in a session of the run's own. *)
Dated(s, op, q, expect, date) ==
    /\ IsStep(s) /\ s.op = op /\ s.q = q /\ s.expect = expect /\ s.date = date
    /\ s.needs \subseteq {"initial"} /\ s.tokens = {} /\ s.inner = FALSE

LEMMA GoesDated ==
  ASSUME NEW r, NEW a, Knows(a), "initial" \in a.called, NEW op, NEW q, NEW expect, NEW date, op # "read",
         NEW s, Dated(s, op, q, expect, date),
         NEW shown, NEW b, Outcome(r, a, s, shown, b), Fits(shown, expect), Knows(b),
         date = "free" \/ DateFits(a, s, shown), a.called \subseteq b.called, a.tokens \subseteq b.tokens
  PROVE  Goes({}, r, <<s>>, a, b)
  <1>1. Able(a, s)
    BY DEF Able, Dated
  <1>2. DateFits(a, s, shown)
    BY DEF DateFits, Dated
  <1>3. Good({}, r, a, s, b) /\ IsStep(s)
    BY <1>1, <1>2 DEF Good, Dated
  <1> QED BY <1>3, GoesOne

ResumedShown(r, x, date) ==
    [status |-> 200, session |-> Own(r, x), registration |-> Own(r, "initial"), waivedAt |-> date]

LEMMA ResumeCarries ==
  ASSUME NEW r, NEW w \in BOOLEAN, NEW x \in Slots, x # "initial", NEW expect, NEW date, NEW s,
         Dated(s, "launch", LaunchOf(r, Own(r, x), Own(r, "initial")), expect, date),
         Fits(ResumedShown(r, x, IF w THEN 0 ELSE Never), expect),
         date = "free" \/ (date = "same" /\ w)
  PROVE  Carries({}, r, <<s>>, w, {}, w, {})
  <1> SUFFICES ASSUME NEW a, Steady(a, w, {})
               PROVE  \E b : Goes({}, r, <<s>>, a, b) /\ Steady(b, w, {})
    BY DEF Carries
  <1> DEFINE q == LaunchOf(r, Own(r, x), Own(r, "initial"))
             shown == ResumedShown(r, x, IF w THEN 0 ELSE Never)
             b == AfterLaunch(a, x, Unknown, shown)
  <1>1. Knows(a) /\ a.imported /\ a.waived = w /\ a.gone = {} /\ "initial" \in a.called
    BY DEF Steady
  <1>2. s.op = "launch" /\ Clean(s.q, r) /\ s.q.session = Own(r, x) /\ s.q.registration = Own(r, "initial")
    BY DEF Dated, Clean, LaunchOf
  <1> HIDE DEF b
  <1>3. Outcome(r, a, s, shown, b)
    <2>1. ResumeDone(r, a, s, shown, b)
      BY <1>1, <1>2 DEF ResumeDone, ResumedShown, b
    <2> QED BY <2>1 DEF Outcome, Done
  <1>4. Changes(a, b, x, Unknown)
    BY <1>1, AfterLaunchIs DEF b
  <1>5. Knows(b) /\ a.called \subseteq b.called /\ a.tokens \subseteq b.tokens
    BY <1>4, KeepsKnows
  <1>6. date = "free" \/ DateFits(a, s, shown)
    <2>1. CASE date = "same" /\ w
      <3>1. shown.status = 200 /\ shown.waivedAt = 0 /\ {"status", "waivedAt"} \subseteq DOMAIN shown
        BY <2>1 DEF ResumedShown
      <3>2. s.date = "same"
        BY <2>1 DEF Dated
      <3> QED BY <1>1, <2>1, <3>1, <3>2 DEF DateFits
    <2> QED BY <2>1
  <1> HIDE DEF q, shown
  <1>7. Goes({}, r, <<s>>, a, b)
    BY <1>1, <1>3, <1>5, <1>6, GoesDated DEF q, shown
  <1>8. Steady(b, w, {})
    BY <1>4, SteadyChange
  <1> QED BY <1>7, <1>8

LEMMA ResumeCheckCarries ==
  ASSUME NEW r
  PROVE  Carries({}, r, Resume(r), FALSE, {}, FALSE, {})
  <1> DEFINE x == "resumed"
             q == LaunchOf(r, Own(r, x), Own(r, "initial"))
             expect == [status |-> 200, registration |-> Own(r, "initial"), session |-> Own(r, x)]
             s == Do("launch", q, expect)
  <1>1. Dated(s, "launch", q, expect, "free")
    <2>1. Plain(s, "launch", q, expect)
      BY DoPlain
    <2> HIDE DEF s, q, expect
    <2> QED BY <2>1 DEF Plain, Dated
  <1>2. Fits(ResumedShown(r, x, Never), expect)
    BY DEF Fits, ResumedShown
  <1>3. Resume(r) = Check("resume-continuity", <<s>>)
    BY DEF Resume
  <1> HIDE DEF s, expect
  <1>4. Carries({}, r, <<s>>, FALSE, {}, FALSE, {})
    <2>1. x \in Slots /\ x # "initial"
      BY DEF Slots
    <2> QED BY <1>1, <1>2, <2>1, ResumeCarries
  <1> QED BY <1>3, <1>4, CarriesCheck

LEMMA ResumeMatrixCarries ==
  ASSUME NEW r, NEW w
  PROVE  Carries({}, r, ResumeMatrix(r), w, {}, w, {})
  <1> DEFINE again == LaunchOf(r, Own(r, "anew"), Own(r, "initial"))
             flawed == [again EXCEPT !.flaw = "package"]
             lost == [again EXCEPT !.package = MissingPackage]
             s == Do("launch", flawed, Status(400))
             t == Do("launch", Launching(r, "anew"), Status(200))
             u == Do("launch", lost, Status(404))
  <1>1. flawed.flaw = "package" /\ lost.flaw = "none" /\ lost.package = MissingPackage
    BY DEF LaunchOf
  <1>2. ResumeMatrix(r) = Check("resume-matrix", <<s, t, u>>)
    BY DEF ResumeMatrix
  <1> HIDE DEF flawed, lost
  <1>3. Carries({}, r, <<s>>, w, {}, w, {}) /\ Carries({}, r, <<u>>, w, {}, w, {})
    <2>1. \A a : LaunchFlawed(r, a, flawed, 400) /\ LaunchFlawed(r, a, lost, 404)
      BY <1>1 DEF LaunchFlawed
    <2> QED BY <2>1, FlawedCarries
  <1>4. Carries({}, r, <<t>>, w, {}, w, {})
    <2>1. "anew" \in Slots \ {} /\ "anew" # "initial"
      BY DEF Slots
    <2> QED BY <2>1, PlainLaunchCarries
  <1> HIDE DEF s, t, u
  <1>5. Carries({}, r, <<s, t, u>>, w, {}, w, {})
    BY <1>3, <1>4, CarriesThree
  <1> QED BY <1>2, <1>5, CarriesCheck

(* The first registration waived, and the first session abandoned. *)
LEMMA DatedSteps ==
  ASSUME NEW r
  PROVE  /\ \A expect, date : Dated(Waiver(r, expect, date), "waive", [registration |-> Own(r, "initial")], expect, date)
         /\ \A code : Dated(Abandonment(r, code), "abandon", [session |-> Own(r, "initial")], Status(code), "free")
         /\ Dated(LaunchAbandoned(r), "launch", LaunchOf(r, Own(r, "initial"), Own(r, "anew")), Status(409), "free")
  <1>1. \A op, q, expect, date : Dated([Do(op, q, expect) EXCEPT !.date = date, !.needs = {"initial"}], op, q, expect, date)
    BY DEF Do, Dated, IsStep, StepFields
  <1>2. \A op, q, expect : Dated([Do(op, q, expect) EXCEPT !.needs = {"initial"}], op, q, expect, "free")
    BY DEF Do, Dated, IsStep, StepFields
  <1> QED BY <1>1, <1>2, ZenonT(40) DEF Waiver, Abandonment, LaunchAbandoned

LEMMA WaiverGoes ==
  ASSUME NEW r, NEW a, Steady(a, FALSE, {})
  PROVE  \E b : /\ Goes({}, r, <<Waiver(r, Status(200), "first")>>, a, b) /\ Steady(b, TRUE, {})
                /\ b.seen = [status |-> 200, already |-> FALSE, waivedAt |-> 0]
  <1> DEFINE q == [registration |-> Own(r, "initial")]
             s == Waiver(r, Status(200), "first")
             shown == [status |-> 200, already |-> FALSE, waivedAt |-> 0]
             b == AfterWaive(a, shown)
  <1>1. Dated(s, "waive", q, Status(200), "first")
    BY DatedSteps
  <1>2. /\ Knows(a) /\ "initial" \in a.called /\ a.waived = FALSE /\ a.slots["initial"].moveOn # "none"
        /\ a.imported /\ a.gone = {} /\ a.slots["initial"].moveOn = "CompletedAndPassed"
    BY DEF Steady
  <1>3. /\ b.imported = a.imported /\ b.waived = TRUE /\ b.gone = a.gone /\ b.slots = a.slots
        /\ b.called = a.called /\ b.tokens = a.tokens /\ b.seen = shown
    BY DEF AfterWaive, Know
  <1> HIDE DEF s, b
  <1>4. Outcome(r, a, s, shown, b)
    <2>1. WaiveDone(r, a, s, shown, b)
      BY <1>1, <1>2 DEF WaiveDone, Dated, b
    <2> QED BY <2>1 DEF Outcome, Done
  <1>5. Fits(shown, Status(200))
    BY DEF Fits, Status
  <1>6. DateFits(a, s, shown)
    <2>1. shown.waivedAt = 0 /\ "waivedAt" \in DOMAIN shown /\ s.date = "first"
      BY <1>1 DEF Dated
    <2> QED BY <2>1 DEF DateFits
  <1>7. Knows(b) /\ a.called \subseteq b.called /\ a.tokens \subseteq b.tokens
    BY <1>2, <1>3 DEF Knows
  <1> HIDE DEF shown, q
  <1>8. Goes({}, r, <<s>>, a, b)
    BY <1>1, <1>2, <1>4, <1>5, <1>6, <1>7, GoesDated
  <1>9. Steady(b, TRUE, {})
    BY <1>2, <1>3, <1>7 DEF Steady
  <1> QED BY <1>3, <1>8, <1>9 DEF s, shown

LEMMA FitsAlready ==
  ASSUME NEW v, NEW t
  PROVE  /\ Fits([status |-> 200, already |-> v, waivedAt |-> t], [status |-> 200, already |-> v])
         /\ Fits([status |-> 200, already |-> v, waivedAt |-> t], [already |-> v])
  BY DEF Fits

LEMMA WaiverAgain ==
  ASSUME NEW r, NEW g, NEW date \in {"free", "same"}
  PROVE  Carries({}, r, <<Waiver(r, [status |-> 200, already |-> TRUE], date)>>, TRUE, g, TRUE, g)
  <1> DEFINE q == [registration |-> Own(r, "initial")]
             expect == [status |-> 200, already |-> TRUE]
             s == Waiver(r, expect, date)
             shown == [status |-> 200, already |-> TRUE, waivedAt |-> 0]
  <1>1. Dated(s, "waive", q, expect, date)
    BY DatedSteps
  <1> HIDE DEF s
  <1>2. ASSUME NEW a, Steady(a, TRUE, g)
        PROVE  \E b : Goes({}, r, <<s>>, a, b) /\ Same(a, b)
    <2> DEFINE b == AfterSeeing(a, shown)
    <2>1. /\ Knows(a) /\ "initial" \in a.called /\ a.waived = TRUE /\ a.slots["initial"].moveOn # "none"
      BY <1>2 DEF Steady
    <2>2. Outcome(r, a, s, shown, b)
      <3>1. Told(r, a, s, shown)
        BY <1>1, <2>1 DEF Told, Dated
      <3> QED BY <3>1 DEF Outcome
    <2> HIDE DEF b
    <2>3. Fits(shown, expect)
      BY FitsAlready
    <2>4. date = "free" \/ DateFits(a, s, shown)
      <3>1. shown.status = 200 /\ shown.waivedAt = 0 /\ {"status", "waivedAt"} \subseteq DOMAIN shown
        OBVIOUS
      <3>2. s.date = date
        BY <1>1 DEF Dated
      <3> QED BY <2>1, <3>1, <3>2 DEF DateFits
    <2>5. Same(a, b) /\ Knows(b) /\ a.called \subseteq b.called /\ a.tokens \subseteq b.tokens
      BY <2>1, SeeingSame, KeepsKnows DEF b
    <2> HIDE DEF shown, q, expect
    <2>6. Goes({}, r, <<s>>, a, b)
      BY <1>1, <2>1, <2>2, <2>3, <2>4, <2>5, GoesDated
    <2> QED BY <2>5, <2>6
  <1>3. Carries({}, r, <<s>>, TRUE, g, TRUE, g)
    BY <1>2, OneCarries
  <1> QED BY <1>3 DEF s

LEMMA WaiveChecksCarries ==
  ASSUME NEW r
  PROVE  Carries({}, r, WaiveChecks(r), FALSE, {}, TRUE, {})
  <1> SUFFICES ASSUME NEW a, Steady(a, FALSE, {})
               PROVE  \E b : Goes({}, r, WaiveChecks(r), a, b) /\ Steady(b, TRUE, {})
    BY DEF Carries
  <1> DEFINE first == Waiver(r, Status(200), "first")
             read == [Read([already |-> FALSE]) EXCEPT !.needs = {"initial"}]
             again == Waiver(r, [status |-> 200, already |-> TRUE], "same")
             q == LaunchOf(r, Own(r, "waived"), Own(r, "initial"))
             launch == [Do("launch", q, Status(200)) EXCEPT !.date = "same", !.needs = {"initial"}]
             more == <<read, again, launch>>
  <1>1. PICK b : /\ Goes({}, r, <<first>>, a, b) /\ Steady(b, TRUE, {})
                 /\ b.seen = [status |-> 200, already |-> FALSE, waivedAt |-> 0]
    BY WaiverGoes
  <1>2. Goes({}, r, <<read>>, b, b)
    <2>1. /\ IsStep(read) /\ read.op = "read" /\ read.date = "free" /\ read.expect = [already |-> FALSE]
          /\ read.needs = {"initial"} /\ read.tokens = {} /\ read.inner = FALSE
      BY DEF Read, Do, IsStep, StepFields
    <2>2. Fits(b.seen, [already |-> FALSE])
      BY <1>1, FitsAlready, ZenonT(40)
    <2> HIDE DEF read
    <2>3. Good({}, r, b, read, b) /\ Knows(b)
      BY <1>1, <2>1, <2>2 DEF Good, Able, Steady
    <2> QED BY <2>1, <2>3, GoesOne
  <1>3. Carries({}, r, <<again>>, TRUE, {}, TRUE, {})
    BY WaiverAgain
  <1>4. Carries({}, r, <<launch>>, TRUE, {}, TRUE, {})
    <2>1. Dated(launch, "launch", q, Status(200), "same")
      <3> HIDE DEF q
      <3> QED BY DEF Do, Dated, IsStep, StepFields
    <2>2. Fits(ResumedShown(r, "waived", 0), Status(200))
      BY DEF Fits, ResumedShown, Status
    <2>3. "waived" \in Slots /\ "waived" # "initial"
      BY DEF Slots
    <2> HIDE DEF launch
    <2> QED BY <2>1, <2>2, <2>3, ResumeCarries
  <1> HIDE DEF first, read, again, launch
  <1>5. PICK c : Goes({}, r, <<again>>, b, c) /\ Steady(c, TRUE, {})
    BY <1>1, <1>3 DEF Carries
  <1>6. PICK d : Goes({}, r, <<launch>>, c, d) /\ Steady(d, TRUE, {})
    BY <1>4, <1>5 DEF Carries
  <1>7. Goes({}, r, more, b, d)
    BY <1>2, <1>5, <1>6, GoesThree
  <1> HIDE DEF more
  <1>8. Goes({}, r, Check("registration-waive", <<first>>) \o Feeding({Lifecycle}, more), a, d)
    BY <1>1, <1>7, GoesCheck, GoesFeeding, GoesOn
  <1>9. WaiveChecks(r) = Check("registration-waive", <<first>>) \o Feeding({Lifecycle}, more)
    BY DEF WaiveChecks, first, more, read, again, launch
  <1> QED BY <1>6, <1>8, <1>9

LEMMA AbandonGoes ==
  ASSUME NEW r
  PROVE  Carries({}, r, <<Abandonment(r, 200)>>, TRUE, {}, TRUE, {"initial"})
  <1> DEFINE q == [session |-> Own(r, "initial")]
             s == Abandonment(r, 200)
  <1>1. Dated(s, "abandon", q, Status(200), "free")
    BY DatedSteps
  <1> HIDE DEF s
  <1>2. ASSUME NEW a, Steady(a, TRUE, {})
        PROVE  \E b : Goes({}, r, <<s>>, a, b) /\ Steady(b, TRUE, {"initial"})
    <2> DEFINE b == AfterAbandon(a, "initial", Ok)
               v == SlotKnowledge(a.slots["initial"].moveOn, "unknown", a.slots["initial"].log, a.slots["initial"].noted)
    <2>1. /\ Knows(a) /\ "initial" \in a.called /\ a.waived = TRUE /\ a.gone = {} /\ a.imported
          /\ a.slots["initial"].moveOn = "CompletedAndPassed" /\ "initial" \in Slots
      BY <1>2 DEF Steady, Slots
    <2>2. /\ b.imported = a.imported /\ b.waived = a.waived /\ b.gone = {"initial"}
          /\ b.slots = [a.slots EXCEPT !["initial"] = v] /\ b.called = a.called /\ b.tokens = a.tokens
      BY <2>1 DEF AfterAbandon, Know, SlotAfter
    <2>3. v.moveOn = "CompletedAndPassed"
      BY <2>1 DEF SlotKnowledge
    <2> HIDE DEF b, v
    <2>4. Outcome(r, a, s, Ok, b)
      <3>1. s.op = "abandon" /\ s.q.session = Own(r, "initial")
        BY <1>1 DEF Dated
      <3>2. AbandonDone(r, a, s, Ok, b)
        BY <2>1, <3>1 DEF AbandonDone, b
      <3> QED BY <3>2 DEF Outcome, Done
    <2>5. Knows(b) /\ a.called \subseteq b.called /\ a.tokens \subseteq b.tokens
      BY <2>1, <2>2 DEF Knows
    <2>6. Fits(Ok, Status(200))
      BY DEF Fits, Ok, Status
    <2> HIDE DEF q
    <2>7. Goes({}, r, <<s>>, a, b)
      BY <1>1, <2>1, <2>4, <2>5, <2>6, GoesDated
    <2>8. Steady(b, TRUE, {"initial"})
      <3>1. b.slots["initial"] = v
        BY <2>1, <2>2 DEF Knows
      <3> QED BY <2>1, <2>2, <2>3, <2>5, <3>1 DEF Steady
    <2> QED BY <2>7, <2>8
  <1> QED BY <1>2 DEF Carries, s

LEMMA DatedRefused ==
  ASSUME NEW r, NEW w, NEW g, NEW op, op # "read", NEW q, NEW s, Dated(s, op, q, Status(409), "free"),
         \A a : Steady(a, w, g) => Refused409(r, a, s)
  PROVE  Carries({}, r, <<s>>, w, g, w, g)
  <1>1. ASSUME NEW a, Steady(a, w, g)
        PROVE  \E b : Goes({}, r, <<s>>, a, b) /\ Same(a, b)
    <2> DEFINE b == AfterSeeing(a, Status(409))
    <2>1. Knows(a) /\ "initial" \in a.called /\ Refused409(r, a, s)
      BY <1>1 DEF Steady
    <2>2. Outcome(r, a, s, Status(409), b)
      <3>1. RefusedAs(r, a, s, 409)
        BY <2>1 DEF RefusedAs
      <3> QED BY <3>1 DEF Outcome
    <2> HIDE DEF b
    <2>3. Same(a, b) /\ Knows(b) /\ a.called \subseteq b.called /\ a.tokens \subseteq b.tokens
      BY <2>1, SeeingSame, KeepsKnows DEF b
    <2>4. Fits(Status(409), Status(409))
      BY DEF Fits
    <2>5. Goes({}, r, <<s>>, a, b)
      BY <2>1, <2>2, <2>3, <2>4, GoesDated
    <2> QED BY <2>3, <2>5
  <1> QED BY <1>1, OneCarries

LEMMA AbandonedRefused ==
  ASSUME NEW r, NEW w
  PROVE  /\ Carries({}, r, <<Abandonment(r, 409)>>, w, {"initial"}, w, {"initial"})
         /\ Carries({}, r, <<LaunchAbandoned(r)>>, w, {"initial"}, w, {"initial"})
         /\ Carries({}, r, <<Abandonment(r, 409), LaunchAbandoned(r)>>, w, {"initial"}, w, {"initial"})
  <1> DEFINE s == Abandonment(r, 409)
             t == LaunchAbandoned(r)
             p == [session |-> Own(r, "initial")]
             q == LaunchOf(r, Own(r, "initial"), Own(r, "anew"))
  <1>1. Dated(s, "abandon", p, Status(409), "free") /\ Dated(t, "launch", q, Status(409), "free")
    BY DatedSteps
  <1>2. s.op = "abandon" /\ s.q.session = Own(r, "initial")
    BY <1>1 DEF Dated
  <1>3. t.op = "launch" /\ t.q.session = Own(r, "initial") /\ Clean(t.q, r)
    BY <1>1 DEF Dated, LaunchOf, Clean
  <1> HIDE DEF s, t, p, q
  <1>4. ASSUME NEW a, Steady(a, w, {"initial"})
        PROVE  Refused409(r, a, s) /\ Refused409(r, a, t)
    <2>1. a.imported /\ a.gone = {"initial"} /\ "initial" \in Slots /\ a.slots["initial"].moveOn # "none"
      BY <1>4 DEF Steady, Slots
    <2> QED BY <1>2, <1>3, <2>1 DEF Refused409
  <1>5. Carries({}, r, <<s>>, w, {"initial"}, w, {"initial"})
    BY <1>1, <1>4, DatedRefused
  <1>6. Carries({}, r, <<t>>, w, {"initial"}, w, {"initial"})
    BY <1>1, <1>4, DatedRefused
  <1>7. Carries({}, r, <<s, t>>, w, {"initial"}, w, {"initial"})
    BY <1>5, <1>6, CarriesTwo
  <1> QED BY <1>5, <1>6, <1>7 DEF s, t

LEMMA LookCarries ==
  ASSUME NEW r, NEW w, NEW g
  PROVE  Carries({}, r, <<Read(<<>>)>>, w, g, w, g)
  <1>1. ASSUME NEW a, Steady(a, w, g)
        PROVE  Goes({}, r, <<Read(<<>>)>>, a, a)
    BY <1>1, FitsNothing, GoesRead DEF Steady
  <1> QED BY <1>1 DEF Carries

LEMMA AbandonChecksCarries ==
  ASSUME NEW r
  PROVE  Carries({}, r, AbandonChecks(r), TRUE, {}, TRUE, {"initial"})
  <1> DEFINE one == <<Abandonment(r, 200)>>
             two == <<Abandonment(r, 409), LaunchAbandoned(r)>>
             last == <<Read(<<>>)>>
             g == {"initial"}
  <1>1. Carries({}, r, one, TRUE, {}, TRUE, g)
    BY AbandonGoes
  <1>2. Carries({}, r, two, TRUE, g, TRUE, g)
    BY AbandonedRefused, ZenonT(40)
  <1>3. Carries({}, r, last, TRUE, g, TRUE, g)
    BY LookCarries
  <1>4. AbandonChecks(r) = Check("session-abandon", one) \o Feeding({Lifecycle}, two) \o Inner(Closing({Lifecycle}, last))
    BY DEF AbandonChecks
  <1> HIDE DEF one, two, last, g
  <1>5. /\ Carries({}, r, Check("session-abandon", one), TRUE, {}, TRUE, g)
        /\ Carries({}, r, Feeding({Lifecycle}, two), TRUE, g, TRUE, g)
        /\ Carries({}, r, Inner(Closing({Lifecycle}, last)), TRUE, g, TRUE, g)
    BY <1>1, <1>2, <1>3, CarriesCheck, CarriesFeeding, CarriesInner, CarriesClosing
  <1>6. Carries({}, r, AbandonChecks(r), TRUE, {}, TRUE, g)
    BY <1>4, <1>5, CarriesOn
  <1> QED BY <1>6 DEF g

(* The durable matrix. *)
LEMMA GoesExcusedReads ==
  ASSUME NEW E, E # {}, NEW r, NEW S, IsSeq(S), NEW a, Knows(a),
         \A i \in 1 .. Len(S) : /\ IsStep(S[i]) /\ S[i].op = "read" /\ S[i].date = "free" /\ S[i].needs = {}
                                /\ S[i].tokens = {} /\ S[i].inner = FALSE /\ S[i].feeds \subseteq E
  PROVE  Goes(E, r, S, a, a)
  <1> DEFINE p == [i \in 0 .. Len(S) |-> a]
  <1>1. Len(S) \in Nat
    BY DEF IsSeq
  <1>2. \A i \in 1 .. Len(S) : Good(E, r, a, S[i], a)
    BY DEF Good, Able
  <1>3. \A i \in 0 .. Len(S) : p[i] = a
    OBVIOUS
  <1> HIDE DEF p
  <1>4. \A i \in 1 .. Len(S) : p[i - 1] = a /\ p[i] = a
    BY <1>1, <1>3
  <1>5. Route(E, r, S, a, p) /\ p[Len(S)] = a
    BY <1>1, <1>2, <1>3, <1>4 DEF Route
  <1> QED BY <1>5 DEF Goes

LEMMA UnableGoes ==
  ASSUME NEW r, NEW a, Knows(a), NEW name
  PROVE  Goes({name}, r, Check(name, <<Read([loaded |-> TRUE])>> \o <<Read(<<>>)>>), a, a)
  <1> DEFINE x == Read([loaded |-> TRUE])
             y == Read(<<>>)
             S == <<x>> \o <<y>>
             t == Feeding({name}, S)
             u == Closing({name}, t)
             Reads(s) == /\ IsStep(s) /\ s.op = "read" /\ s.date = "free" /\ s.needs = {}
                         /\ s.tokens = {} /\ s.inner = FALSE
  <1>1. Reads(x) /\ x.feeds = {} /\ Reads(y) /\ y.feeds = {}
    BY DEF Read, Do, IsStep, StepFields
  <1>2. /\ IsSeq(S) /\ Len(S) = 2 /\ DOMAIN S = 1 .. 2
        /\ \A i \in 1 .. 2 : Reads(S[i]) /\ S[i].feeds = {}
    <2> HIDE DEF x, y, Reads
    <2>1. S = <<x, y>>
      BY PairJoined
    <2> HIDE DEF S
    <2>2. Len(S) = 2 /\ DOMAIN S = 1 .. 2 /\ S[1] = x /\ S[2] = y /\ S = [i \in 1 .. 2 |-> S[i]]
      BY <2>1
    <2>3. \A i \in 1 .. 2 : i = 1 \/ i = 2
      OBVIOUS
    <2> QED BY <1>1, <2>2, <2>3 DEF IsSeq
  <1> HIDE DEF S
  <1>3. /\ DOMAIN t = 1 .. 2 /\ t = [i \in 1 .. 2 |-> t[i]]
        /\ \A i \in 1 .. 2 : t[i] = [S[i] EXCEPT !.feeds = @ \union {name}]
    BY <1>2 DEF Feeding
  <1> HIDE DEF t
  <1>4. \A i \in 1 .. 2 : Reads(t[i]) /\ t[i].feeds = {name}
    BY <1>2, <1>3 DEF IsStep, StepFields
  <1>5. IsSeq(t) /\ Len(t) = 2
    BY <1>2, <1>3, MappedSeq
  <1>6. u = [t EXCEPT ![2] = [t[2] EXCEPT !.closes = @ \union {name}]]
    BY <1>5 DEF Closing
  <1> DEFINE e == [t[2] EXCEPT !.closes = @ \union {name}]
  <1>7. Reads(e) /\ e.feeds = {name}
    BY <1>4 DEF IsStep, StepFields
  <1> HIDE DEF e, Reads, u
  <1>8. /\ DOMAIN u = DOMAIN t /\ u = [i \in DOMAIN t |-> u[i]]
        /\ \A i \in 1 .. 2 : Reads(u[i]) /\ u[i].feeds = {name}
    BY <1>3, <1>4, <1>6, <1>7 DEF e
  <1>9. IsSeq(u) /\ Len(u) = 2
    BY <1>5, <1>8, MappedSeq
  <1>10. Goes({name}, r, u, a, a)
    BY <1>8, <1>9, GoesExcusedReads DEF Reads
  <1> QED BY <1>10 DEF Check, u, t, S

(* What a run may fail: the durable check of an adapter without reload. *)
ExcusedBy(offers) == IF "durable" \in offers /\ "reload" \notin offers THEN {"durable-state-matrix"} ELSE {}

LEMMA DurableCarries ==
  ASSUME NEW r, NEW offers
  PROVE  Carries(ExcusedBy(offers), r, DurableMatrix(r, offers), TRUE, {"initial"}, TRUE, {"initial"})
  <1> DEFINE name == "durable-state-matrix"
             reload == <<Do("reload", <<>>, [status |-> 200, loaded |-> TRUE])>>
             after == <<Waiver(r, [status |-> 200, already |-> TRUE], "free"), Abandonment(r, 409), LaunchAbandoned(r)>>
             last == <<Read(<<>>)>>
             g == {"initial"}
             E == ExcusedBy(offers)
  <1>1. CASE "durable" \in offers /\ "reload" \in offers
    <2>1. Carries({}, r, reload, TRUE, g, TRUE, g)
      <3>1. \A a : Steady(a, TRUE, g) => \E b : Goes({}, r, reload, a, b) /\ Same(a, b)
        BY ReloadAnswered DEF Steady
      <3> QED BY <3>1, OneCarries
    <2>2. Carries({}, r, after, TRUE, g, TRUE, g)
      <3> DEFINE s == Waiver(r, [status |-> 200, already |-> TRUE], "free")
                 w == TRUE
      <3>1. Carries({}, r, <<s>>, w, g, w, g)
        BY WaiverAgain
      <3>2. Carries({}, r, <<Abandonment(r, 409)>>, w, g, w, g) /\ Carries({}, r, <<LaunchAbandoned(r)>>, w, g, w, g)
        BY AbandonedRefused, ZenonT(40)
      <3> HIDE DEF s, w, g
      <3>3. Carries({}, r, <<s, Abandonment(r, 409), LaunchAbandoned(r)>>, w, g, w, g)
        BY <3>1, <3>2, CarriesThree
      <3> QED BY <3>3 DEF s, w
    <2>3. Carries({}, r, last, TRUE, g, TRUE, g)
      BY LookCarries
    <2>4. DurableMatrix(r, offers) = Check(name, reload \o Inner(after) \o last)
      BY <1>1 DEF DurableMatrix, CheckIf
    <2> HIDE DEF reload, after, last, g
    <2>5. Carries({}, r, reload \o Inner(after) \o last, TRUE, g, TRUE, g)
      BY <2>1, <2>2, <2>3, CarriesOn, CarriesInner
    <2>6. Carries({}, r, DurableMatrix(r, offers), TRUE, g, TRUE, g)
      BY <2>4, <2>5, CarriesCheck
    <2> HIDE DEF E
    <2>7. Carries(E, r, DurableMatrix(r, offers), TRUE, g, TRUE, g)
      BY <2>6, CarriesExcused
    <2> QED BY <2>7 DEF E, g
  <1>2. CASE "durable" \in offers /\ "reload" \notin offers
    <2>1. DurableMatrix(r, offers) = Check(name, <<Read([loaded |-> TRUE])>> \o <<Read(<<>>)>>)
      BY <1>2 DEF DurableMatrix, CheckIf
    <2>2. ASSUME NEW a, Steady(a, TRUE, g)
          PROVE  Goes({name}, r, DurableMatrix(r, offers), a, a)
      BY <2>1, <2>2, UnableGoes DEF Steady
    <2>3. Carries({name}, r, DurableMatrix(r, offers), TRUE, g, TRUE, g)
      BY <2>2 DEF Carries
    <2> QED BY <1>2, <2>3 DEF ExcusedBy
  <1>3. CASE "durable" \notin offers
    <2>1. DurableMatrix(r, offers) = Skip(name)
      BY <1>3 DEF DurableMatrix, CheckIf
    <2>2. ASSUME NEW a, Steady(a, TRUE, g)
          PROVE  Goes({}, r, DurableMatrix(r, offers), a, a)
      BY <2>1, <2>2, GoesSkip DEF Steady
    <2>3. Carries({}, r, DurableMatrix(r, offers), TRUE, g, TRUE, g)
      BY <2>2 DEF Carries
    <2> QED BY <1>3, <2>3 DEF ExcusedBy
  <1> QED BY <1>1, <1>2, <1>3

(* The cross system matrix. *)
LEMMA HasSaidSame ==
  ASSUME NEW a, NEW b, Same(a, b), NEW x, NEW m, NEW flow, HasSaid(a, x, m, flow)
  PROVE  HasSaid(b, x, m, flow)
  BY DEF Same, Keeps, HasSaid

LEMMA HasSaidChange ==
  ASSUME NEW a, NEW b, NEW y, NEW v, Changes(a, b, y, v), NEW x, NEW m, NEW flow, HasSaid(a, x, m, flow), x # y
  PROVE  HasSaid(b, x, m, flow)
  BY DEF Changes, Keeps, HasSaid

LEMMA HasSaidIsHeld ==
  ASSUME NEW a, NEW x, NEW m \in AllMoveOns, NEW flow, HasSaid(a, x, m, flow)
  PROVE  Knows(a) /\ x \in Slots \ a.gone /\ Held(a, x) /\ a.slots[x].moveOn = m /\ a.slots[x].log = flow
  BY DEF HasSaid, Held, SlotKnowledge, AllMoveOns

CrossOpen(a) ==
    /\ Steady(a, TRUE, {"initial"})
    /\ HeldSlot(a, "crossA", "CompletedAndPassed") /\ HeldSlot(a, "crossB", "CompletedAndPassed")

CrossOpening(r) ==
    <<Do("launch", Launching(r, "crossA"), Status(200)), Do("launch", Launching(r, "crossB"), Status(200))>>
    \o Needing({"crossA", "crossB"}, {}, <<Exchange(r, "crossA"), Exchange(r, "crossB")>>)

CrossShown(r) ==
    <<Get(r, "crossA", TokenOf(r, "crossA"), [status |-> 200, count |-> 3]),
      Get(r, "crossB", TokenOf(r, "crossB"), [status |-> 200, count |-> 5]),
      Get(r, "crossA", TokenOf(r, "crossB"), Status(401))>>

LEMMA CrossSlots ==
  ASSUME NEW a, Steady(a, TRUE, {"initial"})
  PROVE  /\ "crossA" \in Slots \ a.gone /\ "crossB" \in Slots \ a.gone /\ "crossA" # "crossB"
         /\ "crossA" # "initial" /\ "crossB" # "initial" /\ Knows(a) /\ a.imported /\ "CompletedAndPassed" \in AllMoveOns
  BY DEF Steady, Slots, AllMoveOns

LEMMA CrossOpens ==
  ASSUME NEW r, NEW a, Steady(a, TRUE, {"initial"})
  PROVE  \E e : Goes({}, r, CrossOpening(r), a, e) /\ CrossOpen(e)
  <1> DEFINE both == "CompletedAndPassed"
             x == "crossA"
             y == "crossB"
             g == {"initial"}
             s1 == Do("launch", Launching(r, x), Status(200))
             s2 == Do("launch", Launching(r, y), Status(200))
             s3 == Exchange(r, x)
             s4 == Exchange(r, y)
  <1>1. /\ x \in Slots \ a.gone /\ y \in Slots \ a.gone /\ x # y /\ x # "initial" /\ y # "initial"
        /\ Knows(a) /\ a.imported /\ both \in AllMoveOns
    BY CrossSlots
  <1> HIDE DEF x, y, both, g
  <1>2. PICK b : Goes({}, r, <<s1>>, a, b) /\ FreshIn(a, b, r, x, both)
    BY <1>1, PlainLaunchGoes DEF both
  <1>3. Changes(a, b, x, FreshSlot(both)) /\ b.slots[x] = FreshSlot(both) /\ x \in b.called /\ Steady(b, TRUE, g)
    <2>1. Changes(a, b, x, FreshSlot(both)) /\ b.slots[x] = FreshSlot(both) /\ x \in b.called
      BY <1>2, FreshInIs
    <2>2. Steady(a, TRUE, g)
      BY DEF g
    <2>3. Steady(b, TRUE, g)
      BY <1>1, <2>1, <2>2, SteadyChange
    <2> QED BY <2>1, <2>3
  <1>4. y \in Slots \ b.gone /\ x \in Slots \ b.gone /\ Knows(b) /\ b.imported
    BY <1>3, CrossSlots DEF x, y, g
  <1>5. PICK c : Goes({}, r, <<s2>>, b, c) /\ FreshIn(b, c, r, y, both)
    BY <1>4, PlainLaunchGoes DEF both
  <1>6. /\ Changes(b, c, y, FreshSlot(both)) /\ c.slots[y] = FreshSlot(both) /\ y \in c.called /\ Steady(c, TRUE, g)
        /\ c.slots[x] = FreshSlot(both) /\ x \in c.called
    <2>1. Changes(b, c, y, FreshSlot(both)) /\ c.slots[y] = FreshSlot(both) /\ y \in c.called
      BY <1>5, FreshInIs
    <2>2. c.slots[x] = FreshSlot(both) /\ x \in c.called
      BY <1>1, <1>3, <2>1 DEF Changes, Keeps
    <2>3. Steady(c, TRUE, g)
      BY <1>1, <1>3, <2>1, SteadyChange
    <2> QED BY <2>1, <2>2, <2>3
  <1>7. x \in Slots \ c.gone /\ y \in Slots \ c.gone /\ Knows(c)
    BY <1>6, CrossSlots DEF x, y, g
  <1>8. PICK d : /\ Goes({}, r, <<s3>>, c, d) /\ Changes(c, d, x, SlotKnowledge(both, "held", <<>>, FALSE))
                 /\ HeldSlot(d, x, both)
    BY <1>1, <1>6, <1>7, ExchangeGoes
  <1>9. d.slots[y] = FreshSlot(both) /\ Knows(d) /\ y \in Slots \ d.gone
    BY <1>1, <1>6, <1>7, <1>8 DEF Changes, Keeps
  <1>10. PICK e : /\ Goes({}, r, <<s4>>, d, e) /\ Changes(d, e, y, SlotKnowledge(both, "held", <<>>, FALSE))
                  /\ HeldSlot(e, y, both)
    BY <1>1, <1>9, ExchangeGoes
  <1>11. HeldSlot(e, x, both)
    BY <1>1, <1>8, <1>10, HeldSlotChange
  <1>12. Steady(e, TRUE, g)
    <2>1. Steady(d, TRUE, g)
      BY <1>1, <1>6, <1>8, SteadyChange
    <2> QED BY <1>1, <1>10, <2>1, SteadyChange
  <1> HIDE DEF s1, s2, s3, s4
  <1>13. Goes({}, r, <<s1, s2>>, a, c) /\ Goes({}, r, <<s3, s4>>, c, e)
    BY <1>2, <1>5, <1>8, <1>10, GoesTwo
  <1>14. Goes({}, r, Needing({x, y}, {}, <<s3, s4>>), c, e)
    <2>1. {x, y} \subseteq c.called /\ {} \subseteq c.tokens
      BY <1>6
    <2> QED BY <1>13, <2>1, GoesNeeding
  <1>15. Goes({}, r, <<s1, s2>> \o Needing({x, y}, {}, <<s3, s4>>), a, e)
    BY <1>13, <1>14, GoesOn
  <1>16. CrossOpening(r) = <<s1, s2>> \o Needing({x, y}, {}, <<s3, s4>>)
    BY DEF CrossOpening, s1, s2, s3, s4, x, y
  <1>17. CrossOpen(e)
    BY <1>10, <1>11, <1>12 DEF CrossOpen, x, y, both, g
  <1> QED BY <1>15, <1>16, <1>17

LEMMA CrossShownGoes ==
  ASSUME NEW r \in Runners, NEW a, HasSaid(a, "crossA", "CompletedAndPassed", FirstWords),
         HasSaid(a, "crossB", "CompletedAndPassed", Flow("CompletedAndPassed"))
  PROVE  \E b : Goes({}, r, CrossShown(r), a, b) /\ Same(a, b)
  <1> DEFINE both == "CompletedAndPassed"
             x == "crossA"
             y == "crossB"
             e1 == [status |-> 200, count |-> 3]
             e2 == [status |-> 200, count |-> 5]
             s1 == Get(r, x, TokenOf(r, x), e1)
             s2 == Get(r, y, TokenOf(r, y), e2)
             s3 == Get(r, x, TokenOf(r, y), Status(401))
  <1>1. both \in AllMoveOns /\ x \in Slots /\ y \in Slots /\ x # y
    BY DEF AllMoveOns, Slots
  <1>2. Fits(LogShown(both, FirstWords), e1) /\ Fits(LogShown(both, Flow(both)), e2)
    <2> DEFINE f == Flow(both)
    <2>1. Len(FirstWords) = 3 /\ Len(f) = 5
      BY FlowsSayable
    <2> HIDE DEF f
    <2>2. Fits(LogShown(both, FirstWords), e1)
      BY <2>1 DEF Fits, LogShown
    <2>3. Fits(LogShown(both, f), e2)
      BY <2>1 DEF Fits, LogShown
    <2> QED BY <2>2, <2>3 DEF f
  <1>3. \A z : Same(a, z) \/ z = a => /\ HasSaid(z, x, both, FirstWords) /\ HasSaid(z, y, both, Flow(both))
    BY HasSaidSame
  <1> HIDE DEF e1, e2
  <1>4. ASSUME NEW z, HasSaid(z, x, both, FirstWords), HasSaid(z, y, both, Flow(both))
        PROVE  /\ \E b : Goes({}, r, <<s1>>, z, b) /\ Same(z, b)
               /\ \E b : Goes({}, r, <<s2>>, z, b) /\ Same(z, b)
               /\ \E b : Goes({}, r, <<s3>>, z, b) /\ Same(z, b)
    <2> HIDE DEF x, y, both
    <2>1. /\ Knows(z) /\ x \in Slots \ z.gone /\ Held(z, x) /\ z.slots[x].moveOn = both /\ z.slots[x].log = FirstWords
      BY <1>1, <1>4, HasSaidIsHeld
    <2>2. /\ y \in Slots \ z.gone /\ Held(z, y) /\ z.slots[y].moveOn = both /\ z.slots[y].log = Flow(both)
      BY <1>1, <1>4, HasSaidIsHeld
    <2>3. \E b : Goes({}, r, <<s1>>, z, b) /\ Same(z, b)
      BY <1>2, <2>1, GetAnswered
    <2>4. \E b : Goes({}, r, <<s2>>, z, b) /\ Same(z, b)
      BY <1>2, <2>1, <2>2, GetAnswered
    <2>5. \E b : Goes({}, r, <<s3>>, z, b) /\ Same(z, b)
      <3>1. TokenOf(r, y) # TokenOf(r, x)
        BY <1>1, OtherTokens
      <3>2. Knows(z) /\ x \in Slots /\ Held(z, x)
        BY <1>1, <2>1
      <3>3. Unmoved(r, Get(r, x, TokenOf(r, y), Status(401)), z)
        BY <3>1, <3>2, DataRefused
      <3> QED BY <3>3 DEF Unmoved
    <2> QED BY <2>3, <2>4, <2>5
  <1> HIDE DEF s1, s2, s3
  <1>5. PICK b : Goes({}, r, <<s1>>, a, b) /\ Same(a, b)
    BY <1>4
  <1>6. PICK c : Goes({}, r, <<s2>>, b, c) /\ Same(b, c)
    BY <1>3, <1>4, <1>5
  <1>7. Same(a, c)
    BY <1>5, <1>6, SameTwice
  <1>8. PICK d : Goes({}, r, <<s3>>, c, d) /\ Same(c, d)
    BY <1>3, <1>4, <1>7
  <1>9. Same(a, d)
    BY <1>7, <1>8, SameTwice
  <1>10. Goes({}, r, <<s1, s2, s3>>, a, d)
    BY <1>5, <1>6, <1>8, GoesThree
  <1>11. CrossShown(r) = <<s1, s2, s3>>
    BY DEF CrossShown, s1, s2, s3, e1, e2
  <1> QED BY <1>9, <1>10, <1>11

LEMMA CrossSystemCarries ==
  ASSUME NEW r \in Runners, NEW offers
  PROVE  Carries({}, r, CrossSystem(r, offers), TRUE, {"initial"}, TRUE, {"initial"})
  <1> DEFINE both == "CompletedAndPassed"
             x == "crossA"
             y == "crossB"
             g == {"initial"}
             saidB == Statements(r, y, Flow(both))
             saidA == Statements(r, x, FirstWords)
             more == saidB \o saidA \o CrossShown(r)
             steps == CrossOpening(r) \o Needing({}, {x, y}, more)
             possible == {"fetch", "data", "post", "get", "cross system"} \subseteq offers
             name == "cross-system-integration-matrix"
  <1>1. CrossSystem(r, offers) = CheckIf(possible, name, steps)
    BY DEF CrossSystem, CrossOpening, CrossShown, FirstWords
  <1>2. ASSUME NEW a, Steady(a, TRUE, g)
        PROVE  \E b : Goes({}, r, steps, a, b) /\ Steady(b, TRUE, g)
    <2>1. PICK b : Goes({}, r, CrossOpening(r), a, b) /\ CrossOpen(b)
      BY <1>2, CrossOpens
    <2>2. Steady(b, TRUE, g) /\ HeldSlot(b, x, both) /\ HeldSlot(b, y, both)
      BY <2>1 DEF CrossOpen
    <2>3. x # y /\ x # "initial" /\ y # "initial" /\ both \in AllMoveOns /\ both # "none" /\ {x, y} \subseteq b.tokens
      BY <2>2 DEF AllMoveOns, HeldSlot
    <2>4. Sayable(both, Flow(both)) /\ Sayable(both, FirstWords) /\ Flow(both) \in Seq(Verbs) /\ FirstWords \in Seq(Verbs)
      <3>1. FirstWords \in Seq(Verbs)
        BY DEF FirstWords, Verbs
      <3> QED BY <2>3, <3>1, FlowsSayable, FlowType
    <2> HIDE DEF x, y, both, g
    <2>5. PICK c : Goes({}, r, saidB, b, c) /\ Changes(b, c, y, SlotKnowledge(both, "held", Flow(both), FALSE))
      <3>1. Knows(b) /\ y \in Slots \ b.gone /\ b.slots[y] = SlotKnowledge(both, "held", <<>>, FALSE)
        BY <2>2 DEF HeldSlot
      <3> QED BY <2>3, <2>4, <3>1, StatementsGo
    <2>6. HeldSlot(c, x, both) /\ Steady(c, TRUE, g)
      BY <2>2, <2>3, <2>5, HeldSlotChange, SteadyChange
    <2>7. HasSaid(c, y, both, Flow(both))
      BY <2>2, <2>5 DEF HeldSlot, HasSaid, Changes, Keeps
    <2>8. PICK d : Goes({}, r, saidA, c, d) /\ Changes(c, d, x, SlotKnowledge(both, "held", FirstWords, FALSE))
      <3>1. Knows(c) /\ x \in Slots \ c.gone /\ c.slots[x] = SlotKnowledge(both, "held", <<>>, FALSE)
        BY <2>6 DEF HeldSlot
      <3> QED BY <2>3, <2>4, <3>1, StatementsGo
    <2>9. HasSaid(d, y, both, Flow(both)) /\ Steady(d, TRUE, g)
      BY <2>3, <2>6, <2>7, <2>8, HasSaidChange, SteadyChange
    <2>10. HasSaid(d, x, both, FirstWords)
      BY <2>6, <2>8 DEF HeldSlot, HasSaid, Changes, Keeps
    <2>11. PICK e : Goes({}, r, CrossShown(r), d, e) /\ Same(d, e)
      BY <2>9, <2>10, CrossShownGoes DEF x, y, both
    <2>12. Goes({}, r, more, b, e)
      BY <2>5, <2>8, <2>11, GoesOn
    <2> HIDE DEF more
    <2>13. Goes({}, r, Needing({}, {x, y}, more), b, e)
      BY <2>3, <2>12, GoesNeeding
    <2>14. Goes({}, r, steps, a, e)
      BY <2>1, <2>13, GoesOn
    <2>15. Steady(e, TRUE, g)
      BY <2>9, <2>11, SteadySame
    <2> QED BY <2>14, <2>15
  <1> HIDE DEF steps
  <1>3. Carries({}, r, steps, TRUE, g, TRUE, g)
    BY <1>2 DEF Carries
  <1>4. possible \in BOOLEAN
    OBVIOUS
  <1> HIDE DEF possible, g
  <1>5. Carries({}, r, CrossSystem(r, offers), TRUE, g, TRUE, g)
    BY <1>1, <1>3, <1>4, CarriesCheckIf
  <1> QED BY <1>5 DEF g

LEMMA InvalidOperationsCarries ==
  ASSUME NEW r, NEW w
  PROVE  Carries({}, r, InvalidOperations(r), w, {"initial"}, w, {"initial"})
  <1> DEFINE g == {"initial"}
             s == Do("waive", [registration |-> NoRegistration], Status(400))
             t == Do("waive", [registration |-> Missing], Status(404))
             u == Do("abandon", [session |-> NoSession], Status(400))
             v == Do("abandon", [session |-> Missing], Status(404))
             four == <<s, t, u, v>>
             again == <<Abandonment(r, 409)>>
             last == <<Read(<<>>)>>
             one == {"invalid-operation-matrix"}
  <1>1. /\ Carries({}, r, <<s>>, w, g, w, g) /\ Carries({}, r, <<t>>, w, g, w, g)
        /\ Carries({}, r, <<u>>, w, g, w, g) /\ Carries({}, r, <<v>>, w, g, w, g)
    <2>1. \A a : Steady(a, w, g) => /\ \E b : Goes({}, r, <<s>>, a, b) /\ Same(a, b)
                                    /\ \E b : Goes({}, r, <<t>>, a, b) /\ Same(a, b)
                                    /\ \E b : Goes({}, r, <<u>>, a, b) /\ Same(a, b)
                                    /\ \E b : Goes({}, r, <<v>>, a, b) /\ Same(a, b)
      BY UnknownRefused DEF Steady
    <2> HIDE DEF s, t, u, v, g
    <2> QED BY <2>1, OneCarries
  <1>2. Carries({}, r, again, w, g, w, g) /\ Carries({}, r, last, w, g, w, g)
    BY AbandonedRefused, LookCarries, ZenonT(40)
  <1>3. InvalidOperations(r) = Closing(one, Feeding(one, four \o Inner(again) \o last))
    BY DEF InvalidOperations
  <1> HIDE DEF s, t, u, v, again, last, one, g
  <1>4. Carries({}, r, four, w, g, w, g)
    BY <1>1, CarriesFour
  <1> HIDE DEF four
  <1>5. Carries({}, r, four \o Inner(again) \o last, w, g, w, g)
    BY <1>2, <1>4, CarriesInner, CarriesOn
  <1>6. Carries({}, r, InvalidOperations(r), w, g, w, g)
    BY <1>3, <1>5, CarriesFeeding, CarriesClosing
  <1> QED BY <1>6 DEF g

Comes(E, r, S, a, waived, gone) == \E b : Goes(E, r, S, a, b) /\ Steady(b, waived, gone)

LEMMA ComesOn ==
  ASSUME NEW E, NEW r, NEW S, NEW T, NEW a, NEW w1, NEW g1, NEW w2, NEW g2,
         Comes(E, r, S, a, w1, g1), Carries(E, r, T, w1, g1, w2, g2)
  PROVE  Comes(E, r, S \o T, a, w2, g2)
  <1>1. PICK b : Goes(E, r, S, a, b) /\ Steady(b, w1, g1)
    BY DEF Comes
  <1>2. PICK c : Goes(E, r, T, b, c) /\ Steady(c, w2, g2)
    BY <1>1 DEF Carries
  <1>3. Goes(E, r, S \o T, a, c)
    BY <1>1, <1>2, GoesOn
  <1> QED BY <1>2, <1>3 DEF Comes

LEMMA InnerChecksGo ==
  ASSUME NEW r \in Runners, NEW offers, NEW a, Steady(a, FALSE, {}),
         a.slots["initial"] = FreshSlot("CompletedAndPassed"), a.seen = LaunchShown(r, "initial", "CompletedAndPassed")
  PROVE  Comes({}, r, Inner(InnerChecks(r, offers)), a, FALSE, {})
  <1> DEFINE look == LaunchContract(r) \o ActorContract(r) \o LaunchUrlContract(r)
             w == FALSE
             g == {}
  <1>1. Goes({}, r, look, a, a)
    <2>1. Knows(a)
      BY DEF Steady
    <2> QED BY <2>1, ContractsGo, GoesOn
  <1>2. PICK b : Goes({}, r, FetchLaunchData(r, offers), a, b) /\ Steady(b, w, g)
    BY FetchLaunchDataGoes
  <1>3. Comes({}, r, look \o FetchLaunchData(r, offers), a, w, g)
    BY <1>1, <1>2, GoesOn DEF Comes
  <1>4. Carries({}, r, SecurityMatrix(r, offers), w, g, w, g)
    BY SecurityMatrixCarries
  <1>5. Carries({}, r, LifecycleMatrix(r, offers), w, g, w, g)
    BY LifecycleMatrixCarries
  <1>6. Carries({}, r, IdentityMatrix(r), w, g, w, g) /\ Carries({}, r, IdentityPassthrough(r), w, g, w, g)
    BY IdentityCarries
  <1>7. Carries({}, r, MoveOnMatrix(r), w, g, w, g) /\ Carries({}, r, LaunchModeMatrix(r), w, g, w, g)
    BY MoveOnMatrixCarries, LaunchModeCarries
  <1>8. Carries({}, r, InvalidLaunches(r), w, g, w, g)
    BY InvalidLaunchesCarries
  <1>9. InnerChecks(r, offers) =
          look \o FetchLaunchData(r, offers)
          \o SecurityMatrix(r, offers) \o LifecycleMatrix(r, offers) \o IdentityMatrix(r) \o IdentityPassthrough(r)
          \o MoveOnMatrix(r) \o LaunchModeMatrix(r) \o InvalidLaunches(r)
    BY DEF InnerChecks
  <1> HIDE DEF look, w, g
  <1>10. Comes({}, r, look \o FetchLaunchData(r, offers) \o SecurityMatrix(r, offers) \o LifecycleMatrix(r, offers), a, w, g)
    BY <1>3, <1>4, <1>5, ComesOn
  <1>11. Comes({}, r, InnerChecks(r, offers), a, w, g)
    BY <1>6, <1>7, <1>8, <1>9, <1>10, ComesOn
  <1>12. PICK c : Goes({}, r, InnerChecks(r, offers), a, c) /\ Steady(c, w, g)
    BY <1>11 DEF Comes
  <1>13. Goes({}, r, Inner(InnerChecks(r, offers)), a, c)
    BY <1>12, GoesInner DEF Steady
  <1> QED BY <1>12, <1>13 DEF Comes, w, g

(* The whole of a script with a good package. *)
Start == Know(FALSE, FALSE, {}, [x \in Slots |-> Unknown], {}, {}, <<>>)

LEMMA ScriptGoes ==
  ASSUME NEW r \in Runners, NEW offers
  PROVE  Comes(ExcusedBy(offers), r, ScriptOf(r, offers, GoodPackage), Start, TRUE, {"initial"})
  <1> DEFINE E == ExcusedBy(offers)
             g == {"initial"}
             none == {}
             no == FALSE
             yes == TRUE
             S1 == Early(r, offers)
             S2 == ImportPackage(r, GoodPackage)
             S3 == InitialLaunch(r)
             S4 == Inner(InnerChecks(r, offers))
             S5 == Resume(r)
             S6 == ResumeMatrix(r)
             S7 == WaiveChecks(r)
             S8 == AbandonChecks(r)
             S9 == DurableMatrix(r, offers)
             S10 == CrossSystem(r, offers)
             S11 == InvalidOperations(r)
  <1>1. Knows(Start) /\ ~Start.imported /\ Start.waived = FALSE /\ Start.gone = {}
    BY DEF Start, Know, Knows
  <1>2. PICK b : Goes({}, r, S1, Start, b) /\ Same(Start, b)
    BY <1>1, EarlyGoes
  <1>3. Knows(b) /\ b.waived = FALSE /\ b.gone = {}
    BY <1>1, <1>2 DEF Same, Keeps
  <1>4. PICK c : Goes({}, r, S2, b, c) /\ Knows(c) /\ c.imported /\ c.waived = b.waived /\ c.gone = b.gone
    <2>1. Knows(b)
      BY <1>3
    <2> QED BY ONLY <2>1, ImportGoes
  <1>5. PICK d : /\ Goes({}, r, S3, c, d) /\ Steady(d, FALSE, {})
                 /\ d.slots["initial"] = FreshSlot("CompletedAndPassed")
                 /\ d.seen = LaunchShown(r, "initial", "CompletedAndPassed")
    <2>1. c.waived = FALSE /\ c.gone = {}
      BY <1>3, <1>4
    <2>2. ~c.waived /\ c.waived \in BOOLEAN
      BY <2>1
    <2> QED BY <1>4, <2>1, <2>2, InitialGoes
  <1>6. Comes({}, r, S4, d, FALSE, {})
    BY <1>5, InnerChecksGo
  <1>7. /\ Carries({}, r, S5, no, none, no, none) /\ Carries({}, r, S6, no, none, no, none)
        /\ Carries({}, r, S7, no, none, yes, none) /\ Carries({}, r, S8, yes, none, yes, g)
        /\ Carries({}, r, S10, yes, g, yes, g) /\ Carries({}, r, S11, yes, g, yes, g)
    BY ResumeCheckCarries, ResumeMatrixCarries, WaiveChecksCarries, AbandonChecksCarries, CrossSystemCarries,
       InvalidOperationsCarries
  <1>8. Carries(E, r, S9, yes, g, yes, g)
    BY DurableCarries
  <1>9. ScriptOf(r, offers, GoodPackage) = S1 \o S2 \o S3 \o S4 \o S5 \o S6 \o S7 \o S8 \o S9 \o S10 \o S11
    BY DEF ScriptOf, Early, InnerChecks
  <1>10. PICK e : Goes({}, r, S4, d, e) /\ Steady(e, no, none)
    BY <1>6 DEF Comes
  <1> HIDE DEF E, g, none, no, yes, S1, S2, S3, S4, S5, S6, S7, S8, S9, S10, S11
  <1>11. Goes({}, r, S1 \o S2 \o S3 \o S4, Start, e)
    BY <1>2, <1>4, <1>5, <1>10, GoesOn
  <1> DEFINE first == S1 \o S2 \o S3 \o S4
  <1>12. Comes(E, r, first, Start, no, none)
    BY <1>10, <1>11, GoesExcused DEF Comes
  <1> HIDE DEF first
  <1>13. /\ Carries(E, r, S5, no, none, no, none) /\ Carries(E, r, S6, no, none, no, none)
         /\ Carries(E, r, S7, no, none, yes, none) /\ Carries(E, r, S8, yes, none, yes, g)
         /\ Carries(E, r, S10, yes, g, yes, g) /\ Carries(E, r, S11, yes, g, yes, g)
    BY <1>7, CarriesExcused
  <1>14. Comes(E, r, first \o S5 \o S6 \o S7 \o S8, Start, yes, g)
    BY <1>12, <1>13, ComesOn
  <1> DEFINE second == first \o S5 \o S6 \o S7 \o S8
  <1> HIDE DEF second
  <1>15. Comes(E, r, second, Start, yes, g)
    BY <1>14 DEF second
  <1>16. Comes(E, r, second \o S9 \o S10 \o S11, Start, yes, g)
    BY <1>8, <1>13, <1>15, ComesOn
  <1> QED BY <1>9, <1>16 DEF first, second, E, g, yes

(***************************************************************************)
(* What is known stays true of the adapter                                 *)
(***************************************************************************)

(* Two adapters that hold the same of one of the run's sessions. *)
SameSlot(r, st, t, x) ==
    /\ t.launches[Own(r, x)] = st.launches[Own(r, x)]
    /\ t.access[Own(r, x)] = st.access[Own(r, x)]
    /\ t.replay[Own(r, x)] = st.replay[Own(r, x)]
    /\ t.statements[Own(r, x)] = st.statements[Own(r, x)]
    /\ Own(r, x) \in st.registrations => Own(r, x) \in t.registrations

LEMMA SlotKept ==
  ASSUME NEW r, NEW st, NEW t, NEW x, NEW v, SameSlot(r, st, t, x), SlotHolds(r, st, x, v)
  PROVE  SlotHolds(r, t, x, v)
  BY DEF SameSlot, SlotHolds

(* One session changed, or none. *)
LEMMA OneSlotChanged ==
  ASSUME NEW r, NEW st, NEW t, NEW a, NEW b, Knows(a), Holds(r, st, a),
         NEW x \in Slots, NEW v, SlotHolds(r, t, x, v), b.slots = SlotAfter(a, x, v),
         \A y \in Slots \ {x} : SameSlot(r, st, t, y),
         b.imported => PackageId[r] \in t.packages,
         \A y \in Slots : Own(r, y) \in t.abandoned <=> y \in b.gone,
         t.waived[Own(r, "initial")] = IF b.waived THEN 0 ELSE Never
  PROVE  Holds(r, t, b)
  <1>1. ASSUME NEW y \in Slots
        PROVE  SlotHolds(r, t, y, b.slots[y])
    <2>1. CASE y = x
      <3>1. b.slots[y] = v
        BY <2>1 DEF SlotAfter, Knows
      <3> QED BY <2>1, <3>1
    <2>2. CASE y # x
      <3>1. b.slots[y] = a.slots[y]
        BY <2>2 DEF SlotAfter, Knows
      <3>2. SlotHolds(r, st, y, a.slots[y]) /\ SameSlot(r, st, t, y)
        BY <2>2 DEF Holds
      <3>3. SlotHolds(r, t, y, a.slots[y])
        BY ONLY <3>2, SlotKept
      <3> QED BY <3>1, <3>3
    <2> QED BY <2>1, <2>2
  <1> QED BY <1>1 DEF Holds

LEMMA NoSlotChanged ==
  ASSUME NEW r, NEW st, NEW t, NEW a, NEW b, Holds(r, st, a), b.slots = a.slots,
         \A y \in Slots : SameSlot(r, st, t, y),
         b.imported => PackageId[r] \in t.packages,
         \A y \in Slots : Own(r, y) \in t.abandoned <=> y \in b.gone,
         t.waived[Own(r, "initial")] = IF b.waived THEN 0 ELSE Never
  PROVE  Holds(r, t, b)
  <1>1. ASSUME NEW y \in Slots
        PROVE  SlotHolds(r, t, y, b.slots[y])
    <2>1. SlotHolds(r, st, y, a.slots[y]) /\ SameSlot(r, st, t, y)
      BY DEF Holds
    <2>2. SlotHolds(r, t, y, a.slots[y])
      BY ONLY <2>1, SlotKept
    <2> QED BY <2>2
  <1> QED BY <1>1 DEF Holds

(* Another run's call changes nothing of it. *)
LEMMA OthersKeepIt ==
  ASSUME NEW r \in Runners, NEW o \in Runners, r # o, NEW st, NEW t, Within(r, st, t), NEW a, Holds(o, st, a)
  PROVE  Holds(o, t, a)
  <1>1. \A y \in Slots : Own(o, y) \in OwnSlots(o)
    BY DEF Own, OwnSlots
  <1>2. /\ PackageId[o] \in st.packages => PackageId[o] \in t.packages
        /\ \A y \in Slots : /\ SameSlot(o, st, t, y)
                            /\ t.waived[Own(o, y)] = st.waived[Own(o, y)]
                            /\ Own(o, y) \in t.abandoned <=> Own(o, y) \in st.abandoned
    BY <1>1, WithinLeavesOthers DEF SameSlot
  <1>3. "initial" \in Slots
    BY DEF Slots
  <1> QED BY <1>2, <1>3, NoSlotChanged DEF Holds

(* What the run saw says nothing of the adapter. *)
LEMMA SeeingHolds ==
  ASSUME NEW r, NEW st, NEW a, Holds(r, st, a), NEW shown
  PROVE  Holds(r, st, AfterSeeing(a, shown))
  BY DEF Holds, AfterSeeing, Know

(***************************************************************************)
(* What the adapter holds of a session that is known                       *)
(***************************************************************************)

LEMMA OwnIsSession ==
  ASSUME NEW r \in Runners, NEW x \in Slots
  PROVE  /\ Own(r, x) \in OwnSlots(r) /\ Own(r, x) \in Sessions /\ Own(r, x) \in Registrations
         /\ Own(r, x) # Explicit /\ Own(r, x) # Missing /\ Own(r, x) # NoSession /\ Own(r, x) # NoRegistration
  <1>1. Own(r, x) \in OwnSlots(r)
    BY DEF Own, OwnSlots
  <1>2. Own(r, x) \in Sessions /\ Own(r, x) \in Registrations
    BY <1>1, ReachIsKnown
  <1> QED BY <1>1, <1>2, ReachIsKnown, ExplicitIsApart, SessionsAssumption, RegistrationsAssumption

LEMMA KnownIsLaunched ==
  ASSUME NEW r \in Runners, NEW st, NEW a, Holds(r, st, a), NEW x \in Slots, a.slots[x].moveOn # "none"
  PROVE  /\ Launched(st, Own(r, x))
         /\ st.launches[Own(r, x)].registration = Own(r, x)
         /\ st.launches[Own(r, x)].moveOn = a.slots[x].moveOn
         /\ Own(r, x) \in st.registrations
         /\ st.statements[Own(r, x)] = a.slots[x].log
         /\ r \in st.replay[Own(r, x)] <=> a.slots[x].noted
  <1>1. SlotHolds(r, st, x, a.slots[x])
    BY DEF Holds
  <1>2. /\ st.launches[Own(r, x)].registration = Own(r, x)
        /\ st.launches[Own(r, x)].moveOn = a.slots[x].moveOn
        /\ Own(r, x) \in st.registrations
        /\ st.statements[Own(r, x)] = a.slots[x].log
        /\ r \in st.replay[Own(r, x)] <=> a.slots[x].noted
    BY <1>1 DEF SlotHolds
  <1>3. st.launches[Own(r, x)] # NoLaunch
    <2>1. NoLaunch.registration = NoRegistration
      BY DEF NoLaunch
    <2> QED BY <1>2, <2>1, OwnIsSession
  <1> QED BY <1>2, <1>3, OwnIsSession DEF Launched

LEMMA HeldIsExchanged ==
  ASSUME NEW r \in Runners, NEW st, NEW a, Holds(r, st, a), NEW x \in Slots, Held(a, x)
  PROVE  /\ st.access[Own(r, x)].consumed
         /\ st.access[Own(r, x)].token = TokenOf(r, x)
         /\ st.access[Own(r, x)].authExpires > 0
         /\ TokenOf(r, x) # NoToken
  <1>1. SlotHolds(r, st, x, a.slots[x])
    BY DEF Holds
  <1>2. TokenOf(r, x).issue = 1 /\ NoToken.issue = 0
    BY DEF TokenOf, NoToken, Token
  <1> QED BY <1>1, <1>2 DEF SlotHolds, Held

LEMMA HeldTokenOpens ==
  ASSUME NEW r \in Runners, NEW st \in States, NEW a, Holds(r, st, a), NEW x \in Slots, Held(a, x)
  PROVE  /\ x \notin a.gone => AuthStatus(st, TokenOf(r, x), Own(r, x), 0) = 200
         /\ \A token : token # TokenOf(r, x) => AuthStatus(st, token, Own(r, x), 0) = 401
  <1> DEFINE at == Own(r, x)
  <1>1. st.access[at].token = TokenOf(r, x) /\ st.access[at].authExpires > 0 /\ TokenOf(r, x) # NoToken
    BY HeldIsExchanged
  <1>2. at \in Sessions
    BY OwnIsSession
  <1>3. x \notin a.gone => at \notin st.abandoned
    BY DEF Holds
  <1>4. st.access[at].authExpires \in Int
    BY <1>2, FieldTypes, TimeAssumption DEF Accesses, Stamps, Never
  <1> HIDE DEF at
  <1> QED BY <1>1, <1>2, <1>3, <1>4 DEF AuthStatus, at

(***************************************************************************)
(* A call that is refused as expected                                      *)
(***************************************************************************)
Refuses(h, code) == h.after = mem /\ h.reply = Status(code)

LEMMA RefuseRefuses ==
  ASSUME NEW code, NEW writes
  PROVE  Refuses(Refuse(code, mem, writes), code)
  BY DEF Refuses, Refuse, Status

LEMMA CreateRefused ==
  ASSUME NEW q, NEW code, code # 200, LaunchStatus(mem, q) = code
  PROVE  Refuses(LaunchCreate(mem, q, now), code)
  <1>1. LaunchStatus(mem, q) # 200
    OBVIOUS
  <1>2. LaunchCreate(mem, q, now) = Refuse(LaunchStatus(mem, q), mem, <<>>)
    BY ONLY <1>1, Zenon DEF LaunchCreate
  <1>3. LaunchCreate(mem, q, now) = Refuse(code, mem, <<>>)
    BY <1>2
  <1> QED BY <1>3, RefuseRefuses

LEMMA ImportCallRefused ==
  ASSUME NEW r, NEW a, NEW s, NEW code, s.op = "import", RefusedAs(r, a, s, code)
  PROVE  Refuses(Handled(s), code)
  <1>1. code = 400 /\ ~PackageAccepted(s.q.upload)
    BY DEF RefusedAs, Refused400, Refused404, Refused401, Refused409, Posts
  <1>2. Handled(s) = Refuse(400, mem, <<>>)
    BY <1>1 DEF Handled, PackageImport
  <1> QED BY <1>1, <1>2, RefuseRefuses

LEMMA LaunchCallRefused ==
  ASSUME NEW r \in Runners, AdapterOK, NEW a, Holds(r, mem, a),
         NEW s, NEW code, s.op = "launch", RefusedAs(r, a, s, code)
  PROVE  Refuses(Handled(s), code)
  <1> DEFINE q == s.q
  <1>1. MissingPackage \notin mem.packages
    BY NamesApart DEF AdapterOK, OwnIds
  <1>2. a.imported => PackageId[r] \in mem.packages
    BY DEF Holds
  <1>3. \A x \in Slots : Own(r, x) \in mem.abandoned <=> x \in a.gone
    BY DEF Holds
  <1>4. \/ code = 400 /\ q.flaw = "package"
        \/ code = 400 /\ q.flaw = "mode" /\ q.package = PackageId[r] /\ a.imported
        \/ /\ code = 400 /\ q.flaw = "field" /\ q.package = PackageId[r] /\ a.imported
           /\ \E x \in Slots \ a.gone : q.session = Own(r, x)
        \/ code = 404 /\ q.flaw = "none" /\ q.package = MissingPackage
        \/ code = 409 /\ Clean(q, r) /\ a.imported /\ \E x \in Slots \intersect a.gone : q.session = Own(r, x)
    BY DEF RefusedAs, Refused400, Refused404, Refused401, Refused409, Posts
  <1> HIDE DEF q
  <1>5. code # 200 /\ LaunchStatus(mem, q) = code
    BY <1>1, <1>2, <1>3, <1>4 DEF LaunchStatus, Clean
  <1>6. Handled(s) = LaunchCreate(mem, q, now)
    BY DEF Handled, q
  <1>7. Refuses(LaunchCreate(mem, q, now), code)
    BY ONLY <1>5, CreateRefused
  <1> QED BY <1>6, <1>7

LEMMA FetchCallRefused ==
  ASSUME NEW r \in Runners, NEW a, Holds(r, mem, a), NEW s, NEW code, s.op = "fetch", RefusedAs(r, a, s, code)
  PROVE  Refuses(Handled(s), code)
  <1> DEFINE q == s.q
  <1>1. \/ code = 400 /\ q.session = NoSession
        \/ code = 404 /\ q.token = Missing /\ \E x \in Slots : q.session = Own(r, x)
        \/ code = 404 /\ q.session = Missing /\ q.token # NoSession
        \/ code = 409 /\ \E x \in Slots : Held(a, x) /\ q.session = Own(r, x) /\ q.token = Own(r, x)
    BY DEF RefusedAs, Refused400, Refused404, Refused401, Refused409, Posts
  <1>2. Handled(s) = Fetch(mem, q, now)
    BY DEF Handled
  <1> HIDE DEF q
  <1>3. Missing # NoSession /\ ~Launched(mem, Missing)
    BY NamesApart, NamesAssumption DEF Launched
  <1>4. CASE code = 400 /\ q.session = NoSession
    <2>1. Handled(s) = Refuse(400, mem, <<>>)
      BY <1>2, <1>4 DEF Fetch
    <2> QED BY <1>4, <2>1, RefuseRefuses
  <1>5. CASE code = 404 /\ q.token = Missing /\ \E x \in Slots : q.session = Own(r, x)
    <2>1. q.session # NoSession /\ q.token # NoSession /\ q.token # q.session
      BY <1>3, <1>5, OwnIsSession
    <2>2. Handled(s) = Refuse(404, mem, <<>>)
      BY <1>2, <2>1 DEF Fetch
    <2> QED BY <1>5, <2>2, RefuseRefuses
  <1>6. CASE code = 404 /\ q.session = Missing /\ q.token # NoSession
    <2>1. Handled(s) = Refuse(404, mem, <<>>)
      BY <1>2, <1>3, <1>6 DEF Fetch
    <2> QED BY <1>6, <2>1, RefuseRefuses
  <1>7. CASE code = 409 /\ \E x \in Slots : Held(a, x) /\ q.session = Own(r, x) /\ q.token = Own(r, x)
    <2>1. PICK x \in Slots : Held(a, x) /\ q.session = Own(r, x) /\ q.token = Own(r, x)
      BY <1>7
    <2>2. Launched(mem, Own(r, x)) /\ Own(r, x) # NoSession
      BY <2>1, KnownIsLaunched, OwnIsSession DEF Held
    <2>3. mem.access[Own(r, x)].consumed
      BY <2>1, HeldIsExchanged
    <2>4. Handled(s) = Refuse(409, mem, <<>>)
      BY <1>2, <2>1, <2>2, <2>3 DEF Fetch, FetchStatus
    <2> QED BY <1>7, <2>4, RefuseRefuses
  <1> QED BY <1>1, <1>4, <1>5, <1>6, <1>7

LEMMA TokenCallRefused ==
  ASSUME NEW r \in Runners, AdapterOK, NEW a, Holds(r, mem, a),
         NEW s, NEW code, s.op \in {"data", "get"}, RefusedAs(r, a, s, code)
  PROVE  Refuses(Handled(s), code)
  <1> DEFINE q == s.q
  <1>1. code = 401 /\ \E x \in Slots : Held(a, x) /\ q.session = Own(r, x) /\ q.token # TokenOf(r, x)
    BY DEF RefusedAs, Refused400, Refused404, Refused401, Refused409, Posts
  <1>2. Handled(s) = IF s.op = "data" THEN LaunchData(mem, q, now) ELSE GetStatements(mem, q, now)
    BY DEF Handled
  <1> HIDE DEF q
  <1>3. PICK x \in Slots : Held(a, x) /\ q.session = Own(r, x) /\ q.token # TokenOf(r, x)
    BY <1>1
  <1>4. Launched(mem, q.session)
    BY <1>3, KnownIsLaunched DEF Held
  <1>5. mem \in States /\ now = 0
    BY DEF AdapterOK
  <1>6. AuthStatus(mem, q.token, q.session, now) = 401
    BY <1>3, <1>5, HeldTokenOpens
  <1>7. Handled(s) = Refuse(401, mem, <<>>)
    BY <1>2, <1>4, <1>6 DEF LaunchData, GetStatements
  <1> QED BY <1>1, <1>7, RefuseRefuses

LEMMA PostCallRefused ==
  ASSUME NEW r \in Runners, AdapterOK, NEW a, Holds(r, mem, a),
         NEW s, NEW code, s.op = "post", RefusedAs(r, a, s, code)
  PROVE  Refuses(Handled(s), code)
  <1> DEFINE q == s.q
  <1>1. code = 409 /\ \E x \in Slots : /\ Posts(r, a, s, x)
                                       /\ \/ q.id = r /\ a.slots[x].noted
                                          \/ q.id = NoId /\ ~AcceptsVerb(a.slots[x].moveOn, a.slots[x].log, q.verb)
    BY DEF RefusedAs, Refused400, Refused404, Refused401, Refused409
  <1>2. PICK x \in Slots : /\ Posts(r, a, s, x)
                           /\ \/ q.id = r /\ a.slots[x].noted
                              \/ q.id = NoId /\ ~AcceptsVerb(a.slots[x].moveOn, a.slots[x].log, q.verb)
    BY <1>1
  <1>3. /\ Held(a, x) /\ x \notin a.gone /\ a.slots[x].moveOn # "none"
        /\ q.session = Own(r, x) /\ q.token = TokenOf(r, x)
    BY <1>2 DEF Posts, Held
  <1>4. Handled(s) = PostStatement(mem, q, now)
    BY DEF Handled
  <1> HIDE DEF q
  <1>5. /\ Launched(mem, q.session) /\ mem.launches[q.session].moveOn = a.slots[x].moveOn
        /\ mem.statements[q.session] = a.slots[x].log
        /\ r \in mem.replay[q.session] <=> a.slots[x].noted
    BY <1>3, KnownIsLaunched
  <1>6. mem \in States /\ now = 0
    BY DEF AdapterOK
  <1>7. AuthStatus(mem, q.token, q.session, now) = 200 /\ q.token # NoToken
    BY <1>3, <1>6, HeldTokenOpens, HeldIsExchanged
  <1>8. r # NoId
    BY ReachIsKnown, RequestIdsAssumption
  <1>9. CASE q.id = r /\ a.slots[x].noted
    <2>1. IsReplay(mem, q.session, q.id)
      BY <1>5, <1>8, <1>9 DEF IsReplay
    <2>2. Handled(s) = Refuse(409, mem, <<mem>>)
      BY <1>4, <1>5, <1>7, <2>1 DEF PostStatement
    <2> QED BY <1>1, <2>2, RefuseRefuses
  <1>10. CASE q.id = NoId /\ ~AcceptsVerb(a.slots[x].moveOn, a.slots[x].log, q.verb)
    <2>1. ~IsReplay(mem, q.session, q.id) /\ RecordReplay(mem, q.session, q.id) = mem
      BY <1>10 DEF IsReplay, RecordReplay
    <2>2. ~AcceptsVerb(mem.launches[q.session].moveOn, mem.statements[q.session], q.verb)
      BY <1>5, <1>10
    <2>3. Handled(s) = Refuse(409, mem, <<mem, mem>>)
      BY <1>4, <1>5, <1>7, <2>1, <2>2 DEF PostStatement
    <2> QED BY <1>1, <2>3, RefuseRefuses
  <1> QED BY <1>2, <1>9, <1>10

LEMMA WaiveCallRefused ==
  ASSUME AdapterOK, NEW r, NEW a, NEW s, NEW code, s.op = "waive", RefusedAs(r, a, s, code)
  PROVE  Refuses(Handled(s), code)
  <1>1. \/ code = 400 /\ s.q.registration = NoRegistration
        \/ code = 404 /\ s.q.registration = Missing
    BY DEF RefusedAs, Refused400, Refused404, Refused401, Refused409, Posts
  <1>2. Handled(s) = WaiveRegistration(mem, s.q, now)
    BY DEF Handled
  <1>3. Missing # NoRegistration /\ Missing \notin mem.registrations
    BY NamesApart, NamesAssumption, FieldTypes DEF AdapterOK
  <1>4. Handled(s) = Refuse(code, mem, <<>>)
    BY <1>1, <1>2, <1>3 DEF WaiveRegistration
  <1> QED BY <1>4, RefuseRefuses

LEMMA AbandonCallRefused ==
  ASSUME NEW r \in Runners, NEW a, Holds(r, mem, a), NEW s, NEW code, s.op = "abandon", RefusedAs(r, a, s, code)
  PROVE  Refuses(Handled(s), code)
  <1> DEFINE q == s.q
  <1>1. \/ code = 400 /\ q.session = NoSession
        \/ code = 404 /\ q.session = Missing
        \/ code = 409 /\ \E x \in Slots \intersect a.gone : a.slots[x].moveOn # "none" /\ q.session = Own(r, x)
    BY DEF RefusedAs, Refused400, Refused404, Refused401, Refused409, Posts
  <1>2. Handled(s) = AbandonSession(mem, q, now)
    BY DEF Handled
  <1> HIDE DEF q
  <1>3. Missing # NoSession /\ ~Launched(mem, Missing)
    BY NamesApart, NamesAssumption DEF Launched
  <1>4. CASE q.session \in {NoSession, Missing}
    <2>1. Handled(s) = Refuse(code, mem, <<>>)
      BY <1>1, <1>2, <1>3, <1>4, OwnIsSession DEF AbandonSession
    <2> QED BY <2>1, RefuseRefuses
  <1>5. CASE code = 409 /\ \E x \in Slots \intersect a.gone : a.slots[x].moveOn # "none" /\ q.session = Own(r, x)
    <2>1. PICK x \in Slots \intersect a.gone : a.slots[x].moveOn # "none" /\ q.session = Own(r, x)
      BY <1>5
    <2>2. Launched(mem, q.session) /\ q.session # NoSession
      BY <2>1, KnownIsLaunched, OwnIsSession
    <2>3. q.session \in mem.abandoned
      BY <2>1 DEF Holds
    <2>4. Handled(s) = Refuse(code, mem, <<>>)
      BY <1>2, <1>5, <2>2, <2>3 DEF AbandonSession
    <2> QED BY <2>4, RefuseRefuses
  <1> QED BY <1>1, <1>4, <1>5

(* A call refused as expected leaves the adapter as it was. *)
LEMMA RefusedAsExpected ==
  ASSUME NEW r \in Runners, AdapterOK, NEW a, Holds(r, mem, a), NEW s, NEW code, RefusedAs(r, a, s, code)
  PROVE  Refuses(Handled(s), code)
  <1>1. s.op \in {"import", "launch", "fetch", "data", "get", "post", "waive", "abandon"}
    BY DEF RefusedAs, Refused400, Refused404, Refused401, Refused409, Posts
  <1> QED
    BY <1>1, ImportCallRefused, LaunchCallRefused, FetchCallRefused, TokenCallRefused, PostCallRefused,
       WaiveCallRefused, AbandonCallRefused

(***************************************************************************)
(* A call that is answered as expected                                     *)
(***************************************************************************)
Answers(r, h, shown, b) == Holds(r, h.after, b) /\ Fits(Seen(h.reply), shown)

LEMMA SeenPlainly ==
  ASSUME NEW reply, "verbs" \notin DOMAIN reply, NEW shown, Fits(reply, shown)
  PROVE  Fits(Seen(reply), shown)
  BY DEF Seen

(* The calls that leave everything as it was. *)
LEMMA NothingAnswers ==
  ASSUME NEW r, NEW a, Holds(r, mem, a), NEW h, h.after = mem, NEW shown, Fits(Seen(h.reply), shown)
  PROVE  Answers(r, h, shown, AfterSeeing(a, shown))
  <1>1. Holds(r, mem, AfterSeeing(a, shown))
    BY SeeingHolds
  <1> QED BY <1>1 DEF Answers

LEMMA FixturesAnswer ==
  ASSUME NEW r, NEW a, Holds(r, mem, a), NEW s, s.op = "fixtures", NEW shown, Told(r, a, s, shown)
  PROVE  Answers(r, Handled(s), shown, AfterSeeing(a, shown))
  <1>1. shown = Ok
    BY DEF Told
  <1>2. Handled(s) = Accept(Ok, mem, <<>>)
    BY DEF Handled
  <1>3. Handled(s).after = mem /\ Handled(s).reply = Ok
    BY <1>2 DEF Accept
  <1>4. Fits(Seen(Ok), Ok)
    <2>1. Fits(Ok, Ok) /\ "verbs" \notin DOMAIN Ok
      BY DEF Ok, Fits
    <2> QED BY <2>1, SeenPlainly
  <1> QED BY <1>1, <1>3, <1>4, NothingAnswers

LEMMA ReloadAnswers ==
  ASSUME AdapterOK, NEW r, NEW a, Holds(r, mem, a), NEW s, s.op = "reload", NEW shown, Told(r, a, s, shown)
  PROVE  Answers(r, Handled(s), shown, AfterSeeing(a, shown))
  <1> DEFINE body == [status |-> 200, loaded |-> disk.readable]
  <1>1. a.imported /\ shown = [status |-> 200, loaded |-> TRUE]
    BY DEF Told
  <1>2. Handled(s) = Accept(body, Load(disk), <<>>)
    BY DEF Handled, Reload
  <1>3. PackageId[r] \in mem.packages /\ mem = Load(disk)
    BY <1>1 DEF Holds, AdapterOK
  <1>4. disk.readable
    <2>1. EmptyState.packages = {}
      BY DEF EmptyState
    <2> QED BY <1>3, <2>1 DEF Load
  <1>5. disk.readable = TRUE
    BY <1>4 DEF AdapterOK
  <1>6. body = shown
    BY <1>1, <1>5
  <1>7. Fits(Seen(shown), shown)
    <2>1. "verbs" \notin DOMAIN shown
      BY <1>1
    <2>2. Fits(shown, shown)
      BY DEF Fits
    <2> QED BY <2>1, <2>2, SeenPlainly
  <1> HIDE DEF body
  <1>8. Handled(s).after = mem /\ Handled(s).reply = shown
    BY <1>2, <1>3, <1>6 DEF Accept
  <1> QED BY <1>7, <1>8, NothingAnswers

LEMMA DataAnswers ==
  ASSUME AdapterOK, NEW r \in Runners, NEW a, Holds(r, mem, a), NEW s, s.op = "data", NEW shown, Told(r, a, s, shown)
  PROVE  Answers(r, Handled(s), shown, AfterSeeing(a, shown))
  <1> DEFINE q == s.q
             at == q.session
             body == [status |-> 200, registration |-> mem.launches[at].registration,
                      moveOn |-> mem.launches[at].moveOn, waivedAt |-> mem.waived[mem.launches[at].registration]]
  <1>1. q.id = NoId /\ \E x \in Slots \ a.gone :
               /\ Held(a, x) /\ at = Own(r, x) /\ q.token = TokenOf(r, x)
               /\ shown = [status |-> 200, registration |-> Own(r, x), moveOn |-> a.slots[x].moveOn]
    BY DEF Told
  <1>2. PICK x \in Slots \ a.gone :
               /\ Held(a, x) /\ at = Own(r, x) /\ q.token = TokenOf(r, x)
               /\ shown = [status |-> 200, registration |-> Own(r, x), moveOn |-> a.slots[x].moveOn]
    BY <1>1
  <1>3. Handled(s) = LaunchData(mem, q, now)
    BY DEF Handled
  <1>4. body.status = 200 /\ body.registration = mem.launches[at].registration
        /\ body.moveOn = mem.launches[at].moveOn /\ DOMAIN body = {"status", "registration", "moveOn", "waivedAt"}
    OBVIOUS
  <1> HIDE DEF q
  <1>5. /\ Launched(mem, at) /\ mem.launches[at].registration = Own(r, x)
        /\ mem.launches[at].moveOn = a.slots[x].moveOn
    BY <1>2, KnownIsLaunched DEF Held
  <1>6. mem \in States /\ now = 0
    BY DEF AdapterOK
  <1>7. AuthStatus(mem, q.token, at, now) = 200 /\ q.token # NoToken
    BY <1>2, <1>6, HeldTokenOpens, HeldIsExchanged
  <1>8. ~IsReplay(mem, at, q.id) /\ RecordReplay(mem, at, q.id) = mem
    BY <1>1 DEF IsReplay, RecordReplay
  <1>9. Handled(s) = Accept(body, mem, <<mem, mem>>)
    BY <1>3, <1>5, <1>7, <1>8 DEF LaunchData
  <1> HIDE DEF body
  <1>10. Handled(s).after = mem /\ Handled(s).reply = body
    BY <1>9 DEF Accept
  <1>11. Fits(body, shown) /\ "verbs" \notin DOMAIN body
    BY <1>2, <1>4, <1>5 DEF Fits
  <1>12. Fits(Seen(body), shown)
    BY <1>11, SeenPlainly
  <1> QED BY <1>10, <1>12, NothingAnswers

LEMMA GetAnswers ==
  ASSUME AdapterOK, NEW r \in Runners, NEW a, Holds(r, mem, a), NEW s, s.op = "get", NEW shown, Told(r, a, s, shown)
  PROVE  Answers(r, Handled(s), shown, AfterSeeing(a, shown))
  <1> DEFINE q == s.q
             at == q.session
             log == mem.statements[at]
             met == MoveOnSatisfied(mem.launches[at].moveOn, log)
             body == [status |-> 200, verbs |-> log, moveOnSatisfied |-> met]
  <1>1. \E x \in Slots \ a.gone :
             /\ Held(a, x) /\ at = Own(r, x) /\ q.token = TokenOf(r, x)
             /\ shown = [status |-> 200, verbs |-> a.slots[x].log, count |-> Len(a.slots[x].log),
                         terminated |-> HasVerb(a.slots[x].log, "terminated"),
                         moveOnSatisfied |-> MoveOnSatisfied(a.slots[x].moveOn, a.slots[x].log)]
    BY DEF Told
  <1>2. PICK x \in Slots \ a.gone :
             /\ Held(a, x) /\ at = Own(r, x) /\ q.token = TokenOf(r, x)
             /\ shown = [status |-> 200, verbs |-> a.slots[x].log, count |-> Len(a.slots[x].log),
                         terminated |-> HasVerb(a.slots[x].log, "terminated"),
                         moveOnSatisfied |-> MoveOnSatisfied(a.slots[x].moveOn, a.slots[x].log)]
    BY <1>1
  <1>3. Handled(s) = GetStatements(mem, q, now)
    BY DEF Handled
  <1> HIDE DEF q
  <1>4. /\ Launched(mem, at) /\ mem.launches[at].moveOn = a.slots[x].moveOn /\ log = a.slots[x].log
    BY <1>2, KnownIsLaunched DEF Held
  <1>5. mem \in States /\ now = 0
    BY DEF AdapterOK
  <1>6. AuthStatus(mem, q.token, at, now) = 200 /\ q.token # NoToken
    BY <1>2, <1>5, HeldTokenOpens, HeldIsExchanged
  <1>7. Handled(s) = Accept(body, mem, <<mem>>)
    BY <1>3, <1>4, <1>6 DEF GetStatements
  <1>8. shown = [status |-> 200, verbs |-> log, count |-> Len(log), terminated |-> HasVerb(log, "terminated"),
                 moveOnSatisfied |-> met]
    BY <1>2, <1>4
  <1> DEFINE count == Len(log)
             over == HasVerb(log, "terminated")
  <1>9. Handled(s).after = mem /\ Handled(s).reply = body
    <2> HIDE DEF body
    <2> QED BY <1>7 DEF Accept
  <1>10. shown = [status |-> 200, verbs |-> log, count |-> count, terminated |-> over, moveOnSatisfied |-> met]
    BY <1>8
  <1>11. Seen(body) = [f \in {"status", "verbs", "moveOnSatisfied", "count", "terminated"} |->
                         CASE f = "count" -> count [] f = "terminated" -> over [] OTHER -> body[f]]
    <2>1. body.verbs = log /\ DOMAIN body = {"status", "verbs", "moveOnSatisfied"}
      OBVIOUS
    <2>2. DOMAIN body \union {"count", "terminated"} = {"status", "verbs", "moveOnSatisfied", "count", "terminated"}
      BY <2>1
    <2> HIDE DEF body, log
    <2> QED BY <2>1, <2>2, Zenon DEF Seen, count, over
  <1>12. Fits(Seen(body), shown)
    <2> HIDE DEF log, met, count, over
    <2> QED BY <1>10, <1>11 DEF Fits
  <1> HIDE DEF body
  <1> QED BY <1>9, <1>12, NothingAnswers

LEMMA WaivedAnswers ==
  ASSUME AdapterOK, NEW r \in Runners, NEW a, Holds(r, mem, a), NEW s, s.op = "waive", NEW shown, Told(r, a, s, shown)
  PROVE  Answers(r, Handled(s), shown, AfterSeeing(a, shown))
  <1> DEFINE q == s.q
             g == Own(r, "initial")
  <1>1. /\ a.waived /\ a.slots["initial"].moveOn # "none" /\ q.registration = g
        /\ shown = [status |-> 200, already |-> TRUE, waivedAt |-> 0]
    BY DEF Told
  <1>2. Handled(s) = WaiveRegistration(mem, q, now)
    BY DEF Handled
  <1> HIDE DEF q
  <1>3. "initial" \in Slots
    BY DEF Slots
  <1>4. g \in mem.registrations /\ g # NoRegistration
    BY <1>1, <1>3, KnownIsLaunched, OwnIsSession
  <1>5. mem.waived[g] = 0
    BY <1>1 DEF Holds
  <1>6. (mem.waived[g] # Never) = TRUE
    BY <1>5 DEF Never
  <1>7. Handled(s) = Accept(shown, mem, <<>>)
    BY <1>1, <1>2, <1>4, <1>5, <1>6, ZenonT(40) DEF WaiveRegistration
  <1>8. Handled(s).after = mem /\ Handled(s).reply = shown
    BY <1>7 DEF Accept
  <1>9. Fits(shown, shown) /\ "verbs" \notin DOMAIN shown
    BY <1>1 DEF Fits
  <1>10. Fits(Seen(shown), shown)
    BY <1>9, SeenPlainly
  <1> QED BY <1>8, <1>10, NothingAnswers

(* A launch that is created. *)
LEMMA CreateSaves ==
  ASSUME AdapterOK, NEW q, q.session \in Sessions, q.registration \in Registrations, LaunchStatus(mem, q) = 200,
         NEW h, h = LaunchCreate(mem, q, now)
  PROVE  LET st == h.after
             at == q.session
         IN  /\ st.launches[at].registration = q.registration /\ st.launches[at].moveOn = q.moveOn
             /\ st.statements[at] = <<>> /\ st.replay[at] = {}
             /\ ~st.access[at].consumed /\ st.access[at].fetchExpires = FetchTtl
             /\ \A y \in Sessions \ {at} : /\ st.launches[y] = mem.launches[y]
                                           /\ st.access[y] = mem.access[y]
                                           /\ st.replay[y] = mem.replay[y]
                                           /\ st.statements[y] = mem.statements[y]
             /\ st.registrations = mem.registrations \union {q.registration}
             /\ st.packages = mem.packages /\ st.abandoned = mem.abandoned /\ st.waived = mem.waived
             /\ h.reply = [status |-> 200, session |-> at, registration |-> q.registration,
                           moveOn |-> q.moveOn, waivedAt |-> mem.waived[q.registration]]
  <1> DEFINE at == q.session
             launch == [registration |-> q.registration, moveOn |-> q.moveOn, round |-> rounds[at] + 1]
             saved == SaveLaunch(mem, at, launch, now)
             body == [status |-> 200, session |-> at, registration |-> q.registration,
                      moveOn |-> q.moveOn, waivedAt |-> mem.waived[q.registration]]
  <1>1. h = Accept(body, saved, <<saved>>)
    BY Zenon DEF LaunchCreate
  <1>2. h.after = saved /\ h.reply = body
    <2> HIDE DEF body, saved
    <2> QED BY <1>1 DEF Accept
  <1>3. launch.registration = q.registration /\ launch.moveOn = q.moveOn
    OBVIOUS
  <1>4. mem \in States /\ now = 0 /\ at \in Sessions
    BY DEF AdapterOK
  <1> HIDE DEF at, launch
  <1>5. /\ saved.launches[at] = launch
        /\ saved.statements[at] = <<>> /\ saved.replay[at] = {}
        /\ \A y \in Sessions \ {at} : /\ saved.launches[y] = mem.launches[y]
                                      /\ saved.access[y] = mem.access[y]
                                      /\ saved.replay[y] = mem.replay[y]
                                      /\ saved.statements[y] = mem.statements[y]
        /\ saved.abandoned = mem.abandoned /\ saved.waived = mem.waived
    BY <1>4, SaveLaunchFields
  <1> DEFINE access == [NoAccess EXCEPT !.fetchExpires = 0 + FetchTtl]
  <1>6. access.consumed = FALSE /\ access.fetchExpires = FetchTtl
    BY TimeAssumption DEF NoAccess
  <1> HIDE DEF access
  <1>7. /\ saved.registrations = mem.registrations \union {launch.registration}
        /\ saved.packages = mem.packages
        /\ saved.access[at] = access
    BY <1>4, FieldTypes DEF SaveLaunch, States, access
  <1> HIDE DEF saved, body
  <1> QED BY <1>2, <1>3, <1>5, <1>6, <1>7 DEF at, body

LEMMA CleanLaunchStatus ==
  ASSUME NEW r, NEW a, Holds(r, mem, a), a.imported, NEW q, Clean(q, r), q.session \notin mem.abandoned
  PROVE  LaunchStatus(mem, q) = 200
  <1>1. q.package \in mem.packages /\ q.flaw = "none"
    BY DEF Holds, Clean
  <1> QED BY <1>1 DEF LaunchStatus

LEMMA ExplicitAnswers ==
  ASSUME AdapterOK, NEW r \in Runners, NEW a, Holds(r, mem, a), NEW s, s.op = "launch", NEW shown, Told(r, a, s, shown)
  PROVE  Answers(r, Handled(s), shown, AfterSeeing(a, shown))
  <1> DEFINE q == s.q
             h == Handled(s)
             b == AfterSeeing(a, shown)
             st == h.after
             body == [status |-> 200, session |-> Explicit, registration |-> Explicit,
                      moveOn |-> q.moveOn, waivedAt |-> mem.waived[Explicit]]
  <1>1. /\ Clean(q, r) /\ a.imported /\ q.session = Explicit /\ q.registration = Explicit
        /\ shown = [status |-> 200, session |-> Explicit, registration |-> Explicit]
    BY DEF Told
  <1>2. h = LaunchCreate(mem, q, now)
    BY DEF Handled
  <1>3. Explicit \in Sessions /\ Explicit \in Registrations
    BY NamesAssumption DEF RunnerSessions
  <1> HIDE DEF q, h
  <1>4. LaunchStatus(mem, q) = 200
    <2>1. q.session \notin mem.abandoned
      BY <1>1 DEF AdapterOK
    <2> QED BY <1>1, <2>1, CleanLaunchStatus
  <1>5. /\ \A y \in Sessions \ {Explicit} : /\ st.launches[y] = mem.launches[y]
                                            /\ st.access[y] = mem.access[y]
                                            /\ st.replay[y] = mem.replay[y]
                                            /\ st.statements[y] = mem.statements[y]
        /\ st.registrations = mem.registrations \union {Explicit}
        /\ st.packages = mem.packages /\ st.abandoned = mem.abandoned /\ st.waived = mem.waived
        /\ h.reply = body
    <2>1. q.session \in Sessions /\ q.registration \in Registrations
      BY <1>1, <1>3
    <2> QED BY <1>1, <1>2, <1>4, <2>1, CreateSaves
  <1>6. \A y \in Slots : SameSlot(r, mem, st, y)
    BY <1>5, OwnIsSession DEF SameSlot
  <1>7. Holds(r, mem, b) /\ b.slots = b.slots
    BY SeeingHolds
  <1> HIDE DEF st, b
  <1>8. Holds(r, st, b)
    <2>1. /\ b.imported => PackageId[r] \in st.packages
          /\ \A y \in Slots : Own(r, y) \in st.abandoned <=> y \in b.gone
          /\ st.waived[Own(r, "initial")] = IF b.waived THEN 0 ELSE Never
      BY <1>5, <1>7 DEF Holds
    <2> QED BY <1>6, <1>7, <2>1, NoSlotChanged
  <1>9. Fits(body, shown) /\ "verbs" \notin DOMAIN body
    BY <1>1 DEF Fits
  <1> HIDE DEF body
  <1>10. Fits(Seen(body), shown)
    BY <1>9, SeenPlainly
  <1> QED BY <1>5, <1>8, <1>10 DEF Answers, h, st, b

LEMMA LaunchAnswers ==
  ASSUME FetchTtl > 0, AdapterOK, NEW r \in Runners, NEW a, Knows(a), Holds(r, mem, a),
         NEW s, NEW shown, NEW b, LaunchDone(r, a, s, shown, b)
  PROVE  Answers(r, Handled(s), shown, b)
  <1> DEFINE q == s.q
             h == Handled(s)
             st == h.after
  <1>1. /\ s.op = "launch" /\ Clean(q, r) /\ a.imported
        /\ \E x \in Slots \ a.gone :
              /\ q.session = Own(r, x) /\ q.registration = Own(r, x)
              /\ shown = [status |-> 200, session |-> Own(r, x), registration |-> Own(r, x), moveOn |-> q.moveOn]
              /\ b = AfterLaunch(a, x, SlotKnowledge(q.moveOn, "fresh", <<>>, FALSE), shown)
    BY DEF LaunchDone
  <1>2. h = LaunchCreate(mem, q, now)
    BY <1>1 DEF Handled
  <1> HIDE DEF q, h
  <1>3. PICK x \in Slots \ a.gone :
              /\ q.session = Own(r, x) /\ q.registration = Own(r, x)
              /\ shown = [status |-> 200, session |-> Own(r, x), registration |-> Own(r, x), moveOn |-> q.moveOn]
              /\ b = AfterLaunch(a, x, SlotKnowledge(q.moveOn, "fresh", <<>>, FALSE), shown)
    BY <1>1
  <1> DEFINE at == Own(r, x)
             v == SlotKnowledge(q.moveOn, "fresh", <<>>, FALSE)
             body == [status |-> 200, session |-> at, registration |-> at,
                      moveOn |-> q.moveOn, waivedAt |-> mem.waived[at]]
  <1>4. at \in Sessions /\ at \in Registrations
    BY OwnIsSession
  <1>5. LaunchStatus(mem, q) = 200
    <2>1. q.session \notin mem.abandoned
      BY <1>3 DEF Holds
    <2> QED BY <1>1, <2>1, CleanLaunchStatus
  <1>6. /\ st.launches[at].registration = at /\ st.launches[at].moveOn = q.moveOn
        /\ st.statements[at] = <<>> /\ st.replay[at] = {}
        /\ ~st.access[at].consumed /\ st.access[at].fetchExpires = FetchTtl
        /\ \A y \in Sessions \ {at} : /\ st.launches[y] = mem.launches[y]
                                      /\ st.access[y] = mem.access[y]
                                      /\ st.replay[y] = mem.replay[y]
                                      /\ st.statements[y] = mem.statements[y]
        /\ st.registrations = mem.registrations \union {at}
        /\ st.packages = mem.packages /\ st.abandoned = mem.abandoned /\ st.waived = mem.waived
        /\ h.reply = body
    <2>1. q.session \in Sessions /\ q.registration \in Registrations /\ q.session = at /\ q.registration = at
      BY <1>3, <1>4
    <2> QED BY <1>2, <1>5, <2>1, CreateSaves, SMTT(30)
  <1> HIDE DEF st
  <1>7. \A y \in Slots \ {x} : SameSlot(r, mem, st, y)
    <2>1. \A y \in Slots \ {x} : Own(r, y) # at
      BY DEF Own
    <2> QED BY <1>6, <2>1, OwnIsSession DEF SameSlot
  <1>8. v.moveOn = q.moveOn /\ v.access = "fresh" /\ v.log = <<>> /\ v.noted = FALSE
    BY DEF SlotKnowledge
  <1> HIDE DEF v
  <1>9. SlotHolds(r, st, x, v)
    BY <1>6, <1>8 DEF SlotHolds
  <1>10. b.slots = SlotAfter(a, x, v) /\ b.imported = a.imported /\ b.gone = a.gone /\ b.waived = a.waived
    <2>1. b = AfterLaunch(a, x, v, shown)
      BY <1>3 DEF v
    <2> QED BY <2>1 DEF AfterLaunch, Know
  <1> HIDE DEF at
  <1>11. Holds(r, st, b)
    <2>1. /\ b.imported => PackageId[r] \in st.packages
          /\ \A y \in Slots : Own(r, y) \in st.abandoned <=> y \in b.gone
          /\ st.waived[Own(r, "initial")] = IF b.waived THEN 0 ELSE Never
      BY <1>6, <1>10 DEF Holds
    <2> QED BY <1>7, <1>9, <1>10, <2>1, OneSlotChanged
  <1>12. Fits(body, shown) /\ "verbs" \notin DOMAIN body
    BY <1>3 DEF Fits, at
  <1> HIDE DEF body
  <1>13. Fits(Seen(body), shown)
    BY <1>12, SeenPlainly
  <1> QED BY <1>6, <1>11, <1>13 DEF Answers, st, h

LEMMA ResumeAnswers ==
  ASSUME AdapterOK, NEW r \in Runners, NEW a, Knows(a), Holds(r, mem, a),
         NEW s, NEW shown, NEW b, ResumeDone(r, a, s, shown, b)
  PROVE  Answers(r, Handled(s), shown, b)
  <1> DEFINE q == s.q
             h == Handled(s)
             st == h.after
             g == Own(r, "initial")
             date == IF a.waived THEN 0 ELSE Never
  <1>1. /\ s.op = "launch" /\ Clean(q, r) /\ a.imported
        /\ \E x \in Slots \ a.gone :
              /\ q.session = Own(r, x) /\ q.registration = g
              /\ shown = [status |-> 200, session |-> Own(r, x), registration |-> g, waivedAt |-> date]
              /\ b = AfterLaunch(a, x, Unknown, shown)
    BY DEF ResumeDone
  <1>2. h = LaunchCreate(mem, q, now)
    BY <1>1 DEF Handled
  <1>3. "initial" \in Slots
    BY DEF Slots
  <1> HIDE DEF q, h
  <1>4. mem.waived[g] = date
    BY DEF Holds
  <1> HIDE DEF g, date
  <1>5. PICK x \in Slots \ a.gone :
              /\ q.session = Own(r, x) /\ q.registration = g
              /\ shown = [status |-> 200, session |-> Own(r, x), registration |-> g, waivedAt |-> date]
              /\ b = AfterLaunch(a, x, Unknown, shown)
    BY <1>1
  <1> DEFINE at == Own(r, x)
             body == [status |-> 200, session |-> at, registration |-> g, moveOn |-> q.moveOn, waivedAt |-> date]
  <1>6. at \in Sessions /\ g \in Registrations
    BY <1>3, OwnIsSession DEF g
  <1>7. LaunchStatus(mem, q) = 200
    <2>1. q.session \notin mem.abandoned
      BY <1>5 DEF Holds
    <2> QED BY <1>1, <2>1, CleanLaunchStatus
  <1>8. /\ \A y \in Sessions \ {at} : /\ st.launches[y] = mem.launches[y]
                                      /\ st.access[y] = mem.access[y]
                                      /\ st.replay[y] = mem.replay[y]
                                      /\ st.statements[y] = mem.statements[y]
        /\ st.registrations = mem.registrations \union {g}
        /\ st.packages = mem.packages /\ st.abandoned = mem.abandoned /\ st.waived = mem.waived
        /\ h.reply = body
    <2>1. q.session \in Sessions /\ q.registration \in Registrations /\ q.session = at /\ q.registration = g
      BY <1>5, <1>6
    <2> QED BY <1>2, <1>4, <1>7, <2>1, CreateSaves
  <1> HIDE DEF st
  <1>9. \A y \in Slots \ {x} : SameSlot(r, mem, st, y)
    <2>1. \A y \in Slots \ {x} : Own(r, y) # at
      BY DEF Own
    <2> QED BY <1>8, <2>1, OwnIsSession DEF SameSlot
  <1>10. SlotHolds(r, st, x, Unknown)
    BY DEF SlotHolds, Unknown, SlotKnowledge
  <1>11. b.slots = SlotAfter(a, x, Unknown) /\ b.imported = a.imported /\ b.gone = a.gone /\ b.waived = a.waived
    BY <1>5 DEF AfterLaunch, Know
  <1> HIDE DEF at
  <1>12. Holds(r, st, b)
    BY <1>8, <1>9, <1>10, <1>11, OneSlotChanged, SMTT(30) DEF Holds
  <1>13. Fits(body, shown) /\ "verbs" \notin DOMAIN body
    BY <1>5 DEF Fits, at
  <1> HIDE DEF body
  <1>14. Fits(Seen(body), shown)
    BY <1>13, SeenPlainly
  <1> QED BY <1>8, <1>12, <1>14 DEF Answers, st, h

LEMMA OkSeen ==
  ASSUME NEW reply, "status" \in DOMAIN reply, reply.status = 200, "verbs" \notin DOMAIN reply
  PROVE  Fits(Seen(reply), Ok)
  <1>1. DOMAIN Ok = {"status"} /\ Ok["status"] = 200
    BY DEF Ok
  <1>2. Fits(reply, Ok)
    BY <1>1 DEF Fits
  <1> QED BY <1>2, SeenPlainly

LEMMA ImportAnswers ==
  ASSUME AdapterOK, NEW r \in Runners, NEW a, Knows(a), Holds(r, mem, a),
         NEW s, NEW shown, NEW b, ImportDone(r, a, s, shown, b)
  PROVE  Answers(r, Handled(s), shown, b)
  <1> DEFINE packages == mem.packages \union {PackageId[r]}
             saved == [mem EXCEPT !.packages = packages]
  <1>1. s.op = "import" /\ s.q.package = PackageId[r] /\ PackageAccepted(s.q.upload) /\ shown = Ok /\ b = AfterImport(a, Ok)
    BY DEF ImportDone
  <1>2. Handled(s) = Accept(Ok, saved, <<saved>>)
    BY <1>1 DEF Handled, PackageImport
  <1>3. mem \in States
    BY DEF AdapterOK
  <1>4. /\ saved.packages = packages /\ saved.launches = mem.launches /\ saved.access = mem.access
        /\ saved.replay = mem.replay /\ saved.statements = mem.statements
        /\ saved.registrations = mem.registrations /\ saved.waived = mem.waived /\ saved.abandoned = mem.abandoned
    BY <1>3 DEF States
  <1> HIDE DEF saved
  <1>5. \A y \in Slots : SameSlot(r, mem, saved, y)
    BY <1>4 DEF SameSlot
  <1>6. b.slots = a.slots /\ b.gone = a.gone /\ b.waived = a.waived
    BY <1>1 DEF AfterImport, Know
  <1>7. Holds(r, saved, b)
    <2>1. /\ PackageId[r] \in saved.packages
          /\ \A y \in Slots : Own(r, y) \in saved.abandoned <=> y \in b.gone
          /\ saved.waived[Own(r, "initial")] = IF b.waived THEN 0 ELSE Never
      BY <1>4, <1>6 DEF Holds
    <2> QED BY <1>5, <1>6, <2>1, NoSlotChanged
  <1>8. Handled(s).after = saved /\ Handled(s).reply = Ok
    BY <1>2 DEF Accept
  <1>9. Fits(Seen(Ok), Ok)
    <2>1. "status" \in DOMAIN Ok /\ Ok.status = 200 /\ "verbs" \notin DOMAIN Ok
      BY DEF Ok
    <2> QED BY <2>1, OkSeen
  <1> QED BY <1>1, <1>7, <1>8, <1>9 DEF Answers

LEMMA FetchAnswers ==
  ASSUME AuthTtl > 0, AdapterOK, NEW r \in Runners, NEW a, Knows(a), Holds(r, mem, a),
         NEW s, NEW shown, NEW b, FetchDone(r, a, s, shown, b)
  PROVE  Answers(r, Handled(s), shown, b)
  <1> DEFINE q == s.q
  <1>1. /\ s.op = "fetch" /\ shown = Ok
        /\ \E x \in Slots : /\ a.slots[x].moveOn # "none" /\ a.slots[x].access = "fresh"
                            /\ q.session = Own(r, x) /\ q.token = Own(r, x)
                            /\ b = AfterFetch(a, x, shown)
    BY DEF FetchDone
  <1>2. Handled(s) = Fetch(mem, q, now)
    BY <1>1 DEF Handled
  <1> HIDE DEF q
  <1>3. PICK x \in Slots : /\ a.slots[x].moveOn # "none" /\ a.slots[x].access = "fresh"
                           /\ q.session = Own(r, x) /\ q.token = Own(r, x)
                           /\ b = AfterFetch(a, x, shown)
    BY <1>1
  <1> DEFINE at == Own(r, x)
             token == Token(at, issued[at] + 1)
             saved == ConsumeFetchToken(mem, at, token, now)
             body == [status |-> 200, token |-> token]
             v == SlotKnowledge(a.slots[x].moveOn, "held", a.slots[x].log, FALSE)
  <1>4. at \in Sessions /\ at # NoSession
    BY OwnIsSession
  <1>5. mem \in States /\ now = 0 /\ issued[at] = 0
    BY <1>4 DEF AdapterOK
  <1>6. /\ Launched(mem, at) /\ mem.launches[at].registration = at /\ mem.launches[at].moveOn = a.slots[x].moveOn
        /\ at \in mem.registrations /\ mem.statements[at] = a.slots[x].log
    BY <1>3, KnownIsLaunched
  <1>7. ~mem.access[at].consumed /\ mem.access[at].fetchExpires > 0
    <2>1. SlotHolds(r, mem, x, a.slots[x])
      BY DEF Holds
    <2> QED BY <1>3, <2>1 DEF SlotHolds
  <1>8. mem.access[at].fetchExpires \in Int
    BY <1>4, <1>5, FieldTypes, TimeAssumption DEF Accesses, Stamps, Never
  <1>9. FetchStatus(mem, at, now) = 200
    BY <1>5, <1>7, <1>8 DEF FetchStatus
  <1>10. token = TokenOf(r, x)
    BY <1>5 DEF TokenOf
  <1>11. Handled(s) = Accept(body, saved, <<saved>>)
    BY <1>2, <1>3, <1>4, <1>6, <1>9 DEF Fetch
  <1>12. Handled(s).after = saved /\ Handled(s).reply = body
    <2> HIDE DEF saved, body
    <2> QED BY <1>11 DEF Accept
  <1> HIDE DEF token, at
  <1>13. /\ saved.launches = mem.launches /\ saved.statements = mem.statements /\ saved.replay[at] = {}
         /\ \A y \in Sessions \ {at} : saved.replay[y] = mem.replay[y] /\ saved.access[y] = mem.access[y]
         /\ saved.abandoned = mem.abandoned /\ saved.waived = mem.waived
         /\ saved.access[at].token = token
    BY <1>4, <1>5, ConsumeFetchTokenFields
  <1>14. /\ saved.access[at].consumed /\ saved.access[at].authExpires = 0 + AuthTtl
         /\ saved.packages = mem.packages /\ saved.registrations = mem.registrations
    BY <1>4, <1>5, FieldTypes DEF ConsumeFetchToken, States, Accesses
  <1> HIDE DEF saved
  <1>15. \A y \in Slots \ {x} : SameSlot(r, mem, saved, y)
    <2>1. \A y \in Slots \ {x} : Own(r, y) # at
      BY DEF Own, at
    <2> QED BY <1>13, <1>14, <2>1, OwnIsSession DEF SameSlot
  <1>16. v.moveOn = a.slots[x].moveOn /\ v.access = "held" /\ v.log = a.slots[x].log /\ v.noted = FALSE
    BY DEF SlotKnowledge
  <1> HIDE DEF v
  <1>17. 0 + AuthTtl > 0
    BY TimeAssumption
  <1>18. SlotHolds(r, saved, x, v)
    BY <1>6, <1>10, <1>13, <1>14, <1>16, <1>17 DEF SlotHolds, at
  <1>19. b.slots = SlotAfter(a, x, v) /\ b.imported = a.imported /\ b.gone = a.gone /\ b.waived = a.waived
    BY <1>3 DEF AfterFetch, Know, v
  <1>20. Holds(r, saved, b)
    <2>1. /\ b.imported => PackageId[r] \in saved.packages
          /\ \A y \in Slots : Own(r, y) \in saved.abandoned <=> y \in b.gone
          /\ saved.waived[Own(r, "initial")] = IF b.waived THEN 0 ELSE Never
      BY <1>13, <1>14, <1>19 DEF Holds
    <2> QED BY <1>15, <1>18, <1>19, <2>1, OneSlotChanged
  <1>21. Fits(Seen(body), Ok)
    <2>1. "status" \in DOMAIN body /\ body.status = 200 /\ "verbs" \notin DOMAIN body
      OBVIOUS
    <2> HIDE DEF body
    <2> QED BY <2>1, OkSeen
  <1> HIDE DEF body
  <1> QED BY <1>1, <1>12, <1>20, <1>21 DEF Answers

LEMMA WaiveAnswers ==
  ASSUME AdapterOK, NEW r \in Runners, NEW a, Knows(a), Holds(r, mem, a),
         NEW s, NEW shown, NEW b, WaiveDone(r, a, s, shown, b)
  PROVE  Answers(r, Handled(s), shown, b)
  <1> DEFINE q == s.q
             g == Own(r, "initial")
             saved == Waive(mem, g, now)
  <1>1. /\ s.op = "waive" /\ ~a.waived /\ a.slots["initial"].moveOn # "none" /\ q.registration = g
        /\ shown = [status |-> 200, already |-> FALSE, waivedAt |-> 0] /\ b = AfterWaive(a, shown)
    BY DEF WaiveDone
  <1>2. Handled(s) = WaiveRegistration(mem, q, now)
    BY <1>1 DEF Handled
  <1> HIDE DEF q
  <1>3. "initial" \in Slots
    BY DEF Slots
  <1>4. g \in mem.registrations /\ g # NoRegistration /\ g \in Registrations
    BY <1>1, <1>3, KnownIsLaunched, OwnIsSession
  <1>5. mem \in States /\ now = 0
    BY DEF AdapterOK
  <1>6. mem.waived[g] = Never
    BY <1>1 DEF Holds
  <1>7. (mem.waived[g] # Never) = FALSE
    BY <1>6
  <1>8. Handled(s) = Accept(shown, saved, <<saved>>)
    BY <1>1, <1>2, <1>4, <1>5, <1>6, <1>7 DEF WaiveRegistration
  <1>9. /\ saved.launches = mem.launches /\ saved.statements = mem.statements /\ saved.replay = mem.replay
        /\ saved.abandoned = mem.abandoned /\ saved.access = mem.access
    BY <1>4, <1>5, WaiveFields
  <1>10. saved.waived[g] = 0 /\ saved.packages = mem.packages /\ saved.registrations = mem.registrations
    BY <1>4, <1>5, FieldTypes DEF Waive, States
  <1> HIDE DEF saved
  <1>11. Handled(s).after = saved /\ Handled(s).reply = shown
    BY <1>8 DEF Accept
  <1>12. \A y \in Slots : SameSlot(r, mem, saved, y)
    BY <1>9, <1>10 DEF SameSlot
  <1>13. b.slots = a.slots /\ b.imported = a.imported /\ b.gone = a.gone /\ b.waived = TRUE
    BY <1>1 DEF AfterWaive, Know
  <1>14. Holds(r, saved, b)
    <2>1. /\ b.imported => PackageId[r] \in saved.packages
          /\ \A y \in Slots : Own(r, y) \in saved.abandoned <=> y \in b.gone
          /\ saved.waived[Own(r, "initial")] = IF b.waived THEN 0 ELSE Never
      BY <1>9, <1>10, <1>13 DEF Holds
    <2> QED BY <1>12, <1>13, <2>1, NoSlotChanged
  <1>15. Fits(shown, shown) /\ "verbs" \notin DOMAIN shown
    BY <1>1 DEF Fits
  <1>16. Fits(Seen(shown), shown)
    BY <1>15, SeenPlainly
  <1> QED BY <1>11, <1>14, <1>16 DEF Answers

LEMMA AbandonAnswers ==
  ASSUME AdapterOK, NEW r \in Runners, NEW a, Knows(a), Holds(r, mem, a),
         NEW s, NEW shown, NEW b, AbandonDone(r, a, s, shown, b)
  PROVE  Answers(r, Handled(s), shown, b)
  <1> DEFINE q == s.q
  <1>1. /\ s.op = "abandon" /\ shown = Ok
        /\ \E x \in Slots \ a.gone : /\ a.slots[x].moveOn # "none" /\ q.session = Own(r, x)
                                     /\ b = AfterAbandon(a, x, shown)
    BY DEF AbandonDone
  <1>2. Handled(s) = AbandonSession(mem, q, now)
    BY <1>1 DEF Handled
  <1> HIDE DEF q
  <1>3. PICK x \in Slots \ a.gone : /\ a.slots[x].moveOn # "none" /\ q.session = Own(r, x)
                                    /\ b = AfterAbandon(a, x, shown)
    BY <1>1
  <1> DEFINE at == Own(r, x)
             saved == Abandon(mem, at, now)
             v == SlotKnowledge(a.slots[x].moveOn, "unknown", a.slots[x].log, a.slots[x].noted)
  <1>4. at \in Sessions /\ at # NoSession
    BY OwnIsSession
  <1>5. mem \in States /\ now = 0
    BY DEF AdapterOK
  <1>6. /\ Launched(mem, at) /\ mem.launches[at].registration = at /\ mem.launches[at].moveOn = a.slots[x].moveOn
        /\ at \in mem.registrations /\ mem.statements[at] = a.slots[x].log
        /\ r \in mem.replay[at] <=> a.slots[x].noted
    BY <1>3, KnownIsLaunched
  <1>7. at \notin mem.abandoned
    BY DEF Holds
  <1>8. Handled(s) = Accept(Ok, saved, <<saved>>)
    BY <1>2, <1>3, <1>4, <1>6, <1>7 DEF AbandonSession
  <1> HIDE DEF at
  <1>9. /\ saved.launches = mem.launches /\ saved.statements = mem.statements /\ saved.replay = mem.replay
        /\ saved.abandoned = mem.abandoned \union {at} /\ saved.waived = mem.waived
    BY <1>4, <1>5, AbandonFields
  <1>10. /\ \A y \in Sessions \ {at} : saved.access[y] = mem.access[y]
         /\ saved.packages = mem.packages /\ saved.registrations = mem.registrations
    BY <1>4, <1>5, FieldTypes DEF Abandon, States
  <1> HIDE DEF saved
  <1>11. Handled(s).after = saved /\ Handled(s).reply = Ok
    BY <1>8 DEF Accept
  <1>12. \A y \in Slots \ {x} : Own(r, y) # at
    BY DEF Own, at
  <1>13. \A y \in Slots \ {x} : SameSlot(r, mem, saved, y)
    BY <1>9, <1>10, <1>12, OwnIsSession DEF SameSlot
  <1>14. v.moveOn = a.slots[x].moveOn /\ v.access = "unknown" /\ v.log = a.slots[x].log
    BY DEF SlotKnowledge
  <1>15. r \in saved.replay[at] <=> v.noted
    BY <1>6, <1>9, Zenon DEF SlotKnowledge
  <1> HIDE DEF v
  <1>16. SlotHolds(r, saved, x, v)
    BY <1>6, <1>9, <1>10, <1>14, <1>15 DEF SlotHolds, at
  <1>17. b.slots = SlotAfter(a, x, v) /\ b.imported = a.imported /\ b.gone = a.gone \union {x} /\ b.waived = a.waived
    BY <1>3 DEF AfterAbandon, Know, v
  <1>18. Holds(r, saved, b)
    <2>1. /\ b.imported => PackageId[r] \in saved.packages
          /\ saved.waived[Own(r, "initial")] = IF b.waived THEN 0 ELSE Never
      BY <1>9, <1>10, <1>17 DEF Holds
    <2>2. \A y \in Slots : Own(r, y) \in saved.abandoned <=> y \in b.gone
      BY <1>9, <1>12, <1>17 DEF Holds, at
    <2> QED BY <1>13, <1>16, <1>17, <2>1, <2>2, OneSlotChanged
  <1>19. Fits(Seen(Ok), Ok)
    <2>1. "status" \in DOMAIN Ok /\ Ok.status = 200 /\ "verbs" \notin DOMAIN Ok
      BY DEF Ok
    <2> QED BY <2>1, OkSeen
  <1> QED BY <1>1, <1>11, <1>18, <1>19 DEF Answers

LEMMA PostAnswers ==
  ASSUME AdapterOK, NEW r \in Runners, NEW a, Knows(a), Holds(r, mem, a),
         NEW s, NEW shown, NEW b, PostDone(r, a, s, shown, b)
  PROVE  Answers(r, Handled(s), shown, b)
  <1> DEFINE q == s.q
  <1>1. /\ shown = Ok
        /\ \E x \in Slots : /\ Posts(r, a, s, x) /\ AcceptsVerb(a.slots[x].moveOn, a.slots[x].log, q.verb)
                            /\ q.id = NoId \/ (q.id = r /\ ~a.slots[x].noted)
                            /\ b = AfterPost(a, x, q.verb, a.slots[x].noted \/ q.id = r, shown)
    BY DEF PostDone
  <1>2. PICK x \in Slots : /\ Posts(r, a, s, x) /\ AcceptsVerb(a.slots[x].moveOn, a.slots[x].log, q.verb)
                           /\ q.id = NoId \/ (q.id = r /\ ~a.slots[x].noted)
                           /\ b = AfterPost(a, x, q.verb, a.slots[x].noted \/ q.id = r, shown)
    BY <1>1
  <1> DEFINE at == Own(r, x)
             noted == RecordReplay(mem, at, q.id)
             saved == AppendStatement(noted, at, q.verb)
             v == SlotKnowledge(a.slots[x].moveOn, "held", Append(a.slots[x].log, q.verb), a.slots[x].noted \/ q.id = r)
  <1>3. /\ s.op = "post" /\ Held(a, x) /\ x \notin a.gone /\ a.slots[x].moveOn # "none"
        /\ q.session = at /\ q.registration = at /\ q.token = TokenOf(r, x)
    BY <1>2 DEF Posts, Held
  <1>4. Handled(s) = PostStatement(mem, q, now)
    BY <1>3 DEF Handled
  <1>5. b.slots = SlotAfter(a, x, v) /\ b.imported = a.imported /\ b.gone = a.gone /\ b.waived = a.waived
    BY <1>2 DEF AfterPost, Know
  <1>6. v.moveOn = a.slots[x].moveOn /\ v.access = "held" /\ v.log = Append(a.slots[x].log, q.verb)
    BY DEF SlotKnowledge
  <1>7. v.noted <=> a.slots[x].noted \/ q.id = r
    BY Zenon DEF SlotKnowledge
  <1> HIDE DEF q, v
  <1>8. at \in Sessions /\ r # NoId /\ r \in RequestIds
    BY OwnIsSession, ReachIsKnown, RequestIdsAssumption
  <1>9. mem \in States /\ now = 0 /\ q.id \in RequestIds \union {NoId}
    BY <1>2, <1>8 DEF AdapterOK
  <1>10. /\ Launched(mem, at) /\ mem.launches[at].registration = at /\ mem.launches[at].moveOn = a.slots[x].moveOn
         /\ at \in mem.registrations /\ mem.statements[at] = a.slots[x].log
         /\ r \in mem.replay[at] <=> a.slots[x].noted
    BY <1>3, KnownIsLaunched
  <1>11. AuthStatus(mem, q.token, at, now) = 200 /\ q.token # NoToken
    BY <1>3, <1>9, HeldTokenOpens, HeldIsExchanged
  <1>12. at \notin mem.abandoned
    BY <1>3 DEF Holds
  <1>13. ~IsReplay(mem, at, q.id)
    BY <1>2, <1>10 DEF IsReplay
  <1>14. AcceptsVerb(mem.launches[at].moveOn, mem.statements[at], q.verb)
    BY <1>2, <1>10
  <1>15. Handled(s) = Accept(Ok, saved, <<mem, noted, saved>>)
    BY <1>3, <1>4, <1>10, <1>11, <1>12, <1>13, <1>14, ZenonT(40) DEF PostStatement
  <1> HIDE DEF at
  <1>16. noted \in States
    BY <1>8, <1>9, RecordReplayType
  <1>17. /\ noted.access = mem.access /\ noted.launches = mem.launches /\ noted.statements = mem.statements
         /\ noted.abandoned = mem.abandoned /\ noted.waived = mem.waived
    BY <1>8, <1>9, RecordReplayFields
  <1>18. /\ noted.packages = mem.packages /\ noted.registrations = mem.registrations
         /\ \A y \in Sessions \ {at} : noted.replay[y] = mem.replay[y]
         /\ r \in noted.replay[at] <=> r \in mem.replay[at] \/ q.id = r
    BY <1>8, <1>9, FieldTypes DEF RecordReplay, States
  <1> HIDE DEF noted
  <1>19. /\ saved.access = noted.access /\ saved.launches = noted.launches /\ saved.replay = noted.replay
         /\ saved.abandoned = noted.abandoned /\ saved.waived = noted.waived
         /\ saved.statements[at] = Append(noted.statements[at], q.verb)
         /\ \A y \in Sessions \ {at} : saved.statements[y] = noted.statements[y]
    BY <1>8, <1>16, AppendStatementFields
  <1>20. saved.packages = noted.packages /\ saved.registrations = noted.registrations
    BY <1>16 DEF AppendStatement, States
  <1> HIDE DEF saved
  <1>21. Handled(s).after = saved /\ Handled(s).reply = Ok
    BY <1>15 DEF Accept
  <1>22. \A y \in Slots \ {x} : SameSlot(r, mem, saved, y)
    <2>1. \A y \in Slots \ {x} : Own(r, y) # at
      BY DEF Own, at
    <2> QED BY <1>17, <1>18, <1>19, <1>20, <2>1, OwnIsSession DEF SameSlot
  <1>23. mem.access[at].consumed /\ mem.access[at].token = TokenOf(r, x) /\ mem.access[at].authExpires > 0
    BY <1>3, HeldIsExchanged DEF at
  <1>24. SlotHolds(r, saved, x, v)
    <2>1. r \in saved.replay[at] <=> v.noted
      BY <1>7, <1>10, <1>18, <1>19
    <2>2. saved.statements[at] = v.log
      BY <1>6, <1>10, <1>17, <1>19
    <2> QED BY <1>6, <1>10, <1>17, <1>18, <1>19, <1>20, <1>23, <2>1, <2>2 DEF SlotHolds, at
  <1>25. Holds(r, saved, b)
    <2>1. /\ b.imported => PackageId[r] \in saved.packages
          /\ \A y \in Slots : Own(r, y) \in saved.abandoned <=> y \in b.gone
          /\ saved.waived[Own(r, "initial")] = IF b.waived THEN 0 ELSE Never
      BY <1>5, <1>17, <1>18, <1>19, <1>20 DEF Holds
    <2> QED BY <1>5, <1>22, <1>24, <2>1, OneSlotChanged
  <1>26. Fits(Seen(Ok), Ok)
    <2>1. "status" \in DOMAIN Ok /\ Ok.status = 200 /\ "verbs" \notin DOMAIN Ok
      BY DEF Ok
    <2> QED BY <2>1, OkSeen
  <1> QED BY <1>1, <1>21, <1>25, <1>26 DEF Answers

(* Whatever is known to answer a call does, and what is known after it is  *)
(* true of the adapter it leaves.                                          *)
LEMMA OutcomeAnswers ==
  ASSUME FetchTtl > 0, AuthTtl > 0, AdapterOK, NEW r \in Runners, NEW a, Knows(a), Holds(r, mem, a),
         NEW s, NEW shown, NEW b, Outcome(r, a, s, shown, b)
  PROVE  Answers(r, Handled(s), shown, b)
  <1>1. CASE \E code : RefusedAs(r, a, s, code) /\ shown = Status(code) /\ b = AfterSeeing(a, shown)
    <2>1. PICK code : RefusedAs(r, a, s, code) /\ shown = Status(code) /\ b = AfterSeeing(a, shown)
      BY <1>1
    <2>2. Handled(s).after = mem /\ Handled(s).reply = shown
      BY <2>1, RefusedAsExpected DEF Refuses
    <2>3. Fits(shown, shown) /\ "verbs" \notin DOMAIN shown
      BY <2>1 DEF Fits, Status
    <2>4. Fits(Seen(shown), shown)
      BY <2>3, SeenPlainly
    <2> QED BY <2>1, <2>2, <2>4, NothingAnswers
  <1>2. CASE Told(r, a, s, shown) /\ b = AfterSeeing(a, shown)
    <2>1. s.op \in {"fixtures", "reload", "launch", "data", "get", "waive"}
      BY <1>2 DEF Told
    <2> QED BY <1>2, <2>1, FixturesAnswer, ReloadAnswers, ExplicitAnswers, DataAnswers, GetAnswers, WaivedAnswers
  <1>3. CASE Done(r, a, s, shown, b)
    BY <1>3, ImportAnswers, LaunchAnswers, ResumeAnswers, FetchAnswers, PostAnswers, WaiveAnswers, AbandonAnswers
       DEF Done
  <1> QED BY <1>1, <1>2, <1>3 DEF Outcome

(***************************************************************************)
(* What is known stays true of the run                                     *)
(***************************************************************************)

(* What a run can have learnt from a call. *)
LEMMA OutcomeLearns ==
  ASSUME NEW r, NEW a, NEW s, NEW shown, NEW b, Outcome(r, a, s, shown, b)
  PROVE  /\ b.seen = shown
         /\ "status" \in DOMAIN shown
         /\ b.waived => a.waived \/ (s.date = "first" /\ shown.status = 200)
         /\ \A x \in b.called \ a.called : s.op = "launch" /\ shown.status = 200 /\ s.q.session = Own(r, x)
         /\ \A x \in b.tokens \ a.tokens : s.op = "fetch" /\ shown.status = 200 /\ s.q.session = Own(r, x)
  <1>1. CASE b = AfterSeeing(a, shown) /\ "status" \in DOMAIN shown
    BY <1>1 DEF AfterSeeing, Know
  <1>2. CASE Done(r, a, s, shown, b)
    <2>1. CASE ImportDone(r, a, s, shown, b)
      BY <2>1 DEF ImportDone, AfterImport, Know, Ok
    <2>2. CASE LaunchDone(r, a, s, shown, b)
      BY <2>2 DEF LaunchDone, AfterLaunch, Know
    <2>3. CASE ResumeDone(r, a, s, shown, b)
      BY <2>3 DEF ResumeDone, AfterLaunch, Know
    <2>4. CASE FetchDone(r, a, s, shown, b)
      BY <2>4 DEF FetchDone, AfterFetch, Know, Ok
    <2>5. CASE PostDone(r, a, s, shown, b)
      BY <2>5 DEF PostDone, AfterPost, Know, Ok
    <2>6. CASE WaiveDone(r, a, s, shown, b)
      BY <2>6 DEF WaiveDone, AfterWaive, Know
    <2>7. CASE AbandonDone(r, a, s, shown, b)
      BY <2>7 DEF AbandonDone, AfterAbandon, Know, Ok
    <2> QED BY <1>2, <2>1, <2>2, <2>3, <2>4, <2>5, <2>6, <2>7 DEF Done
  <1>3. CASE \E code : shown = Status(code) /\ b = AfterSeeing(a, shown)
    BY <1>1, <1>3 DEF Status
  <1>4. CASE Told(r, a, s, shown) /\ b = AfterSeeing(a, shown)
    <2>1. "status" \in DOMAIN shown
      BY <1>4 DEF Told, Ok
    <2> QED BY <1>1, <1>4, <2>1
  <1> QED BY <1>2, <1>3, <1>4 DEF Outcome

LEMMA SeenShows ==
  ASSUME NEW reply, NEW shown, Fits(Seen(reply), shown), NEW f \in DOMAIN shown, f \notin {"count", "terminated"}
  PROVE  f \in DOMAIN reply /\ reply[f] = shown[f]
  <1>1. f \in DOMAIN Seen(reply) /\ Seen(reply)[f] = shown[f]
    BY DEF Fits
  <1>2. CASE "verbs" \in DOMAIN reply
    <2>1. f \in DOMAIN reply
      BY <1>1, <1>2 DEF Seen
    <2>2. Seen(reply)[f] = reply[f]
      BY <1>2, <2>1 DEF Seen
    <2> QED BY <1>1, <2>1, <2>2
  <1>3. CASE "verbs" \notin DOMAIN reply
    BY <1>1, <1>3 DEF Seen
  <1> QED BY <1>2, <1>3

Good200(reply) == "status" \in DOMAIN reply /\ reply.status = 200

(* What a run keeps of a reply. *)
Learnt(run, step, reply, t) ==
    /\ t.failing = FailingAfter(run, step, reply)
    /\ t.reply = reply
    /\ t.launched = IF Good200(reply) /\ step.op = "launch"
                    THEN run.launched \union {step.q.session[2]} ELSE run.launched
    /\ t.held = IF Good200(reply) /\ step.op = "fetch"
                THEN run.held \union {step.q.session[2]} ELSE run.held
    /\ t.waivedAt = IF Good200(reply) /\ step.date = "first" THEN reply.waivedAt ELSE run.waivedAt

LEMMA AfterReplyLearns ==
  ASSUME NEW run, DOMAIN run = RunFields, NEW step, NEW reply
  PROVE  Learnt(run, step, reply, AfterReply(run, step, reply))
  BY DEF AfterReply, RunFields, FailingAfter, Good200, Learnt

(* A call that what is known answers for: it can be made, it fails nothing, *)
(* and what is known after it is true of the adapter and of the run.       *)
LEMMA GoodCall ==
  ASSUME FetchTtl > 0, AuthTtl > 0, AdapterOK, NEW r \in Runners, NEW a, Knows(a), Holds(r, mem, a),
         NEW run, DOMAIN run = RunFields, RunHolds(run, a),
         NEW E, NEW s, s.op # "read", NEW b, Good(E, r, a, s, b),
         NEW t, t = AfterReply(run, s, Handled(s).reply)
  PROVE  Holds(r, Handled(s).after, b) /\ RunHolds(t, b) /\ t.failing = run.failing
  <1> DEFINE reply == Handled(s).reply
  <1>1. PICK shown : Outcome(r, a, s, shown, b) /\ Fits(shown, s.expect) /\ DateFits(a, s, shown)
    BY DEF Good
  <1>2. Holds(r, Handled(s).after, b) /\ Fits(Seen(reply), shown)
    BY <1>1, OutcomeAnswers DEF Answers
  <1> HIDE DEF reply
  <1>3. /\ b.seen = shown
        /\ "status" \in DOMAIN shown
        /\ b.waived => a.waived \/ (s.date = "first" /\ shown.status = 200)
        /\ \A x \in b.called \ a.called : s.op = "launch" /\ shown.status = 200 /\ s.q.session = Own(r, x)
        /\ \A x \in b.tokens \ a.tokens : s.op = "fetch" /\ shown.status = 200 /\ s.q.session = Own(r, x)
    BY <1>1, OutcomeLearns
  <1>4. "status" \in DOMAIN reply /\ reply.status = shown.status
    BY <1>2, <1>3, SeenShows
  <1>5. "waivedAt" \in DOMAIN shown => reply.waivedAt = shown.waivedAt
    BY <1>2, SeenShows
  <1>6. /\ a.called \subseteq run.launched /\ a.tokens \subseteq run.held
        /\ a.waived => run.waivedAt = 0
    BY DEF RunHolds
  <1>7. Meets(run, s, reply)
    <2>1. \A f \in DOMAIN s.expect : f \in DOMAIN Seen(reply) /\ Seen(reply)[f] = s.expect[f]
      BY <1>1, <1>2 DEF Fits
    <2>2. s.date = "same" => reply.status = 200 /\ reply.waivedAt = run.waivedAt
      BY <1>1, <1>4, <1>5, <1>6 DEF DateFits
    <2> QED BY <2>1, <2>2 DEF Meets
  <1>8. /\ t.failing = run.failing
        /\ t.reply = reply
        /\ t.launched = IF Good200(reply) /\ s.op = "launch"
                        THEN run.launched \union {s.q.session[2]} ELSE run.launched
        /\ t.held = IF Good200(reply) /\ s.op = "fetch"
                    THEN run.held \union {s.q.session[2]} ELSE run.held
        /\ t.waivedAt = IF Good200(reply) /\ s.date = "first" THEN reply.waivedAt ELSE run.waivedAt
    <2>1. t = AfterReply(run, s, reply)
      BY DEF reply
    <2>2. FailingAfter(run, s, reply) = run.failing
      BY <1>7 DEF FailingAfter
    <2>3. Learnt(run, s, reply, t)
      BY <2>1, AfterReplyLearns
    <2> QED BY <2>2, <2>3 DEF Learnt
  <1>9. \A x : Own(r, x)[2] = x
    BY DEF Own
  <1>10. b.called \subseteq t.launched
    <2> SUFFICES ASSUME NEW x \in b.called PROVE x \in t.launched
      OBVIOUS
    <2> QED BY <1>3, <1>4, <1>6, <1>8, <1>9 DEF Good200
  <1>11. b.tokens \subseteq t.held
    <2> SUFFICES ASSUME NEW x \in b.tokens PROVE x \in t.held
      OBVIOUS
    <2> QED BY <1>3, <1>4, <1>6, <1>8, <1>9 DEF Good200
  <1>12. b.waived => t.waivedAt = 0
    <2>1. s.date = "first" => reply.waivedAt = 0
      BY <1>1, <1>5 DEF DateFits
    <2> QED BY <1>3, <1>4, <1>6, <1>8, <2>1 DEF Good200
  <1>13. RunHolds(t, b)
    BY <1>2, <1>3, <1>8, <1>10, <1>11, <1>12 DEF RunHolds
  <1> QED BY <1>2, <1>8, <1>13

(* Another look at the last reply. *)
LEMMA GoodRead ==
  ASSUME NEW r, NEW a, NEW run, DOMAIN run = RunFields, RunHolds(run, a),
         NEW E, NEW s, s.op = "read", NEW b, Good(E, r, a, s, b),
         NEW t, t = AfterReply(run, s, run.reply)
  PROVE  b = a /\ RunHolds(t, b) /\ t.failing \subseteq run.failing \union E
  <1>1. b = a /\ s.date = "free" /\ (Fits(a.seen, s.expect) \/ s.feeds \subseteq E)
    BY DEF Good
  <1>2. /\ t.failing = FailingAfter(run, s, run.reply)
        /\ t.reply = run.reply /\ t.launched = run.launched /\ t.held = run.held /\ t.waivedAt = run.waivedAt
    <2>1. Learnt(run, s, run.reply, t)
      BY AfterReplyLearns
    <2> QED BY <1>1, <2>1 DEF Learnt
  <1>3. RunHolds(t, a)
    BY <1>2 DEF RunHolds
  <1>4. Fits(a.seen, s.expect) => Meets(run, s, run.reply)
    BY <1>1 DEF RunHolds, Fits, Meets
  <1> QED BY <1>1, <1>2, <1>3, <1>4 DEF FailingAfter

LEMMA AbleCanCall ==
  ASSUME NEW a, NEW run, RunHolds(run, a), NEW s, Able(a, s)
  PROVE  CanCall(run, s)
  BY DEF RunHolds, Able, CanCall

(***************************************************************************)
(* A run with a good package follows its route                             *)
(***************************************************************************)
GoodScript(r, offers) == ScriptOf(r, offers, GoodPackage)
RouteOf(r, offers) == CHOOSE p : Route(ExcusedBy(offers), r, GoodScript(r, offers), Start, p)

(* The checks with a verdict when the first n steps are over. *)
ClosedBy(S, n) == UNION {S[i].closes \union S[i].skips : i \in 1 .. n}

OnRoute(r, run, offers, st) ==
    /\ run.pc \in 1 .. Len(GoodScript(r, offers)) + 1
    /\ Holds(r, st, RouteOf(r, offers)[run.pc - 1])
    /\ RunHolds(run, RouteOf(r, offers)[run.pc - 1])
    /\ DOMAIN run.verdicts = ClosedBy(GoodScript(r, offers), run.pc - 1)

Follows(r, run, offers, st) ==
    /\ run.failing \subseteq ExcusedBy(offers)
    /\ run.stage \in {"preflight", "running"} => OnRoute(r, run, offers, st)
    /\ run.stage = "reported" =>
         DOMAIN run.verdicts = ClosedBy(GoodScript(r, offers), Len(GoodScript(r, offers)))

Following == \A r \in Runners : runs[r].upload = GoodPackage => Follows(r, runs[r], advertised, mem)

LEMMA RouteIs ==
  ASSUME NEW r \in Runners, NEW offers
  PROVE  /\ Route(ExcusedBy(offers), r, GoodScript(r, offers), Start, RouteOf(r, offers))
         /\ Len(GoodScript(r, offers)) \in Nat
         /\ DOMAIN GoodScript(r, offers) = 1 .. Len(GoodScript(r, offers))
  <1> DEFINE S == GoodScript(r, offers)
  <1>1. PICK b : Goes(ExcusedBy(offers), r, S, Start, b)
    BY ScriptGoes DEF Comes, GoodScript
  <1> HIDE DEF S
  <1>2. \E p : Route(ExcusedBy(offers), r, S, Start, p)
    BY <1>1 DEF Goes
  <1>3. Len(S) \in Nat /\ DOMAIN S = 1 .. Len(S)
    BY <1>1, SeqDomain DEF Goes
  <1> QED BY <1>2, <1>3 DEF S, RouteOf

LEMMA ClosedByOneMore ==
  ASSUME NEW S, NEW n \in Nat \ {0}
  PROVE  ClosedBy(S, n) = ClosedBy(S, n - 1) \union S[n].closes \union S[n].skips
  <1>1. \A i \in 1 .. n : i \in 1 .. n - 1 \/ i = n
    OBVIOUS
  <1>2. 1 .. n - 1 \subseteq 1 .. n /\ n \in 1 .. n
    OBVIOUS
  <1> QED BY <1>1, <1>2 DEF ClosedBy

LEMMA RecordedDomain ==
  ASSUME NEW run, NEW step, NEW failing
  PROVE  DOMAIN Recorded(run, step, failing) = DOMAIN run.verdicts \union step.closes \union step.skips
  BY DEF Recorded

(* The next step of a run that is on its route. *)
LEMMA NextIsGood ==
  ASSUME NEW r \in Runners, NEW offers, NEW S, S = GoodScript(r, offers), NEW p, p = RouteOf(r, offers),
         NEW n \in 1 .. Len(S)
  PROVE  /\ Good(ExcusedBy(offers), r, p[n - 1], S[n], p[n])
         /\ Knows(p[n - 1])
  <1>1. Route(ExcusedBy(offers), r, S, Start, p) /\ Len(S) \in Nat
    BY RouteIs
  <1>2. n - 1 \in 0 .. Len(S)
    BY <1>1
  <1> QED BY <1>1, <1>2 DEF Route

(* One step further, whatever the step was. *)
LEMMA FurtherOnRoute ==
  ASSUME NEW r \in Runners, NEW offers, NEW S, S = GoodScript(r, offers), NEW p, p = RouteOf(r, offers),
         NEW run, DOMAIN run = RunFields, run.pc \in 1 .. Len(S), run.stage = "running",
         DOMAIN run.verdicts = ClosedBy(S, run.pc - 1),
         NEW reply, NEW t, t = AfterReply(run, S[run.pc], reply),
         NEW st, Holds(r, st, p[run.pc]), RunHolds(t, p[run.pc]), t.failing \subseteq ExcusedBy(offers)
  PROVE  Follows(r, t, offers, st)
  <1> DEFINE n == run.pc
             s == S[n]
  <1>1. Len(S) \in Nat
    BY RouteIs
  <1>2. t.pc = n + 1 /\ t.stage = "running" /\ t.verdicts = Recorded(run, s, FailingAfter(run, s, reply))
    BY AfterReplyFields DEF Advanced
  <1>3. n \in Nat \ {0} /\ t.pc - 1 = n /\ t.pc \in 1 .. Len(S) + 1
    BY <1>1, <1>2
  <1> HIDE DEF n
  <1>4. DOMAIN t.verdicts = ClosedBy(S, n)
    <2> DEFINE failing == FailingAfter(run, s, reply)
               recorded == Recorded(run, s, failing)
    <2> HIDE DEF s, failing
    <2>1. DOMAIN recorded = DOMAIN run.verdicts \union s.closes \union s.skips
      BY RecordedDomain
    <2>3. t.verdicts = recorded
      BY <1>2 DEF s, failing
    <2>2. ClosedBy(S, n) = ClosedBy(S, n - 1) \union s.closes \union s.skips
      BY <1>3, ClosedByOneMore DEF s
    <2> HIDE DEF recorded
    <2> QED BY <2>1, <2>2, <2>3 DEF n
  <1>5. Holds(r, st, p[n]) /\ RunHolds(t, p[n])
    BY DEF n
  <1> QED BY <1>2, <1>3, <1>4, <1>5 DEF Follows, OnRoute

LEMMA FollowsCall ==
  ASSUME FetchTtl > 0, AuthTtl > 0, AdapterOK, NEW r \in Runners, NEW offers, NEW S, S = GoodScript(r, offers),
         NEW run, DOMAIN run = RunFields, run.stage = "running", run.pc <= Len(S), Follows(r, run, offers, mem),
         NEW s, s = S[run.pc], s.op # "read", NEW t, t = AfterReply(run, s, Handled(s).reply)
  PROVE  Follows(r, t, offers, Handled(s).after)
  <1> DEFINE n == run.pc
             p == RouteOf(r, offers)
             E == ExcusedBy(offers)
  <1>1. /\ n \in 1 .. Len(S) + 1 /\ Holds(r, mem, p[n - 1]) /\ RunHolds(run, p[n - 1])
        /\ DOMAIN run.verdicts = ClosedBy(S, n - 1) /\ run.failing \subseteq E
    BY DEF Follows, OnRoute
  <1>2. Len(S) \in Nat
    BY RouteIs
  <1>3. n \in 1 .. Len(S)
    BY <1>1, <1>2
  <1>4. Good(E, r, p[n - 1], s, p[n]) /\ Knows(p[n - 1])
    BY <1>3, NextIsGood
  <1> DEFINE a == p[n - 1]
             b == p[n]
  <1>5. Holds(r, mem, a) /\ RunHolds(run, a) /\ Knows(a) /\ Good(E, r, a, s, b)
    BY <1>1, <1>4
  <1> HIDE DEF a, b, E
  <1>6. Holds(r, Handled(s).after, b) /\ RunHolds(t, b) /\ t.failing = run.failing
    BY <1>5, GoodCall
  <1>7. Holds(r, Handled(s).after, p[n]) /\ RunHolds(t, p[n]) /\ t.failing \subseteq E
    BY <1>1, <1>6 DEF b
  <1> HIDE DEF p
  <1> DEFINE st == Handled(s).after
             reply == Handled(s).reply
  <1>8. t = AfterReply(run, S[run.pc], reply) /\ Holds(r, st, p[run.pc]) /\ RunHolds(t, p[run.pc])
        /\ t.failing \subseteq ExcusedBy(offers) /\ run.pc \in 1 .. Len(S)
        /\ DOMAIN run.verdicts = ClosedBy(S, run.pc - 1) /\ p = RouteOf(r, offers)
    BY <1>1, <1>3, <1>7 DEF p, E
  <1> HIDE DEF st, reply
  <1>9. Follows(r, t, offers, st)
    BY <1>8, FurtherOnRoute
  <1> QED BY <1>9 DEF st

(* A step that is not a call is a read: the run has all it needs for it. *)
LEMMA FollowsRead ==
  ASSUME NEW r \in Runners, NEW offers, NEW S, S = GoodScript(r, offers), NEW st,
         NEW run, DOMAIN run = RunFields, run.stage = "running", run.pc <= Len(S), Follows(r, run, offers, st),
         NEW s, s = S[run.pc], ~(CanCall(run, s) /\ s.op # "read")
  PROVE  CanCall(run, s) /\ Follows(r, AfterReply(run, s, run.reply), offers, st)
  <1> DEFINE n == run.pc
             p == RouteOf(r, offers)
             E == ExcusedBy(offers)
             t == AfterReply(run, s, run.reply)
  <1>1. /\ n \in 1 .. Len(S) + 1 /\ Holds(r, st, p[n - 1]) /\ RunHolds(run, p[n - 1])
        /\ DOMAIN run.verdicts = ClosedBy(S, n - 1) /\ run.failing \subseteq E
    BY DEF Follows, OnRoute
  <1>2. Len(S) \in Nat
    BY RouteIs
  <1>3. n \in 1 .. Len(S)
    BY <1>1, <1>2
  <1>4. Good(E, r, p[n - 1], s, p[n])
    BY <1>3, NextIsGood
  <1> DEFINE a == p[n - 1]
             b == p[n]
  <1>5. Holds(r, st, a) /\ RunHolds(run, a) /\ Good(E, r, a, s, b)
    BY <1>1, <1>4
  <1> HIDE DEF a, b, E
  <1>6. CanCall(run, s)
    BY <1>5, AbleCanCall DEF Good
  <1>7. b = a /\ RunHolds(t, b) /\ t.failing \subseteq run.failing \union E
    <2>1. s.op = "read"
      BY <1>6
    <2> HIDE DEF t
    <2>2. t = AfterReply(run, s, run.reply)
      BY DEF t
    <2> QED BY <1>5, <2>1, <2>2, GoodRead
  <1>8. Holds(r, st, p[n]) /\ RunHolds(t, p[n]) /\ t.failing \subseteq E
    BY <1>1, <1>5, <1>7 DEF b
  <1> HIDE DEF p
  <1> DEFINE reply == run.reply
  <1>9. t = AfterReply(run, S[run.pc], reply) /\ Holds(r, st, p[run.pc]) /\ RunHolds(t, p[run.pc])
        /\ t.failing \subseteq ExcusedBy(offers) /\ run.pc \in 1 .. Len(S)
        /\ DOMAIN run.verdicts = ClosedBy(S, run.pc - 1) /\ p = RouteOf(r, offers)
    BY <1>1, <1>3, <1>8 DEF p, E
  <1> HIDE DEF t, reply
  <1>10. Follows(r, t, offers, st)
    BY <1>9, FurtherOnRoute
  <1> QED BY <1>6, <1>10 DEF t

LEMMA FollowsAtFirst ==
  ASSUME NEW r \in Runners, NEW offers, NEW upload
  PROVE  Follows(r, NewRun(upload), offers, EmptyState)
  <1> DEFINE run == NewRun(upload)
             S == GoodScript(r, offers)
             p == RouteOf(r, offers)
  <1>1. /\ run.stage = "preflight" /\ run.pc = 1 /\ run.launched = {} /\ run.held = {} /\ run.failing = {}
        /\ run.verdicts = <<>> /\ run.reply = <<>>
    BY DEF NewRun
  <1> HIDE DEF run
  <1>2. p[0] = Start /\ Len(S) \in Nat
    BY RouteIs DEF Route
  <1> HIDE DEF S, p
  <1>3. /\ Start.imported = FALSE /\ Start.waived = FALSE /\ Start.gone = {} /\ Start.called = {} /\ Start.tokens = {}
        /\ Start.seen = <<>> /\ \A x \in Slots : Start.slots[x] = Unknown
    BY DEF Start, Know
  <1>4. Holds(r, EmptyState, Start)
    <2>1. \A x \in Slots : SlotHolds(r, EmptyState, x, Start.slots[x])
      BY <1>3 DEF SlotHolds, Unknown, SlotKnowledge
    <2>2. EmptyState.abandoned = {}
      BY DEF EmptyState
    <2>3. EmptyState.waived[Own(r, "initial")] = Never
      <3>1. Own(r, "initial") \in Registrations
        BY OwnIsSession DEF Slots
      <3> QED BY <3>1 DEF EmptyState
    <2> QED BY <1>3, <2>1, <2>2, <2>3 DEF Holds
  <1>5. RunHolds(run, Start)
    <2>1. Fits(Seen(run.reply), Start.seen)
      BY <1>3 DEF Fits
    <2> QED BY <1>1, <1>3, <2>1 DEF RunHolds
  <1>6. DOMAIN run.verdicts = ClosedBy(S, 0)
    <2>1. 1 .. 0 = {}
      OBVIOUS
    <2>2. ClosedBy(S, 0) = {}
      BY <2>1 DEF ClosedBy
    <2> QED BY <1>1, <2>2
  <1>7. OnRoute(r, run, offers, EmptyState)
    <2>1. run.pc - 1 = 0 /\ run.pc \in 1 .. Len(S) + 1
      BY <1>1, <1>2
    <2> QED BY <1>2, <1>4, <1>5, <1>6, <2>1 DEF OnRoute, S, p
  <1> QED BY <1>1, <1>7 DEF Follows, run

LEMMA InitFollowing == RunnerInit => Following
  <1> SUFFICES ASSUME RunnerInit, NEW r \in Runners
               PROVE  Follows(r, runs[r], advertised, mem)
    BY DEF Following
  <1>1. PICK f \in [Runners -> Uploads] : runs = [x \in Runners |-> NewRun(f[x])]
    BY DEF RunnerInit
  <1>2. runs[r] = NewRun(f[r]) /\ mem = EmptyState
    BY <1>1 DEF RunnerInit, AdapterInit
  <1> QED BY <1>2, FollowsAtFirst

(* A run that does not move follows its route on what another run's call   *)
(* leaves, and when only its stage changes.                                *)
LEMMA StillFollows ==
  ASSUME NEW r \in Runners, NEW o \in Runners, r # o, NEW st, NEW t, Within(r, st, t),
         NEW run, NEW offers, Follows(o, run, offers, st)
  PROVE  Follows(o, run, offers, t)
  BY OthersKeepIt DEF Follows, OnRoute

LEMMA FollowsInStage ==
  ASSUME NEW r \in Runners, NEW offers, NEW st, NEW run, DOMAIN run = RunFields, Follows(r, run, offers, st),
         NEW stage,
         \/ run.stage = "preflight" /\ stage \in {"running", "refused"}
         \/ run.stage = "running" /\ run.pc > Len(GoodScript(r, offers)) /\ stage = "reported"
  PROVE  Follows(r, [run EXCEPT !.stage = stage], offers, st)
  <1> DEFINE t == [run EXCEPT !.stage = stage]
             n == Len(GoodScript(r, offers))
  <1>1. /\ t.stage = stage /\ t.failing = run.failing /\ t.pc = run.pc /\ t.verdicts = run.verdicts
        /\ t.launched = run.launched /\ t.held = run.held /\ t.waivedAt = run.waivedAt /\ t.reply = run.reply
    BY DEF RunFields
  <1> HIDE DEF t
  <1>2. \A a : RunHolds(run, a) => RunHolds(t, a)
    BY <1>1 DEF RunHolds
  <1>3. OnRoute(r, run, offers, st) => OnRoute(r, t, offers, st)
    BY <1>1, <1>2 DEF OnRoute
  <1>4. stage = "reported" => DOMAIN t.verdicts = ClosedBy(GoodScript(r, offers), n)
    <2> SUFFICES ASSUME stage = "reported" PROVE DOMAIN t.verdicts = ClosedBy(GoodScript(r, offers), n)
      OBVIOUS
    <2>1. run.stage = "running" /\ run.pc > n
      OBVIOUS
    <2>2. run.pc \in 1 .. n + 1 /\ DOMAIN run.verdicts = ClosedBy(GoodScript(r, offers), run.pc - 1)
      BY <2>1 DEF Follows, OnRoute
    <2>3. run.pc - 1 = n
      BY <2>1, <2>2, RouteIs
    <2> QED BY <1>1, <2>2, <2>3
  <1>5. Follows(r, t, offers, st)
    BY <1>1, <1>3, <1>4 DEF Follows
  <1> QED BY <1>5 DEF t

(* What one run's step does to the runs. *)
LEMMA OthersStay ==
  ASSUME RunsOK, NEW r \in Runners, NEW t, runs' = [runs EXCEPT ![r] = t]
  PROVE  runs'[r] = t /\ \A o \in Runners \ {r} : runs'[o] = runs[o]
  BY DEF RunsOK

LEMMA FollowingPreserved ==
  ASSUME TornWrites = FALSE, FetchTtl > 0, AuthTtl > 0
  PROVE  RunsOK /\ AdapterOK /\ Following /\ [RunnerNext]_runnerVars => Following'
  <1> SUFFICES ASSUME RunsOK, AdapterOK, Following, [RunnerNext]_runnerVars,
                      NEW r \in Runners, runs'[r].upload = GoodPackage
               PROVE  Follows(r, runs'[r], advertised', mem')
    BY DEF Following
  <1> DEFINE run == runs[r]
  <1>1. DOMAIN run = RunFields
    BY DEF RunsOK, RunOK
  <1>2. advertised' = advertised
    BY DEF RunnerNext, RunnerStep, Restart, Preflight, Call, Pass, CutOff, Finish, runnerVars
  <1>3. run.upload = GoodPackage => Follows(r, run, advertised, mem)
    BY DEF Following
  <1>4. \A o \in Runners : Call(o) \/ CutOff(o) => Within(o, mem, mem')
    BY AdapterStep
  <1>5. \A o \in Runners : Preflight(o) \/ Pass(o) \/ Finish(o) => mem' = mem
    BY DEF Preflight, Pass, Finish, adapterVars
  <1>6. CASE UNCHANGED runnerVars \/ Restart
    <2>1. runs' = runs /\ mem' = mem
      BY <1>6 DEF Restart, ReloadCall, AdapterOK, runnerVars, adapterVars
    <2> QED BY <1>2, <1>3, <2>1
  <1>7. ASSUME NEW o \in Runners, o # r, RunnerStep(o) \/ CutOff(o)
        PROVE  Follows(r, runs'[r], advertised', mem')
    <2>1. PICK t : runs' = [runs EXCEPT ![o] = t]
      BY <1>7 DEF RunnerStep, Preflight, Call, Pass, CutOff, Finish, RunsOK
    <2>2. runs'[r] = run
      BY <1>7, <2>1, OthersStay
    <2>3. Follows(r, run, advertised, mem)
      BY <1>3, <2>2
    <2>4. mem' = mem \/ Within(o, mem, mem')
      BY <1>4, <1>5, <1>7 DEF RunnerStep
    <2> QED BY <1>2, <1>7, <2>2, <2>3, <2>4, StillFollows
  <1>8. CASE Preflight(r)
    <2> DEFINE stage == IF RequiredOperations \subseteq advertised THEN "running" ELSE "refused"
               t == [run EXCEPT !.stage = stage]
    <2>1. run.stage = "preflight" /\ runs'[r] = t /\ mem' = mem
      <3>1. runs' = [runs EXCEPT ![r] = t]
        BY <1>8 DEF Preflight, RunsOK
      <3> QED BY <1>5, <1>8, <3>1, OthersStay DEF Preflight
    <2>2. stage \in {"running", "refused"}
      OBVIOUS
    <2>3. t.upload = run.upload
      BY <1>1 DEF RunFields
    <2>4. Follows(r, run, advertised, mem)
      BY <1>3, <2>1, <2>3
    <2> HIDE DEF stage, run
    <2>5. Follows(r, t, advertised, mem)
      BY <1>1, <2>1, <2>2, <2>4, FollowsInStage
    <2> QED BY <1>2, <2>1, <2>5
  <1>9. CASE Finish(r)
    <2> DEFINE t == [run EXCEPT !.stage = "reported"]
    <2>1. run.stage = "running" /\ runs'[r] = t /\ mem' = mem /\ run.pc > Len(Script(r))
      <3>1. runs' = [runs EXCEPT ![r] = t]
        BY <1>9 DEF Finish, RunsOK
      <3> QED BY <1>5, <1>9, <3>1, OthersStay DEF Finish
    <2>2. run.upload = GoodPackage
      BY <1>1, <2>1 DEF RunFields
    <2>3. Follows(r, run, advertised, mem) /\ Script(r) = GoodScript(r, advertised)
      BY <1>3, <2>2, ScriptOfRun DEF GoodScript
    <2> HIDE DEF run
    <2>4. Follows(r, t, advertised, mem)
      BY <1>1, <2>1, <2>3, FollowsInStage
    <2> QED BY <1>2, <2>1, <2>4
  <1>10. CASE CutOff(r)
    <2> DEFINE n == NewRun(run.upload)
               t == [n EXCEPT !.stage = "rejected"]
    <2>1. runs'[r] = t
      <3>1. runs' = [runs EXCEPT ![r] = t]
        BY <1>10 DEF CutOff, RunsOK
      <3> QED BY <3>1, OthersStay
    <2>2. n.failing = {} /\ DOMAIN n = RunFields
      BY DEF NewRun, RunFields
    <2> HIDE DEF n
    <2>3. t.failing = {} /\ t.stage = "rejected"
      BY <2>2 DEF RunFields
    <2> HIDE DEF t
    <2>4. Follows(r, t, advertised', mem')
      BY <2>3 DEF Follows
    <2> QED BY <2>1, <2>4
  <1>11. CASE Call(r) \/ Pass(r)
    <2> DEFINE S == GoodScript(r, advertised)
               s == Current(r)
               answered == AfterReply(run, s, Handled(s).reply)
               reread == AfterReply(run, s, run.reply)
    <2>1. run.stage = "running" /\ run.pc <= Len(Script(r))
      BY <1>11 DEF Call, AtCall, Pass
    <2>2. run.upload = GoodPackage
      <3>1. PICK reply : \/ runs' = [runs EXCEPT ![r] = AfterReply(run, s, reply)]
                         \/ runs' = [runs EXCEPT ![r] = WithoutCall(run, s)]
        BY <1>11 DEF Call, Pass, RunsOK
      <3>2. runs'[r] = AfterReply(run, s, reply) \/ runs'[r] = WithoutCall(run, s)
        BY <3>1, OthersStay
      <3> QED BY <1>1, <3>2, AfterReplyFields, WithoutCallFields DEF Advanced
    <2>3. Follows(r, run, advertised, mem) /\ Script(r) = S /\ s = S[run.pc]
      BY <1>3, <2>2, ScriptOfRun DEF GoodScript, Current
    <2>4. run.pc <= Len(S)
      BY <2>1, <2>3
    <2>5. AtCall(r) <=> CanCall(run, s) /\ s.op # "read"
      BY <2>1, <2>3 DEF AtCall
    <2>6. CASE Call(r)
      <3>1. s.op # "read" /\ mem' = Handled(s).after /\ runs' = [runs EXCEPT ![r] = answered]
        BY <1>11, <2>5, <2>6 DEF Call, Answer, RunsOK
      <3>2. runs'[r] = answered
        BY <3>1, OthersStay
      <3> HIDE DEF s, run, S
      <3>3. Follows(r, answered, advertised, Handled(s).after)
        <4> HIDE DEF answered
        <4>1. answered = AfterReply(run, s, Handled(s).reply) /\ S = GoodScript(r, advertised)
          BY DEF answered, S
        <4> QED BY <1>1, <2>1, <2>3, <2>4, <3>1, <4>1, FollowsCall
      <3> QED BY <1>2, <3>1, <3>2, <3>3
    <2>7. CASE Pass(r)
      <3>1. ~(CanCall(run, s) /\ s.op # "read")
        BY <2>5, <2>7 DEF Pass
      <3>2. CanCall(run, s) /\ Follows(r, reread, advertised, mem)
        <4> HIDE DEF s, run
        <4> QED BY <1>1, <2>1, <2>3, <2>4, <3>1, FollowsRead
      <3>3. runs' = [runs EXCEPT ![r] = reread]
        BY <2>7, <3>2 DEF Pass, RunsOK
      <3>4. runs'[r] = reread /\ mem' = mem
        BY <1>5, <2>7, <3>3, OthersStay
      <3> QED BY <1>2, <3>2, <3>4
    <2> QED BY <1>11, <2>6, <2>7
  <1>12. UNCHANGED runnerVars \/ Restart \/ \E o \in Runners : RunnerStep(o) \/ CutOff(o)
    BY DEF RunnerNext
  <1> QED BY <1>6, <1>7, <1>8, <1>9, <1>10, <1>11, <1>12 DEF RunnerStep

LEMMA FollowingSuffices ==
  RunsOK /\ Following => RunsDoNotInterfere
  <1> SUFFICES ASSUME RunsOK, Following, NEW r \in Runners, runs[r].upload = GoodPackage
               PROVE  /\ runs[r].failing \subseteq Excused
                      /\ runs[r].stage = "reported" => DOMAIN runs[r].verdicts = ChecksOf(r)
    BY DEF RunsDoNotInterfere
  <1> DEFINE S == GoodScript(r, advertised)
  <1>1. Follows(r, runs[r], advertised, mem)
    BY DEF Following
  <1>2. Script(r) = S
    BY ScriptOfRun DEF GoodScript
  <1>3. DOMAIN S = 1 .. Len(S)
    BY RouteIs
  <1> HIDE DEF S
  <1>4. ChecksOf(r) = ClosedBy(S, Len(S))
    BY <1>2, <1>3 DEF ChecksOf, ClosedBy
  <1> QED BY <1>1, <1>4 DEF Follows, Excused, ExcusedBy, S

(* A run with a package the adapter takes records no failure and leaves    *)
(* out no check, for any number of runs on the adapter, whatever they do   *)
(* in between, whichever of them was cut off half way and however often    *)
(* the adapter restarted.  (Runs are shorter than the life of a token,     *)
(* which must therefore not be nothing; and a crash that leaves half a     *)
(* file loses what every run had done.)                                    *)
THEOREM GoodRunsDoNotFail ==
  TornWrites = FALSE /\ FetchTtl > 0 /\ AuthTtl > 0 => (RunnerSpec => []RunsDoNotInterfere)
  <1> SUFFICES ASSUME TornWrites = FALSE, FetchTtl > 0, AuthTtl > 0
               PROVE  RunnerSpec => []RunsDoNotInterfere
    OBVIOUS
  <1> DEFINE Inv == RunsOK /\ AdapterOK /\ Following
  <1>1. RunnerInit => Inv
    BY RunsInit, InitAdapterOK, InitFollowing DEF RunnerInit
  <1>2. Inv /\ [RunnerNext]_runnerVars => Inv'
    BY RunsPreserved, AdapterStep, FollowingPreserved
  <1>3. Inv => RunsDoNotInterfere
    BY FollowingSuffices
  <1> HIDE DEF Inv
  <1> QED BY <1>1, <1>2, <1>3, PTL DEF RunnerSpec
=============================================================================
