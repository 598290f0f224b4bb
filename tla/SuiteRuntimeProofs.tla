------------------------- MODULE SuiteRuntimeProofs -------------------------
(***************************************************************************)
(* The walk of the suite tree, for every tree, every selection and every   *)
(* placing of hooks, whatever fails, throws late or never settles: it is   *)
(* always at an item of a path of the tree; with bail nothing is started   *)
(* after the first failure; a case runs only behind hooks that passed; the *)
(* summary, the tree and the record of failures agree; and success is      *)
(* reported only for a run that failed nowhere.                            *)
(*                                                                         *)
(* None of them is inductive.  That bail stops the run does not follow     *)
(* from the guard on cases, for a hook is started without looking at       *)
(* cancelRemaining: it holds because hooks come first in a suite, so that  *)
(* whoever cancels the run has left those of every suite entered behind    *)
(* (BailGuard).  The others rest on what is still ahead of the path        *)
(* (Ahead): all of it is fresh, it is apart from everything the walk has   *)
(* been through, and a selected case without a verdict is in it (Course,   *)
(* Reached).                                                               *)
(***************************************************************************)
EXTENDS SuiteRuntime, FiniteSetTheorems, SequenceTheorems, TLAPS

(***************************************************************************)
(* The tree.  What lies above and below a node, for every finite tree.     *)
(***************************************************************************)

LEMMA ParentType ==
  /\ \A n \in Nodes \ {Root} : Parent(n) \in Suites /\ n \in ToSet(Children[Parent(n)])
  /\ \A s \in Suites : \A n \in ToSet(Children[s]) : n \in Nodes \ {Root} /\ Parent(n) = s
  <1>1. ASSUME NEW n \in Nodes \ {Root}
        PROVE  \E s \in Suites : {t \in Suites : n \in ToSet(Children[t])} = {s}
    <2> DEFINE parents == {s \in Suites : n \in ToSet(Children[s])}
    <2>1. IsFiniteSet(parents) /\ Cardinality(parents) = 1
      BY TreeAssumption, FS_Subset
    <2> HIDE DEF parents
    <2>2. PICK s : parents = {s}
      BY <2>1, FS_Singleton
    <2> USE DEF parents
    <2> QED BY <2>2
  <1>2. ASSUME NEW n \in Nodes \ {Root}
        PROVE  Parent(n) \in Suites /\ n \in ToSet(Children[Parent(n)])
    <2>1. \E s : s \in Suites /\ n \in ToSet(Children[s])
      BY <1>1
    <2> QED BY <2>1 DEF Parent
  <1>3. ASSUME NEW s \in Suites, NEW n \in ToSet(Children[s])
        PROVE  n \in Nodes \ {Root} /\ Parent(n) = s
    <2>1. Children[s] \in Seq(Nodes) /\ Root \notin ToSet(Children[s])
      BY TreeAssumption
    <2>2. n \in Nodes \ {Root}
      BY <2>1 DEF ToSet
    <2> QED BY <1>1, <1>2, <2>2
  <1> QED BY <1>2, <1>3

(* Walking up from a set of nodes, one leaves it or comes to the root.      *)
LEMMA WayUp ==
  ASSUME NEW C, C \subseteq Nodes, C # {}
  PROVE  \E n \in C : n = Root \/ Parent(n) \notin C
  BY TreeAssumption

(* Above is what its definition says: the sets that hold the parent of each *)
(* of their members give one solution of it.                                *)
LEMMA AboveIs ==
  \A n \in Nodes : Above[n] = IF n = Root THEN {} ELSE {Parent(n)} \union Above[Parent(n)]
  <1> DEFINE Closed(C) == \A m \in C : m # Root => Parent(m) \in C
             hull(n) == {s \in Suites : \A C \in SUBSET Nodes : n \in C /\ Closed(C) => s \in C}
             up == [n \in Nodes |-> IF n = Root THEN {} ELSE hull(Parent(n))]
  <1>1. ASSUME NEW s \in Suites
        PROVE  hull(s) = {s} \union up[s]
    <2>1. s \in Nodes
      BY DEF Nodes
    <2>2. s \in hull(s)
      OBVIOUS
    <2>3. up[s] \subseteq hull(s)
      BY <2>1
    <2>4. hull(s) \subseteq {s} \union up[s]
      <3>1. CASE s = Root
        <4>1. {Root} \subseteq Nodes /\ Closed({Root})
          BY <2>1, <3>1
        <4> QED BY <3>1, <4>1
      <3>2. CASE s # Root
        <4> SUFFICES ASSUME NEW x \in hull(s), x # s, NEW C \in SUBSET Nodes,
                            Parent(s) \in C, Closed(C)
                     PROVE  x \in C
          BY <2>1, <3>2
        <4>1. C \union {s} \in SUBSET Nodes /\ s \in C \union {s} /\ Closed(C \union {s})
          BY <2>1
        <4> QED BY <4>1
      <3> QED BY <3>1, <3>2
    <2> QED BY <2>2, <2>3, <2>4
  <1>2. ASSUME NEW n \in Nodes
        PROVE  up[n] = IF n = Root THEN {} ELSE {Parent(n)} \union up[Parent(n)]
    BY <1>1, ParentType
  <1>3. up = [n \in Nodes |-> IF n = Root THEN {} ELSE {Parent(n)} \union up[Parent(n)]]
    BY <1>2
  <1> HIDE DEF up
  <1>4. Above = [n \in Nodes |-> IF n = Root THEN {} ELSE {Parent(n)} \union Above[Parent(n)]]
    BY <1>3 DEF Above
  <1> QED BY <1>4

LEMMA AboveSuites == \A n \in Nodes : Above[n] \subseteq Suites
  <1> DEFINE C == {n \in Nodes : ~(Above[n] \subseteq Suites)}
  <1>1. ASSUME NEW n \in C PROVE n # Root /\ Parent(n) \in C
    <2>1. n # Root
      BY AboveIs
    <2>2. Above[n] = {Parent(n)} \union Above[Parent(n)] /\ Parent(n) \in Suites
      BY <2>1, AboveIs, ParentType
    <2> QED BY <2>1, <2>2 DEF Nodes
  <1> QED BY <1>1, WayUp

LEMMA AboveTransitive ==
  ASSUME NEW n \in Nodes, NEW s \in Above[n]
  PROVE  s \in Suites /\ Above[s] \subseteq Above[n]
  <1> DEFINE C == {m \in Nodes : \E x \in Above[m] : ~(Above[x] \subseteq Above[m])}
  <1>1. ASSUME NEW m \in C PROVE m # Root /\ Parent(m) \in C
    <2>1. m # Root /\ Above[m] = {Parent(m)} \union Above[Parent(m)] /\ Parent(m) \in Nodes
      BY AboveIs, ParentType DEF Nodes
    <2> QED BY <2>1
  <1>2. n \notin C
    BY <1>1, WayUp
  <1> QED BY <1>2, AboveSuites

LEMMA NotAboveItself == \A n \in Nodes : n \notin Above[n]
  <1> DEFINE C == {n \in Nodes : n \in Above[n]}
  <1>1. ASSUME NEW n \in C PROVE n # Root /\ Parent(n) \in C
    <2>1. n # Root /\ Above[n] = {Parent(n)} \union Above[Parent(n)] /\ Parent(n) \in Nodes
      BY AboveIs, ParentType DEF Nodes
    <2>2. Above[n] \subseteq Above[Parent(n)] \/ Parent(n) = n
      BY <2>1, AboveTransitive
    <2> QED BY <2>1, <2>2
  <1> QED BY <1>1, WayUp

LEMMA RootAbove == \A n \in Nodes \ {Root} : Root \in Above[n]
  <1> DEFINE C == {n \in Nodes \ {Root} : Root \notin Above[n]}
  <1>1. ASSUME NEW n \in C PROVE n # Root /\ Parent(n) \in C
    <2>1. Above[n] = {Parent(n)} \union Above[Parent(n)] /\ Parent(n) \in Suites
      BY AboveIs, ParentType
    <2> QED BY <2>1 DEF Nodes
  <1> QED BY <1>1, WayUp

(* A node with all that is below it.                                        *)
Down(n) == {n} \union Below(n)

LEMMA DownOfChild ==
  ASSUME NEW s \in Suites, NEW n \in ToSet(Children[s])
  PROVE  Down(n) \subseteq Below(s) /\ s \notin Down(n)
  <1>1. n \in Nodes \ {Root} /\ Parent(n) = s /\ s \in Nodes
    BY ParentType DEF Nodes
  <1>2. s \in Above[n]
    BY <1>1, AboveIs
  <1>3. Down(n) \subseteq Below(s)
    BY <1>1, <1>2, AboveTransitive DEF Down, Below
  <1> QED BY <1>1, <1>3, NotAboveItself DEF Below

LEMMA BelowChildren ==
  ASSUME NEW s \in Suites, NEW x \in Below(s)
  PROVE  \E n \in ToSet(Children[s]) : x \in Down(n)
  <1> DEFINE C == {y \in Below(s) : \A n \in ToSet(Children[s]) : y \notin Down(n)}
  <1>1. ASSUME NEW y \in C PROVE y # Root /\ Parent(y) \in C
    <2>1. /\ y \in Nodes /\ s \in Above[y] /\ y # Root /\ Parent(y) \in Nodes
          /\ Above[y] = {Parent(y)} \union Above[Parent(y)] /\ y \in ToSet(Children[Parent(y)])
      BY AboveIs, ParentType DEF Below, Nodes
    <2>2. Parent(y) # s
      BY <2>1 DEF Down
    <2>3. Parent(y) \in Below(s)
      BY <2>1, <2>2 DEF Below
    <2>4. \A n : Parent(y) \in Down(n) => y \in Down(n)
      BY <2>1 DEF Down, Below
    <2> QED BY <2>1, <2>3, <2>4
  <1>2. C \subseteq Nodes
    BY DEF Below
  <1> HIDE DEF C
  <1>3. C = {}
    BY <1>1, <1>2, WayUp
  <1> QED BY <1>3 DEF C

LEMMA SiblingsApart ==
  ASSUME NEW s \in Suites, NEW m \in ToSet(Children[s]), NEW n \in ToSet(Children[s]), m # n
  PROVE  Down(m) \cap Down(n) = {}
  <1> DEFINE C == Down(m) \cap Down(n)
  <1>1. /\ m \in Nodes \ {Root} /\ Parent(m) = s /\ n \in Nodes \ {Root} /\ Parent(n) = s
        /\ s \notin Down(m) /\ s \notin Down(n)
    BY ParentType, DownOfChild
  <1>2. ASSUME NEW y \in C PROVE y \in Nodes /\ y # Root /\ Parent(y) \in C
    <2>1. y \in Nodes
      BY <1>1 DEF Down, Below
    <2>2. /\ m \in Above[n] => m \in Above[s]
          /\ n \in Above[m] => n \in Above[s]
      <3>1. Above[m] = {s} \union Above[s] /\ Above[n] = {s} \union Above[s]
        BY <1>1, AboveIs
      <3>2. m # s /\ n # s
        BY <1>1 DEF Down
      <3> QED BY <3>1, <3>2
    <2>3. s \in Nodes /\ s \in Above[m] /\ s \in Above[n]
      BY <1>1, AboveIs DEF Nodes
    <2>4. m \notin Above[s] /\ n \notin Above[s]
      BY <1>1, <2>3, AboveTransitive, NotAboveItself
    <2>5. y # m /\ y # n
      BY <2>2, <2>4 DEF Down, Below
    <2>6. m \in Above[y] /\ n \in Above[y] /\ y # Root /\ Parent(y) \in Nodes
          /\ Above[y] = {Parent(y)} \union Above[Parent(y)]
      BY <2>1, <2>5, AboveIs, ParentType DEF Down, Below, Nodes
    <2> QED BY <2>1, <2>6 DEF Down, Below
  <1> QED BY <1>2, WayUp

(***************************************************************************)
(* The items of a suite                                                    *)
(***************************************************************************)

LEMMA Joined ==
  ASSUME NEW S, NEW a \in Seq(S), NEW b \in Seq(S), NEW c, c = a \o b
  PROVE  /\ c \in Seq(S) /\ Len(a) \in Nat /\ Len(b) \in Nat /\ Len(c) = Len(a) + Len(b)
         /\ \A k \in 1 .. Len(c) : c[k] = IF k <= Len(a) THEN a[k] ELSE b[k - Len(a)]
  OBVIOUS

(* all is a, then b, then c. *)
InThree(all, a, b, c) ==
    /\ \A k \in 1 .. Len(all) :
        \/ k <= Len(a) /\ k \in 1 .. Len(a) /\ all[k] = a[k]
        \/ k > Len(a) /\ k - Len(a) \in 1 .. Len(b) /\ all[k] = b[k - Len(a)]
        \/ /\ k > Len(a) /\ k - (Len(a) + Len(b)) \in 1 .. Len(c)
           /\ all[k] = c[k - (Len(a) + Len(b))]
    /\ \A i \in 1 .. Len(b) : Len(a) + i \in 1 .. Len(all) /\ all[Len(a) + i] = b[i]
    /\ \A i \in 1 .. Len(c) :
        /\ Len(a) + Len(b) + i \in 1 .. Len(all)
        /\ all[Len(a) + Len(b) + i] = c[i]

LEMMA JoinedThree ==
  ASSUME NEW S, NEW a \in Seq(S), NEW b \in Seq(S), NEW c \in Seq(S), NEW ab, ab = a \o b, NEW all, all = ab \o c
  PROVE  all \in Seq(S) /\ InThree(all, a, b, c)
  <1>1. /\ ab \in Seq(S) /\ Len(a) \in Nat /\ Len(b) \in Nat /\ Len(ab) = Len(a) + Len(b)
        /\ \A k \in 1 .. Len(ab) : ab[k] = IF k <= Len(a) THEN a[k] ELSE b[k - Len(a)]
    BY Joined
  <1>2. /\ all \in Seq(S) /\ Len(c) \in Nat /\ Len(all) = Len(ab) + Len(c)
        /\ \A k \in 1 .. Len(all) : all[k] = IF k <= Len(ab) THEN ab[k] ELSE c[k - Len(ab)]
    BY <1>1, Joined
  <1>3. ASSUME NEW k \in 1 .. Len(all)
        PROVE  \/ k <= Len(a) /\ k \in 1 .. Len(a) /\ all[k] = a[k]
               \/ k > Len(a) /\ k - Len(a) \in 1 .. Len(b) /\ all[k] = b[k - Len(a)]
               \/ /\ k > Len(a) /\ k - (Len(a) + Len(b)) \in 1 .. Len(c)
                  /\ all[k] = c[k - (Len(a) + Len(b))]
    <2>1. k \in Nat /\ k >= 1 /\ k <= Len(a) + Len(b) + Len(c)
      BY <1>1, <1>2
    <2>2. CASE k <= Len(a)
      BY <1>1, <1>2, <2>1, <2>2
    <2>3. CASE k > Len(a) /\ k <= Len(ab)
      BY <1>1, <1>2, <2>1, <2>3
    <2>4. CASE k > Len(ab)
      BY <1>1, <1>2, <2>1, <2>4
    <2> QED BY <1>1, <2>1, <2>2, <2>3, <2>4
  <1>4. ASSUME NEW i \in 1 .. Len(b)
        PROVE  Len(a) + i \in 1 .. Len(all) /\ all[Len(a) + i] = b[i]
    <2>1. i \in Nat /\ i >= 1 /\ i <= Len(b)
      BY <1>1
    <2>2. /\ Len(a) + i \in 1 .. Len(ab) /\ Len(a) + i \in 1 .. Len(all)
          /\ ~(Len(a) + i <= Len(a)) /\ Len(a) + i <= Len(ab) /\ (Len(a) + i) - Len(a) = i
      BY <1>1, <1>2, <2>1
    <2> QED BY <1>1, <1>2, <2>2
  <1>5. ASSUME NEW i \in 1 .. Len(c)
        PROVE  Len(a) + Len(b) + i \in 1 .. Len(all) /\ all[Len(a) + Len(b) + i] = c[i]
    <2>1. i \in Nat /\ i >= 1 /\ i <= Len(c)
      BY <1>2
    <2>2. /\ Len(ab) + i \in 1 .. Len(all) /\ ~(Len(ab) + i <= Len(ab))
          /\ (Len(ab) + i) - Len(ab) = i
      BY <1>1, <1>2, <2>1
    <2> QED BY <1>1, <1>2, <2>2
  <1> QED BY <1>2, <1>3, <1>4, <1>5 DEF InThree

Items == (Suites \X Nat) \union (Cases \X {0})

HookItems(s)  == [k \in 1 .. Hooks[s] |-> <<s, k>>]
CaseItems(s)  == [i \in DOMAIN CasesOf(s) |-> <<CasesOf(s)[i], 0>>]
SuiteItems(s) == [i \in DOMAIN SuitesOf(s) |-> <<SuitesOf(s)[i], 0>>]

LEMMA ItemParts ==
  ASSUME NEW s \in Suites
  PROVE  /\ Hooks[s] \in Nat
         /\ Len(HookItems(s)) = Hooks[s] /\ \A k \in 1 .. Hooks[s] : HookItems(s)[k] = <<s, k>>
         /\ Len(CaseItems(s)) = Len(CasesOf(s)) /\ Len(CasesOf(s)) \in Nat
         /\ \A k \in 1 .. Len(CasesOf(s)) : CaseItems(s)[k] = <<CasesOf(s)[k], 0>>
         /\ Len(SuiteItems(s)) = Len(SuitesOf(s)) /\ Len(SuitesOf(s)) \in Nat
         /\ \A k \in 1 .. Len(SuitesOf(s)) : SuiteItems(s)[k] = <<SuitesOf(s)[k], 0>>
         /\ ExecutionItems(s) \in Seq(Items)
         /\ InThree(ExecutionItems(s), HookItems(s), CaseItems(s), SuiteItems(s))
  <1> DEFINE hooks  == HookItems(s)
             cases  == CaseItems(s)
             suites == SuiteItems(s)
  <1>1. Hooks[s] \in Nat
    BY TreeAssumption
  <1>2. hooks \in Seq(Items) /\ Len(hooks) = Hooks[s] /\ \A k \in 1 .. Hooks[s] : hooks[k] = <<s, k>>
    <2>1. \A k \in 1 .. Hooks[s] : <<s, k>> \in Items
      BY <1>1 DEF Items
    <2> QED BY <1>1, <2>1 DEF HookItems
  <1>3. cases \in Seq(Items) /\ Len(cases) = Len(CasesOf(s)) /\ Len(CasesOf(s)) \in Nat
        /\ \A k \in 1 .. Len(CasesOf(s)) : cases[k] = <<CasesOf(s)[k], 0>>
    <2>1. CasesOf(s) \in Seq(Cases)
      BY SplitAssumption
    <2>2. DOMAIN CasesOf(s) = 1 .. Len(CasesOf(s)) /\ Len(CasesOf(s)) \in Nat
      BY <2>1
    <2>3. \A i \in 1 .. Len(CasesOf(s)) : <<CasesOf(s)[i], 0>> \in Items
      BY <2>1 DEF Items
    <2> QED BY <2>2, <2>3 DEF CaseItems
  <1>4. suites \in Seq(Items) /\ Len(suites) = Len(SuitesOf(s)) /\ Len(SuitesOf(s)) \in Nat
        /\ \A k \in 1 .. Len(SuitesOf(s)) : suites[k] = <<SuitesOf(s)[k], 0>>
    <2>1. SuitesOf(s) \in Seq(Suites)
      BY SplitAssumption
    <2>2. DOMAIN SuitesOf(s) = 1 .. Len(SuitesOf(s)) /\ Len(SuitesOf(s)) \in Nat
      BY <2>1
    <2>3. \A i \in 1 .. Len(SuitesOf(s)) : <<SuitesOf(s)[i], 0>> \in Items
      BY <2>1 DEF Items
    <2> QED BY <2>2, <2>3 DEF SuiteItems
  <1>5. ExecutionItems(s) = hooks \o cases \o suites
    BY DEF ExecutionItems, HookItems, CaseItems, SuiteItems
  <1>6. /\ hooks = HookItems(s) /\ cases = CaseItems(s) /\ suites = SuiteItems(s)
        /\ hooks \in Seq(Items) /\ cases \in Seq(Items) /\ suites \in Seq(Items)
    BY <1>2, <1>3, <1>4
  <1> HIDE DEF hooks, cases, suites, Items
  <1>7. ExecutionItems(s) \in Seq(Items) /\ InThree(ExecutionItems(s), hooks, cases, suites)
    <2> DEFINE opening == hooks \o cases
               all     == ExecutionItems(s)
    <2>1. opening = hooks \o cases /\ all = opening \o suites
      BY <1>5
    <2> HIDE DEF opening, all
    <2>2. all \in Seq(Items) /\ InThree(all, hooks, cases, suites)
      BY <1>6, <2>1, JoinedThree, Zenon
    <2> QED BY <2>2 DEF all
  <1> QED BY <1>1, <1>2, <1>3, <1>4, <1>6, <1>7

(* A suite's hooks come first; behind them every child stands once.         *)
LEMMA ItemsType ==
  ASSUME NEW s \in Suites
  PROVE  /\ ExecutionItems(s) \in Seq(Items)
         /\ \A k \in 1 .. Len(ExecutionItems(s)) :
              /\ k <= Hooks[s] => ExecutionItems(s)[k] = <<s, k>>
              /\ k > Hooks[s]  => /\ ExecutionItems(s)[k][2] = 0
                                 /\ \E n \in ToSet(Children[s]) : ExecutionItems(s)[k] = <<n, 0>>
         /\ Hooks[s] \in Nat
  <1> DEFINE all == ExecutionItems(s)
             h   == Hooks[s]
             m   == Len(CasesOf(s))
  <1>1. /\ CasesOf(s) \in Seq(Cases) /\ ToSet(CasesOf(s)) \subseteq ToSet(Children[s])
        /\ SuitesOf(s) \in Seq(Suites) /\ ToSet(SuitesOf(s)) \subseteq ToSet(Children[s])
    BY SplitAssumption
  <1>2. /\ \A k \in 1 .. m : CasesOf(s)[k] \in ToSet(Children[s])
        /\ \A k \in 1 .. Len(SuitesOf(s)) : SuitesOf(s)[k] \in ToSet(Children[s])
    <2>1. DOMAIN CasesOf(s) = 1 .. m /\ DOMAIN SuitesOf(s) = 1 .. Len(SuitesOf(s))
      BY <1>1
    <2>2. /\ \A k \in 1 .. m : CasesOf(s)[k] \in ToSet(CasesOf(s))
          /\ \A k \in 1 .. Len(SuitesOf(s)) : SuitesOf(s)[k] \in ToSet(SuitesOf(s))
      BY <2>1 DEF ToSet
    <2> QED BY <1>1, <2>2
  <1>3. h \in Nat /\ m \in Nat
    BY ItemParts
  <1>4. ASSUME NEW k \in 1 .. Len(all)
        PROVE  \/ k <= h /\ all[k] = <<s, k>>
               \/ k > h /\ \E n \in ToSet(Children[s]) : all[k] = <<n, 0>>
    <2>1. \/ k <= h /\ k \in 1 .. h /\ all[k] = HookItems(s)[k]
          \/ k > h /\ k - h \in 1 .. m /\ all[k] = CaseItems(s)[k - h]
          \/ /\ k > h /\ k - (h + m) \in 1 .. Len(SuitesOf(s))
             /\ all[k] = SuiteItems(s)[k - (h + m)]
      <3>1. /\ Len(HookItems(s)) = h /\ Len(CaseItems(s)) = m
            /\ Len(SuiteItems(s)) = Len(SuitesOf(s))
            /\ InThree(all, HookItems(s), CaseItems(s), SuiteItems(s))
        BY ItemParts
      <3> HIDE DEF all, h, m
      <3> QED BY <3>1, Zenon DEF InThree
    <2> QED BY <1>2, <2>1, ItemParts, SMTT(30)
  <1>5. ASSUME NEW k \in 1 .. Len(all)
        PROVE  /\ k <= h => all[k] = <<s, k>>
               /\ k > h => all[k][2] = 0 /\ \E n \in ToSet(Children[s]) : all[k] = <<n, 0>>
    BY <1>3, <1>4
  <1> QED BY <1>5, ItemParts

LEMMA ChildItems ==
  ASSUME NEW s \in Suites
  PROVE  /\ \A n \in ToSet(Children[s]) : \E k \in 1 .. Len(ExecutionItems(s)) :
                k > Hooks[s] /\ ExecutionItems(s)[k] = <<n, 0>>
         /\ \A j, k \in 1 .. Len(ExecutionItems(s)) :
                j > Hooks[s] /\ k > Hooks[s] /\ ExecutionItems(s)[j] = ExecutionItems(s)[k] => j = k
  <1> DEFINE all == ExecutionItems(s)
             h   == Hooks[s]
             m   == Len(CasesOf(s))
             cs  == CasesOf(s)
             ss  == SuitesOf(s)
  <1>1. /\ cs \in Seq(Cases) /\ ss \in Seq(Suites) /\ DOMAIN cs = 1 .. m /\ DOMAIN ss = 1 .. Len(ss)
        /\ h \in Nat /\ m \in Nat /\ Len(ss) \in Nat /\ Cases \cap Suites = {}
    <2>1. cs \in Seq(Cases) /\ ss \in Seq(Suites)
      BY SplitAssumption
    <2> QED BY <2>1, ItemParts, TreeAssumption
  <1> DEFINE ci == CaseItems(s)
             si == SuiteItems(s)
  <1>0. /\ \A k \in 1 .. Len(all) : k <= h \/ (k - h \in 1 .. m /\ all[k] = ci[k - h])
              \/ (k - (h + m) \in 1 .. Len(ss) /\ all[k] = si[k - (h + m)])
        /\ \A i \in 1 .. m : h + i \in 1 .. Len(all) /\ all[h + i] = ci[i] /\ ci[i] = <<cs[i], 0>>
        /\ \A i \in 1 .. Len(ss) : /\ h + m + i \in 1 .. Len(all) /\ all[h + m + i] = si[i]
                                  /\ si[i] = <<ss[i], 0>>
    <2>1. /\ Len(HookItems(s)) = h /\ Len(ci) = m /\ Len(si) = Len(ss)
          /\ InThree(all, HookItems(s), ci, si)
          /\ \A k \in 1 .. m : ci[k] = <<cs[k], 0>>
          /\ \A k \in 1 .. Len(ss) : si[k] = <<ss[k], 0>>
      BY ItemParts
    <2> HIDE DEF all, h, m, ci, si, cs, ss
    <2> QED BY <2>1, Zenon DEF InThree
  <1> HIDE DEF ci, si
  <1>2. ASSUME NEW n \in ToSet(Children[s])
        PROVE  \E k \in 1 .. Len(all) : k > h /\ all[k] = <<n, 0>>
    <2>1. n \in Nodes /\ (n \in ToSet(cs) \/ n \in ToSet(ss))
      BY SplitAssumption, ParentType DEF Nodes
    <2>2. CASE n \in ToSet(cs)
      <3>1. PICK i \in 1 .. m : cs[i] = n
        BY <1>1, <2>2 DEF ToSet
      <3>2. h + i \in 1 .. Len(all) /\ all[h + i] = <<n, 0>>
        BY <1>0, <3>1
      <3>3. h + i > h
        BY <1>1
      <3> QED BY <3>2, <3>3
    <2>3. CASE n \in ToSet(ss)
      <3>1. PICK i \in 1 .. Len(ss) : ss[i] = n
        BY <1>1, <2>3 DEF ToSet
      <3>2. h + m + i \in 1 .. Len(all) /\ all[h + m + i] = <<n, 0>>
        BY <1>0, <3>1
      <3>3. h + m + i > h
        BY <1>1
      <3> QED BY <3>2, <3>3
    <2> QED BY <2>1, <2>2, <2>3
  <1>3. ASSUME NEW k \in 1 .. Len(all), k > h
        PROVE  \/ k - h \in 1 .. m /\ all[k] = <<cs[k - h], 0>> /\ cs[k - h] \in Cases
               \/ /\ k - (h + m) \in 1 .. Len(ss) /\ all[k] = <<ss[k - (h + m)], 0>>
                  /\ ss[k - (h + m)] \in Suites
    <2>1. k \in Nat /\ ~(k <= h)
      BY <1>1, <1>3
    <2>2. \/ k - h \in 1 .. m /\ all[k] = ci[k - h]
          \/ k - (h + m) \in 1 .. Len(ss) /\ all[k] = si[k - (h + m)]
      BY <1>0, <2>1
    <2>3. /\ \A i \in 1 .. m : cs[i] \in Cases
          /\ \A i \in 1 .. Len(ss) : ss[i] \in Suites
      <3> HIDE DEF cs, ss
      <3> QED BY <1>1 DEF m
    <2> QED BY <1>0, <2>2, <2>3
  <1>4. ASSUME NEW j \in 1 .. Len(all), NEW k \in 1 .. Len(all), j > h, k > h, all[j] = all[k]
        PROVE  j = k
    <2> DEFINE a == j - h
               b == k - h
               c == j - (h + m)
               d == k - (h + m)
    <2>1. /\ \A x, y \in 1 .. m : cs[x] = cs[y] => x = y
          /\ \A x, y \in 1 .. Len(ss) : ss[x] = ss[y] => x = y
      BY <1>1, SplitAssumption DEF IsInjective
    <2>2. \/ a \in 1 .. m /\ b \in 1 .. m /\ cs[a] = cs[b]
          \/ c \in 1 .. Len(ss) /\ d \in 1 .. Len(ss) /\ ss[c] = ss[d]
      BY <1>1, <1>3, <1>4
    <2>3. a = b \/ c = d
      <3> HIDE DEF a, b, c, d
      <3> QED BY <2>1, <2>2
    <2> QED BY <1>1, <2>3
  <1> QED BY <1>2, <1>4

LEMMA CountType == ASSUME NEW S, S \subseteq Cases PROVE Cardinality(S) \in Nat
  BY TreeAssumption, FS_Subset, FS_CardinalityType

(***************************************************************************)
(* Moving along the path                                                   *)
(***************************************************************************)

Frame == [suite : Suites, at : Nat \ {0}]

Within(f) == f.at <= Len(ExecutionItems(f.suite)) + 1
Leads(f, g) ==
    f.at <= Len(ExecutionItems(f.suite)) /\ ExecutionItems(f.suite)[f.at] = <<g.suite, 0>>

(* The path stands on an item, and not yet past the last one. *)
OnItem(fs) == fs # <<>> /\ fs[Len(fs)].at <= Len(ExecutionItems(fs[Len(fs)].suite))
ItemOf(fs) == ExecutionItems(fs[Len(fs)].suite)[fs[Len(fs)].at]
BeyondHooks(fs) == fs # <<>> => fs[Len(fs)].at > Hooks[fs[Len(fs)].suite]

LEMMA PathMeans ==
  ASSUME NEW fs
  PROVE  PathOK(fs) <=> /\ fs \in Seq(Frame)
                        /\ \A i \in 1 .. Len(fs) : Within(fs[i])
                        /\ \A i \in 1 .. Len(fs) - 1 : Leads(fs[i], fs[i + 1])
  BY Zenon DEF PathOK, Frame, Within, Leads

LEMMA TopFrame ==
  ASSUME NEW fs, PathOK(fs), fs # <<>>
  PROVE  /\ Len(fs) \in Nat \ {0} /\ fs[Len(fs)] \in Frame
         /\ fs[Len(fs)].suite \in Suites /\ fs[Len(fs)].at \in Nat \ {0}
  <1>1. fs \in Seq(Frame)
    BY PathMeans
  <1>2. Len(fs) \in Nat \ {0} /\ fs[Len(fs)] \in Frame
    BY <1>1
  <1> QED BY <1>2 DEF Frame

LEMMA PastPath ==
  ASSUME NEW fs, PathOK(fs), OnItem(fs)
  PROVE  /\ PathOK(Past(fs)) /\ Past(fs) # <<>> /\ Len(Past(fs)) = Len(fs)
         /\ Past(fs)[Len(fs)].suite = fs[Len(fs)].suite
         /\ Past(fs)[Len(fs)].at = fs[Len(fs)].at + 1
  <1> DEFINE n    == Len(fs)
             next == [suite |-> fs[n].suite, at |-> fs[n].at + 1]
             past == Past(fs)
  <1>1. n \in Nat \ {0} /\ fs \in Seq(Frame) /\ fs[n] \in Frame
    BY TopFrame, PathMeans DEF OnItem
  <1>2. Len(ExecutionItems(fs[n].suite)) \in Nat /\ fs[n].at \in Nat
    BY <1>1, ItemsType DEF Frame
  <1>3. past = [fs EXCEPT ![n] = [fs[n] EXCEPT !.at = fs[n].at + 1]]
    BY DEF Past
  <1>4. [fs[n] EXCEPT !.at = fs[n].at + 1] = next
    BY <1>1 DEF Frame
  <1>5. next \in Frame
    BY <1>1, <1>2 DEF Frame
  <1>6. Within(next)
    BY <1>2 DEF OnItem, Within
  <1>7. next.suite = fs[n].suite /\ next.at = fs[n].at + 1
    OBVIOUS
  <1>8. /\ \A i \in 1 .. n : Within(fs[i])
        /\ \A i \in 1 .. n - 1 : Leads(fs[i], fs[i + 1])
    BY PathMeans
  <1>9. n = Len(fs) /\ past = Past(fs)
    OBVIOUS
  <1> HIDE DEF n, next, past
  <1>10. past = [fs EXCEPT ![n] = next]
    BY <1>3, <1>4
  <1>11. past \in Seq(Frame) /\ Len(past) = n /\ past[n] = next /\ past # <<>>
    BY <1>1, <1>5, <1>9, <1>10
  <1>12. \A i \in 1 .. n - 1 : past[i] = fs[i] /\ i \in 1 .. n
    BY <1>1, <1>9, <1>10
  <1>13. ASSUME NEW i \in 1 .. n PROVE Within(past[i])
    <2>1. i = n \/ i \in 1 .. n - 1
      BY <1>1
    <2> QED BY <1>6, <1>8, <1>11, <1>12, <2>1
  <1>14. ASSUME NEW i \in 1 .. n - 1 PROVE Leads(past[i], past[i + 1])
    <2>1. i + 1 = n \/ i + 1 \in 1 .. n - 1
      BY <1>1
    <2>2. past[i + 1].suite = fs[i + 1].suite
      BY <1>7, <1>11, <1>12, <2>1
    <2> QED BY <1>8, <1>12, <2>2 DEF Leads
  <1>15. PathOK(past)
    BY <1>11, <1>13, <1>14, PathMeans
  <1> QED BY <1>7, <1>9, <1>11, <1>15

LEMMA FrontPath ==
  ASSUME NEW fs, PathOK(fs), Len(fs) > 1
  PROVE  PathOK(Front(fs)) /\ OnItem(Front(fs)) /\ ItemOf(Front(fs))[2] = 0
  <1> DEFINE n == Len(fs)
             front == Front(fs)
  <1>1. /\ n \in Nat /\ n > 1 /\ fs \in Seq(Frame)
        /\ \A i \in 1 .. n : Within(fs[i])
        /\ \A i \in 1 .. n - 1 : Leads(fs[i], fs[i + 1])
    BY PathMeans
  <1>2. front = SubSeq(fs, 1, n - 1) /\ front = Front(fs) /\ n = Len(fs)
    BY DEF Front
  <1> HIDE DEF n, front
  <1>3. front \in Seq(Frame) /\ Len(front) = n - 1 /\ front # <<>>
    <2>1. \A i \in 1 .. n - 1 : fs[i] \in Frame
      BY <1>1, <1>2
    <2> DEFINE m == n - 1
    <2>2. m \in Int /\ 1 \in Int /\ 1 <= m /\ m - 1 + 1 = m
      BY <1>1
    <2>3. m = n - 1
      OBVIOUS
    <2> HIDE DEF m
    <2>4. /\ SubSeq(fs, 1, m) \in Seq(Frame)
          /\ Len(SubSeq(fs, 1, m)) = IF 1 <= m THEN m - 1 + 1 ELSE 0
      BY <2>1, <2>2, <2>3, SubSeqProperties, Zenon
    <2>5. front = SubSeq(fs, 1, m)
      BY <1>2, <2>3
    <2>6. front \in Seq(Frame) /\ Len(front) = m
      BY <2>2, <2>4, <2>5, Zenon
    <2> QED BY <1>1, <2>3, <2>6
  <1>4. \A i \in 1 .. n - 1 : front[i] = fs[i] /\ i \in 1 .. n
    BY <1>1, <1>2
  <1>5. ASSUME NEW i \in 1 .. n - 1 PROVE Within(front[i]) /\ Leads(front[i], fs[i + 1])
    BY <1>1, <1>4, Zenon
  <1>6. ASSUME NEW i \in 1 .. (n - 1) - 1 PROVE Leads(front[i], front[i + 1])
    <2>1. i \in 1 .. n - 1 /\ i + 1 \in 1 .. n - 1
      BY <1>1
    <2> QED BY <1>4, <1>5, <2>1
  <1>7. PathOK(front)
    BY <1>3, <1>5, <1>6, PathMeans
  <1>8. n - 1 \in 1 .. n - 1
    BY <1>1
  <1>9. Leads(front[Len(front)], fs[(n - 1) + 1])
    BY <1>3, <1>5, <1>8
  <1> QED BY <1>2, <1>3, <1>7, <1>9 DEF OnItem, ItemOf, Leads

LEMMA PushPath ==
  ASSUME NEW fs, PathOK(fs), OnItem(fs), NEW s \in Suites, ItemOf(fs) = <<s, 0>>
  PROVE  PathOK(Append(fs, [suite |-> s, at |-> 1]))
  <1> DEFINE n == Len(fs)
             new == [suite |-> s, at |-> 1]
             deeper == Append(fs, new)
  <1>1. /\ n \in Nat \ {0} /\ fs \in Seq(Frame)
        /\ \A i \in 1 .. n : Within(fs[i])
        /\ \A i \in 1 .. n - 1 : Leads(fs[i], fs[i + 1])
    BY TopFrame, PathMeans DEF OnItem
  <1>2. new \in Frame /\ new.suite = s
    BY DEF Frame
  <1>3. Within(new)
    BY ItemsType DEF Within
  <1>4. Leads(fs[n], new)
    BY DEF OnItem, ItemOf, Leads
  <1>5. deeper = Append(fs, new) /\ n = Len(fs)
    OBVIOUS
  <1>6. deeper = Append(fs, [suite |-> s, at |-> 1])
    OBVIOUS
  <1> HIDE DEF n, new, deeper
  <1>7. deeper \in Seq(Frame) /\ Len(deeper) = n + 1 /\ deeper[n + 1] = new
    BY <1>1, <1>2, <1>5
  <1>8. \A i \in 1 .. n : deeper[i] = fs[i]
    BY <1>1, <1>5
  <1>9. ASSUME NEW i \in 1 .. n + 1 PROVE Within(deeper[i])
    <2>1. i = n + 1 \/ i \in 1 .. n
      BY <1>1
    <2> QED BY <1>1, <1>3, <1>7, <1>8, <2>1
  <1>10. ASSUME NEW i \in 1 .. (n + 1) - 1 PROVE Leads(deeper[i], deeper[i + 1])
    <2>1. i \in 1 .. n /\ (i = n \/ (i \in 1 .. n - 1 /\ i + 1 \in 1 .. n))
      BY <1>1
    <2> QED BY <1>1, <1>4, <1>7, <1>8, <2>1
  <1>11. PathOK(deeper)
    BY <1>7, <1>9, <1>10, PathMeans
  <1> QED BY <1>6, <1>11

(* The next item lies beyond the hooks when this one is not a hook, or does. *)
LEMMA PastBeyond ==
  ASSUME NEW fs, PathOK(fs), OnItem(fs), ItemOf(fs)[2] = 0 \/ BeyondHooks(fs)
  PROVE  BeyondHooks(Past(fs))
  <1> DEFINE top == fs[Len(fs)]
  <1>1. top.suite \in Suites /\ top.at \in Nat \ {0} /\ top.at <= Len(ExecutionItems(top.suite))
    BY TopFrame DEF OnItem
  <1>2. /\ Past(fs)[Len(Past(fs))].suite = top.suite
        /\ Past(fs)[Len(Past(fs))].at = top.at + 1
    BY PastPath
  <1>3. ItemOf(fs) = ExecutionItems(top.suite)[top.at]
    BY DEF ItemOf
  <1>4. BeyondHooks(fs) <=> top.at > Hooks[top.suite]
    BY DEF OnItem, BeyondHooks
  <1> HIDE DEF top
  <1>5. Hooks[top.suite] \in Nat /\ (top.at <= Hooks[top.suite] => ItemOf(fs) = <<top.suite, top.at>>)
    BY <1>1, <1>3, ItemsType
  <1>6. top.at > Hooks[top.suite]
    BY <1>1, <1>4, <1>5
  <1> QED BY <1>1, <1>2, <1>5, <1>6 DEF BeyondHooks

(***************************************************************************)
(* The walk.  Whoever cancelled the run is past the hooks of the suite it  *)
(* is in, so that nothing it comes to can still be started.                *)
(***************************************************************************)

BailGuard ==
    /\ bail /\ summary.failed > 0 => cancelRemaining
    /\ cancelRemaining => running = NoRunnable /\ BeyondHooks(frames)

Summaries == [passed : Nat, failed : Nat, skipped : Nat, cancelled : Nat]

Walk ==
    /\ matching \subseteq Cases /\ bail \in BOOLEAN
    /\ WalkTypeOK
    /\ verdict \in [Nodes -> Verdicts]
    /\ summary \in Summaries
    /\ cancelRemaining \in BOOLEAN
    /\ broken \subseteq Suites
    /\ BailGuard

LEMMA HereItem ==
  ASSUME Walk, frames # <<>>, Top.at <= Len(ExecutionItems(Top.suite))
  PROVE  /\ PathOK(frames) /\ OnItem(frames) /\ ItemOf(frames) = Here
         /\ Here \in Items /\ Here # NoRunnable /\ Here = <<Here[1], Here[2]>>
         /\ Here[1] \in Nodes
         /\ Here[1] \in Cases => Here[2] = 0
         /\ BeyondHooks(frames) => Here[2] = 0
  <1>1. PathOK(frames) /\ OnItem(frames) /\ ItemOf(frames) = Here
    BY DEF Walk, WalkTypeOK, OnItem, ItemOf, Here, Top, Last
  <1>2. /\ frames[Len(frames)].suite \in Suites /\ frames[Len(frames)].at \in Nat \ {0}
        /\ frames[Len(frames)].at <= Len(ExecutionItems(frames[Len(frames)].suite))
    BY <1>1, TopFrame DEF OnItem
  <1>3. Here \in Items
    BY <1>1, <1>2, ItemsType DEF ItemOf
  <1>4. Here = <<Here[1], Here[2]>> /\ Here[1] \in Nodes /\ (Here[1] \in Cases => Here[2] = 0) /\ Here # NoRunnable
    BY <1>3, TreeAssumption DEF Items, Nodes, NoRunnable
  <1>5. BeyondHooks(frames) => Here[2] = 0
    BY <1>1, <1>2, ItemsType DEF BeyondHooks, OnItem, ItemOf
  <1> QED BY <1>1, <1>3, <1>4, <1>5

LEMMA RunningItem ==
  ASSUME Walk, running # NoRunnable
  PROVE  /\ frames # <<>> /\ Top.at <= Len(ExecutionItems(Top.suite)) /\ running = Here
         /\ running[1] \in Cases => running[2] = 0
         /\ running[1] \in Suites => running[1] \notin Cases
         /\ ~cancelRemaining
  <1>1. frames # <<>> /\ Top.at <= Len(ExecutionItems(Top.suite)) /\ running = Here
    BY DEF Walk, WalkTypeOK
  <1>2. Here[1] \in Cases => Here[2] = 0
    BY <1>1, HereItem
  <1>3. ~cancelRemaining
    BY DEF Walk, BailGuard
  <1> QED BY <1>1, <1>2, <1>3, TreeAssumption

LEMMA VerdictUpdate ==
  ASSUME verdict \in [Nodes -> Verdicts], NEW n, NEW v \in Verdicts
  PROVE  [verdict EXCEPT ![n] = v] \in [Nodes -> Verdicts]
  OBVIOUS

LEMMA CancelledType ==
  ASSUME verdict \in [Nodes -> Verdicts], NEW s
  PROVE  /\ Cancelled(s) \in [Nodes -> Verdicts]
         /\ \A n, v : v \in Verdicts => [Cancelled(s) EXCEPT ![n] = v] \in [Nodes -> Verdicts]
  <1>1. Cancelled(s) \in [Nodes -> Verdicts]
    BY DEF Cancelled, Verdicts
  <1> QED BY <1>1

LEMMA SummaryUpdate ==
  ASSUME summary \in Summaries, matching \subseteq Cases, NEW s
  PROVE  /\ Count("passed") \in Summaries /\ Count("passed").failed = summary.failed
         /\ Count("skipped") \in Summaries /\ Count("skipped").failed = summary.failed
         /\ Count("cancelled") \in Summaries /\ Count("cancelled").failed = summary.failed
         /\ Count("failed") \in Summaries
         /\ CountAll(summary, "cancelled", Matches(s)) \in Summaries
         /\ CountAll(summary, "cancelled", Matches(s)).failed = summary.failed
         /\ CountAll(Count("failed"), "cancelled", Matches(s)) \in Summaries
  <1>1. Cardinality(Matches(s)) \in Nat
    BY CountType DEF Matches
  <1> DEFINE c == Cardinality(Matches(s))
  <1>2. Count("failed") \in Summaries
    BY DEF Count, Summaries
  <1>3. \A sm \in Summaries : CountAll(sm, "cancelled", Matches(s)) \in Summaries
                              /\ CountAll(sm, "cancelled", Matches(s)).failed = sm.failed
    BY <1>1 DEF CountAll, Summaries
  <1>4. /\ Count("passed") \in Summaries /\ Count("passed").failed = summary.failed
        /\ Count("skipped") \in Summaries /\ Count("skipped").failed = summary.failed
        /\ Count("cancelled") \in Summaries /\ Count("cancelled").failed = summary.failed
    BY DEF Count, Summaries
  <1> QED BY <1>2, <1>3, <1>4

(* Where a step goes on with the next item, the walk stays one when what it *)
(* came from was not a hook, or the run is not cancelled.                   *)
LEMMA GoOn ==
  ASSUME Walk, frames # <<>>, Top.at <= Len(ExecutionItems(Top.suite)),
         frames' = Past(frames), running' = NoRunnable
  PROVE  /\ WalkTypeOK'
         /\ Here[2] = 0 \/ cancelRemaining => BeyondHooks(frames')
  <1>1. PathOK(frames) /\ OnItem(frames) /\ ItemOf(frames) = Here
    BY HereItem
  <1>2. PathOK(frames')
    BY <1>1, PastPath
  <1>3. Here[2] = 0 \/ cancelRemaining => BeyondHooks(frames')
    BY <1>1, PastBeyond DEF Walk, BailGuard
  <1> QED BY <1>2, <1>3 DEF WalkTypeOK

(* Where a suite is left, its parent goes on.                               *)
LEMMA GoUp ==
  ASSUME Walk, frames # <<>>, running' = NoRunnable,
         frames' = IF Len(frames) = 1 THEN <<>> ELSE Past(Front(frames))
  PROVE  WalkTypeOK' /\ BeyondHooks(frames')
  <1>1. PathOK(frames) /\ Len(frames) \in Nat \ {0}
    BY TopFrame DEF Walk, WalkTypeOK
  <1>2. CASE Len(frames) = 1
    <2>1. frames' = <<>>
      BY <1>2
    <2>2. PathOK(<<>>)
      BY DEF PathOK
    <2> QED BY <2>1, <2>2 DEF WalkTypeOK, BeyondHooks
  <1>3. CASE Len(frames) # 1
    <2>1. Len(frames) > 1
      <3>1. \A n \in Nat \ {0} : n # 1 => n > 1
        OBVIOUS
      <3> QED BY <1>1, <1>3, <3>1, Zenon
    <2>0. frames' = Past(Front(frames))
      BY <1>3
    <2>2. PathOK(Front(frames)) /\ OnItem(Front(frames)) /\ ItemOf(Front(frames))[2] = 0
      BY <1>1, <2>1, FrontPath
    <2>3. PathOK(frames') /\ BeyondHooks(frames')
      BY <2>0, <2>2, PastPath, PastBeyond
    <2> QED BY <2>3 DEF WalkTypeOK
  <1> QED BY <1>2, <1>3

(***************************************************************************)
(* One lemma per step of the walk                                          *)
(***************************************************************************)

LEMMA PassOverWalk == ASSUME Walk, UNCHANGED <<matching, bail>>, PassOver PROVE Walk'
  <1>1. frames # <<>> /\ Top.at <= Len(ExecutionItems(Top.suite)) /\ Here[2] = 0
          /\ running = NoRunnable /\ running' = NoRunnable /\ frames' = Past(frames)
    BY HereItem DEF PassOver, AtCase, AtSuite, AtItem
  <1>2. WalkTypeOK' /\ BeyondHooks(frames')
    BY <1>1, GoOn
  <1> QED BY <1>1, <1>2 DEF Walk, PassOver, BailGuard

LEMMA SkipCaseWalk == ASSUME Walk, UNCHANGED <<matching, bail>>, SkipCase PROVE Walk'
  <1>1. frames # <<>> /\ Top.at <= Len(ExecutionItems(Top.suite)) /\ Here[2] = 0
          /\ running = NoRunnable /\ running' = NoRunnable /\ frames' = Past(frames)
    BY HereItem DEF SkipCase, AtCase, AtItem
  <1>2. WalkTypeOK' /\ BeyondHooks(frames')
    BY <1>1, GoOn
  <1>3. verdict' \in [Nodes -> Verdicts]
    BY VerdictUpdate DEF SkipCase, Walk, Verdicts
  <1>4. summary' \in Summaries /\ summary'.failed = summary.failed
    BY SummaryUpdate DEF SkipCase, Walk
  <1> QED BY <1>1, <1>2, <1>3, <1>4 DEF Walk, SkipCase, BailGuard

LEMMA CancelCaseWalk == ASSUME Walk, UNCHANGED <<matching, bail>>, CancelCase PROVE Walk'
  <1>1. frames # <<>> /\ Top.at <= Len(ExecutionItems(Top.suite)) /\ Here[2] = 0
          /\ running = NoRunnable /\ running' = NoRunnable /\ frames' = Past(frames)
    BY HereItem DEF CancelCase, AtCase, AtItem
  <1>2. WalkTypeOK' /\ BeyondHooks(frames')
    BY <1>1, GoOn
  <1>3. verdict' \in [Nodes -> Verdicts]
    BY VerdictUpdate DEF CancelCase, Walk, Verdicts
  <1>4. summary' \in Summaries /\ summary'.failed = summary.failed
    BY SummaryUpdate DEF CancelCase, Walk
  <1> QED BY <1>1, <1>2, <1>3, <1>4 DEF Walk, CancelCase, BailGuard

LEMMA CancelSuiteWalk == ASSUME Walk, UNCHANGED <<matching, bail>>, CancelSuite PROVE Walk'
  <1>1. frames # <<>> /\ Top.at <= Len(ExecutionItems(Top.suite)) /\ Here[2] = 0
          /\ running = NoRunnable /\ running' = NoRunnable /\ frames' = Past(frames)
    BY HereItem DEF CancelSuite, AtSuite, AtItem
  <1>2. WalkTypeOK' /\ BeyondHooks(frames')
    BY <1>1, GoOn
  <1>3. verdict' \in [Nodes -> Verdicts]
    BY CancelledType DEF CancelSuite, Walk, Verdicts
  <1>4. summary' \in Summaries /\ summary'.failed = summary.failed
    BY SummaryUpdate DEF CancelSuite, Walk
  <1> QED BY <1>1, <1>2, <1>3, <1>4 DEF Walk, CancelSuite, BailGuard

LEMMA EnterSuiteWalk == ASSUME Walk, UNCHANGED <<matching, bail>>, EnterSuite PROVE Walk'
  <1>1. frames # <<>> /\ Top.at <= Len(ExecutionItems(Top.suite)) /\ Here[1] \in Suites /\ Here[2] = 0
          /\ running = NoRunnable /\ running' = NoRunnable /\ ~cancelRemaining
          /\ frames' = Append(frames, [suite |-> Here[1], at |-> 1])
    BY DEF EnterSuite, AtSuite, AtItem
  <1>2. PathOK(frames) /\ OnItem(frames) /\ ItemOf(frames) = <<Here[1], 0>>
    BY <1>1, HereItem
  <1>3. PathOK(frames')
    BY <1>1, <1>2, PushPath
  <1> QED BY <1>1, <1>3 DEF Walk, WalkTypeOK, EnterSuite, BailGuard

(* Only here does the hooks' place before the cases matter: a hook that is  *)
(* come to shows that the run is not cancelled.                             *)
LEMMA StartRunnableWalk == ASSUME Walk, UNCHANGED <<matching, bail>>, StartRunnable PROVE Walk'
  <1>1. frames # <<>> /\ Top.at <= Len(ExecutionItems(Top.suite)) /\ running' = Here /\ frames' = frames
    BY DEF StartRunnable, AtHook, RunsCase, AtCase, AtItem
  <1>2. ~cancelRemaining
    <2>1. CASE AtHook
      <3>1. Here[2] # 0
        BY <2>1 DEF AtHook
      <3>2. ~BeyondHooks(frames)
        BY <1>1, <3>1, HereItem
      <3> QED BY <3>2 DEF Walk, BailGuard
    <2> QED BY <2>1 DEF StartRunnable, RunsCase
  <1>3. Here[1] \in Suites => Here[2] # 0
    BY <1>1, HereItem, TreeAssumption DEF StartRunnable, AtHook, RunsCase, AtCase
  <1>4. Here' = Here /\ Top' = Top
    BY <1>1 DEF Here, Top
  <1>5. WalkTypeOK'
    BY <1>1, <1>3, <1>4 DEF Walk, WalkTypeOK
  <1> QED BY <1>1, <1>2, <1>5 DEF Walk, StartRunnable, BailGuard

LEMMA LeaveSuiteWalk == ASSUME Walk, UNCHANGED <<matching, bail>>, LeaveSuite PROVE Walk'
  <1>1. frames # <<>> /\ frames' = IF Len(frames) = 1 THEN <<>> ELSE Past(Front(frames))
    BY DEF LeaveSuite
  <1>2. running = NoRunnable /\ running' = NoRunnable
    <2>1. ~(Top.at <= Len(ExecutionItems(Top.suite)))
      <3>1. PathOK(frames) /\ Top = frames[Len(frames)]
        BY DEF Walk, WalkTypeOK, Top, Last
      <3>2. Top.at \in Nat /\ Top.suite \in Suites
        BY <1>1, <3>1, TopFrame
      <3>3. Len(ExecutionItems(Top.suite)) \in Nat
        BY <3>2, ItemsType
      <3> QED BY <3>2, <3>3 DEF LeaveSuite
    <2> QED BY <2>1 DEF Walk, WalkTypeOK, LeaveSuite
  <1>3. WalkTypeOK' /\ BeyondHooks(frames')
    BY <1>1, <1>2, GoUp
  <1>4. verdict' \in [Nodes -> Verdicts]
    <2>1. \A results : Rollup(results) \in Verdicts
      BY DEF Rollup, Verdicts
    <2> QED BY <2>1, VerdictUpdate DEF LeaveSuite, Walk
  <1> QED BY <1>2, <1>3, <1>4 DEF Walk, LeaveSuite, BailGuard

LEMMA PassWalk == ASSUME Walk, UNCHANGED <<matching, bail>>, running # NoRunnable, Pass PROVE Walk'
  <1>1. frames # <<>> /\ Top.at <= Len(ExecutionItems(Top.suite)) /\ ~cancelRemaining
          /\ running' = NoRunnable /\ frames' = Past(frames)
    BY RunningItem DEF Pass
  <1>2. WalkTypeOK'
    BY <1>1, GoOn
  <1>3. verdict' \in [Nodes -> Verdicts]
    BY VerdictUpdate DEF Pass, Walk, Verdicts
  <1>4. summary' \in Summaries /\ summary'.failed = summary.failed
    BY SummaryUpdate DEF Pass, Walk
  <1> QED BY <1>1, <1>2, <1>3, <1>4 DEF Walk, Pass, BailGuard

LEMMA FailCaseWalk == ASSUME Walk, UNCHANGED <<matching, bail>>, running # NoRunnable, FailCase PROVE Walk'
  <1>1. frames # <<>> /\ Top.at <= Len(ExecutionItems(Top.suite)) /\ Here[2] = 0
          /\ running' = NoRunnable /\ frames' = Past(frames)
    BY RunningItem DEF FailCase
  <1>2. WalkTypeOK' /\ BeyondHooks(frames')
    BY <1>1, GoOn
  <1>3. verdict' \in [Nodes -> Verdicts]
    BY VerdictUpdate DEF FailCase, Walk, Verdicts
  <1>4. summary' \in Summaries
    BY SummaryUpdate DEF FailCase, Walk
  <1>5. cancelRemaining' = (cancelRemaining \/ bail) /\ UNCHANGED <<matching, bail, broken>>
    BY DEF FailCase
  <1>6. cancelRemaining' \in BOOLEAN /\ (bail' => cancelRemaining')
    BY <1>5 DEF Walk
  <1> QED BY <1>1, <1>2, <1>3, <1>4, <1>5, <1>6 DEF Walk, BailGuard

LEMMA FailHookWalk == ASSUME Walk, UNCHANGED <<matching, bail>>, running # NoRunnable, FailHook PROVE Walk'
  <1>1. frames # <<>> /\ running' = NoRunnable
          /\ frames' = IF Len(frames) = 1 THEN <<>> ELSE Past(Front(frames))
    BY RunningItem DEF FailHook
  <1>2. WalkTypeOK' /\ BeyondHooks(frames')
    BY <1>1, GoUp
  <1>3. verdict' \in [Nodes -> Verdicts]
    BY CancelledType DEF FailHook, Walk, Verdicts
  <1>4. summary' \in Summaries
    BY SummaryUpdate DEF FailHook, Walk
  <1>5. cancelRemaining' = (cancelRemaining \/ bail) /\ UNCHANGED <<matching, bail>>
    BY DEF FailHook
  <1>6. cancelRemaining' \in BOOLEAN /\ (bail' => cancelRemaining')
    BY <1>5 DEF Walk
  <1>7. broken' \subseteq Suites
    BY DEF FailHook, Walk
  <1> QED BY <1>1, <1>2, <1>3, <1>4, <1>5, <1>6, <1>7 DEF Walk, BailGuard

(***************************************************************************)
(* The process and its parent                                              *)
(***************************************************************************)

Process ==
    /\ stray \in 0 .. MaxStray
    /\ stage \in {"loading", "running", "reporting", "exited", "killed"}
    /\ code \in 0 .. 255
    /\ written \in BOOLEAN /\ timedOut \in BOOLEAN
    /\ result \in 0 .. 256
    /\ stage = "loading" => frames = <<>> /\ ~cancelRemaining

LEMMA UnmovedWalk == ASSUME Walk, UNCHANGED <<matching, bail, walk>> PROVE Walk'
  <1>1. Here' = Here /\ Top' = Top
    BY DEF walk, Here, Top
  <1> QED BY <1>1 DEF Walk, WalkTypeOK, BailGuard, walk

LEMMA LoadWalk == ASSUME Walk, Process, Load PROVE Walk'
  <1>1. frames = <<>> /\ ~cancelRemaining /\ running = NoRunnable
    BY DEF Process, Load, Walk, WalkTypeOK
  <1>2. frames' = <<[suite |-> Root, at |-> 1]>> /\ UNCHANGED <<matching, bail, running, verdict, summary, cancelRemaining, broken>>
    BY DEF Load
  <1>3. PathOK(frames')
    <2>1. [suite |-> Root, at |-> 1] \in Frame
      BY TreeAssumption DEF Frame
    <2>2. Within([suite |-> Root, at |-> 1])
      BY TreeAssumption, ItemsType DEF Within
    <2>3. frames' \in Seq(Frame) /\ Len(frames') = 1 /\ frames'[1] = [suite |-> Root, at |-> 1]
      BY <1>2, <2>1
    <2>4. \A i \in 1 .. Len(frames') : Within(frames'[i])
      BY <2>2, <2>3
    <2>5. \A i \in 1 .. Len(frames') - 1 : Leads(frames'[i], frames'[i + 1])
      BY <2>3
    <2> QED BY <2>3, <2>4, <2>5, PathMeans
  <1> QED BY <1>1, <1>2, <1>3 DEF Walk, WalkTypeOK, BailGuard

LEMMA StepWalk ==
  ASSUME Walk, Process, [Next]_vars
  PROVE  Walk'
  <1>1. CASE Load
    BY <1>1, LoadWalk
  <1>2. CASE Step
    BY <1>2, PassOverWalk, SkipCaseWalk, CancelCaseWalk, CancelSuiteWalk, EnterSuiteWalk, StartRunnableWalk,
       LeaveSuiteWalk DEF Step
  <1>3. CASE Settle
    BY <1>3, PassWalk, FailCaseWalk, FailHookWalk DEF Settle, Fail
  <1>4. CASE StrayError
    BY <1>4, FailCaseWalk, FailHookWalk, UnmovedWalk DEF StrayError, Fail
  <1>5. CASE LoadFails \/ Finish \/ WriteRecord \/ WriteFails \/ Report \/ TimeOut \/ Collect \/ UNCHANGED vars
    BY <1>5, UnmovedWalk DEF LoadFails, Finish, WriteRecord, WriteFails, Report, TimeOut, Collect, vars, walk
  <1> QED BY <1>1, <1>2, <1>3, <1>4, <1>5 DEF Next

LEMMA StepProcess ==
  ASSUME Walk, Process, [Next]_vars
  PROVE  Process'
  <1>1. summary.failed \in Nat /\ MaxStray \in Nat
    BY TreeAssumption DEF Walk, Summaries
  <1>2. ASSUME NEW status \in Nat, Exit(status)
        PROVE  stage' = "exited" /\ code' \in 0 .. 255
    <2>1. ExitCodes \in 2 .. 256
      BY TreeAssumption
    <2>2. status % ExitCodes \in 0 .. ExitCodes - 1
      BY <1>2, <2>1
    <2> QED BY <1>2, <2>1, <2>2 DEF Exit
  <1>3. CASE Load \/ LoadFails \/ Finish \/ WriteRecord \/ WriteFails \/ Report
    <2>1. stage' # "loading" /\ UNCHANGED <<stray, timedOut, result>>
      BY <1>3 DEF Load, LoadFails, Finish, WriteRecord, WriteFails, Report, Exit, parent
    <2>2. stage' \in {"running", "reporting", "exited"} /\ written' \in BOOLEAN
      BY <1>3 DEF Load, LoadFails, Finish, WriteRecord, WriteFails, Report, Exit, parent, Process
    <2>3. code' \in 0 .. 255
      <3>1. CASE Exit(1) \/ Exit(summary.failed)
        BY <1>1, <1>2, <3>1
      <3>2. CASE UNCHANGED code
        BY <3>2 DEF Process
      <3> QED BY <1>3, <3>1, <3>2 DEF Load, LoadFails, Finish, WriteRecord, WriteFails, Report
    <2> QED BY <2>1, <2>2, <2>3 DEF Process
  <1>4. CASE Step
    BY <1>4 DEF Step, Running, Process, parent
  <1>5. CASE Settle
    <2>1. stray' \in 0 .. MaxStray
      BY <1>1, <1>5 DEF Settle, Process
    <2> QED BY <1>5, <2>1 DEF Settle, Running, Process, parent
  <1>6. CASE StrayError
    <2>1. stray' \in 0 .. MaxStray /\ UNCHANGED <<written, timedOut, result>>
      BY <1>1, <1>6 DEF StrayError, Process, parent
    <2>2. stage' \in {"running", "exited"} /\ code' \in 0 .. 255
      <3>1. CASE Exit(1)
        BY <1>2, <3>1
      <3>2. CASE Running /\ UNCHANGED <<stage, code>>
        BY <3>2 DEF Running, Process
      <3> QED BY <1>6, <3>1, <3>2 DEF StrayError
    <2> QED BY <2>1, <2>2 DEF Process
  <1>7. CASE TimeOut
    <2>1. stage' \in {"exited", "killed"} /\ code' \in 0 .. 255
      <3>1. CASE stage = "exited"
        BY <1>7, <3>1 DEF TimeOut, Process
      <3>2. CASE stage # "exited"
        BY <1>7, <3>2 DEF TimeOut, Terminated
      <3> QED BY <3>1, <3>2
    <2>2. timedOut' \in BOOLEAN /\ UNCHANGED <<stray, written, result>>
      BY <1>7 DEF TimeOut
    <2> QED BY <2>1, <2>2 DEF Process
  <1>8. CASE Collect
    <2>1. result' \in 0 .. 256
      BY <1>8 DEF Collect, Process
    <2> QED BY <1>8, <2>1 DEF Collect, Process, walk
  <1>9. CASE UNCHANGED vars
    BY <1>9 DEF vars, walk, parent, Process
  <1> QED BY <1>3, <1>4, <1>5, <1>6, <1>7, <1>8, <1>9 DEF Next

LEMMA InitWalk == Init => Walk /\ Process
  <1> SUFFICES ASSUME Init PROVE Walk /\ Process
    OBVIOUS
  <1>1. PathOK(frames) /\ running = NoRunnable
    BY DEF Init, PathOK
  <1>2. verdict \in [Nodes -> Verdicts] /\ summary \in Summaries /\ summary.failed = 0
    BY DEF Init, Verdicts, Summaries
  <1>3. Walk
    <2>1. WalkTypeOK
      BY <1>1 DEF WalkTypeOK
    <2>2. BailGuard
      BY <1>2 DEF Init, BailGuard
    <2> QED BY <1>2, <2>1, <2>2 DEF Init, Walk
  <1>4. Process
    <2>1. MaxStray \in Nat
      BY TreeAssumption
    <2>2. stray \in 0 .. MaxStray /\ code \in 0 .. 255 /\ result \in 0 .. 256
      BY <2>1 DEF Init, NoResult
    <2> QED BY <2>2 DEF Init, Process
  <1> QED BY <1>3, <1>4

LEMMA WalkHolds == Spec => [](Walk /\ Process)
  <1>1. Walk /\ Process /\ [Next]_vars => (Walk /\ Process)'
    BY StepWalk, StepProcess
  <1> QED BY InitWalk, <1>1, PTL DEF Spec

\* The call stack is a path of the tree at every moment, whatever is selected,
\* fails, is cancelled or throws late, and what the process and its parent
\* report is an exit code (runtime.ts, executeSuite; run.ts, runLrs).
THEOREM SuiteTypeCorrect == Spec => []SuiteTypeOK
  <1>1. Walk /\ Process => SuiteTypeOK
    BY DEF Walk, Process, SuiteTypeOK, Summaries
  <1> QED BY WalkHolds, <1>1, PTL

\* With bail nothing is started any more once something has failed, for every
\* tree with hooks anywhere (runtime.ts, cancelRemaining).
THEOREM BailStopsTheRun == Spec => []NothingAfterBail
  <1>1. Walk => NothingAfterBail
    BY DEF Walk, BailGuard, NothingAfterBail
  <1> QED BY WalkHolds, <1>1, PTL

(***************************************************************************)
(* What is still ahead: the children the suites entered have not come to,  *)
(* the one the innermost is at included.                                   *)
(***************************************************************************)

Later(f) == {n \in Nodes : \E k \in 1 .. Len(ExecutionItems(f.suite)) :
                             k > f.at /\ ExecutionItems(f.suite)[k] = <<n, 0>>}
From(f)  == {n \in Nodes : \E k \in 1 .. Len(ExecutionItems(f.suite)) :
                             k >= f.at /\ ExecutionItems(f.suite)[k] = <<n, 0>>}

OnStack(fs) == {fs[i].suite : i \in 1 .. Len(fs)}
Rest(fs)    == {n \in Nodes : \E i \in 1 .. Len(fs) - 1 : n \in Later(fs[i])}
Ahead(fs)   == Rest(fs) \union IF fs = <<>> THEN {} ELSE From(fs[Len(fs)])

Rooted(fs) == PathOK(fs) /\ (fs # <<>> => fs[1].suite = Root)

LEMMA LaterChild ==
  ASSUME NEW f \in Frame
  PROVE  /\ Later(f) \subseteq From(f)
         /\ From(f) \subseteq ToSet(Children[f.suite])
  <1>1. f.suite \in Suites /\ f.at \in Nat
    BY DEF Frame
  <1>2. ASSUME NEW n \in From(f) PROVE n \in ToSet(Children[f.suite])
    <2>1. PICK k \in 1 .. Len(ExecutionItems(f.suite)) : ExecutionItems(f.suite)[k] = <<n, 0>>
      BY <1>2 DEF From
    <2>2. k \in Nat /\ k # 0 /\ Hooks[f.suite] \in Nat
      BY <1>1, ItemsType
    <2>3. CASE k <= Hooks[f.suite]
      <3>1. ExecutionItems(f.suite)[k] = <<f.suite, k>>
        BY <1>1, <2>3, ItemsType
      <3> QED BY <2>1, <2>2, <3>1
    <2>4. CASE k > Hooks[f.suite]
      BY <1>1, <2>1, <2>4, ItemsType
    <2> QED BY <2>2, <2>3, <2>4
  <1>3. Later(f) \subseteq From(f)
    BY <1>1 DEF Later, From
  <1> QED BY <1>2, <1>3

(* The item a frame is at is not among its later ones, nor anything below.  *)
LEMMA LaterApart ==
  ASSUME NEW f \in Frame, f.at <= Len(ExecutionItems(f.suite)), NEW n,
         ExecutionItems(f.suite)[f.at] = <<n, 0>>, NEW m \in Later(f)
  PROVE  /\ n \in ToSet(Children[f.suite]) /\ m # n
         /\ Down(m) \cap Down(n) = {}
  <1>1. /\ f.suite \in Suites /\ f.at \in 1 .. Len(ExecutionItems(f.suite))
        /\ Hooks[f.suite] \in Nat
    BY ItemsType DEF Frame
  <1>2. PICK k \in 1 .. Len(ExecutionItems(f.suite)) :
          k > f.at /\ ExecutionItems(f.suite)[k] = <<m, 0>>
    BY DEF Later
  <1>3. f.at > Hooks[f.suite]
    <2>1. f.at <= Hooks[f.suite] => ExecutionItems(f.suite)[f.at] = <<f.suite, f.at>>
      BY <1>1, ItemsType
    <2> QED BY <1>1, <2>1
  <1>4. k > Hooks[f.suite] /\ k # f.at
    BY <1>1, <1>2, <1>3
  <1>5. m # n
    BY <1>1, <1>2, <1>3, <1>4, ChildItems
  <1>6. n \in ToSet(Children[f.suite])
    BY <1>1, <1>3, ItemsType
  <1>7. m \in ToSet(Children[f.suite])
    BY LaterChild
  <1> QED BY <1>1, <1>5, <1>6, <1>7, SiblingsApart

(* Each suite on the stack is a child of the one before it.                 *)
LEMMA StackSteps ==
  ASSUME NEW fs, PathOK(fs), NEW i \in 1 .. Len(fs) - 1
  PROVE  /\ fs[i] \in Frame /\ fs[i + 1] \in Frame /\ fs[i].suite \in Suites
         /\ fs[i + 1].suite \in Nodes \ {Root} /\ Parent(fs[i + 1].suite) = fs[i].suite
         /\ \A m \in Later(fs[i]) : Down(m) \cap Down(fs[i + 1].suite) = {}
  <1>1. fs \in Seq(Frame) /\ Len(fs) \in Nat /\ Leads(fs[i], fs[i + 1])
    BY PathMeans
  <1>2. i \in 1 .. Len(fs) /\ i + 1 \in 1 .. Len(fs)
    BY <1>1
  <1>3. fs[i] \in Frame /\ fs[i + 1] \in Frame
    BY <1>1, <1>2
  <1>4. fs[i + 1].suite \in ToSet(Children[fs[i].suite])
    <2>1. fs[i + 1].suite \in From(fs[i])
      <3>1. fs[i].at \in 1 .. Len(ExecutionItems(fs[i].suite)) /\ fs[i + 1].suite \in Nodes
        BY <1>1, <1>3, ItemsType, SMTT(30) DEF Leads, Frame, Nodes
      <3> QED BY <1>1, <3>1 DEF From, Leads
    <2> QED BY <1>3, <2>1, LaterChild
  <1>5. fs[i].suite \in Suites
    BY <1>3 DEF Frame
  <1>6. \A m \in Later(fs[i]) : Down(m) \cap Down(fs[i + 1].suite) = {}
    BY <1>1, <1>3, LaterApart DEF Leads
  <1> QED BY <1>3, <1>4, <1>5, <1>6, ParentType

(* A suite deeper on the stack is below every one entered before it.        *)
LEMMA StackBelow ==
  ASSUME NEW fs, PathOK(fs), NEW i \in 1 .. Len(fs), NEW j \in i .. Len(fs)
  PROVE  Down(fs[j].suite) \subseteq Down(fs[i].suite)
  <1>1. fs \in Seq(Frame) /\ Len(fs) \in Nat /\ i \in Nat /\ i >= 1
    BY PathMeans
  <1>2. \A k \in 1 .. Len(fs) : fs[k].suite \in Suites /\ fs[k].suite \in Nodes
    <2>1. \A k \in 1 .. Len(fs) : fs[k] \in Frame
      BY <1>1
    <2> QED BY <2>1 DEF Frame, Nodes
  <1> DEFINE C == {fs[k].suite : k \in {l \in i .. Len(fs) : fs[l].suite \notin Down(fs[i].suite)}}
  <1>3. ASSUME NEW x \in C PROVE x # Root /\ Parent(x) \in C
    <2>1. PICK k \in i .. Len(fs) : x = fs[k].suite /\ x \notin Down(fs[i].suite)
      OBVIOUS
    <2>2. k # i
      BY <2>1 DEF Down
    <2>3. k - 1 \in 1 .. Len(fs) - 1 /\ k - 1 \in i .. Len(fs) /\ (k - 1) + 1 = k
      BY <1>1, <2>2
    <2>4. x \in Nodes \ {Root} /\ Parent(x) = fs[k - 1].suite
      BY <2>1, <2>3, StackSteps
    <2>5. Parent(x) \notin Down(fs[i].suite)
      <3>1. Above[x] = {Parent(x)} \union Above[Parent(x)] /\ Parent(x) \in Nodes
        BY <2>4, AboveIs, ParentType DEF Nodes
      <3> QED BY <2>1, <2>4, <3>1 DEF Down, Below
    <2> QED BY <2>3, <2>4, <2>5
  <1>4. C \subseteq Nodes
    BY <1>1, <1>2
  <1> HIDE DEF C
  <1>5. C = {}
    BY <1>3, <1>4, WayUp
  <1>6. fs[j].suite \in Down(fs[i].suite)
    BY <1>5 DEF C
  <1>7. i \in 1 .. Len(fs) /\ j \in 1 .. Len(fs)
    BY <1>1
  <1> QED BY <1>2, <1>6, <1>7, AboveTransitive DEF Down, Below

(* What is above the innermost suite is on the stack.                       *)
LEMMA StackAbove ==
  ASSUME NEW fs, Rooted(fs), fs # <<>>
  PROVE  Above[fs[Len(fs)].suite] \subseteq OnStack(fs)
  <1>1. PathOK(fs) /\ fs \in Seq(Frame) /\ Len(fs) \in Nat \ {0} /\ fs[1].suite = Root
    BY PathMeans, TopFrame DEF Rooted
  <1>2. \A k \in 1 .. Len(fs) : fs[k].suite \in Nodes
    <2>1. \A k \in 1 .. Len(fs) : fs[k] \in Frame
      BY <1>1
    <2> QED BY <2>1 DEF Frame, Nodes
  <1> DEFINE C == {fs[k].suite : k \in {l \in 1 .. Len(fs) : ~(Above[fs[l].suite] \subseteq OnStack(fs))}}
  <1>3. ASSUME NEW x \in C PROVE x # Root /\ Parent(x) \in C
    <2>1. PICK k \in 1 .. Len(fs) : x = fs[k].suite /\ ~(Above[x] \subseteq OnStack(fs))
      OBVIOUS
    <2>2. x \in Nodes /\ x # Root
      <3>1. Root \in Nodes /\ Above[Root] = {}
        BY TreeAssumption, AboveIs DEF Nodes
      <3> QED BY <1>2, <2>1, <3>1
    <2>3. k # 1
      BY <1>1, <2>1, <2>2
    <2>4. k - 1 \in 1 .. Len(fs) - 1 /\ k - 1 \in 1 .. Len(fs) /\ (k - 1) + 1 = k
      BY <1>1, <2>3
    <2>5. Parent(x) = fs[k - 1].suite
      BY <1>1, <2>1, <2>4, StackSteps
    <2>6. Above[x] = {Parent(x)} \union Above[Parent(x)]
      BY <2>2, AboveIs
    <2>7. Parent(x) \in OnStack(fs)
      BY <2>4, <2>5 DEF OnStack
    <2> QED BY <2>1, <2>2, <2>4, <2>5, <2>6, <2>7
  <1>4. C \subseteq Nodes
    BY <1>2
  <1> HIDE DEF C
  <1>5. C = {}
    BY <1>3, <1>4, WayUp
  <1>6. Len(fs) \in 1 .. Len(fs)
    BY <1>1
  <1> QED BY <1>5, <1>6 DEF C

LEMMA RestApart ==
  ASSUME NEW fs, PathOK(fs), fs # <<>>, NEW m \in Rest(fs)
  PROVE  Down(m) \cap Down(fs[Len(fs)].suite) = {}
  <1>1. Len(fs) \in Nat \ {0}
    BY TopFrame
  <1>2. PICK i \in 1 .. Len(fs) - 1 : m \in Later(fs[i])
    BY DEF Rest
  <1>3. i + 1 \in 1 .. Len(fs) /\ Len(fs) \in (i + 1) .. Len(fs)
    BY <1>1
  <1>4. Down(m) \cap Down(fs[i + 1].suite) = {}
    BY <1>2, StackSteps
  <1>5. Down(fs[Len(fs)].suite) \subseteq Down(fs[i + 1].suite)
    BY <1>3, StackBelow
  <1> QED BY <1>4, <1>5

(* The item the walk is at is a child of the innermost suite, ahead, and    *)
(* apart from everything else ahead.                                        *)
LEMMA ItemApart ==
  ASSUME NEW fs, PathOK(fs), OnItem(fs), NEW n, ItemOf(fs) = <<n, 0>>
  PROVE  /\ n \in ToSet(Children[fs[Len(fs)].suite])
         /\ Ahead(fs) = Rest(fs) \union Later(fs[Len(fs)]) \union {n}
         /\ \A m \in Rest(fs) \union Later(fs[Len(fs)]) : Down(m) \cap Down(n) = {}
  <1> DEFINE f == fs[Len(fs)]
  <1>1. /\ f \in Frame /\ f.suite \in Suites /\ fs # <<>>
        /\ f.at <= Len(ExecutionItems(f.suite)) /\ ExecutionItems(f.suite)[f.at] = <<n, 0>>
    BY TopFrame DEF OnItem, ItemOf
  <1>2. f.at \in Nat \ {0} /\ Len(ExecutionItems(f.suite)) \in Nat
    BY <1>1, ItemsType DEF Frame
  <1>3. n \in ToSet(Children[f.suite])
    <2>1. f.at > Hooks[f.suite]
      <3>1. f.at <= Hooks[f.suite] => ExecutionItems(f.suite)[f.at] = <<f.suite, f.at>>
        BY <1>1, <1>2, ItemsType
      <3>2. Hooks[f.suite] \in Nat
        BY <1>1, ItemsType
      <3> QED BY <1>1, <1>2, <3>1, <3>2
    <2> QED BY <1>1, <1>2, <2>1, ItemsType
  <1>4. From(f) = Later(f) \union {n}
    <2>1. n \in Nodes
      BY <1>1, <1>3, ParentType
    <2>2. \A k \in 1 .. Len(ExecutionItems(f.suite)) : k >= f.at <=> k > f.at \/ k = f.at
      BY <1>2
    <2>3. f.at \in 1 .. Len(ExecutionItems(f.suite))
      BY <1>1, <1>2
    <2> HIDE DEF f
    <2> QED BY <1>1, <2>1, <2>2, <2>3 DEF From, Later
  <1>5. \A m \in Later(f) : Down(m) \cap Down(n) = {}
    BY <1>1, LaterApart
  <1>6. \A m \in Rest(fs) : Down(m) \cap Down(n) = {}
    <2>1. Down(n) \subseteq Down(f.suite)
      BY <1>1, <1>3, DownOfChild DEF Down
    <2> QED BY <1>1, <2>1, RestApart
  <1> QED BY <1>1, <1>3, <1>4, <1>5, <1>6 DEF Ahead

(* Before a hook every child of its suite is ahead.                         *)
LEMMA AheadAtHook ==
  ASSUME NEW fs, PathOK(fs), OnItem(fs), ItemOf(fs)[2] # 0
  PROVE  /\ Ahead(fs) = Rest(fs) \union ToSet(Children[fs[Len(fs)].suite])
         /\ Later(fs[Len(fs)]) = ToSet(Children[fs[Len(fs)].suite])
  <1> DEFINE f == fs[Len(fs)]
             h == Hooks[f.suite]
  <1>1. /\ f \in Frame /\ f.suite \in Suites /\ fs # <<>> /\ f.at \in Nat \ {0}
        /\ f.at <= Len(ExecutionItems(f.suite)) /\ ExecutionItems(f.suite)[f.at][2] # 0
        /\ h \in Nat
    BY TopFrame, ItemsType DEF OnItem, ItemOf
  <1>2. Len(ExecutionItems(f.suite)) \in Nat
    BY <1>1, ItemsType
  <1>3. f.at <= h
    BY <1>1, <1>2, ItemsType
  <1>4. ASSUME NEW n \in ToSet(Children[f.suite]) PROVE n \in Later(f)
    <2>1. n \in Nodes
      BY <1>1, ParentType
    <2>2. PICK k \in 1 .. Len(ExecutionItems(f.suite)) : k > h /\ ExecutionItems(f.suite)[k] = <<n, 0>>
      BY <1>1, ChildItems
    <2>3. k > f.at
      BY <1>1, <1>2, <1>3, <2>2
    <2> QED BY <2>1, <2>2, <2>3 DEF Later
  <1> QED BY <1>1, <1>4, LaterChild DEF Ahead

(* Behind its last item a suite has nothing ahead.                          *)
LEMMA AheadAtEnd ==
  ASSUME NEW fs, PathOK(fs), fs # <<>>, ~OnItem(fs)
  PROVE  Ahead(fs) = Rest(fs)
  <1> DEFINE f == fs[Len(fs)]
  <1>1. f.suite \in Suites /\ f.at \in Nat \ {0} /\ ~(f.at <= Len(ExecutionItems(f.suite)))
    BY TopFrame DEF OnItem
  <1>2. Len(ExecutionItems(f.suite)) \in Nat
    BY <1>1, ItemsType
  <1>3. \A k \in 1 .. Len(ExecutionItems(f.suite)) : ~(k >= f.at)
    BY <1>1, <1>2
  <1>4. From(f) = {}
    BY <1>3 DEF From
  <1> QED BY <1>4 DEF Ahead

LEMMA PastFrames ==
  ASSUME NEW fs, PathOK(fs), OnItem(fs)
  PROVE  /\ Len(Past(fs)) = Len(fs) /\ Len(fs) \in Nat \ {0}
         /\ \A i \in 1 .. Len(fs) - 1 : Past(fs)[i] = fs[i]
         /\ \A i \in 1 .. Len(fs) : Past(fs)[i].suite = fs[i].suite
  <1> DEFINE n == Len(fs)
  <1>1. fs \in Seq(Frame) /\ n \in Nat \ {0} /\ DOMAIN fs = 1 .. n
    BY TopFrame, PathMeans DEF OnItem
  <1>2. \A i \in 1 .. n - 1 : Past(fs)[i] = fs[i]
    BY <1>1 DEF Past
  <1>3. Len(Past(fs)) = n /\ Past(fs)[n].suite = fs[n].suite
    BY PastPath
  <1>4. \A i \in 1 .. n : i = n \/ i \in 1 .. n - 1
    <2> HIDE DEF n
    <2> QED BY <1>1
  <1>5. \A i \in 1 .. n : Past(fs)[i].suite = fs[i].suite
    BY <1>2, <1>3, <1>4, Zenon
  <1> QED BY <1>1, <1>2, <1>3, <1>5

LEMMA AheadPast ==
  ASSUME NEW fs, Rooted(fs), OnItem(fs)
  PROVE  /\ Rooted(Past(fs)) /\ OnStack(Past(fs)) = OnStack(fs)
         /\ Ahead(Past(fs)) = Rest(fs) \union Later(fs[Len(fs)])
  <1> DEFINE n == Len(fs)
             past == Past(fs)
  <1>1. /\ PathOK(past) /\ past # <<>> /\ Len(past) = n /\ n \in Nat \ {0}
        /\ past[n].suite = fs[n].suite /\ past[n].at = fs[n].at + 1
        /\ \A i \in 1 .. n - 1 : past[i] = fs[i]
        /\ \A i \in 1 .. n : past[i].suite = fs[i].suite
    BY PastPath, PastFrames DEF Rooted
  <1>2. fs[n].suite \in Suites /\ fs[n].at \in Nat
    BY TopFrame DEF Rooted, OnItem
  <1> HIDE DEF n, past
  <1>3. Rest(past) = Rest(fs)
    <2>1. \A i \in 1 .. n - 1 : Later(past[i]) = Later(fs[i])
      BY <1>1
    <2> QED BY <1>1, <2>1 DEF Rest, n
  <1>4. From(past[n]) = Later(fs[n])
    <2>1. \A k \in 1 .. Len(ExecutionItems(fs[n].suite)) : k >= fs[n].at + 1 <=> k > fs[n].at
      BY <1>2
    <2> QED BY <1>1, <2>1 DEF From, Later
  <1>5. OnStack(past) = OnStack(fs)
    BY <1>1 DEF OnStack, n
  <1>6. past[1].suite = Root
    <2>1. 1 \in 1 .. n
      BY <1>1
    <2> QED BY <1>1, <2>1 DEF Rooted, OnItem
  <1> QED BY <1>1, <1>3, <1>4, <1>5, <1>6 DEF Ahead, Rooted, n, past

(* Leaving the innermost suite.                                             *)
Up(fs) == IF Len(fs) = 1 THEN <<>> ELSE Past(Front(fs))

LEMMA FrontFrames ==
  ASSUME NEW fs, PathOK(fs), Len(fs) > 1
  PROVE  /\ Len(fs) \in Nat /\ Len(Front(fs)) = Len(fs) - 1
         /\ \A i \in 1 .. Len(fs) - 1 : Front(fs)[i] = fs[i]
  <1> DEFINE n == Len(fs)
             m == n - 1
             front == Front(fs)
  <1>1. fs \in Seq(Frame) /\ n \in Nat /\ n > 1
    BY PathMeans
  <1>2. front = SubSeq(fs, 1, n - 1) /\ front = Front(fs) /\ n = Len(fs) /\ m = n - 1
    BY DEF Front
  <1> HIDE DEF n, m, front
  <1>3. m \in Int /\ 1 \in Int /\ 1 <= m /\ m - 1 + 1 = m
    BY <1>1, <1>2
  <1>4. \A i \in 1 .. m : fs[i] \in Frame
    BY <1>1, <1>2
  <1>5. Len(SubSeq(fs, 1, m)) = IF 1 <= m THEN m - 1 + 1 ELSE 0
    BY <1>3, <1>4, SubSeqProperties, ZenonT(40)
  <1>6. Len(front) = m
    BY <1>2, <1>3, <1>5, Zenon
  <1>7. \A i \in 1 .. n - 1 : front[i] = fs[i]
    BY <1>1, <1>2
  <1> QED BY <1>1, <1>2, <1>6, <1>7

LEMMA AheadUp ==
  ASSUME NEW fs, Rooted(fs), fs # <<>>
  PROVE  /\ Rooted(Up(fs)) /\ Ahead(Up(fs)) = Rest(fs)
         /\ OnStack(Up(fs)) = OnStack(fs) \ {fs[Len(fs)].suite}
         /\ fs[Len(fs)].suite # Root => Parent(fs[Len(fs)].suite) \in OnStack(Up(fs))
         /\ fs[Len(fs)].suite = Root => Up(fs) = <<>>
  <1> DEFINE n == Len(fs)
  <1>1. PathOK(fs) /\ fs \in Seq(Frame) /\ n \in Nat \ {0} /\ fs[1].suite = Root
    BY PathMeans, TopFrame DEF Rooted
  <1>2. CASE n = 1
    <2>1. Up(fs) = <<>> /\ Rest(fs) = {} /\ OnStack(fs) = {Root}
      BY <1>1, <1>2 DEF Up, Rest, OnStack
    <2>2. PathOK(<<>>) /\ Rest(<<>>) = {} /\ OnStack(<<>>) = {}
      BY DEF PathOK, Rest, OnStack
    <2> QED BY <1>1, <1>2, <2>1, <2>2 DEF Rooted, Ahead
  <1>3. CASE n # 1
    <2> DEFINE front == Front(fs)
    <2>1. n > 1
      <3>1. \A k \in Nat \ {0} : k # 1 => k > 1
        OBVIOUS
      <3> QED BY <1>1, <1>3, <3>1, Zenon
    <2>2. /\ PathOK(front) /\ OnItem(front) /\ Len(front) = n - 1
          /\ \A i \in 1 .. n - 1 : front[i] = fs[i]
      BY <1>1, <2>1, FrontPath, FrontFrames
    <2>3. Up(fs) = Past(front)
      BY <1>3 DEF Up
    <2>4. Rooted(front) /\ front # <<>>
      <3>1. 1 \in 1 .. n - 1
        BY <1>1, <2>1
      <3> QED BY <1>1, <2>2, <3>1 DEF Rooted, OnItem
    <2>5. /\ Rooted(Past(front)) /\ OnStack(Past(front)) = OnStack(front)
          /\ Ahead(Past(front)) = Rest(front) \union Later(front[n - 1])
      BY <2>2, <2>4, AheadPast
    <2>6. /\ n - 1 \in 1 .. n - 1 /\ (n - 1) + 1 = n /\ n \in 1 .. n
          /\ \A i \in 1 .. n - 1 : i \in 1 .. n /\ (i = n - 1 \/ i \in 1 .. (n - 1) - 1)
          /\ \A i \in 1 .. n : i = n \/ i \in 1 .. n - 1
          /\ \A i \in 1 .. (n - 1) - 1 : i \in 1 .. n - 1
      BY <1>1, <2>1
    <2>7. Rest(fs) = Rest(front) \union Later(fs[n - 1])
      <3>1. \A m : m \in Rest(fs) <=> m \in Nodes /\ \E i \in 1 .. n - 1 : m \in Later(fs[i])
        BY DEF Rest
      <3>2. \A m : m \in Rest(front) <=> m \in Nodes /\ \E i \in 1 .. (n - 1) - 1 : m \in Later(front[i])
        BY <2>2 DEF Rest
      <3>3. Later(fs[n - 1]) \subseteq Nodes
        BY DEF Later
      <3> HIDE DEF n, front
      <3> QED BY <2>2, <2>6, <3>1, <3>2, <3>3
    <2>8. fs[n].suite # Root /\ Parent(fs[n].suite) = fs[n - 1].suite
      <3> DEFINE i == n - 1
      <3>1. i \in 1 .. Len(fs) - 1 /\ i + 1 = n
        BY <2>6
      <3> HIDE DEF i
      <3>2. fs[i + 1].suite \in Nodes \ {Root} /\ Parent(fs[i + 1].suite) = fs[i].suite
        BY <1>1, <3>1, StackSteps
      <3> QED BY <3>1, <3>2, SMTT(30) DEF i
    <2>9. fs[n - 1].suite \in OnStack(front) /\ OnStack(fs) = OnStack(front) \union {fs[n].suite}
      BY <2>2, <2>6 DEF OnStack
    <2>10. fs[n].suite \notin OnStack(front)
      <3> SUFFICES ASSUME NEW i \in 1 .. n - 1, fs[i].suite = fs[n].suite PROVE FALSE
        BY <2>2 DEF OnStack
      <3>1. i + 1 \in 1 .. n /\ n \in (i + 1) .. n
        BY <1>1
      <3>2. /\ Down(fs[n].suite) \subseteq Down(fs[i + 1].suite)
            /\ fs[i + 1].suite \in Nodes \ {Root} /\ Parent(fs[i + 1].suite) = fs[i].suite
            /\ fs[i].suite \in Suites
        BY <1>1, <3>1, StackBelow, StackSteps
      <3>3. fs[i].suite \notin Down(fs[i + 1].suite)
        BY <3>2, ParentType, DownOfChild
      <3> QED BY <3>2, <3>3 DEF Down
    <2> HIDE DEF front, n
    <2> QED BY <2>2, <2>3, <2>5, <2>6, <2>7, <2>8, <2>9, <2>10 DEF n
  <1> QED BY <1>2, <1>3

LEMMA AheadPush ==
  ASSUME NEW fs, Rooted(fs), OnItem(fs), NEW s \in Suites, ItemOf(fs) = <<s, 0>>
  PROVE  LET deeper == Append(fs, [suite |-> s, at |-> 1])
         IN /\ Rooted(deeper) /\ OnStack(deeper) = OnStack(fs) \union {s}
            /\ Ahead(deeper) = Rest(fs) \union Later(fs[Len(fs)]) \union ToSet(Children[s])
  <1> DEFINE n == Len(fs)
             new == [suite |-> s, at |-> 1]
             deeper == Append(fs, new)
  <1>1. PathOK(fs) /\ fs \in Seq(Frame) /\ n \in Nat \ {0} /\ fs[1].suite = Root
    BY PathMeans, TopFrame DEF Rooted, OnItem
  <1>2. PathOK(deeper)
    BY <1>1, PushPath
  <1>3. new \in Frame /\ new.suite = s /\ new.at = 1
    BY DEF Frame
  <1>4. From(new) = ToSet(Children[s])
    <2>1. ASSUME NEW m \in ToSet(Children[s]) PROVE m \in From(new)
      <3>1. m \in Nodes
        BY ParentType
      <3>2. PICK k \in 1 .. Len(ExecutionItems(s)) : ExecutionItems(s)[k] = <<m, 0>>
        BY ChildItems
      <3>3. k >= 1
        BY ItemsType
      <3> QED BY <1>3, <3>1, <3>2, <3>3 DEF From
    <2> QED BY <1>3, <2>1, LaterChild
  <1>5. deeper = Append(fs, new) /\ n = Len(fs)
    OBVIOUS
  <1>6. deeper = Append(fs, [suite |-> s, at |-> 1])
    OBVIOUS
  <1> HIDE DEF n, new, deeper
  <1>7. /\ Len(deeper) = n + 1 /\ deeper[n + 1] = new /\ deeper # <<>>
        /\ \A i \in 1 .. n : deeper[i] = fs[i]
    BY <1>1, <1>3, <1>5
  <1>8. /\ n \in 1 .. n /\ 1 \in 1 .. n /\ (n + 1) - 1 = n
        /\ \A i \in 1 .. n : i = n \/ i \in 1 .. n - 1
        /\ \A i \in 1 .. n - 1 : i \in 1 .. n
        /\ \A i \in 1 .. n : i \in 1 .. n + 1
        /\ n + 1 \in 1 .. n + 1
        /\ \A i \in 1 .. n + 1 : i = n + 1 \/ i \in 1 .. n
    BY <1>1
  <1>9. Rest(deeper) = Rest(fs) \union Later(fs[n])
    <2>1. \A m : m \in Rest(fs) <=> m \in Nodes /\ \E i \in 1 .. n - 1 : m \in Later(fs[i])
      BY <1>5 DEF Rest
    <2>2. \A m : m \in Rest(deeper) <=> m \in Nodes /\ \E i \in 1 .. n : m \in Later(deeper[i])
      BY <1>7, <1>8 DEF Rest
    <2>3. Later(fs[n]) \subseteq Nodes
      BY DEF Later
    <2> QED BY <1>7, <1>8, <2>1, <2>2, <2>3
  <1>10. OnStack(deeper) = OnStack(fs) \union {s}
    <2>1. OnStack(deeper) = {deeper[i].suite : i \in 1 .. n + 1}
      BY <1>7 DEF OnStack
    <2>2. OnStack(fs) = {fs[i].suite : i \in 1 .. n}
      BY <1>5 DEF OnStack
    <2> QED BY <1>3, <1>7, <1>8, <2>1, <2>2
  <1>11. Rooted(deeper)
    BY <1>1, <1>2, <1>7, <1>8 DEF Rooted, new, deeper
  <1>12. Ahead(deeper) = Rest(fs) \union Later(fs[n]) \union ToSet(Children[s])
    BY <1>4, <1>7, <1>9 DEF Ahead
  <1> QED BY <1>5, <1>6, <1>10, <1>11, <1>12

(***************************************************************************)
(* The course of the walk.  What is ahead has been neither judged nor       *)
(* broken, with all that is below it; no suite it is in is broken; and what *)
(* was run has no broken suite around it.                                   *)
(***************************************************************************)

Fresh(n) == \A m \in Down(n) : verdict[m] = "none" /\ m \notin broken

OnCourse ==
    /\ Rooted(frames)
    /\ OnStack(frames) \cap broken = {}
    /\ \A n \in Ahead(frames) : Fresh(n)

Course ==
    /\ OnCourse
    /\ \A c \in Cases : verdict[c] \in {"passed", "failed", "skipped"} => Above[c] \cap broken = {}
    /\ stage = "loading" => broken = {} /\ \A n \in Nodes : verdict[n] = "none"

LEMMA AheadNodes ==
  ASSUME NEW fs
  PROVE  /\ Rest(fs) \subseteq Nodes /\ Ahead(fs) \subseteq Nodes
         /\ \A f : Later(f) \subseteq Nodes
         /\ \A n \in Nodes : Down(n) \subseteq Nodes /\ n \in Down(n)
  BY DEF Rest, Ahead, Later, From, Down, Below

(* What a step does elsewhere leaves a node fresh.                          *)
LEMMA StaysFresh ==
  ASSUME NEW n \in Nodes, Fresh(n), NEW X, X \cap Down(n) = {},
         \A m \in Nodes \ X : verdict'[m] = verdict[m], broken' \subseteq broken \union X
  PROVE  Fresh(n)'
  <1>1. Down(n) \subseteq Nodes
    BY AheadNodes
  <1>2. ASSUME NEW m \in Down(n) PROVE verdict'[m] = "none" /\ m \notin broken'
    <2>1. m \in Nodes \ X /\ verdict[m] = "none" /\ m \notin broken
      BY <1>1 DEF Fresh
    <2> QED BY <2>1
  <1> QED BY <1>2 DEF Fresh

(* The case or the suite that is come to is fresh, and the suites around it *)
(* are those on the stack.                                                  *)
LEMMA ItemFound ==
  ASSUME OnCourse, OnItem(frames), NEW n, ItemOf(frames) = <<n, 0>>
  PROVE  /\ n \in Nodes \ {Root} /\ n \in Ahead(frames) /\ Fresh(n)
         /\ Parent(n) \in OnStack(frames) /\ Above[n] \subseteq OnStack(frames)
         /\ verdict[n] = "none" /\ n \notin broken
  <1> DEFINE s == frames[Len(frames)].suite
  <1>1. PathOK(frames) /\ frames # <<>> /\ s \in Suites /\ Len(frames) \in Nat \ {0}
    BY TopFrame DEF OnCourse, Rooted, OnItem
  <1>2. n \in ToSet(Children[s]) /\ n \in Ahead(frames)
    BY <1>1, ItemApart
  <1>3. n \in Nodes \ {Root} /\ Parent(n) = s
    BY <1>1, <1>2, ParentType
  <1>4. s \in OnStack(frames)
    BY <1>1 DEF OnStack
  <1>5. Above[n] \subseteq OnStack(frames)
    <2>1. Above[n] = {s} \union Above[s]
      BY <1>3, AboveIs
    <2>2. Above[s] \subseteq OnStack(frames)
      BY <1>1, StackAbove DEF OnCourse
    <2> QED BY <1>4, <2>1, <2>2
  <1>6. Fresh(n) /\ n \in Down(n)
    BY <1>2, <1>3, AheadNodes DEF OnCourse
  <1>7. verdict[n] = "none" /\ n \notin broken
    BY <1>6 DEF Fresh
  <1> QED BY <1>2, <1>3, <1>4, <1>5, <1>6, <1>7

(* When a hook runs, its suite is the innermost and all below it is fresh.  *)
LEMMA HookFound ==
  ASSUME Walk, OnCourse, running # NoRunnable, running[1] \in Suites
  PROVE  /\ frames # <<>> /\ OnItem(frames) /\ running[1] = frames[Len(frames)].suite
         /\ running[1] \in OnStack(frames) /\ running[1] \notin broken
         /\ \A m \in Below(running[1]) : verdict[m] = "none" /\ m \notin broken
  <1> DEFINE f == frames[Len(frames)]
  <1>1. /\ frames # <<>> /\ PathOK(frames) /\ OnItem(frames) /\ ItemOf(frames) = running
        /\ running[2] # 0
    <2>1. frames # <<>> /\ Top.at <= Len(ExecutionItems(Top.suite)) /\ running = Here
      BY RunningItem
    <2>2. PathOK(frames) /\ OnItem(frames) /\ ItemOf(frames) = Here
      BY <2>1, HereItem
    <2>3. running[2] # 0
      BY DEF Walk, WalkTypeOK
    <2> QED BY <2>1, <2>2, <2>3
  <1>2. /\ Len(frames) \in Nat \ {0} /\ f.suite \in Suites /\ f.at \in Nat \ {0}
        /\ f.at <= Len(ExecutionItems(f.suite)) /\ ExecutionItems(f.suite)[f.at] = running
    BY <1>1, TopFrame DEF OnItem, ItemOf
  <1>3. running[1] = f.suite
    <2>1. f.at \in 1 .. Len(ExecutionItems(f.suite)) /\ Hooks[f.suite] \in Nat
      BY <1>2, ItemsType
    <2>2. f.at > Hooks[f.suite] => running[2] = 0
      BY <1>2, <2>1, ItemsType
    <2>3. f.at <= Hooks[f.suite]
      BY <1>1, <1>2, <2>1, <2>2
    <2>4. running = <<f.suite, f.at>>
      BY <1>2, <2>1, <2>3, ItemsType
    <2> QED BY <2>4
  <1>4. f.suite \in OnStack(frames)
    BY <1>2 DEF OnStack
  <1>5. ASSUME NEW m \in Below(f.suite) PROVE verdict[m] = "none" /\ m \notin broken
    <2>1. PICK n \in ToSet(Children[f.suite]) : m \in Down(n)
      BY <1>2, BelowChildren
    <2>2. n \in Ahead(frames)
      BY <1>1, AheadAtHook
    <2> QED BY <2>1, <2>2 DEF OnCourse, Fresh
  <1> QED BY <1>1, <1>3, <1>4, <1>5 DEF OnCourse

(* Going on to the next item when only what was come to has changed.        *)
LEMMA GoOnCourse ==
  ASSUME OnCourse, OnItem(frames), frames' = Past(frames), broken' = broken,
         \/ verdict' = verdict
         \/ \E n : ItemOf(frames) = <<n, 0>> /\ \A m \in Nodes \ Down(n) : verdict'[m] = verdict[m]
  PROVE  OnCourse' /\ OnStack(frames') = OnStack(frames)
  <1> DEFINE left == Rest(frames) \union Later(frames[Len(frames)])
  <1>1. Rooted(frames') /\ OnStack(frames') = OnStack(frames) /\ Ahead(frames') = left
    BY AheadPast DEF OnCourse
  <1>2. left \subseteq Ahead(frames) /\ left \subseteq Nodes
    <2>1. frames # <<>> /\ frames[Len(frames)] \in Frame
      BY TopFrame DEF OnItem, OnCourse, Rooted
    <2> QED BY <2>1, LaterChild, AheadNodes DEF Ahead
  <1>3. ASSUME NEW m \in left PROVE Fresh(m)'
    <2>1. Fresh(m) /\ m \in Nodes
      BY <1>2 DEF OnCourse
    <2>2. CASE verdict' = verdict
      BY <2>1, <2>2 DEF Fresh
    <2>3. ASSUME NEW n, ItemOf(frames) = <<n, 0>>, \A k \in Nodes \ Down(n) : verdict'[k] = verdict[k]
          PROVE  Fresh(m)'
      <3>1. Down(n) \cap Down(m) = {}
        BY <2>3, ItemApart DEF OnCourse, Rooted
      <3> QED BY <2>1, <2>3, <3>1, StaysFresh
    <2> QED BY <2>2, <2>3
  <1> QED BY <1>1, <1>3 DEF OnCourse

(* Leaving a suite when only that suite and what is below it has changed.   *)
LEMMA GoUpCourse ==
  ASSUME OnCourse, frames # <<>>, frames' = Up(frames), NEW s, s = frames[Len(frames)].suite,
         broken' \subseteq broken \union {s}, \A m \in Nodes \ Down(s) : verdict'[m] = verdict[m]
  PROVE  /\ OnCourse' /\ OnStack(frames') = OnStack(frames) \ {s}
         /\ s # Root => Parent(s) \in OnStack(frames')
         /\ s = Root => frames' = <<>>
         /\ Ahead(frames') = Rest(frames)
         /\ s \in Suites /\ s \in OnStack(frames)
  <1>1. /\ Rooted(frames') /\ OnStack(frames') = OnStack(frames) \ {s} /\ Ahead(frames') = Rest(frames)
        /\ s # Root => Parent(s) \in OnStack(frames')
        /\ s = Root => frames' = <<>>
    BY AheadUp DEF OnCourse
  <1>2. s \in Suites /\ Len(frames) \in Nat \ {0} /\ PathOK(frames)
    BY TopFrame DEF OnCourse, Rooted
  <1>3. s \in OnStack(frames)
    BY <1>2 DEF OnStack
  <1>4. ASSUME NEW m \in Rest(frames) PROVE Fresh(m)'
    <2>1. m \in Nodes /\ Fresh(m)
      BY AheadNodes DEF OnCourse, Ahead
    <2>2. Down(s) \cap Down(m) = {} /\ s \in Down(s)
      BY <1>2, RestApart DEF Down
    <2>3. broken' \subseteq broken \union Down(s)
      BY <2>2
    <2> QED BY <2>1, <2>2, <2>3, StaysFresh
  <1>5. OnCourse'
    BY <1>1, <1>4 DEF OnCourse
  <1> QED BY <1>1, <1>2, <1>3, <1>5

(* Entering a suite.                                                        *)
LEMMA GoDownCourse ==
  ASSUME OnCourse, OnItem(frames), NEW s \in Suites, ItemOf(frames) = <<s, 0>>,
         frames' = Append(frames, [suite |-> s, at |-> 1]), UNCHANGED <<verdict, broken>>
  PROVE  /\ OnCourse' /\ OnStack(frames') = OnStack(frames) \union {s}
         /\ Ahead(frames) = Rest(frames) \union Later(frames[Len(frames)]) \union {s}
         /\ Ahead(frames') = Rest(frames) \union Later(frames[Len(frames)]) \union ToSet(Children[s])
  <1>1. /\ Rooted(frames') /\ OnStack(frames') = OnStack(frames) \union {s}
        /\ Ahead(frames') = Rest(frames) \union Later(frames[Len(frames)]) \union ToSet(Children[s])
    BY AheadPush DEF OnCourse
  <1>2. Ahead(frames) = Rest(frames) \union Later(frames[Len(frames)]) \union {s}
    BY ItemApart DEF OnCourse, Rooted
  <1>3. Fresh(s) /\ s \notin broken
    BY ItemFound
  <1>4. ASSUME NEW n \in Ahead(frames') PROVE Fresh(n)'
    <2>1. CASE n \in ToSet(Children[s])
      <3>1. Down(n) \subseteq Down(s)
        BY <2>1, DownOfChild DEF Down
      <3> QED BY <1>3, <3>1 DEF Fresh
    <2>2. CASE n \in Ahead(frames)
      BY <2>2 DEF OnCourse, Fresh
    <2> QED BY <1>1, <1>2, <2>1, <2>2
  <1> QED BY <1>1, <1>2, <1>3, <1>4 DEF OnCourse

(***************************************************************************)
(* The steps of the walk by what they do to the path and to the tree.       *)
(***************************************************************************)

(* Only a selected case runs.                                               *)
Chosen == running # NoRunnable /\ running[1] \in Cases => running[1] \in matching

Walking ==
    \/ PassOver \/ SkipCase \/ CancelCase \/ CancelSuite \/ EnterSuite \/ StartRunnable \/ LeaveSuite
    \/ running # NoRunnable /\ (Pass \/ Fail)

Starts ==
    /\ OnItem(frames) /\ running' = ItemOf(frames)
    /\ running'[1] \in Cases => running'[1] \in matching
    /\ UNCHANGED <<frames, verdict, summary, cancelRemaining, broken>>

(* Past a hook, or past what holds nothing that is selected.                *)
Passes ==
    /\ OnItem(frames) /\ frames' = Past(frames) /\ running' = NoRunnable
    /\ \A n \in Nodes : ItemOf(frames) = <<n, 0>> => Down(n) \cap matching = {}
    /\ UNCHANGED <<verdict, summary, cancelRemaining, broken>>

Judges(c, v) ==
    /\ OnItem(frames) /\ ItemOf(frames) = <<c, 0>> /\ c \in matching
    /\ frames' = Past(frames) /\ running' = NoRunnable
    /\ verdict' = [verdict EXCEPT ![c] = v]
    /\ summary' = Count(v)
    /\ v = "cancelled" => cancelRemaining
    /\ cancelRemaining' => cancelRemaining \/ v = "failed"
    /\ UNCHANGED broken

Cancels(s) ==
    /\ OnItem(frames) /\ ItemOf(frames) = <<s, 0>> /\ cancelRemaining
    /\ frames' = Past(frames) /\ running' = NoRunnable
    /\ verdict' = [Cancelled(s) EXCEPT ![s] = "cancelled"]
    /\ summary' = CountAll(summary, "cancelled", Matches(s))
    /\ UNCHANGED <<cancelRemaining, broken>>

Enters(s) ==
    /\ OnItem(frames) /\ ItemOf(frames) = <<s, 0>>
    /\ frames' = Append(frames, [suite |-> s, at |-> 1])
    /\ UNCHANGED <<running, verdict, summary, cancelRemaining, broken>>

Leaves(s) ==
    /\ frames # <<>> /\ ~OnItem(frames) /\ s = frames[Len(frames)].suite
    /\ frames' = Up(frames) /\ running' = NoRunnable
    /\ verdict' = [verdict EXCEPT ![s] = Rollup({verdict[n] : n \in ToSet(Children[s])})]
    /\ UNCHANGED <<summary, cancelRemaining, broken>>

Breaks(s) ==
    /\ running # NoRunnable /\ running[1] = s
    /\ frames' = Up(frames) /\ running' = NoRunnable
    /\ verdict' = [Cancelled(s) EXCEPT ![s] = "failed"]
    /\ summary' = CountAll(Count("failed"), "cancelled", Matches(s))
    /\ broken' = broken \union {s}

Moves ==
    \/ Starts \/ Passes
    \/ \E c \in Cases, v \in Verdicts \ {"none"} : Judges(c, v)
    \/ \E s \in Suites : Cancels(s) \/ Enters(s) \/ Leaves(s) \/ Breaks(s)

LEMMA NothingBelowCases == \A c \in Cases : Below(c) = {} /\ Down(c) = {c}
  <1>1. ASSUME NEW c \in Cases, NEW n \in Below(c) PROVE FALSE
    <2>1. c \in Above[n] /\ n \in Nodes
      BY DEF Below
    <2>2. Above[n] \subseteq Suites
      BY <2>1, AboveSuites
    <2> QED BY <2>1, <2>2, TreeAssumption
  <1> QED BY <1>1 DEF Down

LEMMA AtItemFound ==
  ASSUME Walk, AtItem
  PROVE  /\ OnItem(frames) /\ ItemOf(frames) = Here /\ Here = <<Here[1], Here[2]>>
         /\ Here[1] \in Cases => Here = <<Here[1], 0>>
         /\ running = NoRunnable
  BY HereItem DEF AtItem

LEMMA WalkMoves ==
  ASSUME Walk, Chosen, Walking
  PROVE  Moves
  <1>1. CASE PassOver
    <2>1. /\ OnItem(frames) /\ ItemOf(frames) = Here /\ running = NoRunnable
          /\ frames' = Past(frames) /\ UNCHANGED <<running, verdict, summary, cancelRemaining, broken>>
      BY <1>1, AtItemFound DEF PassOver, AtCase, AtSuite
    <2>2. ASSUME NEW n \in Nodes, Here = <<n, 0>> PROVE Down(n) \cap matching = {}
      <3>1. n = Here[1] /\ matching \subseteq Cases
        BY <2>2 DEF Walk
      <3>2. CASE n \in Cases /\ n \notin matching
        BY <3>2, NothingBelowCases
      <3>3. CASE n \in Suites /\ Matches(n) = {}
        BY <3>1, <3>3, TreeAssumption DEF Down, Matches
      <3> QED BY <1>1, <3>1, <3>2, <3>3 DEF PassOver, AtCase, AtSuite
    <2> QED BY <2>1, <2>2 DEF Moves, Passes
  <1>2. CASE SkipCase \/ CancelCase
    <2>1. /\ AtItem /\ Here[1] \in Cases /\ Here[1] \in matching /\ frames' = Past(frames)
          /\ UNCHANGED <<running, cancelRemaining, broken>>
          /\ \/ verdict' = [verdict EXCEPT ![Here[1]] = "skipped"] /\ summary' = Count("skipped")
             \/ /\ verdict' = [verdict EXCEPT ![Here[1]] = "cancelled"] /\ summary' = Count("cancelled")
                /\ cancelRemaining
      BY <1>2 DEF SkipCase, CancelCase, AtCase
    <2>2. Judges(Here[1], "skipped") \/ Judges(Here[1], "cancelled")
      BY <2>1, AtItemFound DEF Judges
    <2> QED BY <2>1, <2>2 DEF Moves, Verdicts
  <1>3. CASE CancelSuite
    <2>1. Here[1] \in Suites /\ AtItem /\ Here[2] = 0
      BY <1>3 DEF CancelSuite, AtSuite
    <2>2. Cancels(Here[1])
      BY <1>3, <2>1, AtItemFound DEF CancelSuite, Cancels
    <2> QED BY <2>1, <2>2 DEF Moves
  <1>4. CASE EnterSuite
    <2>1. Here[1] \in Suites /\ AtItem /\ Here[2] = 0
      BY <1>4 DEF EnterSuite, AtSuite
    <2>2. Enters(Here[1])
      BY <1>4, <2>1, AtItemFound DEF EnterSuite, Enters
    <2> QED BY <2>1, <2>2 DEF Moves
  <1>5. CASE StartRunnable
    <2>1. AtItem /\ (Here[1] \in Cases => Here[1] \in matching)
      BY <1>5, TreeAssumption DEF StartRunnable, AtHook, RunsCase, AtCase
    <2>2. Starts
      BY <1>5, <2>1, AtItemFound DEF StartRunnable, Starts
    <2> QED BY <2>2 DEF Moves
  <1>6. CASE LeaveSuite
    <2>1. frames # <<>> /\ Top = frames[Len(frames)] /\ PathOK(frames)
      BY <1>6 DEF LeaveSuite, Top, Last, Walk, WalkTypeOK
    <2>2. Top.suite \in Suites /\ Top.at \in Nat
      BY <2>1, TopFrame
    <2>3. ~OnItem(frames)
      <3>1. Len(ExecutionItems(Top.suite)) \in Nat
        BY <2>2, ItemsType
      <3> QED BY <1>6, <2>1, <2>2, <3>1 DEF LeaveSuite, OnItem
    <2>4. running = NoRunnable
      BY <2>1, <2>3 DEF Walk, WalkTypeOK, OnItem
    <2>5. Leaves(Top.suite)
      BY <1>6, <2>1, <2>3, <2>4 DEF LeaveSuite, Leaves, Up
    <2> QED BY <2>2, <2>5 DEF Moves
  <1>7. ASSUME running # NoRunnable
        PROVE  /\ OnItem(frames) /\ ItemOf(frames) = running /\ running = <<running[1], running[2]>>
               /\ running[1] \in Nodes
               /\ running[1] \in Cases => running = <<running[1], 0>>
               /\ running[1] \in Suites => running[2] # 0
    <2>1. frames # <<>> /\ Top.at <= Len(ExecutionItems(Top.suite)) /\ running = Here
      BY <1>7, RunningItem
    <2>2. /\ OnItem(frames) /\ ItemOf(frames) = Here /\ Here = <<Here[1], Here[2]>> /\ Here[1] \in Nodes
          /\ Here[1] \in Cases => Here[2] = 0
      BY <2>1, HereItem
    <2> QED BY <1>7, <2>1, <2>2 DEF Walk, WalkTypeOK
  <1>8. CASE running # NoRunnable /\ Pass
    <2>1. /\ running' = NoRunnable /\ frames' = Past(frames)
          /\ UNCHANGED <<cancelRemaining, broken>> /\ (cancelRemaining' => cancelRemaining)
      BY <1>8 DEF Pass
    <2>0. /\ OnItem(frames) /\ ItemOf(frames) = running /\ running = <<running[1], running[2]>>
          /\ running[1] \in Nodes
          /\ running[1] \in Cases => running = <<running[1], 0>>
          /\ running[1] \in Suites => running[2] # 0
      BY <1>7, <1>8
    <2>2. CASE running[1] \in Cases
      <3>1. verdict' = [verdict EXCEPT ![running[1]] = "passed"] /\ summary' = Count("passed")
        BY <1>8, <2>2 DEF Pass
      <3>2. running[1] \in matching /\ ItemOf(frames) = <<running[1], 0>>
        BY <1>8, <2>0, <2>2 DEF Chosen
      <3>3. "passed" # "cancelled"
        OBVIOUS
      <3>4. Judges(running[1], "passed")
        BY <2>0, <2>1, <3>1, <3>2, <3>3, Zenon DEF Judges
      <3> QED BY <2>2, <3>4 DEF Moves, Verdicts
    <2>3. CASE running[1] \notin Cases
      <3>1. UNCHANGED <<verdict, summary>>
        BY <1>8, <2>3 DEF Pass
      <3>2. running[2] # 0
        BY <2>0, <2>3 DEF Nodes
      <3>3. \A n : ItemOf(frames) # <<n, 0>>
        BY <2>0, <3>2
      <3>4. Passes
        BY <2>0, <2>1, <3>1, <3>3, Zenon DEF Passes
      <3> QED BY <3>4 DEF Moves
    <2> QED BY <2>2, <2>3
  <1>9. CASE running # NoRunnable /\ FailCase
    <2>1. /\ OnItem(frames) /\ ItemOf(frames) = <<running[1], 0>> /\ running[1] \in matching
          /\ frames' = Past(frames) /\ running' = NoRunnable
          /\ verdict' = [verdict EXCEPT ![running[1]] = "failed"] /\ summary' = Count("failed")
          /\ UNCHANGED broken
      BY <1>7, <1>9 DEF FailCase, Chosen
    <2>3. "failed" # "cancelled"
      OBVIOUS
    <2>2. Judges(running[1], "failed")
      BY <2>1, <2>3, Zenon DEF Judges
    <2> QED BY <1>9, <2>2 DEF Moves, Verdicts, FailCase
  <1>10. CASE running # NoRunnable /\ FailHook
    <2>1. Breaks(running[1])
      BY <1>10 DEF FailHook, Breaks, Up
    <2> QED BY <1>10, <2>1 DEF Moves, FailHook
  <1> QED BY <1>1, <1>2, <1>3, <1>4, <1>5, <1>6, <1>8, <1>9, <1>10 DEF Walking, Fail

LEMMA CancelledMeans ==
  ASSUME NEW s \in Suites, NEW v, verdict' = [Cancelled(s) EXCEPT ![s] = v]
  PROVE  /\ verdict'[s] = v
         /\ \A n \in Nodes \ {s} :
              \/ /\ n \in Below(s) /\ verdict[n] = "none" /\ verdict'[n] = "cancelled"
                 /\ n \in matching \/ n \in Suites
              \/ /\ verdict'[n] = verdict[n]
                 /\ n \in Below(s) /\ n \in matching => verdict[n] # "none"
         /\ \A n \in Nodes \ Down(s) : verdict'[n] = verdict[n]
  <1>1. s \in Nodes
    BY DEF Nodes
  <1>2. \A n \in Nodes \ {s} : verdict'[n] = Cancelled(s)[n]
    BY DEF Cancelled
  <1>3. \A n \in Nodes \ {s} : verdict'[n] =
           IF n \in Below(s) /\ verdict[n] = "none" /\ (n \in matching \/ (n \in Suites /\ Matches(n) # {}))
           THEN "cancelled" ELSE verdict[n]
    BY <1>2 DEF Cancelled
  <1>4. verdict'[s] = v
    BY <1>1 DEF Cancelled
  <1> QED BY <1>3, <1>4 DEF Down

(* What a step does to the tree happens below the suite or the case it is  *)
(* at.                                                                     *)
LEMMA MovesOnCourse ==
  ASSUME Walk, OnCourse, Moves
  PROVE  OnCourse'
  <1>1. CASE Starts
    BY <1>1 DEF Starts, OnCourse, Fresh
  <1>2. CASE Passes
    BY <1>2, GoOnCourse DEF Passes
  <1>3. ASSUME NEW c \in Cases, NEW v, Judges(c, v) PROVE OnCourse'
    <2>1. \A m \in Nodes \ Down(c) : verdict'[m] = verdict[m]
      BY <1>3 DEF Judges, Down, Walk
    <2> QED BY <1>3, <2>1, GoOnCourse DEF Judges
  <1>4. ASSUME NEW s \in Suites, Cancels(s) PROVE OnCourse'
    <2>1. \A m \in Nodes \ Down(s) : verdict'[m] = verdict[m]
      <3>1. verdict' = [Cancelled(s) EXCEPT ![s] = "cancelled"]
        BY <1>4 DEF Cancels
      <3> QED BY <3>1, CancelledMeans, Zenon
    <2> QED BY <1>4, <2>1, GoOnCourse DEF Cancels
  <1>5. ASSUME NEW s \in Suites, Enters(s) PROVE OnCourse'
    BY <1>5, GoDownCourse DEF Enters
  <1>6. ASSUME NEW s \in Suites, Leaves(s) PROVE OnCourse'
    <2>1. \A m \in Nodes \ Down(s) : verdict'[m] = verdict[m]
      BY <1>6 DEF Leaves, Down, Walk
    <2> QED BY <1>6, <2>1, GoUpCourse DEF Leaves
  <1>7. ASSUME NEW s \in Suites, Breaks(s) PROVE OnCourse'
    <2>1. \A m \in Nodes \ Down(s) : verdict'[m] = verdict[m]
      <3>1. verdict' = [Cancelled(s) EXCEPT ![s] = "failed"]
        BY <1>7 DEF Breaks
      <3> QED BY <3>1, CancelledMeans, Zenon
    <2>2. frames # <<>> /\ s = frames[Len(frames)].suite
      BY <1>7, HookFound DEF Breaks
    <2>3. broken' \subseteq broken \union {s} /\ frames' = Up(frames)
      BY <1>7 DEF Breaks
    <2> QED BY <2>1, <2>2, <2>3, GoUpCourse
  <1> QED BY <1>1, <1>2, <1>3, <1>4, <1>5, <1>6, <1>7 DEF Moves

Ran == {"passed", "failed", "skipped"}

LEMMA MovesCourse ==
  ASSUME Walk, Course, Moves, stage' # "loading"
  PROVE  Course'
  <1>1. OnCourse /\ OnCourse'
    BY MovesOnCourse DEF Course
  <1>2. \A c \in Cases : verdict[c] \in Ran => Above[c] \cap broken = {}
    BY DEF Course, Ran
  <1> SUFFICES ASSUME NEW x \in Cases, verdict'[x] \in Ran PROVE Above[x] \cap broken' = {}
    BY <1>1 DEF Course, Ran
  <1>3. x \in Nodes /\ x \notin Suites
    BY TreeAssumption DEF Nodes
  <1>4. CASE Starts \/ Passes
    BY <1>2, <1>4 DEF Starts, Passes
  <1>5. ASSUME NEW c \in Cases, NEW v, Judges(c, v) PROVE Above[x] \cap broken' = {}
    <2>1. broken' = broken
      BY <1>5 DEF Judges
    <2>2. CASE x = c
      <3>1. Above[x] \subseteq OnStack(frames)
        BY <1>1, <1>5, <2>2, ItemFound DEF Judges
      <3> QED BY <1>1, <2>1, <3>1 DEF OnCourse
    <2>3. CASE x # c
      <3>1. verdict'[x] = verdict[x]
        BY <1>3, <1>5, <2>3 DEF Judges, Walk
      <3> QED BY <1>2, <2>1, <3>1
    <2> QED BY <2>2, <2>3
  <1>6. ASSUME NEW s \in Suites, Cancels(s) PROVE Above[x] \cap broken' = {}
    <2>1. verdict'[x] = verdict[x] \/ verdict'[x] = "cancelled"
      <3>1. verdict' = [Cancelled(s) EXCEPT ![s] = "cancelled"]
        BY <1>6 DEF Cancels
      <3>2. x \in Nodes \ {s}
        BY <1>3
      <3> QED BY <3>1, <3>2, CancelledMeans, Zenon
    <2>2. verdict'[x] = verdict[x] /\ broken' = broken
      BY <1>6, <2>1 DEF Cancels, Ran
    <2> QED BY <1>2, <2>2
  <1>7. ASSUME NEW s \in Suites, Enters(s) PROVE Above[x] \cap broken' = {}
    BY <1>2, <1>7 DEF Enters
  <1>8. ASSUME NEW s \in Suites, Leaves(s) PROVE Above[x] \cap broken' = {}
    <2>1. verdict'[x] = verdict[x] /\ broken' = broken
      BY <1>3, <1>8 DEF Leaves, Walk
    <2> QED BY <1>2, <2>1
  <1>9. ASSUME NEW s \in Suites, Breaks(s) PROVE Above[x] \cap broken' = {}
    <2>1. verdict'[x] = verdict[x] \/ verdict'[x] = "cancelled"
      <3>1. verdict' = [Cancelled(s) EXCEPT ![s] = "failed"]
        BY <1>9 DEF Breaks
      <3>2. x \in Nodes \ {s}
        BY <1>3
      <3> QED BY <3>1, <3>2, CancelledMeans, Zenon
    <2>2. verdict'[x] = verdict[x] /\ broken' = broken \union {s}
      BY <1>9, <2>1 DEF Breaks, Ran
    <2>3. x \notin Below(s)
      <3>1. \A m \in Below(s) : verdict[m] = "none"
        BY <1>1, <1>9, HookFound DEF Breaks
      <3> QED BY <2>2, <3>1 DEF Ran
    <2> QED BY <1>2, <1>3, <2>2, <2>3 DEF Below
  <1> QED BY <1>4, <1>5, <1>6, <1>7, <1>8, <1>9 DEF Moves

LEMMA MovesChosen == ASSUME Chosen, Moves, UNCHANGED matching PROVE Chosen'
  BY DEF Chosen, Moves, Starts, Passes, Judges, Cancels, Enters, Leaves, Breaks

(* Loading sets the walk before the root; every other step walks, or leaves *)
(* the walk as it is.                                                       *)
LEMMA StepShape ==
  ASSUME [Next]_vars
  PROVE  /\ UNCHANGED <<matching, bail>>
         /\ \/ Load
            \/ /\ Walking /\ stage = "running"
               /\ UNCHANGED <<stage, code, written, timedOut, result>>
            \/ UNCHANGED walk /\ (stage' = "loading" => stage = "loading")
  <1>1. CASE Load
    BY <1>1 DEF Load
  <1>2. CASE Step
    BY <1>2 DEF Step, Running, Walking, parent
  <1>3. CASE Settle
    BY <1>3 DEF Settle, Running, Walking, parent
  <1>4. CASE StrayError
    BY <1>4 DEF StrayError, Running, Walking, Exit, parent
  <1>5. CASE LoadFails \/ Finish \/ WriteRecord \/ WriteFails \/ Report
    BY <1>5 DEF LoadFails, Finish, WriteRecord, WriteFails, Report, Exit
  <1>6. CASE TimeOut \/ Collect \/ UNCHANGED vars
    BY <1>6 DEF TimeOut, Collect, vars
  <1> QED BY <1>1, <1>2, <1>3, <1>4, <1>5, <1>6 DEF Next

(* Before the root every node is ahead.                                     *)
LEMMA LoadFound ==
  ASSUME Walk, Process, Course, Load
  PROVE  /\ Rooted(frames') /\ OnStack(frames') = {Root} /\ Ahead(frames') = ToSet(Children[Root])
         /\ UNCHANGED <<verdict, summary, cancelRemaining, broken, running>> /\ stage' = "running"
         /\ broken = {} /\ \A n \in Nodes : verdict[n] = "none"
         /\ running = NoRunnable
  <1> DEFINE f == [suite |-> Root, at |-> 1]
  <1>1. /\ frames' = <<f>> /\ stage' = "running"
        /\ UNCHANGED <<verdict, summary, cancelRemaining, broken, running>>
    BY DEF Load
  <1>2. running = NoRunnable /\ broken = {} /\ \A n \in Nodes : verdict[n] = "none"
    BY DEF Load, Process, Course, Walk, WalkTypeOK
  <1>3. PathOK(frames')
    BY LoadWalk DEF Walk, WalkTypeOK
  <1>4. f \in Frame /\ f.suite = Root /\ f.at = 1 /\ Root \in Suites
    BY TreeAssumption DEF Frame
  <1>5. From(f) = ToSet(Children[Root])
    <2>1. ASSUME NEW m \in ToSet(Children[Root]) PROVE m \in From(f)
      <3>1. m \in Nodes
        BY <1>4, ParentType
      <3>2. PICK k \in 1 .. Len(ExecutionItems(Root)) : ExecutionItems(Root)[k] = <<m, 0>>
        BY <1>4, ChildItems
      <3>3. k >= 1
        BY <1>4, ItemsType
      <3> QED BY <1>4, <3>1, <3>2, <3>3 DEF From
    <2> QED BY <1>4, <2>1, LaterChild
  <1> HIDE DEF f
  <1>6. Len(frames') = 1 /\ frames'[1] = f /\ frames' # <<>>
    BY <1>1
  <1>7. OnStack(frames') = {Root} /\ Rest(frames') = {}
    BY <1>4, <1>6 DEF OnStack, Rest
  <1> QED BY <1>1, <1>2, <1>3, <1>4, <1>5, <1>6, <1>7 DEF Rooted, Ahead

LEMMA StepCourse ==
  ASSUME Walk, Process, Course, Chosen, [Next]_vars
  PROVE  Course' /\ Chosen'
  <1>1. CASE Load
    <2>1. \A n \in Ahead(frames') : Fresh(n)'
      <3>1. \A n \in ToSet(Children[Root]) : Down(n) \subseteq Nodes
        BY ParentType, AheadNodes, TreeAssumption
      <3> QED BY <1>1, <3>1, LoadFound DEF Fresh
    <2>2. OnCourse'
      BY <1>1, <2>1, LoadFound DEF OnCourse
    <2>3. Course'
      BY <1>1, <2>2, LoadFound DEF Course
    <2> QED BY <1>1, <2>3, LoadFound DEF Chosen
  <1>2. CASE Walking /\ stage = "running" /\ UNCHANGED stage
    BY <1>2, StepShape, WalkMoves, MovesCourse, MovesChosen
  <1>3. CASE UNCHANGED walk /\ (stage' = "loading" => stage = "loading")
    <2>1. UNCHANGED <<frames, running, verdict, broken, matching>>
      BY <1>3, StepShape DEF walk
    <2> QED BY <1>3, <2>1 DEF Course, OnCourse, Fresh, Chosen
  <1> QED BY <1>1, <1>2, <1>3, StepShape

LEMMA InitCourse == Init => Course /\ Chosen
  <1> SUFFICES ASSUME Init PROVE Course /\ Chosen
    OBVIOUS
  <1>1. frames = <<>> /\ running = NoRunnable /\ broken = {} /\ \A n \in Nodes : verdict[n] = "none"
    BY DEF Init
  <1>2. Rooted(<<>>) /\ Ahead(<<>>) = {}
    BY DEF Rooted, PathOK, Ahead, Rest
  <1>3. \A c \in Cases : c \in Nodes
    BY DEF Nodes
  <1> QED BY <1>1, <1>2, <1>3 DEF Course, OnCourse, Chosen

LEMMA CourseHolds == Spec => [](Walk /\ Process /\ Course /\ Chosen)
  <1>1. Walk /\ Process /\ Course /\ Chosen /\ [Next]_vars => (Walk /\ Process /\ Course /\ Chosen)'
    BY StepWalk, StepProcess, StepCourse
  <1> QED BY InitWalk, InitCourse, <1>1, PTL DEF Spec

\* A case runs only if every before hook of every suite around it passed, for
\* every tree, every selection, and wherever hooks fail, of their own or blamed
\* for an error that comes late (runtime.ts, executeSuite).
THEOREM HooksPassFirst == Spec => []HooksComeFirst
  <1>1. ASSUME Walk, Course, NEW c \in Cases, running = <<c, 0>>
        PROVE  Above[c] \cap broken = {}
    <2>1. running # NoRunnable
      BY <1>1 DEF NoRunnable
    <2>2. OnItem(frames) /\ ItemOf(frames) = <<c, 0>>
      BY <1>1, <2>1, RunningItem, HereItem
    <2>3. Above[c] \subseteq OnStack(frames)
      BY <1>1, <2>2, ItemFound DEF Course
    <2> QED BY <1>1, <2>3 DEF Course, OnCourse
  <1>2. Walk /\ Course => HooksComeFirst
    BY <1>1 DEF HooksComeFirst, Course
  <1> QED BY CourseHolds, <1>2, PTL

(***************************************************************************)
(* The counts.  A case that is judged is come to for the first time, and    *)
(* what a step cancels at once is fresh: nothing is counted twice.          *)
(***************************************************************************)

Counted ==
    /\ summary.passed = Cardinality(With("passed"))
    /\ summary.failed = Cardinality(With("failed")) + Cardinality(broken)
    /\ summary.skipped = Cardinality(With("skipped"))
    /\ summary.cancelled = Cardinality(With("cancelled"))
    /\ Cases \ With("none") \subseteq matching

LEMMA OneMore ==
  ASSUME NEW S, S \subseteq Cases \/ S \subseteq Suites, NEW c, c \notin S
  PROVE  Cardinality(S) \in Nat /\ Cardinality(S \union {c}) = Cardinality(S) + 1
  <1>1. IsFiniteSet(S)
    BY FS_Subset, TreeAssumption
  <1> QED BY <1>1, FS_AddElement, FS_CardinalityType

LEMMA ManyMore ==
  ASSUME NEW S, S \subseteq Cases, NEW T, T \subseteq Cases, S \cap T = {}
  PROVE  /\ Cardinality(S) \in Nat /\ Cardinality(T) \in Nat
         /\ Cardinality(S \union T) = Cardinality(S) + Cardinality(T)
  <1>1. IsFiniteSet(S) /\ IsFiniteSet(T)
    BY FS_Subset, TreeAssumption
  <1>2. Cardinality(S \cap T) = 0
    BY FS_EmptySet
  <1>3. Cardinality(S \union T) = Cardinality(S) + Cardinality(T) - Cardinality(S \cap T)
    BY <1>1, FS_Union
  <1>4. Cardinality(S) \in Nat /\ Cardinality(T) \in Nat
    BY <1>1, FS_CardinalityType
  <1> QED BY <1>2, <1>3, <1>4

LEMMA CountMeans ==
  ASSUME summary \in Summaries, NEW M, Cardinality(M) \in Nat
  PROVE  /\ Count("passed") = [summary EXCEPT !.passed = summary.passed + 1]
         /\ Count("failed") = [summary EXCEPT !.failed = summary.failed + 1]
         /\ Count("skipped") = [summary EXCEPT !.skipped = summary.skipped + 1]
         /\ Count("cancelled") = [summary EXCEPT !.cancelled = summary.cancelled + 1]
         /\ CountAll(summary, "cancelled", M) =
              [summary EXCEPT !.cancelled = summary.cancelled + Cardinality(M)]
         /\ CountAll(Count("failed"), "cancelled", M) =
              [summary EXCEPT !.failed = summary.failed + 1, !.cancelled = summary.cancelled + Cardinality(M)]
  BY DEF Count, CountAll, Summaries

(* What is cancelled at once: the selected cases below s, none judged yet.  *)
LEMMA Swept ==
  ASSUME Walk, NEW s \in Suites, NEW v, verdict' = [Cancelled(s) EXCEPT ![s] = v],
         \A m \in Below(s) : verdict[m] = "none"
  PROVE  /\ Matches(s) \subseteq Cases /\ Matches(s) \cap With("cancelled") = {}
         /\ \A x \in Cases : verdict'[x] = IF x \in Matches(s) THEN "cancelled" ELSE verdict[x]
         /\ With("cancelled")' = With("cancelled") \union Matches(s)
         /\ \A w \in Ran : With(w)' = With(w)
  <1>1. matching \subseteq Cases /\ Cases \cap Suites = {} /\ Cases \subseteq Nodes
    BY TreeAssumption DEF Walk, Nodes
  <1>2. Matches(s) \subseteq Cases /\ Matches(s) \cap With("cancelled") = {}
    BY <1>1 DEF Matches, With
  <1>3. ASSUME NEW x \in Cases PROVE verdict'[x] = IF x \in Matches(s) THEN "cancelled" ELSE verdict[x]
    <2>1. x \in Nodes \ {s} /\ x \notin Suites
      BY <1>1
    <2>2. \/ /\ x \in Below(s) /\ verdict[x] = "none" /\ verdict'[x] = "cancelled"
             /\ x \in matching \/ x \in Suites
          \/ /\ verdict'[x] = verdict[x]
             /\ x \in Below(s) /\ x \in matching => verdict[x] # "none"
      BY <2>1, CancelledMeans
    <2> QED BY <2>1, <2>2 DEF Matches
  <1>4. With("cancelled")' = With("cancelled") \union Matches(s)
    BY <1>2, <1>3 DEF With
  <1>5. ASSUME NEW w \in Ran PROVE With(w)' = With(w)
    <2>1. \A x \in Matches(s) : verdict[x] = "none"
      BY DEF Matches
    <2> QED BY <1>3, <2>1 DEF With, Ran
  <1> QED BY <1>2, <1>3, <1>4, <1>5

LEMMA JudgedCounts ==
  ASSUME Walk, OnCourse, Counted, UNCHANGED matching,
         NEW c \in Cases, NEW v \in Verdicts \ {"none"}, Judges(c, v)
  PROVE  Counted'
  <1>1. verdict[c] = "none" /\ c \in Nodes
    BY ItemFound DEF Judges, Nodes
  <1>2. verdict' = [verdict EXCEPT ![c] = v] /\ summary' = Count(v) /\ broken' = broken /\ c \in matching
    BY DEF Judges
  <1>3. \A x \in Cases : verdict'[x] = IF x = c THEN v ELSE verdict[x]
    BY <1>1, <1>2 DEF Walk, Nodes
  <1>4. With(v)' = With(v) \union {c} /\ c \notin With(v)
    BY <1>1, <1>3 DEF With, Verdicts
  <1>5. \A w \in Verdicts \ {"none", v} : With(w)' = With(w)
    BY <1>1, <1>3 DEF With, Verdicts
  <1>6. Cardinality(With(v)') = Cardinality(With(v)) + 1
    BY <1>4, OneMore DEF With
  <1>7. Cases \ With("none")' \subseteq matching'
    BY <1>2, <1>3 DEF With, Counted
  <1>8. summary \in Summaries /\ Cardinality({}) \in Nat
    BY FS_EmptySet DEF Walk
  <1>9. CASE v = "passed"
    <2>1. summary' = [summary EXCEPT !.passed = summary.passed + 1]
      BY <1>2, <1>8, <1>9, CountMeans
    <2> QED BY <1>2, <1>5, <1>6, <1>7, <1>8, <1>9, <2>1 DEF Counted, Verdicts, Summaries
  <1>10. CASE v = "failed"
    <2>1. summary' = [summary EXCEPT !.failed = summary.failed + 1]
      BY <1>2, <1>8, <1>10, CountMeans
    <2>2. Cardinality(With("failed")) \in Nat /\ Cardinality(broken) \in Nat
      BY FS_Subset, FS_CardinalityType, TreeAssumption DEF With, Walk
    <2> QED BY <1>2, <1>5, <1>6, <1>7, <1>8, <1>10, <2>1, <2>2 DEF Counted, Verdicts, Summaries
  <1>11. CASE v = "skipped"
    <2>1. summary' = [summary EXCEPT !.skipped = summary.skipped + 1]
      BY <1>2, <1>8, <1>11, CountMeans
    <2> QED BY <1>2, <1>5, <1>6, <1>7, <1>8, <1>11, <2>1 DEF Counted, Verdicts, Summaries
  <1>12. CASE v = "cancelled"
    <2>1. summary' = [summary EXCEPT !.cancelled = summary.cancelled + 1]
      BY <1>2, <1>8, <1>12, CountMeans
    <2> QED BY <1>2, <1>5, <1>6, <1>7, <1>8, <1>12, <2>1 DEF Counted, Verdicts, Summaries
  <1> QED BY <1>9, <1>10, <1>11, <1>12 DEF Verdicts

LEMMA SweptCounts ==
  ASSUME Walk, OnCourse, Counted, UNCHANGED matching, NEW s \in Suites, Cancels(s) \/ Breaks(s)
  PROVE  Counted'
  <1>1. PICK v \in {"failed", "cancelled"} : verdict' = [Cancelled(s) EXCEPT ![s] = v]
    BY DEF Cancels, Breaks
  <1>2. \A m \in Below(s) : verdict[m] = "none"
    <2>1. CASE Cancels(s)
      BY <2>1, ItemFound DEF Cancels, Fresh, Down
    <2>2. CASE Breaks(s)
      BY <2>2, HookFound DEF Breaks
    <2> QED BY <2>1, <2>2
  <1>3. /\ Matches(s) \subseteq Cases /\ Matches(s) \cap With("cancelled") = {}
        /\ \A x \in Cases : verdict'[x] = IF x \in Matches(s) THEN "cancelled" ELSE verdict[x]
        /\ With("cancelled")' = With("cancelled") \union Matches(s)
        /\ \A w \in Ran : With(w)' = With(w)
    BY <1>1, <1>2, Swept
  <1>4. /\ Cardinality(With("cancelled")') = Cardinality(With("cancelled")) + Cardinality(Matches(s))
        /\ Cardinality(With("cancelled")) \in Nat /\ Cardinality(Matches(s)) \in Nat
    <2>1. With("cancelled") \subseteq Cases
      BY DEF With
    <2> QED BY <1>3, <2>1, ManyMore
  <1>5. Cases \ With("none")' \subseteq matching'
    BY <1>3 DEF With, Counted, Matches
  <1>6. summary \in Summaries
    BY DEF Walk
  <1>7. CASE Cancels(s)
    <2>1. summary' = [summary EXCEPT !.cancelled = summary.cancelled + Cardinality(Matches(s))] /\ broken' = broken
      BY <1>4, <1>6, <1>7, CountMeans DEF Cancels
    <2> QED BY <1>3, <1>4, <1>5, <1>6, <2>1 DEF Counted, Ran, Summaries
  <1>8. CASE Breaks(s)
    <2>1. summary' = [summary EXCEPT !.failed = summary.failed + 1,
                                     !.cancelled = summary.cancelled + Cardinality(Matches(s))]
      BY <1>4, <1>6, <1>8, CountMeans DEF Breaks
    <2>2. s \notin broken /\ broken' = broken \union {s} /\ broken \subseteq Suites
      BY <1>8, HookFound DEF Breaks, Walk
    <2>3. Cardinality(broken') = Cardinality(broken) + 1 /\ Cardinality(broken) \in Nat
      BY <2>2, OneMore
    <2>4. Cardinality(With("failed")) \in Nat
      BY FS_Subset, FS_CardinalityType, TreeAssumption DEF With
    <2> QED BY <1>3, <1>4, <1>5, <1>6, <2>1, <2>3, <2>4 DEF Counted, Ran, Summaries
  <1> QED BY <1>7, <1>8

LEMMA MovesCounted ==
  ASSUME Walk, OnCourse, Counted, Moves, UNCHANGED matching
  PROVE  Counted'
  <1>1. CASE Starts \/ Passes \/ \E s \in Suites : Enters(s)
    <2>1. UNCHANGED <<verdict, summary, broken>>
      BY <1>1 DEF Starts, Passes, Enters
    <2> QED BY <2>1 DEF Counted, With
  <1>2. ASSUME NEW s \in Suites, Leaves(s) PROVE Counted'
    <2>1. \A x \in Cases : verdict'[x] = verdict[x]
      BY <1>2, TreeAssumption DEF Leaves, Walk, Nodes
    <2>2. \A v : With(v)' = With(v)
      BY <2>1 DEF With
    <2>3. UNCHANGED <<summary, broken>>
      BY <1>2 DEF Leaves
    <2> QED BY <2>2, <2>3 DEF Counted
  <1> QED BY <1>1, <1>2, JudgedCounts, SweptCounts DEF Moves

(***************************************************************************)
(* Whose fault.  Nothing fails or is cancelled without a failure counted.   *)
(***************************************************************************)

Blamed ==
    (\E n \in Nodes : verdict[n] \in {"failed", "cancelled"}) \/ cancelRemaining \/ broken # {}
      => summary.failed > 0

LEMMA MovesBlamed ==
  ASSUME Walk, Blamed, Moves
  PROVE  Blamed'
  <1>1. summary \in Summaries /\ summary.failed \in Nat
    BY DEF Walk, Summaries
  <1>2. \A s \in Suites : Cardinality(Matches(s)) \in Nat
    BY CountType DEF Matches, Walk
  <1>3. CASE Starts \/ Passes \/ \E s \in Suites : Enters(s)
    <2>1. UNCHANGED <<verdict, summary, cancelRemaining, broken>>
      BY <1>3 DEF Starts, Passes, Enters
    <2> QED BY <2>1 DEF Blamed
  <1>4. ASSUME NEW c \in Cases, NEW v \in Verdicts \ {"none"}, Judges(c, v) PROVE Blamed'
    <2>1. /\ verdict' = [verdict EXCEPT ![c] = v] /\ summary' = Count(v) /\ broken' = broken
          /\ v = "cancelled" => cancelRemaining
          /\ cancelRemaining' => cancelRemaining \/ v = "failed"
      BY <1>4 DEF Judges
    <2>2. CASE v = "failed"
      <3>1. summary'.failed = summary.failed + 1
        BY <1>1, <2>1, <2>2 DEF Count, Summaries
      <3> QED BY <1>1, <3>1 DEF Blamed
    <2>3. CASE v # "failed"
      <3>1. summary'.failed = summary.failed
        BY <1>1, <2>1, <2>3 DEF Count, Summaries
      <3>2. ASSUME NEW n \in Nodes, verdict'[n] \in {"failed", "cancelled"} PROVE summary.failed > 0
        <4>1. verdict'[n] = verdict[n] \/ verdict'[n] = v
          BY <2>1 DEF Walk
        <4> QED BY <2>1, <2>3, <3>2, <4>1 DEF Blamed
      <3> QED BY <2>1, <2>3, <3>1, <3>2 DEF Blamed
    <2> QED BY <2>2, <2>3
  <1>5. ASSUME NEW s \in Suites, Cancels(s) PROVE Blamed'
    <2>1. summary.failed > 0
      BY <1>5 DEF Cancels, Blamed
    <2>2. summary'.failed = summary.failed
      BY <1>1, <1>5 DEF Cancels, CountAll, Summaries
    <2> QED BY <2>1, <2>2 DEF Blamed
  <1>6. ASSUME NEW s \in Suites, Leaves(s) PROVE Blamed'
    <2>1. UNCHANGED <<summary, cancelRemaining, broken>>
      BY <1>6 DEF Leaves
    <2>2. verdict' = [verdict EXCEPT ![s] = Rollup({verdict[n] : n \in ToSet(Children[s])})]
      BY <1>6 DEF Leaves
    <2>3. ASSUME NEW n \in Nodes, verdict'[n] \in {"failed", "cancelled"} PROVE summary.failed > 0
      <3>1. CASE verdict'[n] = verdict[n]
        BY <2>3, <3>1 DEF Blamed
      <3>2. CASE verdict'[n] = Rollup({verdict[m] : m \in ToSet(Children[s])})
        <4>1. \E m \in ToSet(Children[s]) : verdict[m] \in {"failed", "cancelled"}
          BY <2>3, <3>2 DEF Rollup
        <4>2. ToSet(Children[s]) \subseteq Nodes
          BY ParentType
        <4> QED BY <4>1, <4>2 DEF Blamed
      <3> QED BY <2>2, <3>1, <3>2 DEF Walk
    <2> QED BY <2>1, <2>3 DEF Blamed
  <1>7. ASSUME NEW s \in Suites, Breaks(s) PROVE Blamed'
    <2>1. summary' = [summary EXCEPT !.failed = summary.failed + 1,
                                     !.cancelled = summary.cancelled + Cardinality(Matches(s))]
      BY <1>1, <1>2, <1>7, CountMeans DEF Breaks
    <2>2. summary'.failed > 0
      BY <1>1, <2>1 DEF Summaries
    <2> QED BY <2>2 DEF Blamed
  <1> QED BY <1>3, <1>4, <1>5, <1>6, <1>7 DEF Moves

(***************************************************************************)
(* Nothing is left out: a selected case without a verdict is still ahead.   *)
(***************************************************************************)

Reached == \A c \in matching : verdict[c] = "none" => \E n \in Ahead(frames) : c \in Down(n)

LEMMA MovesReached ==
  ASSUME Walk, OnCourse, Reached, Moves, UNCHANGED matching
  PROVE  Reached'
  <1> DEFINE left == Rest(frames) \union Later(frames[Len(frames)])
  <1>1. matching \subseteq Cases /\ Cases \cap Suites = {} /\ Cases \subseteq Nodes
    BY TreeAssumption DEF Walk, Nodes
  <1> SUFFICES ASSUME NEW x \in matching, verdict'[x] = "none"
               PROVE  \E n \in Ahead(frames') : x \in Down(n)
    BY DEF Reached
  <1>2. verdict[x] = "none" => \E n \in Ahead(frames) : x \in Down(n)
    BY DEF Reached
  <1>3. OnItem(frames) /\ frames' = Past(frames) => Ahead(frames') = left
    BY AheadPast DEF OnCourse
  <1>4. ASSUME NEW n, OnItem(frames), ItemOf(frames) = <<n, 0>>
        PROVE  Ahead(frames) = left \union {n}
    BY <1>4, ItemApart DEF OnCourse, Rooted
  <1>5. CASE Starts
    BY <1>2, <1>5 DEF Starts
  <1>6. CASE Passes
    <2>1. verdict[x] = "none" /\ OnItem(frames) /\ Ahead(frames') = left
      BY <1>3, <1>6 DEF Passes
    <2>2. ASSUME NEW n \in Nodes, ItemOf(frames) = <<n, 0>>
          PROVE  \E m \in left : x \in Down(m)
      <3>1. x \notin Down(n)
        BY <1>6, <2>2 DEF Passes
      <3> QED BY <1>2, <1>4, <2>1, <2>2, <3>1
    <2>3. CASE ItemOf(frames)[2] # 0
      BY <1>2, <2>1, <2>3, AheadAtHook DEF OnCourse, Rooted
    <2>4. ItemOf(frames) \in Items
      <3>1. /\ PathOK(frames) /\ frames # <<>>
            /\ frames[Len(frames)].at <= Len(ExecutionItems(frames[Len(frames)].suite))
        BY <2>1 DEF OnItem, OnCourse, Rooted
      <3>2. frames[Len(frames)].suite \in Suites /\ frames[Len(frames)].at \in Nat \ {0}
        BY <3>1, TopFrame
      <3> QED BY <3>1, <3>2, ItemsType DEF ItemOf
    <2>5. ItemOf(frames)[2] # 0 \/ \E n \in Nodes : ItemOf(frames) = <<n, 0>>
      BY <2>4 DEF Items, Nodes
    <2> QED BY <2>1, <2>2, <2>3, <2>5
  <1>7. ASSUME NEW c \in Cases, NEW v \in Verdicts \ {"none"}, Judges(c, v)
        PROVE  \E n \in Ahead(frames') : x \in Down(n)
    <2>1. Ahead(frames') = left /\ Ahead(frames) = left \union {c}
      BY <1>3, <1>4, <1>7 DEF Judges
    <2>2. x # c /\ verdict[x] = "none"
      BY <1>1, <1>7 DEF Judges, Walk
    <2>3. Down(c) = {c}
      BY NothingBelowCases
    <2> QED BY <1>2, <2>1, <2>2, <2>3
  <1>8. ASSUME NEW s \in Suites, Cancels(s) PROVE \E n \in Ahead(frames') : x \in Down(n)
    <2>1. Ahead(frames') = left /\ Ahead(frames) = left \union {s}
      BY <1>3, <1>4, <1>8 DEF Cancels
    <2>2. x \in Nodes \ {s} /\ verdict' = [Cancelled(s) EXCEPT ![s] = "cancelled"]
      BY <1>1, <1>8 DEF Cancels
    <2>3. verdict'[x] = verdict[x] /\ x \notin Below(s)
      BY <2>2, CancelledMeans
    <2> QED BY <1>2, <2>1, <2>2, <2>3 DEF Down
  <1>9. ASSUME NEW s \in Suites, Enters(s) PROVE \E n \in Ahead(frames') : x \in Down(n)
    <2>1. /\ Ahead(frames) = left \union {s} /\ Ahead(frames') = left \union ToSet(Children[s])
          /\ verdict[x] = "none"
      BY <1>9, GoDownCourse DEF Enters
    <2>2. x \in Down(s) => x \in Below(s)
      BY <1>1 DEF Down
    <2> QED BY <1>2, <2>1, <2>2, BelowChildren
  <1>10. ASSUME NEW s \in Suites, Leaves(s) PROVE \E n \in Ahead(frames') : x \in Down(n)
    <2>1. Ahead(frames) = Rest(frames) /\ Ahead(frames') = Rest(frames)
      BY <1>10, AheadAtEnd, AheadUp DEF Leaves, OnCourse, Rooted
    <2>2. verdict[x] = "none"
      BY <1>1, <1>10 DEF Leaves, Walk
    <2> QED BY <1>2, <2>1, <2>2
  <1>11. ASSUME NEW s \in Suites, Breaks(s) PROVE \E n \in Ahead(frames') : x \in Down(n)
    <2>1. /\ frames # <<>> /\ OnItem(frames) /\ s = frames[Len(frames)].suite
          /\ frames' = Up(frames)
      BY <1>11, HookFound DEF Breaks
    <2>2. ItemOf(frames)[2] # 0
      <3>1. running = Here /\ Top.at <= Len(ExecutionItems(Top.suite)) /\ running[2] # 0
        BY <1>11, RunningItem DEF Breaks, Walk, WalkTypeOK
      <3> QED BY <2>1, <3>1, HereItem
    <2>3. Ahead(frames) = Rest(frames) \union ToSet(Children[s]) /\ Ahead(frames') = Rest(frames)
      BY <2>1, <2>2, AheadAtHook, AheadUp DEF OnCourse, Rooted
    <2>4. x \in Nodes \ {s} /\ verdict' = [Cancelled(s) EXCEPT ![s] = "failed"]
      BY <1>1, <1>11 DEF Breaks
    <2>5. verdict'[x] = verdict[x] /\ x \notin Below(s)
      BY <2>4, CancelledMeans
    <2>6. \A n \in ToSet(Children[s]) : Down(n) \subseteq Below(s)
      BY DownOfChild
    <2> QED BY <1>2, <2>3, <2>5, <2>6
  <1> QED BY <1>5, <1>6, <1>7, <1>8, <1>9, <1>10, <1>11 DEF Moves

(***************************************************************************)
(* Failures go up.  What failed lies in a failed suite or in one that has   *)
(* not been left, and a broken suite has failed.                            *)
(***************************************************************************)

Upward ==
    /\ \A n \in Nodes \ {Root} :
         verdict[n] = "failed" => verdict[Parent(n)] = "failed" \/ Parent(n) \in OnStack(frames)
    /\ \A b \in broken : verdict[b] = "failed"

LEMMA MovesUpward ==
  ASSUME Walk, OnCourse, Upward, Moves
  PROVE  Upward'
  <1>1. \A n \in Nodes \ {Root} : Parent(n) \in Suites /\ Parent(n) \in Nodes /\ n \in ToSet(Children[Parent(n)])
    BY ParentType DEF Nodes
  <1>2. broken \subseteq Suites /\ Cases \cap Suites = {} /\ Suites \subseteq Nodes
    BY TreeAssumption DEF Walk, Nodes
  <1>3. ASSUME UNCHANGED <<verdict, broken>>, OnStack(frames) \subseteq OnStack(frames')
        PROVE  Upward'
    BY <1>3 DEF Upward
  <1>4. CASE Starts
    BY <1>3, <1>4 DEF Starts
  <1>5. CASE Passes
    BY <1>3, <1>5, GoOnCourse DEF Passes
  <1>6. ASSUME NEW s \in Suites, Enters(s) PROVE Upward'
    BY <1>3, <1>6, GoDownCourse DEF Enters
  <1>7. ASSUME NEW c \in Cases, NEW v, Judges(c, v) PROVE Upward'
    <2>1. \A m \in Nodes \ {c} : verdict'[m] = verdict[m]
      BY <1>7 DEF Judges, Walk
    <2>2. OnStack(frames') = OnStack(frames) /\ broken' = broken
      BY <1>7, AheadPast DEF Judges, OnCourse
    <2>3. Parent(c) \in OnStack(frames)
      BY <1>7, ItemFound DEF Judges
    <2>4. ASSUME NEW n \in Nodes \ {Root}, verdict'[n] = "failed"
          PROVE  verdict'[Parent(n)] = "failed" \/ Parent(n) \in OnStack(frames')
      <3>1. CASE n = c
        BY <2>2, <2>3, <3>1
      <3>2. CASE n # c
        <4>1. verdict[Parent(n)] = "failed" \/ Parent(n) \in OnStack(frames)
          BY <2>1, <2>4, <3>2 DEF Upward
        <4>2. Parent(n) \in Nodes \ {c}
          BY <1>1, <1>2
        <4> QED BY <2>1, <2>2, <4>1, <4>2
      <3> QED BY <3>1, <3>2
    <2>5. \A b \in broken' : verdict'[b] = "failed"
      BY <1>2, <2>1, <2>2 DEF Upward
    <2> QED BY <2>4, <2>5 DEF Upward
  <1>8. ASSUME NEW s \in Suites, Cancels(s) PROVE Upward'
    <2>1. verdict[s] = "none" /\ verdict' = [Cancelled(s) EXCEPT ![s] = "cancelled"]
      BY <1>8, ItemFound DEF Cancels
    <2>2. \A m \in Nodes : verdict'[m] = "failed" <=> verdict[m] = "failed"
      BY <2>1, CancelledMeans
    <2>3. OnStack(frames') = OnStack(frames) /\ broken' = broken
      BY <1>8, AheadPast DEF Cancels, OnCourse
    <2> QED BY <1>1, <1>2, <2>2, <2>3 DEF Upward
  <1>9. ASSUME NEW s \in Suites, frames # <<>>, s = frames[Len(frames)].suite, frames' = Up(frames),
               \A m \in Nodes \ {s} : verdict'[m] = "failed" <=> verdict[m] = "failed",
               \A n \in ToSet(Children[s]) : verdict[n] = "failed" => verdict'[s] = "failed"
        PROVE  \A n \in Nodes \ {Root} :
                 verdict'[n] = "failed" => verdict'[Parent(n)] = "failed" \/ Parent(n) \in OnStack(frames')
    <2>1. OnStack(frames') = OnStack(frames) \ {s} /\ (s # Root => Parent(s) \in OnStack(frames'))
      BY <1>9, AheadUp DEF OnCourse
    <2> SUFFICES ASSUME NEW n \in Nodes \ {Root}, verdict'[n] = "failed"
                 PROVE  verdict'[Parent(n)] = "failed" \/ Parent(n) \in OnStack(frames')
      OBVIOUS
    <2>2. CASE n = s
      BY <2>1, <2>2
    <2>3. CASE n # s
      <3>1. verdict[n] = "failed" /\ (verdict[Parent(n)] = "failed" \/ Parent(n) \in OnStack(frames))
        BY <1>9, <2>3 DEF Upward
      <3>2. CASE Parent(n) = s
        BY <1>1, <1>9, <3>1, <3>2
      <3>3. CASE Parent(n) # s
        BY <1>1, <1>9, <2>1, <3>1, <3>3
      <3> QED BY <3>2, <3>3
    <2> QED BY <2>2, <2>3
  <1>10. ASSUME NEW s \in Suites, Leaves(s) PROVE Upward'
    <2>1. /\ frames # <<>> /\ s = frames[Len(frames)].suite /\ frames' = Up(frames) /\ broken' = broken
          /\ verdict' = [verdict EXCEPT ![s] = Rollup({verdict[n] : n \in ToSet(Children[s])})]
      BY <1>10 DEF Leaves
    <2>2. \A m \in Nodes \ {s} : verdict'[m] = verdict[m]
      BY <2>1 DEF Walk
    <2>3. ASSUME NEW n \in ToSet(Children[s]), verdict[n] = "failed" PROVE verdict'[s] = "failed"
      <3>1. "failed" \in {verdict[m] : m \in ToSet(Children[s])}
        BY <2>3
      <3>2. Rollup({verdict[m] : m \in ToSet(Children[s])}) = "failed"
        BY <3>1 DEF Rollup
      <3> QED BY <1>2, <2>1, <3>2 DEF Walk
    <2>4. s \notin broken
      <3>1. s \in OnStack(frames)
        <4>1. Len(frames) \in Nat \ {0}
          BY <2>1, TopFrame DEF OnCourse, Rooted
        <4> QED BY <2>1, <4>1 DEF OnStack
      <3> QED BY <3>1 DEF OnCourse
    <2>5. \A b \in broken' : verdict'[b] = "failed"
      BY <1>2, <2>1, <2>2, <2>4 DEF Upward
    <2>6. \A n \in Nodes \ {Root} :
            verdict'[n] = "failed" => verdict'[Parent(n)] = "failed" \/ Parent(n) \in OnStack(frames')
      BY <1>9, <2>1, <2>2, <2>3
    <2> QED BY <2>5, <2>6 DEF Upward
  <1>11. ASSUME NEW s \in Suites, Breaks(s) PROVE Upward'
    <2>1. /\ frames # <<>> /\ s = frames[Len(frames)].suite /\ frames' = Up(frames)
          /\ verdict' = [Cancelled(s) EXCEPT ![s] = "failed"] /\ broken' = broken \union {s}
      BY <1>11, HookFound DEF Breaks
    <2>2. verdict'[s] = "failed" /\ \A m \in Nodes \ {s} : verdict'[m] = "failed" <=> verdict[m] = "failed"
      BY <2>1, CancelledMeans
    <2>3. \A b \in broken' : verdict'[b] = "failed"
      BY <1>2, <2>1, <2>2 DEF Upward
    <2>4. \A n \in Nodes \ {Root} :
            verdict'[n] = "failed" => verdict'[Parent(n)] = "failed" \/ Parent(n) \in OnStack(frames')
      BY <1>9, <2>1, <2>2
    <2> QED BY <2>3, <2>4 DEF Upward
  <1> QED BY <1>4, <1>5, <1>6, <1>7, <1>8, <1>10, <1>11 DEF Moves

(***************************************************************************)
(* The end of the run                                                       *)
(***************************************************************************)

(* The walk is over, or the process ended by reporting no failure. *)
Over == stage = "reporting" \/ (stage = "exited" /\ code = 0)

Outcome ==
    /\ Over => frames = <<>>
    /\ stage = "running" \/ Over => Reached
    /\ stage = "exited" /\ code = 0 => written /\ summary.failed % ExitCodes = 0
    /\ stage = "killed" => code = Terminated
    /\ result = 0 => stage = "exited" /\ code = 0

Tale == Counted /\ Blamed /\ Upward

LEMMA StepTale ==
  ASSUME Walk, Process, Course, Chosen, Tale, [Next]_vars
  PROVE  Tale'
  <1>1. CASE Load
    <2>1. UNCHANGED <<verdict, summary, cancelRemaining, broken, matching>>
      BY <1>1, LoadFound, StepShape
    <2>2. broken = {} /\ \A n \in Nodes : verdict[n] = "none"
      BY <1>1, LoadFound
    <2>3. Counted' /\ Blamed'
      BY <2>1 DEF Tale, Counted, With, Blamed
    <2>4. Upward'
      BY <2>1, <2>2 DEF Upward
    <2> QED BY <2>3, <2>4 DEF Tale
  <1>2. CASE Walking
    BY <1>2, StepShape, WalkMoves, MovesCounted, MovesBlamed, MovesUpward DEF Tale, Course
  <1>3. CASE UNCHANGED walk
    <2>1. UNCHANGED <<frames, verdict, summary, cancelRemaining, broken, matching>>
      BY <1>3, StepShape DEF walk
    <2> QED BY <2>1 DEF Tale, Counted, With, Blamed, Upward
  <1> QED BY <1>1, <1>2, <1>3, StepShape

LEMMA StepOutcome ==
  ASSUME Walk, Process, Course, Chosen, Outcome, [Next]_vars
  PROVE  Outcome'
  <1>1. summary.failed \in Nat
    BY DEF Walk, Summaries
  <1>2. CASE Load
    <2>1. /\ stage' = "running" /\ UNCHANGED <<verdict, matching>>
          /\ Ahead(frames') = ToSet(Children[Root])
      BY <1>2, LoadFound, StepShape
    <2>2. ASSUME NEW c \in matching PROVE \E n \in ToSet(Children[Root]) : c \in Down(n)
      <3>1. c \in Nodes /\ c # Root /\ Root \in Suites
        BY TreeAssumption DEF Walk, Nodes
      <3>2. c \in Below(Root)
        BY <3>1, RootAbove DEF Below
      <3> QED BY <3>1, <3>2, BelowChildren
    <2>3. Reached'
      BY <2>1, <2>2 DEF Reached
    <2>4. result' # 0
      BY <1>2 DEF Load, Outcome, parent
    <2> QED BY <2>1, <2>3, <2>4 DEF Outcome, Over
  <1>3. CASE Walking /\ stage = "running" /\ UNCHANGED <<stage, code, written, timedOut, result>>
    <2>1. Reached'
      BY <1>3, StepShape, WalkMoves, MovesReached DEF Course, Outcome
    <2> QED BY <1>3, <2>1 DEF Outcome, Over
  <1>4. ASSUME UNCHANGED walk PROVE UNCHANGED <<frames, summary>> /\ (Reached => Reached')
    BY <1>4, StepShape DEF walk, Reached
  <1>5. ASSUME Exit(1), UNCHANGED <<walk, result>>, stage # "exited" PROVE Outcome'
    <2>1. ExitCodes \in 2 .. 256
      BY TreeAssumption
    <2>2. 1 % ExitCodes = 1
      BY <2>1
    <2>3. stage' = "exited" /\ code' = 1
      BY <1>5, <2>2 DEF Exit
    <2> QED BY <1>5, <2>3 DEF Outcome, Over
  <1>6. CASE LoadFails \/ WriteFails
    BY <1>5, <1>6 DEF LoadFails, WriteFails, parent
  <1>7. CASE StrayError /\ stage = "reporting"
    BY <1>5, <1>7 DEF StrayError, Running, parent
  <1>8. CASE Finish
    <2>1. UNCHANGED walk /\ frames = <<>> /\ stage = "running" /\ stage' = "reporting" /\ UNCHANGED result
      BY <1>8 DEF Finish, Running, parent
    <2> QED BY <1>4, <2>1 DEF Outcome, Over
  <1>9. CASE WriteRecord
    <2>1. UNCHANGED walk /\ stage = "reporting" /\ UNCHANGED <<stage, code, result>>
      BY <1>9 DEF WriteRecord, parent
    <2> QED BY <1>4, <2>1 DEF Outcome, Over
  <1>10. CASE Report
    <2>1. /\ UNCHANGED <<walk, written, result>> /\ stage = "reporting" /\ written
          /\ stage' = "exited" /\ code' = summary.failed % ExitCodes
      BY <1>10 DEF Report, Exit, parent
    <2>2. frames' = <<>> /\ Reached' /\ result' # 0 /\ summary' = summary
      BY <1>4, <2>1 DEF Outcome, Over
    <2>3. written'
      BY <2>1, Zenon
    <2>4. stage' # "killed"
      BY <2>1
    <2>5. code' = 0 => summary'.failed % ExitCodes = 0
      BY <2>1, <2>2
    <2> QED BY <2>2, <2>3, <2>4, <2>5, Zenon DEF Outcome, Over
  <1>11. CASE TimeOut
    <2>1. UNCHANGED <<walk, written, result>> /\ result = NoResult
      BY <1>11 DEF TimeOut
    <2>2. CASE stage = "exited"
      BY <1>4, <1>11, <2>1, <2>2 DEF TimeOut, Outcome, Over
    <2>3. CASE stage # "exited"
      BY <1>11, <2>1, <2>3 DEF TimeOut, Outcome, Over, NoResult
    <2> QED BY <2>2, <2>3
  <1>12. CASE Collect
    <2>1. /\ UNCHANGED <<walk, stage, code, written>> /\ stage \in {"exited", "killed"}
          /\ result' = IF timedOut THEN 124 ELSE code
      BY <1>12 DEF Collect
    <2>2. result' = 0 => stage = "exited" /\ code = 0
      BY <2>1 DEF Outcome, Terminated
    <2> QED BY <1>4, <2>1, <2>2 DEF Outcome, Over
  <1>13. CASE UNCHANGED vars
    <2>1. UNCHANGED <<walk, stage, code, written, result>>
      BY <1>13 DEF vars, parent
    <2> QED BY <1>4, <2>1 DEF Outcome, Over
  <1>14. CASE Step \/ Settle \/ (StrayError /\ stage # "reporting")
    <2>1. Walking /\ stage = "running" /\ UNCHANGED <<stage, code, written, timedOut, result>>
      BY <1>14 DEF Step, Settle, StrayError, Running, Walking, parent
    <2> QED BY <1>3, <2>1
  <1> QED BY <1>2, <1>6, <1>7, <1>8, <1>9, <1>10, <1>11, <1>12, <1>13, <1>14 DEF Next

LEMMA InitTale == Init => Tale /\ Outcome
  <1> SUFFICES ASSUME Init PROVE Tale /\ Outcome
    OBVIOUS
  <1>1. /\ broken = {} /\ ~cancelRemaining /\ stage = "loading" /\ result = NoResult
        /\ summary = [passed |-> 0, failed |-> 0, skipped |-> 0, cancelled |-> 0]
    BY DEF Init
  <1>2. \A n \in Nodes : verdict[n] = "none"
    BY DEF Init
  <1>3. \A c \in Cases : verdict[c] = "none"
    BY <1>2 DEF Nodes
  <1>4. \A v \in Verdicts \ {"none"} : With(v) = {}
    BY <1>3 DEF With, Verdicts
  <1>5. Cases \ With("none") = {} /\ Cardinality({}) = 0
    BY <1>3, FS_EmptySet DEF With
  <1>6. Counted
    BY <1>1, <1>4, <1>5 DEF Counted, Verdicts
  <1>7. Blamed /\ Upward
    BY <1>1, <1>2 DEF Blamed, Upward
  <1> QED BY <1>1, <1>6, <1>7 DEF Tale, Outcome, Over, NoResult

RunInv == Walk /\ Process /\ Course /\ Chosen /\ Tale /\ Outcome

LEMMA RunHolds == Spec => []RunInv
  <1>1. Init => RunInv
    BY InitWalk, InitCourse, InitTale DEF RunInv
  <1>2. RunInv /\ [Next]_vars => RunInv'
    BY StepWalk, StepProcess, StepCourse, StepTale, StepOutcome DEF RunInv
  <1> QED BY <1>1, <1>2, PTL DEF Spec

LEMMA NothingAhead == Ahead(<<>>) = {} /\ OnStack(<<>>) = {}
  BY DEF Ahead, Rest, OnStack

(* At the end a failure is in failed suites all the way up.                 *)
LEMMA FailuresGoUp ==
  ASSUME Upward, frames = <<>>, NEW n \in Nodes, verdict[n] = "failed"
  PROVE  n \in FailedLog
  <1> DEFINE C == {m \in Nodes : verdict[m] = "failed" /\ m \notin FailedLog}
  <1>1. ASSUME NEW m \in C PROVE m # Root /\ Parent(m) \in C
    <2>1. m # Root
      <3>1. Root \in Nodes /\ Above[Root] = {}
        BY TreeAssumption, AboveIs DEF Nodes
      <3> QED BY <3>1 DEF FailedLog
    <2>2. Parent(m) \in Nodes /\ Above[m] = {Parent(m)} \union Above[Parent(m)]
      BY <2>1, ParentType, AboveIs DEF Nodes
    <2>3. verdict[Parent(m)] = "failed"
      BY <2>1, NothingAhead DEF Upward
    <2>4. Parent(m) \notin FailedLog
      BY <2>2 DEF FailedLog
    <2> QED BY <2>1, <2>2, <2>3, <2>4
  <1>2. C \subseteq Nodes
    OBVIOUS
  <1> HIDE DEF C
  <1>3. C = {}
    BY <1>1, <1>2, WayUp
  <1> QED BY <1>3 DEF C

\* The summary counts every selected case once, under the verdict the tree gives
\* it, and every failed hook; the record of failures shows each of them, for every
\* tree and selection (runtime.ts, console-runner.ts, run-record.ts).
THEOREM ReportsAreTrue == Spec => []ReportIsTrue
  <1>1. ASSUME RunInv, stage = "reporting"
        PROVE  /\ matching \cap With("none") = {}
               /\ With("failed") \union broken \subseteq FailedLog
               /\ summary.failed = 0 => verdict[Root] # "failed"
    <2>1. frames = <<>> /\ Reached
      BY <1>1 DEF RunInv, Outcome, Over
    <2>2. matching \cap With("none") = {}
      BY <2>1, NothingAhead DEF Reached, With
    <2>3. Upward /\ With("failed") \union broken \subseteq Nodes
      BY <1>1 DEF RunInv, Tale, Walk, With, Nodes
    <2>4. \A n \in With("failed") \union broken : verdict[n] = "failed"
      BY <2>3 DEF With, Upward
    <2>5. With("failed") \union broken \subseteq FailedLog
      BY <2>1, <2>3, <2>4, FailuresGoUp
    <2>6. summary.failed = 0 => verdict[Root] # "failed"
      BY <1>1, TreeAssumption DEF RunInv, Tale, Blamed, Nodes
    <2> QED BY <2>2, <2>5, <2>6
  <1>2. RunInv => ReportIsTrue
    BY <1>1 DEF ReportIsTrue, SummaryAgrees, FailuresAreShown, RunInv, Tale, Counted
  <1> QED BY RunHolds, <1>2, PTL

(* A status below the number of exit codes is its own.                      *)
LEMMA FitsItsCode ==
  ASSUME NEW a \in Nat, NEW b \in Nat \ {0}, a < b
  PROVE  a % b = a
  BY SMTT(30)

\* Success is reported only for a run that went to its end, judged every selected
\* case, wrote its record and failed nowhere, or as often as there are exit codes,
\* for every tree and selection: the runner exits with the number of failures
\* (console-runner.ts; run.ts, runLrs).
THEOREM ZeroIsSuccess == Spec => []ZeroMeansPassed
  <1>1. ASSUME RunInv, result = 0
        PROVE  /\ written /\ frames = <<>>
               /\ \A c \in matching : verdict[c] # "none"
               /\ summary.failed < ExitCodes =>
                    broken = {} /\ \A c \in matching : verdict[c] \in {"passed", "skipped"}
    <2>1. Outcome /\ stage = "exited" /\ code = 0
      BY <1>1 DEF RunInv, Outcome
    <2>2. written /\ frames = <<>> /\ Reached /\ summary.failed % ExitCodes = 0
      BY <2>1, Zenon DEF Outcome, Over
    <2>3. ASSUME NEW c \in matching
          PROVE  c \in Nodes /\ verdict[c] \in Verdicts /\ verdict[c] # "none"
      <3>1. c \in Nodes /\ verdict[c] \in Verdicts
        BY <1>1 DEF RunInv, Walk, Nodes
      <3> QED BY <2>2, <3>1, NothingAhead DEF Reached
    <2>4. ASSUME summary.failed < ExitCodes
          PROVE  broken = {} /\ \A c \in matching : verdict[c] \in {"passed", "skipped"}
      <3>1. summary.failed = 0
        <4>1. summary.failed \in Nat
          BY <1>1 DEF RunInv, Walk, Summaries
        <4>2. ExitCodes \in Nat \ {0}
          BY TreeAssumption
        <4>3. summary.failed % ExitCodes = summary.failed
          BY <2>4, <4>1, <4>2, FitsItsCode
        <4> QED BY <2>2, <4>3
      <3>2. broken = {} /\ \A n \in Nodes : verdict[n] \notin {"failed", "cancelled"}
        BY <1>1, <3>1 DEF RunInv, Tale, Blamed
      <3> QED BY <2>3, <3>2 DEF Verdicts
    <2> QED BY <2>2, <2>3, <2>4
  <1>2. RunInv => ZeroMeansPassed
    <2>1. RunInv => summary.failed \in Nat /\ ExitCodes \in Nat
      BY TreeAssumption DEF RunInv, Walk, Summaries
    <2> QED BY <1>1, <2>1 DEF ZeroMeansPassed
  <1> QED BY RunHolds, <1>2, PTL
=============================================================================
