--------------------------- MODULE PlanResolution ---------------------------
(***************************************************************************)
(* How a declared test becomes a delivery plan (controller.ts,             *)
(* resolvePlan): sections select and shuffle their children by draws from  *)
(* a seeded generator.  A seed stands for one sequence of draws; here      *)
(* every draw is open, and an operator returns the set of its outcomes.    *)
(*                                                                         *)
(* A declared child is a record: kind "section" or "ref", id, required,    *)
(* fixed, pre (its preconditions) and control (the session control it sets *)
(* explicitly); a section also has children, selection, shuffle, visible   *)
(* and keepTogether.  An identifier is a sequence, so that the key "Q.2"   *)
(* is the identifier "Q" with 2 appended.  Left out: time limits, and the  *)
(* plan's own list of sections.                                            *)
(***************************************************************************)
EXTENDS Integers, SequencesExt, TLC

NoSelection == [select |-> -1, withReplacement |-> FALSE]

\* specSessionControlDefaults.
SpecDefaults == [maxAttempts |-> 1, allowSkipping |-> TRUE, allowReview |-> TRUE,
                 allowComment |-> FALSE, validateResponses |-> FALSE]

\* One element of each set, joined in order.
Concats(alternatives) ==
  FoldLeft(LAMBDA done, next : {a \o b : a \in done, b \in next}, {<<>>}, alternatives)

(***************************************************************************)
(* Selection and ordering                                                  *)
(***************************************************************************)

\* A seeded shuffle cut to length: any count members of the pool.
SeededPick(pool, count) == kSubset(Min({count, Cardinality(pool)}), pool)

\* How often each child is taken: a required one once, and for the rest either
\* any repeated draws from all children, or distinct ones from the others.
TakenCounts(children, selection) ==
  LET places   == DOMAIN children
      required == {k \in places : children[k].required}
      needed   == Max({0, selection.select - Cardinality(required)})
      Taken(k, n) == IF k \in required THEN n + 1 ELSE n
  IN IF selection.withReplacement
     THEN {[k \in places |-> Taken(k, draws[k])] :
             draws \in {d \in [places -> 0 .. needed] : SumFunction(d) = needed}}
     ELSE {[k \in places |-> IF k \in required \cup picked THEN 1 ELSE 0] :
             picked \in SeededPick(places \ required, needed)}

\* The children taken, in document order, repeats adjacent.
ApplySelection(children, selection) ==
  IF children = <<>> THEN {<<>>}
  ELSE {FlattenSeq([k \in DOMAIN children |-> [n \in 1 .. counts[k] |-> children[k]]]) :
          counts \in TakenCounts(children, selection)}

SelectedChildren(section) ==
  IF section.selection = NoSelection THEN {section.children}
  ELSE ApplySelection(section.children, section.selection)

Unit(child) == [child |-> child, via |-> <<>>]

\* A fixed child keeps its place among those taken; the others may come in any order.
ApplyOrdering(units) ==
  LET movable == {k \in DOMAIN units : ~units[k].child.fixed}
  IN {[k \in DOMAIN units |-> IF k \in movable THEN units[order[k]] ELSE units[k]] :
        order \in Permutations(movable)}

(***************************************************************************)
(* Hoisting                                                                *)
(***************************************************************************)

\* An invisible section that need not stay together dissolves into a shuffling parent.
Dissolves(child) == child.kind = "section" /\ ~child.visible /\ ~child.keepTogether

\* Mutant: a unit forgets the section it was hoisted out of.
HoistedBare(section, units) == units

\* A hoisted unit remembers the sections it came through, outermost first.
Hoisted(section, units) ==
  [n \in DOMAIN units |-> [units[n] EXCEPT !.via = <<section>> \o @]]

RECURSIVE MixedUnits(_)
MixedUnits(children) ==
  Concats([k \in DOMAIN children |->
    IF Dissolves(children[k])
    THEN {Hoisted(children[k], units) :
            units \in UNION {MixedUnits(inner) : inner \in SelectedChildren(children[k])}}
    ELSE {<<Unit(children[k])>>}])

Units(section, children) ==
  IF section.shuffle THEN UNION {ApplyOrdering(units) : units \in MixedUnits(children)}
  ELSE {[k \in DOMAIN children |-> Unit(children[k])]}

(***************************************************************************)
(* Items and keys                                                          *)
(***************************************************************************)

\* What a child inherits inside a section.
Inside(outer, section) ==
  [outer EXCEPT !.path = Append(@, section.id), !.pre = @ \cup section.pre,
                !.control = section.control @@ @]

PlanItem(ref, around) ==
  [ref |-> ref.id, part |-> around.part, path |-> around.path,
   pre |-> around.pre \cup ref.pre, control |-> ref.control @@ around.control @@ SpecDefaults]

RECURSIVE ResolveSection(_, _)
ResolveSection(section, outer) ==
  LET Resolved(unit) ==
        LET around == FoldLeft(Inside, Inside(outer, section), unit.via)
        IN IF unit.child.kind = "section" THEN ResolveSection(unit.child, around)
           ELSE {<<PlanItem(unit.child, around)>>}
  IN UNION {Concats([k \in DOMAIN units |-> Resolved(units[k])]) :
              units \in UNION {Units(section, taken) : taken \in SelectedChildren(section)}}

\* A ref drawn more than once: the identifier and the place among its instances.
Key(items, k) ==
  LET instances == {j \in DOMAIN items : items[j].ref = items[k].ref}
  IN IF Cardinality(instances) < 2 THEN items[k].ref
     ELSE Append(items[k].ref, Cardinality({j \in instances : j <= k}))

WithKeys(items) == [k \in DOMAIN items |-> items[k] @@ [key |-> Key(items, k)]]

\* The plans a declared test, a sequence of parts, may resolve to.
ResolvePlan(view) ==
  LET Start(p)  == [part |-> p, path |-> <<>>, pre |-> {}, control |-> view[p].control]
      PartItems(p) == Concats([x \in DOMAIN view[p].sections |->
                                 ResolveSection(view[p].sections[x], Start(p))])
  IN {WithKeys(items) : items \in Concats([p \in DOMAIN view |-> PartItems(p)])}
=============================================================================
