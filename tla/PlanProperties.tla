--------------------------- MODULE PlanProperties ---------------------------
(***************************************************************************)
(* What a resolved plan owes to the test it was declared by, read off the  *)
(* declaration as written and not off the way it is resolved.  Identifiers *)
(* of sections and refs are unique in a declared test.                     *)
(***************************************************************************)
EXTENDS PlanResolution

\* Every ref under a child, in document order, with the sections around it.
RECURSIVE Refs(_, _)
Refs(child, around) ==
  IF child.kind = "ref" THEN <<[ref |-> child, around |-> around]>>
  ELSE FlattenSeq([k \in DOMAIN child.children |->
                     Refs(child.children[k], Append(around, child))])

PartRefs(view, p) == FlattenSeq([x \in DOMAIN view[p].sections |-> Refs(view[p].sections[x], <<>>)])

\* Where a part's declaration names the ref of an item.
Declared(view, item) ==
  CHOOSE k \in DOMAIN PartRefs(view, item.part) : PartRefs(view, item.part)[k].ref.id = item.ref

Shows(child, item) == IF child.kind = "ref" THEN item.ref = child.id
                      ELSE child.id \in ToSet(item.path)

\* The items of a section, in delivery order.
ItemsOf(plan, section) == SelectSeq(plan, LAMBDA item : section.id \in ToSet(item.path))

MayMix(section) == ~section.visible /\ ~section.keepTogether

\* The section's children are mixed into those of a shuffling section around it.
Mixes(around, k) ==
  \E j \in 1 .. k - 1 : around[j].shuffle /\ \A n \in j + 1 .. k : MayMix(around[n])

\* The key names one item of the plan, unless the author's identifiers already
\* look like instance keys.
KeysIdentify(view, plan) ==
  LET named == UNION {{PartRefs(view, p)[k].ref.id : k \in DOMAIN PartRefs(view, p)} :
                        p \in DOMAIN view}
  IN (\A id \in named, n \in 1 .. Len(plan) : Append(id, n) \notin named)
       => IsInjective([k \in DOMAIN plan |-> plan[k].key])

\* Wherever hoisting and shuffling took an item, it stands under the sections the
\* author wrote it under: all their conditions, and the innermost setting of each control.
ChainKept(view, item) ==
  LET entry   == PartRefs(view, item.part)[Declared(view, item)]
      chain   == <<view[item.part]>> \o entry.around \o <<entry.ref>>
      setting(f) == {k \in DOMAIN chain : f \in DOMAIN chain[k].control}
  IN /\ item.path = [k \in DOMAIN entry.around |-> entry.around[k].id]
     /\ item.pre = entry.ref.pre \cup UNION {entry.around[k].pre : k \in DOMAIN entry.around}
     /\ \A f \in DOMAIN SpecDefaults :
          item.control[f] = IF setting(f) = {} THEN SpecDefaults[f]
                            ELSE chain[Max(setting(f))].control[f]

\* A section in the plan shows as many of its children as it declares, never fewer
\* than the required ones, which are all there, and repeats none it may not repeat.
SelectionHonoured(plan, section) ==
  LET mine     == ItemsOf(plan, section)
      places   == DOMAIN section.children
      required == {c \in places : section.children[c].required}
      shown    == {c \in places : \E k \in DOMAIN mine : Shows(section.children[c], mine[k])}
      due      == Max({section.selection.select, Cardinality(required)})
  IN (mine # <<>> /\ section.selection # NoSelection) =>
       /\ required \subseteq shown
       /\ IF section.selection.withReplacement
          THEN (\A c \in places : section.children[c].kind = "ref") => Len(mine) = due
          ELSE /\ Cardinality(shown) = Min({due, Cardinality(places)})
               /\ IsInjective([k \in DOMAIN mine |-> mine[k].ref])

\* A section that is visible, kept together or under no shuffle is served in one stretch.
StaysTogether(plan, section) ==
  LET places == {k \in DOMAIN plan : section.id \in ToSet(plan[k].path)}
  IN places # {} => places = Min(places) .. Max(places)

\* Without a shuffle the children come in document order.  Under one, the fixed
\* refs come at the place document order gives them among the items taken (where
\* nothing under the section stays together, so that items are what is shuffled).
OrderKept(view, plan, section) ==
  LET mine == ItemsOf(plan, section)
      Child(item) == CHOOSE k \in DOMAIN section.children :
                       Shows(section.children[k], item)
      written == SortSeq(mine, LAMBDA a, b : Declared(view, a) < Declared(view, b))
      Entry(item) == PartRefs(view, item.part)[Declared(view, item)]
      Loose(item) == LET around == Entry(item).around
                     IN \A j, k \in DOMAIN around :
                          around[j].id = section.id /\ j < k => MayMix(around[k])
  IN IF ~section.shuffle
     THEN \A j, k \in DOMAIN mine : j < k => Child(mine[j]) <= Child(mine[k])
     ELSE (\A k \in DOMAIN mine : Loose(mine[k])) =>
            \A k \in DOMAIN mine :
              Entry(written[k]).ref.fixed => mine[k].ref = written[k].ref

\* The three promises a section makes, unless it is dissolved (it then keeps its
\* selection only) or may be drawn more than once.
SectionServed(view, plan, around, k) ==
  (\A j \in 1 .. k - 1 : ~around[j].selection.withReplacement) =>
    /\ SelectionHonoured(plan, around[k])
    /\ ~Mixes(around, k) => /\ StaysTogether(plan, around[k])
                            /\ OrderKept(view, plan, around[k])

Admissible(view, plan) ==
  /\ KeysIdentify(view, plan)
  /\ \A n \in DOMAIN plan : ChainKept(view, plan[n])
  /\ \A n \in DOMAIN plan :
       LET around == PartRefs(view, plan[n].part)[Declared(view, plan[n])].around
       IN \A k \in DOMAIN around : SectionServed(view, plan, around, k)
=============================================================================
