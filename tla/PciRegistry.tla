---------------------------- MODULE PciRegistry ----------------------------
(***************************************************************************)
(* The module registry of the portable custom interactions: AMD sources    *)
(* are evaluated, their factories run on first use, and a module is found  *)
(* again under its id or the type it declares.                             *)
(*                                                                         *)
(* A registry is a record of its three maps.  A source text stands for     *)
(* what evaluating and running it does: its defines in order, each with    *)
(* the id it names (or OwnId, the id it is loaded under), the ids it       *)
(* depends on, the modules its factory registers with the context, the     *)
(* value it returns, and whether the factory throws.  A module is a record *)
(* with its type; a library is a value that is not a module.               *)
(***************************************************************************)
EXTENDS Sequences, SequencesExt, Functions, TLC

CONSTANTS
    OwnId,
    None,          \* no value: undefined
    Library,       \* a value without getInstance
    Failed,        \* a fetch that was refused
    Pinned,        \* the catalog: the source each vetted URL is pinned to
    Paths          \* the path of a module id that comes without candidates

Context == "qtiCustomInteractionContext"

EmptyRegistry == [definitions |-> <<>>, resolved |-> <<>>, byType |-> <<>>]

IsModule(value) == value \notin {None, Library}
Declared(reg, value) ==
    IF IsModule(value) /\ value.type # None
    THEN [reg EXCEPT !.byType = (value.type :> value) @@ @]
    ELSE reg

RegisterModule(reg, id, module) ==
    Declared([reg EXCEPT !.resolved = (id :> module) @@ @], module)

(***************************************************************************)
(* Running a factory.  An outcome is the registry, whether it threw, and   *)
(* the value otherwise; what was done before a throw stays done.           *)
(***************************************************************************)
Outcome(reg, value) == [reg |-> reg, threw |-> FALSE, value |-> value]
Threw(reg) == [reg |-> reg, threw |-> TRUE, value |-> None]

DefinitionOf(reg, id) == SelectSeq(reg.definitions, LAMBDA d : d.id = id)
Defined(reg, id) == DefinitionOf(reg, id) # <<>>
IsResolved(reg, id) == id \in DOMAIN reg.resolved

RunFactory(reg, id, definition) ==
    LET registered == FoldSeq(LAMBDA m, r : Declared(r, m), reg, definition.registers)
        value == IF definition.returns # None \/ definition.registers = <<>>
                 THEN definition.returns
                 ELSE Last(definition.registers)
    IN  IF definition.throws
        THEN Threw(registered)
        ELSE Outcome(Declared([registered EXCEPT !.resolved = (id :> value) @@ @], value), value)

RECURSIVE Instantiate(_, _, _)
Instantiate(reg, id, resolving) ==
    LET definition == Head(DefinitionOf(reg, id))
        Depend(outcome, dependency) ==
            IF outcome.threw \/ dependency = Context \/ IsResolved(outcome.reg, dependency)
            THEN outcome
            ELSE IF ~Defined(outcome.reg, dependency)
            THEN Threw(outcome.reg)
            ELSE Instantiate(outcome.reg, dependency, resolving \union {id})
        ready == FoldLeft(Depend, Outcome(reg, None), definition.deps)
    IN  IF id \in resolving THEN Threw(reg)
        ELSE IF ready.threw THEN ready
        ELSE RunFactory(ready.reg, id, definition)

(* An unknown id may be a type: every pending definition is tried.          *)
InstantiatePending(reg) ==
    FoldLeft(LAMBDA r, d : IF IsResolved(r, d.id) THEN r ELSE Instantiate(r, d.id, {}).reg,
             reg, reg.definitions)

ModuleOf(map, id) == IF id \in DOMAIN map /\ IsModule(map[id]) THEN map[id] ELSE None

\* Mutant: the definition is run again although the id is resolved.
ResolveAgain(reg, id) ==
    IF id \in DOMAIN reg.byType
    THEN Outcome(reg, reg.byType[id])
    ELSE IF Defined(reg, id)
    THEN LET ran == Instantiate(reg, id, {})
         IN  [ran EXCEPT !.value = ModuleOf(ran.reg.resolved, id)]
    ELSE LET tried == InstantiatePending(reg) IN Outcome(tried, ModuleOf(tried.byType, id))

Resolve(reg, id) ==
    IF id \in DOMAIN reg.byType
    THEN Outcome(reg, reg.byType[id])
    ELSE IF IsResolved(reg, id)
    THEN Outcome(reg, ModuleOf(reg.resolved, id))
    ELSE IF Defined(reg, id)
    THEN LET ran == Instantiate(reg, id, {})
         IN  [ran EXCEPT !.value = ModuleOf(ran.reg.resolved, id)]
    ELSE LET tried == InstantiatePending(reg) IN Outcome(tried, ModuleOf(tried.byType, id))

(* The first of ids that resolves, ids that name nothing (None) left out.   *)
ResolveFirst(reg, ids) ==
    FoldLeft(LAMBDA found, id :
                IF found.threw \/ found.value # None \/ id = None THEN found ELSE Resolve(found.reg, id),
             Outcome(reg, None), ids)

(***************************************************************************)
(* Evaluating a source runs its defines; each goes under the id it names,  *)
(* in place of the definition that was there.  A source that does not      *)
(* parse, or throws after its defines, is broken.                          *)
(***************************************************************************)
Define(reg, definition) ==
    LET at == SelectInSeq(reg.definitions, LAMBDA d : d.id = definition.id)
    IN  [reg EXCEPT !.definitions = IF at = 0 THEN Append(@, definition) ELSE [@ EXCEPT ![at] = definition]]

Evaluate(reg, id, text) ==
    LET Named(d) == IF d.id = OwnId THEN [d EXCEPT !.id = id] ELSE d
        defined == FoldLeft(LAMBDA r, d : Define(r, Named(d)), reg, text.defines)
    IN  IF text.broken THEN Threw(defined) ELSE Outcome(defined, None)

(* A fetched source is evaluated and the id looked up; a refusal, a throw   *)
(* and a source without a module all leave the id unloaded.                 *)
Receive(reg, id, text) ==
    IF text = Failed
    THEN Threw(reg)
    ELSE LET evaluated == Evaluate(reg, id, text)
         IN  IF evaluated.threw THEN evaluated ELSE Resolve(evaluated.reg, id)

Candidates(id, paths) ==
    IF paths # <<>> THEN paths ELSE IF id \in DOMAIN Paths THEN <<Paths[id]>> ELSE <<>>

(* The catalog refuses a URL it has not vetted and bytes that do not match. *)
FetchText(url, bytes) == IF url \in DOMAIN Pinned /\ bytes = Pinned[url] THEN bytes ELSE Failed

=============================================================================
