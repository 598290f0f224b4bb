----------------------------- MODULE PciLoading -----------------------------
(***************************************************************************)
(* How a host finds the module of its interaction: what the registry       *)
(* already holds, and the sources it loads one after the other, each over  *)
(* its candidate URLs.  A search goes on until it needs a fetch, and again *)
(* when the fetch is answered; its outcome says where the run stands.      *)
(***************************************************************************)
EXTENDS PciRegistry, Naturals

CONSTANT Node      \* Node[h]: the interaction's type, its module name or None, its declared modules

(***************************************************************************)
(* The modules to load are the declared ones, or the named one; each is    *)
(* loaded in turn unless it already resolves, and the run stops at the     *)
(* first that needs a fetch.  Nothing is left to load: the type, the name  *)
(* and a single declared module are looked up.                             *)
(***************************************************************************)
ToLoad(node) ==
    IF node.modules = <<>> /\ node.module # None
    THEN <<[id |-> node.module, paths |-> <<>>]>>
    ELSE node.modules

PreRegistered(r, node) == ResolveFirst(r, <<node.type, node.module>>)

Loaded(r, node) ==
    ResolveFirst(r, <<node.type, node.module, IF Len(node.modules) = 1 THEN node.modules[1].id ELSE None>>)

(* Where a run stands: which module it fetches from which candidate, or     *)
(* which module it mounts; it failed when it does neither.                  *)
Fetching(r, entry, candidate) == [reg |-> r, entry |-> entry, candidate |-> candidate, module |-> None]
Found(outcome) == [reg |-> outcome.reg, entry |-> 0, candidate |-> 0,
                   module |-> IF outcome.threw THEN None ELSE outcome.value]
Rejected(r) == Found(Threw(r))

RECURSIVE Load(_, _, _)
Load(r, node, entry) ==
    IF entry > Len(ToLoad(node)) THEN Found(Loaded(r, node))
    ELSE LET wanted == ToLoad(node)[entry]
             existing == Resolve(r, wanted.id)
         IN  IF existing.threw THEN Rejected(existing.reg)
             ELSE IF existing.value # None THEN Load(existing.reg, node, entry + 1)
             ELSE IF Candidates(wanted.id, wanted.paths) = <<>> THEN Rejected(existing.reg)
             ELSE Fetching(existing.reg, entry, 1)

(* A reply loads the module, moves on to the next candidate or, after the   *)
(* last one, rejects the mount.                                             *)
Received(r, node, fetch, text) ==
    LET wanted == ToLoad(node)[fetch.entry]
        received == Receive(r, wanted.id, text)
    IN  IF ~received.threw /\ received.value # None
        THEN Load(received.reg, node, fetch.entry + 1)
        ELSE IF fetch.candidate < Len(Candidates(wanted.id, wanted.paths))
        THEN Fetching(received.reg, fetch.entry, fetch.candidate + 1)
        ELSE Rejected(received.reg)

Started(r, node) ==
    LET early == PreRegistered(r, node)
    IN  IF early.threw THEN Rejected(early.reg)
        ELSE IF early.value # None THEN Found(early)
        ELSE Load(early.reg, node, 1)

RegistrySearch(r, h) == Started(r, Node[h])

(* A fetch delivers bytes, which the catalog vets for the candidate's URL.  *)
RegistrySearchOn(r, h, fetch, bytes) ==
    LET wanted == ToLoad(Node[h])[fetch.entry]
        url == Candidates(wanted.id, wanted.paths)[fetch.candidate]
    IN  Received(r, Node[h], fetch, FetchText(url, bytes))

BundledRegistries(bundled) ==
    {EmptyRegistry} \union {RegisterModule(EmptyRegistry, b.id, b.module) : b \in bundled}
=============================================================================
