----------------------------- MODULE MCPciHost -----------------------------
(* Two interactions of one type, loading one module id along two ways.     *)
EXTENDS PciHost, PciLoading

Tap(of, instance) == [type |-> "tap", instance |-> instance, of |-> of]
Makes(id, deps, registers, returns, throws) ==
    [id |-> id, deps |-> deps, registers |-> registers, returns |-> returns, throws |-> throws]

(* A module that needs a helper it does not bring; one that brings it, is   *)
(* ready late and registers itself with the context; one whose getInstance  *)
(* throws, from a factory that first fails without the helper.              *)
NeedsHelper == [broken |-> FALSE, defines |->
    <<Makes(OwnId, <<Context, "helper">>, <<>>, Tap("primary", "returned"), FALSE)>>]
Complete == [broken |-> FALSE, defines |->
    <<Makes("helper", <<>>, <<>>, Library, FALSE),
      Makes(OwnId, <<Context, "helper">>, <<Tap("fallback", "onready")>>, None, FALSE)>>]
Throwing == [broken |-> FALSE, defines |->
    <<Makes(OwnId, <<Context>>, <<>>, Tap("vetted", "throws"), FALSE)>>]

PinnedSources == "primary" :> NeedsHelper @@ "fallback" :> Complete @@ "vetted" :> Throwing
KnownPaths == "module" :> "vetted"
Delivered == Range(PinnedSources) \union {Failed}
Helper == [type |-> "helper", instance |-> "returned", of |-> "application"]
ApplicationModules == {[id |-> "helper", module |-> Helper]}
ApplicationRegistries == BundledRegistries(ApplicationModules)

Interactions ==
    [a |-> [type |-> "tap", module |-> None, modules |-> <<[id |-> "module", paths |-> <<"primary", "fallback">>]>>],
     b |-> [type |-> "tap", module |-> "module", modules |-> <<>>]]
TwoHosts == DOMAIN Interactions
RunsOf == [a |-> 2, b |-> 1]
WorkedIn == TwoHosts
=============================================================================
