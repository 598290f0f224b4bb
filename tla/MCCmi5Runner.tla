---------------------------- MODULE MCCmi5Runner ----------------------------
(* Two conformance runs on one adapter, configured with one package id. *)
EXTENDS Cmi5Runner

TwoRunners == {"run 1", "run 2"}
OnePackage == {"our package"}
SharedId == [r \in TwoRunners |-> "our package"]
UploadChoice == {GoodPackage, BadPackage}

(* Everything, a durable adapter without reload, nothing. *)
AdvertChoice ==
    {RequiredOperations \union OptionalOperations \union OptionalFeatures,
     RequiredOperations \union {"durable"},
     {}}

Unbounded == [s \in RunnerSessions |-> 9]

=============================================================================
