---------------------------- MODULE MCCmi5Adapter ----------------------------
(* Instances of the adapter, and the mutants its properties are tried on. *)
EXTENDS Cmi5AdapterProperties, TLC

CONSTANTS s1, s2    \* two launch session ids

TwoSessions == {s1, s2}

(* One session id is launched twice; the other is there to be mistaken for it. *)
LaunchBound == s1 :> 2 @@ s2 :> 1
WholeSession == s1 :> 5 @@ s2 :> 0
FirstStatement == s1 :> 1 @@ s2 :> 1

=============================================================================
