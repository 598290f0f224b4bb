--------------------------- MODULE MCSuiteRuntime ---------------------------
(* Two hooks and a nested suite in one suite, a case without a body beside  *)
(* it, a second suite after it.                                             *)
EXTENDS SuiteRuntime

SomeSuites == {"root", "first", "inner", "second"}
SomeCases == {"a", "b", "c", "d", "e", "f"}
Tree == [root |-> <<"first", "second", "a">>, first |-> <<"inner", "b">>, inner |-> <<"c">>, second |-> <<"d", "e", "f">>]
BeforeHooks == [root |-> 1, first |-> 2, inner |-> 1, second |-> 0]
WithBody == {"a", "b", "c", "d", "f"}
=============================================================================
