---------------------------- MODULE MCTrampoline ----------------------------
(* Model-checking instances of Trampoline.                                 *)
EXTENDS Trampoline

CONSTANTS a, b, c, x, y

\* two tasks of one key and one of another
AffinityTwoQueues == (a :> x) @@ (b :> y) @@ (c :> x)
AffinityOneQueue == [task \in Tasks |-> x]
=============================================================================
