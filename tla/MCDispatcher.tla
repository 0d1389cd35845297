---------------------------- MODULE MCDispatcher ----------------------------
(* Model-checking instances of Dispatcher.                                 *)
EXTENDS Dispatcher

CONSTANTS m1, m2, w1, w2

\* every mailbox has a worker of its own, as pid % parallelism gives it
AffinitySpread == (m1 :> w1) @@ (m2 :> w2)
AffinityShared == [m \in Mailboxes |-> w1]
=============================================================================
