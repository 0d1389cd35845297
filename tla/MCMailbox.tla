----------------------------- MODULE MCMailbox -----------------------------
(* Model-checking instances of Mailbox.                                    *)
EXTENDS Mailbox

CONSTANTS s1, s2, w1, w2, c1, c2, u1, u2, y1

Symmetry == Permutations({w1, w2}) \cup Permutations({c1, c2})

\* the one system message of an instance; a Recreate undoes the suspension that
\* its sender made
OneRecreate == (y1 :> "Recreate")
OneResume == (y1 :> "Resume")
OneSuspend == (y1 :> "Suspend")
=============================================================================
