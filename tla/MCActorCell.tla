---------------------------- MODULE MCActorCell ----------------------------
EXTENDS ActorCell, TLC
CONSTANTS g, a, b, k
MCParent == (a :> g) @@ (b :> g) @@ (k :> a)
=============================================================================
