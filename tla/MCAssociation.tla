---------------------------- MODULE MCAssociation ----------------------------
(* Two nodes: na sends system envelopes to recipients whose lanes differ,  *)
(* nb a user envelope; for the run about resets nb sends a second one,     *)
(* which starts its handshake again.                                       *)
EXTENDS Association

CONSTANTS na, nb

MCScript == [n \in Nodes |-> IF n = na THEN <<TRUE, TRUE>> ELSE <<FALSE>>]
MCLane   == [n \in Nodes |-> IF n = na THEN <<0, 1>> ELSE <<0>>]

MCResetScript == [n \in Nodes |-> IF n = na THEN <<TRUE>> ELSE <<FALSE, FALSE>>]
MCResetLane   == [n \in Nodes |-> IF n = na THEN <<0>> ELSE <<0, 0>>]
=============================================================================
