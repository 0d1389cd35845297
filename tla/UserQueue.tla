----------------------------- MODULE UserQueue -----------------------------
(***************************************************************************)
(* What a mailbox expects of the queue behind `MessageQueue`               *)
(* (dispatch/mailbox/message_queue.rs): a FIFO buffer that many producers  *)
(* fill and one consumer at a time empties, and that can be sealed.  After *)
(* the seal nothing is added any more, so that a finalizer that empties    *)
(* the queue leaves it empty for good.                                     *)
(***************************************************************************)
EXTENDS Sequences

CONSTANT Message

VARIABLES
  items,      \* messages waiting, oldest first
  delivered,  \* messages handed out so far, in the order they left
  sealed      \* close_for_cleanup has returned

qvars == <<items, delivered, sealed>>

QInit ==
  /\ items = <<>>
  /\ delivered = <<>>
  /\ sealed = FALSE

\* enqueue: appended at the back, only while the queue is not sealed
Put ==
  /\ ~sealed
  /\ \E m \in Message : items' = Append(items, m)
  /\ UNCHANGED <<delivered, sealed>>

\* dequeue: the oldest message leaves
Take ==
  /\ items # <<>>
  /\ delivered' = Append(delivered, Head(items))
  /\ items' = Tail(items)
  /\ UNCHANGED sealed

\* close_for_cleanup
Seal ==
  /\ sealed' = TRUE
  /\ UNCHANGED <<items, delivered>>

QNext == Put \/ Take \/ Seal

QSpec == QInit /\ [][QNext]_qvars
=============================================================================
