----------------------------- MODULE MpscQueue -----------------------------
(***************************************************************************)
(* LockFreeMpscQueue (dispatch/mailbox/lock_free_mpsc_queue.rs), the user  *)
(* queue of every standard unbounded mailbox.                              *)
(*                                                                         *)
(* Producers link nodes onto `head`, a stack with the newest node first;   *)
(* the consumer that holds `consumer_active` takes the whole stack at      *)
(* once, reverses it into `pending` and serves from there.  `close`        *)
(* publishes `closed` and spins until the producers that entered before    *)
(* have left (`in_flight`).  Each step below is one access to a shared     *)
(* atomic; a compare-exchange loop is its one successful iteration, and    *)
(* what a thread does to data only it can reach joins the step before.     *)
(***************************************************************************)
EXTENDS Integers, SequencesExt

CONSTANTS
  Producers,   \* threads that push
  Consumers,   \* threads that pop (the mailbox runner, a draining finalizer)
  Closers,     \* threads that call close_and_drain
  MaxPush      \* bound: pushes per producer

ASSUME ThreadsAssumption ==
  /\ IsFiniteSet(Producers \cup Consumers \cup Closers)
  /\ Producers \cap Consumers = {}
  /\ Producers \cap Closers = {}
  /\ Consumers \cap Closers = {}
ASSUME MaxPushAssumption == MaxPush \in Nat

VARIABLES
  head,            \* the stack of linked nodes, newest first
  pending,         \* the consumer's list, oldest first
  len,             \* AtomicUsize; below zero it would have wrapped
  in_flight,       \* AtomicUsize
  closed,          \* AtomicBool
  consumer_active, \* AtomicBool
  pc,              \* where each thread is
  pushes,          \* pushes each producer has finished
  linked,          \* history: messages in the order they were linked
  taken            \* history: messages in the order they left the queue

vars == <<head, pending, len, in_flight, closed, consumer_active, pc, pushes,
          linked, taken>>

Threads == Producers \cup Consumers \cup Closers
Message == Producers \X (1 .. MaxPush)

ProducerPC == {"idle", "entered", "refused", "admitted", "counted", "linked"}
ConsumerPC == {"idle", "popping", "unlinked", "leaving"}
CloserPC   == {"idle", "closing", "quiet", "popping", "unlinked", "leaving", "done"}

\* The message p is pushing: its n-th push carries <<p, n>>.
MessageOf(p) == <<p, pushes[p] + 1>>

Goto(t, label) == pc' = [pc EXCEPT ![t] = label]

Init ==
  /\ head = <<>>
  /\ pending = <<>>
  /\ len = 0
  /\ in_flight = 0
  /\ closed = FALSE
  /\ consumer_active = FALSE
  /\ pc = [t \in Threads |-> "idle"]
  /\ pushes = [p \in Producers |-> 0]
  /\ linked = <<>>
  /\ taken = <<>>

-----------------------------------------------------------------------------
(* push                                                                    *)

\* enter_producer announces the producer before it looks at `closed`
AnnounceProducer(p) ==
  /\ pc[p] = "idle"
  /\ pushes[p] < MaxPush
  /\ in_flight' = in_flight + 1
  /\ Goto(p, "entered")
  /\ UNCHANGED <<head, pending, len, closed, consumer_active, pushes, linked, taken>>

CheckClosed(p) ==
  /\ pc[p] = "entered"
  /\ Goto(p, IF closed THEN "refused" ELSE "admitted")
  /\ UNCHANGED <<head, pending, len, in_flight, closed, consumer_active, pushes,
                 linked, taken>>

\* the length goes up before the node is reachable
CountMessage(p) ==
  /\ pc[p] = "admitted"
  /\ len' = len + 1
  /\ Goto(p, "counted")
  /\ UNCHANGED <<head, pending, in_flight, closed, consumer_active, pushes,
                 linked, taken>>

LinkNode(p) ==
  /\ pc[p] = "counted"
  /\ head' = <<MessageOf(p)>> \o head
  /\ linked' = Append(linked, MessageOf(p))
  /\ Goto(p, "linked")
  /\ UNCHANGED <<pending, len, in_flight, closed, consumer_active, pushes, taken>>

\* Mutant of LeaveProducer: a refused producer forgets to withdraw.
LeaveRefusedCounted(p) ==
  /\ pc[p] \in {"linked", "refused"}
  /\ in_flight' = IF pc[p] = "linked" THEN in_flight - 1 ELSE in_flight
  /\ pushes' = [pushes EXCEPT ![p] = @ + 1]
  /\ Goto(p, "idle")
  /\ UNCHANGED <<head, pending, len, closed, consumer_active, linked, taken>>

\* the guard is dropped (Ok), or a refused producer withdraws (Err)
LeaveProducer(p) ==
  /\ pc[p] \in {"linked", "refused"}
  /\ in_flight' = in_flight - 1
  /\ pushes' = [pushes EXCEPT ![p] = @ + 1]
  /\ Goto(p, "idle")
  /\ UNCHANGED <<head, pending, len, closed, consumer_active, linked, taken>>

-----------------------------------------------------------------------------
(* pop, and close_and_drain, which keeps the consumer guard while it pops  *)

\* Mutant of EnterConsumer: a store instead of a compare-exchange.
EnterConsumerUnguarded(c) ==
  /\ \/ c \in Consumers /\ pc[c] = "idle"
     \/ c \in Closers /\ pc[c] = "quiet"
  /\ consumer_active' = TRUE
  /\ Goto(c, "popping")
  /\ UNCHANGED <<head, pending, len, in_flight, closed, pushes, linked, taken>>

\* enter_consumer: the compare-exchange the spin loop waits for
EnterConsumer(c) ==
  /\ \/ c \in Consumers /\ pc[c] = "idle"
     \/ c \in Closers /\ pc[c] = "quiet"
  /\ ~consumer_active
  /\ consumer_active' = TRUE
  /\ Goto(c, "popping")
  /\ UNCHANGED <<head, pending, len, in_flight, closed, pushes, linked, taken>>

\* pop_pending_node, up to its store to `pending`
PopPendingNode(c) ==
  /\ pc[c] = "popping"
  /\ pending # <<>>
  /\ pending' = Tail(pending)
  /\ taken' = Append(taken, Head(pending))
  /\ Goto(c, "unlinked")
  /\ UNCHANGED <<head, len, in_flight, closed, consumer_active, pushes, linked>>

\* Mutant of TakeHead: the detached chain is served newest first.
TakeHeadUnreversed(c) ==
  /\ pc[c] = "popping"
  /\ pending = <<>>
  /\ head # <<>>
  /\ pending' = head
  /\ head' = <<>>
  /\ UNCHANGED <<len, in_flight, closed, consumer_active, pc, pushes, linked, taken>>

\* `head` is swapped for null, and the detached chain reversed into `pending`
TakeHead(c) ==
  /\ pc[c] = "popping"
  /\ pending = <<>>
  /\ head # <<>>
  /\ pending' = Reverse(head)
  /\ head' = <<>>
  /\ UNCHANGED <<len, in_flight, closed, consumer_active, pc, pushes, linked, taken>>

FindEmpty(c) ==
  /\ pc[c] = "popping"
  /\ pending = <<>>
  /\ head = <<>>
  /\ Goto(c, "leaving")
  /\ UNCHANGED <<head, pending, len, in_flight, closed, consumer_active, pushes,
                 linked, taken>>

\* Mutant of CountDown: the drain of a closer does not count.
CountDownPopsOnly(c) ==
  /\ pc[c] = "unlinked"
  /\ len' = IF c \in Closers THEN len ELSE len - 1
  /\ Goto(c, IF c \in Closers THEN "popping" ELSE "leaving")
  /\ UNCHANGED <<head, pending, in_flight, closed, consumer_active, pushes,
                 linked, taken>>

\* the end of pop_pending_node: a pop is over, a drain goes on
CountDown(c) ==
  /\ pc[c] = "unlinked"
  /\ len' = len - 1
  /\ Goto(c, IF c \in Closers THEN "popping" ELSE "leaving")
  /\ UNCHANGED <<head, pending, in_flight, closed, consumer_active, pushes,
                 linked, taken>>

LeaveConsumer(c) ==
  /\ pc[c] = "leaving"
  /\ consumer_active' = FALSE
  /\ Goto(c, IF c \in Closers THEN "done" ELSE "idle")
  /\ UNCHANGED <<head, pending, len, in_flight, closed, pushes, linked, taken>>

-----------------------------------------------------------------------------
(* close                                                                   *)

PublishClosed(c) ==
  /\ pc[c] = "idle"
  /\ closed' = TRUE
  /\ Goto(c, "closing")
  /\ UNCHANGED <<head, pending, len, in_flight, consumer_active, pushes, linked,
                 taken>>

\* Mutant of AwaitProducers: close() returns without waiting.
CloseAtOnce(c) ==
  /\ pc[c] = "closing"
  /\ Goto(c, "quiet")
  /\ UNCHANGED <<head, pending, len, in_flight, closed, consumer_active, pushes,
                 linked, taken>>

AwaitProducers(c) ==
  /\ pc[c] = "closing"
  /\ in_flight = 0
  /\ Goto(c, "quiet")
  /\ UNCHANGED <<head, pending, len, in_flight, closed, consumer_active, pushes,
                 linked, taken>>

-----------------------------------------------------------------------------
Push(p) ==
  \/ AnnounceProducer(p) \/ CheckClosed(p) \/ CountMessage(p) \/ LinkNode(p)
  \/ LeaveProducer(p)

Pop(c) ==
  \/ EnterConsumer(c) \/ PopPendingNode(c) \/ TakeHead(c) \/ FindEmpty(c)
  \/ CountDown(c) \/ LeaveConsumer(c)

Close(c) == PublishClosed(c) \/ AwaitProducers(c)

Next ==
  \/ \E p \in Producers : Push(p)
  \/ \E c \in Consumers \cup Closers : Pop(c)
  \/ \E c \in Closers : Close(c)

\* A thread inside an operation is not descheduled for ever, and a thread that
\* spins on the consumer guard gets it if others keep releasing it.
Fairness ==
  /\ \A p \in Producers :
       WF_vars(CheckClosed(p) \/ CountMessage(p) \/ LinkNode(p) \/ LeaveProducer(p))
  /\ \A c \in Consumers \cup Closers :
       WF_vars(PopPendingNode(c) \/ TakeHead(c) \/ FindEmpty(c) \/ CountDown(c)
               \/ LeaveConsumer(c))
  /\ \A c \in Closers : WF_vars(AwaitProducers(c)) /\ SF_vars(EnterConsumer(c))

Spec == Init /\ [][Next]_vars

FairSpec == Spec /\ Fairness

-----------------------------------------------------------------------------
(* Properties                                                              *)

TypeOK ==
  /\ head \in Seq(Message)
  /\ pending \in Seq(Message)
  /\ linked \in Seq(Message)
  /\ taken \in Seq(Message)
  /\ len \in Nat
  /\ in_flight \in Nat
  /\ closed \in BOOLEAN
  /\ consumer_active \in BOOLEAN
  /\ pushes \in [Producers -> 0 .. MaxPush]
  /\ pc \in [Threads -> ProducerPC \cup ConsumerPC \cup CloserPC]
  /\ \A p \in Producers : /\ pc[p] \in ProducerPC
                          /\ pc[p] # "idle" => pushes[p] < MaxPush
  /\ \A c \in Consumers : pc[c] \in ConsumerPC
  /\ \A c \in Closers : pc[c] \in CloserPC

\* What is waiting in the queue, oldest first.
Waiting == pending \o Reverse(head)

\* Nothing is lost, duplicated or overtaken: what left the queue followed by
\* what waits in it is exactly what was linked, in that order (push, the
\* reversal in pop_with_consumer_held, and pop_pending_node together).
Fifo == linked = taken \o Waiting

\* Threads between the acquisition and the release of the consumer guard.
Holders == {c \in Consumers \cup Closers : pc[c] \in {"popping", "unlinked", "leaving"}}

\* The guard is exclusive, which is what the SAFETY comments of
\* pop_pending_node and reverse_list rest on: no two threads free nodes.
ConsumerExclusive == \A c, d \in Holders : c = d

Sealers == {c \in Closers : pc[c] \in CloserPC \ {"idle", "closing"}}

\* close() has returned in some thread.
Sealed == Sealers # {}

\* A producer that saw the queue open and has not linked its node yet.
Admitted == {p \in Producers : pc[p] \in {"admitted", "counted"}}

\* Producers that `in_flight` counts.
InProtocol == {p \in Producers : pc[p] # "idle"}

Counted == {p \in Producers : pc[p] = "counted"}
Unlinkers == {c \in Holders : pc[c] = "unlinked"}

\* The length never wraps below zero and never hides a waiting message: it is
\* the number of waiting nodes plus the steps that have not caught up yet.
\* (Mailbox::run asks user_len() > 0 to decide whether to run again.)
LenCoversWaiting ==
  len = Len(head) + Len(pending) + Cardinality(Counted) + Cardinality(Unlinkers)

\* Once close() has returned no message is linked any more: no producer can be
\* past its check of `closed`.  finalize_cleanup drains after close_for_cleanup
\* and relies on this to leave no phantom message behind.
NoPhantomPush == [][Sealed => linked' = linked]_vars

\* A queue that close_and_drain has finished with stays empty for good.
EmptyOnceDrained == (\E c \in Closers : pc[c] = "done") => Waiting = <<>>

\* close_and_drain terminates: the spin on in_flight and the spin on the
\* consumer guard both end, whatever producers and consumers do meanwhile.
CloseTerminates == \A c \in Closers : pc[c] = "closing" ~> pc[c] = "done"

Abstract == INSTANCE UserQueue WITH
  items <- Waiting, delivered <- taken, sealed <- Sealed

\* The queue implements the FIFO buffer that mailboxes expect: linking a node
\* is the put, unlinking it the take, and the return of close() the seal, after
\* which no put happens (LockFreeMpscQueue as UnboundedMessageQueue uses it).
RefinesUserQueue == Abstract!QSpec
=============================================================================
