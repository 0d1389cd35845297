# TLA+ verification of fraktor-rs

fraktor-rs is an actor runtime in Rust in the tradition of Pekko/Akka. This
directory models two of its layers. The lower one is the way a message gets from
a sender to an actor: the user and system queues, the mailbox, its schedule
word, the dispatcher, the trampoline in front of the executor. The upper one is
the protocols that actors run on top of it: the life of the cells of an actor
tree, reliable delivery, event sourcing, and the association of two remote
nodes. TLC checks the models on small instances, and TLAPS proves the safety
properties of the lower layer for any number of threads and messages, those of
the actor cells about children, watchers and failed actors for any tree, those of reliable
delivery for any window and any number of messages, losses and restarts, those of
the association for any scripts, lanes and window, and the order of the handlers
of a persistent actor for any commands.

## 1. Inventory of the system

Paths are below `src/modules/`. `kernel` is `actor-core-kernel/src`.

| Component | State | Operations | What is hard | What makes it correct |
|---|---|---|---|---|
| lock-free user queue (`kernel/dispatch/mailbox/lock_free_mpsc_queue.rs`, `unbounded_message_queue.rs`) | `head` stack, `pending` list, `len`, `in_flight`, `closed`, `consumer_active` | push, pop, close, close_and_drain, len | lock-free interleavings, unsafe frees, close racing producers, spinning | FIFO, exclusive consumer, exact length, nothing linked after close() |
| schedule state (`kernel/dispatch/mailbox/schedule_state.rs`) | packed flags and suspend count, `need_reschedule` | request_schedule, set_running, set_idle, finish_run, suspend, resume, request_close, finish_cleanup | two atomics read and written apart, finalizer election | one runner, one finalizer, no lost wake-up |
| mailbox (`kernel/dispatch/mailbox/base.rs`) | user and system queues, `put_lock`, invoker, weak cell | enqueue, enqueue_system, run, become_closed, finalize_cleanup, prepend | close racing enqueue and run | every message ends up in exactly one place |
| system queue (`kernel/dispatch/mailbox/system_queue.rs`) | stack, pending list, length, draining flag | push, pop | length counted after the link, concurrent pops | FIFO, no use after free |
| other user queues (bounded, priority, deque, control-aware) | heaps and deques behind locks | enqueue with overflow strategies | outcomes at capacity | overflow reported once |
| dispatcher (`kernel/dispatch/dispatcher/message_dispatcher_shared.rs`, `dispatcher_core.rs`, `pinned_*`, `balancing_*`) | inhabitants, delayed shutdown, shared queue | attach, detach, dispatch, system_dispatch, register_for_execution, shutdown | submission refused after the word was set, locks held across calls | the word follows the closure |
| trampoline (`kernel/dispatch/dispatcher/executor_shared.rs`, `trampoline_state.rs`, `drive_guard_token.rs`) | `pending` tasks, `running` slot, inner executor lock | execute, enter_drive_guard, shutdown | hand-over of the drain-owner slot, error of one task for many | one owner, tasks conserved, Ok means run |
| executors (`actor-adaptor-std/src/dispatch/dispatcher/*`) | worker queues and threads | execute, shutdown | bounded queues, join | accepted tasks run in order |
| actor cell, supervision, children, death watch (`kernel/actor/actor_cell*.rs`, `children_container.rs`) | children container with its wait, failure info, suspend count, watchers and watching | create, recreate, suspend, resume, stop, handle_failure, watch, unwatch, spawn, removal | system messages of a tree crossing each other, restarts deferred until children stopped, hooks that fail | children end before their parent ends or restarts, suspensions balance, watchers are told |
| scheduler and timers (`kernel/actor/scheduler`) | timer wheel, handles | schedule, cancel, tick | cancel racing a tick | fire at most once after cancel is refused |
| event stream, routing, serialization, system state (`kernel/{event,routing,serialization,system}`) | registries, subscriptions | publish, route, encode, register | mostly sequential behind locks | |
| reliable delivery (`actor-core-typed/src/delivery`) | numbers, unconfirmed messages, demand, stash, durable queue | producer and consumer controllers, durable queue, timers | lost and repeated messages, late queue answers, a controller that dies | in order, confirmed means delivered, stored before sent |
| remoting (`remote-core/src/association`, `remote-core/src/extension/remote.rs`) | association state, send queues, deferred envelopes, redelivery window, inbound tracker | handshake, send, ACK and NACK, redelivery, gate, quarantine, recover | lost and reordered frames, full lanes, racing handshakes and timers | system envelopes in order and once, every handshake ends |
| cluster (`cluster-core-kernel`, ...) | membership table, gossip, ddata | join, leave, gossip, down | concurrent gossip, partitions | monotone status, merge laws |
| persistence (`persistence-core-kernel/src/{persistent,journal,snapshot}`) | actor state and numbers, batch, pending handlers, stash, journal, snapshots | recover, persist, defer, flush, snapshot, delete, restart | failures between a write and its answer, answers to an earlier instance, retries | state is the history of events, acknowledged events survive |
| streams (`stream-core-*`) | graph interpreter | push, pull, complete, fail | re-entrancy of stages | demand respected |
| utils, lints, showcases, tests | locks, collections | | | not modelled |

How the modelled parts interact: a sender enqueues into a mailbox under the
dispatcher lock, then outside it calls `register_for_execution`, which sets
SCHEDULED in the mailbox's word and submits a closure through the trampoline.
A worker runs the closure: it sets RUNNING, drains system and user messages,
clears both flags, and registers the mailbox again if something arrived. A
detach sets CLOSE_REQUESTED; whoever is elected, the caller or the runner,
seals the queues, drains them to dead letters and sets CLEANUP_DONE.

Above the mailbox: a cell handles one system message at a time and changes other
cells only by system messages to them, through the registry. The delivery
controllers, the persistent actor and its stores are actors that send each other
messages. A remote node is one event loop under one lock; two of them talk
through writer lanes.

## 2. Modules

| Module | Models | State and actions |
|---|---|---|
| `UserQueue` | what a mailbox expects of a `MessageQueue` | abstract FIFO with a seal: `Put`, `Take`, `Seal` |
| `MpscQueue` | `LockFreeMpscQueue` | one action per access to a shared atomic; `linked` and `taken` are histories |
| `SystemQueue` | `SystemQueue` | nodes are addresses, freed by the pop that takes them and given out again; one action per access; `aba` is a history |
| `ScheduleState` | `MailboxScheduleState` | the word as a set of flags and a count; one operator per exchange |
| `Mailbox` | one `Mailbox`, its senders, workers and closers | extends `ScheduleState`; sending, `Register`, `Run`, `Finalize` |
| `ExecutorShared` | trampoline, drive guard, `AffinityExecutor` | the steps of `execute` and `shutdown`, bounded worker queues |
| `Trampoline` | `ExecutorShared` with free-standing tasks | callers, guards, workers that run a task (`StartTask`, `EndTask`) and may submit from inside it, a shutdown, and histories of what became of each task |
| `Dispatcher` | several mailboxes composed with the trampoline | extends `ExecutorShared` and `ScheduleState` |
| `ActorCell` | the cells of an actor tree | a record per cell; one action per system message and per event of user code |
| `Delivery` | producer controller, durable queue, consumer controller | their states, the channels between them, timers; one action per command |
| `PersistenceContext` | the context of a persistent actor and what its adapter does with it | operators on the actor's record, one per method |
| `Persistence` | a persistent actor, journal and snapshot actors, in-memory stores | one action per message the actor takes; stores answer in any order |
| `Association` | two nodes with their association and event loop | one action per event of the loop, frames on bounded lanes |
| `MC*` | | constants and symmetry of the instances |
| `Subsequence` | `Vec::retain`, `Iterator::filter` | `Only(q, S)`, the elements of `q` in `S`; used by `Persistence` and `Association` |
| `MpscQueueProofs`, `SystemQueueProofs`, `MailboxProofs`, `TrampolineProofs`, `DispatcherProofs`, `ActorCellProofs`, `DeliveryProofs` | | theorems about the module they are named after |
| `ProtocolProofs` | | theorems about `Association` and, in its second part, `Persistence` |

Definitions whose comment begins with "Mutant" are wrong variants of the
definition that follows. They are used by nothing; replacing a definition by
its mutant must break the property it is paired with in `PROJECT.json`, which
is how each property is shown to depend on the code. Every module has a
`TypeOK`; only the mailbox's is among the properties of a run, for the suspend
count that must not wrap. The others hold in the same instances.

### Granularity

A compare-exchange loop is its one successful iteration. In `MpscQueue` every
access to a shared atomic is a step; `closed` and `in_flight`, on which the
closing protocol depends, are accessed with SeqCst, so interleaving semantics
is adequate for them. `SystemQueue` is as fine, and its failed exchanges are
steps too. In `Mailbox` a step is one access to the schedule word,
to `need_reschedule`, or to a queue: the drain loops check the word in one step
and take the message in the next, so that a close or a suspension can fall in
between. Reads of the word that follow each other are one read, and a message
is taken, counted and handed to the actor in one step. `Dispatcher` is coarser:
the flag moves with the word and mailboxes are not suspended, because its
properties depend on the closures and on the flags of the word alone.

In the upper layer a handler is one step. That is what the lower layer
establishes where no submission is refused: one runner per mailbox
(`SingleRunner`), system messages in order (`SystemFifo`), nothing lost
(`ExactlyOnce`, `NoLostWakeup`). After a refusal that is another task's error it
does not (section 4), and the upper models do not go on from there. The exception
is `finish_terminate` of a cell, which others can observe between its notifications
and the removal from the registry: `Terminate` and `Remove`. A node of
`Association` handles an event under the lock of the whole `Remote`.

### What is abstracted

* Messages, envelopes, events and tasks are model values or numbers; metrics and
  logs are left out.
* `Mailbox` has the `DrainToDeadLetters` policy and a system state that records
  dead letters. Its user queue is a sequence: with `PutLock = FALSE` it is the
  queue that `MpscQueue` is proved to implement, with `PutLock = TRUE` an
  unbounded queue that needs `put_lock`.
* In `Mailbox` the system queue is a FIFO. In the code its length lags behind
  the link (`LenBalanced`); a run that misses it is followed by the sender's own
  registration, and one that reads the wrapped length registers once too often.
* User handlers may fail (`report_failure` suspends the mailbox); a `Recreate`
  system message ends in one `resume`. The deadline of a run is a free choice
  after the first message. `DropCell` may happen at any time.
* `execute` answers for every task its caller drains (`executor_shared.rs:92-140`).
  For one mailbox that makes four outcomes of a submission: accepted; refused;
  an Err although the own closure was accepted (`SubmitCrossed`, then the
  roll-back); an Ok although the closure is thrown away after another refusal
  (`SubmitDropped`). `Mailbox` takes them as free choices, `Dispatcher` and
  `Trampoline` have the trampoline itself.
* A close by the actor's own worker is a close by another thread at that
  moment: `request_close` does the same, and the caller never owns the
  finalizer then.
* The inner lock and the dispatcher lock that `shutdown` holds while it joins
  workers are the states `joining` and `shutdown` of the stopping thread.
* In `ActorCell` user code is what it may do to the tree: fail, stop, watch,
  unwatch, spawn, fail in a hook. A supervisor's decider is a free choice of
  directive, which includes the limits of a strategy. The hooks are the default
  ones of the `Actor` trait: pre_start and post_restart may fail, and spawn
  nobody.
* In `Delivery` a message is its number and its payload, timers fire whenever
  they are set. Messages are lost on the way to the consumer controller, which
  is what its stash and the resend timer are for; the other direction is
  reliable. A tell to the durable queue may be refused, which stops the controller
  (`producer_controller.rs:711-719`). The durable queue is a child: a controller
  that is spawned again finds the requests to the old child lost, or, when it is
  spawned while the old child still runs, none of them.
* In `Persistence` an event is the number of the persist call that made it and
  the actor's state is the sequence of events applied; a command handler is one
  of the scripts of the instance. The mailbox of a store may refuse what one step
  of the actor sends (`refusing`), counted as an error. Left out is a refusal of
  the very first request of a recovery (`persistence_context.rs:502-530`): pre_start
  fails then, and the actor has done nothing yet.
* In `Association` a node without an association behaves as one with an `Idle`
  association. Incarnations are left out: the local uid is always 0 in the code.
  The fields `numbered` and `reset` of its record are histories: the envelopes in
  the order in which they were given a number, and whether that order was reset.
  A redelivery tick may find any subset of the window old enough. `discarded` is a
  history too: what a node took and acknowledged and then dropped. An error that
  a handler returns ends the event loop of its node (`running`), as
  `run_remote_event_loop` does. Left out, since no property is about them: the
  watermark signals and `user_paused` (`remote.rs:1189-1224`, `send_queue.rs:143`),
  and the checks of addresses before an event is handled (`parse_authority`,
  `can_use_peer_for_outbound`), which drop it. `ReceiveWindow` must not exceed the
  64 bits of a NACK (`base.rs:149`).

## 3. Runs

Bounds are the smallest at which every action fires, two threads or messages
compete in every role that allows it, and a message can arrive in each window of
the protocols.

| Run | Instance | Distinct states | Shows |
|---|---|---|---|
| `mpsc_queue` | 2 producers x 2 pushes, 2 poppers, 1 closer | 26,687 | FIFO, exclusive guard, length, refinement of `UserQueue` (with it: nothing is linked after close), `close_and_drain` ends; deadlock is checked |
| `system_queue` | 2 pushers (2 + 1 pushes), 2 poppers, 3 addresses that are reused, length modulo 16 | 631,995 | until a reused address fools the exchange: FIFO, length off by the updates under way only, everything is popped; deadlock is checked |
| `mailbox` | 2 senders, 2 workers, 1 closer, 1 user message, a `Recreate`, lock-free queue, an executor that accepts, fair | 326,501 | no lost wake-up, delivery, closes are finished |
| `mailbox_rejecting` | 1 sender, 2 workers, 2 closers (both symmetric), 1 user message, an unmatched `Resume`, locked queue, an executor that refuses, drops and crosses | 1,573,403 | suspend count, single finalizer, conservation, no phantom message; single runner and quiet cleanup until a crossed roll-back |
| `trampoline` | 1 caller, 2 workers that are callers too, 2 guards, 3 tasks submitted again without end, worker queues of 1, a shutdown, fair | 293,688 | single owner, conservation, `execute` returns unless others submit for ever or a shutdown keeps the lock |
| `dispatcher` | 2 senders, 1 worker with a queue of 1, 2 mailboxes, a closer, a shutdown, 3 messages | 4,358,811 | one closure per mailbox, detach hands off |
| `actor_cell` | guardian (AllForOne), 2 children, 1 grandchild, 3 events, 4 directives, fair | 407,450 | order of ends and restarts, suspension until the decision and no longer, watchers, rest |
| `delivery` | window 3, 3 messages, 1 fault, 2 attempts at the durable queue, fair | 227,297 | confirmed means delivered, order, everything produced is delivered |
| `delivery_restart` | window 1, 2 messages, 2 faults, 1 restart | 1,118,500 | stored before sent and until confirmed |
| `persistence` | 3 commands, 4 handlers, stash of 1, 2 errors, 1 retry, 1 restart, 1 timeout, 3 directives | 5,666,939 | state is history, acknowledged events survive, order of handlers and commands, nobody stranded |
| `association` | 2 system envelopes one way, 1 user envelope the other, 2 lanes of 1, windows of 2, 1 fault, the sender of system envelopes watches, fair | 180,681 | order and uniqueness, acknowledged means handled, handshakes end, redelivery gets through |
| `association_reset` | 1 system envelope, 2 user envelopes the other way, 1 fault | violation | see section 4 |

Three events of `actor_cell` let a failure, a hook that fails in the restart it
causes, and a stop or a spawn meet. A stash of one and three commands let the
stash of `persistence` overflow. `delivery`
passes with a window of 2 as well; 3 is the smallest at which demand can stall
(section 4). In `mailbox_rejecting` one user message is enough for a second runner
to compete with the first, since a roll-back makes the mailbox schedulable while
a closure is under way; two closers and the finishing runner compete for the
cleanup. In `system_queue` three addresses for three pushes over two threads let
a freed address come back while a popper still holds it.

`CHECK_DEADLOCK FALSE` is set where the system comes to rest: when all messages
are sent and handled nobody has anything to do.

### Fairness

Threads inside an operation keep running (weak fairness of its steps), a worker
takes what is queued for it, a guarded section and a handler end. Nobody has to
send, close, fail or shut down. The closer's `EnterConsumer` of `MpscQueue` is
strongly fair: the guard is a spin lock that pops keep releasing, and a spinning
thread on a real machine wins it at some point. In `SystemQueue` each thread
inside push or pop is weakly fair. In `Trampoline` nobody has to submit and nobody
has to stop submitting. In `ActorCell` some cell with a system message
handles one: the dispatcher runs a mailbox with system messages whether it is
suspended or not, and chooses which. In `Delivery` every actor with something to
do is scheduled and the resend timer goes off. In `Association`, while the
event loop of a node runs, the reader of a lane hands over every frame that is not
lost and a scheduled handshake timer fires. The redelivery tick is emitted beside
the heartbeats (`remote-adaptor-std/src/watcher.rs:93-95`), which go to the nodes
on which something is watched (`watcher_state.rs:211`); hence it comes round again
for the nodes of the constant `Watching` only. This is weak fairness written out
with what enables the steps.

## 4. Claims the code does not keep

Where the model showed that the code does not do what a comment or a document
says, or where a property holds only with an exception, the exception is named
in the property (a mark in a history variable) and described here. Configurations
marked (cfg) are not among the listed runs; `tlc -config <cfg> <MC module>`
produces the behaviour.

**Association.** `association_reset` (listed, `DeliveredOnce`): a handshake that
times out resets the numbering and the inbound tracker of one side only
(`association/base.rs:439`). The peer sends an envelope whose ACK was lost again
under its old number, and the reset tracker takes it for new: delivered twice.
The specification of the repository says it must not
(`openspec/specs/remote-core-association-state-machine/spec.md:472`).
`InOrderOnce`, `AckedWasHandled` and `SentIsHandled` are about behaviours in
which nobody resets. Met on the way and part of the model:
* acknowledged does not mean delivered: the tracker advances and the ACK goes out
  before the payload is deserialized and before the inbound buffer is known to
  have room (`remote.rs:707-748`), and an envelope dropped then is never sent
  again; a test of the repository asserts it
  (`inbound_system_envelope_sends_ack_before_deserialization_failure`,
  `extension_test.rs:1750-1777`). The properties say "handled": handed over, or
  dropped by the receiver after it was taken;
* a node that watches nothing on its peer gets no redelivery tick, so that a lost
  DeathWatchNotification, or the Unwatch of its last target, waits for another
  event (`MCAssociationUnwatched.cfg` (cfg) refutes `EverySentIsHandled`);
* an ACK, a request or another control frame that meets a closed connection, or
  any error but Backpressure, ends the event loop of the node for good
  (`remote.rs:1295-1315`, `remoting_extension_installer.rs:696`); so does a
  handshake that cannot be sent, which then has no timer (`remote.rs:1138-1143`).
  Only an answer to a handshake tolerates the closed connection
  (`remote.rs:93-115`);
* after a one-sided reset, new envelopes whose numbers the peer has already
  acknowledged are taken for duplicates and dropped, a gap that nobody fills
  blocks delivery for ever, and old numbers in the send queue collide with new;
* an envelope that a full lane refuses is queued again behind the others, and an
  acknowledged one can re-enter the window that way; copies queued by a resend
  count against the control queue, whose overflow quarantines the peer;
* an envelope that was numbered and never given to a lane is not redelivered by
  the timer; it waits for the next event that drains the queue;
* a lost connection recovers a quarantined association (`remote.rs:965`), a
  shutdown notice does not; the local uid is always 0, and
  `is_quarantine_removal_due` has no caller outside tests.

**Actor tree.** The RFCs state three invariants that hold with exceptions.
* INV-SUP-5 (`docs/rfc/0004...:100`), children are terminated before their parent
  ends or restarts: not those that a Stop directive took out of the container
  before they ended (`disowned`, `actor_cell_fault_handling.rs:401`), nor one that
  was spawned into a container already waiting (`late`).
* INV-SUP-6 (`:101`), a failed actor rests until its supervisor decided: not when
  an AllForOne supervisor resumes all children for the failure of one
  (`resumedAll`), nor when a supervisor handles the failure of a child that is no
  longer in its container, which puts the child back
  (`readopted`, `actor_cell_fault_handling.rs:378`); a Resume takes one suspension off children that did not fail,
  and clears a fatal failure as well.
* INV-DW-1 (`docs/rfc/0005-...:63`), a watcher is always told: not when its Watch
  is queued behind the Stop of the target and dropped with the rest of the queue
  at removal (`unheard`; `MCActorCellUnheard.cfg` (cfg) refutes
  `WatchersAlwaysTold`).
* `NobodyStuck` excepts restarts that were `ignored` (a failure in post_restart
  is Fatal, and later restarts do nothing), `aborted` (pre_restart failed),
  `merged` with another restart, or that turned a stop under way into a restart
  (`revived`).

**Delivery.** `MCDeliveryForgotten.cfg` (cfg) refutes `NothingForgotten`: "Send
`LoadState` on startup to recover unconfirmed messages"
(`producer_controller.rs:158`), but the first message a new session sends need
not be the oldest unconfirmed one, and the consumer controller then confirms
everything before it. Exceptions of the properties: a late second answer to
LoadState sets the controller back (`reloaded`), a pending message is overwritten
by the next (`displaced`). Demand is passed to the producer
when a Request arrives and deliberately not after a message
(`producer_controller.rs:628-631`). A Request is for several messages, so that
with a window of 3 or more, and the default is 50
(`consumer_controller_config.rs:10`), both sides can end up waiting with demand
left: `MCDeliveryStalled.cfg` (cfg) refutes `AlwaysGiven`. `AllGiven` says, for any
window, that everything produced is delivered, and that either the producer was
asked for all it has or the controller is left with demand that it never passes
on. A repeated confirmation of the
consumer counts for the next delivery, and `RegisterConsumer` resets
`awaiting_msg`.

**Persistence.** Recovery can be disturbed in four ways, which `StateIsHistory`
and `AckedSurvives` except: replayed events carry no instance id, so those of an
earlier instance are applied by the next (`stale`, `persistence_context.rs:305`);
a snapshot taken during a write carries the number of the last batched event
(`snapshotAhead`, `persistent_actor.rs:143`); events were deleted that a
replay would begin with and that the snapshot it starts from, if any, does not
stand for (`deletedAhead`); a write that the journal's mailbox refuses is taken
back while `current_sequence_nr` keeps the numbers it gave out (`numbersKept`,
`persistence_context.rs:251-259`), so that after a Resume the next write may
follow, in the journal, an event whose acknowledgement was lost and that the actor
never applied. A Resume after a failed replay
leaves the actor in recovery for ever (`unreplayed`); so does a replay request
that the journal's mailbox refuses (`:395-399`, `:417-421`), until the recovery
timer fails the actor or it is restarted. Also in the model, and not
against any text: a second flush while a write is under way is an error that
fails the actor, recovery epochs start at one in every instance, a restart drops
the stash, and a write that took effect before it failed is refused for its
number when it is retried.

The fence of a stashing write does not hold when answers are late: the
`WriteMessagesSuccessful` of an earlier write is taken for the one under way
(`persistence_context.rs:300`) and lifts the fence, so that a later command is
handled before a stashed one (`lifted`, which `CommandsInOrder` excepts).
`MCPersistenceOvertaken.cfg` (cfg) refutes `FenceKeepsOrder`, the same property
without the exception; the unit test that states the fence is
`should_stash_commands_until_write_messages_successful_for_stashing_batch`
(`persistence_context_test.rs:846`).

**Mailbox, dispatcher, trampoline.**
* `MCMailboxLostWakeup.cfg` (cfg), `NoLostWakeup` with a refusing executor: the
  roll-back after a refused submission leaves the mailbox idle with messages in
  it; "leave a future drain pass guaranteed by some other path"
  (`message_dispatcher_shared.rs:314-317`).
* `MCMailboxSuspended.cfg` (cfg), `SuspendedRests`: a suspended mailbox with user
  messages is run again and again, since the closure registers with the system
  hint set (`message_dispatcher_shared.rs:311`); "Suspended: schedulable only when
  system work exists" (`mailbox/base.rs:790-791`).
* `MCTrampolineStranded.cfg` (cfg), `OkTaskRuns`: a task queued after the last pop
  of the tail drain and before its release has no owner
  (`executor_shared.rs:134`); "they will pick up our task" (`:83-84`).
* `MCMailboxCrossed.cfg` (cfg), `SingleRunnerAlways`: `execute` reports the error
  of any task its caller drained (`executor_shared.rs:92-140`), and the roll-back
  that follows (`message_dispatcher_shared.rs:329-341`) clears SCHEDULED and
  RUNNING under the caller's own accepted closure. A second runner starts, and a
  detach finalizes under a handler (`QuietCleanupAlways`, refuted when it is put
  in place of the invariant), against `:163-166`. `SingleRunner` and
  `NoDeliveryDuringCleanup` say so up to such a roll-back (`crossed`);
  `OneClosure` and `DetachHandsOff` except the mailboxes rolled back by a refusal.
* `MCSystemQueueReuse.cfg` (cfg), `NeverAba`: the exchange of `pop_from_pending`
  compares addresses, and an address that was freed (`system_queue.rs:113`) and
  allocated again (`:22`) while a second popper held it makes the exchange succeed
  with a stale successor. The mailbox has one popper, its runner or its finalizer,
  until a crossed roll-back; that two poppers never meet rests on `SingleRunner`.
  The model stops at such an exchange (`aba`, `Undefined`), which the properties
  of the queue except, and
  `SinglePopperIsSafe` proves that one popper never causes it.
* `MCTrampolineEndless.cfg` (cfg), `ExecuteAlwaysReturns`: the drain owner goes on
  while other threads push (`executor_shared.rs:92-140`), so that one call of
  `execute` may serve the tasks of others without end. `ExecuteReturns` excepts
  this, and a shutdown that keeps the inner lock (below).
* `MCDispatcherShutdown.cfg` (cfg), `ShutdownReturns`: shutdown joins the workers
  under the locks (`executor_shared.rs:173`) that a worker needs to finish; the
  inner mutex is "held only for each individual `inner.execute(task)`" (`:45-46`).
* `enqueue_system` accepts a message in every state (`mailbox/base.rs:528`): one
  pushed after the cleanup stays in the queue for good. `ExactlyOnce` counts it as
  queued.

## 5. Proofs

`MpscQueueProofs` (any finite sets of producers, consumers and closers, any
number of pushes). The inductive invariant is

    TypeOK /\ Fifo /\ GuardInv /\ InFlightInv /\ LenCoversWaiting /\ CloseInv /\ DrainedInv

`GuardInv` ties `consumer_active` to the one thread inside the guard,
`InFlightInv` says that `in_flight` counts the producers inside the protocol,
and with it `CloseInv` is inductive: a closer leaves its spin only when no
producer is inside, and one that enters later sees `closed`. The counting
invariants are what keeps `len` and `in_flight` from wrapping. From the
invariant follow `TypeCorrect`, `FifoHolds`, `ConsumerExclusion`,
`LengthCovers`, `DrainedForGood`, the action property `NoPhantom`, and
`Refinement`: linking is `Put`, unlinking `Take`, the return of close() `Seal`,
all other steps stutter. The order argument is the lemma that a node pushed on
the stack is the last of the reversed chain (`ReversePush`).

`MailboxProofs` (any sets of senders, workers, closers and messages, either
kind of user queue). The inductive invariant is

    TypeOK /\ CrossInv /\ FinalInv /\ SealInv /\ (~crossed => TokenInv /\ TakeInv)

`CrossInv` says that a thread whose refusal was another task's has left its mark,
and that only an executor that refuses makes one. What depends on the flags
of a runner holds until then; the other two parts hold whatever is rolled back.
`TokenInv` says that the right to run a mailbox is one token: one thread or one
accepted closure carries it, and it shows in SCHEDULED until `set_running` turns
it into RUNNING. `SingleRunner` alone is not inductive, since a second closure
on its way would break it later; the token gives `RunnerIsSingle`, also when
submissions are refused, until a crossed roll-back. `FinalInv` says that a thread that finalizes has been
elected (CLOSE_REQUESTED and FINALIZER_OWNED are set) and has not finished
(CLEANUP_DONE is not), which gives `FinalizerIsSingle`. `TakeInv` says that
nobody finalizes while a thread has passed the check of a drain loop and has not
taken its message: such a thread holds RUNNING, so a close is left to it. It
needs both former parts and gives `CleanupIsQuiet`. `SealInv` says that whoever
is past the seal has sealed the user queue, and that a cleaned mailbox is sealed
and empty, which gives `NoPhantom`. `WakeupsKept` adds `BackedInv` (a set SCHEDULED or RUNNING is
backed by somebody who will look at the queues) and assumes an executor that
accepts every submission; `MCMailboxLostWakeup.cfg` shows that the assumption is
needed. `MessagesOnce` (that is `ExactlyOnce`) adds that every queue and history
is free of repetitions and that the places a message can be in are disjoint; it
holds across roll-backs, as do `FinalizerIsSingle` and `NoPhantom`. How
a queue gains and loses elements is stated in the section on sequences that the
proof modules begin with.

`SystemQueueProofs` (any finite sets of threads and addresses, any number of
messages, with or without reuse of addresses). The inductive invariant is

    TypeOK /\ HeldInv /\ (NoAba => ~aba) /\ (aba \/ (GuardInv /\ \E P, D, S : Shape(P, D, S)))

`aba` is set by a pop that exchanged a pending head for a successor which is not
its successor any more; the theorems hold until then. `NoAba` says that no freed
address is given out again, or that there is one popper, and under it
`SinglePopperIsSafe` proves that `aba` is never set. `MailboxProofs` establishes
the one popper for a mailbox until a crossed roll-back.

P, D and S are the node sequences behind the pointers: the readers' list, the
chain a drainer has taken and not yet published, and the stack. `Shape` says
that they are lists without repetitions that share no node, that what was linked
is what was popped followed by P and by the reverses of D and of S, and that the
addresses the threads hold are where their place in the code says: a pusher's
node is in no list until its exchange succeeds, and a popper's expected head is,
under `NoAba`, either still the head with the successor it read, or never the
head again. That last part is what makes the exchange of `pop_from_pending`
safe; without it `Shape` is kept because an exchange that succeeds and leaves
`aba` unset has seen the true successor. `FirstInFirstOut` needs in addition that the model's traversal of the
pointers computes these sequences (`ChainIs`); the induction over the length is
done on sets of numbers, as the least number outside the set, because the
induction rules of the library take operators. `CounterSettles` adds `Balance`:
modulo its width, `len` plus the links not yet counted is the number of waiting
messages plus the pops not yet discounted. It is an equation of remainders, so
the wrap below zero of a pop that overtakes its push is part of it.

`TrampolineProofs` (any sets of callers, guards, stoppers, workers and tasks, any
positive capacity). The inductive invariant is

    TypeOK /\ SlotInv /\ OnceInv

`SlotInv` is `SlotExclusive` and that a thread never drains under a guard it has
claimed. `OnceInv` says of each task that it is in exactly one of the places it
can be in (`Placed`: pending, held by the owner, in the queue of its worker,
inside its worker (`Started`), ran, discarded, refused), that no two workers are
inside the same task, that no queue repeats a task, and that something is discarded only
behind a refusal or a shutdown. It needs `SlotInv`: two owners could hold, and
hand over, the same task.

`DispatcherProofs` (any sets of senders, workers, closers, stoppers and
mailboxes). The inductive invariant is

    TypeOK /\ WorkInv /\ ClosureInv /\ RunInv /\ FinalInv

`ClosureInv` says that a mailbox that was not rolled back is attended at most
once: by a thread that submits or runs its closure, or by a closure in the
trampoline, with the drain owner or in the queue of the mailbox's worker, and
that SCHEDULED or RUNNING is set meanwhile. `OneClosure` alone is not inductive
without the flags, which keep the next `request_schedule` out. `RunInv` says that
RUNNING protects a handler from the election of a finalizer; `FinalInv` is about
all mailboxes, rolled back or not, and gives `SingleFinalizer`, which no run
checks.

`ActorCellProofs` (every tree, every choice of one-for-one and all-for-one
supervisors, every subset of directives, any number of events). The inductive
invariant is

    TypeOK /\ Good(cell, marks) /\ Open(cell)

`Good` is about the cells as a value, so that the lemmas can follow a handler
through the intermediate values it computes; the order of the calls inside a
handler matters. Its parts: `KidsOK`, a container waits exactly while it names
children to wait for; `TreeOK`, a live child is in its parent's container and
among those waited for, unless it is disowned or late; `SupervisedOK`, a
supervisor watches its live children and handles a child's failure before its
end; `DeathOK`, a notification on its way is about a cell that has terminated;
`WatchOK`, a watcher whose target is not known to have ended has its
notification queued, its Watch queued with no Unwatch behind, or is among the
watchers of a live target. `TreeOK` gives the action property `ChildrenEndFirst`,
but only with `DeathOK` (a container drops a child on its notification) and
`SupervisedOK` (a notification of someone who is not watched is ignored).
`WatchOK` gives `EveryWatcherTold`. That both hold with exceptions is section 4;
the exceptions are marks that the model sets in the step where they arise, and
the theorems say that there are no others.

`FailedStayHeld`, that a failed actor handles no user message before its
supervisor has decided, needs an account of suspensions on top of that. That the
failed cell has a positive count is not inductive: a Resume or Recreate that was
queued for another reason takes one off it, a supervisor that is resumed resumes
its children, and an escalation suspends a whole subtree again. Its inductive
invariant is

    IInv /\ (Clean(marks) => Held(cell))

`IInv` is the invariant above; `Clean` says that no cell is `readopted` and none
`resumedAll`, the exceptions of the property. `Held` says that books exist, five
integers for every cell: `t` suspensions it has for certain; `z` of them that its
queue is charged with; `c`, below which handling the queued Suspends, Resumes and
Recreates one after the other never takes `z` (`Line`); `d`, what is above `c`
once the queue is handled; and `a`, a bound on its failures in the queue of its
supervisor (`Calls`). They obey two rules. `Settled`: what is left when the queue
is handled covers the suspensions of its supervisor, each of which will one day
be passed on as a Resume. `Even`: `t` covers `z` and one more for a restart that
waits for children, which resumes when it is done, and `c` covers `a`, a
suspension for every failure that has not been handled. Hence a cell with a
queued failure has `1 <= a <= c <= z <= t <= suspends`. `Spare(w, p, k, S)` is
`Held` with k suspensions of p and one of each cell of S set aside: in the middle
of a handler they belong to what it is about to do, as the suspension of a
failure just taken from the queue belongs to the directive. The books are chosen
anew in each step and never computed, which is why the provers can follow them
without induction over the queues. It also puts `Held` out of TLC's reach; the
run checks the property itself.

`DeliveryProofs` (any positive window and number of attempts at the durable
queue, any number of messages, faults and restarts). The inductive invariant is

    TypeOK /\ RequestInv /\ RecInv /\ ConfInv

`RequestInv` says that one request to the durable queue is outstanding and that
nothing is produced before the state was loaded. `RecInv` is about behaviours
without a `reloaded` controller, restarts included. Its part `SafeInv` says that
every message that was sent, or that may be sent again, is in the durable queue
or confirmed there; it is not inductive without `StoredInv`, by which the number
in an answer to a store stands for one message: an answer from before a retry may
come late, and must not release another message than the one it is about. `RecInv`
gives `CrashSafe`. `ConfInv` is about sessions without a restart and without an
overwritten (`displaced`) message. `ConsumerInv` says that the consumer has seen
everything up to the last delivery and that what lies between it and the last
message received is in the stash; `WordInv`, that confirmations on their way, and
the message that starts a session, cover only numbers the consumer has seen;
`ProducerInv`, that the controller still has every number it gave out and the
consumer has not seen, in order, so that a resend leaves no gap; `LoadInv`,
`FirstInv` and `RegisterInv`, that a session begins once and with message 1:
without them the consumer controller could take a repeated first message for a new
session and confirm what it never received. They give `HonestConfirmations` and
the action property `SeenInOrder`. The proof does not go through the actions one
by one: each step is shown to be a move of the consumer side, a move of the
producer side, a move of the queue, or one of the few that couple them (a new
message, an answer of the queue, a restart), and each kind of move keeps the
invariant for any change of the shape it allows. What the filters of the
controllers keep (`From`) and what removing an element does to a sequence is
shown by induction on sets of numbers as for `SystemQueueProofs`.

`ProtocolProofs`, association (any two scripts, lanes, queue sizes, window and
number of faults). The inductive invariant is, for every node n,

    TypeOK /\ Own(n) /\ (Unreset => Channel(n))

`Own` is about one node and what it has put on the wire, as long as it has not
reset its numbering: every envelope with a number, in a queue, in the window or
on a lane, is the one that `numbered` has under that number (`QueuesOK`,
`WireOK`); the window is indexed by these numbers and `next` follows the last
(`WindowOK`); and envelopes that wait for a number are queued in the order of the
script, behind all that have one (`OrderOK`). An acknowledgement on the wire
never exceeds the tracker that sent it. `Channel` ties the ends together while
neither has reset: the peer's cumulative number is at most the number of
envelopes numbered, the window holds every number above it, and of what
`numbered` lists up to it the envelopes delivered are in that order and all others
were discarded by the peer after it took them (`Received`). `InOrderOnce` is not inductive by
itself: a copy in flight could stand for another envelope than its first
delivery, or an acknowledgement run ahead and empty the window. The first gives
`DeliversInOrderOnce`, the second `AcksWhatWasHandled`. The parts are about the
association as a value, and the lemmas follow it through the methods a handler
calls (`Moves`); loops (`EnqueueAll`, `Resend`, `Only`) are recursive functions,
followed element by element by induction on sets of numbers.

`ProtocolProofs`, persistence (any set of scripts made of persist, defer, flush,
snapshot and delete calls and failures, which is part of `PersistenceAssumption`; any stash,
retries, restarts and errors). The inductive invariant is `InLine(actor)`: for
some x and y, the handlers that ran are numbered up to x, those pending from x + 1
to y, those in the batch from y + 1 to the number of calls, all increasing. It
gives `RunsHandlersInOrder`. What makes it hold is that a deferred handler runs
at once only if nothing is pending or batched, that `flush_batch` moves the whole
batch behind what is pending, that a refused flush drops everything that waits, and that
an instance drops its pending handlers when it ends.

Looking for inductive invariants also corrected the models. In `Delivery` a
duplicate that the consumer controller only stashes had counted as handed to the
consumer. In `ActorCell` the mark `readopted` comes from the case in which
`HeldUntilDecided` is not kept, and in `Persistence` the marks `lifted` and
`deletedAhead` from the cases in which `CommandsInOrder` and `AckedSurvives` are
not. There the first guard of a call of a failed handler had also overlapped the
others, so that TLA+ left open which case applied.

Assumptions on the constants are the named `ASSUME`s of the modules: disjoint
roles, finite thread sets (the two lock-free queues only, for cardinalities), a
positive throughput, capacity, window and number of attempts, a tree whose started cells have started
parents. TLC evaluates them in every run.

Only model-checked, and why:
* all liveness (`CloseTerminates`, `EverythingPopped`, `UserDelivered`,
  `CloseCompletes`, `ExecuteReturns`, `SettlesDown`, `AllGiven`, `HandshakeEnds`,
  `SentIsHandled`): outside what the prover supports;
* `NobodyStuck` of the cells: that suspensions and resumes balance exactly. The
  books of `FailedStayHeld` bound suspensions from below; this needs them bounded
  from above as well, so that every suspension is accounted for by a failure, a
  restart or a message, and a reason for each of its exceptions;
* `StateIsHistory`, `AckedSurvives`, `CommandsInOrder` and `NothingStranded` of
  `Persistence`: they relate the actor to the contents of the journal and of every
  answer in flight, over recoveries that four marks except, and `CommandsInOrder`
  depends on which commands the scripts of the instance stash.

## 6. Plan and what is not modelled

Next, in this order:

1. `NobodyStuck` of the cells: every suspension has a failure, a restart or a
   message that will lift it.
2. `StateIsHistory` and `AckedSurvives` of persistence: an invariant about the
   journal, the write under way and the answers in flight of every instance.
3. An abstract ordered channel, implemented by `Delivery` without mishaps and by
   the system envelopes of `Association` without resets.

Not modelled, and why:
* cluster (membership gossip, downing, distributed data), work pulling, chunked
  delivery, durable state, FSM and at-least-once delivery: protocols of their own
  that a later module could take; nothing here depends on them;
* inhabitants and delayed shutdown of a dispatcher (`dispatcher_core.rs:112`
  clamps the counter of unbalanced detaches), pinned and balancing dispatchers,
  bounded, priority, deque and control-aware queues, the scheduler's wheel:
  decided under one lock, with unit tests for the outcomes;
* flush sessions, heartbeats, deployment, compression and codecs of remoting;
* streams: a graph interpreter that one actor drives sequentially under a very
  large library of stages, most of the repository's lines; without a concurrency
  of its own it is the domain of tests;
* event stream, routing, serialization, logging, registries (sequential); platform
  adaptors other than the affinity executor, utils, lints, showcases.
