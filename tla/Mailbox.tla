------------------------------ MODULE Mailbox ------------------------------
(***************************************************************************)
(* One mailbox (dispatch/mailbox/base.rs) with everybody that touches it:  *)
(* senders that enqueue and then try to schedule it                        *)
(* (MessageDispatcherShared::dispatch, system_dispatch and                 *)
(* register_for_execution), the executor threads that run the submitted    *)
(* closures (Mailbox::run), and threads that detach the actor              *)
(* (Mailbox::become_closed).  The mailbox drains to dead letters           *)
(* (MailboxCleanupPolicy::DrainToDeadLetters).                             *)
(*                                                                         *)
(* A step is one access to the schedule word, to `need_reschedule` or to a *)
(* queue.  Reads of the word that follow each other without another access *)
(* are one read; a message is taken, counted and handed to the invoker in  *)
(* one step.                                                               *)
(* The executor is one that runs what it accepts; ExecutorShared models    *)
(* the trampoline that stands in front of it.                              *)
(***************************************************************************)
EXTENDS ScheduleState, SequencesExt

CONSTANTS
  Senders,         \* threads that send to the actor
  Spawners,        \* the senders that attach the actor: it is scheduled once
  Workers,         \* executor threads
  Closers,         \* threads that detach the actor
  UserMessages,    \* user envelopes, each sent once
  SystemMessages,  \* system messages, each sent once
  SystemKind,      \* "Suspend", "Resume", "Recreate" or "Other"
  Throughput,      \* user messages per run
  PutLock,         \* requires_put_lock_for_enqueue of the user queue
  CanReject,       \* the executor may refuse a submission
  NoMessage, NoThread

ASSUME ThreadsAssumption ==
  /\ Spawners \subseteq Senders
  /\ Senders \cap Workers = {}
  /\ Senders \cap Closers = {}
  /\ Workers \cap Closers = {}
  /\ NoThread \notin Senders \cup Workers \cup Closers
ASSUME MessagesAssumption ==
  /\ UserMessages \cap SystemMessages = {}
  /\ NoMessage \notin UserMessages \cup SystemMessages
  /\ SystemKind \in [SystemMessages -> {"Suspend", "Resume", "Recreate", "Other"}]
ASSUME ConfigAssumption ==
  /\ Throughput \in Nat \ {0}
  /\ PutLock \in BOOLEAN
  /\ CanReject \in BOOLEAN

VARIABLES
  word,             \* MailboxScheduleState.state
  need_reschedule,  \* MailboxScheduleState.need_reschedule
  user,             \* the user queue, oldest first
  system,           \* the system queue, oldest first
  userClosed,       \* close_for_cleanup has sealed the user queue
  put_lock,         \* the thread that cleans up under put_lock, if any
  live,             \* the invoker is installed and the actor cell upgrades
  tasks,            \* closures the executor has accepted and not started
  pc, inHand, left, \* per thread: place, message being sent, user budget
  sent,             \* history: messages handed to a sender
  processed,        \* history: how often each message reached the invoker
  deadLetters,      \* history: messages recorded as dead letters
  refused,          \* history: messages returned to the caller as Closed
  dropped,          \* history: messages discarded without a trace
  crossed           \* history: a refusal of another task was taken for one's own

queues == <<user, system, userClosed, put_lock>>
history == <<sent, processed, deadLetters, refused, dropped, crossed>>
vars == <<word, need_reschedule, queues, live, tasks, pc, inHand, left, history>>

Threads == Senders \cup Workers \cup Closers
Messages == UserMessages \cup SystemMessages

Goto(t, label) == pc' = [pc EXCEPT ![t] = label]

\* ActorCell::create has installed the invoker and the actor; attach is about
\* to schedule the mailbox with the system hint.
Init ==
  /\ word = NewWord
  /\ need_reschedule = FALSE
  /\ user = <<>> /\ system = <<>>
  /\ userClosed = FALSE
  /\ put_lock = NoThread
  /\ live = TRUE
  /\ tasks = 0
  /\ pc = [t \in Threads |-> IF t \in Spawners THEN "schedule" ELSE "idle"]
  /\ inHand = [s \in Senders |-> NoMessage]
  /\ left = [w \in Workers |-> 0]
  /\ sent = {} /\ processed = [m \in Messages |-> 0]
  /\ deadLetters = {} /\ refused = {} /\ dropped = {}
  /\ crossed = FALSE

-----------------------------------------------------------------------------
(* Sending                                                                 *)

\* enqueue_envelope: a closed mailbox refuses without looking at the queue
SendUser(s, m) ==
  /\ pc[s] = "idle"
  /\ m \in UserMessages \ sent
  /\ sent' = sent \cup {m}
  /\ \/ /\ IsClosed(word)
        /\ refused' = refused \cup {m}
        /\ UNCHANGED <<pc, inHand>>
     \/ /\ ~IsClosed(word)
        /\ inHand' = [inHand EXCEPT ![s] = m]
        /\ Goto(s, "enqueue")
        /\ UNCHANGED refused
  /\ UNCHANGED <<word, need_reschedule, queues, live, tasks, left, processed,
                 deadLetters, dropped, crossed>>

\* Mutant of EnqueueRefuses: only the check before the lock protects the queue.
EnqueueNeverRefuses == FALSE

\* enqueue_envelope_locked re-checks under put_lock; enqueue_envelope_unlocked
\* leaves the decision to the queue.
EnqueueRefuses ==
  IF PutLock THEN IsClosed(word) ELSE userClosed

EnqueueUser(s) ==
  /\ pc[s] = "enqueue"
  /\ PutLock => put_lock = NoThread
  /\ \/ /\ EnqueueRefuses
        /\ refused' = refused \cup {inHand[s]}
        /\ Goto(s, "idle")
        /\ UNCHANGED user
     \/ /\ ~EnqueueRefuses
        /\ user' = Append(user, inHand[s])
        /\ Goto(s, "register")
        /\ UNCHANGED refused
  /\ inHand' = [inHand EXCEPT ![s] = NoMessage]
  /\ UNCHANGED <<word, need_reschedule, system, userClosed, put_lock, live, tasks,
                 left, sent, processed, deadLetters, dropped, crossed>>

\* A supervisor suspends the mailbox of a sibling before it sends Recreate.
SendSystem(s, m) ==
  /\ pc[s] = "idle"
  /\ m \in SystemMessages \ sent
  /\ sent' = sent \cup {m}
  /\ inHand' = [inHand EXCEPT ![s] = m]
  /\ word' = IF SystemKind[m] = "Recreate" THEN Suspended(word) ELSE word
  /\ Goto(s, "enqueueSystem")
  /\ UNCHANGED <<need_reschedule, queues, live, tasks, left, processed, deadLetters,
                 refused, dropped, crossed>>

\* enqueue_system pushes without looking at the schedule word
EnqueueSystem(s) ==
  /\ pc[s] = "enqueueSystem"
  /\ system' = Append(system, inHand[s])
  /\ inHand' = [inHand EXCEPT ![s] = NoMessage]
  /\ Goto(s, "schedule")
  /\ UNCHANGED <<word, need_reschedule, user, userClosed, put_lock, live, tasks, left,
                 history>>

-----------------------------------------------------------------------------
(* register_for_execution                                                  *)

\* request_schedule with the user hint only: a suspended mailbox is left alone
CheckSuspended(t) ==
  /\ pc[t] = "register"
  /\ Goto(t, IF IsSuspended(word) THEN "idle" ELSE "schedule")
  /\ UNCHANGED <<word, need_reschedule, queues, live, tasks, inHand, left, history>>

\* the loop of request_schedule
RequestSchedule(t) ==
  /\ pc[t] = "schedule"
  /\ \/ IsClosed(word) /\ Goto(t, "idle") /\ UNCHANGED word
     \/ ~IsClosed(word) /\ IsBusy(word) /\ Goto(t, "flag") /\ UNCHANGED word
     \/ /\ ~IsClosed(word) /\ ~IsBusy(word)
        /\ word' = Scheduled(word)
        /\ Goto(t, "submit")
  /\ UNCHANGED <<need_reschedule, queues, live, tasks, inHand, left, history>>

\* a busy mailbox is flagged, in an access of its own
FlagReschedule(t) ==
  /\ pc[t] = "flag"
  /\ need_reschedule' = TRUE
  /\ Goto(t, "idle")
  /\ UNCHANGED <<word, queues, live, tasks, inHand, left, history>>

\* ExecutorShared::execute answers for every task it has drained, hence an Err
\* may be the refusal of another task, and a task that was queued with an Ok may
\* be thrown away by the thread that drains.
SubmitAccepted(t) ==
  /\ pc[t] = "submit"
  /\ tasks' = tasks + 1
  /\ Goto(t, "idle")
  /\ UNCHANGED <<word, need_reschedule, queues, live, inHand, left, history>>

\* Ok, and the closure is cleared from the trampoline after another refusal
SubmitDropped(t) ==
  /\ CanReject
  /\ pc[t] = "submit"
  /\ Goto(t, "idle")
  /\ UNCHANGED <<word, need_reschedule, queues, live, tasks, inHand, left, history>>

\* Err, although the closure was accepted before the task that is refused
SubmitCrossed(t) ==
  /\ CanReject
  /\ pc[t] = "submit"
  /\ tasks' = tasks + 1
  /\ crossed' = TRUE
  /\ Goto(t, "crossed")
  /\ UNCHANGED <<word, need_reschedule, queues, live, inHand, left, sent, processed,
                 deadLetters, refused, dropped>>

\* Err, from a refusal of the closure or of another task: set_idle, whose answer
\* is not used
SubmitRejected(t) ==
  /\ CanReject
  /\ pc[t] \in {"submit", "crossed"}
  /\ word' = Idle(word)
  /\ Goto(t, "rollback")
  /\ UNCHANGED <<need_reschedule, queues, live, tasks, inHand, left, history>>

RollbackReschedule(t) ==
  /\ pc[t] = "rollback"
  /\ need_reschedule' = FALSE
  /\ Goto(t, "idle")
  /\ UNCHANGED <<word, queues, live, tasks, inHand, left, history>>

Register(t) ==
  \/ CheckSuspended(t) \/ RequestSchedule(t) \/ FlagReschedule(t)
  \/ SubmitAccepted(t) \/ SubmitDropped(t) \/ SubmitCrossed(t) \/ SubmitRejected(t)
  \/ RollbackReschedule(t)

-----------------------------------------------------------------------------
(* Mailbox::run                                                            *)

\* A worker takes a closure; run returns at once on a cleaned mailbox, and on
\* one whose cell is gone unless a close must be finished.
StartRun(w) ==
  /\ pc[w] = "idle"
  /\ tasks > 0
  /\ tasks' = tasks - 1
  /\ Goto(w, IF IsCleanupDone(word) THEN "idle"
             ELSE IF IsCloseRequested(word) THEN "startClosed"
             ELSE IF live THEN "start" ELSE "idle")
  /\ UNCHANGED <<word, need_reschedule, queues, live, inHand, left, history>>

SetRunning(w) ==
  /\ pc[w] \in {"start", "startClosed"}
  /\ word' = Running(word)
  /\ left' = [left EXCEPT ![w] = Throughput]
  /\ Goto(w, IF pc[w] = "start" THEN "system" ELSE "finish")
  /\ UNCHANGED <<need_reschedule, queues, live, tasks, inHand, history>>

\* process_all_system_messages: the suspend count moves before the invocation
AfterSystem(m) ==
  CASE SystemKind[m] = "Suspend" -> Suspended(word)
    [] SystemKind[m] \in {"Resume", "Recreate"} -> Resumed(word)
    [] OTHER -> word

CheckSystem(w) ==
  /\ pc[w] = "system"
  /\ Goto(w, IF IsCloseRequested(word) THEN "user" ELSE "takeSystem")
  /\ UNCHANGED <<word, need_reschedule, queues, live, tasks, inHand, left, history>>

ProcessSystem(w) ==
  /\ pc[w] = "takeSystem"
  /\ system # <<>>
  /\ system' = Tail(system)
  /\ processed' = [processed EXCEPT ![Head(system)] = @ + 1]
  /\ word' = AfterSystem(Head(system))
  /\ Goto(w, "system")
  /\ UNCHANGED <<need_reschedule, user, userClosed, put_lock, live, tasks, inHand,
                 left, sent, deadLetters, refused, dropped, crossed>>

SystemDrained(w) ==
  /\ pc[w] = "takeSystem"
  /\ system = <<>>
  /\ Goto(w, "user")
  /\ UNCHANGED <<word, need_reschedule, queues, live, tasks, inHand, left, history>>

\* Mutant of ShouldProcess: the user loop does not notice a close.
ShouldProcessClosed(w) == left[w] > 0 /\ ~IsSuspended(word)

ShouldProcess(w) == left[w] > 0 /\ ~IsSuspended(word) /\ ~IsClosed(word)

\* the condition of the user loop; the throughput deadline may have passed after
\* the first message
CheckUser(w) ==
  /\ pc[w] = "user"
  /\ \/ ShouldProcess(w) /\ Goto(w, "takeUser")
     \/ ~ShouldProcess(w) /\ Goto(w, "finish")
     \/ left[w] < Throughput /\ Goto(w, "finish")
  /\ UNCHANGED <<word, need_reschedule, queues, live, tasks, inHand, left, history>>

\* process_mailbox: one user message; report_failure suspends the mailbox when
\* the handler fails.  A system drain follows.
ProcessUser(w) ==
  /\ pc[w] = "takeUser"
  /\ user # <<>>
  /\ user' = Tail(user)
  /\ processed' = [processed EXCEPT ![Head(user)] = @ + 1]
  /\ word' \in {word, Suspended(word)}
  /\ left' = [left EXCEPT ![w] = @ - 1]
  /\ Goto(w, "system")
  /\ UNCHANGED <<need_reschedule, system, userClosed, put_lock, live, tasks, inHand,
                 sent, deadLetters, refused, dropped, crossed>>

UserDrained(w) ==
  /\ pc[w] = "takeUser"
  /\ user = <<>>
  /\ Goto(w, "finish")
  /\ UNCHANGED <<word, need_reschedule, queues, live, tasks, inHand, left, history>>

\* finish_run.  Of the swap of need_reschedule that follows the exchange only
\* the Continue outcome uses the answer; nobody reads the flag after a close.
FinishRun(w) ==
  /\ pc[w] = "finish"
  /\ word' = RunFinished(word)
  /\ Goto(w, IF RunnerFinalizes(word) THEN "finalize"
             ELSE IF IsClosed(word) THEN "idle" ELSE "swap")
  /\ UNCHANGED <<need_reschedule, queues, live, tasks, inHand, left, history>>

SwapReschedule(w) ==
  /\ pc[w] = "swap"
  /\ need_reschedule' = FALSE
  /\ Goto(w, IF need_reschedule THEN "schedule" ELSE "inspect")
  /\ UNCHANGED <<word, queues, live, tasks, inHand, left, history>>

\* Mutant of InspectQueues: the run trusts need_reschedule alone.
InspectNothing(w) ==
  /\ pc[w] = "inspect"
  /\ Goto(w, "idle")
  /\ UNCHANGED <<word, need_reschedule, queues, live, tasks, inHand, left, history>>

\* still_has_work; the closure then registers again with both hints
InspectQueues(w) ==
  /\ pc[w] = "inspect"
  /\ Goto(w, IF user # <<>> \/ system # <<>> THEN "schedule" ELSE "idle")
  /\ UNCHANGED <<word, need_reschedule, queues, live, tasks, inHand, left, history>>

Run(w) ==
  \/ SetRunning(w) \/ CheckSystem(w) \/ ProcessSystem(w) \/ SystemDrained(w)
  \/ CheckUser(w) \/ ProcessUser(w) \/ UserDrained(w)
  \/ FinishRun(w) \/ SwapReschedule(w) \/ InspectQueues(w)

-----------------------------------------------------------------------------
(* Closing                                                                 *)

BecomeClosed(c) ==
  /\ pc[c] = "idle"
  /\ word' = CloseRequested(word)
  /\ Goto(c, IF CallerOwnsFinalizer(word) THEN "finalize" ELSE "closed")
  /\ UNCHANGED <<need_reschedule, queues, live, tasks, inHand, left, history>>

\* finalize_cleanup, step by step under put_lock
SealUser(t) ==
  /\ pc[t] = "finalize"
  /\ put_lock = NoThread
  /\ put_lock' = t
  /\ userClosed' = TRUE
  /\ Goto(t, "drainSystem")
  /\ UNCHANGED <<word, need_reschedule, user, system, live, tasks, inHand, left, history>>

DrainSystem(t) ==
  /\ pc[t] = "drainSystem"
  /\ \/ /\ system # <<>>
        /\ system' = Tail(system)
        /\ deadLetters' = deadLetters \cup {Head(system)}
        /\ UNCHANGED pc
     \/ /\ system = <<>>
        /\ Goto(t, "drainUser")
        /\ UNCHANGED <<system, deadLetters>>
  /\ UNCHANGED <<word, need_reschedule, user, userClosed, put_lock, live, tasks, inHand,
                 left, sent, processed, refused, dropped, crossed>>

\* Mutant of DrainUser: the user queue is left to clean_up.
DrainUserSkipped(t) ==
  /\ pc[t] = "drainUser"
  /\ Goto(t, "cleanUp")
  /\ UNCHANGED <<word, need_reschedule, queues, live, tasks, inHand, left, history>>

DrainUser(t) ==
  /\ pc[t] = "drainUser"
  /\ \/ /\ user # <<>>
        /\ user' = Tail(user)
        /\ deadLetters' = deadLetters \cup {Head(user)}
        /\ UNCHANGED pc
     \/ /\ user = <<>>
        /\ Goto(t, "cleanUp")
        /\ UNCHANGED <<user, deadLetters>>
  /\ UNCHANGED <<word, need_reschedule, system, userClosed, put_lock, live, tasks, inHand,
                 left, sent, processed, refused, dropped, crossed>>

\* clean_up discards what is left, then finish_cleanup, still under the lock
CleanUp(t) ==
  /\ pc[t] = "cleanUp"
  /\ dropped' = dropped \cup Range(user)
  /\ user' = <<>>
  /\ word' = Cleaned(word)
  /\ put_lock' = NoThread
  /\ Goto(t, IF t \in Closers THEN "closed" ELSE "idle")
  /\ UNCHANGED <<need_reschedule, system, userClosed, live, tasks, inHand, left, sent,
                 processed, deadLetters, refused, crossed>>

Finalize(t) == SealUser(t) \/ DrainSystem(t) \/ DrainUser(t) \/ CleanUp(t)

-----------------------------------------------------------------------------
\* The last strong reference to the actor cell goes away.
DropCell ==
  /\ live
  /\ live' = FALSE
  /\ UNCHANGED <<word, need_reschedule, queues, tasks, pc, inHand, left, history>>

Send(s) ==
  \/ \E m \in UserMessages : SendUser(s, m)
  \/ \E m \in SystemMessages : SendSystem(s, m)
  \/ EnqueueUser(s) \/ EnqueueSystem(s)

Next ==
  \/ \E s \in Senders : Send(s)
  \/ \E t \in Senders \cup Workers : Register(t)
  \/ \E w \in Workers : StartRun(w) \/ Run(w)
  \/ \E c \in Closers : BecomeClosed(c)
  \/ \E t \in Workers \cup Closers : Finalize(t)
  \/ DropCell

Spec == Init /\ [][Next]_vars

\* Threads keep running once they are inside an operation and the executor
\* gives every accepted closure a worker.  Nobody has to send or to close.
Fairness ==
  /\ \A s \in Senders : WF_vars(EnqueueUser(s) \/ EnqueueSystem(s))
  /\ \A t \in Senders \cup Workers : WF_vars(Register(t))
  /\ \A w \in Workers : WF_vars(StartRun(w)) /\ WF_vars(Run(w))
  /\ \A t \in Workers \cup Closers : WF_vars(Finalize(t))

FairSpec == Spec /\ Fairness

-----------------------------------------------------------------------------
(* Properties                                                              *)

SenderPC == {"idle", "enqueue", "enqueueSystem"}
RegisterPC == {"register", "schedule", "flag", "submit", "crossed", "rollback"}
TakePC == {"takeSystem", "takeUser"}
DrainPC == {"system", "takeSystem", "user", "takeUser", "finish"}
RunPC == {"idle", "start", "startClosed", "swap", "inspect"} \cup DrainPC
FinalizePC == {"finalize", "drainSystem", "drainUser", "cleanUp"}

TypeOK ==
  /\ word \in Word
  /\ need_reschedule \in BOOLEAN
  /\ user \in Seq(UserMessages)
  /\ system \in Seq(SystemMessages)
  /\ userClosed \in BOOLEAN
  /\ put_lock \in Threads \cup {NoThread}
  /\ live \in BOOLEAN
  /\ tasks \in Nat
  /\ pc \in [Threads -> SenderPC \cup RegisterPC \cup RunPC \cup FinalizePC \cup {"closed"}]
  /\ \A s \in Senders : pc[s] \in SenderPC \cup RegisterPC
  /\ \A w \in Workers : pc[w] \in RegisterPC \cup RunPC \cup FinalizePC
  /\ \A c \in Closers : pc[c] \in {"idle", "closed"} \cup FinalizePC
  /\ inHand \in [Senders -> Messages \cup {NoMessage}]
  /\ \A s \in Senders : /\ pc[s] = "enqueue" => inHand[s] \in UserMessages
                        /\ pc[s] = "enqueueSystem" => inHand[s] \in SystemMessages
  /\ left \in [Workers -> 0 .. Throughput]
  /\ \A w \in Workers : pc[w] = "takeUser" => left[w] > 0
  /\ processed \in [Messages -> Nat]
  /\ sent \subseteq Messages
  /\ deadLetters \subseteq Messages
  /\ refused \subseteq Messages
  /\ dropped \subseteq Messages
  /\ crossed \in BOOLEAN

Draining == {w \in Workers : pc[w] \in DrainPC}
Finalizing == {t \in Workers \cup Closers : pc[t] \in FinalizePC}

\* An actor is never entered by two threads at once: at most one run is between
\* set_running and finish_run, whatever the senders, the post-drain reschedule
\* and the rollback of a refused submission do to the schedule word, until a
\* submission is rolled back that was accepted (the error was another task's).
SingleRunner == ~crossed => \A v, w \in Draining : v = w

\* The finalizer is elected once: become_closed on any number of threads and
\* finish_run never both take finalize_cleanup, and nobody cleans up again.
OneFinalizer ==
  /\ \A t, u \in Finalizing : t = u
  /\ IsCleanupDone(word) => Finalizing = {}

\* While someone finalizes, no message reaches the actor: a drain loop that read
\* the word before the close is the one the cleanup was left to, and one that
\* is still winding down takes nothing (request_close, raced by the loops),
\* under the same condition: without RUNNING a close does not wait for the run.
NoDeliveryDuringCleanup ==
  [][~crossed /\ Finalizing # {} => processed' = processed]_vars

\* The two without the condition; a crossed rollback breaks both.
SingleRunnerAlways == \A v, w \in Draining : v = w
QuietCleanupAlways == [][Finalizing # {} => processed' = processed]_vars

InHand == {inHand[s] : s \in Senders} \ {NoMessage}
Processed == {m \in Messages : processed[m] > 0}
Queued == Range(user) \cup Range(system)
Returned == deadLetters \cup refused

\* Every message handed to a sender is in exactly one place, reaches the actor
\* at most once, and never both reaches the actor and is reported as a dead
\* letter or as refused; clean_up discards nothing silently.
ExactlyOnce ==
  /\ \A m \in Messages : processed[m] <= 1
  /\ IsInjective(user) /\ IsInjective(system)
  /\ sent = Processed \cup Queued \cup Returned \cup InHand
  /\ Processed \cap (Queued \cup Returned \cup InHand) = {}
  /\ Queued \cap (Returned \cup InHand) = {}
  /\ Returned \cap InHand = {}
  /\ deadLetters \cap refused = {}
  /\ dropped = {}

\* No phantom enqueue: a user message accepted in a race with the close is
\* drained, so that a cleaned mailbox holds none.
NoPhantomUser == IsCleanupDone(word) => user = <<>>

\* Someone will look at the queues again: a closure is waiting, or a thread is
\* on its way to schedule the mailbox, drains it or is about to inspect it.
Attended ==
  \/ tasks > 0
  \/ \E t \in Threads : pc[t] \in {"enqueueSystem", "schedule", "submit", "start",
                                   "startClosed", "swap", "inspect"} \cup DrainPC

\* No wake-up is lost: a mailbox that has deliverable work and is open is never
\* left unattended (need_reschedule, still_has_work and the suspension check of
\* request_schedule, raced by the runner).
NoLostWakeup ==
  ~IsClosed(word) /\ live =>
    /\ system # <<>> => Attended
    /\ user # <<>> /\ ~IsSuspended(word) =>
         Attended \/ \E s \in Senders : pc[s] = "register"

\* Every queued user message is processed or becomes a dead letter, unless the
\* mailbox is suspended or the cell is gone.
UserDelivered ==
  \A m \in UserMessages :
    m \in Range(user) ~> m \notin Range(user) \/ IsSuspended(word) \/ ~live

\* A close is always finished, by the caller or by the runner it was left to.
CloseCompletes == IsCloseRequested(word) ~> IsCleanupDone(word)

\* A mailbox that stays suspended and has no system work comes to rest: from
\* some moment on no thread runs it.
SuspendedRests ==
  <>[](IsSuspended(word) /\ system = <<>>) => <>[](Draining = {})
=============================================================================
