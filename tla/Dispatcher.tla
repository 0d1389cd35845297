----------------------------- MODULE Dispatcher -----------------------------
(***************************************************************************)
(* Several mailboxes behind one dispatcher                                 *)
(* (dispatch/dispatcher/message_dispatcher_shared.rs) composed with the    *)
(* trampoline and the bounded executor of ExecutorShared.  Callers of      *)
(* execute are the senders and the workers themselves, which register      *)
(* their mailbox again after a drain.  Mailbox has the details of one      *)
(* mailbox; here a mailbox is its schedule word, the need_reschedule flag  *)
(* and the number of messages it holds, a refused submission is what the   *)
(* trampoline answers, the flag is set and swapped together with the word, *)
(* and mailboxes are not suspended: the properties are about closures and  *)
(* finalizers, and those depend on the word alone.                         *)
(***************************************************************************)
EXTENDS ExecutorShared, ScheduleState

CONSTANTS
  Senders,   \* threads that send to actors
  Closers,   \* threads that detach an actor
  Mailboxes, \* the mailboxes; the closure that runs m is the task m
  MaxSends   \* bound: messages sent in all

ASSUME ComposedAssumption ==
  /\ Tasks = Mailboxes
  /\ Callers = Senders \cup Workers
  /\ Closers \cap (Callers \cup Stoppers) = {}
  /\ MaxSends \in Nat

VARIABLES
  word,   \* schedule word of each mailbox
  need,   \* need_reschedule of each mailbox
  work,   \* messages queued in each mailbox
  cur,    \* the mailbox a thread works on
  sends,  \* messages sent so far
  refused \* history: mailboxes rolled back to idle after a refused submission

mvars == <<word, need, work, cur, sends, refused>>
vars == <<evars, mvars>>

Threads == Callers \cup Stoppers \cup Closers

Init ==
  /\ ExecutorInit
  /\ pc = [t \in Threads |-> "idle"]
  /\ word = [m \in Mailboxes |-> NewWord]
  /\ need = [m \in Mailboxes |-> FALSE]
  /\ work = [m \in Mailboxes |-> 0]
  /\ cur = [t \in Threads |-> NoTask]
  /\ sends = 0
  /\ refused = {}

\* what the steps below leave alone of the executor
executor == <<pending, running, queue, shut, mine, held, tail, failed, guard>>

-----------------------------------------------------------------------------
\* MessageDispatcherShared::shutdown holds the dispatcher lock until it returns
DispatcherLocked == \E z \in Stoppers : pc[z] \in {"joining", "shutdown"}

\* dispatch: enqueue under the lock, then register; a closed mailbox refuses
Dispatch(s, m) ==
  /\ pc[s] = "idle"
  /\ ~DispatcherLocked
  /\ sends < MaxSends
  /\ ~IsClosed(word[m])
  /\ sends' = sends + 1
  /\ work' = [work EXCEPT ![m] = @ + 1]
  /\ cur' = [cur EXCEPT ![s] = m]
  /\ Goto(s, "schedule")
  /\ UNCHANGED <<executor, word, need, refused>>

\* register_for_execution up to the call of execute
RequestSchedule(t) ==
  LET m == cur[t] IN
  /\ pc[t] = "schedule"
  /\ \/ IsClosed(word[m]) /\ Goto(t, "idle") /\ UNCHANGED <<word, need>>
     \/ /\ ~IsClosed(word[m]) /\ IsBusy(word[m])
        /\ need' = [need EXCEPT ![m] = TRUE]
        /\ Goto(t, "idle") /\ UNCHANGED word
     \/ /\ ~IsClosed(word[m]) /\ ~IsBusy(word[m])
        /\ word' = [word EXCEPT ![m] = Scheduled(@)]
        /\ Goto(t, "submit") /\ UNCHANGED need
  /\ UNCHANGED <<executor, work, cur, sends, refused>>

\* throughput, deadline and executor are read under the dispatcher lock
Submit(t) ==
  /\ pc[t] = "submit"
  /\ ~DispatcherLocked
  /\ PushTask(t, cur[t])
  /\ UNCHANGED mvars

ExecuteStep(t) == Execute(t) /\ UNCHANGED mvars

\* execute returned; on Err the mailbox is rolled back to idle
Registered(t) ==
  /\ pc[t] = "answered"
  /\ word' = IF failed[t] THEN [word EXCEPT ![cur[t]] = Idle(@)] ELSE word
  /\ need' = IF failed[t] THEN [need EXCEPT ![cur[t]] = FALSE] ELSE need
  /\ refused' = IF failed[t] THEN refused \cup {cur[t]} ELSE refused
  /\ mine' = [mine EXCEPT ![t] = NoTask]
  /\ cur' = [cur EXCEPT ![t] = NoTask]
  /\ Goto(t, "idle")
  /\ UNCHANGED <<pending, running, queue, shut, held, tail, failed, guard, work, sends>>

-----------------------------------------------------------------------------
\* the closure: Mailbox::run, and the registration that may follow
StartRun(w) ==
  /\ pc[w] = "idle"
  /\ \E m \in Mailboxes :
       /\ Receive(w, m)
       /\ cur' = [cur EXCEPT ![w] = m]
       /\ Goto(w, IF IsCleanupDone(word[m]) THEN "idle"
                  ELSE IF IsCloseRequested(word[m]) THEN "startClosed" ELSE "start")
  /\ UNCHANGED <<pending, running, shut, mine, held, tail, failed, guard, word, need,
                 work, sends, refused>>

SetRunning(w) ==
  /\ pc[w] \in {"start", "startClosed"}
  /\ word' = [word EXCEPT ![cur[w]] = Running(@)]
  /\ Goto(w, IF pc[w] = "start" THEN "drain" ELSE "finish")
  /\ UNCHANGED <<executor, need, work, cur, sends, refused>>

\* the drain loop takes a message, or ends
Drain(w) ==
  /\ pc[w] = "drain"
  /\ \/ /\ work[cur[w]] > 0 /\ ~IsCloseRequested(word[cur[w]])
        /\ work' = [work EXCEPT ![cur[w]] = @ - 1]
        /\ Goto(w, "invoke")
     \/ /\ work[cur[w]] = 0 \/ IsCloseRequested(word[cur[w]])
        /\ Goto(w, "finish")
        /\ UNCHANGED work
  /\ UNCHANGED <<executor, word, need, cur, sends, refused>>

\* the handler returns; the throughput limit may end the drain
Invoked(w) ==
  /\ pc[w] = "invoke"
  /\ \E next \in {"drain", "finish"} : Goto(w, next)
  /\ UNCHANGED <<executor, mvars>>

FinishRun(w) ==
  LET m == cur[w] IN
  /\ pc[w] = "finish"
  /\ word' = [word EXCEPT ![m] = RunFinished(@)]
  /\ need' = [need EXCEPT ![m] = FALSE]
  /\ Goto(w, IF RunnerFinalizes(word[m]) THEN "finalize"
             ELSE IF ~IsClosed(word[m]) /\ (need[m] \/ work[m] > 0) THEN "schedule"
             ELSE "idle")
  /\ UNCHANGED <<executor, work, cur, sends, refused>>

-----------------------------------------------------------------------------
\* detach: become_closed, and finalize_cleanup by whoever was elected
Detach(c, m) ==
  /\ pc[c] = "idle"
  /\ cur' = [cur EXCEPT ![c] = m]
  /\ word' = [word EXCEPT ![m] = CloseRequested(@)]
  /\ Goto(c, IF CallerOwnsFinalizer(word[m]) THEN "finalize" ELSE "detached")
  /\ UNCHANGED <<executor, need, work, sends, refused>>

FinalizeCleanup(t) ==
  /\ pc[t] = "finalize"
  /\ work' = [work EXCEPT ![cur[t]] = 0]
  /\ word' = [word EXCEPT ![cur[t]] = Cleaned(@)]
  /\ Goto(t, IF t \in Closers THEN "detached" ELSE "idle")
  /\ UNCHANGED <<executor, need, cur, sends, refused>>

\* workers inside a closure, which are not joined before it returns
Busy == {w \in Workers : pc[w] # "idle"}

Stop(t) ==
  /\ \/ ~DispatcherLocked /\ ShutdownInner(t)
     \/ JoinWorkers(t, Busy)
     \/ ShutdownClear(t)
  /\ UNCHANGED mvars

Next ==
  \/ \E s \in Senders, m \in Mailboxes : Dispatch(s, m)
  \/ \E t \in Callers : RequestSchedule(t) \/ Submit(t) \/ ExecuteStep(t) \/ Registered(t)
  \/ \E w \in Workers : 
       StartRun(w) \/ SetRunning(w) \/ Drain(w) \/ Invoked(w) \/ FinishRun(w)
  \/ \E c \in Closers, m \in Mailboxes : Detach(c, m)
  \/ \E t \in Workers \cup Closers : FinalizeCleanup(t)
  \/ \E t \in Stoppers : Stop(t)

Spec == Init /\ [][Next]_vars

\* Threads inside an operation keep going, and a worker receives what is queued
\* for it.
Fairness ==
  /\ \A t \in Callers :
       WF_vars(RequestSchedule(t) \/ Submit(t) \/ ExecuteStep(t) \/ Registered(t))
  /\ \A w \in Workers :
       WF_vars(StartRun(w) \/ SetRunning(w) \/ Drain(w) \/ Invoked(w) \/ FinishRun(w))
  /\ \A t \in Workers \cup Closers : WF_vars(FinalizeCleanup(t))
  /\ \A t \in Stoppers : WF_vars(pc[t] # "idle" /\ Stop(t))

FairSpec == Spec /\ Fairness

-----------------------------------------------------------------------------
(* Properties                                                              *)

\* places in which a thread works on the mailbox cur
MailboxPC == {"schedule", "submit", "start", "startClosed", "drain", "invoke", "finish",
              "finalize"}
RestPC == {"idle", "detached", "joining", "shutdown", "stopped"}

TypeOK ==
  /\ pending \in Seq(Mailboxes)
  /\ running \in BOOLEAN
  /\ queue \in [Workers -> Seq(Mailboxes)]
  /\ shut \in BOOLEAN
  /\ pc \in [Threads -> ExecutePC \cup MailboxPC \cup RestPC]
  /\ mine \in [Callers -> Mailboxes \cup {NoTask}]
  /\ held \in [Callers -> Mailboxes \cup {NoTask}]
  /\ \A t \in Callers : held[t] # NoTask <=> pc[t] = "hand"
  /\ tail \in [Callers -> BOOLEAN]
  /\ failed \in [Callers -> BOOLEAN]
  /\ word \in [Mailboxes -> Word]
  /\ need \in [Mailboxes -> BOOLEAN]
  /\ work \in [Mailboxes -> 0 .. MaxSends]
  /\ cur \in [Threads -> Mailboxes \cup {NoTask}]
  /\ \A t \in Threads : pc[t] \in ExecutePC \cup MailboxPC => cur[t] \in Mailboxes
  /\ sends \in 0 .. MaxSends
  /\ refused \subseteq Mailboxes

Finalizers(m) == {t \in Workers \cup Closers : pc[t] = "finalize" /\ cur[t] = m}

\* Where a closure that runs m can be: in the trampoline, popped by the drain
\* owner, in a worker queue, about to be submitted, or being run.
ClosuresQueued(m) ==
  Cardinality({i \in DOMAIN pending : pending[i] = m})
  + Cardinality({t \in Callers : held[t] = m})
  + Cardinality({i \in DOMAIN queue[Affinity[m]] : queue[Affinity[m]][i] = m})
Carriers(m) ==
  {t \in Callers :
     cur[t] = m /\ pc[t] \in {"submit", "start", "startClosed", "drain", "invoke", "finish"}}

\* A mailbox never has two closures in the executor: the SCHEDULED flag follows
\* the closure through the trampoline and the worker queue.  Only a mailbox
\* rolled back after a refused submission can have two: the answer a caller of
\* execute gets may be about another caller's closure.
OneClosure == \A m \in Mailboxes \ refused : ClosuresQueued(m) + Cardinality(Carriers(m)) <= 1

\* Detaching an actor whose mailbox runs leaves the cleanup to the runner: no
\* other thread finalizes a mailbox while a handler of its actor is executing.
\* Only a rolled back mailbox escapes this too: the roll back clears the running
\* flag of a run that is under way.
DetachHandsOff ==
  \A m \in Mailboxes \ refused :
    (\E w \in Workers : pc[w] = "invoke" /\ cur[w] = m) => Finalizers(m) = {}

\* Whatever submissions are refused and rolled back, a mailbox is finalized by
\* one thread, once.
OneFinalizer ==
  \A m \in Mailboxes :
    /\ Cardinality(Finalizers(m)) <= 1
    /\ IsCleanupDone(word[m]) => Finalizers(m) = {}

\* Shutting the dispatcher down ends: the workers that are joined get to the
\* end of what they run.
ShutdownReturns == \A z \in Stoppers : pc[z] = "joining" ~> pc[z] = "stopped"
=============================================================================
