--------------------------- MODULE ExecutorShared ---------------------------
(***************************************************************************)
(* ExecutorShared (dispatch/dispatcher/executor_shared.rs): the trampoline *)
(* in front of an executor.  `execute` queues its task, and the caller     *)
(* that wins `running` hands the queued tasks to the inner executor one by *)
(* one; the others return at once.  DriveGuardToken claims `running`       *)
(* without draining.                                                       *)
(*                                                                         *)
(* The inner executor is the one that can refuse work, AffinityExecutor    *)
(* (actor-adaptor-std): every worker has a bounded queue, a task goes to   *)
(* the queue its affinity key selects, and a full queue is an error.       *)
(***************************************************************************)
EXTENDS Naturals, SequencesExt

CONSTANTS
  Callers,     \* threads that call execute
  Guards,      \* the callers that may hold a DriveGuardToken
  Stoppers,    \* threads that call shutdown
  Workers,     \* threads of the inner executor
  Tasks,       \* what is submitted
  Affinity,    \* the worker whose queue a task goes to
  Capacity,    \* bound of each worker queue
  NoTask

ASSUME ThreadsAssumption ==
  /\ Guards \subseteq Callers
  /\ Callers \cap Stoppers = {}
ASSUME TasksAssumption ==
  /\ Affinity \in [Tasks -> Workers]
  /\ Capacity \in Nat \ {0}
  /\ NoTask \notin Tasks

VARIABLES
  pending,   \* TrampolineState.pending
  running,   \* the drain-owner slot
  queue,     \* per worker: accepted tasks
  shut,      \* the inner executor was shut down
  pc,        \* where each thread is
  mine,      \* per caller: the task it submitted
  held,      \* per caller: the task it popped from the trampoline
  tail,      \* per caller: it is in the tail drain of step 4
  failed,    \* per caller: last_err is set
  guard      \* per caller: "none", "claimed" or "nested" token

evars == <<pending, running, queue, shut, pc, mine, held, tail, failed, guard>>

ExecutePC == {"claim", "pop", "hand", "clear", "release", "recheck", "reclaim",
              "answered"}
OwnerPC == {"pop", "hand", "clear", "release"}

Goto(t, label) == pc' = [pc EXCEPT ![t] = label]

ExecutorInit ==
  /\ pending = <<>>
  /\ running = FALSE
  /\ queue = [w \in Workers |-> <<>>]
  /\ shut = FALSE
  /\ mine = [t \in Callers |-> NoTask]
  /\ held = [t \in Callers |-> NoTask]
  /\ tail = [t \in Callers |-> FALSE]
  /\ failed = [t \in Callers |-> FALSE]
  /\ guard = [t \in Callers |-> "none"]

-----------------------------------------------------------------------------
(* execute; a call ends with pc = "answered" and Err iff failed            *)

PushTask(t, task) ==
  /\ pending' = Append(pending, task)
  /\ mine' = [mine EXCEPT ![t] = task]
  /\ failed' = [failed EXCEPT ![t] = FALSE]
  /\ tail' = [tail EXCEPT ![t] = FALSE]
  /\ Goto(t, "claim")
  /\ UNCHANGED <<running, queue, shut, held, guard>>

ClaimSlot(t) ==
  /\ pc[t] = "claim"
  /\ running' = TRUE
  /\ Goto(t, IF running THEN "answered" ELSE "pop")
  /\ UNCHANGED <<pending, queue, shut, mine, held, tail, failed, guard>>

\* Mutant of PopTask: the task is handed over and stays queued.
PeekTask(t) ==
  /\ pc[t] = "pop"
  /\ \/ /\ pending # <<>>
        /\ held' = [held EXCEPT ![t] = Head(pending)]
        /\ Goto(t, "hand")
     \/ /\ pending = <<>>
        /\ Goto(t, "release")
        /\ UNCHANGED held
  /\ UNCHANGED <<pending, running, queue, shut, mine, tail, failed, guard>>

PopTask(t) ==
  /\ pc[t] = "pop"
  /\ \/ /\ pending # <<>>
        /\ held' = [held EXCEPT ![t] = Head(pending)]
        /\ pending' = Tail(pending)
        /\ Goto(t, "hand")
     \/ /\ pending = <<>>
        /\ Goto(t, "release")
        /\ UNCHANGED <<held, pending>>
  /\ UNCHANGED <<running, queue, shut, mine, tail, failed, guard>>

\* shutdown keeps the lock of the inner executor while it joins the workers
InnerLocked == \E z \in Stoppers : pc[z] = "joining"

\* AffinityExecutor::execute refuses after a shutdown or when the queue is full
Refuses(task) == shut \/ Len(queue[Affinity[task]]) >= Capacity

\* Mutant of HandOver: a refused task is offered again and again.
HandOverRetrying(t) ==
  /\ pc[t] = "hand"
  /\ ~InnerLocked
  /\ ~Refuses(held[t])
  /\ queue' = [queue EXCEPT ![Affinity[held[t]]] = Append(@, held[t])]
  /\ Goto(t, "pop")
  /\ held' = [held EXCEPT ![t] = NoTask]
  /\ UNCHANGED <<pending, running, shut, mine, tail, failed, guard>>

\* with_write takes the lock of the inner executor for one submission
HandOver(t) ==
  /\ pc[t] = "hand"
  /\ ~InnerLocked
  /\ IF Refuses(held[t])
     THEN /\ failed' = [failed EXCEPT ![t] = TRUE]
          /\ Goto(t, "clear")
          /\ UNCHANGED queue
     ELSE /\ queue' = [queue EXCEPT ![Affinity[held[t]]] = Append(@, held[t])]
          /\ Goto(t, "pop")
          /\ UNCHANGED failed
  /\ held' = [held EXCEPT ![t] = NoTask]
  /\ UNCHANGED <<pending, running, shut, mine, tail, guard>>

ClearPending(t) ==
  /\ pc[t] = "clear"
  /\ pending' = <<>>
  /\ Goto(t, "release")
  /\ UNCHANGED <<running, queue, shut, mine, held, tail, failed, guard>>

\* after the main drain the queue is looked at once more, after the tail not
ReleaseSlot(t) ==
  /\ pc[t] = "release"
  /\ running' = FALSE
  /\ Goto(t, IF tail[t] \/ failed[t] THEN "answered" ELSE "recheck")
  /\ UNCHANGED <<pending, queue, shut, mine, held, tail, failed, guard>>

Recheck(t) ==
  /\ pc[t] = "recheck"
  /\ Goto(t, IF pending = <<>> THEN "answered" ELSE "reclaim")
  /\ UNCHANGED <<pending, running, queue, shut, mine, held, tail, failed, guard>>

\* Mutant of ReclaimSlot: the tail drain does not ask who owns the slot.
ReclaimBlind(t) ==
  /\ pc[t] = "reclaim"
  /\ running' = TRUE
  /\ Goto(t, "pop")
  /\ tail' = [tail EXCEPT ![t] = TRUE]
  /\ UNCHANGED <<pending, queue, shut, mine, held, failed, guard>>

ReclaimSlot(t) ==
  /\ pc[t] = "reclaim"
  /\ running' = TRUE
  /\ Goto(t, IF running THEN "answered" ELSE "pop")
  /\ tail' = [tail EXCEPT ![t] = TRUE]
  /\ UNCHANGED <<pending, queue, shut, mine, held, failed, guard>>

Execute(t) ==
  \/ ClaimSlot(t) \/ PopTask(t) \/ HandOver(t) \/ ClearPending(t)
  \/ ReleaseSlot(t) \/ Recheck(t) \/ ReclaimSlot(t)

-----------------------------------------------------------------------------
(* enter_drive_guard and the token's Drop; execute may be called between   *)

EnterGuard(t) ==
  /\ guard[t] = "none"
  /\ running' = TRUE
  /\ guard' = [guard EXCEPT ![t] = IF running THEN "nested" ELSE "claimed"]
  /\ UNCHANGED <<pending, queue, shut, pc, mine, held, tail, failed>>

DropGuard(t) ==
  /\ guard[t] # "none"
  /\ running' = IF guard[t] = "claimed" THEN FALSE ELSE running
  /\ guard' = [guard EXCEPT ![t] = "none"]
  /\ UNCHANGED <<pending, queue, shut, pc, mine, held, tail, failed>>

-----------------------------------------------------------------------------
(* shutdown: the inner executor first, then the trampoline queue           *)

\* AffinityExecutor::shutdown refuses further work and drops the senders; only
\* the first call joins the workers
ShutdownInner(t) ==
  /\ pc[t] = "idle"
  /\ ~InnerLocked
  /\ shut' = TRUE
  /\ Goto(t, IF shut THEN "shutdown" ELSE "joining")
  /\ UNCHANGED <<pending, running, queue, mine, held, tail, failed, guard>>

\* A worker ends when it has emptied its queue; `busy` are those inside a task.
JoinWorkers(t, busy) ==
  /\ pc[t] = "joining"
  /\ busy = {}
  /\ \A w \in Workers : queue[w] = <<>>
  /\ Goto(t, "shutdown")
  /\ UNCHANGED <<pending, running, queue, shut, mine, held, tail, failed, guard>>

ShutdownClear(t) ==
  /\ pc[t] = "shutdown"
  /\ pending' = <<>>
  /\ Goto(t, "stopped")
  /\ UNCHANGED <<running, queue, shut, mine, held, tail, failed, guard>>

-----------------------------------------------------------------------------
\* A worker receives the next task of its queue, after a shutdown too.
Receive(w, task) ==
  /\ queue[w] # <<>>
  /\ task = Head(queue[w])
  /\ queue' = [queue EXCEPT ![w] = Tail(@)]

Owners == {t \in Callers : pc[t] \in OwnerPC \/ guard[t] = "claimed"}

\* The drain-owner slot is exclusive and never leaked: `running` is set exactly
\* while one thread drains or holds a claimed token.
SlotExclusive ==
  /\ \A t, u \in Owners : t = u
  /\ running <=> Owners # {}
=============================================================================
