----------------------------- MODULE Trampoline -----------------------------
(***************************************************************************)
(* ExecutorShared on its own: callers that submit tasks, workers that run  *)
(* what was accepted and, being callers themselves, submit from inside a   *)
(* task, some of them under a drive guard, and a shutdown.  A task that    *)
(* ran may be submitted again, as a mailbox that is rescheduled is, so     *)
(* submissions need not end.  Histories record what became of each task.   *)
(***************************************************************************)
EXTENDS ExecutorShared

VARIABLES
  inside,     \* per worker: the task it is running
  submitted,  \* history: tasks passed to execute
  result,     \* history: what execute returned for a task
  refusedBy,  \* history: tasks the inner executor refused
  discarded,  \* history: tasks removed from the trampoline unseen
  ran         \* history: tasks a worker ran to the end

history == <<submitted, result, refusedBy, discarded, ran>>
vars == <<evars, inside, history>>

Init ==
  /\ ExecutorInit
  /\ pc = [t \in Callers \cup Stoppers |-> "idle"]
  /\ inside = [w \in Workers |-> NoTask]
  /\ submitted = {}
  /\ result = [task \in Tasks |-> "none"]
  /\ refusedBy = {}
  /\ discarded = {}
  /\ ran = {}

\* workers whose thread is inside a task; the others call nothing
Busy == {w \in Workers : inside[w] # NoTask}
Active(t) == pc[t] = "idle" /\ (t \in Workers => t \in Busy)

\* a new task, or one that ran and whose last submitter was answered
Submit(t, task) ==
  /\ Active(t)
  /\ task \notin submitted \/ (task \in ran /\ \A u \in Callers : mine[u] # task)
  /\ PushTask(t, task)
  /\ submitted' = submitted \cup {task}
  /\ ran' = ran \ {task}
  /\ result' = [result EXCEPT ![task] = "none"]
  /\ UNCHANGED <<inside, refusedBy, discarded>>

Step(t) ==
  /\ Execute(t)
  /\ refusedBy' = IF pc[t] = "hand" /\ Refuses(held[t]) THEN refusedBy \cup {held[t]}
                  ELSE refusedBy
  /\ discarded' = IF pc[t] = "clear" THEN discarded \cup Range(pending) ELSE discarded
  /\ UNCHANGED <<inside, submitted, result, ran>>

Answer(t) ==
  /\ pc[t] = "answered"
  /\ result' = [result EXCEPT ![mine[t]] = IF failed[t] THEN "Err" ELSE "Ok"]
  /\ mine' = [mine EXCEPT ![t] = NoTask]
  /\ Goto(t, "idle")
  /\ UNCHANGED <<pending, running, queue, shut, held, tail, failed, guard, inside, submitted,
                 refusedBy, discarded, ran>>

Guard(t) ==
  /\ Active(t)
  /\ EnterGuard(t) \/ DropGuard(t)
  /\ UNCHANGED <<inside, history>>

\* a worker that is inside a task is joined when the task has ended
Shutdown(t) ==
  /\ ShutdownInner(t) \/ JoinWorkers(t, Busy) \/ ShutdownClear(t)
  /\ discarded' = IF pc[t] = "shutdown" THEN discarded \cup Range(pending) ELSE discarded
  /\ UNCHANGED <<inside, submitted, result, refusedBy, ran>>

StartTask(w) ==
  /\ inside[w] = NoTask
  /\ \E task \in Tasks : Receive(w, task) /\ inside' = [inside EXCEPT ![w] = task]
  /\ UNCHANGED <<pending, running, shut, pc, mine, held, tail, failed, guard, history>>

\* the task's own calls have returned and its token is dropped
EndTask(w) ==
  /\ inside[w] # NoTask
  /\ w \in Callers => pc[w] = "idle" /\ guard[w] = "none"
  /\ ran' = ran \cup {inside[w]}
  /\ inside' = [inside EXCEPT ![w] = NoTask]
  /\ UNCHANGED <<evars, submitted, result, refusedBy, discarded>>

SomeSubmit(t) == \E task \in Tasks : Submit(t, task)

Next ==
  \/ \E t \in Callers : SomeSubmit(t) \/ Step(t) \/ Answer(t)
  \/ \E t \in Guards : Guard(t)
  \/ \E t \in Stoppers : Shutdown(t)
  \/ \E w \in Workers : StartTask(w) \/ EndTask(w)

Spec == Init /\ [][Next]_vars

\* A caller inside execute keeps going, a guarded section ends, workers run
\* what they received and a shutdown that has begun goes on.  Nobody has to
\* submit anything, and nobody has to stop submitting.
Fairness ==
  /\ \A t \in Callers : WF_vars(Step(t) \/ Answer(t))
  /\ \A t \in Guards : WF_vars(Active(t) /\ DropGuard(t) /\ UNCHANGED <<inside, history>>)
  /\ \A w \in Workers : WF_vars(StartTask(w) \/ EndTask(w))
  /\ \A t \in Stoppers : WF_vars(pc[t] # "idle" /\ Shutdown(t))

FairSpec == Spec /\ Fairness

-----------------------------------------------------------------------------
(* Properties                                                              *)

TypeOK ==
  /\ pending \in Seq(Tasks)
  /\ running \in BOOLEAN
  /\ queue \in [Workers -> Seq(Tasks)]
  /\ shut \in BOOLEAN
  /\ pc \in [Callers \cup Stoppers -> ExecutePC \cup {"idle", "joining", "shutdown", "stopped"}]
  /\ mine \in [Callers -> Tasks \cup {NoTask}]
  /\ held \in [Callers -> Tasks \cup {NoTask}]
  /\ \A t \in Callers : held[t] # NoTask <=> pc[t] = "hand"
  /\ tail \in [Callers -> BOOLEAN]
  /\ failed \in [Callers -> BOOLEAN]
  /\ guard \in [Callers -> {"none", "claimed", "nested"}]
  /\ inside \in [Workers -> Tasks \cup {NoTask}]
  /\ result \in [Tasks -> {"none", "Ok", "Err"}]
  /\ submitted \subseteq Tasks
  /\ refusedBy \subseteq Tasks
  /\ discarded \subseteq Tasks
  /\ ran \subseteq Tasks

Held == {held[t] : t \in Callers} \ {NoTask}
Accepted == UNION {Range(queue[w]) : w \in Workers}
Started == {inside[w] : w \in Workers} \ {NoTask}

\* Every submitted task is in exactly one place: it is queued, held, accepted,
\* started or run, and only a refusal by the inner executor or a shutdown makes
\* a task disappear.
TasksConserved ==
  LET places == <<Range(pending), Held, Accepted, Started, ran, refusedBy, discarded>>
  IN /\ submitted = UNION Range(places)
     /\ \A i, j \in DOMAIN places : i # j => places[i] \cap places[j] = {}
     /\ IsInjective(pending)
     /\ \A t, u \in Callers : held[t] = held[u] /\ held[t] # NoTask => t = u
     /\ \A w \in Workers : IsInjective(queue[w])
     /\ \A v, w \in Workers : v # w => Range(queue[v]) \cap Range(queue[w]) = {}
     /\ \A v, w \in Workers : inside[v] = inside[w] /\ inside[v] # NoTask => v = w
     /\ discarded # {} => refusedBy # {} \/ shut

\* execute returns, unless other threads keep adding tasks for ever, which the
\* drain owner then keeps handing over, or a shutdown never gives the lock of
\* the inner executor back.
ExecuteReturns ==
  \A t \in Callers :
    \/ []<><<\E u \in Callers \ {t} : SomeSubmit(u)>>_vars
    \/ <>[]InnerLocked
    \/ pc[t] = "claim" ~> pc[t] = "idle"

\* execute always returns.
ExecuteAlwaysReturns == \A t \in Callers : pc[t] = "claim" ~> pc[t] = "idle"

\* A task that execute answered with Ok is run by the executor.
OkTaskRuns == \A task \in Tasks : result[task] = "Ok" ~> task \in ran
=============================================================================
