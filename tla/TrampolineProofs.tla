-------------------------- MODULE TrampolineProofs --------------------------
(***************************************************************************)
(* Proofs about Trampoline, for any number of callers, guards, stoppers,   *)
(* workers and tasks and any queue bound: type correctness, the exclusive  *)
(* drain-owner slot, and that every submitted task is in exactly one place.*)
(***************************************************************************)
EXTENDS Trampoline, TLAPS

-----------------------------------------------------------------------------
(* Sequences                                                               *)

\* The elements of a sequence are those at its indices.
LEMMA RangeMember ==
  ASSUME NEW S, NEW s \in Seq(S), NEW x
  PROVE  x \in Range(s) <=> \E i \in 1 .. Len(s) : s[i] = x
  BY DEF Range

\* The empty sequence has no elements, and only it.
LEMMA RangeEmpty ==
  ASSUME NEW S, NEW s \in Seq(S)
  PROVE  /\ Range(s) = {} <=> s = <<>>
         /\ Range(s) \subseteq S
<1>1. s # <<>> => s[1] \in Range(s)
  BY DEF Range
<1>2. s = <<>> => Range(s) = {}
  BY DEF Range
<1>3. Range(s) \subseteq S
  BY DEF Range
<1> QED
  BY <1>1, <1>2, <1>3

\* Appending adds one element; a new one makes no repetition.
LEMMA RangeAppend ==
  ASSUME NEW S, NEW s \in Seq(S), NEW x \in S
  PROVE  /\ Append(s, x) \in Seq(S)
         /\ Append(s, x) # <<>>
         /\ Range(Append(s, x)) = Range(s) \cup {x}
         /\ IsInjective(s) /\ x \notin Range(s) => IsInjective(Append(s, x))
<1> DEFINE a == Append(s, x)
<1>1. /\ a \in Seq(S) /\ Len(a) = Len(s) + 1 /\ Len(s) \in Nat
      /\ \A i \in 1 .. Len(s) : a[i] = s[i]
      /\ a[Len(s) + 1] = x
  OBVIOUS
<1>2. ASSUME NEW y PROVE y \in Range(a) <=> y \in Range(s) \cup {x}
  <2>0. y \in Range(a) <=> \E i \in 1 .. Len(a) : a[i] = y
    <3> HIDE DEF a
    <3> QED
      BY <1>1, RangeMember
  <2>1. y \in Range(a) <=> \E i \in 1 .. Len(s) + 1 : a[i] = y
    BY <1>1, <2>0
  <2>2. y \in Range(s) <=> \E i \in 1 .. Len(s) : s[i] = y
    BY RangeMember
  <2> QED
    BY <1>1, <2>1, <2>2
<1>3. ASSUME IsInjective(s), x \notin Range(s) PROVE IsInjective(a)
  <2>1. \A i \in 1 .. Len(s) : s[i] # x
    BY <1>3, RangeMember
  <2>2. \A i, j \in 1 .. Len(s) : s[i] = s[j] => i = j
    BY <1>3 DEF IsInjective
  <2>3. DOMAIN a = 1 .. Len(s) + 1
    BY <1>1
  <2> HIDE DEF a
  <2> QED
    BY <1>1, <2>1, <2>2, <2>3 DEF IsInjective
<1>4. a # <<>>
  BY <1>1
<1> QED
  BY <1>1, <1>2, <1>3, <1>4

\* Taking the head of a sequence without repetitions removes that element.
LEMMA RangeTail ==
  ASSUME NEW S, NEW s \in Seq(S), s # <<>>
  PROVE  /\ Tail(s) \in Seq(S)
         /\ Head(s) \in S /\ Head(s) \in Range(s)
         /\ Range(s) = Range(Tail(s)) \cup {Head(s)}
         /\ IsInjective(s) => /\ IsInjective(Tail(s))
                              /\ Head(s) \notin Range(Tail(s))
                              /\ Range(Tail(s)) = Range(s) \ {Head(s)}
<1> DEFINE r == Tail(s)
<1>1. /\ r \in Seq(S) /\ Len(s) \in Nat \ {0} /\ Len(r) = Len(s) - 1 /\ Len(r) \in Nat
      /\ \A i \in 1 .. Len(r) : r[i] = s[i + 1]
      /\ Head(s) = s[1] /\ s[1] \in S
  OBVIOUS
<1>2. DOMAIN r = 1 .. Len(r)
  BY <1>1
<1>3. \A y : y \in Range(r) <=> \E i \in 1 .. Len(r) : r[i] = y
  BY <1>1, RangeMember
<1>4. \A y : y \in Range(s) <=> \E i \in 1 .. Len(s) : s[i] = y
  BY RangeMember
<1> HIDE DEF r
<1>5. \A i \in 1 .. Len(s) : i = 1 \/ (i - 1 \in 1 .. Len(r) /\ s[i] = r[i - 1])
  BY <1>1
<1>6. Range(s) = Range(r) \cup {Head(s)}
  <2>1. Range(s) \subseteq Range(r) \cup {Head(s)}
    BY <1>1, <1>3, <1>4, <1>5
  <2>2. Range(r) \subseteq Range(s)
    <3> SUFFICES ASSUME NEW i \in 1 .. Len(r) PROVE r[i] \in Range(s)
      BY <1>3
    <3>1. i + 1 \in 1 .. Len(s) /\ s[i + 1] = r[i]
      BY <1>1
    <3> QED
      BY <3>1, <1>4
  <2>3. Head(s) \in Range(s)
    BY <1>1, <1>4
  <2> QED
    BY <2>1, <2>2, <2>3
<1>7. ASSUME IsInjective(s) PROVE IsInjective(r) /\ Head(s) \notin Range(r)
  <2>1. \A i, j \in 1 .. Len(s) : s[i] = s[j] => i = j
    BY <1>7 DEF IsInjective
  <2>2. \A i \in 1 .. Len(r) : i + 1 \in 1 .. Len(s)
    BY <1>1
  <2>3. IsInjective(r)
    <3> SUFFICES ASSUME NEW i \in 1 .. Len(r), NEW j \in 1 .. Len(r), r[i] = r[j]
                 PROVE  i = j
      BY <1>2 DEF IsInjective
    <3>1. i + 1 = j + 1
      BY <1>1, <2>1, <2>2
    <3> QED
      BY <3>1
  <2>4. Head(s) \notin Range(r)
    <3> SUFFICES ASSUME NEW i \in 1 .. Len(r), r[i] = s[1] PROVE FALSE
      BY <1>1, <1>3
    <3>1. i + 1 = 1
      BY <1>1, <2>1, <2>2
    <3> QED
      BY <3>1
  <2> QED
    BY <2>3, <2>4
<1> QED
  BY <1>1, <1>6, <1>7 DEF r

-----------------------------------------------------------------------------
(* Types                                                                   *)

\* Every step keeps the types.
LEMMA TypeStep ==
  ASSUME TypeOK, [Next]_vars
  PROVE  TypeOK'
<1> USE ThreadsAssumption, TasksAssumption
<1>1. ASSUME NEW t \in Callers, NEW task \in Tasks, Submit(t, task) PROVE TypeOK'
  <2>1. Append(pending, task) \in Seq(Tasks)
    BY RangeAppend DEF TypeOK
  <2> QED
    BY <1>1, <2>1 DEF Submit, Active, PushTask, Goto, TypeOK, ExecutePC
<1>2. ASSUME NEW t \in Callers, Step(t) PROVE TypeOK'
  <2>1. UNCHANGED <<inside, submitted, result, ran>>
    BY <1>2 DEF Step
  <2>2. discarded' \subseteq Tasks
    BY <1>2, RangeEmpty DEF Step, TypeOK
  <2>3. refusedBy' \subseteq Tasks
    BY <1>2 DEF Step, TypeOK
  <2>4. CASE ClaimSlot(t)
    BY <2>1, <2>2, <2>3, <2>4 DEF ClaimSlot, Goto, TypeOK, ExecutePC
  <2>5. CASE PopTask(t)
    <3>1. pending # <<>> => Head(pending) \in Tasks /\ Tail(pending) \in Seq(Tasks)
      BY RangeTail DEF TypeOK
    <3>2. UNCHANGED <<running, queue, shut, mine, tail, failed, guard>> /\ pc[t] = "pop"
      BY <2>5 DEF PopTask
    <3>3. CASE pending # <<>>
      <4>1. /\ held' = [held EXCEPT ![t] = Head(pending)] /\ pending' = Tail(pending)
            /\ pc' = [pc EXCEPT ![t] = "hand"]
        BY <2>5, <3>3 DEF PopTask, Goto
      <4> QED
        BY <2>1, <2>2, <2>3, <3>1, <3>2, <3>3, <4>1 DEF TypeOK, ExecutePC
    <3>4. CASE pending = <<>>
      <4>1. UNCHANGED <<held, pending>> /\ pc' = [pc EXCEPT ![t] = "release"]
        BY <2>5, <3>4 DEF PopTask, Goto
      <4> QED
        BY <2>1, <2>2, <2>3, <3>2, <4>1 DEF TypeOK, ExecutePC
    <3> QED
      BY <3>3, <3>4
  <2>6. CASE HandOver(t)
    <3>1. held[t] \in Tasks /\ Affinity[held[t]] \in Workers
      BY <2>6 DEF HandOver, TypeOK
    <3>2. Append(queue[Affinity[held[t]]], held[t]) \in Seq(Tasks)
      BY <3>1, RangeAppend DEF TypeOK
    <3>3. queue' \in [Workers -> Seq(Tasks)]
      BY <2>6, <3>2 DEF HandOver, TypeOK
    <3>4. failed' \in [Callers -> BOOLEAN]
      BY <2>6 DEF HandOver, TypeOK
    <3>5. \E label \in {"clear", "pop"} : pc' = [pc EXCEPT ![t] = label]
      BY <2>6 DEF HandOver, Goto
    <3>6. held' = [held EXCEPT ![t] = NoTask]
          /\ UNCHANGED <<pending, running, shut, mine, tail, guard>>
      BY <2>6 DEF HandOver
    <3> QED
      BY <2>1, <2>2, <2>3, <3>3, <3>4, <3>5, <3>6 DEF TypeOK, ExecutePC
  <2>7. CASE ClearPending(t)
    BY <2>1, <2>2, <2>3, <2>7 DEF ClearPending, Goto, TypeOK, ExecutePC
  <2>8. CASE ReleaseSlot(t)
    BY <2>1, <2>2, <2>3, <2>8 DEF ReleaseSlot, Goto, TypeOK, ExecutePC
  <2>9. CASE Recheck(t)
    BY <2>1, <2>2, <2>3, <2>9 DEF Recheck, Goto, TypeOK, ExecutePC
  <2>10. CASE ReclaimSlot(t)
    BY <2>1, <2>2, <2>3, <2>10 DEF ReclaimSlot, Goto, TypeOK, ExecutePC
  <2> QED
    BY <1>2, <2>4, <2>5, <2>6, <2>7, <2>8, <2>9, <2>10 DEF Step, Execute
<1>3. ASSUME NEW t \in Callers, Answer(t) PROVE TypeOK'
  BY <1>3 DEF Answer, Goto, TypeOK
<1>4. ASSUME NEW t \in Guards, Guard(t) PROVE TypeOK'
  BY <1>4 DEF Guard, Active, EnterGuard, DropGuard, history, TypeOK
<1>5. ASSUME NEW t \in Stoppers, Shutdown(t) PROVE TypeOK'
  <2>1. discarded' \subseteq Tasks
    BY <1>5, RangeEmpty DEF Shutdown, TypeOK
  <2>2. /\ UNCHANGED <<running, queue, mine, held, tail, failed, guard>>
        /\ UNCHANGED <<inside, submitted, result, refusedBy, ran>>
        /\ \E label \in {"joining", "shutdown", "stopped"} : pc' = [pc EXCEPT ![t] = label]
    BY <1>5 DEF Shutdown, ShutdownInner, JoinWorkers, ShutdownClear, Goto
  <2>3. pending' \in Seq(Tasks) /\ shut' \in BOOLEAN
    <3>1. pending' = pending \/ pending' = <<>>
      BY <1>5 DEF Shutdown, ShutdownInner, JoinWorkers, ShutdownClear
    <3>2. shut' \in BOOLEAN
      BY <1>5, Zenon DEF Shutdown, ShutdownInner, JoinWorkers, ShutdownClear, TypeOK
    <3>3. pending' \in Seq(Tasks)
      <4>1. pending \in Seq(Tasks) /\ <<>> \in Seq(Tasks)
        BY DEF TypeOK
      <4> QED
        BY <3>1, <4>1, Zenon
    <3> QED
      BY <3>2, <3>3
  <2>4. /\ pc' \in [Callers \cup Stoppers ->
                      ExecutePC \cup {"idle", "joining", "shutdown", "stopped"}]
        /\ \A u \in Callers : pc'[u] = pc[u]
    BY <2>2 DEF TypeOK
  <2> QED
    BY <2>1, <2>2, <2>3, <2>4 DEF TypeOK
<1>6. ASSUME NEW w \in Workers, StartTask(w) PROVE TypeOK'
  <2>1. PICK task \in Tasks : Receive(w, task) /\ inside' = [inside EXCEPT ![w] = task]
    BY <1>6 DEF StartTask
  <2>2. Tail(queue[w]) \in Seq(Tasks)
    BY <2>1, RangeTail DEF Receive, TypeOK
  <2> QED
    BY <1>6, <2>1, <2>2 DEF StartTask, history, Receive, TypeOK
<1>8. ASSUME NEW w \in Workers, EndTask(w) PROVE TypeOK'
  BY <1>8 DEF EndTask, evars, TypeOK
<1>7. CASE UNCHANGED vars
  BY <1>7 DEF vars, evars, history, TypeOK
<1> QED
  BY <1>1, <1>2, <1>3, <1>4, <1>5, <1>6, <1>7, <1>8 DEF Next, SomeSubmit

-----------------------------------------------------------------------------
(* The drain-owner slot                                                    *)

\* A thread does not own the slot twice: a caller that holds a claimed token
\* finds the slot taken.
SlotInv ==
  /\ SlotExclusive
  /\ \A t \in Callers : pc[t] \in OwnerPC => guard[t] # "claimed"

\* Every step keeps the slot exclusive and accounted for.
LEMMA SlotStep ==
  ASSUME TypeOK, SlotInv, [Next]_vars
  PROVE  SlotInv'
<1> USE ThreadsAssumption
<1>1. ASSUME NEW t \in Callers, NEW task \in Tasks, Submit(t, task) PROVE SlotInv'
  <2>1. Owners' = Owners
    BY <1>1 DEF Submit, Active, PushTask, Goto, Owners, OwnerPC, TypeOK
  <2> QED
    BY <1>1, <2>1 DEF Submit, Active, PushTask, Goto, OwnerPC, TypeOK, SlotInv, SlotExclusive
<1>2. ASSUME NEW t \in Callers, ClaimSlot(t) \/ ReclaimSlot(t) PROVE SlotInv'
  <2>1. /\ pc' = [pc EXCEPT ![t] = IF running THEN "answered" ELSE "pop"]
        /\ pc[t] \in {"claim", "reclaim"} /\ running' = TRUE /\ guard' = guard
    BY <1>2 DEF ClaimSlot, ReclaimSlot, Goto
  <2>2. CASE running
    <3>1. Owners' = Owners
      BY <2>1, <2>2 DEF Owners, OwnerPC, TypeOK
    <3> QED
      BY <2>1, <2>2, <3>1 DEF SlotInv, SlotExclusive, OwnerPC, TypeOK
  <2>3. CASE ~running
    <3>1. Owners = {}
      BY <2>3 DEF SlotInv, SlotExclusive
    <3>2. Owners' = {t}
      BY <2>1, <2>3, <3>1 DEF Owners, OwnerPC, TypeOK
    <3>3. \A u \in Callers : guard[u] # "claimed"
      BY <3>1 DEF Owners
    <3> QED
      BY <2>1, <3>2, <3>3 DEF SlotInv, SlotExclusive
  <2> QED
    BY <2>2, <2>3
<1>3. ASSUME NEW t \in Callers, PopTask(t) \/ HandOver(t) \/ ClearPending(t) PROVE SlotInv'
  <2>1. /\ pc[t] \in OwnerPC /\ UNCHANGED <<running, guard>>
        /\ \E label \in OwnerPC : pc' = [pc EXCEPT ![t] = label]
    BY <1>3 DEF PopTask, HandOver, ClearPending, Goto, OwnerPC
  <2>2. Owners' = Owners
    BY <2>1 DEF Owners, TypeOK
  <2> QED
    BY <2>1, <2>2 DEF SlotInv, SlotExclusive, TypeOK
<1>4. ASSUME NEW t \in Callers, ReleaseSlot(t) PROVE SlotInv'
  <2>1. /\ pc[t] \in OwnerPC /\ running' = FALSE /\ guard' = guard
        /\ \E label \in {"answered", "recheck"} : pc' = [pc EXCEPT ![t] = label]
    BY <1>4 DEF ReleaseSlot, Goto, OwnerPC
  <2>2. Owners = {t} /\ guard[t] # "claimed"
    BY <2>1 DEF SlotInv, SlotExclusive, Owners
  <2>3. Owners' = {}
    BY <2>1, <2>2 DEF Owners, OwnerPC, TypeOK
  <2> QED
    BY <2>1, <2>3 DEF SlotInv, SlotExclusive, Owners
<1>5. ASSUME NEW t \in Callers, Recheck(t) \/ Answer(t) PROVE SlotInv'
  <2>1. /\ pc[t] \notin OwnerPC /\ UNCHANGED <<running, guard>>
        /\ \E label \in {"answered", "reclaim", "idle"} : pc' = [pc EXCEPT ![t] = label]
    BY <1>5 DEF Recheck, Answer, Goto, OwnerPC
  <2>2. Owners' = Owners
    BY <2>1 DEF Owners, OwnerPC, TypeOK
  <2> QED
    BY <2>1, <2>2 DEF SlotInv, SlotExclusive, OwnerPC, TypeOK
<1>6. ASSUME NEW t \in Guards, Guard(t) PROVE SlotInv'
  <2>0. t \in Callers /\ pc[t] \notin OwnerPC /\ pc' = pc
    BY <1>6 DEF Guard, Active, EnterGuard, DropGuard, OwnerPC
  <2>1. CASE EnterGuard(t) /\ running
    <3>1. Owners' = Owners
      BY <2>0, <2>1 DEF EnterGuard, Owners, TypeOK
    <3> QED
      BY <2>0, <2>1, <3>1 DEF EnterGuard, SlotInv, SlotExclusive, TypeOK
  <2>2. CASE EnterGuard(t) /\ ~running
    <3>1. Owners = {}
      BY <2>2 DEF SlotInv, SlotExclusive
    <3>2. Owners' = {t}
      BY <2>0, <2>2, <3>1 DEF EnterGuard, Owners, TypeOK
    <3> QED
      BY <2>0, <2>2, <3>2 DEF EnterGuard, SlotInv, SlotExclusive, TypeOK
  <2>3. CASE DropGuard(t) /\ guard[t] = "claimed"
    <3>1. Owners = {t}
      BY <2>0, <2>3 DEF SlotInv, SlotExclusive, Owners
    <3>2. Owners' = {}
      BY <2>0, <2>3, <3>1 DEF DropGuard, Owners, TypeOK
    <3> QED
      BY <2>0, <2>3, <3>2 DEF DropGuard, SlotInv, SlotExclusive, Owners
  <2>4. CASE DropGuard(t) /\ guard[t] # "claimed"
    <3>1. Owners' = Owners /\ running' = running
      BY <2>0, <2>4 DEF DropGuard, Owners, TypeOK
    <3> QED
      BY <2>0, <2>4, <3>1 DEF DropGuard, SlotInv, SlotExclusive, TypeOK
  <2> QED
    BY <1>6, <2>1, <2>2, <2>3, <2>4 DEF Guard
<1>7. ASSUME NEW t \in Stoppers, Shutdown(t) PROVE SlotInv'
  <2>1. UNCHANGED <<running, guard>> /\ \A u \in Callers : pc'[u] = pc[u]
    BY <1>7 DEF Shutdown, ShutdownInner, JoinWorkers, ShutdownClear, Goto, TypeOK
  <2> QED
    BY <2>1 DEF SlotInv, SlotExclusive, Owners
<1>8. CASE (\E w \in Workers : StartTask(w) \/ EndTask(w)) \/ UNCHANGED vars
  <2>1. UNCHANGED <<running, guard, pc>>
    BY <1>8 DEF StartTask, EndTask, vars, evars
  <2> QED
    BY <2>1 DEF SlotInv, SlotExclusive, Owners
<1> QED
  BY <1>1, <1>2, <1>3, <1>4, <1>5, <1>6, <1>7, <1>8 DEF Next, SomeSubmit, Step, Execute
-----------------------------------------------------------------------------
(* Every task is in one place                                              *)

\* Where a single task is: nowhere before it is submitted, then in one place.
Placed(k) ==
  /\ k \in submitted <=> k \in Range(pending) \cup Held \cup Accepted \cup Started \cup ran
                              \cup refusedBy \cup discarded
  /\ k \in Range(pending) =>
       k \notin Held \cup Accepted \cup Started \cup ran \cup refusedBy \cup discarded
  /\ k \in Held => k \notin Accepted \cup Started \cup ran \cup refusedBy \cup discarded
  /\ k \in Accepted => k \notin Started \cup ran \cup refusedBy \cup discarded
  /\ k \in Started => k \notin ran \cup refusedBy \cup discarded
  /\ k \in ran => k \notin refusedBy \cup discarded
  /\ k \in refusedBy => k \notin discarded

\* No two workers are inside the same task.
StartedInv == \A v, w \in Workers : inside[v] = inside[w] /\ inside[v] # NoTask => v = w

\* The worker queues hold the tasks of their own keys, each once.
QueueInv ==
  \A w \in Workers : /\ IsInjective(queue[w])
                     /\ \A k \in Range(queue[w]) : Affinity[k] = w

\* Tasks are discarded only behind a refused one or by a shutdown.
LossInv ==
  /\ (\E t \in Callers : pc[t] = "clear") => refusedBy # {}
  /\ (\E t \in Stoppers : pc[t] \in {"joining", "shutdown"}) => shut
  /\ discarded # {} => refusedBy # {} \/ shut

OnceInv ==
  /\ \A k \in Tasks : Placed(k)
  /\ IsInjective(pending)
  /\ QueueInv /\ StartedInv
  /\ LossInv

\* Only the owner of the slot holds a task.
LEMMA HeldByOwner ==
  ASSUME TypeOK, SlotInv, NEW t \in Callers, pc[t] \in OwnerPC
  PROVE  /\ Held = {held[t]} \ {NoTask}
         /\ \A u \in Callers \ {t} : held[u] = NoTask
<1>1. \A u \in Callers \ {t} : held[u] = NoTask
  BY DEF SlotInv, SlotExclusive, Owners, OwnerPC, TypeOK
<1> QED
  BY <1>1 DEF Held

\* What a task that enters a worker queue does to the accepted tasks.
LEMMA AcceptEffects ==
  ASSUME TypeOK, QueueInv, NEW k \in Tasks, k \notin Accepted,
         queue' = [queue EXCEPT ![Affinity[k]] = Append(@, k)]
  PROVE  Accepted' = Accepted \cup {k} /\ QueueInv'
<1> USE TasksAssumption
<1> DEFINE v == Affinity[k]
<1>1. v \in Workers /\ queue \in [Workers -> Seq(Tasks)]
  BY DEF TypeOK
<1>2. k \notin Range(queue[v])
  BY <1>1 DEF Accepted
<1>3. queue'[v] = Append(queue[v], k) /\ \A w \in Workers \ {v} : queue'[w] = queue[w]
  BY <1>1
<1>4. Range(queue'[v]) = Range(queue[v]) \cup {k} /\ IsInjective(queue'[v])
  BY <1>1, <1>2, <1>3, RangeAppend DEF QueueInv
<1>5. QueueInv'
  <2> SUFFICES ASSUME NEW w \in Workers
               PROVE  IsInjective(queue'[w]) /\ \A j \in Range(queue'[w]) : Affinity[j] = w
    BY DEF QueueInv
  <2> HIDE DEF v
  <2>1. CASE w = v
    BY <1>4, <2>1 DEF QueueInv, v
  <2>2. CASE w # v
    BY <1>3, <2>2 DEF QueueInv
  <2> QED
    BY <2>1, <2>2
<1>6. Accepted' = Accepted \cup {k}
  <2> HIDE DEF v
  <2> QED
    BY <1>1, <1>3, <1>4 DEF Accepted
<1> QED
  BY <1>5, <1>6

\* What a task that leaves a worker queue does to the accepted tasks.
LEMMA ReceiveEffects ==
  ASSUME TypeOK, QueueInv, NEW w \in Workers, NEW k \in Tasks, Receive(w, k)
  PROVE  k \in Accepted /\ Accepted' = Accepted \ {k} /\ QueueInv'
<1>1. /\ queue \in [Workers -> Seq(Tasks)] /\ queue[w] # <<>> /\ k = Head(queue[w])
      /\ queue' = [queue EXCEPT ![w] = Tail(queue[w])]
  BY DEF Receive, TypeOK
<1>2. queue'[w] = Tail(queue[w]) /\ \A v \in Workers \ {w} : queue'[v] = queue[v]
  BY <1>1
<1>3. /\ k \in Range(queue[w]) /\ IsInjective(queue'[w])
      /\ Range(queue'[w]) = Range(queue[w]) \ {k}
  <2>1. queue[w] \in Seq(Tasks) /\ IsInjective(queue[w])
    BY <1>1 DEF QueueInv
  <2> QED
    BY <1>1, <1>2, <2>1, RangeTail
<1>4. \A v \in Workers \ {w} : k \notin Range(queue[v])
  BY <1>3 DEF QueueInv
<1>5. QueueInv'
  <2> SUFFICES ASSUME NEW v \in Workers
               PROVE  IsInjective(queue'[v]) /\ \A j \in Range(queue'[v]) : Affinity[j] = v
    BY DEF QueueInv
  <2>1. CASE v = w
    BY <1>3, <2>1 DEF QueueInv
  <2>2. CASE v # w
    BY <1>2, <2>2 DEF QueueInv
  <2> QED
    BY <2>1, <2>2
<1>6. Accepted' = Accepted \ {k} /\ k \in Accepted
  BY <1>2, <1>3, <1>4 DEF Accepted
<1> QED
  BY <1>5, <1>6

\* A step that moves no task keeps every task in its place.
LEMMA OnceUnmoved ==
  ASSUME OnceInv, LossInv',
         UNCHANGED <<pending, queue, held, inside, submitted, refusedBy, discarded, ran>>
  PROVE  OnceInv'
<1>1. Held' = Held /\ Accepted' = Accepted /\ Started' = Started
  BY DEF Held, Accepted, Started
<1>2. \A k \in Tasks : Placed(k)'
  BY <1>1 DEF OnceInv, Placed
<1>3. QueueInv' /\ StartedInv'
  BY DEF OnceInv, QueueInv, StartedInv
<1> QED
  BY <1>2, <1>3 DEF OnceInv

\* The pending tasks are discarded together.
LEMMA OnceDiscard ==
  ASSUME TypeOK, OnceInv, LossInv', pending' = <<>>, discarded' = discarded \cup Range(pending),
         UNCHANGED <<queue, held, inside, submitted, refusedBy, ran>>
  PROVE  OnceInv'
<1>1. Held' = Held /\ Accepted' = Accepted /\ Started' = Started
  BY DEF Held, Accepted, Started
<1>2. Range(pending') = {} /\ IsInjective(pending')
  BY DEF Range, IsInjective
<1>3. \A k \in Tasks : Placed(k)'
  BY <1>1, <1>2 DEF OnceInv, Placed
<1>4. QueueInv' /\ StartedInv'
  BY DEF OnceInv, QueueInv, StartedInv
<1> QED
  BY <1>2, <1>3, <1>4 DEF OnceInv

\* Every step moves a task from one place to the next.
LEMMA OnceStep ==
  ASSUME TypeOK, SlotInv, OnceInv, [Next]_vars
  PROVE  OnceInv'
<1> USE ThreadsAssumption, TasksAssumption
<1>0. /\ \A k \in Tasks : Placed(k)
      /\ QueueInv /\ StartedInv /\ LossInv
      /\ pc \in [Callers \cup Stoppers ->
                   ExecutePC \cup {"idle", "joining", "shutdown", "stopped"}]
      /\ pending \in Seq(Tasks) /\ held \in [Callers -> Tasks \cup {NoTask}]
  BY DEF OnceInv, TypeOK
<1>1. ASSUME NEW t \in Callers, NEW k \in Tasks, Submit(t, k) PROVE OnceInv'
  <2>1. /\ k \notin submitted \/ k \in ran
        /\ pending' = Append(pending, k) /\ submitted' = submitted \cup {k} /\ ran' = ran \ {k}
        /\ UNCHANGED <<queue, shut, held, inside, refusedBy, discarded>>
        /\ pc' = [pc EXCEPT ![t] = "claim"]
    BY <1>1 DEF Submit, PushTask, Goto
  <2>2. k \notin Range(pending) \cup Held \cup Accepted \cup Started \cup refusedBy \cup discarded
    BY <1>0, <2>1 DEF Placed
  <2>3. Range(pending') = Range(pending) \cup {k} /\ IsInjective(pending')
    BY <2>1, <2>2, RangeAppend DEF OnceInv, TypeOK
  <2>5. Held' = Held /\ Accepted' = Accepted /\ Started' = Started
    BY <2>1 DEF Held, Accepted, Started
  <2>6. \A j \in Tasks : Placed(j)'
    BY <1>0, <2>1, <2>2, <2>3, <2>5 DEF Placed
  <2>7. QueueInv' /\ StartedInv' /\ LossInv'
    BY <1>0, <2>1 DEF QueueInv, StartedInv, LossInv
  <2> QED
    BY <2>1, <2>3, <2>6, <2>7 DEF OnceInv
<1>2. ASSUME NEW t \in Callers, Step(t), PopTask(t) PROVE OnceInv'
  <2>1. /\ pc[t] = "pop" /\ UNCHANGED <<queue, shut, inside, submitted, ran, refusedBy, discarded>>
    BY <1>2 DEF Step, PopTask
  <2>2. CASE pending = <<>>
    <3>1. UNCHANGED <<held, pending>> /\ pc' = [pc EXCEPT ![t] = "release"]
      BY <1>2, <2>2 DEF PopTask, Goto
    <3>2. LossInv'
      BY <1>0, <2>1, <3>1 DEF LossInv
    <3> QED
      BY <2>1, <3>1, <3>2, OnceUnmoved
  <2>3. CASE pending # <<>>
    <3> DEFINE k == Head(pending)
    <3>1. /\ held' = [held EXCEPT ![t] = k] /\ pending' = Tail(pending)
          /\ pc' = [pc EXCEPT ![t] = "hand"]
      BY <1>2, <2>3 DEF PopTask, Goto
    <3>2. /\ k \in Tasks /\ k \in Range(pending) /\ IsInjective(pending')
          /\ Range(pending') = Range(pending) \ {k}
      BY <1>0, <2>3, <3>1, RangeTail DEF OnceInv
    <3> HIDE DEF k
    <3>3. Held = {} /\ held[t] = NoTask /\ \A u \in Callers \ {t} : held[u] = NoTask
      <4>1. held[t] = NoTask
        BY <2>1 DEF TypeOK
      <4> QED
        BY <2>1, <4>1, HeldByOwner DEF OwnerPC
    <3>4. Held' = {k} /\ Accepted' = Accepted /\ Started' = Started
      BY <1>0, <2>1, <3>1, <3>2, <3>3 DEF Held, Accepted, Started
    <3>5. \A j \in Tasks : Placed(j)'
      BY <1>0, <2>1, <3>2, <3>3, <3>4 DEF Placed
    <3>6. QueueInv' /\ StartedInv' /\ LossInv'
      BY <1>0, <2>1, <3>1 DEF QueueInv, StartedInv, LossInv
    <3> QED
      BY <2>1, <3>2, <3>5, <3>6 DEF OnceInv
  <2> QED
    BY <2>2, <2>3
<1>3. ASSUME NEW t \in Callers, Step(t), HandOver(t) PROVE OnceInv'
  <2> DEFINE k == held[t]
  <2>1. /\ pc[t] = "hand" /\ k \in Tasks
        /\ UNCHANGED <<pending, shut, inside, submitted, ran, discarded>>
        /\ held' = [held EXCEPT ![t] = NoTask]
    BY <1>3 DEF Step, HandOver, TypeOK
  <2>2. Held = {k} /\ \A u \in Callers \ {t} : held[u] = NoTask
    BY <2>1, HeldByOwner DEF OwnerPC
  <2>3. Held' = {} /\ Started' = Started /\ StartedInv'
    BY <1>0, <2>1, <2>2 DEF Held, Started, StartedInv
  <2>4. CASE Refuses(held[t])
    <3>1. /\ queue' = queue /\ pc' = [pc EXCEPT ![t] = "clear"]
          /\ refusedBy' = refusedBy \cup {k}
      BY <1>3, <2>1, <2>4 DEF Step, HandOver, Goto
    <3> HIDE DEF k
    <3>2. Accepted' = Accepted
      BY <3>1 DEF Accepted
    <3>3. \A j \in Tasks : Placed(j)'
      BY <1>0, <2>1, <2>2, <2>3, <3>1, <3>2 DEF Placed
    <3>4. QueueInv' /\ LossInv'
      BY <1>0, <2>1, <3>1 DEF QueueInv, LossInv
    <3> QED
      BY <2>1, <2>3, <3>3, <3>4 DEF OnceInv
  <2>5. CASE ~Refuses(held[t])
    <3>1. /\ queue' = [queue EXCEPT ![Affinity[k]] = Append(@, k)]
          /\ pc' = [pc EXCEPT ![t] = "pop"]
          /\ refusedBy' = refusedBy
      BY <1>3, <2>1, <2>5 DEF Step, HandOver, Goto
    <3> HIDE DEF k
    <3>2. k \notin Accepted
      BY <1>0, <2>1, <2>2 DEF Placed
    <3>3. Accepted' = Accepted \cup {k} /\ QueueInv'
      BY <1>0, <2>1, <3>1, <3>2, AcceptEffects
    <3>4. \A j \in Tasks : Placed(j)'
      BY <1>0, <2>1, <2>2, <2>3, <3>1, <3>3 DEF Placed
    <3>5. LossInv'
      BY <1>0, <2>1, <3>1 DEF LossInv
    <3> QED
      BY <2>1, <2>3, <3>3, <3>4, <3>5 DEF OnceInv
  <2> QED
    BY <2>4, <2>5
<1>4. ASSUME NEW t \in Callers, Step(t), ClearPending(t) PROVE OnceInv'
  <2>1. /\ pc[t] = "clear" /\ pending' = <<>> /\ discarded' = discarded \cup Range(pending)
        /\ UNCHANGED <<queue, shut, held, inside, submitted, refusedBy, ran>>
        /\ pc' = [pc EXCEPT ![t] = "release"]
    BY <1>4 DEF Step, ClearPending, Goto
  <2>2. LossInv'
    BY <1>0, <2>1 DEF LossInv
  <2> QED
    BY <2>1, <2>2, OnceDiscard
<1>5. ASSUME NEW t \in Callers, Step(t),
             ClaimSlot(t) \/ ReleaseSlot(t) \/ Recheck(t) \/ ReclaimSlot(t)
      PROVE  OnceInv'
  <2>1. pc[t] \in {"claim", "release", "recheck", "reclaim"}
    BY <1>5 DEF ClaimSlot, ReleaseSlot, Recheck, ReclaimSlot
  <2>2. /\ UNCHANGED <<pending, queue, shut, held, inside, submitted, refusedBy, discarded, ran>>
        /\ \E label \in {"answered", "pop", "recheck", "reclaim"} :
             pc' = [pc EXCEPT ![t] = label]
    BY <1>5, <2>1 DEF Step, ClaimSlot, ReleaseSlot, Recheck, ReclaimSlot, Goto
  <2>3. LossInv'
    BY <1>0, <2>1, <2>2 DEF LossInv
  <2> QED
    BY <2>2, <2>3, OnceUnmoved
<1>6. ASSUME NEW t \in Callers, Answer(t) PROVE OnceInv'
  <2>1. /\ UNCHANGED <<pending, queue, shut, held, inside, submitted, refusedBy, discarded, ran>>
        /\ pc' = [pc EXCEPT ![t] = "idle"]
    BY <1>6 DEF Answer, Goto
  <2>2. LossInv'
    BY <1>0, <2>1 DEF LossInv
  <2> QED
    BY <2>1, <2>2, OnceUnmoved
<1>7. ASSUME NEW t \in Stoppers, Shutdown(t) PROVE OnceInv'
  <2>1. UNCHANGED <<queue, held, inside, submitted, refusedBy, ran>>
    BY <1>7 DEF Shutdown, ShutdownInner, JoinWorkers, ShutdownClear
  <2>2. CASE ShutdownInner(t)
    <3>1. /\ UNCHANGED <<pending, discarded>> /\ shut' = TRUE
          /\ \E label \in {"shutdown", "joining"} : pc' = [pc EXCEPT ![t] = label]
      BY <1>7, <2>2 DEF Shutdown, ShutdownInner, Goto
    <3>2. LossInv'
      BY <1>0, <2>1, <3>1 DEF LossInv
    <3> QED
      BY <2>1, <3>1, <3>2, OnceUnmoved
  <2>3. CASE JoinWorkers(t, Busy)
    <3>1. /\ UNCHANGED <<pending, discarded, shut>> /\ pc[t] = "joining"
          /\ pc' = [pc EXCEPT ![t] = "shutdown"]
      BY <1>7, <2>3 DEF Shutdown, JoinWorkers, Goto
    <3>2. LossInv'
      BY <1>0, <2>1, <3>1 DEF LossInv
    <3> QED
      BY <2>1, <3>1, <3>2, OnceUnmoved
  <2>4. CASE ShutdownClear(t)
    <3>1. /\ pending' = <<>> /\ discarded' = discarded \cup Range(pending)
          /\ pc[t] = "shutdown" /\ shut' = shut /\ pc' = [pc EXCEPT ![t] = "stopped"]
      BY <1>7, <2>4 DEF Shutdown, ShutdownClear, Goto
    <3>2. LossInv'
      BY <1>0, <2>1, <3>1 DEF LossInv
    <3> QED
      BY <2>1, <3>1, <3>2, OnceDiscard
  <2> QED
    BY <1>7, <2>2, <2>3, <2>4 DEF Shutdown
<1>8. ASSUME NEW w \in Workers, StartTask(w) PROVE OnceInv'
  <2>1. PICK k \in Tasks : Receive(w, k) /\ inside' = [inside EXCEPT ![w] = k]
    BY <1>8 DEF StartTask
  <2>2. /\ UNCHANGED <<pending, shut, pc, held, submitted, refusedBy, discarded, ran>>
        /\ inside[w] = NoTask /\ inside \in [Workers -> Tasks \cup {NoTask}]
    BY <1>8 DEF StartTask, history, TypeOK
  <2>3. k \in Accepted /\ Accepted' = Accepted \ {k} /\ QueueInv'
    BY <1>0, <2>1, ReceiveEffects
  <2>4. k \notin Started /\ k # NoTask
    BY <1>0, <2>3 DEF Placed
  <2>5. inside'[w] = k /\ \A v \in Workers : v # w => inside'[v] = inside[v]
    BY <2>1, <2>2
  <2>6. Held' = Held /\ Started' = Started \cup {k}
    BY <2>2, <2>4, <2>5 DEF Held, Started
  <2>7. StartedInv'
    BY <1>0, <2>4, <2>5 DEF StartedInv, Started
  <2>8. \A j \in Tasks : Placed(j)'
    BY <1>0, <2>2, <2>3, <2>4, <2>6 DEF Placed
  <2>9. LossInv'
    BY <1>0, <2>2 DEF LossInv
  <2> QED
    BY <2>2, <2>3, <2>7, <2>8, <2>9 DEF OnceInv
<1>10. ASSUME NEW w \in Workers, EndTask(w) PROVE OnceInv'
  <2>1. PICK k : k = inside[w]
    OBVIOUS
  <2>2. /\ UNCHANGED <<pending, queue, shut, pc, held, submitted, refusedBy, discarded>>
        /\ k # NoTask /\ inside' = [inside EXCEPT ![w] = NoTask] /\ ran' = ran \cup {k}
        /\ inside \in [Workers -> Tasks \cup {NoTask}]
    BY <1>10, <2>1 DEF EndTask, evars, TypeOK
  <2>3. inside'[w] = NoTask /\ \A v \in Workers : v # w => inside'[v] = inside[v] /\ inside[v] # k
    BY <1>0, <2>1, <2>2 DEF StartedInv
  <2>4. k \in Started /\ Started' = Started \ {k}
    BY <2>1, <2>2, <2>3 DEF Started
  <2>5. Held' = Held /\ Accepted' = Accepted
    BY <2>2 DEF Held, Accepted
  <2>6. \A j \in Tasks : Placed(j)'
    BY <1>0, <2>2, <2>4, <2>5 DEF Placed
  <2>7. StartedInv'
    BY <1>0, <2>3 DEF StartedInv
  <2>8. QueueInv' /\ LossInv'
    BY <1>0, <2>2 DEF QueueInv, LossInv
  <2> QED
    BY <2>2, <2>6, <2>7, <2>8 DEF OnceInv
<1>9. CASE (\E t \in Guards : Guard(t)) \/ UNCHANGED vars
  <2>1. UNCHANGED <<pending, queue, shut, pc, held, inside, submitted, refusedBy, discarded, ran>>
    BY <1>9 DEF Guard, EnterGuard, DropGuard, vars, evars, history
  <2>2. LossInv'
    BY <1>0, <2>1 DEF LossInv
  <2> QED
    BY <2>1, <2>2, OnceUnmoved
<1> QED
  BY <1>1, <1>2, <1>3, <1>4, <1>5, <1>6, <1>7, <1>8, <1>9, <1>10
     DEF Next, SomeSubmit, Step, Execute

-----------------------------------------------------------------------------
(* The invariants, in every reachable state                                *)

IInv == TypeOK /\ SlotInv /\ OnceInv

\* An executor that nobody called satisfies the invariants.
LEMMA InitInv == Init => IInv
<1> SUFFICES ASSUME Init PROVE IInv
  OBVIOUS
<1> USE ThreadsAssumption, TasksAssumption
<1>1. TypeOK
  <2>1. pending \in Seq(Tasks) /\ queue \in [Workers -> Seq(Tasks)]
    BY DEF Init, ExecutorInit
  <2> QED
    BY <2>1 DEF Init, ExecutorInit, TypeOK
<1>2. SlotInv
  BY DEF Init, ExecutorInit, SlotInv, SlotExclusive, Owners, OwnerPC
<1>3. /\ pending = <<>> /\ submitted = {} /\ ran = {}
      /\ \A w \in Workers : queue[w] = <<>> /\ inside[w] = NoTask
      /\ \A t \in Callers : held[t] = NoTask
      /\ refusedBy = {} /\ discarded = {}
      /\ \A t \in Callers \cup Stoppers : pc[t] = "idle"
  BY DEF Init, ExecutorInit
<1>4. Range(<<>>) = {} /\ IsInjective(<<>>)
  BY DEF Range, IsInjective
<1>5. Held = {} /\ Accepted = {} /\ Started = {} /\ QueueInv /\ StartedInv
  BY <1>3, <1>4 DEF Held, Accepted, Started, QueueInv, StartedInv
<1>6. LossInv
  BY <1>3 DEF LossInv
<1>7. \A k \in Tasks : Placed(k)
  BY <1>3, <1>4, <1>5 DEF Placed
<1> QED
  BY <1>1, <1>2, <1>3, <1>4, <1>5, <1>6, <1>7 DEF IInv, OnceInv

\* The invariants hold in every reachable state, whatever the callers, the
\* token holders, the workers and a shutdown do.
THEOREM Invariance == Spec => []IInv
<1>1. IInv /\ [Next]_vars => IInv'
  BY TypeStep, SlotStep, OnceStep DEF IInv
<1> QED
  BY <1>1, InitInv, PTL DEF Spec

\* The executor's variables keep their types, and a caller holds a task only
\* between the pop and the submission of that task.
THEOREM TypeCorrect == Spec => []TypeOK
<1>1. IInv => TypeOK
  BY DEF IInv
<1> QED
  BY <1>1, Invariance, PTL

\* `running` is set exactly while one thread drains or holds a claimed token.
THEOREM SlotIsExclusive == Spec => []SlotExclusive
<1>1. IInv => SlotExclusive
  BY DEF IInv, SlotInv
<1> QED
  BY <1>1, Invariance, PTL

\* No task is lost, duplicated or run twice by the trampoline; only a refusal or
\* a shutdown discards one.
THEOREM TasksOnce == Spec => []TasksConserved
<1>1. IInv => TasksConserved
  <2> SUFFICES ASSUME IInv PROVE TasksConserved
    OBVIOUS
  <2> DEFINE places == <<Range(pending), Held, Accepted, Started, ran, refusedBy, discarded>>
  <2>1. \A k \in Tasks : Placed(k)
    BY DEF IInv, OnceInv
  <2>2. Range(pending) \subseteq Tasks
    BY RangeEmpty DEF IInv, TypeOK
  <2>3. Held \subseteq Tasks /\ Started \subseteq Tasks
    BY DEF IInv, TypeOK, Held, Started
  <2>4. Accepted \subseteq Tasks
    BY RangeEmpty DEF IInv, TypeOK, Accepted
  <2>5. submitted \subseteq Tasks /\ ran \subseteq Tasks /\ refusedBy \subseteq Tasks /\ discarded \subseteq Tasks
    BY DEF IInv, TypeOK
  <2>0. /\ DOMAIN places = 1 .. 7
        /\ places[1] = Range(pending) /\ places[2] = Held /\ places[3] = Accepted
        /\ places[4] = Started /\ places[5] = ran /\ places[6] = refusedBy
        /\ places[7] = discarded
    OBVIOUS
  <2>6. UNION Range(places) = Range(pending) \cup Held \cup Accepted \cup Started \cup ran
                              \cup refusedBy \cup discarded
    <3> HIDE DEF places
    <3>3. Range(places) = {Range(pending), Held, Accepted, Started, ran, refusedBy, discarded}
      <4>1. Range(places) = {places[i] : i \in 1 .. 7}
        BY <2>0 DEF Range
      <4>2. 1 .. 7 = {1, 2, 3, 4, 5, 6, 7}
        OBVIOUS
      <4> QED
        BY <2>0, <4>1, <4>2
    <3> QED
      BY <3>3
  <2>7. submitted = UNION Range(places)
    <3> HIDE DEF places
    <3> QED
      BY <2>1, <2>2, <2>3, <2>4, <2>5, <2>6 DEF Placed
  <2>8. /\ Range(pending) \cap (Held \cup Accepted \cup Started \cup ran \cup refusedBy \cup discarded) = {}
        /\ Held \cap (Accepted \cup Started \cup ran \cup refusedBy \cup discarded) = {}
        /\ Accepted \cap (Started \cup ran \cup refusedBy \cup discarded) = {}
        /\ Started \cap (ran \cup refusedBy \cup discarded) = {}
        /\ ran \cap (refusedBy \cup discarded) = {}
        /\ refusedBy \cap discarded = {}
    BY <2>1, <2>2, <2>3, <2>4, <2>5 DEF Placed
  <2>9. \A i, j \in DOMAIN places : i # j => places[i] \cap places[j] = {}
    <3> HIDE DEF places
    <3>3. \A i, j \in 1 .. 7 : i < j => places[i] \cap places[j] = {}
      BY <2>0, <2>8
    <3>4. \A i, j \in 1 .. 7 : i # j => i < j \/ j < i
      OBVIOUS
    <3> QED
      BY <2>0, <3>3, <3>4
  <2>10. \A t, u \in Callers : held[t] = held[u] /\ held[t] # NoTask => t = u
    <3> SUFFICES ASSUME NEW t \in Callers, NEW u \in Callers, held[t] = held[u],
                        held[t] # NoTask
                 PROVE  t = u
      OBVIOUS
    <3>1. pc[t] = "hand" /\ pc[u] = "hand"
      BY DEF IInv, TypeOK
    <3> QED
      BY <3>1 DEF IInv, SlotInv, SlotExclusive, Owners, OwnerPC
  <2>11. /\ \A w \in Workers : IsInjective(queue[w])
         /\ \A v, w \in Workers : v # w => Range(queue[v]) \cap Range(queue[w]) = {}
    BY DEF IInv, OnceInv, QueueInv
  <2>12. /\ IsInjective(pending)
         /\ \A v, w \in Workers : inside[v] = inside[w] /\ inside[v] # NoTask => v = w
         /\ discarded # {} => refusedBy # {} \/ shut
    BY DEF IInv, OnceInv, StartedInv, LossInv
  <2> QED
    BY <2>7, <2>9, <2>10, <2>11, <2>12, Zenon DEF TasksConserved
<1> QED
  BY <1>1, Invariance, PTL
=============================================================================
