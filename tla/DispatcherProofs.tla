-------------------------- MODULE DispatcherProofs --------------------------
(***************************************************************************)
(* Proofs about Dispatcher, for any number of senders, workers, closers,   *)
(* stoppers and mailboxes: type correctness, at most one closure of each   *)
(* mailbox in the executor, no finalizer beside a running handler, and one *)
(* finalizer whatever submissions were refused.                            *)
(***************************************************************************)
EXTENDS Dispatcher, FiniteSetTheorems, TLAPS

-----------------------------------------------------------------------------
(* Sequences                                                               *)

\* The elements of a sequence are those at its indices.
LEMMA RangeMember ==
  ASSUME NEW S, NEW s \in Seq(S), NEW x
  PROVE  x \in Range(s) <=> \E i \in 1 .. Len(s) : s[i] = x
  BY DEF Range

\* Appending adds one element.
LEMMA RangeAppend ==
  ASSUME NEW S, NEW s \in Seq(S), NEW x \in S
  PROVE  /\ Append(s, x) \in Seq(S)
         /\ Append(s, x) # <<>>
         /\ Range(Append(s, x)) = Range(s) \cup {x}
<1> DEFINE a == Append(s, x)
<1>1. /\ a \in Seq(S) /\ Len(a) = Len(s) + 1 /\ Len(s) \in Nat
      /\ \A i \in 1 .. Len(s) : a[i] = s[i]
      /\ a[Len(s) + 1] = x
  OBVIOUS
<1>2. ASSUME NEW y PROVE y \in Range(a) <=> y \in Range(s) \cup {x}
  <2>0. y \in Range(a) <=> \E i \in 1 .. Len(a) : a[i] = y
    <3> HIDE DEF a
    <3> QED
      BY <1>1, RangeMember
  <2>1. y \in Range(a) <=> \E i \in 1 .. Len(s) + 1 : a[i] = y
    BY <1>1, <2>0
  <2>2. y \in Range(s) <=> \E i \in 1 .. Len(s) : s[i] = y
    BY RangeMember
  <2> QED
    BY <1>1, <2>1, <2>2
<1>3. a # <<>>
  BY <1>1
<1> QED
  BY <1>1, <1>2, <1>3

\* The elements of a sequence are its head and those of its tail.
LEMMA RangeTail ==
  ASSUME NEW S, NEW s \in Seq(S), s # <<>>
  PROVE  /\ Tail(s) \in Seq(S)
         /\ Head(s) \in S /\ Head(s) \in Range(s)
         /\ Range(s) = Range(Tail(s)) \cup {Head(s)}
<1> DEFINE r == Tail(s)
<1>1. /\ r \in Seq(S) /\ Len(s) \in Nat \ {0} /\ Len(r) = Len(s) - 1 /\ Len(r) \in Nat
      /\ \A i \in 1 .. Len(r) : r[i] = s[i + 1]
      /\ Head(s) = s[1] /\ s[1] \in S
  OBVIOUS
<1>3. \A y : y \in Range(r) <=> \E i \in 1 .. Len(r) : r[i] = y
  BY <1>1, RangeMember
<1>4. \A y : y \in Range(s) <=> \E i \in 1 .. Len(s) : s[i] = y
  BY RangeMember
<1> HIDE DEF r
<1>5. \A i \in 1 .. Len(s) : i = 1 \/ (i - 1 \in 1 .. Len(r) /\ s[i] = r[i - 1])
  BY <1>1
<1>6. Range(s) = Range(r) \cup {Head(s)}
  <2>1. Range(s) \subseteq Range(r) \cup {Head(s)}
    BY <1>1, <1>3, <1>4, <1>5
  <2>2. Range(r) \subseteq Range(s)
    <3> SUFFICES ASSUME NEW i \in 1 .. Len(r) PROVE r[i] \in Range(s)
      BY <1>3
    <3>1. i + 1 \in 1 .. Len(s) /\ s[i + 1] = r[i]
      BY <1>1
    <3> QED
      BY <3>1, <1>4
  <2>3. Head(s) \in Range(s)
    BY <1>1, <1>4
  <2> QED
    BY <2>1, <2>2, <2>3
<1> QED
  BY <1>1, <1>6 DEF r

\* An element occurs at most once; other elements may be repeated.
AtMostOnce(s, x) == \A i, j \in DOMAIN s : s[i] = x /\ s[j] = x => i = j

\* Appending does not repeat an element that was not there.
LEMMA OnceAppend ==
  ASSUME NEW S, NEW s \in Seq(S), NEW x \in S, NEW y,
         AtMostOnce(s, y), x = y => y \notin Range(s)
  PROVE  AtMostOnce(Append(s, x), y)
<1> DEFINE a == Append(s, x)
<1>1. /\ DOMAIN a = 1 .. Len(s) + 1 /\ DOMAIN s = 1 .. Len(s) /\ Len(s) \in Nat
      /\ \A i \in 1 .. Len(s) : a[i] = s[i]
      /\ a[Len(s) + 1] = x
  OBVIOUS
<1>2. x = y => \A i \in 1 .. Len(s) : s[i] # y
  BY RangeMember
<1> HIDE DEF a
<1>3. \A i, j \in 1 .. Len(s) + 1 : a[i] = y /\ a[j] = y => i = j
  BY <1>1, <1>2 DEF AtMostOnce
<1> QED
  BY <1>1, <1>3 DEF AtMostOnce, a

\* Taking the head does not repeat an element, and removes its only occurrence.
LEMMA OnceTail ==
  ASSUME NEW S, NEW s \in Seq(S), s # <<>>, NEW y, AtMostOnce(s, y)
  PROVE  /\ AtMostOnce(Tail(s), y)
         /\ Head(s) = y => y \notin Range(Tail(s))
<1> DEFINE r == Tail(s)
<1>1. /\ r \in Seq(S) /\ Len(s) \in Nat \ {0} /\ Len(r) = Len(s) - 1 /\ Len(r) \in Nat
      /\ DOMAIN r = 1 .. Len(r) /\ DOMAIN s = 1 .. Len(s)
      /\ \A i \in 1 .. Len(r) : r[i] = s[i + 1]
      /\ Head(s) = s[1]
  OBVIOUS
<1> HIDE DEF r
<1>2. \A i \in 1 .. Len(r) : i + 1 \in DOMAIN s
  BY <1>1
<1>3. ASSUME NEW i \in 1 .. Len(r), NEW j \in 1 .. Len(r), r[i] = y, r[j] = y PROVE i = j
  <2>1. i + 1 = j + 1
    BY <1>1, <1>2, <1>3 DEF AtMostOnce
  <2> QED
    BY <2>1
<1>4. ASSUME Head(s) = y, NEW i \in 1 .. Len(r), r[i] = y PROVE FALSE
  <2>1. i + 1 = 1
    BY <1>1, <1>2, <1>4 DEF AtMostOnce
  <2> QED
    BY <2>1
<1>5. Head(s) = y => y \notin Range(r)
  BY <1>1, <1>4, RangeMember
<1> QED
  BY <1>1, <1>3, <1>5 DEF AtMostOnce, r

\* A set of at most one element has at most cardinality 1.
LEMMA AtMostOneCardinality ==
  ASSUME NEW T, \A x, y \in T : x = y
  PROVE  Cardinality(T) = IF T = {} THEN 0 ELSE 1
<1>1. CASE T = {}
  BY <1>1, FS_EmptySet
<1>2. CASE T # {}
  <2>1. PICK x : T = {x}
    BY <1>2
  <2> QED
    BY <2>1, FS_Singleton
<1> QED
  BY <1>1, <1>2

\* How often an element occurs that occurs at most once.
LEMMA OnceCardinality ==
  ASSUME NEW S, NEW s \in Seq(S), NEW x, AtMostOnce(s, x)
  PROVE  Cardinality({i \in DOMAIN s : s[i] = x}) = IF x \in Range(s) THEN 1 ELSE 0
<1> DEFINE T == {i \in DOMAIN s : s[i] = x}
<1>1. \A i, j \in T : i = j
  BY DEF AtMostOnce
<1>2. T = {} <=> x \notin Range(s)
  BY DEF Range
<1> HIDE DEF T
<1> QED
  BY <1>1, <1>2, AtMostOneCardinality DEF T

-----------------------------------------------------------------------------
(* The schedule word                                                       *)

\* What the exchanges of the schedule word do to its flags.
LEMMA WordOps ==
  ASSUME NEW w \in Word
  PROVE  /\ Scheduled(w) \in Word /\ Scheduled(w).flags = w.flags \cup {"SCHEDULED"}
         /\ Running(w) \in Word
         /\ Running(w).flags = (w.flags \ {"SCHEDULED"}) \cup {"RUNNING"}
         /\ Idle(w) \in Word /\ Idle(w).flags = w.flags \ {"SCHEDULED", "RUNNING"}
         /\ Cleaned(w) \in Word /\ Cleaned(w).flags = w.flags \cup {"CLEANUP_DONE"}
  BY DEF Word, Flag, Scheduled, Running, Idle, Cleaned

\* Closing and finishing a run elect a finalizer and leave the rest alone.
LEMMA CloseOps ==
  ASSUME NEW w \in Word
  PROVE  /\ CloseRequested(w) \in Word /\ RunFinished(w) \in Word
         /\ IsCleanupDone(w) => CloseRequested(w) = w
         /\ ~IsCleanupDone(w) =>
              CloseRequested(w).flags =
                w.flags \cup {"CLOSE_REQUESTED"}
                        \cup IF CallerOwnsFinalizer(w) THEN {"FINALIZER_OWNED"} ELSE {}
         /\ RunFinished(w).flags =
              (w.flags \ {"SCHEDULED", "RUNNING"})
              \cup IF RunnerFinalizes(w) THEN {"FINALIZER_OWNED"} ELSE {}
<1>1. CloseRequested(w) \in Word
  BY DEF Word, Flag, CloseRequested
<1>2. Idle(w) \in Word /\ Idle(w).flags = w.flags \ {"SCHEDULED", "RUNNING"}
  BY WordOps
<1>3. RunFinished(w) \in Word
  BY <1>2 DEF Word, Flag, RunFinished
<1>4. RunFinished(w).flags =
        (w.flags \ {"SCHEDULED", "RUNNING"})
        \cup IF RunnerFinalizes(w) THEN {"FINALIZER_OWNED"} ELSE {}
  BY <1>2 DEF Word, RunFinished
<1> QED
  BY <1>1, <1>3, <1>4 DEF Word, CloseRequested

-----------------------------------------------------------------------------
(* Types                                                                   *)

\* The parts of TypeOK: the executor, the mailboxes and the threads.
ExecutorOK ==
  /\ pending \in Seq(Mailboxes)
  /\ running \in BOOLEAN
  /\ queue \in [Workers -> Seq(Mailboxes)]
  /\ shut \in BOOLEAN
  /\ mine \in [Callers -> Mailboxes \cup {NoTask}]
  /\ tail \in [Callers -> BOOLEAN]
  /\ failed \in [Callers -> BOOLEAN]
MailboxOK ==
  /\ word \in [Mailboxes -> Word]
  /\ need \in [Mailboxes -> BOOLEAN]
  /\ work \in [Mailboxes -> 0 .. MaxSends]
  /\ sends \in 0 .. MaxSends
  /\ refused \subseteq Mailboxes
ThreadOK ==
  /\ pc \in [Threads -> ExecutePC \cup MailboxPC \cup RestPC]
  /\ held \in [Callers -> Mailboxes \cup {NoTask}]
  /\ \A t \in Callers : held[t] # NoTask <=> pc[t] = "hand"
  /\ cur \in [Threads -> Mailboxes \cup {NoTask}]
  /\ \A t \in Threads : pc[t] \in ExecutePC \cup MailboxPC => cur[t] \in Mailboxes

\* No mailbox holds more than was sent.
WorkInv == \A m \in Mailboxes : work[m] <= sends

\* The parts make up the type invariant, before and after a step.
LEMMA TypeParts ==
  /\ TypeOK <=> ExecutorOK /\ MailboxOK /\ ThreadOK
  /\ TypeOK' <=> ExecutorOK' /\ MailboxOK' /\ ThreadOK'
<1>1. TypeOK <=> ExecutorOK /\ MailboxOK /\ ThreadOK
  BY Zenon DEF TypeOK, ExecutorOK, MailboxOK, ThreadOK
<1>2. TypeOK' <=> ExecutorOK' /\ MailboxOK' /\ ThreadOK'
  BY Zenon DEF TypeOK, ExecutorOK, MailboxOK, ThreadOK
<1> QED
  BY <1>1, <1>2

\* A thread that moves within the executor or to rest keeps the thread types.
LEMMA ThreadMove ==
  ASSUME ThreadOK, NEW t \in Threads, NEW label,
         pc' = [pc EXCEPT ![t] = label],
         label \in (ExecutePC \ {"hand"}) \cup MailboxPC \cup RestPC,
         UNCHANGED held, t \in Callers => pc[t] # "hand",
         \/ cur' = cur /\ (label \in RestPC \/ pc[t] \in ExecutePC \cup MailboxPC)
         \/ \E m \in Mailboxes : cur' = [cur EXCEPT ![t] = m]
         \/ cur' = [cur EXCEPT ![t] = NoTask] /\ label \in RestPC
  PROVE  ThreadOK'
<1> USE DEF ExecutePC, MailboxPC, RestPC
<1>1. pc' \in [Threads -> ExecutePC \cup MailboxPC \cup RestPC] /\ pc'[t] = label
      /\ \A u \in Threads \ {t} : pc'[u] = pc[u]
  BY DEF ThreadOK
<1>2. cur' \in [Threads -> Mailboxes \cup {NoTask}] /\ \A u \in Threads \ {t} : cur'[u] = cur[u]
  BY DEF ThreadOK
<1>3. pc'[t] \in ExecutePC \cup MailboxPC => cur'[t] \in Mailboxes
  BY <1>1 DEF ThreadOK
<1>4. \A u \in Callers : u \in Threads /\ (pc'[u] = "hand" <=> pc[u] = "hand")
  BY <1>1 DEF Threads
<1> QED
  BY <1>1, <1>2, <1>3, <1>4 DEF ThreadOK

\* Every step keeps the types.
LEMMA TypeStep ==
  ASSUME TypeOK, WorkInv, [Next]_vars
  PROVE  TypeOK' /\ WorkInv'
<1> USE ThreadsAssumption, TasksAssumption, ComposedAssumption
<1>0. ExecutorOK /\ MailboxOK /\ ThreadOK
  BY TypeParts
<1>1. ASSUME NEW s \in Senders, NEW m \in Mailboxes, Dispatch(s, m) PROVE TypeOK' /\ WorkInv'
  <2>1. /\ pc[s] = "idle" /\ s \in Threads /\ s \in Callers
        /\ sends < MaxSends /\ sends' = sends + 1
        /\ work' = [work EXCEPT ![m] = @ + 1] /\ cur' = [cur EXCEPT ![s] = m]
        /\ pc' = [pc EXCEPT ![s] = "schedule"]
        /\ UNCHANGED <<executor, word, need, refused>>
    BY <1>1 DEF Dispatch, Goto, Threads
  <2>2. ThreadOK'
    BY <1>0, <2>1, ThreadMove DEF executor, MailboxPC
  <2>3. ExecutorOK'
    BY <1>0, <2>1 DEF ExecutorOK, executor
  <2>4. work \in [Mailboxes -> 0 .. MaxSends] /\ sends \in 0 .. MaxSends /\ MaxSends \in Nat
    BY <1>0 DEF MailboxOK
  <2>5. work' \in [Mailboxes -> 0 .. MaxSends] /\ sends' \in 0 .. MaxSends /\ WorkInv'
    BY <2>1, <2>4 DEF WorkInv
  <2>6. MailboxOK'
    BY <1>0, <2>1, <2>5 DEF MailboxOK
  <2> QED
    BY <2>2, <2>3, <2>5, <2>6, TypeParts
<1>2. ASSUME NEW t \in Callers, RequestSchedule(t) PROVE TypeOK' /\ WorkInv'
  <2> DEFINE m == cur[t]
  <2>1. /\ pc[t] = "schedule" /\ t \in Threads /\ m \in Mailboxes
        /\ UNCHANGED <<executor, work, cur, sends, refused>>
        /\ \E label \in {"idle", "submit"} : pc' = [pc EXCEPT ![t] = label]
        /\ word' = word \/ word' = [word EXCEPT ![m] = Scheduled(word[m])]
        /\ need' = need \/ need' = [need EXCEPT ![m] = TRUE]
    BY <1>0, <1>2 DEF RequestSchedule, Goto, Threads, ThreadOK, MailboxPC
  <2> HIDE DEF m
  <2>2. ThreadOK'
    BY <1>0, <2>1, ThreadMove DEF executor, MailboxPC, RestPC
  <2>3. ExecutorOK'
    BY <1>0, <2>1 DEF ExecutorOK, executor
  <2>4. MailboxOK'
    <3>1. word' \in [Mailboxes -> Word]
      BY <1>0, <2>1, WordOps DEF MailboxOK
    <3>2. need' \in [Mailboxes -> BOOLEAN]
      BY <1>0, <2>1 DEF MailboxOK
    <3> QED
      BY <1>0, <2>1, <3>1, <3>2 DEF MailboxOK
  <2>5. WorkInv'
    BY <2>1 DEF WorkInv
  <2> QED
    BY <2>2, <2>3, <2>4, <2>5, TypeParts
<1>3. ASSUME NEW t \in Callers, Submit(t) PROVE TypeOK' /\ WorkInv'
  <2>1. /\ pc[t] = "submit" /\ t \in Threads /\ cur[t] \in Mailboxes
        /\ pending' = Append(pending, cur[t])
        /\ mine' = [mine EXCEPT ![t] = cur[t]]
        /\ failed' = [failed EXCEPT ![t] = FALSE]
        /\ tail' = [tail EXCEPT ![t] = FALSE]
        /\ pc' = [pc EXCEPT ![t] = "claim"]
        /\ UNCHANGED <<running, queue, shut, held>> /\ UNCHANGED mvars
    BY <1>0, <1>3 DEF Submit, PushTask, Goto, Threads, ThreadOK, MailboxPC
  <2>2. ThreadOK'
    BY <1>0, <2>1, ThreadMove DEF mvars, MailboxPC, ExecutePC
  <2>3. Append(pending, cur[t]) \in Seq(Mailboxes)
    BY <1>0, <2>1, RangeAppend DEF ExecutorOK
  <2>4. ExecutorOK'
    BY <1>0, <2>1, <2>3 DEF ExecutorOK
  <2>5. MailboxOK' /\ WorkInv'
    BY <1>0, <2>1 DEF MailboxOK, WorkInv, mvars
  <2> QED
    BY <2>2, <2>4, <2>5, TypeParts
<1>4. ASSUME NEW t \in Callers, ExecuteStep(t) PROVE TypeOK' /\ WorkInv'
  <2>1. MailboxOK' /\ WorkInv' /\ cur' = cur /\ t \in Threads
    BY <1>0, <1>4 DEF ExecuteStep, MailboxOK, WorkInv, mvars, Threads
  <2>2. CASE ClaimSlot(t) \/ ReleaseSlot(t) \/ Recheck(t) \/ ReclaimSlot(t)
    <3>1. /\ pc[t] \in {"claim", "release", "recheck", "reclaim"}
          /\ \E label \in {"answered", "pop", "recheck", "reclaim"} :
               pc' = [pc EXCEPT ![t] = label]
          /\ UNCHANGED <<pending, queue, shut, mine, held, failed>>
          /\ running' \in {running, TRUE, FALSE}
          /\ tail' = tail \/ tail' = [tail EXCEPT ![t] = TRUE]
      BY <2>2 DEF ClaimSlot, ReleaseSlot, Recheck, ReclaimSlot, Goto
    <3>2. ThreadOK'
      BY <1>0, <2>1, <3>1, ThreadMove DEF ExecutePC
    <3>3. ExecutorOK'
      BY <1>0, <3>1 DEF ExecutorOK
    <3> QED
      BY <2>1, <3>2, <3>3, TypeParts
  <2>3. CASE PopTask(t)
    <3>1. UNCHANGED <<running, queue, shut, mine, tail, failed>> /\ pc[t] = "pop"
      BY <2>3 DEF PopTask
    <3>2. CASE pending # <<>>
      <4>1. /\ held' = [held EXCEPT ![t] = Head(pending)] /\ pending' = Tail(pending)
            /\ pc' = [pc EXCEPT ![t] = "hand"]
        BY <2>3, <3>2 DEF PopTask, Goto
      <4>2. Head(pending) \in Mailboxes /\ Tail(pending) \in Seq(Mailboxes)
        BY <1>0, <3>2, RangeTail DEF ExecutorOK
      <4>3. ThreadOK'
        BY <1>0, <2>1, <3>1, <4>1, <4>2 DEF ThreadOK, Threads, ExecutePC
      <4>4. ExecutorOK'
        BY <1>0, <3>1, <4>1, <4>2 DEF ExecutorOK
      <4> QED
        BY <2>1, <4>3, <4>4, TypeParts
    <3>3. CASE pending = <<>>
      <4>1. UNCHANGED <<held, pending>> /\ pc' = [pc EXCEPT ![t] = "release"]
        BY <2>3, <3>3 DEF PopTask, Goto
      <4>2. ThreadOK'
        BY <1>0, <2>1, <3>1, <4>1, ThreadMove DEF ExecutePC
      <4>3. ExecutorOK'
        BY <1>0, <3>1, <4>1 DEF ExecutorOK
      <4> QED
        BY <2>1, <4>2, <4>3, TypeParts
    <3> QED
      BY <3>2, <3>3
  <2>4. CASE HandOver(t)
    <3>1. /\ pc[t] = "hand" /\ held[t] \in Mailboxes /\ Affinity[held[t]] \in Workers
          /\ held' = [held EXCEPT ![t] = NoTask]
          /\ UNCHANGED <<pending, running, shut, mine, tail>>
          /\ \E label \in {"clear", "pop"} : pc' = [pc EXCEPT ![t] = label]
          /\ failed' = failed \/ failed' = [failed EXCEPT ![t] = TRUE]
          /\ \/ queue' = queue
             \/ queue' = [queue EXCEPT ![Affinity[held[t]]] = Append(queue[Affinity[held[t]]], held[t])]
      BY <1>0, <2>4 DEF HandOver, Goto, ThreadOK
    <3>2. ThreadOK'
      BY <1>0, <2>1, <3>1 DEF ThreadOK, Threads, ExecutePC
    <3>3. Append(queue[Affinity[held[t]]], held[t]) \in Seq(Mailboxes)
      BY <1>0, <3>1, RangeAppend DEF ExecutorOK
    <3>4. queue' \in [Workers -> Seq(Mailboxes)]
      <4>1. queue \in [Workers -> Seq(Mailboxes)]
        BY <1>0 DEF ExecutorOK
      <4>2. CASE queue' = queue
        BY <4>1, <4>2
      <4>3. CASE queue' # queue
        <5>1. queue' = [queue EXCEPT ![Affinity[held[t]]] =
                          Append(queue[Affinity[held[t]]], held[t])]
          BY <3>1, <4>3
        <5>2. Append(queue[Affinity[held[t]]], held[t]) \in Seq(Mailboxes)
          BY <3>3
        <5> QED
          BY <3>1, <4>1, <5>1, <5>2, Zenon
      <4> QED
        BY <4>2, <4>3
    <3>5. ExecutorOK'
      BY <1>0, <3>1, <3>4 DEF ExecutorOK
    <3> QED
      BY <2>1, <3>2, <3>5, TypeParts
  <2>5. CASE ClearPending(t)
    <3>1. /\ pc[t] = "clear" /\ pending' = <<>> /\ pc' = [pc EXCEPT ![t] = "release"]
          /\ UNCHANGED <<running, queue, shut, mine, held, tail, failed>>
      BY <2>5 DEF ClearPending, Goto
    <3>2. ThreadOK'
      BY <1>0, <2>1, <3>1, ThreadMove DEF ExecutePC
    <3>3. ExecutorOK'
      BY <1>0, <3>1 DEF ExecutorOK
    <3> QED
      BY <2>1, <3>2, <3>3, TypeParts
  <2> QED
    BY <1>4, <2>2, <2>3, <2>4, <2>5 DEF ExecuteStep, Execute
<1>5. ASSUME NEW t \in Callers, Registered(t) PROVE TypeOK' /\ WorkInv'
  <2>1. /\ pc[t] = "answered" /\ t \in Threads /\ cur[t] \in Mailboxes
        /\ pc' = [pc EXCEPT ![t] = "idle"] /\ cur' = [cur EXCEPT ![t] = NoTask]
        /\ mine' = [mine EXCEPT ![t] = NoTask]
        /\ UNCHANGED <<pending, running, queue, shut, held, tail, failed, work, sends>>
        /\ word' = word \/ word' = [word EXCEPT ![cur[t]] = Idle(word[cur[t]])]
        /\ need' = need \/ need' = [need EXCEPT ![cur[t]] = FALSE]
        /\ refused' \subseteq refused \cup {cur[t]}
    BY <1>0, <1>5 DEF Registered, Goto, Threads, ThreadOK, ExecutePC
  <2>2. ThreadOK'
    BY <1>0, <2>1, ThreadMove DEF RestPC
  <2>3. ExecutorOK'
    BY <1>0, <2>1 DEF ExecutorOK
  <2>4. MailboxOK' /\ WorkInv'
    <3>1. word' \in [Mailboxes -> Word]
      BY <1>0, <2>1, WordOps DEF MailboxOK
    <3>2. need' \in [Mailboxes -> BOOLEAN]
      BY <1>0, <2>1 DEF MailboxOK
    <3> QED
      BY <1>0, <2>1, <3>1, <3>2 DEF MailboxOK, WorkInv
  <2> QED
    BY <2>2, <2>3, <2>4, TypeParts
<1>6. ASSUME NEW w \in Workers, StartRun(w) PROVE TypeOK' /\ WorkInv'
  <2>1. PICK m \in Mailboxes :
           /\ Receive(w, m)
           /\ cur' = [cur EXCEPT ![w] = m]
           /\ \E label \in {"idle", "startClosed", "start"} : pc' = [pc EXCEPT ![w] = label]
    BY <1>6 DEF StartRun, Goto
  <2>2. /\ pc[w] = "idle" /\ w \in Threads
        /\ UNCHANGED <<pending, running, shut, mine, held, tail, failed, word, need, work,
                       sends, refused>>
    BY <1>6 DEF StartRun, Threads
  <2>3. ThreadOK'
    BY <1>0, <2>1, <2>2, ThreadMove DEF RestPC, MailboxPC
  <2>4. Tail(queue[w]) \in Seq(Mailboxes)
    BY <1>0, <2>1, RangeTail DEF Receive, ExecutorOK
  <2>5. ExecutorOK'
    BY <1>0, <2>1, <2>2, <2>4 DEF Receive, ExecutorOK
  <2>6. MailboxOK' /\ WorkInv'
    BY <1>0, <2>2 DEF MailboxOK, WorkInv
  <2> QED
    BY <2>3, <2>5, <2>6, TypeParts
<1>7. ASSUME NEW w \in Workers, SetRunning(w) PROVE TypeOK' /\ WorkInv'
  <2>1. /\ pc[w] \in {"start", "startClosed"} /\ w \in Threads /\ cur[w] \in Mailboxes
        /\ \E label \in {"drain", "finish"} : pc' = [pc EXCEPT ![w] = label]
        /\ word' = [word EXCEPT ![cur[w]] = Running(word[cur[w]])]
        /\ UNCHANGED <<executor, need, work, cur, sends, refused>>
    BY <1>0, <1>7 DEF SetRunning, Goto, Threads, ThreadOK, MailboxPC
  <2>2. ThreadOK'
    BY <1>0, <2>1, ThreadMove DEF MailboxPC, executor
  <2>3. ExecutorOK'
    BY <1>0, <2>1 DEF ExecutorOK, executor
  <2>4. MailboxOK' /\ WorkInv'
    BY <1>0, <2>1, WordOps DEF MailboxOK, WorkInv
  <2> QED
    BY <2>2, <2>3, <2>4, TypeParts
<1>8. ASSUME NEW w \in Workers, Drain(w) \/ Invoked(w) PROVE TypeOK' /\ WorkInv'
  <2>1. /\ pc[w] \in {"drain", "invoke"} /\ w \in Threads /\ cur[w] \in Mailboxes
        /\ \E label \in {"drain", "invoke", "finish"} : pc' = [pc EXCEPT ![w] = label]
        /\ UNCHANGED <<executor, word, need, cur, sends, refused>>
        /\ \/ work' = work
           \/ work[cur[w]] > 0 /\ work' = [work EXCEPT ![cur[w]] = work[cur[w]] - 1]
    BY <1>0, <1>8 DEF Drain, Invoked, Goto, Threads, ThreadOK, MailboxPC, mvars
  <2>2. ThreadOK'
    BY <1>0, <2>1, ThreadMove DEF MailboxPC, executor
  <2>3. ExecutorOK'
    BY <1>0, <2>1 DEF ExecutorOK, executor
  <2>4. work \in [Mailboxes -> 0 .. MaxSends] /\ sends \in 0 .. MaxSends
    BY <1>0 DEF MailboxOK
  <2>5. work' \in [Mailboxes -> 0 .. MaxSends] /\ WorkInv'
    BY <2>1, <2>4 DEF WorkInv
  <2>6. MailboxOK'
    BY <1>0, <2>1, <2>5 DEF MailboxOK
  <2> QED
    BY <2>2, <2>3, <2>5, <2>6, TypeParts
<1>9. ASSUME NEW w \in Workers, FinishRun(w) PROVE TypeOK' /\ WorkInv'
  <2>1. /\ pc[w] = "finish" /\ w \in Threads /\ cur[w] \in Mailboxes
        /\ \E label \in {"finalize", "schedule", "idle"} : pc' = [pc EXCEPT ![w] = label]
        /\ word' = [word EXCEPT ![cur[w]] = RunFinished(word[cur[w]])]
        /\ need' = [need EXCEPT ![cur[w]] = FALSE]
        /\ UNCHANGED <<executor, work, cur, sends, refused>>
    BY <1>0, <1>9 DEF FinishRun, Goto, Threads, ThreadOK, MailboxPC
  <2>2. ThreadOK'
    BY <1>0, <2>1, ThreadMove DEF MailboxPC, RestPC, executor
  <2>3. ExecutorOK'
    BY <1>0, <2>1 DEF ExecutorOK, executor
  <2>4. MailboxOK' /\ WorkInv'
    BY <1>0, <2>1, CloseOps DEF MailboxOK, WorkInv
  <2> QED
    BY <2>2, <2>3, <2>4, TypeParts
<1>10. ASSUME NEW c \in Closers, NEW m \in Mailboxes, Detach(c, m) PROVE TypeOK' /\ WorkInv'
  <2>1. /\ pc[c] = "idle" /\ c \in Threads
        /\ \E label \in {"finalize", "detached"} : pc' = [pc EXCEPT ![c] = label]
        /\ cur' = [cur EXCEPT ![c] = m]
        /\ word' = [word EXCEPT ![m] = CloseRequested(word[m])]
        /\ UNCHANGED <<executor, need, work, sends, refused>>
    BY <1>10 DEF Detach, Goto, Threads
  <2>2. ThreadOK'
    BY <1>0, <2>1, ThreadMove DEF MailboxPC, RestPC, executor
  <2>3. ExecutorOK'
    BY <1>0, <2>1 DEF ExecutorOK, executor
  <2>4. MailboxOK' /\ WorkInv'
    BY <1>0, <2>1, CloseOps DEF MailboxOK, WorkInv
  <2> QED
    BY <2>2, <2>3, <2>4, TypeParts
<1>11. ASSUME NEW t \in Workers \cup Closers, FinalizeCleanup(t) PROVE TypeOK' /\ WorkInv'
  <2>1. /\ pc[t] = "finalize" /\ t \in Threads /\ cur[t] \in Mailboxes
        /\ \E label \in {"idle", "detached"} : pc' = [pc EXCEPT ![t] = label]
        /\ work' = [work EXCEPT ![cur[t]] = 0]
        /\ word' = [word EXCEPT ![cur[t]] = Cleaned(word[cur[t]])]
        /\ UNCHANGED <<executor, need, cur, sends, refused>>
    BY <1>0, <1>11 DEF FinalizeCleanup, Goto, Threads, ThreadOK, MailboxPC
  <2>2. ThreadOK'
    BY <1>0, <2>1, ThreadMove DEF RestPC, executor
  <2>3. ExecutorOK'
    BY <1>0, <2>1 DEF ExecutorOK, executor
  <2>4. work \in [Mailboxes -> 0 .. MaxSends] /\ sends \in 0 .. MaxSends /\ MaxSends \in Nat
    BY <1>0 DEF MailboxOK
  <2>5. work' \in [Mailboxes -> 0 .. MaxSends] /\ WorkInv'
    BY <2>1, <2>4 DEF WorkInv
  <2>6. MailboxOK'
    BY <1>0, <2>1, <2>5, WordOps DEF MailboxOK
  <2> QED
    BY <2>2, <2>3, <2>5, <2>6, TypeParts
<1>12. ASSUME NEW t \in Stoppers, Stop(t) PROVE TypeOK' /\ WorkInv'
  <2>1. /\ pc[t] # "hand" /\ t \in Threads /\ t \notin Callers
        /\ \E label \in {"joining", "shutdown", "stopped"} : pc' = [pc EXCEPT ![t] = label]
        /\ UNCHANGED <<running, queue, mine, held, tail, failed>>
        /\ UNCHANGED mvars
    BY <1>12 DEF Stop, ShutdownInner, JoinWorkers, ShutdownClear, Goto, Threads
  <2>2. pending' = pending \/ pending' = <<>>
    BY <1>12 DEF Stop, ShutdownInner, JoinWorkers, ShutdownClear
  <2>3. shut' \in BOOLEAN
    BY <1>0, <1>12, Zenon DEF Stop, ShutdownInner, JoinWorkers, ShutdownClear, ExecutorOK
  <2>4. ThreadOK'
    BY <1>0, <2>1, ThreadMove DEF RestPC, mvars
  <2>5. pending' \in Seq(Mailboxes)
    <3>1. pending \in Seq(Mailboxes) /\ <<>> \in Seq(Mailboxes)
      BY <1>0 DEF ExecutorOK
    <3> QED
      BY <2>2, <3>1, Zenon
  <2>6. ExecutorOK'
    BY <1>0, <2>1, <2>3, <2>5 DEF ExecutorOK
  <2>7. MailboxOK' /\ WorkInv'
    BY <1>0, <2>1 DEF MailboxOK, WorkInv, mvars
  <2> QED
    BY <2>4, <2>6, <2>7, TypeParts
<1>13. CASE UNCHANGED vars
  BY <1>13 DEF vars, evars, mvars, TypeOK, WorkInv
<1> QED
  BY <1>1, <1>2, <1>3, <1>4, <1>5, <1>6, <1>7, <1>8, <1>9, <1>10, <1>11, <1>12, <1>13
     DEF Next

-----------------------------------------------------------------------------
(* One closure                                                             *)

CarrierPC == {"submit", "start", "startClosed", "drain", "invoke", "finish"}
Holders(m) == {t \in Callers : held[t] = m}
Accepted(m) == m \in Range(queue[Affinity[m]])

\* The closure of a mailbox that was not rolled back is in one place, and the
\* schedule word knows of it.
OneOf(m) ==
  /\ AtMostOnce(pending, m) /\ AtMostOnce(queue[Affinity[m]], m)
  /\ \A t, u \in Holders(m) : t = u
  /\ \A t, u \in Carriers(m) : t = u
  /\ m \in Range(pending) => Holders(m) = {} /\ ~Accepted(m) /\ Carriers(m) = {}
  /\ Holders(m) # {} => ~Accepted(m) /\ Carriers(m) = {}
  /\ Accepted(m) => Carriers(m) = {}
  /\ m \in Range(pending) \/ Holders(m) # {} \/ Accepted(m) \/ Carriers(m) # {} =>
       IsBusy(word[m])

\* A worker's queue holds closures of its own mailboxes.
QueueInv == \A w \in Workers : \A m \in Range(queue[w]) : Affinity[m] = w

ClosureInv == QueueInv /\ \A m \in Mailboxes \ refused : OneOf(m)

\* How a thread that moves changes the carriers of a closure.
LEMMA CarrierMove ==
  ASSUME TypeOK, NEW t \in Threads, NEW label, NEW m,
         pc' = [pc EXCEPT ![t] = label],
         \/ cur' = cur
         \/ \E x \in Mailboxes \cup {NoTask} : cur' = [cur EXCEPT ![t] = x]
  PROVE  /\ t \in Callers /\ label \in CarrierPC /\ cur'[t] = m =>
              Carriers(m)' = Carriers(m) \cup {t}
         /\ ~(t \in Callers /\ label \in CarrierPC /\ cur'[t] = m) =>
              Carriers(m)' = Carriers(m) \ {t}
<1>1. /\ pc'[t] = label /\ \A u \in Threads \ {t} : pc'[u] = pc[u] /\ cur'[u] = cur[u]
      /\ Callers \subseteq Threads
  BY DEF TypeOK, Threads
<1> QED
  BY <1>1 DEF Carriers, CarrierPC

\* A thread that moves outside the carrying places changes no carrier.
LEMMA CarrierRest ==
  ASSUME TypeOK, NEW t \in Threads, NEW label, NEW m,
         pc' = [pc EXCEPT ![t] = label],
         \/ cur' = cur
         \/ \E x \in Mailboxes \cup {NoTask} : cur' = [cur EXCEPT ![t] = x],
         t \in Callers => pc[t] \notin CarrierPC /\ label \notin CarrierPC
  PROVE  Carriers(m)' = Carriers(m)
<1>1. t \notin Carriers(m)
  BY DEF Carriers, CarrierPC
<1>2. Carriers(m)' = Carriers(m) \ {t}
  BY CarrierMove
<1> QED
  BY <1>1, <1>2

\* A step that moves no closure of m and does not clear its word keeps OneOf.
LEMMA OneOfUnmoved ==
  ASSUME NEW m, OneOf(m), UNCHANGED <<pending, queue, held>>, Carriers(m)' = Carriers(m),
         IsBusy(word[m]) => IsBusy(word[m])'
  PROVE  OneOf(m)'
<1>1. Holders(m)' = Holders(m) /\ Accepted(m)' = Accepted(m)
  BY DEF Holders, Accepted
<1> QED
  BY <1>1 DEF OneOf

\* A step that discards the pending closures keeps OneOf.
LEMMA OneOfCleared ==
  ASSUME NEW m, OneOf(m), pending' = <<>>, UNCHANGED <<queue, held, word>>,
         Carriers(m)' = Carriers(m)
  PROVE  OneOf(m)'
<1>1. Holders(m)' = Holders(m) /\ Accepted(m)' = Accepted(m)
  BY DEF Holders, Accepted
<1>2. Range(pending') = {} /\ AtMostOnce(pending', m)
  BY DEF Range, AtMostOnce
<1>3. AtMostOnce(queue'[Affinity[m]], m)
  BY DEF OneOf
<1>4. IsBusy(word[m])' <=> IsBusy(word[m])
  BY DEF IsBusy
<1> QED
  BY <1>1, <1>2, <1>3, <1>4 DEF OneOf

\* Every step moves a closure from one place to the next.
LEMMA ClosureStep ==
  ASSUME TypeOK, ClosureInv, [Next]_vars
  PROVE  ClosureInv'
<1> USE ThreadsAssumption, TasksAssumption, ComposedAssumption
<1>0. /\ QueueInv /\ \A m \in Mailboxes \ refused : OneOf(m)
      /\ Callers \subseteq Threads /\ Workers \subseteq Callers
      /\ pending \in Seq(Mailboxes) /\ queue \in [Workers -> Seq(Mailboxes)]
      /\ word \in [Mailboxes -> Word]
      /\ held \in [Callers -> Mailboxes \cup {NoTask}]
  BY DEF ClosureInv, TypeOK, Threads
<1>1. ASSUME NEW s \in Senders, NEW m \in Mailboxes, Dispatch(s, m) PROVE ClosureInv'
  <2>1. /\ pc[s] = "idle" /\ pc' = [pc EXCEPT ![s] = "schedule"] /\ s \in Threads
        /\ cur' = [cur EXCEPT ![s] = m]
        /\ UNCHANGED <<pending, queue, held, word, refused>>
    BY <1>1 DEF Dispatch, Goto, executor, Threads
  <2>2. \A n : Carriers(n)' = Carriers(n)
    BY <2>1, CarrierRest DEF CarrierPC
  <2>3. \A n \in Mailboxes \ refused : OneOf(n)'
    BY <1>0, <2>1, <2>2, OneOfUnmoved
  <2> QED
    BY <1>0, <2>1, <2>3 DEF ClosureInv, QueueInv
<1>2. ASSUME NEW t \in Callers, RequestSchedule(t) PROVE ClosureInv'
  <2>0. PICK m : m = cur[t]
    OBVIOUS
  <2>1. /\ pc[t] = "schedule" /\ t \in Threads /\ m \in Mailboxes
        /\ UNCHANGED <<pending, queue, held, cur, refused>>
    BY <2>0, <1>0, <1>2 DEF RequestSchedule, executor, TypeOK, MailboxPC
  <2>2. CASE word' = word /\ pc' = [pc EXCEPT ![t] = "idle"]
    <3>1. \A n : Carriers(n)' = Carriers(n)
      BY <2>0, <2>1, <2>2, CarrierRest DEF CarrierPC
    <3>2. \A n \in Mailboxes \ refused : OneOf(n)'
      BY <2>0, <1>0, <2>1, <2>2, <3>1, OneOfUnmoved
    <3> QED
      BY <2>0, <1>0, <2>1, <3>2 DEF ClosureInv, QueueInv
  <2>3. CASE /\ ~IsBusy(word[m]) /\ word' = [word EXCEPT ![m] = Scheduled(word[m])]
             /\ pc' = [pc EXCEPT ![t] = "submit"]
    <3>1. /\ Carriers(m)' = Carriers(m) \cup {t}
          /\ \A n : n # m => Carriers(n)' = Carriers(n) \ {t}
      BY <2>0, <2>1, <2>3, CarrierMove DEF CarrierPC
    <3>2. \A n : t \notin Carriers(n)
      BY <2>0, <2>1 DEF Carriers
    <3>3. word'[m] = Scheduled(word[m]) /\ \A n \in Mailboxes \ {m} : word'[n] = word[n]
      BY <2>0, <1>0, <2>1, <2>3
    <3>4. "SCHEDULED" \in word'[m].flags
      BY <2>0, <1>0, <2>1, <3>3, WordOps
    <3>5. ASSUME NEW n \in Mailboxes \ refused PROVE OneOf(n)'
      <4>1. OneOf(n) /\ Holders(n)' = Holders(n) /\ Accepted(n)' = Accepted(n)
        BY <2>0, <1>0, <2>1, <3>5 DEF Holders, Accepted
      <4>2. CASE n # m
        <5>1. Carriers(n)' = Carriers(n) /\ word'[n] = word[n]
          BY <2>0, <3>1, <3>2, <3>3, <3>5, <4>2
        <5> QED
          BY <2>0, <2>1, <4>1, <5>1, OneOfUnmoved DEF IsBusy
      <4>3. CASE n = m
        <5>1. /\ m \notin Range(pending) /\ Holders(m) = {} /\ ~Accepted(m)
              /\ Carriers(m) = {}
          BY <2>0, <2>3, <4>1, <4>3 DEF OneOf
        <5>2. Carriers(m)' = {t}
          BY <2>0, <3>1, <5>1
        <5> QED
          BY <2>0, <2>1, <3>4, <4>1, <4>3, <5>1, <5>2 DEF OneOf, IsBusy
      <4> QED
        BY <2>0, <4>2, <4>3
    <3> QED
      BY <2>0, <1>0, <2>1, <3>5 DEF ClosureInv, QueueInv
  <2> QED
    BY <2>0, <1>2, <2>2, <2>3 DEF RequestSchedule, Goto
<1>3. ASSUME NEW t \in Callers, Submit(t) PROVE ClosureInv'
  <2>0. PICK m : m = cur[t]
    OBVIOUS
  <2>1. /\ pc[t] = "submit" /\ t \in Threads /\ m \in Mailboxes
        /\ pending' = Append(pending, m) /\ pc' = [pc EXCEPT ![t] = "claim"]
        /\ UNCHANGED <<queue, held, word, cur, refused>>
    BY <2>0, <1>0, <1>3 DEF Submit, PushTask, Goto, mvars, TypeOK, MailboxPC
  <2>2. \A n : Carriers(n)' = Carriers(n) \ {t}
    <3>1. "claim" \notin CarrierPC
      BY DEF CarrierPC
    <3> QED
      BY <2>1, <3>1, CarrierMove
  <2>3. t \in Carriers(m) /\ \A n : n # m => t \notin Carriers(n)
    BY <2>0, <2>1 DEF Carriers
  <2>4. Range(pending') = Range(pending) \cup {m}
    BY <2>0, <1>0, <2>1, RangeAppend
  <2>5. ASSUME NEW n \in Mailboxes \ refused PROVE OneOf(n)'
    <3>1. OneOf(n) /\ Holders(n)' = Holders(n) /\ Accepted(n)' = Accepted(n)
      BY <2>0, <1>0, <2>1, <2>5 DEF Holders, Accepted
    <3>2. IsBusy(word[n])' <=> IsBusy(word[n])
      BY <2>0, <2>1 DEF IsBusy
    <3>3. n = m => n \notin Range(pending) /\ Holders(n) = {} /\ ~Accepted(n)
      BY <2>0, <2>3, <3>1 DEF OneOf
    <3>4. AtMostOnce(pending', n)
      BY <2>0, <1>0, <2>1, <3>1, <3>3, OnceAppend DEF OneOf
    <3>5. AtMostOnce(queue'[Affinity[n]], n)
      BY <2>0, <2>1, <3>1 DEF OneOf
    <3>6. n = m => Carriers(n)' = {} /\ IsBusy(word[n])
      BY <2>0, <2>2, <2>3, <3>1 DEF OneOf
    <3>7. n # m => Carriers(n)' = Carriers(n)
      BY <2>0, <2>2, <2>3
    <3>8. CASE n = m
      BY <2>0, <2>4, <3>1, <3>2, <3>3, <3>4, <3>5, <3>6, <3>8 DEF OneOf
    <3>9. CASE n # m
      BY <2>0, <2>4, <3>1, <3>2, <3>4, <3>5, <3>7, <3>9 DEF OneOf
    <3> QED
      BY <2>0, <3>8, <3>9
  <2> QED
    BY <2>0, <1>0, <2>1, <2>5 DEF ClosureInv, QueueInv
<1>4. ASSUME NEW t \in Callers, ExecuteStep(t), PopTask(t) PROVE ClosureInv'
  <2>1. pc[t] = "pop" /\ t \in Threads /\ UNCHANGED <<queue, word, cur, refused>>
    BY <1>0, <1>4 DEF ExecuteStep, PopTask, mvars
  <2>2. CASE pending = <<>>
    <3>1. UNCHANGED <<held, pending>> /\ pc' = [pc EXCEPT ![t] = "release"]
      BY <1>4, <2>2 DEF PopTask, Goto
    <3>2. \A n : Carriers(n)' = Carriers(n)
      BY <2>1, <3>1, CarrierRest DEF CarrierPC
    <3>3. \A n \in Mailboxes \ refused : OneOf(n)'
      BY <1>0, <2>1, <3>1, <3>2, OneOfUnmoved
    <3> QED
      BY <1>0, <2>1, <3>3 DEF ClosureInv, QueueInv
  <2>3. CASE pending # <<>>
    <3> DEFINE k == Head(pending)
    <3>1. /\ held' = [held EXCEPT ![t] = k] /\ pending' = Tail(pending)
          /\ pc' = [pc EXCEPT ![t] = "hand"]
      BY <1>4, <2>3 DEF PopTask, Goto
    <3>2. k \in Mailboxes /\ k \in Range(pending) /\ Range(pending) = Range(pending') \cup {k}
      BY <1>0, <2>3, <3>1, RangeTail
    <3>3. \A n : Carriers(n)' = Carriers(n)
      BY <2>1, <3>1, CarrierRest DEF CarrierPC
    <3>4. held[t] = NoTask
      BY <2>1 DEF TypeOK
    <3>5. ASSUME NEW n \in Mailboxes \ refused PROVE OneOf(n)'
      <4>1. OneOf(n) /\ Accepted(n)' = Accepted(n)
        BY <1>0, <2>1, <3>5 DEF Accepted
      <4>2. AtMostOnce(pending', n) /\ (k = n => n \notin Range(pending'))
        BY <1>0, <2>3, <3>1, <4>1, OnceTail DEF OneOf
      <4> HIDE DEF k
      <4>3. Holders(n)' = Holders(n) \cup {u \in {t} : k = n}
        BY <1>0, <3>1, <3>4 DEF Holders
      <4>4. AtMostOnce(queue'[Affinity[n]], n) /\ (IsBusy(word[n])' <=> IsBusy(word[n]))
        BY <2>1, <4>1 DEF OneOf, IsBusy
      <4>5. CASE n = k
        BY <3>2, <3>3, <4>1, <4>2, <4>3, <4>4, <4>5 DEF OneOf
      <4>6. CASE n # k
        BY <3>2, <3>3, <4>1, <4>2, <4>3, <4>4, <4>6 DEF OneOf
      <4> QED
        BY <4>5, <4>6
    <3> QED
      BY <1>0, <2>1, <3>5 DEF ClosureInv, QueueInv
  <2> QED
    BY <2>2, <2>3
<1>5. ASSUME NEW t \in Callers, ExecuteStep(t), HandOver(t) PROVE ClosureInv'
  <2> DEFINE k == held[t]
           v == Affinity[k]
  <2>1. /\ pc[t] = "hand" /\ t \in Threads /\ k \in Mailboxes /\ v \in Workers
        /\ held' = [held EXCEPT ![t] = NoTask]
        /\ UNCHANGED <<pending, word, cur, refused>>
    BY <1>0, <1>5 DEF ExecuteStep, HandOver, mvars, TypeOK
  <2>2. \E label \in {"clear", "pop"} : pc' = [pc EXCEPT ![t] = label]
    BY <1>5 DEF HandOver, Goto
  <2>3. \A n : Carriers(n)' = Carriers(n)
    BY <2>1, <2>2, CarrierRest DEF CarrierPC
  <2>4. \A n \in Mailboxes : Holders(n)' = Holders(n) \ {t}
    BY <1>0, <2>1 DEF Holders
  <2>5. \A n \in Mailboxes : IsBusy(word[n])' <=> IsBusy(word[n])
    BY <2>1 DEF IsBusy
  <2>6. CASE queue' = queue
    <3>1. ASSUME NEW n \in Mailboxes \ refused PROVE OneOf(n)'
      <4>1. OneOf(n) /\ (Accepted(n)' <=> Accepted(n))
        BY <1>0, <2>6, <3>1 DEF Accepted
      <4>2. AtMostOnce(queue'[Affinity[n]], n) /\ AtMostOnce(pending', n)
        BY <2>1, <2>6, <4>1 DEF OneOf
      <4>3. pending' = pending
        BY <2>1
      <4> HIDE DEF k, v
      <4> QED
        BY <2>3, <2>4, <2>5, <3>1, <4>1, <4>2, <4>3 DEF OneOf
    <3> QED
      BY <1>0, <2>1, <2>6, <3>1 DEF ClosureInv, QueueInv
  <2>7. CASE queue' = [queue EXCEPT ![v] = Append(queue[v], k)]
    <3>0. t \in Holders(k) /\ \A n \in Mailboxes \ {k} : t \notin Holders(n)
      BY <2>1 DEF Holders
    <3> HIDE DEF k
    <3>1. queue'[v] = Append(queue[v], k) /\ \A w \in Workers \ {v} : queue'[w] = queue[w]
      BY <1>0, <2>1, <2>7
    <3>2. Range(queue'[v]) = Range(queue[v]) \cup {k}
      BY <1>0, <2>1, <3>1, RangeAppend
    <3>3. QueueInv'
      <4> SUFFICES ASSUME NEW w \in Workers, NEW n \in Range(queue'[w]) PROVE Affinity[n] = w
        BY DEF QueueInv
      <4>1. CASE w = v
        BY <1>0, <3>2, <4>1 DEF QueueInv
      <4>2. CASE w # v
        BY <1>0, <3>1, <4>2 DEF QueueInv
      <4> QED
        BY <4>1, <4>2
    <3>4. ASSUME NEW n \in Mailboxes \ refused PROVE OneOf(n)'
      <4>1. OneOf(n)
        BY <1>0, <3>4
      <4>2. n = k => ~Accepted(n) /\ n \notin Range(pending) /\ Carriers(n) = {} /\ IsBusy(word[n])
        BY <3>0, <4>1 DEF OneOf
      <4>3. AtMostOnce(queue'[Affinity[n]], n)
        <5>1. CASE Affinity[n] = v
          <6>1. k = n => n \notin Range(queue[v])
            BY <4>2, <5>1 DEF Accepted
          <6>2. AtMostOnce(Append(queue[v], k), n)
            BY <1>0, <2>1, <4>1, <5>1, <6>1, OnceAppend DEF OneOf
          <6> QED
            BY <3>1, <5>1, <6>2
        <5>2. CASE Affinity[n] # v
          BY <3>1, <3>4, <4>1, <5>2 DEF OneOf
        <5> QED
          BY <5>1, <5>2
      <4>4. Accepted(n)' <=> Accepted(n) \/ n = k
        <5>1. CASE Affinity[n] = v
          BY <3>2, <5>1 DEF Accepted
        <5>2. CASE Affinity[n] # v
          BY <3>1, <3>4, <5>2 DEF Accepted
        <5> QED
          BY <5>1, <5>2
      <4>5. pending' = pending
        BY <2>1
      <4>6. AtMostOnce(pending', n)
        BY <4>1, <4>5 DEF OneOf
      <4>7. Carriers(n)' = Carriers(n) /\ (IsBusy(word[n])' <=> IsBusy(word[n]))
            /\ Holders(n)' = Holders(n) \ {t}
        BY <2>3, <2>4, <2>5, <3>4
      <4> HIDE DEF v
      <4>8. CASE n = k
        <5>1. Holders(n)' = {}
          BY <3>0, <4>1, <4>7, <4>8 DEF OneOf
        <5> QED
          BY <4>2, <4>3, <4>4, <4>5, <4>6, <4>7, <4>8, <5>1 DEF OneOf
      <4>9. CASE n # k
        BY <3>0, <3>4, <4>1, <4>3, <4>4, <4>5, <4>6, <4>7, <4>9 DEF OneOf
      <4> QED
        BY <4>8, <4>9
    <3> QED
      BY <2>1, <3>3, <3>4 DEF ClosureInv
  <2> QED
    BY <1>5, <2>6, <2>7 DEF HandOver
<1>6. ASSUME NEW t \in Callers, ExecuteStep(t), ClearPending(t) PROVE ClosureInv'
  <2>1. /\ pc[t] = "clear" /\ t \in Threads /\ pending' = <<>>
        /\ pc' = [pc EXCEPT ![t] = "release"]
        /\ UNCHANGED <<queue, held, word, cur, refused>>
    BY <1>0, <1>6 DEF ExecuteStep, ClearPending, mvars, Goto
  <2>2. \A n : Carriers(n)' = Carriers(n)
    BY <2>1, CarrierRest DEF CarrierPC
  <2>3. \A n \in Mailboxes \ refused : OneOf(n)'
    BY <1>0, <2>1, <2>2, OneOfCleared
  <2> QED
    BY <1>0, <2>1, <2>3 DEF ClosureInv, QueueInv
<1>7. ASSUME NEW t \in Callers, ExecuteStep(t),
             ClaimSlot(t) \/ ReleaseSlot(t) \/ Recheck(t) \/ ReclaimSlot(t)
      PROVE  ClosureInv'
  <2>1. /\ pc[t] \in {"claim", "release", "recheck", "reclaim"} /\ t \in Threads
        /\ \E label \in {"answered", "pop", "recheck", "reclaim"} :
             pc' = [pc EXCEPT ![t] = label]
        /\ UNCHANGED <<pending, queue, held, word, cur, refused>>
    BY <1>0, <1>7 DEF ExecuteStep, ClaimSlot, ReleaseSlot, Recheck, ReclaimSlot, mvars, Goto
  <2>2. \A n : Carriers(n)' = Carriers(n)
    BY <2>1, CarrierRest DEF CarrierPC
  <2>3. \A n \in Mailboxes \ refused : OneOf(n)'
    BY <1>0, <2>1, <2>2, OneOfUnmoved
  <2> QED
    BY <1>0, <2>1, <2>3 DEF ClosureInv, QueueInv
<1>8. ASSUME NEW t \in Callers, Registered(t) PROVE ClosureInv'
  <2>1. /\ pc[t] = "answered" /\ t \in Threads
        /\ pc' = [pc EXCEPT ![t] = "idle"] /\ cur' = [cur EXCEPT ![t] = NoTask]
        /\ UNCHANGED <<pending, queue, held>>
        /\ refused \subseteq refused'
        /\ \A n \in Mailboxes \ refused' : word'[n] = word[n]
    BY <1>0, <1>8 DEF Registered, Goto
  <2>2. \A n : Carriers(n)' = Carriers(n)
    BY <2>1, CarrierRest DEF CarrierPC
  <2>3. \A n \in Mailboxes \ refused' : OneOf(n)'
    BY <1>0, <2>1, <2>2, OneOfUnmoved
  <2> QED
    BY <1>0, <2>1, <2>3 DEF ClosureInv, QueueInv
<1>9. ASSUME NEW w \in Workers, StartRun(w) PROVE ClosureInv'
  <2>1. PICK m \in Mailboxes :
           /\ queue[w] # <<>> /\ m = Head(queue[w])
           /\ queue' = [queue EXCEPT ![w] = Tail(queue[w])]
           /\ cur' = [cur EXCEPT ![w] = m]
           /\ \E label \in {"idle", "startClosed", "start"} : pc' = [pc EXCEPT ![w] = label]
    BY <1>9 DEF StartRun, Goto, Receive
  <2>2. pc[w] = "idle" /\ w \in Threads /\ w \in Callers
        /\ UNCHANGED <<pending, held, word, refused>>
    BY <1>0, <1>9 DEF StartRun
  <2>3. queue'[w] = Tail(queue[w]) /\ \A v \in Workers \ {w} : queue'[v] = queue[v]
    BY <1>0, <2>1
  <2>4. m \in Range(queue[w]) /\ Range(queue[w]) = Range(queue'[w]) \cup {m}
    BY <1>0, <2>1, <2>3, RangeTail
  <2>5. Affinity[m] = w /\ Accepted(m)
    BY <1>0, <2>4 DEF QueueInv, Accepted
  <2>6. QueueInv'
    BY <1>0, <2>3, <2>4 DEF QueueInv
  <2>7. \A n : Carriers(n)' \subseteq Carriers(n) \cup {u \in {w} : n = m}
    <3> SUFFICES ASSUME NEW n PROVE Carriers(n)' \subseteq Carriers(n) \cup {u \in {w} : n = m}
      OBVIOUS
    <3>1. PICK label : pc' = [pc EXCEPT ![w] = label]
      BY <2>1
    <3>2. cur'[w] = m
      BY <2>1, <2>2 DEF TypeOK
    <3>3. Carriers(n)' = Carriers(n) \ {w} \/ (n = m /\ Carriers(n)' = Carriers(n) \cup {w})
      BY <2>1, <2>2, <3>1, <3>2, CarrierMove
    <3> QED
      BY <3>3
  <2>8. ASSUME NEW n \in Mailboxes \ refused PROVE OneOf(n)'
    <3>1. OneOf(n) /\ Holders(n)' = Holders(n)
      BY <1>0, <2>2, <2>8 DEF Holders
    <3>2. IsBusy(word[n])' <=> IsBusy(word[n])
      BY <2>2 DEF IsBusy
    <3>3. AtMostOnce(queue'[Affinity[n]], n)
      <4>1. CASE Affinity[n] = w
        BY <1>0, <2>1, <2>3, <3>1, <4>1, OnceTail DEF OneOf
      <4>2. CASE Affinity[n] # w
        BY <2>3, <2>8, <3>1, <4>2 DEF OneOf
      <4> QED
        BY <4>1, <4>2
    <3>4. AtMostOnce(pending', n) /\ pending' = pending
      BY <2>2, <3>1 DEF OneOf
    <3>5. CASE n = m
      <4>1. ~Accepted(n)'
        <5>1. AtMostOnce(queue[w], m)
          BY <2>5, <3>1, <3>5 DEF OneOf
        <5>2. m \notin Range(Tail(queue[w]))
          BY <1>0, <2>1, <5>1, OnceTail
        <5> QED
          BY <2>3, <2>5, <3>5, <5>2 DEF Accepted
      <4>2. Carriers(n) = {} /\ Holders(n) = {} /\ n \notin Range(pending) /\ IsBusy(word[n])
        BY <2>5, <3>1, <3>5 DEF OneOf
      <4>3. Carriers(n)' \subseteq {w}
        BY <2>7, <4>2
      <4> QED
        BY <3>1, <3>2, <3>3, <3>4, <4>1, <4>2, <4>3 DEF OneOf
    <3>6. CASE n # m
      <4>1. Accepted(n)' <=> Accepted(n)
        <5>1. CASE Affinity[n] = w
          BY <2>4, <3>6, <5>1 DEF Accepted
        <5>2. CASE Affinity[n] # w
          BY <2>3, <2>8, <5>2 DEF Accepted
        <5> QED
          BY <5>1, <5>2
      <4>2. Carriers(n)' \subseteq Carriers(n)
        BY <2>7, <3>6
      <4> QED
        BY <3>1, <3>2, <3>3, <3>4, <4>1, <4>2 DEF OneOf
    <3> QED
      BY <3>5, <3>6
  <2> QED
    BY <2>2, <2>6, <2>8 DEF ClosureInv
<1>10. ASSUME NEW w \in Workers, SetRunning(w) \/ Drain(w) \/ Invoked(w) PROVE ClosureInv'
  <2>1. /\ pc[w] \in CarrierPC /\ w \in Threads /\ cur[w] \in Mailboxes /\ w \in Callers
        /\ \E label \in CarrierPC : pc' = [pc EXCEPT ![w] = label]
        /\ UNCHANGED <<pending, queue, held, cur, refused>>
        /\ word' = word \/ word' = [word EXCEPT ![cur[w]] = Running(word[cur[w]])]
    BY <1>0, <1>10 DEF SetRunning, Drain, Invoked, Goto, executor, mvars, CarrierPC,
       TypeOK, MailboxPC
  <2>2. \A n : Carriers(n)' = Carriers(n)
    <3> SUFFICES ASSUME NEW n PROVE Carriers(n)' = Carriers(n)
      OBVIOUS
    <3>1. PICK label \in CarrierPC : pc' = [pc EXCEPT ![w] = label]
      BY <2>1
    <3>2. w \in Carriers(n) <=> cur[w] = n
      BY <2>1 DEF Carriers, CarrierPC
    <3>3. CASE cur[w] = n
      <4>1. Carriers(n)' = Carriers(n) \cup {w}
        BY <2>1, <3>1, <3>3, CarrierMove
      <4> QED
        BY <3>2, <3>3, <4>1
    <3>4. CASE cur[w] # n
      <4>1. Carriers(n)' = Carriers(n) \ {w}
        BY <2>1, <3>1, <3>4, CarrierMove
      <4> QED
        BY <3>2, <3>4, <4>1
    <3> QED
      BY <3>3, <3>4
  <2>3. \A n \in Mailboxes : IsBusy(word[n]) => IsBusy(word[n])'
    <3> SUFFICES ASSUME NEW n \in Mailboxes, IsBusy(word[n]) PROVE IsBusy(word[n])'
      OBVIOUS
    <3>1. CASE word' = word
      BY <3>1 DEF IsBusy
    <3>2. CASE word' = [word EXCEPT ![cur[w]] = Running(word[cur[w]])]
      <4>1. word'[n] = IF n = cur[w] THEN Running(word[n]) ELSE word[n]
        BY <1>0, <2>1, <3>2
      <4> QED
        BY <1>0, <4>1, WordOps DEF IsBusy
    <3> QED
      BY <2>1, <3>1, <3>2
  <2>4. \A n \in Mailboxes \ refused : OneOf(n)'
    BY <1>0, <2>1, <2>2, <2>3, OneOfUnmoved
  <2> QED
    BY <1>0, <2>1, <2>4 DEF ClosureInv, QueueInv
<1>11. ASSUME NEW w \in Workers, FinishRun(w) PROVE ClosureInv'
  <2>0. PICK m : m = cur[w]
    OBVIOUS
  <2>1. /\ pc[w] = "finish" /\ w \in Threads /\ m \in Mailboxes /\ w \in Callers
        /\ \E label \in {"finalize", "schedule", "idle"} : pc' = [pc EXCEPT ![w] = label]
        /\ UNCHANGED <<pending, queue, held, cur, refused>>
        /\ \A n \in Mailboxes \ {m} : word'[n] = word[n]
    BY <2>0, <1>0, <1>11 DEF FinishRun, Goto, executor, TypeOK, MailboxPC
  <2>2. \A n : Carriers(n)' = Carriers(n) \ {w}
    <3>1. PICK label \in {"finalize", "schedule", "idle"} : pc' = [pc EXCEPT ![w] = label]
      BY <2>0, <2>1
    <3> QED
      BY <2>0, <2>1, <3>1, CarrierMove DEF CarrierPC
  <2>3. w \in Carriers(m) /\ \A n : n # m => w \notin Carriers(n)
    BY <2>0, <2>1 DEF Carriers
  <2>4. ASSUME NEW n \in Mailboxes \ refused PROVE OneOf(n)'
    <3>1. OneOf(n) /\ Holders(n)' = Holders(n) /\ Accepted(n)' = Accepted(n)
      BY <2>0, <1>0, <2>1, <2>4 DEF Holders, Accepted
    <3>2. CASE n = m
      <4>1. /\ n \notin Range(pending) /\ Holders(n) = {} /\ ~Accepted(n)
            /\ Carriers(n)' = {}
        BY <2>0, <2>2, <2>3, <3>1, <3>2 DEF OneOf
      <4>2. AtMostOnce(pending', n) /\ AtMostOnce(queue'[Affinity[n]], n) /\ pending' = pending
        BY <2>0, <2>1, <3>1 DEF OneOf
      <4> QED
        BY <2>0, <3>1, <4>1, <4>2 DEF OneOf
    <3>3. CASE n # m
      <4>1. Carriers(n)' = Carriers(n)
        BY <2>2, <2>3, <3>3
      <4>2. word'[n] = word[n]
        BY <2>1, <2>4, <3>3
      <4>3. IsBusy(word[n])' <=> IsBusy(word[n])
        BY <4>2 DEF IsBusy
      <4>4. UNCHANGED <<pending, queue, held>>
        BY <2>1
      <4>5. AtMostOnce(pending', n) /\ AtMostOnce(queue'[Affinity[n]], n)
        BY <3>1, <4>4 DEF OneOf
      <4> QED
        BY <3>1, <4>1, <4>3, <4>4, <4>5 DEF OneOf
    <3> QED
      BY <2>0, <3>2, <3>3
  <2> QED
    BY <2>0, <1>0, <2>1, <2>4 DEF ClosureInv, QueueInv
<1>12. ASSUME NEW c \in Closers, NEW m \in Mailboxes, Detach(c, m) PROVE ClosureInv'
  <2>1. /\ c \in Threads /\ c \notin Callers
        /\ \E label \in {"finalize", "detached"} : pc' = [pc EXCEPT ![c] = label]
        /\ cur' = [cur EXCEPT ![c] = m]
        /\ word' = [word EXCEPT ![m] = CloseRequested(word[m])]
        /\ UNCHANGED <<pending, queue, held, refused>>
    BY <1>12 DEF Detach, Goto, executor, Threads
  <2>2. \A n : Carriers(n)' = Carriers(n)
    BY <2>1, CarrierRest
  <2>3. \A n \in Mailboxes : IsBusy(word[n]) => IsBusy(word[n])'
    BY <1>0, <2>1, CloseOps DEF IsBusy
  <2>4. \A n \in Mailboxes \ refused : OneOf(n)'
    BY <1>0, <2>1, <2>2, <2>3, OneOfUnmoved
  <2> QED
    BY <1>0, <2>1, <2>4 DEF ClosureInv, QueueInv
<1>13. ASSUME NEW t \in Workers \cup Closers, FinalizeCleanup(t) PROVE ClosureInv'
  <2>1. /\ pc[t] = "finalize" /\ t \in Threads /\ cur[t] \in Mailboxes
        /\ \E label \in {"idle", "detached"} : pc' = [pc EXCEPT ![t] = label]
        /\ word' = [word EXCEPT ![cur[t]] = Cleaned(word[cur[t]])]
        /\ UNCHANGED <<pending, queue, held, cur, refused>>
    BY <1>0, <1>13 DEF FinalizeCleanup, Goto, executor, Threads, TypeOK, MailboxPC
  <2>2. \A n : Carriers(n)' = Carriers(n)
    BY <2>1, CarrierRest DEF CarrierPC
  <2>3. \A n \in Mailboxes : IsBusy(word[n]) => IsBusy(word[n])'
    BY <1>0, <2>1, WordOps DEF IsBusy
  <2>4. \A n \in Mailboxes \ refused : OneOf(n)'
    BY <1>0, <2>1, <2>2, <2>3, OneOfUnmoved
  <2> QED
    BY <1>0, <2>1, <2>4 DEF ClosureInv, QueueInv
<1>14. ASSUME NEW t \in Stoppers, Stop(t) PROVE ClosureInv'
  <2>1. /\ t \in Threads /\ t \notin Callers
        /\ \E label \in {"joining", "shutdown", "stopped"} : pc' = [pc EXCEPT ![t] = label]
        /\ UNCHANGED <<queue, held, word, cur, refused>>
        /\ pending' = pending \/ pending' = <<>>
    BY <1>14 DEF Stop, ShutdownInner, JoinWorkers, ShutdownClear, Goto, mvars, Threads
  <2>2. \A n : Carriers(n)' = Carriers(n)
    BY <2>1, CarrierRest
  <2>3. \A n \in Mailboxes \ refused : OneOf(n)'
    BY <1>0, <2>1, <2>2, OneOfUnmoved, OneOfCleared
  <2> QED
    BY <1>0, <2>1, <2>3 DEF ClosureInv, QueueInv
<1>15. CASE UNCHANGED vars
  <2>1. UNCHANGED <<pending, queue, held, word, pc, cur, refused>>
    BY <1>15 DEF vars, evars, mvars
  <2>2. \A n \in Mailboxes \ refused : OneOf(n)'
    <3>1. \A n : Carriers(n)' = Carriers(n)
      BY <2>1 DEF Carriers
    <3> QED
      BY <1>0, <2>1, <3>1, OneOfUnmoved
  <2> QED
    BY <1>0, <2>1, <2>2 DEF ClosureInv, QueueInv
<1> QED
  BY <1>1, <1>2, <1>3, <1>4, <1>5, <1>6, <1>7, <1>8, <1>9, <1>10, <1>11, <1>12, <1>13,
     <1>14, <1>15 DEF Next, ExecuteStep, Execute

-----------------------------------------------------------------------------
(* Runs and finalizers                                                     *)

\* The run of a mailbox that was not rolled back shows in the schedule word,
\* and no finalizer was elected when the handler was entered.
RunInv ==
  \A m \in Mailboxes \ refused, w \in Workers :
    cur[w] = m =>
      /\ pc[w] \in {"drain", "invoke", "finish"} => "RUNNING" \in word[m].flags
      /\ pc[w] = "invoke" => "FINALIZER_OWNED" \notin word[m].flags

\* A finalizer is elected by a close, once, and finishes the cleanup it owns.
FinalInv ==
  \A m \in Mailboxes :
    /\ "FINALIZER_OWNED" \in word[m].flags => IsCloseRequested(word[m])
    /\ \A t \in Finalizers(m) :
         "FINALIZER_OWNED" \in word[m].flags /\ ~IsCleanupDone(word[m])
    /\ \A t, u \in Finalizers(m) : t = u

RunPC == {"drain", "invoke", "finish"}

\* How a thread that moves changes the finalizers of a mailbox.
LEMMA FinalizerMove ==
  ASSUME TypeOK, NEW t \in Threads, NEW label, NEW m,
         pc' = [pc EXCEPT ![t] = label],
         cur' = cur \/ \E x : cur' = [cur EXCEPT ![t] = x]
  PROVE  /\ label = "finalize" /\ cur'[t] = m => Finalizers(m)' \subseteq Finalizers(m) \cup {t}
         /\ ~(label = "finalize" /\ cur'[t] = m) => Finalizers(m)' \subseteq Finalizers(m) \ {t}
<1>1. /\ pc'[t] = label /\ \A u \in Threads \ {t} : pc'[u] = pc[u] /\ cur'[u] = cur[u]
      /\ Workers \cup Closers \subseteq Threads
  BY ComposedAssumption DEF TypeOK, Threads
<1> QED
  BY <1>1 DEF Finalizers

\* A step that elects nobody and cleans nothing up keeps the finalizers.
LEMMA FinalKept ==
  ASSUME FinalInv,
         \A m \in Mailboxes : Finalizers(m)' \subseteq Finalizers(m),
         \A m \in Mailboxes :
           \A f \in {"CLOSE_REQUESTED", "FINALIZER_OWNED", "CLEANUP_DONE"} :
             f \in word'[m].flags <=> f \in word[m].flags
  PROVE  FinalInv'
  BY DEF FinalInv, IsCloseRequested, IsCleanupDone

\* A thread that neither runs a mailbox nor finalizes one after the step, and
\* leaves the flags of the mailboxes alone, disturbs no run and no finalizer.
LEMMA QuietStep ==
  ASSUME TypeOK, RunInv, FinalInv, NEW t \in Threads, NEW label,
         pc' = [pc EXCEPT ![t] = label], label \notin RunPC \cup {"finalize"},
         cur' = cur \/ \E x : cur' = [cur EXCEPT ![t] = x],
         refused \subseteq refused',
         \A m \in Mailboxes :
           \A f \in {"CLOSE_REQUESTED", "FINALIZER_OWNED", "CLEANUP_DONE"} :
             f \in word'[m].flags <=> f \in word[m].flags,
         \A m \in Mailboxes \ refused' : "RUNNING" \in word[m].flags => "RUNNING" \in word'[m].flags
  PROVE  RunInv' /\ FinalInv'
<1>1. /\ pc'[t] = label /\ \A u \in Threads \ {t} : pc'[u] = pc[u] /\ cur'[u] = cur[u]
      /\ Workers \subseteq Threads
  BY ComposedAssumption DEF TypeOK, Threads
<1>2. \A m \in Mailboxes : Finalizers(m)' \subseteq Finalizers(m)
  BY FinalizerMove
<1>3. FinalInv'
  BY <1>2, FinalKept
<1>4. RunInv'
  <2> SUFFICES ASSUME NEW m \in Mailboxes \ refused', NEW w \in Workers, cur'[w] = m,
                      pc'[w] \in RunPC
               PROVE  /\ "RUNNING" \in word'[m].flags
                      /\ pc'[w] = "invoke" => "FINALIZER_OWNED" \notin word'[m].flags
    BY DEF RunInv, RunPC
  <2>1. w # t /\ pc[w] = pc'[w] /\ cur[w] = m /\ m \notin refused
    BY <1>1
  <2>2. /\ "RUNNING" \in word[m].flags
        /\ pc[w] = "invoke" => "FINALIZER_OWNED" \notin word[m].flags
    BY <2>1 DEF RunInv, RunPC
  <2> QED
    BY <2>1, <2>2
<1> QED
  BY <1>3, <1>4

\* Every step keeps the runs and the finalizers apart.
LEMMA RunStep ==
  ASSUME TypeOK, ClosureInv, RunInv, FinalInv, [Next]_vars
  PROVE  RunInv' /\ FinalInv'
<1> USE ThreadsAssumption, TasksAssumption, ComposedAssumption
<1>0. /\ word \in [Mailboxes -> Word] /\ Callers \subseteq Threads /\ Workers \subseteq Callers
      /\ Closers \subseteq Threads /\ Stoppers \subseteq Threads
      /\ pc \in [Threads -> ExecutePC \cup MailboxPC \cup RestPC]
      /\ cur \in [Threads -> Mailboxes \cup {NoTask}]
      /\ \A t \in Threads : pc[t] \in ExecutePC \cup MailboxPC => cur[t] \in Mailboxes
  BY DEF TypeOK, Threads
<1>1. ASSUME NEW s \in Senders, NEW m \in Mailboxes, Dispatch(s, m) PROVE RunInv' /\ FinalInv'
  <2>1. /\ s \in Threads /\ pc' = [pc EXCEPT ![s] = "schedule"]
        /\ cur' = [cur EXCEPT ![s] = m] /\ word' = word /\ refused' = refused
    BY <1>0, <1>1 DEF Dispatch, Goto
  <2> QED
    BY <2>1, QuietStep DEF RunPC
<1>2. ASSUME NEW t \in Callers, RequestSchedule(t) PROVE RunInv' /\ FinalInv'
  <2>1. /\ t \in Threads /\ \E label \in {"idle", "submit"} : pc' = [pc EXCEPT ![t] = label]
        /\ cur' = cur /\ refused' = refused /\ cur[t] \in Mailboxes
        /\ word' = word \/ word' = [word EXCEPT ![cur[t]] = Scheduled(word[cur[t]])]
    BY <1>0, <1>2 DEF RequestSchedule, Goto, MailboxPC
  <2>2. \A m \in Mailboxes : \A f \in Flag \ {"SCHEDULED"} :
          f \in word'[m].flags <=> f \in word[m].flags
    BY <1>0, <2>1, WordOps
  <2> QED
    BY <2>1, <2>2, QuietStep DEF RunPC, Flag
<1>3. ASSUME NEW t \in Callers, Submit(t) \/ ExecuteStep(t) PROVE RunInv' /\ FinalInv'
  <2>1. /\ t \in Threads /\ word' = word /\ cur' = cur /\ refused' = refused
    BY <1>0, <1>3 DEF Submit, ExecuteStep, mvars
  <2>2. \E label \in ExecutePC : pc' = [pc EXCEPT ![t] = label]
    BY <1>3 DEF Submit, PushTask, ExecuteStep, Execute, ClaimSlot, PopTask, HandOver, ClearPending,
       ReleaseSlot, Recheck, ReclaimSlot, Goto, ExecutePC
  <2> QED
    BY <2>1, <2>2, QuietStep DEF RunPC, ExecutePC
<1>4. ASSUME NEW t \in Callers, Registered(t) PROVE RunInv' /\ FinalInv'
  <2>1. /\ t \in Threads /\ pc' = [pc EXCEPT ![t] = "idle"] /\ cur' = [cur EXCEPT ![t] = NoTask]
        /\ refused \subseteq refused' /\ cur[t] \in Mailboxes
    BY <1>0, <1>4 DEF Registered, Goto, ExecutePC
  <2>2. \/ word' = word
        \/ word' = [word EXCEPT ![cur[t]] = Idle(word[cur[t]])] /\ cur[t] \in refused'
    BY <1>4 DEF Registered
  <2>3. \A m \in Mailboxes : \A f \in Flag \ {"SCHEDULED", "RUNNING"} :
          f \in word'[m].flags <=> f \in word[m].flags
    BY <1>0, <2>1, <2>2, WordOps
  <2>4. \A m \in Mailboxes \ refused' : word'[m] = word[m]
    BY <1>0, <2>1, <2>2
  <2> QED
    BY <2>1, <2>3, <2>4, QuietStep DEF RunPC, Flag
<1>5. ASSUME NEW w \in Workers, StartRun(w) PROVE RunInv' /\ FinalInv'
  <2>1. /\ w \in Threads /\ word' = word /\ refused' = refused
        /\ \E m \in Mailboxes : cur' = [cur EXCEPT ![w] = m]
        /\ \E label \in {"idle", "startClosed", "start"} : pc' = [pc EXCEPT ![w] = label]
    BY <1>0, <1>5 DEF StartRun, Goto
  <2> QED
    BY <2>1, QuietStep DEF RunPC
<1>6. ASSUME NEW w \in Workers, SetRunning(w) PROVE RunInv' /\ FinalInv'
  <2>0. PICK m : m = cur[w]
    OBVIOUS
  <2>1. /\ m \in Mailboxes /\ w \in Threads /\ cur' = cur /\ refused' = refused
        /\ word' = [word EXCEPT ![m] = Running(word[m])]
        /\ \E label \in {"drain", "finish"} : pc' = [pc EXCEPT ![w] = label]
    BY <1>0, <1>6, <2>0 DEF SetRunning, Goto, MailboxPC
  <2>2. \A n \in Mailboxes : \A f \in Flag \ {"SCHEDULED", "RUNNING"} :
          f \in word'[n].flags <=> f \in word[n].flags
    BY <1>0, <2>1, WordOps
  <2>3. "RUNNING" \in word'[m].flags
    BY <1>0, <2>1, WordOps
  <2>4. \A n \in Mailboxes : "RUNNING" \in word[n].flags => "RUNNING" \in word'[n].flags
    BY <1>0, <2>1, <2>3
  <2>5. FinalInv'
    <3>1. \A n \in Mailboxes : Finalizers(n)' \subseteq Finalizers(n)
      BY <2>1, FinalizerMove
    <3> QED
      BY <2>2, <3>1, FinalKept DEF Flag
  <2>6. RunInv'
    BY <1>0, <2>0, <2>1, <2>2, <2>3, <2>4 DEF RunInv, Flag
  <2> QED
    BY <2>5, <2>6
<1>7. ASSUME NEW w \in Workers, Drain(w) \/ Invoked(w) PROVE RunInv' /\ FinalInv'
  <2>0. PICK m : m = cur[w]
    OBVIOUS
  <2>1. /\ m \in Mailboxes /\ w \in Threads /\ cur' = cur /\ refused' = refused
        /\ word' = word /\ pc[w] \in {"drain", "invoke"}
        /\ \/ \E label \in {"drain", "finish"} : pc' = [pc EXCEPT ![w] = label]
           \/ pc' = [pc EXCEPT ![w] = "invoke"] /\ ~IsCloseRequested(word[m])
    BY <1>0, <1>7, <2>0 DEF Drain, Invoked, Goto, MailboxPC, mvars
  <2>2. FinalInv'
    <3>1. \A n \in Mailboxes : Finalizers(n)' \subseteq Finalizers(n)
      BY <2>1, FinalizerMove
    <3> QED
      BY <2>1, <3>1, FinalKept
  <2>3. RunInv'
    <3> SUFFICES ASSUME NEW n \in Mailboxes \ refused, NEW v \in Workers, cur[v] = n,
                        pc'[v] \in RunPC
                 PROVE  /\ "RUNNING" \in word[n].flags
                        /\ pc'[v] = "invoke" => "FINALIZER_OWNED" \notin word[n].flags
      BY <2>1 DEF RunInv, RunPC
    <3>1. pc[v] \in RunPC
      BY <1>0, <2>1 DEF RunPC
    <3>2. "RUNNING" \in word[n].flags
      BY <3>1 DEF RunInv, RunPC
    <3>3. ASSUME pc'[v] = "invoke" PROVE "FINALIZER_OWNED" \notin word[n].flags
      <4>1. CASE v = w
        <5>1. ~IsCloseRequested(word[n])
          BY <1>0, <2>0, <2>1, <3>3, <4>1
        <5> QED
          BY <5>1 DEF FinalInv
      <4>2. CASE v # w
        BY <1>0, <2>1, <3>3, <4>2 DEF RunInv
      <4> QED
        BY <4>1, <4>2
    <3> QED
      BY <3>2, <3>3
  <2> QED
    BY <2>2, <2>3
<1>8. ASSUME NEW w \in Workers, FinishRun(w) PROVE RunInv' /\ FinalInv'
  <2>0. PICK m : m = cur[w]
    OBVIOUS
  <2>1. /\ m \in Mailboxes /\ w \in Threads /\ cur' = cur /\ refused' = refused
        /\ word' = [word EXCEPT ![m] = RunFinished(word[m])] /\ pc[w] = "finish"
    BY <1>0, <1>8, <2>0 DEF FinishRun, MailboxPC
  <2>2. PICK label \in {"finalize", "schedule", "idle"} :
           /\ pc' = [pc EXCEPT ![w] = label]
           /\ label = "finalize" <=> RunnerFinalizes(word[m])
    BY <1>8, <2>0 DEF FinishRun, Goto
  <2>3. /\ word'[m].flags = (word[m].flags \ {"SCHEDULED", "RUNNING"})
                            \cup IF RunnerFinalizes(word[m]) THEN {"FINALIZER_OWNED"} ELSE {}
        /\ \A n \in Mailboxes \ {m} : word'[n] = word[n]
    BY <1>0, <2>1, CloseOps
  <2>4. RunInv'
    <3> SUFFICES ASSUME NEW n \in Mailboxes \ refused, NEW v \in Workers, cur[v] = n,
                        pc'[v] \in RunPC
                 PROVE  /\ "RUNNING" \in word'[n].flags
                        /\ pc'[v] = "invoke" => "FINALIZER_OWNED" \notin word'[n].flags
      BY <2>1 DEF RunInv, RunPC
    <3>1. v # w /\ pc[v] = pc'[v]
      BY <1>0, <2>1, <2>2 DEF RunPC
    <3>2. n # m
      <4> SUFFICES ASSUME n = m PROVE FALSE
        OBVIOUS
      <4>1. v \in Carriers(n) /\ w \in Carriers(n)
        BY <1>0, <2>0, <2>1, <3>1 DEF Carriers, RunPC
      <4> QED
        BY <3>1, <4>1 DEF ClosureInv, OneOf
    <3> QED
      BY <2>3, <3>1, <3>2 DEF RunInv, RunPC
  <2>5. FinalInv'
    <3> SUFFICES ASSUME NEW n \in Mailboxes
                 PROVE  /\ "FINALIZER_OWNED" \in word'[n].flags => IsCloseRequested(word'[n])
                        /\ \A t \in Finalizers(n)' :
                             "FINALIZER_OWNED" \in word'[n].flags /\ ~IsCleanupDone(word'[n])
                        /\ \A t, u \in Finalizers(n)' : t = u
      BY DEF FinalInv
    <3>1. CASE RunnerFinalizes(word[m]) /\ n = m
      <4>1. Finalizers(n) = {}
        BY <3>1 DEF FinalInv, RunnerFinalizes
      <4>2. Finalizers(n)' \subseteq Finalizers(n) \cup {w}
        BY <2>1, <2>2, FinalizerMove
      <4> QED
        BY <2>3, <3>1, <4>1, <4>2 DEF RunnerFinalizes, IsCloseRequested, IsCleanupDone
    <3>2. CASE ~(RunnerFinalizes(word[m]) /\ n = m)
      <4>1. Finalizers(n)' \subseteq Finalizers(n)
        <5>1. ~(label = "finalize" /\ cur'[w] = n)
          BY <2>0, <2>1, <2>2, <3>2
        <5> QED
          BY <2>1, <2>2, <5>1, FinalizerMove
      <4>2. \A f \in {"CLOSE_REQUESTED", "FINALIZER_OWNED", "CLEANUP_DONE"} :
              f \in word'[n].flags <=> f \in word[n].flags
        BY <2>3, <3>2
      <4> QED
        BY <4>1, <4>2 DEF FinalInv, IsCloseRequested, IsCleanupDone
    <3> QED
      BY <3>1, <3>2
  <2> QED
    BY <2>4, <2>5
<1>9. ASSUME NEW c \in Closers, NEW m \in Mailboxes, Detach(c, m) PROVE RunInv' /\ FinalInv'
  <2>1. /\ c \in Threads /\ c \notin Workers /\ cur' = [cur EXCEPT ![c] = m]
        /\ refused' = refused /\ word' = [word EXCEPT ![m] = CloseRequested(word[m])]
    BY <1>0, <1>9 DEF Detach
  <2>2. PICK label \in {"finalize", "detached"} :
           /\ pc' = [pc EXCEPT ![c] = label]
           /\ label = "finalize" <=> CallerOwnsFinalizer(word[m])
    BY <1>9 DEF Detach, Goto
  <2>3. /\ word[m] \in Word /\ word'[m] = CloseRequested(word[m])
        /\ \A n \in Mailboxes \ {m} : word'[n] = word[n]
    BY <1>0, <2>1
  <2>4. /\ IsCleanupDone(word[m]) => word'[m] = word[m]
        /\ ~IsCleanupDone(word[m]) =>
             word'[m].flags =
               word[m].flags \cup {"CLOSE_REQUESTED"}
                 \cup IF CallerOwnsFinalizer(word[m]) THEN {"FINALIZER_OWNED"} ELSE {}
    BY <2>3, CloseOps
  <2>5. \A v \in Workers : pc'[v] = pc[v] /\ cur'[v] = cur[v]
    BY <1>0, <2>1, <2>2
  <2>6. RunInv'
    <3> SUFFICES ASSUME NEW n \in Mailboxes \ refused, NEW v \in Workers, cur[v] = n,
                        pc[v] \in RunPC
                 PROVE  /\ "RUNNING" \in word'[n].flags
                        /\ pc[v] = "invoke" => "FINALIZER_OWNED" \notin word'[n].flags
      BY <2>1, <2>5 DEF RunInv, RunPC
    <3>1. /\ "RUNNING" \in word[n].flags
          /\ pc[v] = "invoke" => "FINALIZER_OWNED" \notin word[n].flags
      BY DEF RunInv, RunPC
    <3>2. CASE n = m
      BY <2>4, <3>1, <3>2 DEF CallerOwnsFinalizer
    <3>3. CASE n # m
      BY <2>3, <3>1, <3>3
    <3> QED
      BY <3>2, <3>3
  <2>7. FinalInv'
    <3> SUFFICES ASSUME NEW n \in Mailboxes
                 PROVE  /\ "FINALIZER_OWNED" \in word'[n].flags => IsCloseRequested(word'[n])
                        /\ \A t \in Finalizers(n)' :
                             "FINALIZER_OWNED" \in word'[n].flags /\ ~IsCleanupDone(word'[n])
                        /\ \A t, u \in Finalizers(n)' : t = u
      BY DEF FinalInv
    <3>1. CASE CallerOwnsFinalizer(word[m]) /\ n = m
      <4>1. Finalizers(n) = {} /\ ~IsCleanupDone(word[m])
        BY <3>1 DEF FinalInv, CallerOwnsFinalizer
      <4>2. Finalizers(n)' \subseteq Finalizers(n) \cup {c}
        BY <2>1, <2>2, FinalizerMove
      <4> QED
        BY <2>4, <3>1, <4>1, <4>2 DEF IsCloseRequested, IsCleanupDone
    <3>2. CASE ~(CallerOwnsFinalizer(word[m]) /\ n = m)
      <4>1. Finalizers(n)' \subseteq Finalizers(n)
        <5>1. cur'[c] = m
          BY <1>0, <2>1
        <5>2. ~(label = "finalize" /\ cur'[c] = n)
          BY <2>2, <3>2, <5>1
        <5> QED
          BY <2>1, <2>2, <5>2, FinalizerMove
      <4>2. /\ "FINALIZER_OWNED" \in word'[n].flags <=> "FINALIZER_OWNED" \in word[n].flags
            /\ "CLEANUP_DONE" \in word'[n].flags <=> "CLEANUP_DONE" \in word[n].flags
            /\ "CLOSE_REQUESTED" \in word[n].flags => "CLOSE_REQUESTED" \in word'[n].flags
        BY <2>3, <2>4, <3>2
      <4> QED
        BY <4>1, <4>2 DEF FinalInv, IsCloseRequested, IsCleanupDone
    <3> QED
      BY <3>1, <3>2
  <2> QED
    BY <2>6, <2>7
<1>10. ASSUME NEW t \in Workers \cup Closers, FinalizeCleanup(t) PROVE RunInv' /\ FinalInv'
  <2>0. PICK m : m = cur[t]
    OBVIOUS
  <2>1. /\ m \in Mailboxes /\ t \in Threads /\ cur' = cur /\ refused' = refused
        /\ word' = [word EXCEPT ![m] = Cleaned(word[m])] /\ pc[t] = "finalize"
        /\ \E label \in {"idle", "detached"} : pc' = [pc EXCEPT ![t] = label]
    BY <1>0, <1>10, <2>0 DEF FinalizeCleanup, Goto, MailboxPC
  <2>2. \A n \in Mailboxes : \A f \in Flag \ {"CLEANUP_DONE"} :
          f \in word'[n].flags <=> f \in word[n].flags
    BY <1>0, <2>1, WordOps
  <2>3. RunInv'
    BY <1>0, <2>1, <2>2 DEF RunInv, Flag
  <2>4. t \in Finalizers(m)
    BY <2>0, <2>1, <1>10 DEF Finalizers
  <2>5. \A n : Finalizers(n)' \subseteq Finalizers(n) \ {t}
    BY <2>1, FinalizerMove
  <2>6. Finalizers(m)' = {}
    BY <2>1, <2>4, <2>5 DEF FinalInv
  <2>7. \A n \in Mailboxes \ {m} : word'[n] = word[n]
    BY <1>0, <2>1
  <2>8. FinalInv'
    BY <2>2, <2>5, <2>6, <2>7 DEF FinalInv, Flag, IsCloseRequested, IsCleanupDone
  <2> QED
    BY <2>3, <2>8
<1>11. ASSUME NEW t \in Stoppers, Stop(t) PROVE RunInv' /\ FinalInv'
  <2>1. /\ t \in Threads /\ word' = word /\ refused' = refused /\ cur' = cur
        /\ \E label \in {"joining", "shutdown", "stopped"} : pc' = [pc EXCEPT ![t] = label]
    BY <1>0, <1>11 DEF Stop, ShutdownInner, JoinWorkers, ShutdownClear, Goto, mvars
  <2> QED
    BY <2>1, QuietStep DEF RunPC
<1>12. CASE UNCHANGED vars
  BY <1>12 DEF vars, evars, mvars, RunInv, FinalInv, Finalizers
<1> QED
  BY <1>1, <1>2, <1>3, <1>4, <1>5, <1>6, <1>7, <1>8, <1>9, <1>10, <1>11, <1>12 DEF Next

-----------------------------------------------------------------------------
(* The theorems                                                            *)

IInv == TypeOK /\ WorkInv /\ ClosureInv /\ RunInv /\ FinalInv

\* A new dispatcher has neither closures nor runs nor finalizers.
LEMMA InitInv == Init => IInv
<1> SUFFICES ASSUME Init PROVE IInv
  OBVIOUS
<1> USE ThreadsAssumption, TasksAssumption, ComposedAssumption
<1>1. NewWord \in Word /\ NewWord.flags = {} /\ 0 \in 0 .. MaxSends
  <2>0. SuspendRange \in Nat \ {0}
    BY SMT DEF SuspendRange
  <2>1. 0 \in 0 .. SuspendRange - 1
    BY <2>0
  <2>2. NewWord \in Word
    BY <2>1 DEF NewWord, Word
  <2> QED
    BY <2>2 DEF NewWord
<1>2. /\ pending = <<>> /\ <<>> \in Seq(Mailboxes) /\ DOMAIN pending = {} /\ Range(pending) = {}
      /\ \A w \in Workers : queue[w] = <<>> /\ DOMAIN queue[w] = {} /\ Range(queue[w]) = {}
  <2>1. pending = <<>> /\ \A w \in Workers : queue[w] = <<>>
    BY DEF Init, ExecutorInit
  <2>2. DOMAIN <<>> = {} /\ <<>> \in Seq(Mailboxes)
    OBVIOUS
  <2>3. Range(<<>>) = {}
    BY <2>2 DEF Range
  <2> QED
    BY <2>1, <2>2, <2>3
<1>3. TypeOK /\ WorkInv
  <2>1. ExecutorOK
    BY <1>2 DEF ExecutorOK, Init, ExecutorInit
  <2>2. MailboxOK
    BY <1>1 DEF MailboxOK, Init
  <2>3. ThreadOK
    BY DEF ThreadOK, Init, ExecutorInit, RestPC, ExecutePC, MailboxPC, Threads
  <2>4. WorkInv
    BY DEF WorkInv, Init
  <2> QED
    BY <2>1, <2>2, <2>3, <2>4, TypeParts
<1>4. \A t \in Threads : pc[t] = "idle"
  BY DEF Init
<1>5. \A m \in Mailboxes : Holders(m) = {} /\ Carriers(m) = {} /\ ~Accepted(m) /\ Finalizers(m) = {}
  BY <1>2, <1>4 DEF Holders, Carriers, Accepted, Finalizers, Init, ExecutorInit, Threads
<1>6. ClosureInv
  BY <1>2, <1>5 DEF ClosureInv, QueueInv, OneOf, AtMostOnce
<1>7. RunInv
  BY <1>4 DEF RunInv, Threads
<1>8. FinalInv
  BY <1>1, <1>5 DEF FinalInv, Init
<1> QED
  BY <1>3, <1>6, <1>7, <1>8 DEF IInv

\* The inductive invariant holds in every reachable state.
THEOREM Invariance == Spec => []IInv
<1>1. IInv /\ [Next]_vars => IInv'
  BY TypeStep, ClosureStep, RunStep DEF IInv
<1> QED
  BY <1>1, InitInv, PTL DEF Spec

\* The composed dispatcher keeps its types: no mailbox holds more than was
\* sent, and a thread inside an operation works on a mailbox.
THEOREM TypeCorrect == Spec => []TypeOK
<1>1. IInv => TypeOK
  BY DEF IInv
<1> QED
  BY <1>1, Invariance, PTL

\* A mailbox that was not rolled back after a refused submission has one closure
\* at most between request_schedule and finish_run: in the trampoline, with the
\* drain owner, in a worker queue, or with the thread that submits or runs it.
THEOREM SingleClosure == Spec => []OneClosure
<1>1. IInv => OneClosure
  <2> SUFFICES ASSUME IInv, NEW m \in Mailboxes \ refused
               PROVE  ClosuresQueued(m) + Cardinality(Carriers(m)) <= 1
    BY DEF OneClosure
  <2>0. OneOf(m) /\ Affinity[m] \in Workers
    BY TasksAssumption, ComposedAssumption DEF IInv, ClosureInv
  <2>1. Cardinality({i \in DOMAIN pending : pending[i] = m}) = IF m \in Range(pending) THEN 1 ELSE 0
    <3>1. pending \in Seq(Mailboxes) /\ AtMostOnce(pending, m)
      BY <2>0 DEF IInv, TypeOK, OneOf
    <3> QED
      BY <3>1, OnceCardinality
  <2>2. Cardinality({i \in DOMAIN queue[Affinity[m]] : queue[Affinity[m]][i] = m})
          = IF Accepted(m) THEN 1 ELSE 0
    <3>1. queue[Affinity[m]] \in Seq(Mailboxes) /\ AtMostOnce(queue[Affinity[m]], m)
      BY <2>0 DEF IInv, TypeOK, OneOf
    <3> QED
      BY <3>1, OnceCardinality DEF Accepted
  <2>3. Cardinality(Holders(m)) = IF Holders(m) = {} THEN 0 ELSE 1
    <3>1. \A t, u \in Holders(m) : t = u
      BY <2>0 DEF OneOf
    <3> QED
      BY <3>1, AtMostOneCardinality
  <2>4. Cardinality(Carriers(m)) = IF Carriers(m) = {} THEN 0 ELSE 1
    <3>1. \A t, u \in Carriers(m) : t = u
      BY <2>0 DEF OneOf
    <3> QED
      BY <3>1, AtMostOneCardinality
  <2>5. ClosuresQueued(m) =
          (IF m \in Range(pending) THEN 1 ELSE 0) + (IF Holders(m) = {} THEN 0 ELSE 1)
          + (IF Accepted(m) THEN 1 ELSE 0)
    BY <2>1, <2>2, <2>3, Zenon DEF ClosuresQueued, Holders
  <2>6. /\ m \in Range(pending) => Holders(m) = {} /\ ~Accepted(m) /\ Carriers(m) = {}
        /\ Holders(m) # {} => ~Accepted(m) /\ Carriers(m) = {}
        /\ Accepted(m) => Carriers(m) = {}
    BY <2>0 DEF OneOf
  <2> QED
    BY <2>4, <2>5, <2>6
<1> QED
  BY <1>1, Invariance, PTL

\* While a handler runs, detaching its actor leaves the cleanup to the runner.
THEOREM RunnerKeepsMailbox == Spec => []DetachHandsOff
<1>1. IInv => DetachHandsOff
  <2> SUFFICES ASSUME IInv, NEW m \in Mailboxes \ refused, NEW w \in Workers,
                      pc[w] = "invoke", cur[w] = m, NEW t \in Finalizers(m)
               PROVE  FALSE
    BY DEF DetachHandsOff
  <2>1. "FINALIZER_OWNED" \notin word[m].flags
    BY DEF IInv, RunInv
  <2> QED
    BY <2>1 DEF IInv, FinalInv
<1> QED
  BY <1>1, Invariance, PTL

\* One thread finalizes a mailbox and nobody finalizes it again, also when a
\* refused submission rolled the mailbox back in the middle of a run.
THEOREM SingleFinalizer == Spec => []OneFinalizer
<1>1. IInv => OneFinalizer
  <2> SUFFICES ASSUME IInv, NEW m \in Mailboxes
               PROVE  /\ Cardinality(Finalizers(m)) <= 1
                      /\ IsCleanupDone(word[m]) => Finalizers(m) = {}
    BY DEF OneFinalizer
  <2>1. \A t, u \in Finalizers(m) : t = u
    BY DEF IInv, FinalInv
  <2>2. Cardinality(Finalizers(m)) = IF Finalizers(m) = {} THEN 0 ELSE 1
    BY <2>1, AtMostOneCardinality
  <2>3. IsCleanupDone(word[m]) => Finalizers(m) = {}
    BY DEF IInv, FinalInv
  <2> QED
    BY <2>2, <2>3
<1> QED
  BY <1>1, Invariance, PTL
=============================================================================
