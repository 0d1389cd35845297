--------------------------- MODULE MailboxProofs ---------------------------
(***************************************************************************)
(* Proofs about Mailbox, for any number of senders, workers, closers and   *)
(* messages: type correctness, the single runner, the single finalizer, no *)
(* delivery during the cleanup, no phantom message, every message in one   *)
(* place and, for an executor that accepts every submission, no lost       *)
(* wake-up.                                                                *)
(***************************************************************************)
EXTENDS Mailbox, SequenceTheorems, TLAPS

-----------------------------------------------------------------------------
(* Sequences                                                               *)

\* The elements of a sequence are those at its indices.
LEMMA RangeMember ==
  ASSUME NEW S, NEW s \in Seq(S), NEW x
  PROVE  x \in Range(s) <=> \E i \in 1 .. Len(s) : s[i] = x
  BY DEF Range

\* The empty sequence has no elements, and only it.
LEMMA RangeEmpty ==
  ASSUME NEW S, NEW s \in Seq(S)
  PROVE  /\ Range(s) = {} <=> s = <<>>
         /\ Range(s) \subseteq S
<1>1. s # <<>> => s[1] \in Range(s)
  BY DEF Range
<1>2. s = <<>> => Range(s) = {}
  BY DEF Range
<1>3. Range(s) \subseteq S
  BY DEF Range
<1> QED
  BY <1>1, <1>2, <1>3

\* Appending adds one element; a new one makes no repetition.
LEMMA RangeAppend ==
  ASSUME NEW S, NEW s \in Seq(S), NEW x \in S
  PROVE  /\ Append(s, x) \in Seq(S)
         /\ Append(s, x) # <<>>
         /\ Range(Append(s, x)) = Range(s) \cup {x}
         /\ IsInjective(s) /\ x \notin Range(s) => IsInjective(Append(s, x))
<1> DEFINE a == Append(s, x)
<1>1. /\ a \in Seq(S) /\ Len(a) = Len(s) + 1 /\ Len(s) \in Nat
      /\ \A i \in 1 .. Len(s) : a[i] = s[i]
      /\ a[Len(s) + 1] = x
  OBVIOUS
<1>2. ASSUME NEW y PROVE y \in Range(a) <=> y \in Range(s) \cup {x}
  <2>0. y \in Range(a) <=> \E i \in 1 .. Len(a) : a[i] = y
    <3> HIDE DEF a
    <3> QED
      BY <1>1, RangeMember
  <2>1. y \in Range(a) <=> \E i \in 1 .. Len(s) + 1 : a[i] = y
    BY <1>1, <2>0
  <2>2. y \in Range(s) <=> \E i \in 1 .. Len(s) : s[i] = y
    BY RangeMember
  <2> QED
    BY <1>1, <2>1, <2>2
<1>3. ASSUME IsInjective(s), x \notin Range(s) PROVE IsInjective(a)
  <2>1. \A i \in 1 .. Len(s) : s[i] # x
    BY <1>3, RangeMember
  <2>2. \A i, j \in 1 .. Len(s) : s[i] = s[j] => i = j
    BY <1>3 DEF IsInjective
  <2>3. DOMAIN a = 1 .. Len(s) + 1
    BY <1>1
  <2> HIDE DEF a
  <2> QED
    BY <1>1, <2>1, <2>2, <2>3 DEF IsInjective
<1>4. a # <<>>
  BY <1>1
<1> QED
  BY <1>1, <1>2, <1>3, <1>4

\* Taking the head of a sequence without repetitions removes that element.
LEMMA RangeTail ==
  ASSUME NEW S, NEW s \in Seq(S), s # <<>>
  PROVE  /\ Tail(s) \in Seq(S)
         /\ Head(s) \in S /\ Head(s) \in Range(s)
         /\ Range(s) = Range(Tail(s)) \cup {Head(s)}
         /\ IsInjective(s) => /\ IsInjective(Tail(s))
                              /\ Head(s) \notin Range(Tail(s))
                              /\ Range(Tail(s)) = Range(s) \ {Head(s)}
<1> DEFINE r == Tail(s)
<1>1. /\ r \in Seq(S) /\ Len(s) \in Nat \ {0} /\ Len(r) = Len(s) - 1 /\ Len(r) \in Nat
      /\ \A i \in 1 .. Len(r) : r[i] = s[i + 1]
      /\ Head(s) = s[1] /\ s[1] \in S
  OBVIOUS
<1>2. DOMAIN r = 1 .. Len(r)
  BY <1>1
<1>3. \A y : y \in Range(r) <=> \E i \in 1 .. Len(r) : r[i] = y
  BY <1>1, RangeMember
<1>4. \A y : y \in Range(s) <=> \E i \in 1 .. Len(s) : s[i] = y
  BY RangeMember
<1> HIDE DEF r
<1>5. \A i \in 1 .. Len(s) : i = 1 \/ (i - 1 \in 1 .. Len(r) /\ s[i] = r[i - 1])
  BY <1>1
<1>6. Range(s) = Range(r) \cup {Head(s)}
  <2>1. Range(s) \subseteq Range(r) \cup {Head(s)}
    BY <1>1, <1>3, <1>4, <1>5
  <2>2. Range(r) \subseteq Range(s)
    <3> SUFFICES ASSUME NEW i \in 1 .. Len(r) PROVE r[i] \in Range(s)
      BY <1>3
    <3>1. i + 1 \in 1 .. Len(s) /\ s[i + 1] = r[i]
      BY <1>1
    <3> QED
      BY <3>1, <1>4
  <2>3. Head(s) \in Range(s)
    BY <1>1, <1>4
  <2> QED
    BY <2>1, <2>2, <2>3
<1>7. ASSUME IsInjective(s) PROVE IsInjective(r) /\ Head(s) \notin Range(r)
  <2>1. \A i, j \in 1 .. Len(s) : s[i] = s[j] => i = j
    BY <1>7 DEF IsInjective
  <2>2. \A i \in 1 .. Len(r) : i + 1 \in 1 .. Len(s)
    BY <1>1
  <2>3. IsInjective(r)
    <3> SUFFICES ASSUME NEW i \in 1 .. Len(r), NEW j \in 1 .. Len(r), r[i] = r[j]
                 PROVE  i = j
      BY <1>2 DEF IsInjective
    <3>1. i + 1 = j + 1
      BY <1>1, <2>1, <2>2
    <3> QED
      BY <3>1
  <2>4. Head(s) \notin Range(r)
    <3> SUFFICES ASSUME NEW i \in 1 .. Len(r), r[i] = s[1] PROVE FALSE
      BY <1>1, <1>3
    <3>1. i + 1 = 1
      BY <1>1, <2>1, <2>2
    <3> QED
      BY <3>1
  <2> QED
    BY <2>3, <2>4
<1> QED
  BY <1>1, <1>6, <1>7 DEF r

-----------------------------------------------------------------------------
(* The schedule word                                                       *)

\* What each exchange of the schedule word does to its flags.
LEMMA WordOps ==
  ASSUME NEW w \in Word
  PROVE  /\ Scheduled(w) \in Word /\ Scheduled(w).flags = w.flags \cup {"SCHEDULED"}
         /\ Running(w) \in Word
         /\ Running(w).flags = (w.flags \ {"SCHEDULED"}) \cup {"RUNNING"}
         /\ Idle(w) \in Word /\ Idle(w).flags = w.flags \ {"SCHEDULED", "RUNNING"}
         /\ Cleaned(w) \in Word /\ Cleaned(w).flags = w.flags \cup {"CLEANUP_DONE"}
  BY DEF Word, Flag, Scheduled, Running, Idle, Cleaned

\* The suspend count moves without touching a flag.
LEMMA SuspendOps ==
  ASSUME NEW w \in Word
  PROVE  /\ Suspended(w) \in Word /\ Suspended(w).flags = w.flags
         /\ Resumed(w) \in Word /\ Resumed(w).flags = w.flags
<1>0. SuspendRange \in Nat \ {0}
  BY SMT DEF SuspendRange
<1>1. w.suspends \in 0 .. SuspendRange - 1
  BY DEF Word
<1>2. (w.suspends + 1) % SuspendRange \in 0 .. SuspendRange - 1
  BY <1>0, <1>1
<1>3. (IF w.suspends = 0 THEN 0 ELSE w.suspends - 1) \in 0 .. SuspendRange - 1
  BY <1>0, <1>1
<1> QED
  BY <1>2, <1>3 DEF Word, Suspended, Resumed

\* Closing and finishing a run elect a finalizer and leave the rest alone.
LEMMA CloseOps ==
  ASSUME NEW w \in Word
  PROVE  /\ CloseRequested(w) \in Word /\ RunFinished(w) \in Word
         /\ IsCleanupDone(w) => CloseRequested(w) = w
         /\ ~IsCleanupDone(w) =>
              CloseRequested(w).flags =
                w.flags \cup {"CLOSE_REQUESTED"}
                        \cup IF CallerOwnsFinalizer(w) THEN {"FINALIZER_OWNED"} ELSE {}
         /\ RunFinished(w).flags =
              (w.flags \ {"SCHEDULED", "RUNNING"})
              \cup IF RunnerFinalizes(w) THEN {"FINALIZER_OWNED"} ELSE {}
<1>1. CloseRequested(w) \in Word
  BY DEF Word, Flag, CloseRequested
<1>2. Idle(w) \in Word /\ Idle(w).flags = w.flags \ {"SCHEDULED", "RUNNING"}
  BY WordOps
<1>3. RunFinished(w) \in Word
  BY <1>2 DEF Word, Flag, RunFinished
<1>4. RunFinished(w).flags =
        (w.flags \ {"SCHEDULED", "RUNNING"})
        \cup IF RunnerFinalizes(w) THEN {"FINALIZER_OWNED"} ELSE {}
  BY <1>2 DEF Word, RunFinished
<1> QED
  BY <1>1, <1>3, <1>4 DEF Word, CloseRequested

-----------------------------------------------------------------------------
(* Types                                                                   *)

\* The parts of TypeOK: the mailbox, and the threads.
StoreOK ==
  /\ word \in Word
  /\ need_reschedule \in BOOLEAN
  /\ user \in Seq(UserMessages)
  /\ system \in Seq(SystemMessages)
  /\ userClosed \in BOOLEAN
  /\ put_lock \in Threads \cup {NoThread}
  /\ live \in BOOLEAN
  /\ tasks \in Nat
  /\ processed \in [Messages -> Nat]
  /\ sent \subseteq Messages
  /\ deadLetters \subseteq Messages
  /\ refused \subseteq Messages
  /\ dropped \subseteq Messages
  /\ crossed \in BOOLEAN

ThreadOK ==
  /\ pc \in [Threads -> SenderPC \cup RegisterPC \cup RunPC \cup FinalizePC \cup {"closed"}]
  /\ \A s \in Senders : pc[s] \in SenderPC \cup RegisterPC
  /\ \A w \in Workers : pc[w] \in RegisterPC \cup RunPC \cup FinalizePC
  /\ \A c \in Closers : pc[c] \in {"idle", "closed"} \cup FinalizePC
  /\ inHand \in [Senders -> Messages \cup {NoMessage}]
  /\ \A s \in Senders : /\ pc[s] = "enqueue" => inHand[s] \in UserMessages
                        /\ pc[s] = "enqueueSystem" => inHand[s] \in SystemMessages
  /\ left \in [Workers -> 0 .. Throughput]
  /\ \A w \in Workers : pc[w] = "takeUser" => left[w] > 0

\* The parts make up the type invariant, before and after a step.
LEMMA TypeParts == (TypeOK <=> StoreOK /\ ThreadOK) /\ (TypeOK' <=> StoreOK' /\ ThreadOK')
<1>1. TypeOK => StoreOK /\ ThreadOK
  BY DEF TypeOK, StoreOK, ThreadOK
<1>2. StoreOK /\ ThreadOK => TypeOK
  BY DEF TypeOK, StoreOK, ThreadOK
<1>3. TypeOK' => StoreOK' /\ ThreadOK'
  BY DEF TypeOK, StoreOK, ThreadOK
<1>4. StoreOK' /\ ThreadOK' => TypeOK'
  BY DEF TypeOK, StoreOK, ThreadOK
<1> QED
  BY <1>1, <1>2, <1>3, <1>4

\* Every step of a mailbox keeps the types of its variables.
LEMMA TypeStep ==
  ASSUME TypeOK, [Next]_vars
  PROVE  TypeOK'
<1>1. ASSUME NEW s \in Senders, NEW m \in UserMessages, SendUser(s, m) PROVE TypeOK'
  <2>1. CASE IsClosed(word)
    BY <1>1, <2>1, ThreadsAssumption, MessagesAssumption DEF SendUser, TypeOK,
       Threads, Messages, Goto, queues, history
  <2>2. CASE ~IsClosed(word)
    <3>1. pc' = [pc EXCEPT ![s] = "enqueue"] /\ inHand' = [inHand EXCEPT ![s] = m]
      BY <1>1, <2>2 DEF SendUser, Goto
    <3>2. sent' \subseteq Messages
      BY <1>1 DEF SendUser, TypeOK, Messages
    <3>3. UNCHANGED <<word, need_reschedule, queues, live, tasks, left, processed,
       deadLetters, refused, dropped, crossed>>
      BY <1>1, <2>2 DEF SendUser
    <3> QED
      BY <3>1, <3>2, <3>3, ThreadsAssumption, MessagesAssumption DEF TypeOK,
         Threads, Messages, queues, SenderPC, RegisterPC
  <2> QED
    BY <2>1, <2>2
<1>2. ASSUME NEW s \in Senders, NEW m \in SystemMessages, SendSystem(s, m) PROVE TypeOK'
  <2>1. word' \in Word
    BY <1>2, SuspendOps DEF SendSystem, TypeOK
  <2> QED
    BY <1>2, <2>1, ThreadsAssumption, MessagesAssumption DEF SendSystem, TypeOK,
       Threads, Messages, Goto, queues, history, SenderPC, RegisterPC, DrainPC,
       RunPC, FinalizePC
<1>3. ASSUME NEW s \in Senders, EnqueueUser(s) PROVE TypeOK'
  <2>1. inHand[s] \in UserMessages
    BY <1>3 DEF EnqueueUser, TypeOK
  <2>2. user' \in Seq(UserMessages) /\ refused' \subseteq Messages
    <3>1. CASE EnqueueRefuses
      BY <1>3, <2>1, <3>1 DEF EnqueueUser, TypeOK, Messages
    <3>2. CASE ~EnqueueRefuses
      <4>1. Append(user, inHand[s]) \in Seq(UserMessages)
        BY <2>1 DEF TypeOK
      <4> QED
        BY <1>3, <3>2, <4>1 DEF EnqueueUser, TypeOK
    <3> QED
      BY <3>1, <3>2
  <2>3. /\ pc' \in [Threads -> SenderPC \cup RegisterPC \cup RunPC
                                \cup FinalizePC \cup {"closed"}]
        /\ pc'[s] \in {"idle", "register"}
        /\ \A t \in Threads \ {s} : pc'[t] = pc[t]
    BY <1>3 DEF EnqueueUser, TypeOK, Threads, Goto, SenderPC, RegisterPC
  <2>4. inHand' \in [Senders -> Messages \cup {NoMessage}]
    BY <1>3 DEF EnqueueUser, TypeOK
  <2>5. \A r \in Senders \ {s} : inHand'[r] = inHand[r]
    BY <1>3 DEF EnqueueUser, TypeOK
  <2>6. UNCHANGED <<word, system, put_lock, tasks, left, sent, processed, deadLetters,
                    dropped, crossed>>
    BY <1>3 DEF EnqueueUser
  <2>7. {need_reschedule', userClosed', live'} \subseteq BOOLEAN
    BY <1>3 DEF EnqueueUser, TypeOK
  <2>8. /\ \A r \in Senders : pc'[r] \in SenderPC \cup RegisterPC
        /\ \A r \in Workers \cup Closers : pc'[r] = pc[r]
        /\ \A r \in Senders : /\ pc'[r] = "enqueue" => inHand'[r] \in UserMessages
                              /\ pc'[r] = "enqueueSystem" => inHand'[r] \in SystemMessages
    BY <2>3, <2>5, ThreadsAssumption DEF TypeOK, Threads, SenderPC, RegisterPC
  <2>9. StoreOK'
    BY <2>2, <2>6, <2>7 DEF TypeOK, StoreOK
  <2>10. ThreadOK'
    <3>1. /\ pc' \in [Threads -> SenderPC \cup RegisterPC \cup RunPC
                                 \cup FinalizePC \cup {"closed"}]
          /\ \A r \in Workers : pc'[r] = pc[r] /\ left'[r] = left[r]
          /\ \A r \in Closers : pc'[r] = pc[r]
      BY <2>3, <2>6, <2>8
    <3>2. left' \in [Workers -> 0 .. Throughput]
      BY <2>6 DEF TypeOK
    <3>3. /\ \A r \in Workers : pc'[r] \in RegisterPC \cup RunPC \cup FinalizePC
          /\ \A r \in Workers : pc'[r] = "takeUser" => left'[r] > 0
          /\ \A r \in Closers : pc'[r] \in {"idle", "closed"} \cup FinalizePC
      BY <3>1 DEF TypeOK
    <3> QED
      BY <3>1, <3>2, <3>3, <2>4, <2>8 DEF ThreadOK
  <2> QED
    BY <2>9, <2>10, TypeParts
<1>4. ASSUME NEW s \in Senders, EnqueueSystem(s) PROVE TypeOK'
  <2>1. system' \in Seq(SystemMessages)
    BY <1>4 DEF EnqueueSystem, TypeOK
  <2> QED
    BY <1>4, <2>1, ThreadsAssumption, MessagesAssumption DEF EnqueueSystem, TypeOK,
       Threads, Messages, Goto, queues, history, SenderPC, RegisterPC, DrainPC,
       RunPC, FinalizePC
<1>5. ASSUME NEW t \in Senders \cup Workers, CheckSuspended(t) PROVE TypeOK'
  BY <1>5, ThreadsAssumption, MessagesAssumption DEF CheckSuspended, TypeOK,
     Threads, Messages, Goto, queues, history, SenderPC, RegisterPC, DrainPC, RunPC,
     FinalizePC
<1>6. ASSUME NEW t \in Senders \cup Workers, RequestSchedule(t) PROVE TypeOK'
  <2>1. word' \in Word
    BY <1>6, WordOps DEF RequestSchedule, TypeOK
  <2>2. \E label \in {"idle", "flag", "submit"} : pc' = [pc EXCEPT ![t] = label]
    BY <1>6 DEF RequestSchedule, Goto
  <2>3. UNCHANGED <<need_reschedule, queues, live, tasks, inHand, left, history>>
    BY <1>6 DEF RequestSchedule
  <2> QED
    BY <2>1, <2>2, <2>3, ThreadsAssumption DEF TypeOK, Threads, queues, history,
       SenderPC, RegisterPC, RunPC
<1>7. ASSUME NEW t \in Senders \cup Workers, FlagReschedule(t) PROVE TypeOK'
  BY <1>7, ThreadsAssumption, MessagesAssumption DEF FlagReschedule, TypeOK,
     Threads, Messages, Goto, queues, history, SenderPC, RegisterPC, DrainPC, RunPC,
     FinalizePC
<1>8. ASSUME NEW t \in Senders \cup Workers, SubmitAccepted(t) PROVE TypeOK'
  <2>1. tasks' \in Nat
    BY <1>8 DEF SubmitAccepted, TypeOK
  <2> QED
    BY <1>8, <2>1, ThreadsAssumption, MessagesAssumption DEF SubmitAccepted, TypeOK,
       Threads, Messages, Goto, queues, history, SenderPC, RegisterPC, DrainPC,
       RunPC, FinalizePC
<1>9. ASSUME NEW t \in Senders \cup Workers, SubmitRejected(t) PROVE TypeOK'
  <2>1. word' \in Word
    BY <1>9, WordOps DEF SubmitRejected, TypeOK
  <2> QED
    BY <1>9, <2>1, ThreadsAssumption, MessagesAssumption DEF SubmitRejected, TypeOK,
       Threads, Messages, Goto, queues, history, SenderPC, RegisterPC, DrainPC,
       RunPC, FinalizePC
<1>10. ASSUME NEW t \in Senders \cup Workers, RollbackReschedule(t) PROVE TypeOK'
  BY <1>10, ThreadsAssumption, MessagesAssumption DEF RollbackReschedule, TypeOK,
     Threads, Messages, Goto, queues, history, SenderPC, RegisterPC, DrainPC, RunPC,
     FinalizePC
<1>11. ASSUME NEW w \in Workers, StartRun(w) PROVE TypeOK'
  <2>1. tasks' \in Nat
    BY <1>11 DEF StartRun, TypeOK
  <2> QED
    BY <1>11, <2>1, ThreadsAssumption, MessagesAssumption DEF StartRun, TypeOK,
       Threads, Messages, Goto, queues, history, SenderPC, RegisterPC, DrainPC,
       RunPC, FinalizePC
<1>12. ASSUME NEW w \in Workers, SetRunning(w) PROVE TypeOK'
  <2>1. word' \in Word
    BY <1>12, WordOps DEF SetRunning, TypeOK
  <2>2. Throughput \in 0 .. Throughput
    BY ConfigAssumption
  <2> QED
    BY <1>12, <2>1, <2>2, ThreadsAssumption, MessagesAssumption DEF SetRunning,
       TypeOK, Threads, Messages, Goto, queues, history, SenderPC, RegisterPC,
       DrainPC, RunPC, FinalizePC
<1>13. ASSUME NEW w \in Workers, ProcessSystem(w) PROVE TypeOK'
  <2>1. Head(system) \in SystemMessages /\ system' \in Seq(SystemMessages)
    BY <1>13, HeadTailProperties DEF ProcessSystem, TypeOK
  <2>2. word' \in Word
    BY <1>13, SuspendOps DEF ProcessSystem, AfterSystem, TypeOK
  <2>3. processed' \in [Messages -> Nat]
    BY <1>13, <2>1 DEF ProcessSystem, TypeOK, Messages
  <2> QED
    BY <1>13, <2>1, <2>2, <2>3, ThreadsAssumption, MessagesAssumption DEF
       ProcessSystem, TypeOK, Threads, Messages, Goto, queues, history, SenderPC,
       RegisterPC, DrainPC, RunPC, FinalizePC
<1>14. ASSUME NEW w \in Workers, SystemDrained(w) PROVE TypeOK'
  BY <1>14, ThreadsAssumption, MessagesAssumption DEF SystemDrained, TypeOK,
     Threads, Messages, Goto, queues, history, SenderPC, RegisterPC, DrainPC, RunPC,
     FinalizePC
<1>15. ASSUME NEW w \in Workers, ProcessUser(w) PROVE TypeOK'
  <2>1. Head(user) \in UserMessages /\ user' \in Seq(UserMessages)
    BY <1>15, HeadTailProperties DEF ProcessUser, TypeOK
  <2>2. word' \in Word
    BY <1>15, SuspendOps DEF ProcessUser, TypeOK
  <2>3. processed' \in [Messages -> Nat]
    BY <1>15, <2>1 DEF ProcessUser, TypeOK, Messages
  <2>4. left' \in [Workers -> 0 .. Throughput]
    <3>1. left[w] \in 0 .. Throughput /\ left[w] > 0
      BY <1>15 DEF ProcessUser, TypeOK
    <3>2. left[w] - 1 \in 0 .. Throughput
      BY <3>1, ConfigAssumption
    <3> QED
      BY <1>15, <3>2 DEF ProcessUser, TypeOK
  <2>5. StoreOK'
    BY <1>15, <2>1, <2>2, <2>3, TypeParts DEF ProcessUser, StoreOK
  <2>6. pc' = [pc EXCEPT ![w] = "system"] /\ inHand' = inHand
    BY <1>15 DEF ProcessUser, Goto
  <2>7. \A v \in Workers \ {w} : left'[v] = left[v]
    BY <1>15, TypeParts DEF ProcessUser, ThreadOK
  <2>8. ThreadOK'
    BY <2>4, <2>6, <2>7, TypeParts, ThreadsAssumption DEF ThreadOK, Threads, DrainPC,
       RunPC
  <2> QED
    BY <2>5, <2>8, TypeParts
<1>16. ASSUME NEW w \in Workers, UserDrained(w) PROVE TypeOK'
  BY <1>16, ThreadsAssumption, MessagesAssumption DEF UserDrained, TypeOK, Threads,
     Messages, Goto, queues, history, SenderPC, RegisterPC, DrainPC, RunPC,
     FinalizePC
<1>17. ASSUME NEW w \in Workers, FinishRun(w) PROVE TypeOK'
  <2>1. word' \in Word
    BY <1>17, CloseOps DEF FinishRun, TypeOK
  <2> QED
    BY <1>17, <2>1, ThreadsAssumption, MessagesAssumption DEF FinishRun, TypeOK,
       Threads, Messages, Goto, queues, history, SenderPC, RegisterPC, DrainPC,
       RunPC, FinalizePC
<1>18. ASSUME NEW w \in Workers, SwapReschedule(w) PROVE TypeOK'
  BY <1>18, ThreadsAssumption, MessagesAssumption DEF SwapReschedule, TypeOK,
     Threads, Messages, Goto, queues, history, SenderPC, RegisterPC, DrainPC, RunPC,
     FinalizePC
<1>19. ASSUME NEW w \in Workers, InspectQueues(w) PROVE TypeOK'
  BY <1>19, ThreadsAssumption, MessagesAssumption DEF InspectQueues, TypeOK,
     Threads, Messages, Goto, queues, history, SenderPC, RegisterPC, DrainPC, RunPC,
     FinalizePC
<1>20. ASSUME NEW c \in Closers, BecomeClosed(c) PROVE TypeOK'
  <2>1. word' \in Word
    BY <1>20, CloseOps DEF BecomeClosed, TypeOK
  <2> QED
    BY <1>20, <2>1, ThreadsAssumption, MessagesAssumption DEF BecomeClosed, TypeOK,
       Threads, Messages, Goto, queues, history, SenderPC, RegisterPC, DrainPC,
       RunPC, FinalizePC
<1>21. ASSUME NEW t \in Workers \cup Closers, SealUser(t) PROVE TypeOK'
  BY <1>21, ThreadsAssumption, MessagesAssumption DEF SealUser, TypeOK, Threads,
     Messages, Goto, queues, history, SenderPC, RegisterPC, DrainPC, RunPC,
     FinalizePC
<1>22. ASSUME NEW t \in Workers \cup Closers, DrainSystem(t) PROVE TypeOK'
  <2>1. system' \in Seq(SystemMessages) /\ deadLetters' \subseteq Messages
    <3>1. CASE system # <<>>
      <4>1. Head(system) \in SystemMessages /\ Tail(system) \in Seq(SystemMessages)
        BY <3>1, HeadTailProperties DEF TypeOK
      <4> QED
        BY <1>22, <3>1, <4>1 DEF DrainSystem, TypeOK, Messages
    <3>2. CASE system = <<>>
      BY <1>22, <3>2 DEF DrainSystem, TypeOK
    <3> QED
      BY <3>1, <3>2
  <2>2. pc' = pc \/ pc' = [pc EXCEPT ![t] = "drainUser"]
    BY <1>22 DEF DrainSystem, Goto
  <2>3. UNCHANGED <<word, user, put_lock, tasks, inHand, left, sent, processed, refused,
                    dropped, crossed>>
    BY <1>22 DEF DrainSystem
  <2>4. {need_reschedule', userClosed', live'} \subseteq BOOLEAN
    BY <1>22 DEF DrainSystem, TypeOK
  <2>5. StoreOK'
    BY <2>1, <2>3, <2>4 DEF TypeOK, StoreOK
  <2>6. ThreadOK'
    BY <2>2, <2>3, TypeParts, ThreadsAssumption DEF ThreadOK, Threads, FinalizePC
  <2> QED
    BY <2>5, <2>6, TypeParts
<1>23. ASSUME NEW t \in Workers \cup Closers, DrainUser(t) PROVE TypeOK'
  <2>1. user' \in Seq(UserMessages) /\ deadLetters' \subseteq Messages
    <3>1. CASE user # <<>>
      <4>1. Head(user) \in UserMessages /\ Tail(user) \in Seq(UserMessages)
        BY <3>1, HeadTailProperties DEF TypeOK
      <4> QED
        BY <1>23, <3>1, <4>1 DEF DrainUser, TypeOK, Messages
    <3>2. CASE user = <<>>
      BY <1>23, <3>2 DEF DrainUser, TypeOK
    <3> QED
      BY <3>1, <3>2
  <2>2. pc' = pc \/ pc' = [pc EXCEPT ![t] = "cleanUp"]
    BY <1>23 DEF DrainUser, Goto
  <2>3. UNCHANGED <<word, system, put_lock, tasks, inHand, left, sent, processed, refused,
                    dropped, crossed>>
    BY <1>23 DEF DrainUser
  <2>4. {need_reschedule', userClosed', live'} \subseteq BOOLEAN
    BY <1>23 DEF DrainUser, TypeOK
  <2>5. StoreOK'
    BY <2>1, <2>3, <2>4 DEF TypeOK, StoreOK
  <2>6. ThreadOK'
    BY <2>2, <2>3, TypeParts, ThreadsAssumption DEF ThreadOK, Threads, FinalizePC
  <2> QED
    BY <2>5, <2>6, TypeParts
<1>24. ASSUME NEW t \in Workers \cup Closers, CleanUp(t) PROVE TypeOK'
  <2>1. word' \in Word
    BY <1>24, WordOps DEF CleanUp, TypeOK
  <2>2. Range(user) \subseteq Messages
    BY DEF TypeOK, Range, Messages
  <2>3. user' \in Seq(UserMessages)
    BY <1>24 DEF CleanUp
  <2> QED
    BY <1>24, <2>1, <2>2, <2>3, ThreadsAssumption, MessagesAssumption DEF CleanUp,
       TypeOK, Threads, Messages, Goto, queues, history, SenderPC, RegisterPC,
       DrainPC, RunPC, FinalizePC
<1>25. ASSUME DropCell PROVE TypeOK'
  BY <1>25, ThreadsAssumption, MessagesAssumption DEF DropCell, TypeOK, Threads,
     Messages, Goto, queues, history, SenderPC, RegisterPC, DrainPC, RunPC,
     FinalizePC
<1>26. ASSUME NEW w \in Workers, CheckSystem(w) PROVE TypeOK'
  BY <1>26, ThreadsAssumption, MessagesAssumption DEF CheckSystem, TypeOK,
     Threads, Messages, Goto, queues, history, SenderPC, RegisterPC, DrainPC, RunPC,
     FinalizePC
<1>27. ASSUME NEW w \in Workers, CheckUser(w) PROVE TypeOK'
  <2>1. \/ pc' = [pc EXCEPT ![w] = "takeUser"] /\ left[w] > 0
        \/ pc' = [pc EXCEPT ![w] = "finish"]
    BY <1>27 DEF CheckUser, ShouldProcess, Goto
  <2>2. UNCHANGED <<word, need_reschedule, queues, live, tasks, inHand, left, history>>
    BY <1>27 DEF CheckUser
  <2>3. CASE pc' = [pc EXCEPT ![w] = "takeUser"] /\ left[w] > 0
    BY <2>2, <2>3, ThreadsAssumption DEF TypeOK, Threads, queues, history, DrainPC,
       RunPC
  <2>4. CASE pc' = [pc EXCEPT ![w] = "finish"]
    BY <2>2, <2>4, ThreadsAssumption DEF TypeOK, Threads, queues, history, DrainPC,
       RunPC
  <2> QED
    BY <2>1, <2>3, <2>4
<1>28. CASE UNCHANGED vars
  BY <1>28, ThreadsAssumption, MessagesAssumption DEF vars, TypeOK, Threads,
     Messages, Goto, queues, history, SenderPC, RegisterPC, DrainPC, RunPC,
     FinalizePC
<1>29. ASSUME NEW t \in Senders \cup Workers, SubmitDropped(t) PROVE TypeOK'
  BY <1>29, ThreadsAssumption, MessagesAssumption DEF SubmitDropped, TypeOK,
     Threads, Messages, Goto, queues, history, SenderPC, RegisterPC, DrainPC, RunPC,
     FinalizePC
<1>30. ASSUME NEW t \in Senders \cup Workers, SubmitCrossed(t) PROVE TypeOK'
  <2>1. tasks' \in Nat /\ crossed' \in BOOLEAN
    BY <1>30 DEF SubmitCrossed, TypeOK
  <2> QED
    BY <1>30, <2>1, ThreadsAssumption, MessagesAssumption DEF SubmitCrossed, TypeOK,
       Threads, Messages, Goto, queues, history, SenderPC, RegisterPC, DrainPC,
       RunPC, FinalizePC
<1> QED
  BY <1>1, <1>2, <1>3, <1>4, <1>5, <1>6, <1>7, <1>8, <1>9, <1>10, <1>11, <1>12,
     <1>13, <1>14, <1>15, <1>16, <1>17, <1>18, <1>19, <1>20, <1>21, <1>22, <1>23,
     <1>24, <1>25, <1>26, <1>27, <1>28, <1>29, <1>30 DEF Next, Send, Register, Run, Finalize

-----------------------------------------------------------------------------
(* What the steps do to the flags                                          *)

\* The steps that move the suspend count leave the flags alone.
LEMMA SuspendEffects ==
  ASSUME TypeOK
  PROVE  /\ \A s \in Senders, m \in SystemMessages :
              SendSystem(s, m) => word'.flags = word.flags
         /\ \A w \in Workers :
              ProcessSystem(w) \/ ProcessUser(w) => word'.flags = word.flags
<1>1. /\ Suspended(word).flags = word.flags
      /\ Resumed(word).flags = word.flags
  BY SuspendOps DEF TypeOK
<1>2. ASSUME NEW s \in Senders, NEW m \in SystemMessages, SendSystem(s, m)
      PROVE  word'.flags = word.flags
  BY <1>1, <1>2 DEF SendSystem
<1>3. ASSUME NEW w \in Workers, ProcessSystem(w) PROVE word'.flags = word.flags
  BY <1>1, <1>3 DEF ProcessSystem, AfterSystem
<1>4. ASSUME NEW w \in Workers, ProcessUser(w) PROVE word'.flags = word.flags
  BY <1>1, <1>4 DEF ProcessUser
<1> QED
  BY <1>2, <1>3, <1>4

\* The steps that schedule, run and release a mailbox.
LEMMA ScheduleEffects ==
  ASSUME TypeOK
  PROVE  /\ \A t \in Senders \cup Workers : RequestSchedule(t) =>
              \/ /\ word' = word
                 /\ \/ IsClosed(word) /\ pc' = [pc EXCEPT ![t] = "idle"]
                    \/ IsBusy(word) /\ pc' = [pc EXCEPT ![t] = "flag"]
              \/ /\ ~IsBusy(word)
                 /\ word'.flags = word.flags \cup {"SCHEDULED"}
                 /\ pc' = [pc EXCEPT ![t] = "submit"]
         /\ \A t \in Senders \cup Workers : SubmitRejected(t) =>
              word'.flags = word.flags \ {"SCHEDULED", "RUNNING"}
         /\ \A w \in Workers : SetRunning(w) =>
              word'.flags = (word.flags \ {"SCHEDULED"}) \cup {"RUNNING"}
<1>1. /\ Scheduled(word).flags = word.flags \cup {"SCHEDULED"}
      /\ Running(word).flags = (word.flags \ {"SCHEDULED"}) \cup {"RUNNING"}
      /\ Idle(word).flags = word.flags \ {"SCHEDULED", "RUNNING"}
  BY WordOps DEF TypeOK
<1>2. ASSUME NEW t \in Senders \cup Workers, RequestSchedule(t)
      PROVE  \/ /\ word' = word
                /\ \/ IsClosed(word) /\ pc' = [pc EXCEPT ![t] = "idle"]
                   \/ IsBusy(word) /\ pc' = [pc EXCEPT ![t] = "flag"]
             \/ /\ ~IsBusy(word)
                /\ word'.flags = word.flags \cup {"SCHEDULED"}
                /\ pc' = [pc EXCEPT ![t] = "submit"]
  BY <1>1, <1>2 DEF RequestSchedule, Goto
<1>3. ASSUME NEW t \in Senders \cup Workers, SubmitRejected(t)
      PROVE  word'.flags = word.flags \ {"SCHEDULED", "RUNNING"}
  BY <1>1, <1>3 DEF SubmitRejected
<1>4. ASSUME NEW w \in Workers, SetRunning(w)
      PROVE  word'.flags = (word.flags \ {"SCHEDULED"}) \cup {"RUNNING"}
  BY <1>1, <1>4 DEF SetRunning
<1> QED
  BY <1>2, <1>3, <1>4

\* The steps that request a close, finish a run and finish the cleanup.
LEMMA CloseEffects ==
  ASSUME TypeOK
  PROVE  /\ \A c \in Closers : BecomeClosed(c) =>
              IF IsCleanupDone(word)
              THEN word' = word
              ELSE word'.flags =
                     word.flags \cup {"CLOSE_REQUESTED"}
                     \cup IF CallerOwnsFinalizer(word) THEN {"FINALIZER_OWNED"} ELSE {}
         /\ \A w \in Workers : FinishRun(w) =>
              word'.flags =
                (word.flags \ {"SCHEDULED", "RUNNING"})
                \cup IF RunnerFinalizes(word) THEN {"FINALIZER_OWNED"} ELSE {}
         /\ \A t \in Workers \cup Closers : CleanUp(t) =>
              word'.flags = word.flags \cup {"CLEANUP_DONE"}
  BY CloseOps, WordOps DEF TypeOK, BecomeClosed, FinishRun, CleanUp

-----------------------------------------------------------------------------
(* The single runner                                                       *)

\* The thread that carries the right to run the mailbox.
Carriers ==
  {t \in Senders \cup Workers : pc[t] \in {"submit", "start", "startClosed"} \cup DrainPC}

\* The right to run is one token: a thread carries it, or an accepted closure
\* does, and it shows in SCHEDULED until set_running turns it into RUNNING.
TokenInv ==
  /\ \A t, u \in Carriers : t = u
  /\ tasks <= 1
  /\ tasks > 0 => Carriers = {}
  /\ tasks > 0 \/ Carriers \ Draining # {} => "SCHEDULED" \in word.flags
  /\ Draining # {} => "RUNNING" \in word.flags

\* A thread whose refusal was another task's has left its mark, and only an
\* executor that refuses makes one.
CrossInv ==
  /\ crossed => CanReject
  /\ \A t \in Threads : pc[t] = "crossed" => crossed

\* Every step keeps the mark.
LEMMA CrossStep ==
  ASSUME TypeOK, CrossInv, [Next]_vars
  PROVE  CrossInv'
<1>1. ASSUME NEW t \in Threads, UNCHANGED crossed,
             \/ pc' = pc
             \/ \E label \in (SenderPC \cup RegisterPC \cup RunPC \cup FinalizePC
                               \cup {"closed"}) \ {"crossed"} : pc' = [pc EXCEPT ![t] = label]
      PROVE  CrossInv'
  BY <1>1 DEF CrossInv, TypeOK
<1>2. ASSUME NEW s \in Senders, Send(s) PROVE CrossInv'
  <2>1. /\ s \in Threads /\ UNCHANGED crossed
        /\ pc' = pc \/ \E label \in {"idle", "enqueue", "register", "enqueueSystem", "schedule"} :
                         pc' = [pc EXCEPT ![s] = label]
    BY <1>2 DEF Send, SendUser, SendSystem, EnqueueUser, EnqueueSystem, Goto, history, Threads
  <2> QED
    BY <1>1, <2>1 DEF SenderPC, RegisterPC
<1>3. ASSUME NEW t \in Senders \cup Workers, SubmitCrossed(t) PROVE CrossInv'
  BY <1>3 DEF SubmitCrossed, CrossInv
<1>4. ASSUME NEW t \in Senders \cup Workers,
             \/ CheckSuspended(t) \/ RequestSchedule(t) \/ FlagReschedule(t)
             \/ SubmitAccepted(t) \/ SubmitDropped(t) \/ SubmitRejected(t)
             \/ RollbackReschedule(t)
      PROVE  CrossInv'
  <2>1. /\ t \in Threads /\ UNCHANGED crossed
        /\ \E label \in {"idle", "schedule", "flag", "submit", "rollback"} :
             pc' = [pc EXCEPT ![t] = label]
    BY <1>4 DEF CheckSuspended, RequestSchedule, FlagReschedule, SubmitAccepted,
       SubmitDropped, SubmitRejected, RollbackReschedule, Goto, history, Threads
  <2> QED
    BY <1>1, <2>1 DEF SenderPC, RegisterPC
<1>5. ASSUME NEW w \in Workers,
             \/ StartRun(w) \/ SetRunning(w) \/ CheckSystem(w) \/ ProcessSystem(w)
             \/ SystemDrained(w) \/ CheckUser(w)
      PROVE  CrossInv'
  <2>1. /\ w \in Threads /\ UNCHANGED crossed
        /\ \E label \in {"idle", "start", "startClosed", "system", "finish", "user",
                         "takeSystem", "takeUser"} : pc' = [pc EXCEPT ![w] = label]
    BY <1>5 DEF StartRun, SetRunning, CheckSystem, ProcessSystem, SystemDrained,
       CheckUser, Goto, history, Threads
  <2> QED
    BY <1>1, <2>1 DEF RunPC, DrainPC
<1>6. ASSUME NEW w \in Workers,
             \/ ProcessUser(w) \/ UserDrained(w) \/ FinishRun(w)
             \/ SwapReschedule(w) \/ InspectQueues(w)
      PROVE  CrossInv'
  <2>1. /\ w \in Threads /\ UNCHANGED crossed
        /\ \E label \in {"idle", "system", "finish", "finalize", "swap", "schedule",
                         "inspect"} : pc' = [pc EXCEPT ![w] = label]
    BY <1>6 DEF ProcessUser, UserDrained, FinishRun, SwapReschedule, InspectQueues,
       Goto, history, Threads
  <2> QED
    BY <1>1, <2>1 DEF RunPC, DrainPC, RegisterPC, FinalizePC
<1>7. ASSUME NEW c \in Closers, BecomeClosed(c) PROVE CrossInv'
  <2>1. /\ c \in Threads /\ UNCHANGED crossed
        /\ \E label \in {"finalize", "closed"} : pc' = [pc EXCEPT ![c] = label]
    BY <1>7 DEF BecomeClosed, Goto, history, Threads
  <2> QED
    BY <1>1, <2>1 DEF FinalizePC
<1>8. ASSUME NEW t \in Workers \cup Closers, Finalize(t) PROVE CrossInv'
  <2>1. /\ t \in Threads /\ UNCHANGED crossed
        /\ pc' = pc \/ \E label \in {"drainSystem", "drainUser", "cleanUp", "closed", "idle"} :
                         pc' = [pc EXCEPT ![t] = label]
    BY <1>8 DEF Finalize, SealUser, DrainSystem, DrainUser, CleanUp, Goto, history, Threads
  <2> QED
    BY <1>1, <2>1 DEF FinalizePC, RunPC
<1>9. CASE DropCell \/ UNCHANGED vars
  BY <1>9 DEF DropCell, vars, history, CrossInv
<1> QED
  BY <1>2, <1>3, <1>4, <1>5, <1>6, <1>7, <1>8, <1>9 DEF Next, Register, Run

\* The mark is never taken away.
LEMMA CrossedMoves ==
  ASSUME [Next]_vars
  PROVE  crossed' = crossed \/ crossed' = TRUE
<1>1. ASSUME NEW s \in Senders, Send(s) PROVE crossed' = crossed
  BY <1>1 DEF Send, SendUser, SendSystem, EnqueueUser, EnqueueSystem, history
<1>2. ASSUME NEW t \in Senders \cup Workers, Register(t)
      PROVE  crossed' = crossed \/ crossed' = TRUE
  BY <1>2 DEF Register, CheckSuspended, RequestSchedule, FlagReschedule, SubmitAccepted,
     SubmitDropped, SubmitCrossed, SubmitRejected, RollbackReschedule, history
<1>3. ASSUME NEW w \in Workers, StartRun(w) \/ Run(w) PROVE crossed' = crossed
  BY <1>3 DEF StartRun, Run, SetRunning, CheckSystem, ProcessSystem, SystemDrained,
     CheckUser, ProcessUser, UserDrained, FinishRun, SwapReschedule, InspectQueues, history
<1>4. ASSUME NEW t \in Workers \cup Closers, BecomeClosed(t) \/ Finalize(t)
      PROVE  crossed' = crossed
  BY <1>4 DEF BecomeClosed, Finalize, SealUser, DrainSystem, DrainUser, CleanUp, history
<1>5. CASE DropCell \/ UNCHANGED vars
  BY <1>5 DEF DropCell, vars, history
<1> QED
  BY <1>1, <1>2, <1>3, <1>4, <1>5 DEF Next

\* Every step keeps the token single, unless an accepted submission is rolled back.
LEMMA TokenStep ==
  ASSUME TypeOK, CrossInv, TokenInv, ~crossed', [Next]_vars
  PROVE  TokenInv'
<1>0. tasks \in Nat /\ tasks \in {0, 1}
  BY DEF TypeOK, TokenInv
<1>1. ASSUME NEW s \in Senders, NEW m \in UserMessages, SendUser(s, m) PROVE TokenInv'
  <2>1. Carriers' = Carriers /\ Draining' = Draining
    BY <1>1, ThreadsAssumption DEF SendUser, Carriers, Draining, TypeOK, Threads,
       Goto, DrainPC
  <2> QED
    BY <1>1, <2>1 DEF SendUser, TokenInv
<1>2. ASSUME NEW s \in Senders, NEW m \in SystemMessages, SendSystem(s, m) PROVE TokenInv'
  <2>1. Carriers' = Carriers /\ Draining' = Draining
    BY <1>2, ThreadsAssumption DEF SendSystem, Carriers, Draining, TypeOK,
       Threads, Goto, DrainPC
  <2>2. word'.flags = word.flags /\ tasks' = tasks
    BY <1>2, SuspendEffects DEF SendSystem
  <2> QED
    BY <2>1, <2>2 DEF TokenInv
<1>3. ASSUME NEW s \in Senders, EnqueueUser(s) PROVE TokenInv'
  <2>1. pc' = [pc EXCEPT ![s] = "idle"] \/ pc' = [pc EXCEPT ![s] = "register"]
    BY <1>3 DEF EnqueueUser, Goto
  <2>2. Carriers' = Carriers /\ Draining' = Draining
    BY <1>3, <2>1, ThreadsAssumption DEF EnqueueUser, Carriers, Draining, TypeOK,
       Threads, DrainPC
  <2> QED
    BY <1>3, <2>2 DEF EnqueueUser, TokenInv
<1>4. ASSUME NEW s \in Senders, EnqueueSystem(s) PROVE TokenInv'
  <2>1. Carriers' = Carriers /\ Draining' = Draining
    BY <1>4, ThreadsAssumption DEF EnqueueSystem, Carriers, Draining, TypeOK,
       Threads, Goto, DrainPC
  <2>2. word'.flags = word.flags /\ tasks' = tasks
    BY <1>4 DEF EnqueueSystem
  <2> QED
    BY <2>1, <2>2 DEF TokenInv
<1>5. ASSUME NEW t \in Senders \cup Workers, CheckSuspended(t) PROVE TokenInv'
  <2>1. Carriers' = Carriers /\ Draining' = Draining
    BY <1>5, ThreadsAssumption DEF CheckSuspended, Carriers, Draining, TypeOK,
       Threads, Goto, DrainPC
  <2>2. word'.flags = word.flags /\ tasks' = tasks
    BY <1>5 DEF CheckSuspended
  <2> QED
    BY <2>1, <2>2 DEF TokenInv
<1>6. ASSUME NEW t \in Senders \cup Workers, RequestSchedule(t) PROVE TokenInv'
  <2>1. tasks' = tasks
    BY <1>6 DEF RequestSchedule
  <2>2. CASE /\ word' = word
             /\ pc' = [pc EXCEPT ![t] = "idle"] \/ pc' = [pc EXCEPT ![t] = "flag"]
    <3>1. Carriers' = Carriers /\ Draining' = Draining
      BY <1>6, <2>2, ThreadsAssumption DEF RequestSchedule, Carriers, Draining,
         DrainPC, TypeOK, Threads
    <3> QED
      BY <2>1, <2>2, <3>1 DEF TokenInv
  <2>3. CASE /\ ~IsBusy(word)
             /\ word'.flags = word.flags \cup {"SCHEDULED"}
             /\ pc' = [pc EXCEPT ![t] = "submit"]
    <3>1. Carriers = {} /\ tasks = 0
      BY <2>3, <1>0 DEF IsBusy, TokenInv, Draining, Carriers, DrainPC
    <3>2. Carriers' = {t} /\ Draining' = {}
      BY <1>6, <2>3, <3>1, ThreadsAssumption DEF Carriers, Draining, DrainPC,
         TypeOK, Threads
    <3> QED
      BY <2>1, <2>3, <3>1, <3>2 DEF TokenInv
  <2> QED
    BY <1>6, <2>2, <2>3, ScheduleEffects
<1>7. ASSUME NEW t \in Senders \cup Workers, FlagReschedule(t) PROVE TokenInv'
  <2>1. Carriers' = Carriers /\ Draining' = Draining
    BY <1>7, ThreadsAssumption DEF FlagReschedule, Carriers, Draining, TypeOK,
       Threads, Goto, DrainPC
  <2>2. word'.flags = word.flags /\ tasks' = tasks
    BY <1>7 DEF FlagReschedule
  <2> QED
    BY <2>1, <2>2 DEF TokenInv
<1>8. ASSUME NEW t \in Senders \cup Workers, SubmitAccepted(t) PROVE TokenInv'
  <2>1. t \in Carriers \ Draining
    BY <1>8 DEF SubmitAccepted, Carriers, Draining, DrainPC
  <2>2. Carriers = {t} /\ tasks = 0 /\ "SCHEDULED" \in word.flags
    BY <1>0, <2>1 DEF TokenInv
  <2>3. Carriers' = {} /\ Draining' = {}
    BY <1>8, <2>1, <2>2, ThreadsAssumption DEF SubmitAccepted, Carriers, Draining,
       TypeOK, Threads, Goto, DrainPC
  <2>4. tasks' = 1 /\ word' = word
    BY <1>8, <2>2 DEF SubmitAccepted
  <2> QED
    BY <2>2, <2>3, <2>4 DEF TokenInv
<1>9. ASSUME NEW t \in Senders \cup Workers, SubmitRejected(t) PROVE TokenInv'
  <2>1. pc[t] = "submit"
    BY <1>9 DEF SubmitRejected, CrossInv, history, Threads
  <2>2. t \in Carriers \ Draining
    BY <1>9, <2>1 DEF Carriers, Draining, DrainPC
  <2>3. Carriers = {t} /\ tasks = 0
    BY <1>0, <2>2 DEF TokenInv
  <2>4. Carriers' = {} /\ Draining' = {}
    BY <1>9, <2>2, <2>3, ThreadsAssumption DEF SubmitRejected, Carriers, Draining,
       TypeOK, Threads, Goto, DrainPC
  <2>5. tasks' = 0
    BY <1>9, <2>3 DEF SubmitRejected
  <2> QED
    BY <2>4, <2>5 DEF TokenInv
<1>10. ASSUME NEW t \in Senders \cup Workers, RollbackReschedule(t) PROVE TokenInv'
  <2>1. Carriers' = Carriers /\ Draining' = Draining
    BY <1>10, ThreadsAssumption DEF RollbackReschedule, Carriers, Draining, TypeOK,
       Threads, Goto, DrainPC
  <2>2. word'.flags = word.flags /\ tasks' = tasks
    BY <1>10 DEF RollbackReschedule
  <2> QED
    BY <2>1, <2>2 DEF TokenInv
<1>11. ASSUME NEW w \in Workers, StartRun(w) PROVE TokenInv'
  BY <1>11, <1>0, ThreadsAssumption DEF StartRun, TokenInv, Carriers, Draining,
     TypeOK, Threads, Goto, DrainPC, queues, history
<1>12. ASSUME NEW w \in Workers, SetRunning(w) PROVE TokenInv'
  <2>1. w \in Carriers /\ w \notin Draining
    BY <1>12 DEF SetRunning, Carriers, Draining, DrainPC
  <2>2. Carriers = {w} /\ tasks = 0
    BY <1>0, <2>1 DEF TokenInv
  <2>3. Carriers' = {w} /\ Draining' = {w}
    BY <1>12, <2>2, ThreadsAssumption DEF SetRunning, Carriers, Draining, DrainPC,
       TypeOK, Threads, Goto
  <2>4. tasks' = 0 /\ "RUNNING" \in word'.flags
    BY <1>12, <2>2, ScheduleEffects DEF SetRunning
  <2> QED
    BY <2>3, <2>4 DEF TokenInv
<1>13. ASSUME NEW w \in Workers, ProcessSystem(w) PROVE TokenInv'
  <2>1. Carriers' = Carriers /\ Draining' = Draining
    BY <1>13, ThreadsAssumption DEF ProcessSystem, Carriers, Draining, TypeOK,
       Threads, Goto, DrainPC
  <2>2. word'.flags = word.flags /\ tasks' = tasks
    BY <1>13, SuspendEffects DEF ProcessSystem
  <2> QED
    BY <2>1, <2>2 DEF TokenInv
<1>14. ASSUME NEW w \in Workers, SystemDrained(w) PROVE TokenInv'
  <2>1. Carriers' = Carriers /\ Draining' = Draining
    BY <1>14, ThreadsAssumption DEF SystemDrained, Carriers, Draining, TypeOK,
       Threads, Goto, DrainPC
  <2>2. word'.flags = word.flags /\ tasks' = tasks
    BY <1>14 DEF SystemDrained
  <2> QED
    BY <2>1, <2>2 DEF TokenInv
<1>15. ASSUME NEW w \in Workers, ProcessUser(w) PROVE TokenInv'
  <2>1. Carriers' = Carriers /\ Draining' = Draining
    BY <1>15, ThreadsAssumption DEF ProcessUser, Carriers, Draining, TypeOK,
       Threads, Goto, DrainPC
  <2>2. word'.flags = word.flags /\ tasks' = tasks
    BY <1>15, SuspendEffects DEF ProcessUser
  <2> QED
    BY <2>1, <2>2 DEF TokenInv
<1>16. ASSUME NEW w \in Workers, UserDrained(w) PROVE TokenInv'
  <2>1. Carriers' = Carriers /\ Draining' = Draining
    BY <1>16, ThreadsAssumption DEF UserDrained, Carriers, Draining, TypeOK,
       Threads, Goto, DrainPC
  <2>2. word'.flags = word.flags /\ tasks' = tasks
    BY <1>16 DEF UserDrained
  <2> QED
    BY <2>1, <2>2 DEF TokenInv
<1>17. ASSUME NEW w \in Workers, FinishRun(w) PROVE TokenInv'
  BY <1>17, <1>0, ThreadsAssumption, CloseEffects DEF FinishRun, TokenInv, Carriers,
     Draining, TypeOK, Threads, Goto, DrainPC, queues, history
<1>18. ASSUME NEW w \in Workers, SwapReschedule(w) PROVE TokenInv'
  <2>1. Carriers' = Carriers /\ Draining' = Draining
    BY <1>18, ThreadsAssumption DEF SwapReschedule, Carriers, Draining, TypeOK,
       Threads, Goto, DrainPC
  <2>2. word'.flags = word.flags /\ tasks' = tasks
    BY <1>18 DEF SwapReschedule
  <2> QED
    BY <2>1, <2>2 DEF TokenInv
<1>19. ASSUME NEW w \in Workers, InspectQueues(w) PROVE TokenInv'
  <2>1. Carriers' = Carriers /\ Draining' = Draining
    BY <1>19, ThreadsAssumption DEF InspectQueues, Carriers, Draining, TypeOK,
       Threads, Goto, DrainPC
  <2>2. word'.flags = word.flags /\ tasks' = tasks
    BY <1>19 DEF InspectQueues
  <2> QED
    BY <2>1, <2>2 DEF TokenInv
<1>20. ASSUME NEW c \in Closers, BecomeClosed(c) PROVE TokenInv'
  <2>1. Carriers' = Carriers /\ Draining' = Draining
    BY <1>20, ThreadsAssumption DEF BecomeClosed, Carriers, Draining, TypeOK,
       Threads, Goto, DrainPC
  <2>2. tasks' = tasks /\ word.flags \subseteq word'.flags
    BY <1>20, CloseEffects DEF BecomeClosed
  <2> QED
    BY <2>1, <2>2 DEF TokenInv
<1>21. ASSUME NEW t \in Workers \cup Closers, SealUser(t) PROVE TokenInv'
  <2>1. Carriers' = Carriers /\ Draining' = Draining
    BY <1>21, ThreadsAssumption DEF SealUser, Carriers, Draining, TypeOK,
       Threads, Goto, DrainPC
  <2>2. word'.flags = word.flags /\ tasks' = tasks
    BY <1>21 DEF SealUser
  <2> QED
    BY <2>1, <2>2 DEF TokenInv
<1>22. ASSUME NEW t \in Workers \cup Closers, DrainSystem(t) PROVE TokenInv'
  <2>1. Carriers' = Carriers /\ Draining' = Draining
    BY <1>22, ThreadsAssumption DEF DrainSystem, Carriers, Draining, TypeOK,
       Threads, Goto, DrainPC
  <2>2. word'.flags = word.flags /\ tasks' = tasks
    BY <1>22 DEF DrainSystem
  <2> QED
    BY <2>1, <2>2 DEF TokenInv
<1>23. ASSUME NEW t \in Workers \cup Closers, DrainUser(t) PROVE TokenInv'
  <2>1. Carriers' = Carriers /\ Draining' = Draining
    BY <1>23, ThreadsAssumption DEF DrainUser, Carriers, Draining, TypeOK,
       Threads, Goto, DrainPC
  <2>2. word'.flags = word.flags /\ tasks' = tasks
    BY <1>23 DEF DrainUser
  <2> QED
    BY <2>1, <2>2 DEF TokenInv
<1>24. ASSUME NEW t \in Workers \cup Closers, CleanUp(t) PROVE TokenInv'
  <2>1. Carriers' = Carriers /\ Draining' = Draining
    BY <1>24, ThreadsAssumption DEF CleanUp, Carriers, Draining, TypeOK, Threads,
       Goto, DrainPC
  <2>2. tasks' = tasks /\ word.flags \subseteq word'.flags
    BY <1>24, CloseEffects DEF CleanUp
  <2> QED
    BY <2>1, <2>2 DEF TokenInv
<1>25. ASSUME DropCell PROVE TokenInv'
  BY <1>25, <1>0, ThreadsAssumption DEF DropCell, TokenInv, Carriers, Draining,
     TypeOK, Threads, Goto, DrainPC, queues, history
<1>26. ASSUME NEW w \in Workers, CheckSystem(w) PROVE TokenInv'
  <2>1. Carriers' = Carriers /\ Draining' = Draining
    BY <1>26, ThreadsAssumption DEF CheckSystem, Carriers, Draining, TypeOK,
       Threads, Goto, DrainPC
  <2>2. word'.flags = word.flags /\ tasks' = tasks
    BY <1>26 DEF CheckSystem
  <2> QED
    BY <2>1, <2>2 DEF TokenInv
<1>27. ASSUME NEW w \in Workers, CheckUser(w) PROVE TokenInv'
  <2>1. Carriers' = Carriers /\ Draining' = Draining
    BY <1>27, ThreadsAssumption DEF CheckUser, Carriers, Draining, TypeOK,
       Threads, Goto, DrainPC
  <2>2. word'.flags = word.flags /\ tasks' = tasks
    BY <1>27 DEF CheckUser
  <2> QED
    BY <2>1, <2>2 DEF TokenInv
<1>28. CASE UNCHANGED vars
  BY <1>28, <1>0, ThreadsAssumption DEF vars, TokenInv, Carriers, Draining, TypeOK,
     Threads, Goto, DrainPC, queues, history
<1>29. ASSUME NEW t \in Senders \cup Workers, SubmitDropped(t) PROVE TokenInv'
  <2>1. t \in Carriers \ Draining
    BY <1>29 DEF SubmitDropped, Carriers, Draining, DrainPC
  <2>2. Carriers = {t} /\ tasks = 0
    BY <1>0, <2>1 DEF TokenInv
  <2>3. Carriers' = {} /\ Draining' = {}
    BY <1>29, <2>1, <2>2, ThreadsAssumption DEF SubmitDropped, Carriers, Draining,
       TypeOK, Threads, Goto, DrainPC
  <2>4. tasks' = 0
    BY <1>29, <2>2 DEF SubmitDropped
  <2> QED
    BY <2>3, <2>4 DEF TokenInv
<1>30. ASSUME NEW t \in Senders \cup Workers, SubmitCrossed(t) PROVE TokenInv'
  BY <1>30 DEF SubmitCrossed
<1> QED
  BY <1>1, <1>2, <1>3, <1>4, <1>5, <1>6, <1>7, <1>8, <1>9, <1>10, <1>11, <1>12,
     <1>13, <1>14, <1>15, <1>16, <1>17, <1>18, <1>19, <1>20, <1>21, <1>22, <1>23,
     <1>24, <1>25, <1>26, <1>27, <1>28, <1>29, <1>30 DEF Next, Send, Register, Run, Finalize

-----------------------------------------------------------------------------
(* The single finalizer                                                    *)

\* A thread that finalizes has been elected, and has not finished.
FinalInv ==
  /\ \A t, u \in Finalizing : t = u
  /\ Finalizing # {} => /\ {"CLOSE_REQUESTED", "FINALIZER_OWNED"} \subseteq word.flags
                        /\ "CLEANUP_DONE" \notin word.flags

\* Every step keeps the finalizer single.
LEMMA FinalStep ==
  ASSUME TypeOK, FinalInv, [Next]_vars
  PROVE  FinalInv'
<1>1. ASSUME NEW s \in Senders, NEW m \in UserMessages, SendUser(s, m) PROVE FinalInv'
  <2>1. Finalizing' = Finalizing /\ word' = word
    BY <1>1, ThreadsAssumption DEF SendUser, Finalizing, FinalizePC, TypeOK,
       Threads, Goto, RegisterPC, SenderPC
  <2> QED
    BY <2>1 DEF FinalInv
<1>2. ASSUME NEW s \in Senders, NEW m \in SystemMessages, SendSystem(s, m) PROVE FinalInv'
  <2>1. Finalizing' = Finalizing
    BY <1>2, ThreadsAssumption, SuspendEffects DEF SendSystem, Finalizing,
       FinalizePC, TypeOK, Threads, Goto
  <2>2. word'.flags = word.flags
    BY <1>2, SuspendEffects DEF SendSystem
  <2> QED
    BY <2>1, <2>2 DEF FinalInv
<1>3. ASSUME NEW s \in Senders, EnqueueUser(s) PROVE FinalInv'
  <2>1. Finalizing' = Finalizing /\ word' = word
    BY <1>3, ThreadsAssumption DEF EnqueueUser, Finalizing, FinalizePC, TypeOK,
       Threads, Goto, RegisterPC, SenderPC
  <2> QED
    BY <2>1 DEF FinalInv
<1>4. ASSUME NEW s \in Senders, EnqueueSystem(s) PROVE FinalInv'
  <2>1. Finalizing' = Finalizing /\ word' = word
    BY <1>4, ThreadsAssumption DEF EnqueueSystem, Finalizing, FinalizePC, TypeOK,
       Threads, Goto, RegisterPC, SenderPC
  <2> QED
    BY <2>1 DEF FinalInv
<1>5. ASSUME NEW t \in Senders \cup Workers, CheckSuspended(t) PROVE FinalInv'
  <2>1. Finalizing' = Finalizing /\ word' = word
    BY <1>5, ThreadsAssumption DEF CheckSuspended, Finalizing, FinalizePC, TypeOK,
       Threads, Goto, RegisterPC, SenderPC
  <2> QED
    BY <2>1 DEF FinalInv
<1>6. ASSUME NEW t \in Senders \cup Workers, RequestSchedule(t) PROVE FinalInv'
  <2>1. Finalizing' = Finalizing
    BY <1>6, ThreadsAssumption, ScheduleEffects DEF RequestSchedule, Finalizing,
       FinalizePC, TypeOK, Threads, Goto
  <2>2. word'.flags \ {"SCHEDULED", "RUNNING"} = word.flags \ {"SCHEDULED",
     "RUNNING"}
    BY <1>6, ScheduleEffects DEF RequestSchedule
  <2> QED
    BY <2>1, <2>2 DEF FinalInv
<1>7. ASSUME NEW t \in Senders \cup Workers, FlagReschedule(t) PROVE FinalInv'
  <2>1. Finalizing' = Finalizing /\ word' = word
    BY <1>7, ThreadsAssumption DEF FlagReschedule, Finalizing, FinalizePC, TypeOK,
       Threads, Goto, RegisterPC, SenderPC
  <2> QED
    BY <2>1 DEF FinalInv
<1>8. ASSUME NEW t \in Senders \cup Workers, SubmitAccepted(t) PROVE FinalInv'
  <2>1. Finalizing' = Finalizing /\ word' = word
    BY <1>8, ThreadsAssumption DEF SubmitAccepted, Finalizing, FinalizePC, TypeOK,
       Threads, Goto, RegisterPC, SenderPC
  <2> QED
    BY <2>1 DEF FinalInv
<1>9. ASSUME NEW t \in Senders \cup Workers, SubmitRejected(t) PROVE FinalInv'
  <2>1. Finalizing' = Finalizing
    BY <1>9, ThreadsAssumption, ScheduleEffects DEF SubmitRejected, Finalizing,
       FinalizePC, TypeOK, Threads, Goto
  <2>2. word'.flags \ {"SCHEDULED", "RUNNING"} = word.flags \ {"SCHEDULED",
     "RUNNING"}
    BY <1>9, ScheduleEffects DEF SubmitRejected
  <2> QED
    BY <2>1, <2>2 DEF FinalInv
<1>10. ASSUME NEW t \in Senders \cup Workers, RollbackReschedule(t) PROVE FinalInv'
  <2>1. Finalizing' = Finalizing /\ word' = word
    BY <1>10, ThreadsAssumption DEF RollbackReschedule, Finalizing, FinalizePC,
       TypeOK, Threads, Goto, RegisterPC, SenderPC
  <2> QED
    BY <2>1 DEF FinalInv
<1>11. ASSUME NEW w \in Workers, StartRun(w) PROVE FinalInv'
  <2>1. Finalizing' = Finalizing /\ word' = word
    BY <1>11, ThreadsAssumption DEF StartRun, Finalizing, FinalizePC, TypeOK,
       Threads, Goto, RegisterPC, SenderPC
  <2> QED
    BY <2>1 DEF FinalInv
<1>12. ASSUME NEW w \in Workers, SetRunning(w) PROVE FinalInv'
  <2>1. Finalizing' = Finalizing
    BY <1>12, ThreadsAssumption, ScheduleEffects DEF SetRunning, Finalizing,
       FinalizePC, TypeOK, Threads, Goto
  <2>2. word'.flags \ {"SCHEDULED", "RUNNING"} = word.flags \ {"SCHEDULED",
     "RUNNING"}
    BY <1>12, ScheduleEffects DEF SetRunning
  <2> QED
    BY <2>1, <2>2 DEF FinalInv
<1>13. ASSUME NEW w \in Workers, ProcessSystem(w) PROVE FinalInv'
  <2>1. Finalizing' = Finalizing
    BY <1>13, ThreadsAssumption, SuspendEffects DEF ProcessSystem, Finalizing,
       FinalizePC, TypeOK, Threads, Goto
  <2>2. word'.flags = word.flags
    BY <1>13, SuspendEffects DEF ProcessSystem
  <2> QED
    BY <2>1, <2>2 DEF FinalInv
<1>14. ASSUME NEW w \in Workers, SystemDrained(w) PROVE FinalInv'
  <2>1. Finalizing' = Finalizing /\ word' = word
    BY <1>14, ThreadsAssumption DEF SystemDrained, Finalizing, FinalizePC, TypeOK,
       Threads, Goto, RegisterPC, SenderPC
  <2> QED
    BY <2>1 DEF FinalInv
<1>15. ASSUME NEW w \in Workers, ProcessUser(w) PROVE FinalInv'
  <2>1. Finalizing' = Finalizing
    BY <1>15, ThreadsAssumption, SuspendEffects DEF ProcessUser, Finalizing,
       FinalizePC, TypeOK, Threads, Goto
  <2>2. word'.flags = word.flags
    BY <1>15, SuspendEffects DEF ProcessUser
  <2> QED
    BY <2>1, <2>2 DEF FinalInv
<1>16. ASSUME NEW w \in Workers, UserDrained(w) PROVE FinalInv'
  <2>1. Finalizing' = Finalizing /\ word' = word
    BY <1>16, ThreadsAssumption DEF UserDrained, Finalizing, FinalizePC, TypeOK,
       Threads, Goto, RegisterPC, SenderPC
  <2> QED
    BY <2>1 DEF FinalInv
<1>17. ASSUME NEW w \in Workers, FinishRun(w) PROVE FinalInv'
  <2>1. CASE RunnerFinalizes(word)
    <3>1. Finalizing = {} /\ "CLEANUP_DONE" \notin word.flags
      BY <2>1 DEF RunnerFinalizes, FinalInv, IsCloseRequested, IsCleanupDone
    <3>2. Finalizing' = {w}
      BY <1>17, <2>1, <3>1, ThreadsAssumption DEF FinishRun, Finalizing, FinalizePC,
         TypeOK, Threads, Goto
    <3>3. /\ {"CLOSE_REQUESTED", "FINALIZER_OWNED"} \subseteq word'.flags
          /\ "CLEANUP_DONE" \notin word'.flags
      BY <1>17, <2>1, <3>1, CloseEffects DEF RunnerFinalizes, IsCloseRequested
    <3> QED
      BY <3>2, <3>3 DEF FinalInv
  <2>2. CASE ~RunnerFinalizes(word)
    <3>1. Finalizing' = Finalizing
      BY <1>17, <2>2, ThreadsAssumption DEF FinishRun, Finalizing, FinalizePC,
         TypeOK, Threads, Goto
    <3>2. word'.flags = word.flags \ {"SCHEDULED", "RUNNING"}
      BY <1>17, <2>2, CloseEffects
    <3> QED
      BY <3>1, <3>2 DEF FinalInv
  <2> QED
    BY <2>1, <2>2
<1>18. ASSUME NEW w \in Workers, SwapReschedule(w) PROVE FinalInv'
  <2>1. Finalizing' = Finalizing /\ word' = word
    BY <1>18, ThreadsAssumption DEF SwapReschedule, Finalizing, FinalizePC, TypeOK,
       Threads, Goto, RegisterPC, SenderPC
  <2> QED
    BY <2>1 DEF FinalInv
<1>19. ASSUME NEW w \in Workers, InspectQueues(w) PROVE FinalInv'
  <2>1. Finalizing' = Finalizing /\ word' = word
    BY <1>19, ThreadsAssumption DEF InspectQueues, Finalizing, FinalizePC, TypeOK,
       Threads, Goto, RegisterPC, SenderPC
  <2> QED
    BY <2>1 DEF FinalInv
<1>20. ASSUME NEW c \in Closers, BecomeClosed(c) PROVE FinalInv'
  <2>1. CASE CallerOwnsFinalizer(word)
    <3>1. Finalizing = {} /\ "CLEANUP_DONE" \notin word.flags
      BY <2>1 DEF CallerOwnsFinalizer, FinalInv, IsCloseRequested, IsCleanupDone
    <3>2. Finalizing' = {c}
      BY <1>20, <2>1, <3>1, ThreadsAssumption DEF BecomeClosed, Finalizing,
         FinalizePC, TypeOK, Threads, Goto
    <3>3. word'.flags = word.flags \cup {"CLOSE_REQUESTED"} \cup {"FINALIZER_OWNED"}
      BY <1>20, <2>1, <3>1, CloseEffects DEF IsCleanupDone
    <3> QED
      BY <3>1, <3>2, <3>3 DEF FinalInv
  <2>2. CASE ~CallerOwnsFinalizer(word)
    <3>1. Finalizing' = Finalizing
      BY <1>20, <2>2, ThreadsAssumption DEF BecomeClosed, Finalizing, FinalizePC,
         TypeOK, Threads, Goto
    <3>2. \/ word' = word
          \/ word'.flags = word.flags \cup {"CLOSE_REQUESTED"}
      BY <1>20, <2>2, CloseEffects
    <3> QED
      BY <3>1, <3>2 DEF FinalInv
  <2> QED
    BY <2>1, <2>2
<1>21. ASSUME NEW t \in Workers \cup Closers, SealUser(t) PROVE FinalInv'
  <2>1. Finalizing' = Finalizing /\ word' = word
    BY <1>21, ThreadsAssumption DEF SealUser, Finalizing, FinalizePC, TypeOK,
       Threads, Goto, RegisterPC, SenderPC
  <2> QED
    BY <2>1 DEF FinalInv
<1>22. ASSUME NEW t \in Workers \cup Closers, DrainSystem(t) PROVE FinalInv'
  <2>1. Finalizing' = Finalizing /\ word' = word
    BY <1>22, ThreadsAssumption DEF DrainSystem, Finalizing, FinalizePC, TypeOK,
       Threads, Goto, RegisterPC, SenderPC
  <2> QED
    BY <2>1 DEF FinalInv
<1>23. ASSUME NEW t \in Workers \cup Closers, DrainUser(t) PROVE FinalInv'
  <2>1. Finalizing' = Finalizing /\ word' = word
    BY <1>23, ThreadsAssumption DEF DrainUser, Finalizing, FinalizePC, TypeOK,
       Threads, Goto, RegisterPC, SenderPC
  <2> QED
    BY <2>1 DEF FinalInv
<1>24. ASSUME NEW t \in Workers \cup Closers, CleanUp(t) PROVE FinalInv'
  <2>1. Finalizing = {t}
    BY <1>24 DEF CleanUp, FinalInv, Finalizing, FinalizePC
  <2>2. Finalizing' = {}
    BY <1>24, <2>1, ThreadsAssumption DEF CleanUp, Finalizing, FinalizePC, TypeOK,
       Threads, Goto
  <2> QED
    BY <2>2 DEF FinalInv
<1>25. ASSUME DropCell PROVE FinalInv'
  <2>1. Finalizing' = Finalizing /\ word' = word
    BY <1>25 DEF DropCell, Finalizing
  <2> QED
    BY <2>1 DEF FinalInv
<1>26. ASSUME NEW w \in Workers, CheckSystem(w) PROVE FinalInv'
  <2>1. Finalizing' = Finalizing /\ word' = word
    BY <1>26, ThreadsAssumption DEF CheckSystem, Finalizing, FinalizePC, TypeOK,
       Threads, Goto, RegisterPC, SenderPC
  <2> QED
    BY <2>1 DEF FinalInv
<1>27. ASSUME NEW w \in Workers, CheckUser(w) PROVE FinalInv'
  <2>1. Finalizing' = Finalizing /\ word' = word
    BY <1>27, ThreadsAssumption DEF CheckUser, Finalizing, FinalizePC, TypeOK,
       Threads, Goto, RegisterPC, SenderPC
  <2> QED
    BY <2>1 DEF FinalInv
<1>28. CASE UNCHANGED vars
  <2>1. Finalizing' = Finalizing /\ word' = word
    BY <1>28 DEF vars, Finalizing
  <2> QED
    BY <2>1 DEF FinalInv
<1>29. ASSUME NEW t \in Senders \cup Workers, SubmitDropped(t) PROVE FinalInv'
  <2>1. Finalizing' = Finalizing /\ word' = word
    BY <1>29, ThreadsAssumption DEF SubmitDropped, Finalizing, FinalizePC, TypeOK,
       Threads, Goto, RegisterPC, SenderPC
  <2> QED
    BY <2>1 DEF FinalInv
<1>30. ASSUME NEW t \in Senders \cup Workers, SubmitCrossed(t) PROVE FinalInv'
  <2>1. Finalizing' = Finalizing /\ word' = word
    BY <1>30, ThreadsAssumption DEF SubmitCrossed, Finalizing, FinalizePC, TypeOK,
       Threads, Goto, RegisterPC, SenderPC
  <2> QED
    BY <2>1 DEF FinalInv
<1> QED
  BY <1>1, <1>2, <1>3, <1>4, <1>5, <1>6, <1>7, <1>8, <1>9, <1>10, <1>11, <1>12,
     <1>13, <1>14, <1>15, <1>16, <1>17, <1>18, <1>19, <1>20, <1>21, <1>22, <1>23,
     <1>24, <1>25, <1>26, <1>27, <1>28, <1>29, <1>30 DEF Next, Send, Register, Run, Finalize

-----------------------------------------------------------------------------
(* No delivery during the cleanup                                          *)

\* The thread that has decided to take a message and has not taken it yet.
Taking == {w \in Workers : pc[w] \in TakePC}

\* Nobody finalizes under a thread that is about to take a message: it holds
\* RUNNING, so that a close is left to it.
TakeInv == Taking # {} => Finalizing = {}

\* Every step keeps the cleanup and the takers apart.
LEMMA TakeStep ==
  ASSUME TypeOK, TokenInv, FinalInv, TakeInv, [Next]_vars
  PROVE  TakeInv'
<1>1. Taking \subseteq Draining
  BY DEF Taking, Draining, TakePC, DrainPC
<1>2. ASSUME NEW s \in Senders, Send(s) PROVE TakeInv'
  <2>1. Taking' = Taking /\ Finalizing' = Finalizing
    <3>1. \A w \in Workers \cup Closers : pc'[w] = pc[w]
      BY <1>2, ThreadsAssumption DEF Send, SendUser, SendSystem, EnqueueUser,
         EnqueueSystem, TypeOK, Threads, Goto
    <3> QED
      BY <3>1 DEF Taking, Finalizing
  <2> QED
    BY <2>1 DEF TakeInv
<1>3. ASSUME NEW t \in Senders \cup Workers, Register(t) PROVE TakeInv'
  <2>1. \E label \in RegisterPC \cup {"idle"} : pc' = [pc EXCEPT ![t] = label]
    BY <1>3 DEF Register, CheckSuspended, RequestSchedule, FlagReschedule,
       SubmitAccepted, SubmitDropped, SubmitCrossed, SubmitRejected,
       RollbackReschedule, Goto, RegisterPC
  <2>2. Taking' \subseteq Taking /\ Finalizing' \subseteq Finalizing
    BY <2>1, ThreadsAssumption DEF Taking, Finalizing, TakePC, FinalizePC,
       RegisterPC, TypeOK, Threads
  <2> QED
    BY <2>2 DEF TakeInv
<1>4. ASSUME NEW w \in Workers,
             \/ StartRun(w) \/ SetRunning(w) \/ ProcessSystem(w) \/ SystemDrained(w)
             \/ ProcessUser(w) \/ UserDrained(w) \/ SwapReschedule(w) \/ InspectQueues(w)
      PROVE  TakeInv'
  <2>1. \E label \in {"idle", "start", "startClosed", "system", "user", "finish",
                     "schedule", "inspect"} : pc' = [pc EXCEPT ![w] = label]
    BY <1>4 DEF StartRun, SetRunning, ProcessSystem, SystemDrained, ProcessUser,
       UserDrained, SwapReschedule, InspectQueues, Goto
  <2>2. Taking' \subseteq Taking /\ Finalizing' \subseteq Finalizing
    BY <2>1, ThreadsAssumption DEF Taking, Finalizing, TakePC, FinalizePC, TypeOK,
       Threads
  <2> QED
    BY <2>2 DEF TakeInv
<1>5. ASSUME NEW w \in Workers, CheckSystem(w) \/ CheckUser(w) PROVE TakeInv'
  <2>1. CASE Finalizing = {}
    <3>1. Finalizing' = {}
      BY <1>5, <2>1, ThreadsAssumption DEF CheckSystem, CheckUser, Finalizing,
         FinalizePC, TypeOK, Threads, Goto
    <3> QED
      BY <3>1 DEF TakeInv
  <2>2. CASE Finalizing # {}
    <3>1. IsCloseRequested(word) /\ Taking = {}
      BY <2>2 DEF FinalInv, TakeInv, IsCloseRequested
    <3>2. pc' = [pc EXCEPT ![w] = "user"] \/ pc' = [pc EXCEPT ![w] = "finish"]
      BY <1>5, <3>1 DEF CheckSystem, CheckUser, ShouldProcess, IsClosed, Goto
    <3>3. Taking' = {}
      BY <3>1, <3>2, ThreadsAssumption DEF Taking, TakePC, TypeOK, Threads
    <3> QED
      BY <3>3 DEF TakeInv
  <2> QED
    BY <2>1, <2>2
<1>6. ASSUME NEW w \in Workers, FinishRun(w) PROVE TakeInv'
  <2>1. Draining = {w} /\ Taking = {}
    BY <1>1, <1>6 DEF FinishRun, TokenInv, Carriers, Draining, DrainPC, Taking, TakePC
  <2>2. Taking' = {}
    BY <1>6, <2>1, ThreadsAssumption DEF FinishRun, Taking, TakePC, TypeOK, Threads,
       Goto
  <2> QED
    BY <2>2 DEF TakeInv
<1>7. ASSUME NEW c \in Closers, BecomeClosed(c) PROVE TakeInv'
  <2>1. Taking' = Taking
    BY <1>7, ThreadsAssumption DEF BecomeClosed, Taking, TypeOK, Threads, Goto
  <2>2. CASE Taking = {}
    BY <2>1, <2>2 DEF TakeInv
  <2>3. CASE Taking # {}
    <3>1. ~CallerOwnsFinalizer(word) /\ Finalizing = {}
      BY <1>1, <2>3 DEF TokenInv, TakeInv, CallerOwnsFinalizer
    <3>2. Finalizing' = {}
      BY <1>7, <3>1, ThreadsAssumption DEF BecomeClosed, Finalizing, FinalizePC,
         TypeOK, Threads, Goto
    <3> QED
      BY <3>2 DEF TakeInv
  <2> QED
    BY <2>2, <2>3
<1>8. ASSUME NEW t \in Workers \cup Closers, Finalize(t) PROVE TakeInv'
  <2>1. Taking = {}
    BY <1>8 DEF Finalize, SealUser, DrainSystem, DrainUser, CleanUp, TakeInv,
       Finalizing, FinalizePC
  <2>2. pc' = pc \/ \E label \in FinalizePC \cup {"closed", "idle"} :
                       pc' = [pc EXCEPT ![t] = label]
    BY <1>8 DEF Finalize, SealUser, DrainSystem, DrainUser, CleanUp, Goto, FinalizePC
  <2>3. Taking' = {}
    BY <2>1, <2>2, ThreadsAssumption DEF Taking, TakePC, FinalizePC, TypeOK, Threads
  <2> QED
    BY <2>3 DEF TakeInv
<1>9. CASE DropCell \/ UNCHANGED vars
  BY <1>9 DEF DropCell, vars, TakeInv, Taking, Finalizing
<1> QED
  BY <1>2, <1>3, <1>4, <1>5, <1>6, <1>7, <1>8, <1>9 DEF Next, Run

-----------------------------------------------------------------------------
(* No phantom message                                                      *)

\* From the seal on, the user queue refuses; a cleaned mailbox is empty.
SealInv ==
  /\ (\E t \in Workers \cup Closers : pc[t] \in FinalizePC \ {"finalize"}) => userClosed
  /\ IsCleanupDone(word) => userClosed /\ user = <<>>

\* Every step keeps a sealed queue sealed and a cleaned one empty.
LEMMA SealStep ==
  ASSUME TypeOK, FinalInv, SealInv, [Next]_vars
  PROVE  SealInv'
<1>1. ASSUME NEW s \in Senders, NEW m \in UserMessages, SendUser(s, m) PROVE SealInv'
  BY <1>1, ThreadsAssumption DEF SendUser, SealInv, IsCleanupDone, queues,
     FinalizePC, TypeOK, Threads, Goto, SenderPC, RegisterPC
<1>2. ASSUME NEW s \in Senders, NEW m \in SystemMessages, SendSystem(s, m) PROVE SealInv'
  BY <1>2, ThreadsAssumption, SuspendEffects DEF SendSystem, SealInv, IsCleanupDone,
     queues, FinalizePC, TypeOK, Threads, Goto, SenderPC, RegisterPC
<1>3. ASSUME NEW s \in Senders, EnqueueUser(s) PROVE SealInv'
  <2>1. pc' = [pc EXCEPT ![s] = "idle"] \/ pc' = [pc EXCEPT ![s] = "register"]
    BY <1>3 DEF EnqueueUser, Goto
  <2>2. word' = word /\ userClosed' = userClosed
    BY <1>3 DEF EnqueueUser
  <2>3. IsCleanupDone(word) => user' = user
    BY <1>3 DEF EnqueueUser, EnqueueRefuses, SealInv, IsClosed
  <2> QED
    BY <1>3, <2>1, <2>2, <2>3, ThreadsAssumption DEF SealInv, IsCleanupDone,
       FinalizePC, TypeOK, Threads, Goto, SenderPC, RegisterPC
<1>4. ASSUME NEW s \in Senders, EnqueueSystem(s) PROVE SealInv'
  BY <1>4, ThreadsAssumption DEF EnqueueSystem, SealInv, IsCleanupDone, queues,
     FinalizePC, TypeOK, Threads, Goto, SenderPC, RegisterPC
<1>5. ASSUME NEW t \in Senders \cup Workers, CheckSuspended(t) PROVE SealInv'
  BY <1>5, ThreadsAssumption DEF CheckSuspended, SealInv, IsCleanupDone, queues,
     FinalizePC, TypeOK, Threads, Goto, SenderPC, RegisterPC
<1>6. ASSUME NEW t \in Senders \cup Workers, RequestSchedule(t) PROVE SealInv'
  <2>1. IsCleanupDone(word)' => IsCleanupDone(word)
    BY <1>6, ScheduleEffects DEF IsCleanupDone
  <2>2. user' = user /\ userClosed' = userClosed
    BY <1>6 DEF RequestSchedule, queues
  <2>3. \A u \in Workers \cup Closers : pc'[u] \in FinalizePC => pc'[u] = pc[u]
    BY <1>6, ThreadsAssumption, ScheduleEffects DEF RequestSchedule, FinalizePC,
       TypeOK, Threads, Goto
  <2> QED
    BY <2>1, <2>2, <2>3 DEF SealInv
<1>7. ASSUME NEW t \in Senders \cup Workers, FlagReschedule(t) PROVE SealInv'
  BY <1>7, ThreadsAssumption DEF FlagReschedule, SealInv, IsCleanupDone, queues,
     FinalizePC, TypeOK, Threads, Goto, SenderPC, RegisterPC
<1>8. ASSUME NEW t \in Senders \cup Workers, SubmitAccepted(t) PROVE SealInv'
  BY <1>8, ThreadsAssumption DEF SubmitAccepted, SealInv, IsCleanupDone, queues,
     FinalizePC, TypeOK, Threads, Goto, SenderPC, RegisterPC
<1>9. ASSUME NEW t \in Senders \cup Workers, SubmitRejected(t) PROVE SealInv'
  BY <1>9, ThreadsAssumption, ScheduleEffects DEF SubmitRejected, SealInv,
     IsCleanupDone, queues, FinalizePC, TypeOK, Threads, Goto, SenderPC, RegisterPC
<1>10. ASSUME NEW t \in Senders \cup Workers, RollbackReschedule(t) PROVE SealInv'
  BY <1>10, ThreadsAssumption DEF RollbackReschedule, SealInv, IsCleanupDone,
     queues, FinalizePC, TypeOK, Threads, Goto, SenderPC, RegisterPC
<1>11. ASSUME NEW w \in Workers, StartRun(w) PROVE SealInv'
  BY <1>11, ThreadsAssumption DEF StartRun, SealInv, IsCleanupDone, queues,
     FinalizePC, TypeOK, Threads, Goto, SenderPC, RegisterPC
<1>12. ASSUME NEW w \in Workers, SetRunning(w) PROVE SealInv'
  <2>1. IsCleanupDone(word)' => IsCleanupDone(word)
    BY <1>12, ScheduleEffects DEF IsCleanupDone
  <2>2. user' = user /\ userClosed' = userClosed
    BY <1>12 DEF SetRunning, queues
  <2>3. \A u \in Workers \cup Closers : pc'[u] \in FinalizePC => pc'[u] = pc[u]
    BY <1>12, ThreadsAssumption, ScheduleEffects DEF SetRunning, FinalizePC, TypeOK,
       Threads, Goto
  <2> QED
    BY <2>1, <2>2, <2>3 DEF SealInv
<1>13. ASSUME NEW w \in Workers, ProcessSystem(w) PROVE SealInv'
  BY <1>13, ThreadsAssumption, SuspendEffects DEF ProcessSystem, SealInv,
     IsCleanupDone, queues, FinalizePC, TypeOK, Threads, Goto, SenderPC, RegisterPC
<1>14. ASSUME NEW w \in Workers, SystemDrained(w) PROVE SealInv'
  BY <1>14, ThreadsAssumption DEF SystemDrained, SealInv, IsCleanupDone, queues,
     FinalizePC, TypeOK, Threads, Goto, SenderPC, RegisterPC
<1>15. ASSUME NEW w \in Workers, ProcessUser(w) PROVE SealInv'
  BY <1>15, ThreadsAssumption, SuspendEffects DEF ProcessUser, SealInv,
     IsCleanupDone, queues, FinalizePC, TypeOK, Threads, Goto, SenderPC, RegisterPC
<1>16. ASSUME NEW w \in Workers, UserDrained(w) PROVE SealInv'
  BY <1>16, ThreadsAssumption DEF UserDrained, SealInv, IsCleanupDone, queues,
     FinalizePC, TypeOK, Threads, Goto, SenderPC, RegisterPC
<1>17. ASSUME NEW w \in Workers, FinishRun(w) PROVE SealInv'
  BY <1>17, ThreadsAssumption, CloseEffects DEF FinishRun, SealInv, IsCleanupDone,
     queues, FinalizePC, TypeOK, Threads, Goto, SenderPC, RegisterPC
<1>18. ASSUME NEW w \in Workers, SwapReschedule(w) PROVE SealInv'
  BY <1>18, ThreadsAssumption DEF SwapReschedule, SealInv, IsCleanupDone, queues,
     FinalizePC, TypeOK, Threads, Goto, SenderPC, RegisterPC
<1>19. ASSUME NEW w \in Workers, InspectQueues(w) PROVE SealInv'
  BY <1>19, ThreadsAssumption DEF InspectQueues, SealInv, IsCleanupDone, queues,
     FinalizePC, TypeOK, Threads, Goto, SenderPC, RegisterPC
<1>20. ASSUME NEW c \in Closers, BecomeClosed(c) PROVE SealInv'
  <2>1. IsCleanupDone(word)' => IsCleanupDone(word)
    BY <1>20, CloseEffects DEF IsCleanupDone
  <2>2. user' = user /\ userClosed' = userClosed
    BY <1>20 DEF BecomeClosed, queues
  <2>3. \A u \in Workers \cup Closers : pc'[u] \in FinalizePC \ {"finalize"} => pc'[u] = pc[u]
    BY <1>20, ThreadsAssumption DEF BecomeClosed, FinalizePC, TypeOK, Threads, Goto
  <2> QED
    BY <2>1, <2>2, <2>3 DEF SealInv
<1>21. ASSUME NEW t \in Workers \cup Closers, SealUser(t) PROVE SealInv'
  BY <1>21, ThreadsAssumption DEF SealUser, SealInv, IsCleanupDone, queues,
     FinalizePC, TypeOK, Threads, Goto, SenderPC, RegisterPC
<1>22. ASSUME NEW t \in Workers \cup Closers, DrainSystem(t) PROVE SealInv'
  BY <1>22, ThreadsAssumption DEF DrainSystem, SealInv, IsCleanupDone, queues,
     FinalizePC, TypeOK, Threads, Goto, SenderPC, RegisterPC
<1>23. ASSUME NEW t \in Workers \cup Closers, DrainUser(t) PROVE SealInv'
  BY <1>23, ThreadsAssumption DEF DrainUser, SealInv, IsCleanupDone, queues,
     FinalizePC, TypeOK, Threads, Goto, SenderPC, RegisterPC
<1>24. ASSUME NEW t \in Workers \cup Closers, CleanUp(t) PROVE SealInv'
  BY <1>24, ThreadsAssumption, CloseEffects DEF CleanUp, SealInv, IsCleanupDone,
     queues, FinalizePC, TypeOK, Threads, Goto, SenderPC, RegisterPC
<1>25. ASSUME DropCell PROVE SealInv'
  BY <1>25, ThreadsAssumption DEF DropCell, SealInv, IsCleanupDone, queues,
     FinalizePC, TypeOK, Threads, Goto, SenderPC, RegisterPC
<1>26. ASSUME NEW w \in Workers, CheckSystem(w) PROVE SealInv'
  BY <1>26, ThreadsAssumption DEF CheckSystem, SealInv, IsCleanupDone, queues,
     FinalizePC, TypeOK, Threads, Goto, SenderPC, RegisterPC
<1>27. ASSUME NEW w \in Workers, CheckUser(w) PROVE SealInv'
  BY <1>27, ThreadsAssumption DEF CheckUser, SealInv, IsCleanupDone, queues,
     FinalizePC, TypeOK, Threads, Goto, SenderPC, RegisterPC
<1>28. CASE UNCHANGED vars
  BY <1>28, ThreadsAssumption DEF vars, SealInv, IsCleanupDone, queues, FinalizePC,
     TypeOK, Threads, Goto, SenderPC, RegisterPC
<1>29. ASSUME NEW t \in Senders \cup Workers, SubmitDropped(t) PROVE SealInv'
  BY <1>29, ThreadsAssumption DEF SubmitDropped, SealInv, IsCleanupDone, queues,
     FinalizePC, TypeOK, Threads, Goto, SenderPC, RegisterPC
<1>30. ASSUME NEW t \in Senders \cup Workers, SubmitCrossed(t) PROVE SealInv'
  BY <1>30, ThreadsAssumption DEF SubmitCrossed, SealInv, IsCleanupDone, queues,
     FinalizePC, TypeOK, Threads, Goto, SenderPC, RegisterPC
<1> QED
  BY <1>1, <1>2, <1>3, <1>4, <1>5, <1>6, <1>7, <1>8, <1>9, <1>10, <1>11, <1>12,
     <1>13, <1>14, <1>15, <1>16, <1>17, <1>18, <1>19, <1>20, <1>21, <1>22, <1>23,
     <1>24, <1>25, <1>26, <1>27, <1>28, <1>29, <1>30 DEF Next, Send, Register, Run, Finalize

-----------------------------------------------------------------------------
(* No lost wake-up                                                         *)

\* Someone stands behind the flags of an open mailbox: SCHEDULED means that a
\* closure is on its way, RUNNING that a thread drains.
BackedInv ==
  ~IsClosed(word) /\ live =>
    /\ "SCHEDULED" \in word.flags => tasks > 0 \/ Carriers \ Draining # {}
    /\ "RUNNING" \in word.flags => Draining # {}

\* While the executor accepts every submission, the flags stay backed.
LEMMA BackedStep ==
  ASSUME TypeOK, TokenInv, BackedInv, ~CanReject, [Next]_vars
  PROVE  BackedInv'
<1>0. tasks \in Nat /\ tasks \in {0, 1}
  BY DEF TypeOK, TokenInv
<1>1. ASSUME NEW s \in Senders, NEW m \in UserMessages, SendUser(s, m) PROVE BackedInv'
  <2>1. Carriers' = Carriers /\ Draining' = Draining
    BY <1>1, ThreadsAssumption DEF SendUser, Carriers, Draining, TypeOK, Threads,
       Goto, DrainPC
  <2>2. word' = word /\ tasks' = tasks /\ live' = live
    BY <1>1 DEF SendUser
  <2> QED
    BY <2>1, <2>2 DEF BackedInv
<1>2. ASSUME NEW s \in Senders, NEW m \in SystemMessages, SendSystem(s, m) PROVE BackedInv'
  <2>1. Carriers' = Carriers /\ Draining' = Draining
    BY <1>2, ThreadsAssumption DEF SendSystem, Carriers, Draining, TypeOK, Threads,
       Goto, DrainPC
  <2>2. word'.flags = word.flags /\ tasks' = tasks /\ live' = live
    BY <1>2, SuspendEffects DEF SendSystem
  <2> QED
    BY <2>1, <2>2 DEF BackedInv, IsClosed, IsCloseRequested, IsCleanupDone
<1>3. ASSUME NEW s \in Senders, EnqueueUser(s) PROVE BackedInv'
  <2>1. pc' = [pc EXCEPT ![s] = "idle"] \/ pc' = [pc EXCEPT ![s] = "register"]
    BY <1>3 DEF EnqueueUser, Goto
  <2>2. Carriers' = Carriers /\ Draining' = Draining
    BY <1>3, <2>1, ThreadsAssumption DEF EnqueueUser, Carriers, Draining, TypeOK,
       Threads, DrainPC
  <2> QED
    BY <1>3, <2>2 DEF EnqueueUser, BackedInv
<1>4. ASSUME NEW s \in Senders, EnqueueSystem(s) PROVE BackedInv'
  <2>1. Carriers' = Carriers /\ Draining' = Draining
    BY <1>4, ThreadsAssumption DEF EnqueueSystem, Carriers, Draining, TypeOK,
       Threads, Goto, DrainPC
  <2>2. word' = word /\ tasks' = tasks /\ live' = live
    BY <1>4 DEF EnqueueSystem
  <2> QED
    BY <2>1, <2>2 DEF BackedInv
<1>5. ASSUME NEW t \in Senders \cup Workers, CheckSuspended(t) PROVE BackedInv'
  <2>1. Carriers' = Carriers /\ Draining' = Draining
    BY <1>5, ThreadsAssumption DEF CheckSuspended, Carriers, Draining, TypeOK,
       Threads, Goto, DrainPC
  <2>2. word' = word /\ tasks' = tasks /\ live' = live
    BY <1>5 DEF CheckSuspended
  <2> QED
    BY <2>1, <2>2 DEF BackedInv
<1>6. ASSUME NEW t \in Senders \cup Workers, RequestSchedule(t) PROVE BackedInv'
  <2>1. tasks' = tasks /\ live' = live
    BY <1>6 DEF RequestSchedule
  <2>2. CASE /\ word' = word
             /\ pc' = [pc EXCEPT ![t] = "idle"] \/ pc' = [pc EXCEPT ![t] = "flag"]
    <3>1. Carriers' = Carriers /\ Draining' = Draining
      BY <1>6, <2>2, ThreadsAssumption DEF RequestSchedule, Carriers, Draining,
         DrainPC, TypeOK, Threads
    <3> QED
      BY <2>1, <2>2, <3>1 DEF BackedInv
  <2>3. CASE /\ ~IsBusy(word)
             /\ word'.flags = word.flags \cup {"SCHEDULED"}
             /\ pc' = [pc EXCEPT ![t] = "submit"]
    <3>1. t \in Carriers' /\ t \notin Draining'
      BY <1>6, <2>3, ThreadsAssumption DEF Carriers, Draining, DrainPC, TypeOK,
         Threads
    <3>2. "RUNNING" \notin word'.flags
      BY <2>3 DEF IsBusy
    <3> QED
      BY <3>1, <3>2 DEF BackedInv
  <2> QED
    BY <1>6, <2>2, <2>3, ScheduleEffects
<1>7. ASSUME NEW t \in Senders \cup Workers, FlagReschedule(t) PROVE BackedInv'
  <2>1. Carriers' = Carriers /\ Draining' = Draining
    BY <1>7, ThreadsAssumption DEF FlagReschedule, Carriers, Draining, TypeOK,
       Threads, Goto, DrainPC
  <2>2. word' = word /\ tasks' = tasks /\ live' = live
    BY <1>7 DEF FlagReschedule
  <2> QED
    BY <2>1, <2>2 DEF BackedInv
<1>8. ASSUME NEW t \in Senders \cup Workers, SubmitAccepted(t) PROVE BackedInv'
  <2>1. t \in Carriers \ Draining
    BY <1>8 DEF SubmitAccepted, Carriers, Draining, DrainPC
  <2>2. tasks' > 0 /\ word' = word /\ live' = live
    BY <1>8, <1>0 DEF SubmitAccepted
  <2>3. Draining' = Draining
    BY <1>8, ThreadsAssumption DEF SubmitAccepted, Carriers, Draining, TypeOK,
       Threads, Goto, DrainPC
  <2> QED
    BY <2>2, <2>3 DEF BackedInv
<1>9. ASSUME NEW t \in Senders \cup Workers, SubmitRejected(t) PROVE BackedInv'
  BY <1>9 DEF SubmitRejected
<1>10. ASSUME NEW t \in Senders \cup Workers, RollbackReschedule(t) PROVE BackedInv'
  <2>1. Carriers' = Carriers /\ Draining' = Draining
    BY <1>10, ThreadsAssumption DEF RollbackReschedule, Carriers, Draining, TypeOK,
       Threads, Goto, DrainPC
  <2>2. word' = word /\ tasks' = tasks /\ live' = live
    BY <1>10 DEF RollbackReschedule
  <2> QED
    BY <2>1, <2>2 DEF BackedInv
<1>11. ASSUME NEW w \in Workers, StartRun(w) PROVE BackedInv'
  <2>1. word' = word /\ live' = live
    BY <1>11 DEF StartRun
  <2>2. Draining' = Draining
    BY <1>11, ThreadsAssumption DEF StartRun, Carriers, Draining, TypeOK, Threads,
       Goto, DrainPC
  <2>3. ~IsClosed(word) /\ live => w \in Carriers' \ Draining'
    BY <1>11, ThreadsAssumption DEF StartRun, IsClosed, Carriers, Draining, TypeOK,
       Threads, Goto, DrainPC
  <2> QED
    BY <2>1, <2>2, <2>3 DEF BackedInv
<1>12. ASSUME NEW w \in Workers, SetRunning(w) PROVE BackedInv'
  <2>1. w \in Draining'
    BY <1>12 DEF SetRunning, Carriers, Draining, TypeOK, Threads, Goto, DrainPC
  <2>2. "SCHEDULED" \notin word'.flags
    BY <1>12, ScheduleEffects
  <2> QED
    BY <2>1, <2>2 DEF BackedInv
<1>13. ASSUME NEW w \in Workers, ProcessSystem(w) PROVE BackedInv'
  <2>1. Carriers' = Carriers /\ Draining' = Draining
    BY <1>13, ThreadsAssumption DEF ProcessSystem, Carriers, Draining, TypeOK,
       Threads, Goto, DrainPC
  <2>2. word'.flags = word.flags /\ tasks' = tasks /\ live' = live
    BY <1>13, SuspendEffects DEF ProcessSystem
  <2> QED
    BY <2>1, <2>2 DEF BackedInv, IsClosed, IsCloseRequested, IsCleanupDone
<1>14. ASSUME NEW w \in Workers, SystemDrained(w) PROVE BackedInv'
  <2>1. Carriers' = Carriers /\ Draining' = Draining
    BY <1>14, ThreadsAssumption DEF SystemDrained, Carriers, Draining, TypeOK,
       Threads, Goto, DrainPC
  <2>2. word' = word /\ tasks' = tasks /\ live' = live
    BY <1>14 DEF SystemDrained
  <2> QED
    BY <2>1, <2>2 DEF BackedInv
<1>15. ASSUME NEW w \in Workers, ProcessUser(w) PROVE BackedInv'
  <2>1. Carriers' = Carriers /\ Draining' = Draining
    BY <1>15, ThreadsAssumption DEF ProcessUser, Carriers, Draining, TypeOK,
       Threads, Goto, DrainPC
  <2>2. word'.flags = word.flags /\ tasks' = tasks /\ live' = live
    BY <1>15, SuspendEffects DEF ProcessUser
  <2> QED
    BY <2>1, <2>2 DEF BackedInv, IsClosed, IsCloseRequested, IsCleanupDone
<1>16. ASSUME NEW w \in Workers, UserDrained(w) PROVE BackedInv'
  <2>1. Carriers' = Carriers /\ Draining' = Draining
    BY <1>16, ThreadsAssumption DEF UserDrained, Carriers, Draining, TypeOK,
       Threads, Goto, DrainPC
  <2>2. word' = word /\ tasks' = tasks /\ live' = live
    BY <1>16 DEF UserDrained
  <2> QED
    BY <2>1, <2>2 DEF BackedInv
<1>17. ASSUME NEW w \in Workers, FinishRun(w) PROVE BackedInv'
  <2>1. "SCHEDULED" \notin word'.flags /\ "RUNNING" \notin word'.flags
    BY <1>17, CloseEffects
  <2> QED
    BY <2>1 DEF BackedInv
<1>18. ASSUME NEW w \in Workers, SwapReschedule(w) PROVE BackedInv'
  <2>1. Carriers' = Carriers /\ Draining' = Draining
    BY <1>18, ThreadsAssumption DEF SwapReschedule, Carriers, Draining, TypeOK,
       Threads, Goto, DrainPC
  <2>2. word' = word /\ tasks' = tasks /\ live' = live
    BY <1>18 DEF SwapReschedule
  <2> QED
    BY <2>1, <2>2 DEF BackedInv
<1>19. ASSUME NEW w \in Workers, InspectQueues(w) PROVE BackedInv'
  <2>1. Carriers' = Carriers /\ Draining' = Draining
    BY <1>19, ThreadsAssumption DEF InspectQueues, Carriers, Draining, TypeOK,
       Threads, Goto, DrainPC
  <2>2. word' = word /\ tasks' = tasks /\ live' = live
    BY <1>19 DEF InspectQueues
  <2> QED
    BY <2>1, <2>2 DEF BackedInv
<1>20. ASSUME NEW c \in Closers, BecomeClosed(c) PROVE BackedInv'
  <2>1. IsClosed(word)'
    BY <1>20, CloseEffects DEF IsClosed, IsCloseRequested, IsCleanupDone
  <2> QED
    BY <2>1 DEF BackedInv
<1>21. ASSUME NEW t \in Workers \cup Closers, SealUser(t) PROVE BackedInv'
  <2>1. Carriers' = Carriers /\ Draining' = Draining
    BY <1>21, ThreadsAssumption DEF SealUser, Carriers, Draining, TypeOK, Threads,
       Goto, DrainPC
  <2>2. word' = word /\ tasks' = tasks /\ live' = live
    BY <1>21 DEF SealUser
  <2> QED
    BY <2>1, <2>2 DEF BackedInv
<1>22. ASSUME NEW t \in Workers \cup Closers, DrainSystem(t) PROVE BackedInv'
  <2>1. Carriers' = Carriers /\ Draining' = Draining
    BY <1>22, ThreadsAssumption DEF DrainSystem, Carriers, Draining, TypeOK,
       Threads, Goto, DrainPC
  <2>2. word' = word /\ tasks' = tasks /\ live' = live
    BY <1>22 DEF DrainSystem
  <2> QED
    BY <2>1, <2>2 DEF BackedInv
<1>23. ASSUME NEW t \in Workers \cup Closers, DrainUser(t) PROVE BackedInv'
  <2>1. Carriers' = Carriers /\ Draining' = Draining
    BY <1>23, ThreadsAssumption DEF DrainUser, Carriers, Draining, TypeOK, Threads,
       Goto, DrainPC
  <2>2. word' = word /\ tasks' = tasks /\ live' = live
    BY <1>23 DEF DrainUser
  <2> QED
    BY <2>1, <2>2 DEF BackedInv
<1>24. ASSUME NEW t \in Workers \cup Closers, CleanUp(t) PROVE BackedInv'
  <2>1. IsClosed(word)'
    BY <1>24, CloseEffects DEF IsClosed, IsCloseRequested, IsCleanupDone
  <2> QED
    BY <2>1 DEF BackedInv
<1>25. ASSUME DropCell PROVE BackedInv'
  BY <1>25 DEF DropCell, BackedInv
<1>26. ASSUME NEW w \in Workers, CheckSystem(w) PROVE BackedInv'
  <2>1. Carriers' = Carriers /\ Draining' = Draining
    BY <1>26, ThreadsAssumption DEF CheckSystem, Carriers, Draining, TypeOK,
       Threads, Goto, DrainPC
  <2>2. word' = word /\ tasks' = tasks /\ live' = live
    BY <1>26 DEF CheckSystem
  <2> QED
    BY <2>1, <2>2 DEF BackedInv
<1>27. ASSUME NEW w \in Workers, CheckUser(w) PROVE BackedInv'
  <2>1. Carriers' = Carriers /\ Draining' = Draining
    BY <1>27, ThreadsAssumption DEF CheckUser, Carriers, Draining, TypeOK,
       Threads, Goto, DrainPC
  <2>2. word' = word /\ tasks' = tasks /\ live' = live
    BY <1>27 DEF CheckUser
  <2> QED
    BY <2>1, <2>2 DEF BackedInv
<1>28. CASE UNCHANGED vars
  BY <1>28 DEF vars, BackedInv, Carriers, Draining
<1>29. ASSUME NEW t \in Senders \cup Workers, SubmitDropped(t) PROVE BackedInv'
  BY <1>29 DEF SubmitDropped
<1>30. ASSUME NEW t \in Senders \cup Workers, SubmitCrossed(t) PROVE BackedInv'
  BY <1>30 DEF SubmitCrossed
<1> QED
  BY <1>1, <1>2, <1>3, <1>4, <1>5, <1>6, <1>7, <1>8, <1>9, <1>10, <1>11, <1>12,
     <1>13, <1>14, <1>15, <1>16, <1>17, <1>18, <1>19, <1>20, <1>21, <1>22, <1>23,
     <1>24, <1>25, <1>26, <1>27, <1>28, <1>29, <1>30 DEF Next, Send, Register, Run, Finalize

\* While the executor accepts every submission, no step loses a wake-up.
LEMMA WakeStep ==
  ASSUME TypeOK, TokenInv, FinalInv, BackedInv, NoLostWakeup, ~CanReject, [Next]_vars
  PROVE  NoLostWakeup'
<1>0. tasks \in Nat
  BY DEF TypeOK
<1>1. ASSUME NEW s \in Senders, NEW m \in UserMessages, SendUser(s, m) PROVE NoLostWakeup'
  BY <1>1, <1>0, ThreadsAssumption DEF SendUser, Attended, NoLostWakeup, TypeOK,
     Threads, Goto, DrainPC, queues, history, IsClosed, IsCloseRequested,
     IsCleanupDone, IsSuspended
<1>2. ASSUME NEW s \in Senders, NEW m \in SystemMessages, SendSystem(s, m) PROVE NoLostWakeup'
  <2>1. s \in Threads /\ pc'[s] \in {"enqueueSystem"}
    BY <1>2, ThreadsAssumption DEF SendSystem, TypeOK, Threads, Goto, DrainPC
  <2> QED
    BY <2>1 DEF NoLostWakeup, Attended, DrainPC
<1>3. ASSUME NEW s \in Senders, EnqueueUser(s) PROVE NoLostWakeup'
  <2>1. CASE EnqueueRefuses
    <3>1. pc' = [pc EXCEPT ![s] = "idle"] /\ pc[s] = "enqueue"
      BY <1>3, <2>1 DEF EnqueueUser, Goto
    <3>2. UNCHANGED <<user, system, word, live, tasks>>
      BY <1>3, <2>1 DEF EnqueueUser
    <3> QED
      BY <3>1, <3>2 DEF NoLostWakeup, Attended, TypeOK, DrainPC, IsClosed,
         IsCloseRequested, IsCleanupDone, IsSuspended
  <2>2. CASE ~EnqueueRefuses
    <3>1. pc' = [pc EXCEPT ![s] = "register"] /\ pc[s] = "enqueue"
      BY <1>3, <2>2 DEF EnqueueUser, Goto
    <3>2. UNCHANGED <<system, word, live, tasks>>
      BY <1>3, <2>2 DEF EnqueueUser
    <3>3. pc'[s] = "register"
      BY <1>3, <3>1 DEF TypeOK, Threads
    <3> QED
      BY <3>1, <3>2, <3>3 DEF NoLostWakeup, Attended, TypeOK, DrainPC, IsClosed,
         IsCloseRequested, IsCleanupDone, IsSuspended
  <2> QED
    BY <2>1, <2>2
<1>4. ASSUME NEW s \in Senders, EnqueueSystem(s) PROVE NoLostWakeup'
  <2>1. s \in Threads /\ pc'[s] \in {"schedule"}
    BY <1>4, ThreadsAssumption DEF EnqueueSystem, TypeOK, Threads, Goto, DrainPC
  <2> QED
    BY <2>1 DEF NoLostWakeup, Attended, DrainPC
<1>5. ASSUME NEW t \in Senders \cup Workers, CheckSuspended(t) PROVE NoLostWakeup'
  BY <1>5, <1>0, ThreadsAssumption DEF CheckSuspended, Attended, NoLostWakeup,
     TypeOK, Threads, Goto, DrainPC, queues, history, IsClosed, IsCloseRequested,
     IsCleanupDone, IsSuspended
<1>6. ASSUME NEW t \in Senders \cup Workers, RequestSchedule(t) PROVE NoLostWakeup'
  <2>1. user' = user /\ system' = system /\ tasks' = tasks /\ live' = live
    BY <1>6 DEF RequestSchedule, queues
  <2>2. CASE word' = word /\ IsClosed(word)
    BY <2>2 DEF NoLostWakeup, IsClosed, IsCloseRequested, IsCleanupDone
  <2>3. CASE word' = word /\ ~IsClosed(word) /\ live /\ IsBusy(word) /\ pc' = [pc
     EXCEPT ![t] = "flag"]
    <3>1. tasks > 0 \/ Carriers # {}
      BY <2>3 DEF BackedInv, IsBusy, Draining, Carriers
    <3>2. Carriers' = Carriers
      BY <1>6, <2>3, ThreadsAssumption DEF RequestSchedule, Carriers, TypeOK,
         Threads, DrainPC
    <3>3. tasks' > 0 \/ Carriers' # {}
      BY <2>1, <3>1, <3>2
    <3>4. Attended'
      BY <3>3 DEF Attended, Carriers, Threads
    <3> QED
      BY <3>4 DEF NoLostWakeup
  <2>4. CASE pc' = [pc EXCEPT ![t] = "submit"]
    <3>1. t \in Threads /\ pc'[t] = "submit"
      BY <1>6, <2>4 DEF TypeOK, Threads
    <3> QED
      BY <3>1 DEF NoLostWakeup, Attended
  <2>5. CASE ~live
    BY <2>1, <2>5 DEF NoLostWakeup
  <2> QED
    BY <1>6, <2>2, <2>3, <2>4, <2>5, ScheduleEffects
<1>7. ASSUME NEW t \in Senders \cup Workers, FlagReschedule(t) PROVE NoLostWakeup'
  BY <1>7, <1>0, ThreadsAssumption DEF FlagReschedule, Attended, NoLostWakeup,
     TypeOK, Threads, Goto, DrainPC, queues, history, IsClosed, IsCloseRequested,
     IsCleanupDone, IsSuspended
<1>8. ASSUME NEW t \in Senders \cup Workers, SubmitAccepted(t) PROVE NoLostWakeup'
  <2>1. tasks' > 0
    BY <1>8, <1>0 DEF SubmitAccepted
  <2> QED
    BY <2>1 DEF NoLostWakeup, Attended
<1>9. ASSUME NEW t \in Senders \cup Workers, SubmitRejected(t) PROVE NoLostWakeup'
  BY <1>9 DEF SubmitRejected
<1>10. ASSUME NEW t \in Senders \cup Workers, RollbackReschedule(t) PROVE NoLostWakeup'
  BY <1>10, <1>0, ThreadsAssumption DEF RollbackReschedule, Attended, NoLostWakeup,
     TypeOK, Threads, Goto, DrainPC, queues, history, IsClosed, IsCloseRequested,
     IsCleanupDone, IsSuspended
<1>11. ASSUME NEW w \in Workers, StartRun(w) PROVE NoLostWakeup'
  <2>1. word' = word /\ live' = live
    BY <1>11 DEF StartRun
  <2>2. ~IsClosed(word) /\ live => w \in Threads /\ pc'[w] = "start"
    BY <1>11 DEF StartRun, IsClosed, TypeOK, Threads, Goto
  <2>3. ~IsClosed(word)' /\ live' => Attended'
    BY <2>1, <2>2 DEF Attended, IsClosed, IsCloseRequested, IsCleanupDone
  <2> QED
    BY <2>3 DEF NoLostWakeup
<1>12. ASSUME NEW w \in Workers, SetRunning(w) PROVE NoLostWakeup'
  <2>1. w \in Threads /\ pc'[w] \in {"system", "finish"}
    BY <1>12, ThreadsAssumption DEF SetRunning, TypeOK, Threads, Goto, DrainPC
  <2> QED
    BY <2>1 DEF NoLostWakeup, Attended, DrainPC
<1>13. ASSUME NEW w \in Workers, ProcessSystem(w) PROVE NoLostWakeup'
  <2>1. w \in Threads /\ pc'[w] \in {"system"}
    BY <1>13, ThreadsAssumption DEF ProcessSystem, TypeOK, Threads, Goto, DrainPC
  <2> QED
    BY <2>1 DEF NoLostWakeup, Attended, DrainPC
<1>14. ASSUME NEW w \in Workers, SystemDrained(w) PROVE NoLostWakeup'
  <2>1. w \in Threads /\ pc'[w] \in {"user"}
    BY <1>14, ThreadsAssumption DEF SystemDrained, TypeOK, Threads, Goto, DrainPC
  <2> QED
    BY <2>1 DEF NoLostWakeup, Attended, DrainPC
<1>15. ASSUME NEW w \in Workers, ProcessUser(w) PROVE NoLostWakeup'
  <2>1. w \in Threads /\ pc'[w] \in {"system"}
    BY <1>15, ThreadsAssumption DEF ProcessUser, TypeOK, Threads, Goto, DrainPC
  <2> QED
    BY <2>1 DEF NoLostWakeup, Attended, DrainPC
<1>16. ASSUME NEW w \in Workers, UserDrained(w) PROVE NoLostWakeup'
  <2>1. w \in Threads /\ pc'[w] \in {"finish"}
    BY <1>16, ThreadsAssumption DEF UserDrained, TypeOK, Threads, Goto, DrainPC
  <2> QED
    BY <2>1 DEF NoLostWakeup, Attended, DrainPC
<1>17. ASSUME NEW w \in Workers, FinishRun(w) PROVE NoLostWakeup'
  <2>1. CASE IsClosed(word)
    <3>1. IsClosed(word)'
      BY <1>17, <2>1, CloseEffects DEF IsClosed, IsCloseRequested, IsCleanupDone
    <3> QED
      BY <3>1 DEF NoLostWakeup
  <2>2. CASE ~IsClosed(word)
    <3>1. w \in Threads /\ pc'[w] = "swap"
      BY <1>17, <2>2 DEF FinishRun, RunnerFinalizes, TypeOK, Threads, Goto,
         IsClosed, IsCloseRequested, IsCleanupDone
    <3> QED
      BY <3>1 DEF NoLostWakeup, Attended
  <2> QED
    BY <2>1, <2>2
<1>18. ASSUME NEW w \in Workers, SwapReschedule(w) PROVE NoLostWakeup'
  <2>1. w \in Threads /\ pc'[w] \in {"schedule", "inspect"}
    BY <1>18, ThreadsAssumption DEF SwapReschedule, TypeOK, Threads, Goto, DrainPC
  <2> QED
    BY <2>1 DEF NoLostWakeup, Attended, DrainPC
<1>19. ASSUME NEW w \in Workers, InspectQueues(w) PROVE NoLostWakeup'
  <2>1. user' = user /\ system' = system
    BY <1>19 DEF InspectQueues, queues
  <2>2. CASE user = <<>> /\ system = <<>>
    BY <2>1, <2>2 DEF NoLostWakeup
  <2>3. CASE user # <<>> \/ system # <<>>
    <3>1. w \in Threads /\ pc'[w] = "schedule"
      BY <1>19, <2>3 DEF InspectQueues, TypeOK, Threads, Goto
    <3> QED
      BY <3>1 DEF NoLostWakeup, Attended
  <2> QED
    BY <2>2, <2>3
<1>20. ASSUME NEW c \in Closers, BecomeClosed(c) PROVE NoLostWakeup'
  <2>1. IsClosed(word)'
    BY <1>20, CloseEffects DEF IsClosed, IsCloseRequested, IsCleanupDone
  <2> QED
    BY <2>1 DEF NoLostWakeup
<1>21. ASSUME NEW t \in Workers \cup Closers, SealUser(t) PROVE NoLostWakeup'
  <2>1. IsClosed(word)
    BY <1>21 DEF SealUser, FinalInv, Finalizing, FinalizePC, IsClosed,
       IsCloseRequested, IsCleanupDone
  <2>2. IsClosed(word)'
    BY <1>21, <2>1 DEF SealUser, IsClosed, IsCloseRequested, IsCleanupDone
  <2> QED
    BY <2>2 DEF NoLostWakeup
<1>22. ASSUME NEW t \in Workers \cup Closers, DrainSystem(t) PROVE NoLostWakeup'
  <2>1. IsClosed(word)
    BY <1>22 DEF DrainSystem, FinalInv, Finalizing, FinalizePC, IsClosed,
       IsCloseRequested, IsCleanupDone
  <2>2. IsClosed(word)'
    BY <1>22, <2>1 DEF DrainSystem, IsClosed, IsCloseRequested, IsCleanupDone
  <2> QED
    BY <2>2 DEF NoLostWakeup
<1>23. ASSUME NEW t \in Workers \cup Closers, DrainUser(t) PROVE NoLostWakeup'
  <2>1. IsClosed(word)
    BY <1>23 DEF DrainUser, FinalInv, Finalizing, FinalizePC, IsClosed,
       IsCloseRequested, IsCleanupDone
  <2>2. IsClosed(word)'
    BY <1>23, <2>1 DEF DrainUser, IsClosed, IsCloseRequested, IsCleanupDone
  <2> QED
    BY <2>2 DEF NoLostWakeup
<1>24. ASSUME NEW t \in Workers \cup Closers, CleanUp(t) PROVE NoLostWakeup'
  <2>1. IsClosed(word)'
    BY <1>24, CloseEffects DEF IsClosed, IsCloseRequested, IsCleanupDone
  <2> QED
    BY <2>1 DEF NoLostWakeup
<1>25. ASSUME DropCell PROVE NoLostWakeup'
  BY <1>25, <1>0, ThreadsAssumption DEF DropCell, Attended, NoLostWakeup, TypeOK,
     Threads, Goto, DrainPC, queues, history, IsClosed, IsCloseRequested,
     IsCleanupDone, IsSuspended
<1>26. ASSUME NEW w \in Workers, CheckSystem(w) PROVE NoLostWakeup'
  <2>1. w \in Threads /\ pc'[w] \in {"user", "takeSystem"}
    BY <1>26, ThreadsAssumption DEF CheckSystem, TypeOK, Threads, Goto, DrainPC
  <2> QED
    BY <2>1 DEF NoLostWakeup, Attended, DrainPC
<1>27. ASSUME NEW w \in Workers, CheckUser(w) PROVE NoLostWakeup'
  <2>1. w \in Threads /\ pc'[w] \in {"takeUser", "finish"}
    BY <1>27, ThreadsAssumption DEF CheckUser, TypeOK, Threads, Goto, DrainPC
  <2> QED
    BY <2>1 DEF NoLostWakeup, Attended, DrainPC
<1>28. CASE UNCHANGED vars
  BY <1>28, <1>0, ThreadsAssumption DEF vars, Attended, NoLostWakeup, TypeOK,
     Threads, Goto, DrainPC, queues, history, IsClosed, IsCloseRequested,
     IsCleanupDone, IsSuspended
<1>29. ASSUME NEW t \in Senders \cup Workers, SubmitDropped(t) PROVE NoLostWakeup'
  BY <1>29 DEF SubmitDropped
<1>30. ASSUME NEW t \in Senders \cup Workers, SubmitCrossed(t) PROVE NoLostWakeup'
  BY <1>30 DEF SubmitCrossed
<1> QED
  BY <1>1, <1>2, <1>3, <1>4, <1>5, <1>6, <1>7, <1>8, <1>9, <1>10, <1>11, <1>12,
     <1>13, <1>14, <1>15, <1>16, <1>17, <1>18, <1>19, <1>20, <1>21, <1>22, <1>23,
     <1>24, <1>25, <1>26, <1>27, <1>28, <1>29, <1>30 DEF Next, Send, Register, Run, Finalize

-----------------------------------------------------------------------------
(* Every message is in one place                                           *)

\* Where a single message is: nowhere before it is sent, then in one place.
Placed(m) ==
  /\ processed[m] <= 1
  /\ m \in sent <=> m \in Processed \cup Queued \cup Returned \cup InHand
  /\ m \in Processed => m \notin Queued \cup Returned \cup InHand
  /\ m \in Queued => m \notin Returned \cup InHand
  /\ m \in Returned => m \notin InHand
  /\ m \in deadLetters => m \notin refused

\* A sender has a message in hand only between the send and the enqueue, and
\* no two senders have the same one.
HandInv ==
  /\ \A s \in Senders : inHand[s] # NoMessage => pc[s] \in {"enqueue", "enqueueSystem"}
  /\ \A r, s \in Senders : inHand[r] = inHand[s] /\ inHand[s] # NoMessage => r = s

\* clean_up finds the user queue drained: the queue was sealed before.
EmptyInv == (\E t \in Workers \cup Closers : pc[t] = "cleanUp") => user = <<>>

OnceInv ==
  /\ \A m \in Messages : Placed(m)
  /\ IsInjective(user) /\ IsInjective(system)
  /\ dropped = {}
  /\ HandInv
  /\ EmptyInv

\* What a message put into or taken out of a sender's hand does to the set of
\* the messages in hand.
LEMMA HandEffects ==
  ASSUME TypeOK, HandInv, NEW s \in Senders,
         NEW x \in Messages \cup {NoMessage}, inHand' = [inHand EXCEPT ![s] = x]
  PROVE  /\ InHand' = (InHand \ {inHand[s]}) \cup ({x} \ {NoMessage})
         /\ inHand'[s] = x
         /\ \A r \in Senders \ {s} : inHand'[r] = inHand[r]
<1>1. inHand \in [Senders -> Messages \cup {NoMessage}]
  BY DEF TypeOK
<1>2. inHand'[s] = x /\ \A r \in Senders \ {s} : inHand'[r] = inHand[r]
  BY <1>1
<1>3. ASSUME NEW y \in InHand' PROVE y \in (InHand \ {inHand[s]}) \cup ({x} \ {NoMessage})
  <2>1. PICK r \in Senders : y = inHand'[r] /\ y # NoMessage
    BY <1>3 DEF InHand
  <2> QED
    BY <1>2, <2>1 DEF InHand, HandInv
<1>4. ASSUME NEW y \in (InHand \ {inHand[s]}) \cup ({x} \ {NoMessage}) PROVE y \in InHand'
  BY <1>2, <1>4 DEF InHand
<1> QED
  BY <1>2, <1>3, <1>4

\* A step that moves no message keeps every message in its place.
LEMMA OnceUnmoved ==
  ASSUME OnceInv, HandInv', EmptyInv',
         UNCHANGED <<user, system, inHand, sent, processed, deadLetters, refused, dropped>>
  PROVE  OnceInv'
<1>1. /\ Processed' = Processed /\ Queued' = Queued
      /\ Returned' = Returned /\ InHand' = InHand
  BY DEF Processed, Queued, Returned, InHand
<1>2. \A m \in Messages : Placed(m)'
  BY <1>1 DEF OnceInv, Placed
<1> QED
  BY <1>2 DEF OnceInv

\* Senders and message kinds apart, a message is in the user queue or in the
\* system queue.
LEMMA QueueKinds ==
  ASSUME TypeOK
  PROVE  /\ Range(user) \subseteq UserMessages /\ Range(system) \subseteq SystemMessages
         /\ Range(user) \cap Range(system) = {}
         /\ NoMessage \notin Messages
  BY RangeEmpty, MessagesAssumption DEF TypeOK, Messages

\* A message that is processed is counted once more, the others are not.
LEMMA ProcessedEffects ==
  ASSUME TypeOK, NEW m \in Messages, processed' = [processed EXCEPT ![m] = @ + 1]
  PROVE  /\ Processed' = Processed \cup {m}
         /\ processed'[m] = processed[m] + 1
         /\ \A n \in Messages \ {m} : processed'[n] = processed[n]
<1>1. processed \in [Messages -> Nat]
  BY DEF TypeOK
<1>2. /\ processed'[m] = processed[m] + 1
      /\ \A n \in Messages \ {m} : processed'[n] = processed[n]
  BY <1>1
<1>3. processed[m] + 1 > 0
  BY <1>1
<1> QED
  BY <1>2, <1>3 DEF Processed

\* The thread that moves keeps to the places its kind may be in.
LEMMA HandMoves ==
  ASSUME TypeOK, HandInv, NEW t \in Threads,
         UNCHANGED inHand,
         t \in Senders => pc[t] \notin {"enqueue", "enqueueSystem"},
         \A u \in Threads \ {t} : pc'[u] = pc[u]
  PROVE  HandInv'
  BY DEF HandInv, Threads

\* Every step moves a message from one place to the next.
LEMMA OnceStep ==
  ASSUME TypeOK, FinalInv, SealInv, OnceInv, [Next]_vars
  PROVE  OnceInv'
<1> USE MessagesAssumption, ThreadsAssumption
<1>0. /\ HandInv /\ EmptyInv
      /\ \A m \in Messages : Placed(m)
      /\ pc \in [Threads -> SenderPC \cup RegisterPC \cup RunPC \cup FinalizePC \cup {"closed"}]
      /\ NoMessage \notin Messages
      /\ UserMessages \subseteq Messages /\ SystemMessages \subseteq Messages
  BY QueueKinds DEF OnceInv, TypeOK, Messages
<1>1. ASSUME NEW s \in Senders, NEW m \in UserMessages, SendUser(s, m) PROVE OnceInv'
  <2>1. m \in Messages \ sent /\ sent' = sent \cup {m} /\ pc[s] = "idle"
    BY <1>0, <1>1 DEF SendUser
  <2>2. UNCHANGED <<user, system, processed, deadLetters, dropped>>
    BY <1>1 DEF SendUser, queues
  <2>3. Processed' = Processed /\ Queued' = Queued
    BY <2>2 DEF Processed, Queued
  <2>4. m \notin Processed \cup Queued \cup Returned \cup InHand
    BY <1>0, <2>1 DEF Placed
  <2>5. CASE IsClosed(word)
    <3>1. refused' = refused \cup {m} /\ UNCHANGED <<pc, inHand>>
      BY <1>1, <2>5 DEF SendUser
    <3>2. HandInv' /\ EmptyInv'
      BY <1>0, <2>2, <3>1 DEF HandInv, EmptyInv
    <3>3. InHand' = InHand /\ Returned' = Returned \cup {m}
      BY <2>2, <3>1 DEF InHand, Returned
    <3>4. \A n \in Messages : Placed(n)'
      BY <1>0, <2>1, <2>2, <2>3, <2>4, <3>1, <3>3 DEF Placed, Returned
    <3> QED
      BY <2>2, <3>2, <3>4 DEF OnceInv
  <2>6. CASE ~IsClosed(word)
    <3>1. /\ refused' = refused /\ inHand' = [inHand EXCEPT ![s] = m]
          /\ pc' = [pc EXCEPT ![s] = "enqueue"]
      BY <1>1, <2>6 DEF SendUser, Goto
    <3>2. inHand[s] = NoMessage
      BY <1>0, <2>1 DEF HandInv
    <3>3. /\ InHand' = InHand \cup {m} /\ inHand'[s] = m
          /\ \A r \in Senders \ {s} : inHand'[r] = inHand[r]
      <4>1. /\ InHand' = (InHand \ {inHand[s]}) \cup ({m} \ {NoMessage})
            /\ inHand'[s] = m /\ \A r \in Senders \ {s} : inHand'[r] = inHand[r]
        BY <1>0, <2>1, <3>1, HandEffects
      <4>2. NoMessage \notin InHand
        BY DEF InHand
      <4> QED
        BY <1>0, <2>1, <3>2, <4>1, <4>2
    <3>4. /\ pc'[s] = "enqueue" /\ \A r \in Senders \ {s} : pc'[r] = pc[r]
          /\ \A r \in Workers \cup Closers : pc'[r] = pc[r]
      BY <1>0, <3>1 DEF Threads
    <3>5. HandInv'
      BY <1>0, <2>1, <2>4, <3>3, <3>4 DEF HandInv, InHand
    <3>6. EmptyInv'
      BY <1>0, <2>2, <3>4 DEF EmptyInv
    <3>7. Returned' = Returned
      BY <2>2, <3>1 DEF Returned
    <3>8. \A n \in Messages : Placed(n)'
      BY <1>0, <2>1, <2>2, <2>3, <2>4, <3>1, <3>3, <3>7 DEF Placed
    <3> QED
      BY <2>2, <3>5, <3>6, <3>8 DEF OnceInv
  <2> QED
    BY <2>5, <2>6
<1>2. ASSUME NEW s \in Senders, NEW m \in SystemMessages, SendSystem(s, m) PROVE OnceInv'
  <2>1. m \in Messages \ sent /\ sent' = sent \cup {m} /\ pc[s] = "idle"
    BY <1>0, <1>2 DEF SendSystem
  <2>2. UNCHANGED <<user, system, processed, deadLetters, refused, dropped>>
    BY <1>2 DEF SendSystem, queues
  <2>3. Processed' = Processed /\ Queued' = Queued /\ Returned' = Returned
    BY <2>2 DEF Processed, Queued, Returned
  <2>4. m \notin Processed \cup Queued \cup Returned \cup InHand
    BY <1>0, <2>1 DEF Placed
  <2>5. inHand' = [inHand EXCEPT ![s] = m] /\ pc' = [pc EXCEPT ![s] = "enqueueSystem"]
    BY <1>2 DEF SendSystem, Goto
  <2>6. inHand[s] = NoMessage
    BY <1>0, <2>1 DEF HandInv
  <2>7. /\ InHand' = InHand \cup {m} /\ inHand'[s] = m
        /\ \A r \in Senders \ {s} : inHand'[r] = inHand[r]
    <3>1. /\ InHand' = (InHand \ {inHand[s]}) \cup ({m} \ {NoMessage})
          /\ inHand'[s] = m /\ \A r \in Senders \ {s} : inHand'[r] = inHand[r]
      BY <1>0, <2>1, <2>5, HandEffects
    <3>2. NoMessage \notin InHand
      BY DEF InHand
    <3> QED
      BY <1>0, <2>1, <2>6, <3>1, <3>2
  <2>8. /\ pc'[s] = "enqueueSystem" /\ \A r \in Senders \ {s} : pc'[r] = pc[r]
        /\ \A r \in Workers \cup Closers : pc'[r] = pc[r]
    BY <1>0, <2>5 DEF Threads
  <2>9. HandInv'
    BY <1>0, <2>1, <2>4, <2>7, <2>8 DEF HandInv, InHand
  <2>10. EmptyInv'
    BY <1>0, <2>2, <2>8 DEF EmptyInv
  <2>11. \A n \in Messages : Placed(n)'
    BY <1>0, <2>1, <2>2, <2>3, <2>4, <2>7 DEF Placed
  <2> QED
    BY <2>2, <2>9, <2>10, <2>11 DEF OnceInv
<1>3. ASSUME NEW s \in Senders, EnqueueUser(s) PROVE OnceInv'
  <2> DEFINE m == inHand[s]
  <2>1. pc[s] = "enqueue" /\ m \in UserMessages /\ m \in Messages /\ m # NoMessage
    BY <1>0, <1>3 DEF EnqueueUser, TypeOK
  <2>2. UNCHANGED <<system, sent, processed, deadLetters, dropped>>
    BY <1>3 DEF EnqueueUser
  <2>3. m \in InHand
    BY <2>1 DEF InHand
  <2>4. inHand' = [inHand EXCEPT ![s] = NoMessage]
    BY <1>3 DEF EnqueueUser
  <2>5. /\ InHand' = InHand \ {m} /\ inHand'[s] = NoMessage
        /\ \A r \in Senders \ {s} : inHand'[r] = inHand[r]
    <3>1. /\ InHand' = (InHand \ {inHand[s]}) \cup ({NoMessage} \ {NoMessage})
          /\ inHand'[s] = NoMessage /\ \A r \in Senders \ {s} : inHand'[r] = inHand[r]
      BY <1>0, <2>4, HandEffects
    <3> QED
      BY <3>1
  <2>6. \E label \in {"idle", "register"} : pc' = [pc EXCEPT ![s] = label]
    BY <1>3 DEF EnqueueUser, Goto
  <2>7. /\ \A r \in Senders \ {s} : pc'[r] = pc[r]
        /\ \A r \in Workers \cup Closers : pc'[r] = pc[r]
    BY <1>0, <2>6 DEF Threads
  <2>8. HandInv'
    BY <1>0, <2>5, <2>7 DEF HandInv
  <2>9. Processed' = Processed
    BY <2>2 DEF Processed
  <2>10. CASE EnqueueRefuses
    <3>1. refused' = refused \cup {m} /\ user' = user
      BY <1>3, <2>10 DEF EnqueueUser
    <3>2. Queued' = Queued /\ Returned' = Returned \cup {m}
      BY <2>2, <3>1 DEF Queued, Returned
    <3>3. EmptyInv'
      BY <1>0, <2>7, <3>1 DEF EmptyInv
    <3>4. \A n \in Messages : Placed(n)'
      <4> HIDE DEF m
      <4> QED
        BY <1>0, <2>1, <2>2, <2>3, <2>5, <2>9, <3>1, <3>2 DEF Placed, Returned
    <3> QED
      BY <2>2, <2>8, <3>1, <3>3, <3>4 DEF OnceInv
  <2>11. CASE ~EnqueueRefuses
    <3>1. refused' = refused /\ user' = Append(user, m)
      BY <1>3, <2>11 DEF EnqueueUser
    <3>2. m \notin Range(user)
      BY <1>0, <2>1, <2>3 DEF Placed, Queued
    <3>3. Range(user') = Range(user) \cup {m} /\ IsInjective(user')
      <4> HIDE DEF m
      <4> QED
        BY <2>1, <3>1, <3>2, RangeAppend DEF OnceInv, TypeOK
    <3>4. Queued' = Queued \cup {m} /\ Returned' = Returned
      BY <2>2, <3>1, <3>3 DEF Queued, Returned
    <3>5. EmptyInv'
      <4>1. \A r \in Workers \cup Closers : pc[r] # "cleanUp"
        <5> SUFFICES ASSUME NEW r \in Workers \cup Closers, pc[r] = "cleanUp" PROVE FALSE
          OBVIOUS
        <5>1. r \in Finalizing /\ pc[r] \in FinalizePC \ {"finalize"}
          BY DEF Finalizing, FinalizePC
        <5>2. userClosed /\ IsClosed(word)
          BY <5>1 DEF SealInv, FinalInv, IsClosed, IsCloseRequested
        <5> QED
          BY <5>2, <2>11 DEF EnqueueRefuses
      <4> QED
        BY <2>7, <4>1 DEF EmptyInv
    <3>6. \A n \in Messages : Placed(n)'
      <4> HIDE DEF m
      <4> QED
        BY <1>0, <2>1, <2>2, <2>3, <2>5, <2>9, <3>1, <3>4 DEF Placed
    <3> QED
      BY <2>2, <2>8, <3>3, <3>5, <3>6 DEF OnceInv
  <2> QED
    BY <2>10, <2>11
<1>4. ASSUME NEW s \in Senders, EnqueueSystem(s) PROVE OnceInv'
  <2> DEFINE m == inHand[s]
  <2>1. pc[s] = "enqueueSystem" /\ m \in SystemMessages /\ m \in Messages /\ m # NoMessage
    BY <1>0, <1>4 DEF EnqueueSystem, TypeOK
  <2>2. UNCHANGED <<user, sent, processed, deadLetters, refused, dropped>>
    BY <1>4 DEF EnqueueSystem, history
  <2>3. m \in InHand
    BY <2>1 DEF InHand
  <2>4. inHand' = [inHand EXCEPT ![s] = NoMessage] /\ pc' = [pc EXCEPT ![s] = "schedule"]
        /\ system' = Append(system, m)
    BY <1>4 DEF EnqueueSystem, Goto
  <2>5. /\ InHand' = InHand \ {m} /\ inHand'[s] = NoMessage
        /\ \A r \in Senders \ {s} : inHand'[r] = inHand[r]
    <3>1. /\ InHand' = (InHand \ {inHand[s]}) \cup ({NoMessage} \ {NoMessage})
          /\ inHand'[s] = NoMessage /\ \A r \in Senders \ {s} : inHand'[r] = inHand[r]
      BY <1>0, <2>4, HandEffects
    <3> QED
      BY <3>1
  <2>6. /\ \A r \in Senders \ {s} : pc'[r] = pc[r]
        /\ \A r \in Workers \cup Closers : pc'[r] = pc[r]
    BY <1>0, <2>4 DEF Threads
  <2>7. HandInv' /\ EmptyInv'
    BY <1>0, <2>2, <2>5, <2>6 DEF HandInv, EmptyInv
  <2>8. m \notin Range(system)
    BY <1>0, <2>1, <2>3 DEF Placed, Queued
  <2>9. Range(system') = Range(system) \cup {m} /\ IsInjective(system')
    <3> HIDE DEF m
    <3> QED
      BY <2>1, <2>4, <2>8, RangeAppend DEF OnceInv, TypeOK
  <2>10. Queued' = Queued \cup {m} /\ Returned' = Returned /\ Processed' = Processed
    BY <2>2, <2>9 DEF Queued, Returned, Processed
  <2>11. \A n \in Messages : Placed(n)'
    <3> HIDE DEF m
    <3> QED
      BY <1>0, <2>1, <2>2, <2>3, <2>5, <2>10 DEF Placed
  <2> QED
    BY <2>2, <2>7, <2>9, <2>11 DEF OnceInv
<1>5. ASSUME NEW w \in Workers, ProcessSystem(w) PROVE OnceInv'
  <2> DEFINE m == Head(system)
  <2>1. /\ system # <<>> /\ system' = Tail(system)
        /\ processed' = [processed EXCEPT ![m] = @ + 1]
        /\ UNCHANGED <<user, inHand, sent, deadLetters, refused, dropped>>
        /\ pc[w] = "takeSystem" /\ pc' = [pc EXCEPT ![w] = "system"]
    BY <1>5 DEF ProcessSystem, Goto
  <2>2. /\ m \in SystemMessages /\ m \in Range(system) /\ IsInjective(system')
        /\ Range(system') = Range(system) \ {m}
    BY <2>1, RangeTail DEF OnceInv, TypeOK
  <2>3. /\ m \in Messages /\ m \in Queued /\ Queued' = Queued \ {m}
        /\ Returned' = Returned /\ InHand' = InHand
    BY <1>0, <2>1, <2>2, QueueKinds DEF Queued, Returned, InHand
  <2> HIDE DEF m
  <2>4. /\ Processed' = Processed \cup {m} /\ processed'[m] = processed[m] + 1
        /\ \A n \in Messages \ {m} : processed'[n] = processed[n]
    BY <2>1, <2>3, ProcessedEffects
  <2>5. processed[m] = 0
    <3>1. processed[m] \in Nat /\ ~(processed[m] > 0)
      BY <1>0, <2>3 DEF Placed, Processed, TypeOK
    <3> QED
      BY <3>1
  <2>6. \A n \in Messages : Placed(n)'
    BY <1>0, <2>1, <2>3, <2>4, <2>5 DEF Placed
  <2>7. HandInv' /\ EmptyInv'
    BY <1>0, <2>1, HandMoves DEF HandInv, EmptyInv, Threads
  <2> QED
    BY <2>1, <2>2, <2>6, <2>7 DEF OnceInv
<1>6. ASSUME NEW w \in Workers, ProcessUser(w) PROVE OnceInv'
  <2> DEFINE m == Head(user)
  <2>1. /\ user # <<>> /\ user' = Tail(user)
        /\ processed' = [processed EXCEPT ![m] = @ + 1]
        /\ UNCHANGED <<system, inHand, sent, deadLetters, refused, dropped>>
        /\ pc[w] = "takeUser" /\ pc' = [pc EXCEPT ![w] = "system"]
    BY <1>6 DEF ProcessUser, Goto
  <2>2. /\ m \in UserMessages /\ m \in Range(user) /\ IsInjective(user')
        /\ Range(user') = Range(user) \ {m}
    BY <2>1, RangeTail DEF OnceInv, TypeOK
  <2>3. /\ m \in Messages /\ m \in Queued /\ Queued' = Queued \ {m}
        /\ Returned' = Returned /\ InHand' = InHand
    BY <1>0, <2>1, <2>2, QueueKinds DEF Queued, Returned, InHand
  <2> HIDE DEF m
  <2>4. /\ Processed' = Processed \cup {m} /\ processed'[m] = processed[m] + 1
        /\ \A n \in Messages \ {m} : processed'[n] = processed[n]
    BY <2>1, <2>3, ProcessedEffects
  <2>5. processed[m] = 0
    <3>1. processed[m] \in Nat /\ ~(processed[m] > 0)
      BY <1>0, <2>3 DEF Placed, Processed, TypeOK
    <3> QED
      BY <3>1
  <2>6. \A n \in Messages : Placed(n)'
    BY <1>0, <2>1, <2>3, <2>4, <2>5 DEF Placed
  <2>7. HandInv'
    BY <1>0, <2>1, HandMoves DEF Threads
  <2>8. EmptyInv'
    BY <1>0, <2>1 DEF EmptyInv, Threads
  <2> QED
    BY <2>1, <2>2, <2>6, <2>7, <2>8 DEF OnceInv
<1>7. ASSUME NEW t \in Workers \cup Closers, DrainSystem(t) PROVE OnceInv'
  <2>1. /\ pc[t] = "drainSystem"
        /\ UNCHANGED <<user, inHand, sent, processed, refused, dropped>>
    BY <1>7 DEF DrainSystem
  <2>2. CASE system # <<>>
    <3> DEFINE m == Head(system)
    <3>1. system' = Tail(system) /\ deadLetters' = deadLetters \cup {m} /\ pc' = pc
      BY <1>7, <2>2 DEF DrainSystem
    <3>2. /\ m \in SystemMessages /\ m \in Range(system) /\ IsInjective(system')
          /\ Range(system') = Range(system) \ {m}
      BY <2>2, <3>1, RangeTail DEF OnceInv, TypeOK
    <3>3. /\ m \in Messages /\ m \in Queued /\ Queued' = Queued \ {m}
          /\ Returned' = Returned \cup {m} /\ InHand' = InHand /\ Processed' = Processed
      BY <1>0, <2>1, <3>1, <3>2, QueueKinds DEF Queued, Returned, InHand, Processed
    <3> HIDE DEF m
    <3>4. \A n \in Messages : Placed(n)'
      BY <1>0, <2>1, <3>1, <3>3 DEF Placed, Returned
    <3>5. HandInv' /\ EmptyInv'
      BY <1>0, <2>1, <3>1 DEF HandInv, EmptyInv
    <3> QED
      BY <2>1, <3>2, <3>4, <3>5 DEF OnceInv
  <2>3. CASE system = <<>>
    <3>1. UNCHANGED <<system, deadLetters>> /\ pc' = [pc EXCEPT ![t] = "drainUser"]
      BY <1>7, <2>3 DEF DrainSystem, Goto
    <3>2. HandInv' /\ EmptyInv'
      BY <1>0, <2>1, <3>1, HandMoves DEF EmptyInv, Threads
    <3> QED
      BY <2>1, <3>1, <3>2, OnceUnmoved
  <2> QED
    BY <2>2, <2>3
<1>8. ASSUME NEW t \in Workers \cup Closers, DrainUser(t) PROVE OnceInv'
  <2>1. /\ pc[t] = "drainUser"
        /\ UNCHANGED <<system, inHand, sent, processed, refused, dropped>>
    BY <1>8 DEF DrainUser
  <2>2. CASE user # <<>>
    <3> DEFINE m == Head(user)
    <3>1. user' = Tail(user) /\ deadLetters' = deadLetters \cup {m} /\ pc' = pc
      BY <1>8, <2>2 DEF DrainUser
    <3>2. /\ m \in UserMessages /\ m \in Range(user) /\ IsInjective(user')
          /\ Range(user') = Range(user) \ {m}
      BY <2>2, <3>1, RangeTail DEF OnceInv, TypeOK
    <3>3. /\ m \in Messages /\ m \in Queued /\ Queued' = Queued \ {m}
          /\ Returned' = Returned \cup {m} /\ InHand' = InHand /\ Processed' = Processed
      BY <1>0, <2>1, <3>1, <3>2, QueueKinds DEF Queued, Returned, InHand, Processed
    <3> HIDE DEF m
    <3>4. \A n \in Messages : Placed(n)'
      BY <1>0, <2>1, <3>1, <3>3 DEF Placed, Returned
    <3>5. HandInv' /\ EmptyInv'
      BY <1>0, <2>1, <2>2, <3>1 DEF HandInv, EmptyInv
    <3> QED
      BY <2>1, <3>2, <3>4, <3>5 DEF OnceInv
  <2>3. CASE user = <<>>
    <3>1. UNCHANGED <<user, deadLetters>> /\ pc' = [pc EXCEPT ![t] = "cleanUp"]
      BY <1>8, <2>3 DEF DrainUser, Goto
    <3>2. HandInv' /\ EmptyInv'
      BY <1>0, <2>1, <2>3, <3>1, HandMoves DEF EmptyInv, Threads
    <3> QED
      BY <2>1, <3>1, <3>2, OnceUnmoved
  <2> QED
    BY <2>2, <2>3
<1>9. ASSUME NEW t \in Workers \cup Closers, CleanUp(t) PROVE OnceInv'
  <2>1. user = <<>>
    BY <1>0, <1>9 DEF CleanUp, EmptyInv
  <2>2. Range(user) = {}
    BY <2>1, RangeEmpty DEF TypeOK
  <2>3. UNCHANGED <<user, system, inHand, sent, processed, deadLetters, refused, dropped>>
    BY <1>9, <2>1, <2>2 DEF CleanUp, OnceInv
  <2>4. \E label \in {"closed", "idle"} : pc' = [pc EXCEPT ![t] = label]
    BY <1>9 DEF CleanUp, Goto
  <2>5. HandInv'
    BY <1>0, <1>9, <2>3, <2>4, HandMoves DEF Threads
  <2> QED
    BY <2>1, <2>3, <2>5, OnceUnmoved DEF EmptyInv
<1>10. ASSUME NEW t \in Senders \cup Workers, Register(t) PROVE OnceInv'
  <2>1. /\ pc[t] \in RegisterPC
        /\ UNCHANGED <<user, system, inHand, sent, processed, deadLetters, refused, dropped>>
        /\ \E label \in RegisterPC \cup {"idle"} : pc' = [pc EXCEPT ![t] = label]
    BY <1>10 DEF Register, CheckSuspended, RequestSchedule, FlagReschedule, RegisterPC,
       SubmitAccepted, SubmitDropped, SubmitCrossed, SubmitRejected,
       RollbackReschedule, Goto, queues, history
  <2>2. HandInv' /\ EmptyInv'
    BY <1>0, <2>1, HandMoves DEF EmptyInv, Threads, RegisterPC
  <2> QED
    BY <2>1, <2>2, OnceUnmoved
<1>11. ASSUME NEW w \in Workers, \/ StartRun(w) \/ SetRunning(w) \/ CheckSystem(w)
                                 \/ SystemDrained(w) \/ CheckUser(w) \/ UserDrained(w)
                                 \/ FinishRun(w) \/ SwapReschedule(w) \/ InspectQueues(w)
       PROVE  OnceInv'
  <2>1. UNCHANGED <<user, system, inHand, sent, processed, deadLetters, refused, dropped>>
    BY <1>11 DEF StartRun, SetRunning, CheckSystem, SystemDrained, CheckUser,
       UserDrained, FinishRun, SwapReschedule, InspectQueues, queues, history
  <2>2. \E label \in RunPC \cup {"finalize", "schedule"} : pc' = [pc EXCEPT ![w] = label]
    BY <1>11 DEF StartRun, SetRunning, CheckSystem, SystemDrained, CheckUser,
       UserDrained, FinishRun, SwapReschedule, InspectQueues, Goto, RunPC, DrainPC
  <2>3. HandInv' /\ EmptyInv'
    BY <1>0, <2>1, <2>2, HandMoves DEF EmptyInv, Threads, RunPC, DrainPC
  <2> QED
    BY <2>1, <2>3, OnceUnmoved
<1>12. ASSUME NEW c \in Closers, BecomeClosed(c) PROVE OnceInv'
  <2>1. /\ UNCHANGED <<user, system, inHand, sent, processed, deadLetters, refused, dropped>>
        /\ \E label \in {"finalize", "closed"} : pc' = [pc EXCEPT ![c] = label]
    BY <1>12 DEF BecomeClosed, Goto, queues, history
  <2>2. HandInv' /\ EmptyInv'
    BY <1>0, <2>1, HandMoves DEF EmptyInv, Threads
  <2> QED
    BY <2>1, <2>2, OnceUnmoved
<1>13. ASSUME NEW t \in Workers \cup Closers, SealUser(t) PROVE OnceInv'
  <2>1. /\ UNCHANGED <<user, system, inHand, sent, processed, deadLetters, refused, dropped>>
        /\ pc' = [pc EXCEPT ![t] = "drainSystem"]
    BY <1>13 DEF SealUser, Goto, history
  <2>2. HandInv' /\ EmptyInv'
    BY <1>0, <2>1, HandMoves DEF EmptyInv, Threads
  <2> QED
    BY <2>1, <2>2, OnceUnmoved
<1>14. CASE DropCell \/ UNCHANGED vars
  <2>1. UNCHANGED <<user, system, inHand, sent, processed, deadLetters, refused, dropped, pc>>
    BY <1>14 DEF DropCell, vars, queues, history
  <2>2. HandInv' /\ EmptyInv'
    BY <1>0, <2>1 DEF HandInv, EmptyInv
  <2> QED
    BY <2>1, <2>2, OnceUnmoved
<1> QED
  BY <1>1, <1>2, <1>3, <1>4, <1>5, <1>6, <1>7, <1>8, <1>9, <1>10, <1>11, <1>12, <1>13,
     <1>14 DEF Next, Send, Run, Finalize

-----------------------------------------------------------------------------
(* The invariants, in every reachable state                                *)

\* The single runner and what rests on it end with the first crossed rollback;
\* the single finalizer and the seal do not need them.
IInv == TypeOK /\ CrossInv /\ FinalInv /\ SealInv /\ (~crossed => TokenInv /\ TakeInv)

\* A new mailbox satisfies the invariants.
LEMMA InitInv == Init => IInv /\ BackedInv /\ NoLostWakeup
<1> SUFFICES ASSUME Init PROVE IInv /\ BackedInv /\ NoLostWakeup
  OBVIOUS
<1>1. SuspendRange \in Nat \ {0}
  BY SMT DEF SuspendRange
<1>2. word \in Word /\ word.flags = {}
  BY <1>1 DEF Init, NewWord, Word
<1>3. \A t \in Threads : pc[t] \in {"idle", "schedule"} /\ (t \notin Spawners => pc[t] = "idle")
  BY DEF Init
<1>4. Carriers = {} /\ Draining = {} /\ Finalizing = {}
  BY <1>3 DEF Carriers, Draining, Finalizing, DrainPC, FinalizePC, Threads
<1>5. TypeOK
  <2>1. /\ pc \in [Threads -> SenderPC \cup RegisterPC \cup RunPC \cup FinalizePC
                            \cup {"closed"}]
        /\ \A s \in Senders : pc[s] \in {"idle", "schedule"}
        /\ \A w \in Workers : pc[w] = "idle"
        /\ \A c \in Closers : pc[c] = "idle"
    BY <1>3, ThreadsAssumption DEF Init, Threads, SenderPC, RegisterPC
  <2>2. /\ user \in Seq(UserMessages) /\ system \in Seq(SystemMessages)
        /\ tasks \in Nat
    BY DEF Init
  <2>3. left \in [Workers -> 0 .. Throughput] /\ processed \in [Messages -> Nat]
    <3>1. 0 \in 0 .. Throughput
      BY ConfigAssumption
    <3> QED
      BY <3>1 DEF Init
  <2> QED
    BY <1>2, <2>1, <2>2, <2>3
       DEF Init, TypeOK, SenderPC, RegisterPC, RunPC
<1>6. TokenInv
  BY <1>4 DEF Init, TokenInv
<1>7. FinalInv
  BY <1>4 DEF FinalInv
<1>8. SealInv
  BY <1>2, <1>4 DEF SealInv, Finalizing, FinalizePC, IsCleanupDone
<1>9. BackedInv
  BY <1>2 DEF BackedInv
<1>10. NoLostWakeup
  BY DEF Init, NoLostWakeup
<1>11. TakeInv
  BY <1>4 DEF TakeInv
<1>12. CrossInv
  BY <1>3 DEF Init, CrossInv
<1> QED
  BY <1>5, <1>6, <1>7, <1>8, <1>9, <1>10, <1>11, <1>12 DEF IInv

\* Every step preserves the invariants.
LEMMA NextInv == IInv /\ [Next]_vars => IInv'
<1> SUFFICES ASSUME IInv, [Next]_vars PROVE IInv'
  OBVIOUS
<1>1. TypeOK' /\ CrossInv' /\ FinalInv' /\ SealInv'
  BY TypeStep, CrossStep, FinalStep, SealStep DEF IInv
<1>2. ASSUME ~crossed' PROVE TokenInv' /\ TakeInv'
  <2>1. ~crossed
    <3>1. crossed' = crossed \/ crossed' = TRUE
      BY CrossedMoves
    <3> QED
      BY <1>2, <3>1
  <2> QED
    BY <1>2, <2>1, TokenStep, TakeStep DEF IInv
<1> QED
  BY <1>1, <1>2 DEF IInv

\* The invariants hold in every reachable state, whatever the senders, the
\* executor and the closers do.
THEOREM Invariance == Spec => []IInv
  BY InitInv, NextInv, PTL DEF Spec

\* The mailbox variables keep their types; the suspend count stays in its bits.
THEOREM TypeCorrect == Spec => []TypeOK
<1>1. IInv => TypeOK
  BY DEF IInv
<1> QED
  BY <1>1, Invariance, PTL

\* At most one thread is inside the drain loop of a mailbox, until a submission
\* that was accepted is rolled back for the refusal of another task.
THEOREM RunnerIsSingle == Spec => []SingleRunner
<1>1. IInv => SingleRunner
  BY DEF IInv, TokenInv, SingleRunner, Draining, Carriers
<1> QED
  BY <1>1, Invariance, PTL

\* At most one thread finalizes a mailbox, and only once.
THEOREM FinalizerIsSingle == Spec => []OneFinalizer
<1>1. IInv => OneFinalizer
  BY DEF IInv, FinalInv, OneFinalizer, IsCleanupDone
<1> QED
  BY <1>1, Invariance, PTL

\* A cleaned mailbox holds no user message, with and without put_lock.
THEOREM NoPhantom == Spec => []NoPhantomUser
<1>1. IInv => NoPhantomUser
  BY DEF IInv, SealInv, NoPhantomUser
<1> QED
  BY <1>1, Invariance, PTL

\* No message reaches the actor while its mailbox is being finalized, until a
\* submission that was accepted is rolled back.
THEOREM CleanupIsQuiet == Spec => NoDeliveryDuringCleanup
<1>1. IInv /\ [Next]_vars => [~crossed /\ Finalizing # {} => processed' = processed]_vars
  <2> SUFFICES ASSUME IInv, Next, ~crossed, Finalizing # {} PROVE processed' = processed
    BY DEF vars, history
  <2>1. \A w \in Workers : pc[w] \notin TakePC
    BY DEF IInv, TakeInv, Taking
  <2>2. ASSUME NEW s \in Senders, Send(s) PROVE processed' = processed
    BY <2>2 DEF Send, SendUser, SendSystem, EnqueueUser, EnqueueSystem, history
  <2>3. ASSUME NEW t \in Senders \cup Workers, Register(t) PROVE processed' = processed
    BY <2>3 DEF Register, CheckSuspended, RequestSchedule, FlagReschedule,
                SubmitAccepted, SubmitDropped, SubmitCrossed, SubmitRejected,
                RollbackReschedule, history
  <2>4. ASSUME NEW w \in Workers, StartRun(w) \/ Run(w) PROVE processed' = processed
    BY <2>1, <2>4 DEF StartRun, Run, SetRunning, CheckSystem, ProcessSystem,
                      SystemDrained, CheckUser, ProcessUser, UserDrained, FinishRun,
                      SwapReschedule, InspectQueues, TakePC, history
  <2>5. ASSUME NEW c \in Closers, BecomeClosed(c) PROVE processed' = processed
    BY <2>5 DEF BecomeClosed, history
  <2>6. ASSUME NEW t \in Workers \cup Closers, Finalize(t) PROVE processed' = processed
    BY <2>6 DEF Finalize, SealUser, DrainSystem, DrainUser, CleanUp, history
  <2>7. ASSUME DropCell PROVE processed' = processed
    BY <2>7 DEF DropCell, history
  <2> QED
    BY <2>2, <2>3, <2>4, <2>5, <2>6, <2>7 DEF Next
<1> QED
  BY <1>1, Invariance, PTL DEF Spec, NoDeliveryDuringCleanup

\* With an executor that accepts every submission no wake-up is lost: an open
\* mailbox with deliverable work always has someone on the way to it.
THEOREM WakeupsKept ==
  ASSUME ~CanReject
  PROVE  Spec => []NoLostWakeup
<1>1. Init => BackedInv /\ NoLostWakeup
  BY InitInv
<1>2. IInv /\ BackedInv /\ NoLostWakeup /\ [Next]_vars => (BackedInv /\ NoLostWakeup)'
  BY BackedStep, WakeStep DEF IInv, CrossInv
<1> QED
  BY <1>1, <1>2, Invariance, PTL DEF Spec

\* Every message handed to a sender is in exactly one place: in hand, queued,
\* processed once, or returned; the cleanup loses none.
THEOREM MessagesOnce == Spec => []ExactlyOnce
<1>1. Init => OnceInv
  <2> SUFFICES ASSUME Init PROVE OnceInv
    OBVIOUS
  <2>1. /\ user = <<>> /\ system = <<>> /\ sent = {} /\ deadLetters = {}
        /\ refused = {} /\ dropped = {}
        /\ \A m \in Messages : processed[m] = 0
        /\ \A s \in Senders : inHand[s] = NoMessage
        /\ \A t \in Threads : pc[t] \in {"idle", "schedule"}
    BY DEF Init
  <2>2. Range(user) = {} /\ Range(system) = {} /\ IsInjective(user) /\ IsInjective(system)
    BY <2>1 DEF Range, IsInjective
  <2>3. Processed = {} /\ Queued = {} /\ Returned = {} /\ InHand = {}
    BY <2>1, <2>2 DEF Processed, Queued, Returned, InHand
  <2>4. HandInv /\ EmptyInv
    BY <2>1 DEF HandInv, EmptyInv
  <2> QED
    BY <2>1, <2>2, <2>3, <2>4 DEF OnceInv, Placed
<1>2. IInv /\ OnceInv /\ [Next]_vars => OnceInv'
  BY OnceStep DEF IInv
<1>3. IInv /\ OnceInv => ExactlyOnce
  <2> SUFFICES ASSUME IInv, OnceInv PROVE ExactlyOnce
    OBVIOUS
  <2>1. \A m \in Messages : Placed(m)
    BY DEF OnceInv
  <2>2. /\ sent \subseteq Messages /\ Processed \subseteq Messages
        /\ Returned \subseteq Messages
    BY DEF IInv, TypeOK, Processed, Returned
  <2>3. Queued \subseteq Messages
    BY QueueKinds DEF IInv, Queued, Messages
  <2>4. InHand \subseteq Messages
    BY DEF IInv, TypeOK, InHand
  <2>5. /\ sent = Processed \cup Queued \cup Returned \cup InHand
        /\ Processed \cap (Queued \cup Returned \cup InHand) = {}
        /\ Queued \cap (Returned \cup InHand) = {}
        /\ Returned \cap InHand = {}
        /\ \A m \in Messages : processed[m] <= 1
    BY <2>1, <2>2, <2>3, <2>4 DEF Placed
  <2>6. deadLetters \cap refused = {}
    BY <2>1, <2>2 DEF Placed, Returned
  <2> QED
    BY <2>5, <2>6 DEF ExactlyOnce, OnceInv
<1> QED
  BY <1>1, <1>2, <1>3, Invariance, PTL DEF Spec
=============================================================================
