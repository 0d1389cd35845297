-------------------------- MODULE MpscQueueProofs --------------------------
(***************************************************************************)
(* Proofs about MpscQueue, for any finite number of producers, consumers   *)
(* and closers and any number of pushes: type correctness, FIFO order, the *)
(* exclusive consumer guard, the length, the closing protocol, and that    *)
(* the queue implements UserQueue.                                         *)
(***************************************************************************)
EXTENDS MpscQueue, FiniteSetTheorems, SequenceTheorems, TLAPS

-----------------------------------------------------------------------------
(* Sequences                                                               *)

\* Reversing the empty chain gives the empty chain.
LEMMA ReverseEmpty == Reverse(<<>>) = <<>>
  BY DEF Reverse

\* reverse_list keeps the elements and the length of the chain.
LEMMA ReverseType ==
  ASSUME NEW S, NEW s \in Seq(S)
  PROVE  Reverse(s) \in Seq(S) /\ Len(Reverse(s)) = Len(s)
  BY DEF Reverse

\* A node pushed on the stack comes last in the reversed chain: the newest
\* node of `head` is the youngest message of the queue.
LEMMA ReversePush ==
  ASSUME NEW S, NEW m \in S, NEW s \in Seq(S)
  PROVE  Reverse(<<m>> \o s) = Reverse(s) \o <<m>>
<1>0. <<m>> \in Seq(S) /\ Len(<<m>>) = 1 /\ <<m>>[1] = m
  OBVIOUS
<1>1. /\ <<m>> \o s \in Seq(S)
      /\ Len(<<m>> \o s) = Len(s) + 1
      /\ \A i \in 1 .. Len(s) + 1 :
           (<<m>> \o s)[i] = IF i = 1 THEN m ELSE s[i - 1]
  BY <1>0, ConcatProperties
<1>2. /\ Reverse(<<m>> \o s) \in Seq(S)
      /\ Len(Reverse(<<m>> \o s)) = Len(s) + 1
  BY <1>1, ReverseType
<1>3. Reverse(s) \in Seq(S) /\ Len(Reverse(s)) = Len(s)
  BY ReverseType
<1>4. /\ Reverse(s) \o <<m>> \in Seq(S)
      /\ Len(Reverse(s) \o <<m>>) = Len(s) + 1
      /\ \A i \in 1 .. Len(s) + 1 :
           (Reverse(s) \o <<m>>)[i] = IF i <= Len(s) THEN Reverse(s)[i] ELSE m
  BY <1>0, <1>3, ConcatProperties
<1>5. ASSUME NEW i \in 1 .. Len(s) + 1
      PROVE  Reverse(<<m>> \o s)[i] = (Reverse(s) \o <<m>>)[i]
  <2>0. Len(s) \in Nat /\ i \in Nat
    OBVIOUS
  <2> DEFINE k == (Len(s) + 1 - i) + 1
  <2>1. k \in 1 .. Len(s) + 1
    BY <1>5, <2>0
  <2>2. Reverse(<<m>> \o s)[i] = (<<m>> \o s)[k]
    BY <1>1, <2>1 DEF Reverse
  <2>3. CASE i = Len(s) + 1
    BY <1>1, <1>4, <2>0, <2>1, <2>2, <2>3
  <2>4. CASE i \in 1 .. Len(s)
    <3>1. k - 1 = (Len(s) - i) + 1 /\ k # 1
      BY <2>0, <2>1, <2>4
    <3>2. Reverse(s)[i] = s[k - 1]
      BY <2>4, <3>1 DEF Reverse
    <3>3. (<<m>> \o s)[k] = s[k - 1]
      BY <1>1, <3>1
    <3>4. (Reverse(s) \o <<m>>)[i] = Reverse(s)[i]
      BY <1>4, <2>4
    <3> QED
      BY <2>2, <3>2, <3>3, <3>4
  <2>5. i = Len(s) + 1 \/ i \in 1 .. Len(s)
    BY <1>5, <2>0
  <2> QED
    BY <2>3, <2>4, <2>5
<1> QED
  BY <1>2, <1>4, <1>5, SeqEqual

\* Appending to a concatenation appends to its second part.
LEMMA PushBack ==
  ASSUME NEW S, NEW m \in S, NEW b \in Seq(S), NEW r \in Seq(S)
  PROVE  Append(b \o r, m) = b \o (r \o <<m>>)
<1>0. <<m>> \in Seq(S)
  OBVIOUS
<1>1. b \o r \in Seq(S)
  BY ConcatProperties
<1>2. Append(b \o r, m) = (b \o r) \o <<m>>
  BY <1>1, AppendIsConcat
<1>3. (b \o r) \o <<m>> = b \o (r \o <<m>>)
  BY <1>0, ConcatAssociative
<1> QED
  BY <1>2, <1>3

\* Taking the front of a concatenation takes the front of its first part, and
\* moving that element behind another sequence loses nothing.
LEMMA PopFront ==
  ASSUME NEW a \in Seq(Message), NEW b \in Seq(Message), NEW r \in Seq(Message), b # <<>>
  PROVE  /\ b \o r # <<>>
         /\ Head(b \o r) = Head(b)
         /\ Tail(b \o r) = Tail(b) \o r
         /\ Append(a, Head(b)) \o (Tail(b) \o r) = a \o (b \o r)
<1>1. Head(b) \in Message /\ Tail(b) \in Seq(Message) /\ <<Head(b)>> \in Seq(Message)
  BY HeadTailProperties
<1>2. b = <<Head(b)>> \o Tail(b)
  BY <1>1
<1>3. Tail(b) \o r \in Seq(Message) /\ b \o r \in Seq(Message)
  BY <1>1, ConcatProperties
<1>4. b \o r = <<Head(b)>> \o (Tail(b) \o r)
  BY <1>1, <1>2, ConcatAssociative
<1>5. /\ b \o r # <<>>
      /\ Head(b \o r) = Head(b)
      /\ Tail(b \o r) = Tail(b) \o r
  BY <1>1, <1>3, <1>4
<1>6. Append(a, Head(b)) = a \o <<Head(b)>>
  BY <1>1, AppendIsConcat
<1>7. (a \o <<Head(b)>>) \o (Tail(b) \o r) = a \o (<<Head(b)>> \o (Tail(b) \o r))
  BY <1>1, <1>3, ConcatAssociative
<1> QED
  BY <1>4, <1>5, <1>6, <1>7
-----------------------------------------------------------------------------
(* The inductive invariant                                                 *)

\* `consumer_active` is set exactly while a thread is inside the guard.
GuardInv == ConsumerExclusive /\ (consumer_active <=> Holders # {})

\* `in_flight` counts the producers inside the protocol.
InFlightInv == in_flight = Cardinality(InProtocol)

\* Closing is published before it is relied upon, and once close() has
\* returned no producer is past its check.
CloseInv ==
  /\ \A c \in Closers : pc[c] # "idle" => closed
  /\ Sealed => Admitted = {}

\* A closer that found the queue empty leaves it empty.
DrainedInv ==
  (\E c \in Closers : pc[c] \in {"leaving", "done"}) => head = <<>> /\ pending = <<>>

IInv ==
  /\ TypeOK /\ Fifo /\ GuardInv /\ InFlightInv /\ LenCoversWaiting /\ CloseInv
  /\ DrainedInv

\* Every step keeps the consumer guard exclusive and `consumer_active` exact.
LEMMA GuardStep ==
  ASSUME TypeOK, GuardInv, [Next]_vars
  PROVE  GuardInv'
<1> USE ThreadsAssumption, MaxPushAssumption DEF GuardInv, ConsumerExclusive,
      Holders, TypeOK, Threads, ProducerPC, ConsumerPC, CloserPC, Goto
<1>1. ASSUME NEW p \in Producers, AnnounceProducer(p) PROVE GuardInv'
  BY <1>1 DEF AnnounceProducer
<1>2. ASSUME NEW p \in Producers, CheckClosed(p) PROVE GuardInv'
  BY <1>2 DEF CheckClosed
<1>3. ASSUME NEW p \in Producers, CountMessage(p) PROVE GuardInv'
  BY <1>3 DEF CountMessage
<1>4. ASSUME NEW p \in Producers, LinkNode(p) PROVE GuardInv'
  BY <1>4 DEF LinkNode
<1>5. ASSUME NEW p \in Producers, LeaveProducer(p) PROVE GuardInv'
  BY <1>5 DEF LeaveProducer
<1>6. ASSUME NEW c \in Consumers \cup Closers, EnterConsumer(c) PROVE GuardInv'
  BY <1>6 DEF EnterConsumer
<1>7. ASSUME NEW c \in Consumers \cup Closers, PopPendingNode(c) PROVE GuardInv'
  BY <1>7 DEF PopPendingNode
<1>8. ASSUME NEW c \in Consumers \cup Closers, TakeHead(c) PROVE GuardInv'
  BY <1>8 DEF TakeHead
<1>9. ASSUME NEW c \in Consumers \cup Closers, FindEmpty(c) PROVE GuardInv'
  BY <1>9 DEF FindEmpty
<1>10. ASSUME NEW c \in Consumers \cup Closers, CountDown(c) PROVE GuardInv'
  BY <1>10 DEF CountDown
<1>11. ASSUME NEW c \in Consumers \cup Closers, LeaveConsumer(c) PROVE GuardInv'
  BY <1>11 DEF LeaveConsumer
<1>12. ASSUME NEW c \in Closers, PublishClosed(c) PROVE GuardInv'
  BY <1>12 DEF PublishClosed
<1>13. ASSUME NEW c \in Closers, AwaitProducers(c) PROVE GuardInv'
  BY <1>13 DEF AwaitProducers
<1>14. CASE UNCHANGED vars
  BY <1>14 DEF vars
<1> QED
  BY <1>1, <1>2, <1>3, <1>4, <1>5, <1>6, <1>7, <1>8, <1>9, <1>10, <1>11, <1>12,
     <1>13, <1>14 DEF Next, Push, Pop, Close

\* Every step keeps the closing protocol: close() does not return while a
\* producer that saw the queue open is still to link its node.
LEMMA CloseStep ==
  ASSUME TypeOK, InProtocol = {} \/ in_flight # 0, CloseInv, [Next]_vars
  PROVE  CloseInv'
<1> USE ThreadsAssumption, MaxPushAssumption DEF CloseInv, Sealed, Sealers,
      Admitted, InProtocol, TypeOK, Threads, ProducerPC, ConsumerPC, CloserPC,
      Goto
<1>1. ASSUME NEW p \in Producers, AnnounceProducer(p) PROVE CloseInv'
  BY <1>1 DEF AnnounceProducer
<1>2. ASSUME NEW p \in Producers, CheckClosed(p) PROVE CloseInv'
  BY <1>2 DEF CheckClosed
<1>3. ASSUME NEW p \in Producers, CountMessage(p) PROVE CloseInv'
  BY <1>3 DEF CountMessage
<1>4. ASSUME NEW p \in Producers, LinkNode(p) PROVE CloseInv'
  BY <1>4 DEF LinkNode
<1>5. ASSUME NEW p \in Producers, LeaveProducer(p) PROVE CloseInv'
  BY <1>5 DEF LeaveProducer
<1>6. ASSUME NEW c \in Consumers \cup Closers, EnterConsumer(c) PROVE CloseInv'
  BY <1>6 DEF EnterConsumer
<1>7. ASSUME NEW c \in Consumers \cup Closers, PopPendingNode(c) PROVE CloseInv'
  BY <1>7 DEF PopPendingNode
<1>8. ASSUME NEW c \in Consumers \cup Closers, TakeHead(c) PROVE CloseInv'
  BY <1>8 DEF TakeHead
<1>9. ASSUME NEW c \in Consumers \cup Closers, FindEmpty(c) PROVE CloseInv'
  BY <1>9 DEF FindEmpty
<1>10. ASSUME NEW c \in Consumers \cup Closers, CountDown(c) PROVE CloseInv'
  BY <1>10 DEF CountDown
<1>11. ASSUME NEW c \in Consumers \cup Closers, LeaveConsumer(c) PROVE CloseInv'
  BY <1>11 DEF LeaveConsumer
<1>12. ASSUME NEW c \in Closers, PublishClosed(c) PROVE CloseInv'
  BY <1>12 DEF PublishClosed
<1>13. ASSUME NEW c \in Closers, AwaitProducers(c) PROVE CloseInv'
  BY <1>13 DEF AwaitProducers
<1>14. CASE UNCHANGED vars
  BY <1>14 DEF vars
<1> QED
  BY <1>1, <1>2, <1>3, <1>4, <1>5, <1>6, <1>7, <1>8, <1>9, <1>10, <1>11, <1>12,
     <1>13, <1>14 DEF Next, Push, Pop, Close

\* Every step leaves a drained queue empty: producers are refused by then.
LEMMA DrainedStep ==
  ASSUME TypeOK, CloseInv, GuardInv, DrainedInv, [Next]_vars
  PROVE  DrainedInv'
<1> USE ThreadsAssumption, MaxPushAssumption DEF DrainedInv, CloseInv,
      Sealed, Sealers, Admitted, GuardInv, ConsumerExclusive, Holders, TypeOK,
      Threads, ProducerPC, ConsumerPC, CloserPC, Goto
<1>1. ASSUME NEW p \in Producers, AnnounceProducer(p) PROVE DrainedInv'
  BY <1>1 DEF AnnounceProducer
<1>2. ASSUME NEW p \in Producers, CheckClosed(p) PROVE DrainedInv'
  BY <1>2 DEF CheckClosed
<1>3. ASSUME NEW p \in Producers, CountMessage(p) PROVE DrainedInv'
  BY <1>3 DEF CountMessage
<1>4. ASSUME NEW p \in Producers, LinkNode(p) PROVE DrainedInv'
  BY <1>4 DEF LinkNode
<1>5. ASSUME NEW p \in Producers, LeaveProducer(p) PROVE DrainedInv'
  BY <1>5 DEF LeaveProducer
<1>6. ASSUME NEW c \in Consumers \cup Closers, EnterConsumer(c) PROVE DrainedInv'
  BY <1>6 DEF EnterConsumer
<1>7. ASSUME NEW c \in Consumers \cup Closers, PopPendingNode(c) PROVE DrainedInv'
  BY <1>7 DEF PopPendingNode
<1>8. ASSUME NEW c \in Consumers \cup Closers, TakeHead(c) PROVE DrainedInv'
  BY <1>8 DEF TakeHead
<1>9. ASSUME NEW c \in Consumers \cup Closers, FindEmpty(c) PROVE DrainedInv'
  BY <1>9 DEF FindEmpty
<1>10. ASSUME NEW c \in Consumers \cup Closers, CountDown(c) PROVE DrainedInv'
  BY <1>10 DEF CountDown
<1>11. ASSUME NEW c \in Consumers \cup Closers, LeaveConsumer(c) PROVE DrainedInv'
  BY <1>11 DEF LeaveConsumer
<1>12. ASSUME NEW c \in Closers, PublishClosed(c) PROVE DrainedInv'
  BY <1>12 DEF PublishClosed
<1>13. ASSUME NEW c \in Closers, AwaitProducers(c) PROVE DrainedInv'
  BY <1>13 DEF AwaitProducers
<1>14. CASE UNCHANGED vars
  BY <1>14 DEF vars
<1> QED
  BY <1>1, <1>2, <1>3, <1>4, <1>5, <1>6, <1>7, <1>8, <1>9, <1>10, <1>11, <1>12,
     <1>13, <1>14 DEF Next, Push, Pop, Close

\* The sets that in_flight and len count are finite.
LEMMA FiniteSubsets ==
  /\ IsFiniteSet(InProtocol) /\ IsFiniteSet(Counted) /\ IsFiniteSet(Unlinkers)
  /\ Cardinality(InProtocol) \in Nat
  /\ Cardinality(Counted) \in Nat
  /\ Cardinality(Unlinkers) \in Nat
<1>1. /\ InProtocol \subseteq Producers \cup Consumers \cup Closers
      /\ Counted \subseteq Producers \cup Consumers \cup Closers
      /\ Unlinkers \subseteq Producers \cup Consumers \cup Closers
  BY DEF InProtocol, Counted, Unlinkers, Holders
<1>2. IsFiniteSet(InProtocol) /\ IsFiniteSet(Counted) /\ IsFiniteSet(Unlinkers)
  BY <1>1, ThreadsAssumption, FS_Subset
<1> QED
  BY <1>2, FS_CardinalityType

\* Every step keeps `in_flight` equal to the number of producers inside.
LEMMA InFlightStep ==
  ASSUME TypeOK, InFlightInv, [Next]_vars
  PROVE  InFlightInv'
<1>1. ASSUME NEW p \in Producers, AnnounceProducer(p) PROVE InFlightInv'
  <2>1. InProtocol' = InProtocol \cup {p} /\ p \notin InProtocol
    BY <1>1 DEF AnnounceProducer, InProtocol, TypeOK, Threads, Goto
  <2>2. Cardinality(InProtocol') = Cardinality(InProtocol) + 1
    BY <2>1, FiniteSubsets, FS_AddElement
  <2> QED
    BY <1>1, <2>2 DEF AnnounceProducer, InFlightInv
<1>2. ASSUME NEW p \in Producers, CheckClosed(p) PROVE InFlightInv'
  <2>1. InProtocol' = InProtocol
    BY <1>2, ThreadsAssumption DEF CheckClosed, InProtocol, TypeOK, Threads, Goto
  <2> QED
    BY <1>2, <2>1 DEF CheckClosed, InFlightInv
<1>3. ASSUME NEW p \in Producers, CountMessage(p) PROVE InFlightInv'
  <2>1. InProtocol' = InProtocol
    BY <1>3, ThreadsAssumption DEF CountMessage, InProtocol, TypeOK, Threads, Goto
  <2> QED
    BY <1>3, <2>1 DEF CountMessage, InFlightInv
<1>4. ASSUME NEW p \in Producers, LinkNode(p) PROVE InFlightInv'
  <2>1. InProtocol' = InProtocol
    BY <1>4, ThreadsAssumption DEF LinkNode, InProtocol, TypeOK, Threads, Goto
  <2> QED
    BY <1>4, <2>1 DEF LinkNode, InFlightInv
<1>5. ASSUME NEW p \in Producers, LeaveProducer(p) PROVE InFlightInv'
  <2>1. InProtocol' = InProtocol \ {p} /\ p \in InProtocol
    BY <1>5 DEF LeaveProducer, InProtocol, TypeOK, Threads, Goto
  <2>2. Cardinality(InProtocol') = Cardinality(InProtocol) - 1
    BY <2>1, FiniteSubsets, FS_RemoveElement
  <2> QED
    BY <1>5, <2>2 DEF LeaveProducer, InFlightInv
<1>6. ASSUME NEW c \in Consumers \cup Closers, EnterConsumer(c) PROVE InFlightInv'
  <2>1. InProtocol' = InProtocol
    BY <1>6, ThreadsAssumption DEF EnterConsumer, InProtocol, TypeOK, Threads,
       Goto
  <2> QED
    BY <1>6, <2>1 DEF EnterConsumer, InFlightInv
<1>7. ASSUME NEW c \in Consumers \cup Closers, PopPendingNode(c) PROVE InFlightInv'
  <2>1. InProtocol' = InProtocol
    BY <1>7, ThreadsAssumption DEF PopPendingNode, InProtocol, TypeOK, Threads,
       Goto
  <2> QED
    BY <1>7, <2>1 DEF PopPendingNode, InFlightInv
<1>8. ASSUME NEW c \in Consumers \cup Closers, TakeHead(c) PROVE InFlightInv'
  <2>1. InProtocol' = InProtocol
    BY <1>8, ThreadsAssumption DEF TakeHead, InProtocol, TypeOK, Threads, Goto
  <2> QED
    BY <1>8, <2>1 DEF TakeHead, InFlightInv
<1>9. ASSUME NEW c \in Consumers \cup Closers, FindEmpty(c) PROVE InFlightInv'
  <2>1. InProtocol' = InProtocol
    BY <1>9, ThreadsAssumption DEF FindEmpty, InProtocol, TypeOK, Threads, Goto
  <2> QED
    BY <1>9, <2>1 DEF FindEmpty, InFlightInv
<1>10. ASSUME NEW c \in Consumers \cup Closers, CountDown(c) PROVE InFlightInv'
  <2>1. InProtocol' = InProtocol
    BY <1>10, ThreadsAssumption DEF CountDown, InProtocol, TypeOK, Threads, Goto
  <2> QED
    BY <1>10, <2>1 DEF CountDown, InFlightInv
<1>11. ASSUME NEW c \in Consumers \cup Closers, LeaveConsumer(c) PROVE InFlightInv'
  <2>1. InProtocol' = InProtocol
    BY <1>11, ThreadsAssumption DEF LeaveConsumer, InProtocol, TypeOK, Threads,
       Goto
  <2> QED
    BY <1>11, <2>1 DEF LeaveConsumer, InFlightInv
<1>12. ASSUME NEW c \in Closers, PublishClosed(c) PROVE InFlightInv'
  <2>1. InProtocol' = InProtocol
    BY <1>12, ThreadsAssumption DEF PublishClosed, InProtocol, TypeOK, Threads,
       Goto
  <2> QED
    BY <1>12, <2>1 DEF PublishClosed, InFlightInv
<1>13. ASSUME NEW c \in Closers, AwaitProducers(c) PROVE InFlightInv'
  <2>1. InProtocol' = InProtocol
    BY <1>13, ThreadsAssumption DEF AwaitProducers, InProtocol, TypeOK, Threads,
       Goto
  <2> QED
    BY <1>13, <2>1 DEF AwaitProducers, InFlightInv
<1>14. CASE UNCHANGED vars
  <2>1. InProtocol' = InProtocol
    BY <1>14 DEF vars, InProtocol
  <2> QED
    BY <1>14, <2>1 DEF vars, InFlightInv
<1> QED
  BY <1>1, <1>2, <1>3, <1>4, <1>5, <1>6, <1>7, <1>8, <1>9, <1>10, <1>11, <1>12,
     <1>13, <1>14 DEF Next, Push, Pop, Close

\* What a producer is pushing is a message.
LEMMA MessageOfType ==
  ASSUME TypeOK, NEW p \in Producers, pc[p] # "idle"
  PROVE  MessageOf(p) \in Message
<1>1. pushes[p] \in Nat /\ pushes[p] < MaxPush
  BY MaxPushAssumption DEF TypeOK
<1>2. pushes[p] + 1 \in 1 .. MaxPush
  BY <1>1, MaxPushAssumption
<1> QED
  BY <1>2 DEF MessageOf, Message

\* Every step keeps `len` equal to the waiting nodes plus the updates under way.
LEMMA LenStep ==
  ASSUME TypeOK, LenCoversWaiting, [Next]_vars
  PROVE  LenCoversWaiting'
<1>1. ASSUME NEW p \in Producers, AnnounceProducer(p) PROVE LenCoversWaiting'
  <2>1. Counted' = Counted /\ Unlinkers' = Unlinkers
    BY <1>1, ThreadsAssumption DEF AnnounceProducer, Counted, Unlinkers,
       Holders, TypeOK, Threads, Goto
  <2> QED
    BY <1>1, <2>1 DEF AnnounceProducer, LenCoversWaiting
<1>2. ASSUME NEW p \in Producers, CheckClosed(p) PROVE LenCoversWaiting'
  <2>1. Counted' = Counted /\ Unlinkers' = Unlinkers
    BY <1>2, ThreadsAssumption DEF CheckClosed, Counted, Unlinkers, Holders,
       TypeOK, Threads, Goto
  <2> QED
    BY <1>2, <2>1 DEF CheckClosed, LenCoversWaiting
<1>3. ASSUME NEW p \in Producers, CountMessage(p) PROVE LenCoversWaiting'
  <2>1. Counted' = Counted \cup {p} /\ p \notin Counted /\ Unlinkers' = Unlinkers
    BY <1>3, ThreadsAssumption DEF CountMessage, Counted, Unlinkers, Holders,
       TypeOK, Threads, Goto
  <2>2. Cardinality(Counted') = Cardinality(Counted) + 1
    BY <2>1, FiniteSubsets, FS_AddElement
  <2> QED
    <3>1. len' = len + 1 /\ head' = head /\ pending' = pending
      BY <1>3 DEF CountMessage
    <3>2. Len(head) \in Nat /\ Len(pending) \in Nat
      BY DEF TypeOK
    <3> QED
      BY <2>1, <2>2, <3>1, <3>2, FiniteSubsets DEF LenCoversWaiting
<1>4. ASSUME NEW p \in Producers, LinkNode(p) PROVE LenCoversWaiting'
  <2>1. Counted' = Counted \ {p} /\ p \in Counted /\ Unlinkers' = Unlinkers
    BY <1>4, ThreadsAssumption DEF LinkNode, Counted, Unlinkers, Holders,
       TypeOK, Threads, Goto
  <2>2. Cardinality(Counted') = Cardinality(Counted) - 1
    BY <2>1, FiniteSubsets, FS_RemoveElement
  <2>3. MessageOf(p) \in Message
    BY <1>4, MessageOfType DEF LinkNode
  <2>4. Len(head') = Len(head) + 1
    BY <1>4, <2>3 DEF LinkNode, TypeOK
  <2> QED
    BY <1>4, <2>1, <2>2, <2>4, FiniteSubsets DEF LinkNode, LenCoversWaiting,
       TypeOK
<1>5. ASSUME NEW p \in Producers, LeaveProducer(p) PROVE LenCoversWaiting'
  <2>1. Counted' = Counted /\ Unlinkers' = Unlinkers
    BY <1>5, ThreadsAssumption DEF LeaveProducer, Counted, Unlinkers, Holders,
       TypeOK, Threads, Goto
  <2> QED
    BY <1>5, <2>1 DEF LeaveProducer, LenCoversWaiting
<1>6. ASSUME NEW c \in Consumers \cup Closers, EnterConsumer(c) PROVE LenCoversWaiting'
  <2>1. Counted' = Counted /\ Unlinkers' = Unlinkers
    BY <1>6, ThreadsAssumption DEF EnterConsumer, Counted, Unlinkers, Holders,
       TypeOK, Threads, Goto
  <2> QED
    BY <1>6, <2>1 DEF EnterConsumer, LenCoversWaiting
<1>7. ASSUME NEW c \in Consumers \cup Closers, PopPendingNode(c) PROVE LenCoversWaiting'
  <2>1. Unlinkers' = Unlinkers \cup {c} /\ c \notin Unlinkers /\ Counted' = Counted
    BY <1>7, ThreadsAssumption DEF PopPendingNode, Counted, Unlinkers, Holders,
       TypeOK, Threads, Goto
  <2>2. Cardinality(Unlinkers') = Cardinality(Unlinkers) + 1
    BY <2>1, FiniteSubsets, FS_AddElement
  <2>3. Len(pending') = Len(pending) - 1
    BY <1>7, HeadTailProperties DEF PopPendingNode, TypeOK
  <2> QED
    BY <1>7, <2>1, <2>2, <2>3, FiniteSubsets DEF PopPendingNode,
       LenCoversWaiting, TypeOK
<1>8. ASSUME NEW c \in Consumers \cup Closers, TakeHead(c) PROVE LenCoversWaiting'
  <2>1. Counted' = Counted /\ Unlinkers' = Unlinkers
    BY <1>8 DEF TakeHead, Counted, Unlinkers, Holders
  <2>2. Len(pending') = Len(head) /\ Len(head') = 0 /\ Len(pending) = 0
    BY <1>8, ReverseType DEF TakeHead, TypeOK
  <2> QED
    BY <1>8, <2>1, <2>2, FiniteSubsets DEF TakeHead, LenCoversWaiting, TypeOK
<1>9. ASSUME NEW c \in Consumers \cup Closers, FindEmpty(c) PROVE LenCoversWaiting'
  <2>1. Counted' = Counted /\ Unlinkers' = Unlinkers
    BY <1>9, ThreadsAssumption DEF FindEmpty, Counted, Unlinkers, Holders,
       TypeOK, Threads, Goto
  <2> QED
    BY <1>9, <2>1 DEF FindEmpty, LenCoversWaiting
<1>10. ASSUME NEW c \in Consumers \cup Closers, CountDown(c) PROVE LenCoversWaiting'
  <2>1. Unlinkers' = Unlinkers \ {c} /\ c \in Unlinkers /\ Counted' = Counted
    BY <1>10, ThreadsAssumption DEF CountDown, Counted, Unlinkers, Holders,
       TypeOK, Threads, Goto
  <2>2. Cardinality(Unlinkers') = Cardinality(Unlinkers) - 1
    BY <2>1, FiniteSubsets, FS_RemoveElement
  <2> QED
    BY <1>10, <2>1, <2>2, FiniteSubsets, SMTT(20) DEF CountDown, LenCoversWaiting, TypeOK
<1>11. ASSUME NEW c \in Consumers \cup Closers, LeaveConsumer(c) PROVE LenCoversWaiting'
  <2>1. Counted' = Counted /\ Unlinkers' = Unlinkers
    BY <1>11, ThreadsAssumption DEF LeaveConsumer, Counted, Unlinkers, Holders,
       TypeOK, Threads, Goto
  <2> QED
    BY <1>11, <2>1 DEF LeaveConsumer, LenCoversWaiting
<1>12. ASSUME NEW c \in Closers, PublishClosed(c) PROVE LenCoversWaiting'
  <2>1. Counted' = Counted /\ Unlinkers' = Unlinkers
    BY <1>12, ThreadsAssumption DEF PublishClosed, Counted, Unlinkers, Holders,
       TypeOK, Threads, Goto
  <2> QED
    BY <1>12, <2>1 DEF PublishClosed, LenCoversWaiting
<1>13. ASSUME NEW c \in Closers, AwaitProducers(c) PROVE LenCoversWaiting'
  <2>1. Counted' = Counted /\ Unlinkers' = Unlinkers
    BY <1>13, ThreadsAssumption DEF AwaitProducers, Counted, Unlinkers, Holders,
       TypeOK, Threads, Goto
  <2> QED
    BY <1>13, <2>1 DEF AwaitProducers, LenCoversWaiting
<1>14. CASE UNCHANGED vars
  <2>1. Counted' = Counted /\ Unlinkers' = Unlinkers
    BY <1>14 DEF vars, Counted, Unlinkers, Holders
  <2> QED
    BY <1>14, <2>1 DEF vars, LenCoversWaiting
<1> QED
  BY <1>1, <1>2, <1>3, <1>4, <1>5, <1>6, <1>7, <1>8, <1>9, <1>10, <1>11, <1>12,
     <1>13, <1>14 DEF Next, Push, Pop, Close

\* Every step keeps the order: linking appends to what waits, the reversal
\* leaves it as it is, and unlinking moves its front to what was taken.
LEMMA FifoStep ==
  ASSUME TypeOK, Fifo, [Next]_vars
  PROVE  Fifo'
<1>1. ASSUME NEW p \in Producers, AnnounceProducer(p) PROVE Fifo'
  BY <1>1 DEF AnnounceProducer, Fifo, Waiting
<1>2. ASSUME NEW p \in Producers, CheckClosed(p) PROVE Fifo'
  BY <1>2 DEF CheckClosed, Fifo, Waiting
<1>3. ASSUME NEW p \in Producers, CountMessage(p) PROVE Fifo'
  BY <1>3 DEF CountMessage, Fifo, Waiting
<1>4. ASSUME NEW p \in Producers, LinkNode(p) PROVE Fifo'
  <2>1. MessageOf(p) \in Message
    BY <1>4, MessageOfType DEF LinkNode
  <2>2. Waiting' = pending \o (Reverse(head) \o <<MessageOf(p)>>)
    BY <1>4, <2>1, ReversePush DEF LinkNode, Waiting, TypeOK
  <2>3. Reverse(head) \in Seq(Message) /\ pending \in Seq(Message) /\ taken \in Seq(Message)
    BY ReverseType DEF TypeOK
  <2>4. Append(taken \o (pending \o Reverse(head)), MessageOf(p))
        = taken \o (pending \o (Reverse(head) \o <<MessageOf(p)>>))
    <3>1. pending \o Reverse(head) \in Seq(Message)
      BY <2>3, ConcatProperties
    <3>2. Append(taken \o (pending \o Reverse(head)), MessageOf(p))
          = taken \o ((pending \o Reverse(head)) \o <<MessageOf(p)>>)
      BY <2>1, <2>3, <3>1, PushBack
    <3>3. (pending \o Reverse(head)) \o <<MessageOf(p)>>
          = pending \o (Reverse(head) \o <<MessageOf(p)>>)
      BY <2>1, <2>3, ConcatAssociative
    <3> QED
      BY <3>2, <3>3
  <2>5. linked' = Append(taken \o (pending \o Reverse(head)), MessageOf(p))
    BY <1>4 DEF LinkNode, Fifo, Waiting
  <2>6. taken' = taken
    BY <1>4 DEF LinkNode
  <2> QED
    BY <2>2, <2>4, <2>5, <2>6 DEF Fifo
<1>5. ASSUME NEW p \in Producers, LeaveProducer(p) PROVE Fifo'
  BY <1>5 DEF LeaveProducer, Fifo, Waiting
<1>6. ASSUME NEW c \in Consumers \cup Closers, EnterConsumer(c) PROVE Fifo'
  BY <1>6 DEF EnterConsumer, Fifo, Waiting
<1>7. ASSUME NEW c \in Consumers \cup Closers, PopPendingNode(c) PROVE Fifo'
  <2>1. Reverse(head) \in Seq(Message) /\ pending \in Seq(Message) /\ taken \in Seq(Message)
    BY ReverseType DEF TypeOK
  <2>2. /\ pending # <<>>
        /\ Waiting' = Tail(pending) \o Reverse(head)
        /\ taken' = Append(taken, Head(pending))
    BY <1>7 DEF PopPendingNode, Waiting
  <2>3. pending # <<>>
    BY <2>2
  <2>4. Append(taken, Head(pending)) \o (Tail(pending) \o Reverse(head))
        = taken \o (pending \o Reverse(head))
    BY <2>1, <2>3, PopFront
  <2> QED
    BY <1>7, <2>2, <2>4 DEF PopPendingNode, Fifo, Waiting
<1>8. ASSUME NEW c \in Consumers \cup Closers, TakeHead(c) PROVE Fifo'
  <2>1. Waiting' = Waiting
    BY <1>8, ReverseType, ReverseEmpty, ConcatEmptySeq DEF TakeHead, Waiting,
       TypeOK
  <2> QED
    BY <1>8, <2>1 DEF TakeHead, Fifo
<1>9. ASSUME NEW c \in Consumers \cup Closers, FindEmpty(c) PROVE Fifo'
  BY <1>9 DEF FindEmpty, Fifo, Waiting
<1>10. ASSUME NEW c \in Consumers \cup Closers, CountDown(c) PROVE Fifo'
  BY <1>10 DEF CountDown, Fifo, Waiting
<1>11. ASSUME NEW c \in Consumers \cup Closers, LeaveConsumer(c) PROVE Fifo'
  BY <1>11 DEF LeaveConsumer, Fifo, Waiting
<1>12. ASSUME NEW c \in Closers, PublishClosed(c) PROVE Fifo'
  BY <1>12 DEF PublishClosed, Fifo, Waiting
<1>13. ASSUME NEW c \in Closers, AwaitProducers(c) PROVE Fifo'
  BY <1>13 DEF AwaitProducers, Fifo, Waiting
<1>14. CASE UNCHANGED vars
  BY <1>14 DEF vars, Fifo, Waiting
<1> QED
  BY <1>1, <1>2, <1>3, <1>4, <1>5, <1>6, <1>7, <1>8, <1>9, <1>10, <1>11, <1>12,
     <1>13, <1>14 DEF Next, Push, Pop, Close

\* Every step keeps the types.  The decrements need the counting invariants.
LEMMA TypeStep ==
  ASSUME TypeOK, InFlightInv, LenCoversWaiting, [Next]_vars
  PROVE  TypeOK'
<1> USE ThreadsAssumption, MaxPushAssumption DEF TypeOK, Threads, ProducerPC,
      ConsumerPC, CloserPC, Goto
<1>1. ASSUME NEW p \in Producers, AnnounceProducer(p) PROVE TypeOK'
  BY <1>1 DEF AnnounceProducer
<1>2. ASSUME NEW p \in Producers, CheckClosed(p) PROVE TypeOK'
  BY <1>2 DEF CheckClosed
<1>3. ASSUME NEW p \in Producers, CountMessage(p) PROVE TypeOK'
  BY <1>3 DEF CountMessage
<1>4. ASSUME NEW p \in Producers, LinkNode(p) PROVE TypeOK'
  <2>1. MessageOf(p) \in Message
    BY <1>4, MessageOfType DEF LinkNode
  <2>2. <<MessageOf(p)>> \in Seq(Message)
    BY <2>1
  <2>3. head' \in Seq(Message)
    BY <1>4, <2>2, ConcatProperties, Zenon DEF LinkNode, TypeOK
  <2>4. linked' \in Seq(Message)
    BY <1>4, <2>1, AppendProperties, Zenon DEF LinkNode, TypeOK
  <2>5. pc' = [pc EXCEPT ![p] = "linked"] /\ pushes' = pushes /\ pc[p] = "counted"
    BY <1>4 DEF LinkNode
  <2>6. /\ pc' \in [Threads -> ProducerPC \cup ConsumerPC \cup CloserPC]
        /\ \A q \in Producers : /\ pc'[q] \in ProducerPC
                                /\ pc'[q] # "idle" => pushes'[q] < MaxPush
        /\ \A c \in Consumers : pc'[c] \in ConsumerPC
        /\ \A c \in Closers : pc'[c] \in CloserPC
    <3>1. pc' \in [Threads -> ProducerPC \cup ConsumerPC \cup CloserPC]
      BY <2>5
    <3>2. ASSUME NEW q \in Producers
          PROVE  pc'[q] \in ProducerPC /\ (pc'[q] # "idle" => pushes'[q] < MaxPush)
      BY <2>5
    <3>3. ASSUME NEW c \in Consumers PROVE pc'[c] \in ConsumerPC
      BY <2>5
    <3>4. ASSUME NEW c \in Closers PROVE pc'[c] \in CloserPC
      BY <2>5
    <3> QED
      BY <3>1, <3>2, <3>3, <3>4, Zenon
  <2>7. /\ pending' = pending /\ len' = len /\ in_flight' = in_flight
        /\ closed' = closed /\ consumer_active' = consumer_active /\ taken' = taken
    BY <1>4 DEF LinkNode
  <2> QED
    BY <2>3, <2>4, <2>5, <2>6, <2>7, Zenon
<1>5. ASSUME NEW p \in Producers, LeaveProducer(p) PROVE TypeOK'
  <2>1. p \in InProtocol
    BY <1>5 DEF LeaveProducer, InProtocol
  <2>2. in_flight' \in Nat
    <3>1. IsFiniteSet(InProtocol) /\ InProtocol # {}
      BY <2>1, FiniteSubsets, Zenon
    <3>2. Cardinality(InProtocol) \in Nat /\ Cardinality(InProtocol) # 0
      BY <3>1, FS_EmptySet, FS_CardinalityType, Zenon
    <3>3. in_flight' = in_flight - 1 /\ in_flight = Cardinality(InProtocol)
      BY <1>5 DEF LeaveProducer, InFlightInv
    <3> QED
      BY <3>2, <3>3
  <2>3. pushes[p] + 1 \in 0 .. MaxPush
    <3>1. pc[p] # "idle"
      BY <1>5 DEF LeaveProducer
    <3>2. pushes[p] \in 0 .. MaxPush /\ pushes[p] < MaxPush
      BY <1>5, <3>1 DEF TypeOK
    <3> QED
      BY <3>2, MaxPushAssumption
  <2> QED
    BY <1>5, <2>2, <2>3 DEF LeaveProducer
<1>6. ASSUME NEW c \in Consumers \cup Closers, EnterConsumer(c) PROVE TypeOK'
  BY <1>6 DEF EnterConsumer
<1>7. ASSUME NEW c \in Consumers \cup Closers, PopPendingNode(c) PROVE TypeOK'
  <2>1. pending' \in Seq(Message) /\ taken' \in Seq(Message)
    BY <1>7, HeadTailProperties DEF PopPendingNode, TypeOK
  <2> QED
    BY <1>7, <2>1 DEF PopPendingNode
<1>8. ASSUME NEW c \in Consumers \cup Closers, TakeHead(c) PROVE TypeOK'
  <2>1. pending' \in Seq(Message) /\ head' \in Seq(Message)
    BY <1>8, ReverseType DEF TakeHead, TypeOK
  <2> QED
    BY <1>8, <2>1 DEF TakeHead
<1>9. ASSUME NEW c \in Consumers \cup Closers, FindEmpty(c) PROVE TypeOK'
  BY <1>9 DEF FindEmpty
<1>10. ASSUME NEW c \in Consumers \cup Closers, CountDown(c) PROVE TypeOK'
  <2>1. c \in Unlinkers
    BY <1>10 DEF CountDown, Unlinkers, Holders
  <2>2. Len(head) \in Nat /\ Len(pending) \in Nat
    BY DEF TypeOK
  <2>3. Cardinality(Unlinkers) \in Nat \ {0}
    BY <2>1, FiniteSubsets, FS_EmptySet
  <2>4. len - 1 \in Nat
    BY <2>2, <2>3, FiniteSubsets DEF LenCoversWaiting
  <2> QED
    BY <1>10, <2>4 DEF CountDown
<1>11. ASSUME NEW c \in Consumers \cup Closers, LeaveConsumer(c) PROVE TypeOK'
  BY <1>11 DEF LeaveConsumer
<1>12. ASSUME NEW c \in Closers, PublishClosed(c) PROVE TypeOK'
  BY <1>12 DEF PublishClosed
<1>13. ASSUME NEW c \in Closers, AwaitProducers(c) PROVE TypeOK'
  BY <1>13 DEF AwaitProducers
<1>14. CASE UNCHANGED vars
  BY <1>14 DEF vars
<1> QED
  BY <1>1, <1>2, <1>3, <1>4, <1>5, <1>6, <1>7, <1>8, <1>9, <1>10, <1>11, <1>12,
     <1>13, <1>14 DEF Next, Push, Pop, Close

\* The initial state of the queue satisfies the inductive invariant.
LEMMA InitInv == Init => IInv
<1> SUFFICES ASSUME Init PROVE IInv
  OBVIOUS
<1>1. /\ Holders = {} /\ InProtocol = {} /\ Sealers = {} /\ Admitted = {}
      /\ Counted = {} /\ Unlinkers = {}
  BY DEF Init, Threads, Holders, InProtocol, Sealers, Admitted, Counted,
     Unlinkers, CloserPC
<1>2. TypeOK
  <2>1. <<>> \in Seq(Message) /\ 0 \in 0 .. MaxPush /\ 0 \in Nat
    BY MaxPushAssumption
  <2>2. /\ head \in Seq(Message) /\ pending \in Seq(Message)
        /\ linked \in Seq(Message) /\ taken \in Seq(Message)
        /\ len \in Nat /\ in_flight \in Nat
        /\ closed \in BOOLEAN /\ consumer_active \in BOOLEAN
    BY <2>1 DEF Init
  <2>3. pushes \in [Producers -> 0 .. MaxPush]
    BY <2>1 DEF Init
  <2>4. /\ pc \in [Threads -> ProducerPC \cup ConsumerPC \cup CloserPC]
        /\ \A t \in Threads : pc[t] = "idle"
    BY DEF Init, ProducerPC
  <2> QED
    BY <2>2, <2>3, <2>4 DEF TypeOK, Threads, ProducerPC, ConsumerPC, CloserPC
<1>3. Fifo
  BY ReverseEmpty DEF Init, Fifo, Waiting
<1>4. GuardInv
  BY <1>1 DEF Init, GuardInv, ConsumerExclusive
<1>5. InFlightInv
  BY <1>1, FS_EmptySet DEF Init, InFlightInv
<1>6. LenCoversWaiting
  BY <1>1, FS_EmptySet DEF Init, LenCoversWaiting
<1>7. CloseInv
  BY <1>1 DEF Init, CloseInv, Sealed, Threads
<1>8. DrainedInv
  BY DEF Init, DrainedInv
<1> QED
  BY <1>2, <1>3, <1>4, <1>5, <1>6, <1>7, <1>8 DEF IInv

\* Every step of the queue preserves the inductive invariant.
LEMMA NextInv == IInv /\ [Next]_vars => IInv'
<1> SUFFICES ASSUME IInv, [Next]_vars PROVE IInv'
  OBVIOUS
<1>1. /\ TypeOK /\ Fifo /\ GuardInv /\ InFlightInv /\ LenCoversWaiting /\ CloseInv
      /\ DrainedInv
  BY DEF IInv
<1>2. InProtocol = {} \/ in_flight # 0
  BY <1>1, FiniteSubsets, FS_EmptySet DEF InFlightInv
<1>3. TypeOK' /\ Fifo' /\ GuardInv'
  BY <1>1, TypeStep, FifoStep, GuardStep
<1>4. InFlightInv' /\ LenCoversWaiting'
  BY <1>1, InFlightStep, LenStep
<1>5. CloseInv'
  BY <1>1, <1>2, CloseStep
<1>6. DrainedInv'
  BY <1>1, DrainedStep
<1> QED
  BY <1>3, <1>4, <1>5, <1>6 DEF IInv

\* The invariant holds in every reachable state, for every number of
\* producers, consumers, closers and pushes.
THEOREM Invariance == Spec => []IInv
  BY InitInv, NextInv, PTL DEF Spec

\* The queue's variables keep their types; in particular `len` and `in_flight`,
\* which the code decrements without a check, never wrap below zero.
THEOREM TypeCorrect == Spec => []TypeOK
<1>1. IInv => TypeOK
  BY DEF IInv
<1> QED
  BY <1>1, Invariance, PTL

\* Messages leave the queue in the order they were linked, each one once.
THEOREM FifoHolds == Spec => []Fifo
<1>1. IInv => Fifo
  BY DEF IInv
<1> QED
  BY <1>1, Invariance, PTL

\* At most one thread at a time is inside the consumer guard.
THEOREM ConsumerExclusion == Spec => []ConsumerExclusive
<1>1. IInv => ConsumerExclusive
  BY DEF IInv, GuardInv
<1> QED
  BY <1>1, Invariance, PTL

\* `len` is the number of waiting messages plus the updates under way.
THEOREM LengthCovers == Spec => []LenCoversWaiting
<1>1. IInv => LenCoversWaiting
  BY DEF IInv
<1> QED
  BY <1>1, Invariance, PTL

\* After close_and_drain the queue stays empty.
THEOREM DrainedForGood == Spec => []EmptyOnceDrained
<1>1. IInv => EmptyOnceDrained
  BY ReverseEmpty DEF IInv, DrainedInv, EmptyOnceDrained, Waiting
<1> QED
  BY <1>1, Invariance, PTL

\* Once close() has returned no node is linked.
THEOREM NoPhantom == Spec => NoPhantomPush
<1>1. IInv /\ [Next]_vars => [Sealed => linked' = linked]_vars
  <2> SUFFICES ASSUME IInv, [Next]_vars, Sealed PROVE linked' = linked
    OBVIOUS
  <2>1. Admitted = {}
    BY DEF IInv, CloseInv
  <2>2. ASSUME NEW p \in Producers, Push(p) PROVE linked' = linked
    BY <2>1, <2>2 DEF Push, AnnounceProducer, CheckClosed, CountMessage, LinkNode,
                      LeaveProducer, Admitted
  <2>3. ASSUME NEW c \in Consumers \cup Closers, Pop(c) PROVE linked' = linked
    BY <2>3 DEF Pop, EnterConsumer, PopPendingNode, TakeHead, FindEmpty,
       CountDown,
                LeaveConsumer
  <2>4. ASSUME NEW c \in Closers, Close(c) PROVE linked' = linked
    BY <2>4 DEF Close, PublishClosed, AwaitProducers
  <2>5. CASE UNCHANGED vars
    BY <2>5 DEF vars
  <2> QED
    BY <2>2, <2>3, <2>4, <2>5 DEF Next
<1> QED
  BY <1>1, Invariance, PTL DEF Spec, NoPhantomPush
-----------------------------------------------------------------------------
(* Refinement of UserQueue                                                 *)

\* Under the invariant every step of the queue is a step of the abstract FIFO
\* queue or leaves it unchanged.
LEMMA StepRefines ==
  ASSUME IInv, [Next]_vars
  PROVE  [Abstract!QNext]_(Abstract!qvars)
<1> DEFINE G == [Abstract!QNext]_(Abstract!qvars)
<1>0. TypeOK /\ CloseInv
  BY DEF IInv
<1>1. ASSUME NEW p \in Producers, AnnounceProducer(p) PROVE G
  <2>1. Sealed' = Sealed
    BY <1>1, <1>0, ThreadsAssumption
       DEF AnnounceProducer, Sealed, Sealers, TypeOK, Threads, Goto, CloserPC
  <2>2. Waiting' = Waiting /\ taken' = taken
    BY <1>1 DEF AnnounceProducer, Waiting
  <2> QED
    BY <2>1, <2>2 DEF Abstract!qvars
<1>2. ASSUME NEW p \in Producers, CheckClosed(p) PROVE G
  <2>1. Sealed' = Sealed
    BY <1>2, <1>0, ThreadsAssumption
       DEF CheckClosed, Sealed, Sealers, TypeOK, Threads, Goto, CloserPC
  <2>2. Waiting' = Waiting /\ taken' = taken
    BY <1>2 DEF CheckClosed, Waiting
  <2> QED
    BY <2>1, <2>2 DEF Abstract!qvars
<1>3. ASSUME NEW p \in Producers, CountMessage(p) PROVE G
  <2>1. Sealed' = Sealed
    BY <1>3, <1>0, ThreadsAssumption
       DEF CountMessage, Sealed, Sealers, TypeOK, Threads, Goto, CloserPC
  <2>2. Waiting' = Waiting /\ taken' = taken
    BY <1>3 DEF CountMessage, Waiting
  <2> QED
    BY <2>1, <2>2 DEF Abstract!qvars
<1>4. ASSUME NEW p \in Producers, LinkNode(p) PROVE G
  <2>1. Sealed' = Sealed /\ taken' = taken
    BY <1>4, <1>0, ThreadsAssumption
       DEF LinkNode, Sealed, Sealers, TypeOK, Threads, Goto, CloserPC
  <2>2. ~Sealed
    BY <1>4, <1>0 DEF LinkNode, CloseInv, Admitted
  <2>3. MessageOf(p) \in Message
    BY <1>4, <1>0, MessageOfType DEF LinkNode
  <2>4. Reverse(head) \in Seq(Message) /\ pending \in Seq(Message) /\ head \in Seq(Message)
    BY <1>0, ReverseType DEF TypeOK
  <2>5. Waiting' = pending \o (Reverse(head) \o <<MessageOf(p)>>)
    BY <1>4, <2>3, <2>4, ReversePush DEF LinkNode, Waiting
  <2>6. Append(pending \o Reverse(head), MessageOf(p))
        = pending \o (Reverse(head) \o <<MessageOf(p)>>)
    BY <2>3, <2>4, PushBack
  <2>7. Waiting' = Append(Waiting, MessageOf(p))
    BY <2>5, <2>6 DEF Waiting
  <2>8. Abstract!Put
    BY <2>1, <2>2, <2>3, <2>7 DEF Abstract!Put
  <2> QED
    BY <2>8 DEF Abstract!QNext
<1>5. ASSUME NEW p \in Producers, LeaveProducer(p) PROVE G
  <2>1. Sealed' = Sealed
    BY <1>5, <1>0, ThreadsAssumption
       DEF LeaveProducer, Sealed, Sealers, TypeOK, Threads, Goto, CloserPC
  <2>2. Waiting' = Waiting /\ taken' = taken
    BY <1>5 DEF LeaveProducer, Waiting
  <2> QED
    BY <2>1, <2>2 DEF Abstract!qvars
<1>6. ASSUME NEW c \in Consumers \cup Closers, EnterConsumer(c) PROVE G
  <2>1. Sealed' = Sealed
    BY <1>6, <1>0, ThreadsAssumption
       DEF EnterConsumer, Sealed, Sealers, TypeOK, Threads, Goto, CloserPC
  <2>2. Waiting' = Waiting /\ taken' = taken
    BY <1>6 DEF EnterConsumer, Waiting
  <2> QED
    BY <2>1, <2>2 DEF Abstract!qvars
<1>7. ASSUME NEW c \in Consumers \cup Closers, PopPendingNode(c) PROVE G
  <2>1. Sealed' = Sealed
    BY <1>7, <1>0, ThreadsAssumption
       DEF PopPendingNode, Sealed, Sealers, TypeOK, Threads, Goto, CloserPC
  <2>2. Reverse(head) \in Seq(Message) /\ pending \in Seq(Message) /\ taken \in Seq(Message)
    BY <1>0, ReverseType DEF TypeOK
  <2>3. /\ pending # <<>>
        /\ Waiting' = Tail(pending) \o Reverse(head)
        /\ taken' = Append(taken, Head(pending))
    BY <1>7 DEF PopPendingNode, Waiting
  <2>4. /\ pending \o Reverse(head) # <<>>
        /\ Head(pending \o Reverse(head)) = Head(pending)
        /\ Tail(pending \o Reverse(head)) = Tail(pending) \o Reverse(head)
    BY <2>2, <2>3, PopFront
  <2>5. Waiting # <<>> /\ Head(Waiting) = Head(pending) /\ Waiting' = Tail(Waiting)
    BY <2>3, <2>4 DEF Waiting
  <2>6. Abstract!Take
    BY <2>1, <2>3, <2>5 DEF Abstract!Take
  <2> QED
    BY <2>6 DEF Abstract!QNext
<1>8. ASSUME NEW c \in Consumers \cup Closers, TakeHead(c) PROVE G
  <2>1. Sealed' = Sealed /\ taken' = taken
    BY <1>8 DEF TakeHead, Sealed, Sealers
  <2>2. Waiting' = Waiting
    BY <1>8, <1>0, ReverseType, ReverseEmpty, ConcatEmptySeq DEF TakeHead,
       Waiting, TypeOK
  <2> QED
    BY <2>1, <2>2 DEF Abstract!qvars
<1>9. ASSUME NEW c \in Consumers \cup Closers, FindEmpty(c) PROVE G
  <2>1. Sealed' = Sealed
    BY <1>9, <1>0, ThreadsAssumption
       DEF FindEmpty, Sealed, Sealers, TypeOK, Threads, Goto, CloserPC
  <2>2. Waiting' = Waiting /\ taken' = taken
    BY <1>9 DEF FindEmpty, Waiting
  <2> QED
    BY <2>1, <2>2 DEF Abstract!qvars
<1>10. ASSUME NEW c \in Consumers \cup Closers, CountDown(c) PROVE G
  <2>1. Sealed' = Sealed
    BY <1>10, <1>0, ThreadsAssumption
       DEF CountDown, Sealed, Sealers, TypeOK, Threads, Goto, CloserPC
  <2>2. Waiting' = Waiting /\ taken' = taken
    BY <1>10 DEF CountDown, Waiting
  <2> QED
    BY <2>1, <2>2 DEF Abstract!qvars
<1>11. ASSUME NEW c \in Consumers \cup Closers, LeaveConsumer(c) PROVE G
  <2>1. Sealed' = Sealed
    BY <1>11, <1>0, ThreadsAssumption
       DEF LeaveConsumer, Sealed, Sealers, TypeOK, Threads, Goto, CloserPC
  <2>2. Waiting' = Waiting /\ taken' = taken
    BY <1>11 DEF LeaveConsumer, Waiting
  <2> QED
    BY <2>1, <2>2 DEF Abstract!qvars
<1>12. ASSUME NEW c \in Closers, PublishClosed(c) PROVE G
  <2>1. Sealed' = Sealed
    BY <1>12, <1>0, ThreadsAssumption
       DEF PublishClosed, Sealed, Sealers, TypeOK, Threads, Goto, CloserPC
  <2>2. Waiting' = Waiting /\ taken' = taken
    BY <1>12 DEF PublishClosed, Waiting
  <2> QED
    BY <2>1, <2>2 DEF Abstract!qvars
<1>13. ASSUME NEW c \in Closers, AwaitProducers(c) PROVE G
  <2>1. Sealed'
    BY <1>13, <1>0, ThreadsAssumption
       DEF AwaitProducers, Sealed, Sealers, TypeOK, Threads, Goto, CloserPC
  <2>2. Waiting' = Waiting /\ taken' = taken
    BY <1>13 DEF AwaitProducers, Waiting
  <2>3. Abstract!Seal
    BY <2>1, <2>2 DEF Abstract!Seal
  <2> QED
    BY <2>3 DEF Abstract!QNext
<1>14. CASE UNCHANGED vars
  <2>1. Sealed' = Sealed
    BY <1>14 DEF vars, Sealed, Sealers
  <2>2. Waiting' = Waiting /\ taken' = taken
    BY <1>14 DEF vars, Waiting
  <2> QED
    BY <2>1, <2>2 DEF Abstract!qvars
<1> QED
  BY <1>1, <1>2, <1>3, <1>4, <1>5, <1>6, <1>7, <1>8, <1>9, <1>10, <1>11, <1>12,
     <1>13, <1>14 DEF Next, Push, Pop, Close

\* LockFreeMpscQueue implements the sealed FIFO buffer of UserQueue.
THEOREM Refinement == Spec => RefinesUserQueue
<1>1. Init => Abstract!QInit
  <2> SUFFICES ASSUME Init PROVE Abstract!QInit
    OBVIOUS
  <2>1. Waiting = <<>> /\ taken = <<>>
    BY ReverseEmpty DEF Init, Waiting
  <2>2. Sealed = FALSE
    BY DEF Init, Sealed, Sealers, Threads, CloserPC
  <2> QED
    BY <2>1, <2>2 DEF Abstract!QInit
<1>2. IInv /\ [Next]_vars => [Abstract!QNext]_(Abstract!qvars)
  BY StepRefines
<1> QED
  BY <1>1, <1>2, Invariance, PTL DEF Spec, RefinesUserQueue, Abstract!QSpec
=============================================================================
