------------------------------ MODULE Delivery ------------------------------
(***************************************************************************)
(* Point-to-point reliable delivery                                        *)
(* (actor-core-typed/src/delivery): a producer controller numbers what the *)
(* producer gives it, stores it in a durable queue, and sends it; a        *)
(* consumer controller hands it to the consumer one at a time, confirms,   *)
(* asks for more and asks again for what it misses.  Messages to the       *)
(* consumer controller can be lost, the producer controller can die and be *)
(* spawned again, and timers fire whenever they like.  A message is its    *)
(* sequence number n and its payload v, the position at which the producer *)
(* handed it over.                                                         *)
(***************************************************************************)
EXTENDS Naturals, Sequences, FiniteSets, SequencesExt

CONSTANTS
  Window,      \* flow_control_window of the consumer controller
  Retries,     \* durable_queue_retry_attempts
  MaxMessages, \* bound: messages the producer has
  MaxFaults,   \* bound: losses, repeated and refused queue requests, restarts and stops
  MaxRestarts, \* bound: times the producer controller is spawned again
  MaxInFlight  \* bound: the resend timer fires below this many messages in flight

ASSUME DeliveryAssumption ==
  /\ Window \in Nat \ {0} /\ Retries \in Nat \ {0}
  /\ {MaxMessages, MaxFaults, MaxRestarts, MaxInFlight} \subseteq Nat

VARIABLES
  pc,        \* ProducerControllerState
  cc,        \* ConsumerControllerState
  queue,     \* DurableProducerQueueState
  toCc,      \* sequenced messages on their way to the consumer controller
  toPc,      \* commands on their way to the producer controller
  toQueue,   \* commands on their way to the durable queue
  fromQueue, \* its answers
  timers,    \* scheduled resend_first_unconfirmed, by sequence number
  attempt,   \* attempts of the outstanding durable queue request; 0: none
  asked,     \* RequestNext the producer has not answered
  produced,  \* payloads the producer has handed over
  held,      \* deliveries the consumer has not confirmed
  given,     \* history: messages the consumer was handed
  mishaps,   \* history: "reloaded" by a late answer, "displaced" a pending message
  faults, restarts

producerSide == <<pc, timers, asked, produced>>
queueSide == <<queue, toQueue, fromQueue, attempt, mishaps>>
consumerSide == <<cc, held, given>>
vars == <<producerSide, queueSide, consumerSide, toCc, toPc, faults, restarts>>

NewPc ==
  [up |-> TRUE, current |-> 1, confirmed |-> 0, requestedTo |-> 0, requested |-> FALSE,
   awaitingMsg |-> FALSE, awaitingLoad |-> TRUE, sendFirst |-> TRUE, unconfirmed |-> <<>>,
   pending |-> <<>>, producer |-> FALSE, consumer |-> FALSE, resendFirst |-> 0]

NewCc ==
  [up |-> TRUE, received |-> 0, delivered |-> 0, confirmed |-> 0, requested |-> 0,
   consumer |-> FALSE, producer |-> 0, waiting |-> FALSE, stash |-> <<>>, stopping |-> FALSE]

\* a controller whose tell to the durable queue was refused, or that gave up
Stopped(p) == [p EXCEPT !.up = FALSE]

\* the controller asks its durable queue for its state, or cannot and stops
Init ==
  /\ \/ pc = NewPc /\ toQueue = <<[t |-> "load", to |-> 1]>> /\ attempt = 1
     \/ pc = Stopped(NewPc) /\ toQueue = <<>> /\ attempt = 0
  /\ timers = {} /\ asked = 0 /\ produced = 0
  /\ queue = [current |-> 1, confirmed |-> 0, unconfirmed |-> <<>>]
  /\ fromQueue = <<>> /\ mishaps = {}
  /\ cc = NewCc /\ held = 0 /\ given = {}
  /\ toCc = <<>> /\ toPc = <<>> /\ faults = 0 /\ restarts = 0

\* a message as the durable queue and the consumer see it
Plain(m) == [n |-> m.n, v |-> m.v]

\* the messages numbered n and up, in their order
From(messages, n) ==
  LET kept[i \in 0 .. Len(messages)] ==
        IF i = 0 THEN <<>>
        ELSE IF messages[i].n >= n THEN Append(kept[i - 1], messages[i]) ELSE kept[i - 1]
  IN  kept[Len(messages)]

\* the producer controllers are told apart by a number: references outlive them
Incarnation == restarts + 1

-----------------------------------------------------------------------------
\* collect_request_next asks the producer when there is demand, once at a time
WantsNext(p) ==
  /\ ~p.awaitingLoad /\ ~p.awaitingMsg /\ p.producer /\ p.consumer
  /\ (~p.requested /\ p.sendFirst) \/ p.current <= p.requestedTo

\* Mutant of OnConfirmed: everything the consumer asked for counts as confirmed.
OnRequested(p, n) ==
  [p EXCEPT !.confirmed = p.requestedTo,
            !.unconfirmed = From(@, p.requestedTo + 1)]

\* on_confirmed
OnConfirmed(p, n) ==
  IF n > p.confirmed
  THEN [p EXCEPT !.confirmed = n, !.unconfirmed = From(@, n + 1)]
  ELSE p

\* Mutant of ScheduleResend: the mark of the last timer is not looked at or set.
ScheduleNoResend(p, running) == pc' = p /\ timers' = running

\* maybe_schedule_resend_first: one timer for the oldest unconfirmed message
ScheduleResend(p, running) ==
  LET oldest == IF p.unconfirmed = <<>> \/ ~p.consumer THEN 0 ELSE Head(p.unconfirmed).n
  IN  /\ timers' = IF oldest \in {0, p.resendFirst} THEN running ELSE running \cup {oldest}
      /\ pc' = [p EXCEPT !.resendFirst = oldest]

\* a command's end: demand passed on to the producer, and the resend timer
EndWithRequest(p) ==
  /\ ScheduleResend(IF WantsNext(p) THEN [p EXCEPT !.awaitingMsg = TRUE] ELSE p, timers)
  /\ asked' = IF WantsNext(p) THEN asked + 1 ELSE asked

\* execute_deferred: p tells the durable queue, with the timeout of that many tries, or
\* is refused and stops
TellQueue(p, request, tries, q) ==
  \/ /\ q = p
     /\ toQueue' = Append(toQueue, request)
     /\ attempt' = tries
  \/ /\ q = Stopped(p) /\ faults < MaxFaults
     /\ attempt' = 0
     /\ UNCHANGED toQueue

\* a refusal is a fault
RefusalCounted(q) == faults' = IF q.up THEN faults ELSE faults + 1

\* ProducerController::start
Start ==
  /\ pc.up /\ ~pc.producer
  /\ EndWithRequest([pc EXCEPT !.producer = TRUE])
  /\ UNCHANGED <<produced, queueSide, consumerSide, toCc, toPc, faults, restarts>>

\* Msg: the number is taken now, the message is stored before it is sent
Msg ==
  LET message == [n |-> pc.current, v |-> produced + 1, first |-> pc.sendFirst, pc |-> Incarnation]
      p == [pc EXCEPT !.awaitingMsg = FALSE, !.current = @ + 1, !.pending = <<message>>]
      store == [t |-> "store", m |-> Plain(message), to |-> Incarnation]
  IN
  /\ pc.up /\ asked > 0 /\ produced < MaxMessages
  /\ asked' = asked - 1
  /\ produced' = produced + 1
  /\ \E q \in {p, Stopped(p)} :
       TellQueue(p, store, 1, q) /\ RefusalCounted(q) /\ ScheduleResend(q, timers)
  /\ mishaps' = IF pc.pending = <<>> THEN mishaps ELSE mishaps \cup {"displaced"}
  /\ UNCHANGED <<queue, fromQueue, consumerSide, toCc, toPc, restarts>>

\* collect_producer_durable_queue_loaded
Loaded(q) ==
  /\ EndWithRequest([pc EXCEPT
       !.current = q.current, !.confirmed = q.confirmed, !.awaitingLoad = FALSE,
       !.unconfirmed = [i \in DOMAIN q.unconfirmed |->
          [n |-> q.unconfirmed[i].n, v |-> q.unconfirmed[i].v, first |-> FALSE,
           pc |-> Incarnation]]])
  /\ attempt' = IF pc.awaitingLoad THEN 0 ELSE attempt
  /\ mishaps' = IF pc.awaitingLoad THEN mishaps ELSE mishaps \cup {"reloaded"}
  /\ UNCHANGED toCc

\* collect_on_durable_queue_message_stored: the pending message may be sent now
Stored(n) ==
  LET m == pc.pending[1]
      awaited == pc.pending # <<>> /\ m.n = n
  IN
  /\ \/ /\ awaited
        /\ toCc' = IF pc.consumer THEN Append(toCc, m) ELSE toCc
        /\ ScheduleResend([pc EXCEPT !.sendFirst = @ /\ ~m.first,
                                     !.unconfirmed = Append(@, m), !.pending = <<>>], timers)
        /\ attempt' = 0
     \/ /\ ~awaited
        /\ ScheduleResend(pc, timers)
        /\ UNCHANGED <<toCc, attempt>>
  /\ UNCHANGED <<asked, mishaps>>

QueueAnswered ==
  LET answer == Head(fromQueue) IN
  /\ pc.up /\ fromQueue # <<>>
  /\ fromQueue' = Tail(fromQueue)
  /\ \/ answer.t = "loaded" /\ Loaded(answer.q)
     \/ answer.t = "stored" /\ Stored(answer.n)
  /\ UNCHANGED <<produced, queue, toQueue, consumerSide, toPc, faults, restarts>>

\* the store or load request timed out: again, or give up and stop
QueueTimedOut ==
  /\ pc.up /\ attempt # 0
  /\ \/ /\ attempt >= Retries
        /\ pc' = Stopped(pc)
        /\ attempt' = 0
        /\ UNCHANGED <<toQueue, faults>>
     \/ /\ attempt < Retries /\ faults < MaxFaults
        /\ faults' = faults + 1
        /\ TellQueue(pc,
             IF pc.awaitingLoad THEN [t |-> "load", to |-> Incarnation]
             ELSE [t |-> "store", m |-> Plain(pc.pending[1]), to |-> Incarnation],
             attempt + 1, pc')
  /\ UNCHANGED <<timers, asked, produced, queue, fromQueue, mishaps, consumerSide, toCc, toPc,
                 restarts>>

\* RegisterConsumer, Request, Ack and Resend, for the controller p that recorded the
\* confirmation
CarryOut(c, p) ==
  \/ /\ c.t = "register"
     /\ EndWithRequest([p EXCEPT !.consumer = TRUE, !.sendFirst = TRUE, !.requested = FALSE,
                                 !.requestedTo = 0, !.awaitingMsg = FALSE])
     /\ UNCHANGED toCc
  \/ /\ c.t = "request"
     /\ EndWithRequest([p EXCEPT !.requestedTo = c.upTo, !.requested = TRUE])
     /\ UNCHANGED toCc
  \/ /\ c.t = "ack"
     /\ ScheduleResend(p, timers)
     /\ UNCHANGED <<toCc, asked>>
  \/ /\ c.t = "resend"
     /\ toCc' = IF p.consumer THEN toCc \o From(p.unconfirmed, c.from) ELSE toCc
     /\ ScheduleResend(p, timers)
     /\ UNCHANGED asked

\* a command, and what it confirms told to the durable queue
Command ==
  LET c == Head(toPc)
      b == IF c.t \in {"ack", "request"} THEN OnConfirmed(pc, c.confirmed) ELSE pc
  IN
  /\ pc.up /\ toPc # <<>>
  /\ toPc' = Tail(toPc)
  /\ \E p \in {b, Stopped(b)} :
       /\ \/ /\ b.confirmed > pc.confirmed
             /\ TellQueue(b, [t |-> "confirmed", n |-> b.confirmed], attempt, p)
          \/ /\ ~(b.confirmed > pc.confirmed) /\ p = b
             /\ UNCHANGED <<toQueue, attempt>>
       /\ RefusalCounted(p)
       /\ CarryOut(c, p)
  /\ UNCHANGED <<produced, queue, fromQueue, mishaps, consumerSide, restarts>>

\* ResendFirstUnconfirmed: the oldest message goes out again, as the first of a session
ResendFirst(n) ==
  LET p == IF pc.resendFirst = n THEN [pc EXCEPT !.resendFirst = 0] ELSE pc
      due == p.consumer /\ p.unconfirmed # <<>> /\ Head(p.unconfirmed).n = n
  IN
  /\ pc.up /\ n \in timers /\ Len(toCc) + Len(toPc) + held < MaxInFlight
  /\ toCc' = IF due THEN Append(toCc, [Head(p.unconfirmed) EXCEPT !.first = TRUE]) ELSE toCc
  /\ ScheduleResend(p, timers \ {n})
  /\ UNCHANGED <<asked, produced, queueSide, consumerSide, toPc, faults, restarts>>

\* the controller died or gave up, and is spawned again over the same stored queue.  What
\* was on its way to the old one goes to dead letters, and so do the requests left to its
\* durable queue, a child that stops with it; none is lost where the new controller is
\* spawned while the old child still runs
Restart ==
  /\ restarts < MaxRestarts /\ faults < MaxFaults
  /\ faults' = faults + 1
  /\ restarts' = restarts + 1
  /\ timers' = {} /\ asked' = 0
  /\ \E left \in {<<>>, toQueue} :
       \/ /\ pc' = NewPc /\ attempt' = 1
          /\ toQueue' = Append(left, [t |-> "load", to |-> Incarnation + 1])
       \/ /\ pc' = Stopped(NewPc) /\ attempt' = 0
          /\ toQueue' = left
  /\ fromQueue' = <<>> /\ toPc' = <<>>
  /\ UNCHANGED <<produced, queue, mishaps, consumerSide, toCc>>

-----------------------------------------------------------------------------
\* DurableProducerQueueState::confirmed
QueueConfirmed(q, n) ==
  [q EXCEPT !.unconfirmed = From(@, n + 1),
            !.confirmed = IF n > @ THEN n ELSE @]

\* Mutant of QueueStore: the message is acknowledged and not kept.
QueueStoreDropped(q, m) == [q EXCEPT !.current = m.n + 1]

\* DurableProducerQueueState::add_message_sent
QueueStore(q, m) == [q EXCEPT !.current = m.n + 1, !.unconfirmed = Append(@, m)]

\* the durable queue's actor, as its protocol describes it
QueueStep ==
  LET c == Head(toQueue)
      Answer(a) == fromQueue' = IF c.to = Incarnation THEN Append(fromQueue, a) ELSE fromQueue
  IN
  /\ toQueue # <<>>
  /\ toQueue' = Tail(toQueue)
  /\ \/ /\ c.t = "load"
        /\ Answer([t |-> "loaded", q |-> queue])
        /\ UNCHANGED queue
     \/ /\ c.t = "store"
        /\ queue' = QueueStore(queue, c.m)
        /\ Answer([t |-> "stored", n |-> c.m.n])
     \/ /\ c.t = "confirmed"
        /\ queue' = QueueConfirmed(queue, c.n)
        /\ UNCHANGED fromQueue
  /\ UNCHANGED <<producerSide, attempt, mishaps, consumerSide, toCc, toPc, faults, restarts>>

-----------------------------------------------------------------------------
\* collect_send_request, when the caller wants it: the new state and the command
Requesting(c, wanted) ==
  IF wanted /\ c.producer # 0 /\ c.received + Window > c.requested
  THEN [c |-> [c EXCEPT !.requested = c.received + Window],
        out |-> <<[t |-> "request", confirmed |-> c.confirmed, upTo |-> c.received + Window]>>]
  ELSE [c |-> c, out |-> <<>>]

\* should_request_more
ShouldRequest(c) == c.requested <= c.received + (Window \div 2)

Resend(c) == <<[t |-> "resend", from |-> c.received + 1]>>

\* collect_deliver_to_consumer
Deliver(c, m) == [c EXCEPT !.delivered = m.n, !.waiting = TRUE]

\* the consumer is there and has confirmed what it was handed
Ready(c) == c.consumer /\ ~c.waiting

\* Mutant of Stashed: the latest arrival is delivered, whatever its number.
StashedLast(c) == IF Ready(c) THEN Len(c.stash) ELSE 0

\* position in the stash of the message collect_try_deliver_stashed delivers; 0: none
Stashed(c) ==
  IF Ready(c) THEN SelectInSeq(c.stash, LAMBDA m : m.n = c.delivered + 1) ELSE 0

\* collect_try_deliver_stashed
Unstash(c) ==
  IF Stashed(c) = 0 THEN c
  ELSE Deliver([c EXCEPT !.stash = RemoveAt(@, Stashed(c))], c.stash[Stashed(c)])

\* what that hands to the consumer
Unstashed(c) == IF Stashed(c) = 0 THEN {} ELSE {c.stash[Stashed(c)]}

\* Accept the next expected message: deliver it, or keep it until the last is confirmed
Accept(c, m) ==
  IF Ready(c) THEN Deliver([c EXCEPT !.received = m.n], m)
  ELSE [c EXCEPT !.received = m.n, !.stash = Append(@, m)]

\* a handler's end: state c, commands out to the producer controller it knows, what
\* the consumer is handed, and the stop of a controller that has delivered all it had
Handled(c, out, handed) ==
  /\ cc' = [c EXCEPT !.up = ~(c.stopping /\ ~c.waiting /\ c.stash = <<>>)]
  /\ toPc' = IF c.producer = Incarnation THEN toPc \o out ELSE toPc
  /\ given' = given \cup {Plain(m) : m \in handed}
  /\ UNCHANGED <<producerSide, queueSide, restarts>>

\* ConsumerController::start
StartConsumer ==
  LET c == [cc EXCEPT !.consumer = TRUE] IN
  /\ cc.up /\ ~cc.consumer
  /\ held' = held + Cardinality(Unstashed(c))
  /\ Handled(Unstash(c), <<>>, Unstashed(c))
  /\ UNCHANGED <<toCc, faults>>

\* RegisterToProducerController
Register ==
  /\ cc.up /\ pc.up /\ cc.producer # Incarnation
  /\ Handled([cc EXCEPT !.producer = Incarnation], <<[t |-> "register"]>>, {})
  /\ UNCHANGED <<toCc, held, faults>>

\* a message marked first resets the controller
NewSession(c, m) ==
  [c EXCEPT !.producer = m.pc, !.received = m.n - 1, !.delivered = m.n - 1,
            !.confirmed = m.n - 1, !.stash = <<>>, !.waiting = FALSE, !.requested = 0]

\* collect_on_sequenced_message
OnSequenced ==
  LET m == Head(toCc)
      c == IF m.first THEN NewSession(cc, m) ELSE cc
      inWindow == m.first \/ m.n <= c.requested
      next == Requesting(Accept(c, m), ShouldRequest(Accept(c, m)) \/ c.requested = 0)
  IN
  /\ cc.up /\ toCc # <<>>
  /\ toCc' = Tail(toCc) /\ UNCHANGED faults
  /\ \/ /\ (m.n <= c.confirmed) \/ (inWindow /\ m.n <= c.received)
        /\ Handled(c, <<>>, {}) /\ UNCHANGED held
     \/ /\ m.n > c.confirmed /\ inWindow /\ m.n = c.received + 1
        /\ held' = IF Ready(c) THEN held + 1 ELSE held
        /\ Handled(next.c, next.out, IF Ready(c) THEN {m} ELSE {})
     \/ /\ m.n > c.confirmed /\ (~inWindow \/ m.n > c.received + 1)
        /\ Handled([c EXCEPT !.stash = IF ~inWindow \/ \E i \in DOMAIN @ : @[i].n = m.n
                                      THEN @ ELSE Append(@, m)], Resend(c), {})
        /\ UNCHANGED held

\* the consumer confirms its oldest delivery; the controller takes it for the latest
Confirmed ==
  LET c == [cc EXCEPT !.confirmed = cc.delivered, !.waiting = FALSE]
      u == Unstash(c)
      next == Requesting(u, ShouldRequest(u))
  IN
  /\ cc.up /\ held > 0
  /\ held' = held - 1 + Cardinality(Unstashed(c))
  /\ Handled(next.c, <<[t |-> "ack", confirmed |-> c.confirmed]>> \o next.out, Unstashed(c))
  /\ UNCHANGED <<toCc, faults>>

\* DeliverThenStop
DeliverThenStop ==
  /\ cc.up /\ ~cc.stopping /\ faults < MaxFaults
  /\ faults' = faults + 1
  /\ Handled([cc EXCEPT !.stopping = TRUE], <<>>, {})
  /\ UNCHANGED <<toCc, held>>

\* a message is lost on the way to the consumer controller
Lose ==
  /\ faults < MaxFaults /\ toCc # <<>>
  /\ faults' = faults + 1
  /\ toCc' = Tail(toCc)
  /\ UNCHANGED <<producerSide, queueSide, consumerSide, toPc, restarts>>

\* steps a behaviour has finitely many of
Setup == Start \/ StartConsumer \/ Register \/ Msg \/ QueueStep \/ QueueAnswered

ResendTimer == \E n \in timers : ResendFirst(n)

Next ==
  \/ Setup \/ Command \/ OnSequenced \/ Confirmed \/ ResendTimer
  \/ QueueTimedOut \/ Restart \/ DeliverThenStop \/ Lose

Spec == Init /\ [][Next]_vars

\* every actor is scheduled while it has something to do, and the resend timer goes off
FairSpec ==
  /\ Spec
  /\ WF_vars(Setup) /\ WF_vars(Command) /\ WF_vars(OnSequenced) /\ WF_vars(Confirmed)
  /\ WF_vars(ResendTimer)

-----------------------------------------------------------------------------
Stores == [n : 1..produced, v : 1..produced]
Messages == [n : 1..produced, v : 1..produced, first : BOOLEAN, pc : 1..Incarnation]
Queues == [current : 1..(produced + 1), confirmed : Nat, unconfirmed : Seq(Stores)]
Commands ==
  [t : {"register"}] \cup [t : {"request"}, confirmed : Nat, upTo : Nat]
    \cup [t : {"ack"}, confirmed : Nat] \cup [t : {"resend"}, from : Nat \ {0}]
QueueCommands ==
  [t : {"load"}, to : 1..Incarnation] \cup [t : {"store"}, m : Stores, to : 1..Incarnation]
    \cup [t : {"confirmed"}, n : Nat]
Answers == [t : {"loaded"}, q : Queues] \cup [t : {"stored"}, n : 1..produced]

ProducerStates ==
  [up : BOOLEAN, current : 1..(produced + 1), confirmed : Nat, requestedTo : Nat,
   requested : BOOLEAN, awaitingMsg : BOOLEAN, awaitingLoad : BOOLEAN, sendFirst : BOOLEAN,
   unconfirmed : Seq(Messages), pending : Seq(Messages), producer : BOOLEAN,
   consumer : BOOLEAN, resendFirst : 0..produced]
ConsumerStates ==
  [up : BOOLEAN, received : Nat, delivered : Nat, confirmed : Nat, requested : Nat,
   consumer : BOOLEAN, producer : 0..Incarnation, waiting : BOOLEAN, stash : Seq(Messages),
   stopping : BOOLEAN]

(* the type of every variable; no number is given out that has no message  *)
TypeOK ==
  /\ pc \in ProducerStates /\ cc \in ConsumerStates
  /\ queue \in Queues /\ toCc \in Seq(Messages) /\ toPc \in Seq(Commands)
  /\ toQueue \in Seq(QueueCommands) /\ fromQueue \in Seq(Answers)
  /\ timers \subseteq 1..produced /\ attempt \in 0..Retries
  /\ asked \in Nat /\ produced \in 0..MaxMessages /\ held \in Nat
  /\ given \subseteq Stores /\ mishaps \subseteq {"reloaded", "displaced"}
  /\ faults \in 0..MaxFaults /\ restarts \in 0..MaxRestarts

\* messages that have left the producer controller
Out == {Plain(m) : m \in ToSet(toCc \o cc.stash)} \cup given

\* every message that is out and not confirmed is in the durable queue
Kept ==
  \A m \in Out : m.n > queue.confirmed => m \in ToSet(queue.unconfirmed)

(* Crash safety of store-before-send: whatever has left the producer         *)
(* controller is in the durable queue until the queue holds its              *)
(* confirmation, so a controller that dies at any point, between a store and *)
(* its answer, or between an ack and its record, finds it again.  Excepted   *)
(* is a controller that a late second answer to LoadState set back to an     *)
(* earlier state, so that it gave a number out again.                        *)
Recoverable == "reloaded" \notin mishaps => Kept

\* what the controller or its queue counts as confirmed was handed to the consumer
Honest ==
  \A n \in 1..MaxMessages :
     (n <= pc.confirmed \/ n <= queue.confirmed) => \E m \in given : m.n = n

(* What the producer controller or its durable queue counts as confirmed, and *)
(* so forgets, was handed to the consumer: no ack or request, late, repeated  *)
(* or answering an earlier delivery of a message, covers a message that was   *)
(* never delivered.  Excepted are controllers that were spawned again, and    *)
(* those whose pending message was overwritten: see NothingForgotten.         *)
ConfirmedWasGiven == restarts = 0 /\ "displaced" \notin mishaps => Honest

(* "Send LoadState on startup to recover unconfirmed messages"                *)
(* (producer_controller.rs): no message is dropped from the durable queue as  *)
(* confirmed before it was delivered, restarts included.                      *)
NothingForgotten == Honest

(* The consumer sees a number for the first time only after the one before    *)
(* it, whatever was lost, stashed and sent again, in a session in which no    *)
(* pending message was overwritten.                                           *)
InOrder ==
  [][restarts = 0 /\ "displaced" \notin mishaps =>
       \A m \in given' \ given : m.n = 1 \/ \E k \in given : k.n \in {m.n, m.n - 1}]_vars

Disturbed == mishaps # {} \/ ~pc.up \/ restarts > 0 \/ cc.stopping

\* the consumer was handed the payload
Reached(v) == \E m \in given : m.v = v

(* While the controllers live and no mishap happens, every message the       *)
(* producer hands over reaches the consumer, although messages to the        *)
(* consumer controller are lost and the durable queue answers late, and the  *)
(* producer is asked for all it has, or else the controller keeps demand     *)
(* from it for ever: collect_on_msg does not pass on what is left of a       *)
(* Request, and no other Request has to come.                                *)
AllGiven ==
  <>[](\/ Disturbed
       \/ /\ \A v \in 1..produced : Reached(v)
          /\ produced = MaxMessages \/ WantsNext(pc))

(* The consumer gets every message the producer has.  Not so when the window *)
(* is larger than 2: a Request is for several messages, and the producer is  *)
(* asked for one.                                                            *)
AlwaysGiven == <>(Disturbed \/ \A v \in 1..MaxMessages : Reached(v))
=============================================================================
