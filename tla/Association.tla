---------------------------- MODULE Association ----------------------------
(***************************************************************************)
(* Two remoting nodes, each with its association to the other              *)
(* (association/base.rs, association/send_queue.rs) and the event loop     *)
(* that drives it (extension/remote.rs): the handshake and its timer, the  *)
(* deferred buffer, the send queue, and the numbering, acknowledgement and *)
(* redelivery of system envelopes over a connection that loses, delays and *)
(* reorders frames (across lanes) and pushes back when a lane is full.     *)
(*                                                                         *)
(* An event of the loop is handled under the lock of the whole Remote, so  *)
(* every handler is one action.  An error that a handler returns ends the  *)
(* event loop of its node for good (running).                              *)
(*                                                                         *)
(* A node without an association answers every frame as one with an Idle   *)
(* association does, hence both are "Idle".                                *)
(***************************************************************************)
EXTENDS Integers, Sequences, FiniteSets, SequencesExt, Subsequence

CONSTANTS
  Nodes,          \* the two ends
  Script,         \* what each node sends, in order: TRUE for a system envelope
  SendWindow,     \* config ack_send_window
  ReceiveWindow,  \* config ack_receive_window, at most the 64 bits of a NACK bitmap
  ControlQueue,   \* config outbound_control_queue_size
  MessageQueue,   \* config outbound_message_queue_size
  Lane,           \* writer lane of each envelope, by its place in the script
  LaneCapacity,   \* frames between a writer lane and the peer's event loop
  Watching,       \* the nodes whose watcher keeps an actor of the peer watched
  MaxFaults       \* lost frames and connections, failed sends and deliveries,
                  \* control frames

ASSUME NodesAssumption == \E m, n \in Nodes : m # n /\ Nodes = {m, n}
ASSUME BoundsAssumption ==
  /\ Script \in [Nodes -> Seq(BOOLEAN)]
  /\ \A n \in Nodes : Lane[n] \in Seq(Nat) /\ Len(Lane[n]) = Len(Script[n])
  /\ {SendWindow, ReceiveWindow, ControlQueue, MessageQueue, LaneCapacity}
       \subseteq Nat \ {0}
  /\ Watching \subseteq Nodes
  /\ MaxFaults \in Nat

VARIABLES
  assoc,      \* the Association of each node
  timers,     \* generations of the handshake timers still to fire, per node
  wire,       \* frames sent on each lane of each node and not yet read
  delivered,  \* envelopes handed to the actor system of each node, in order
  discarded,  \* ids of the envelopes each node took and then dropped (history)
  sends,      \* envelopes each node has been asked to send
  running,    \* nodes whose event loop has not ended
  faults      \* faults so far

vars == <<assoc, timers, wire, delivered, discarded, sends, running, faults>>

Peer(n) == CHOOSE p \in Nodes : p # n

Lanes == {0} \cup UNION {Range(Lane[n]) : n \in Nodes}

\* OutboundEnvelope: seq is the redelivery sequence, 0 for none.
Envelopes == [id : Nat, sys : BOOLEAN, lane : Lanes, seq : Nat]

Envelope(n, k) == [id |-> k, sys |-> Script[n][k], lane |-> Lane[n][k], seq |-> 0]

\* Two of the fields are histories: numbered has the ids in the order in which
\* they were given a number, reset tells that the redelivery state was reset.
NewAssociation ==
  [state |-> "Idle", system |-> <<>>, user |-> <<>>, deferred |-> <<>>,
   pending |-> <<>>, next |-> 1, cumulative |-> 0, highest |-> 0,
   generation |-> 0, numbered |-> <<>>, reset |-> FALSE]

-----------------------------------------------------------------------------
(* The methods of Association, as functions of its record.                 *)

ResetRedelivery(a) ==
  [a EXCEPT !.next = 1, !.pending = <<>>, !.cumulative = 0, !.highest = 0,
            !.reset = TRUE]

Quarantine(a) ==
  IF a.state = "Quarantined" THEN a
  ELSE [ResetRedelivery(a) EXCEPT !.state = "Quarantined", !.deferred = <<>>,
                                  !.system = <<>>, !.user = <<>>]

Gate(a) == IF a.state = "Active" THEN [a EXCEPT !.state = "Gated"] ELSE a

\* Mutant: the deferred envelopes are discarded, the state is kept.
HandshakeTimedOutWaiting(a) ==
  IF a.state = "Handshaking" THEN [ResetRedelivery(a) EXCEPT !.deferred = <<>>] ELSE a

HandshakeTimedOut(a) ==
  IF a.state = "Handshaking"
  THEN [ResetRedelivery(a) EXCEPT !.state = "Gated", !.deferred = <<>>]
  ELSE a

\* associate from Idle, recover(Some(endpoint)) from Gated and Quarantined.
StartsHandshake(a) ==
  [a EXCEPT !.state = "Handshaking", !.generation = @ + 1]

OfKind(q, sys) == Only(q, {e \in Envelopes : e.sys = sys})

EnqueueDeferred(a, e) ==
  IF Len(OfKind(a.deferred, e.sys)) < (IF e.sys THEN ControlQueue ELSE MessageQueue)
  THEN [a EXCEPT !.deferred = Append(@, e)]
  ELSE a

IsPending(a, seq) == \E i \in DOMAIN a.pending : a.pending[i].seq = seq

\* enqueue_active: overflow of the control queue or of the redelivery window
\* quarantines the peer; a full user queue discards the envelope.
EnqueueActive(a, e) ==
  LET overflow == \/ Len(a.system) >= ControlQueue
                  \/ e.seq = 0 /\ Len(a.pending) >= SendWindow
      fresh == e.seq = 0
      env == IF fresh THEN [e EXCEPT !.seq = a.next] ELSE e
  IN CASE e.sys /\ overflow -> Quarantine(a)
       [] e.sys /\ ~overflow ->
            [a EXCEPT !.system = Append(@, env),
                      !.next = IF fresh THEN @ + 1 ELSE @,
                      !.numbered = IF fresh THEN Append(@, e.id) ELSE @,
                      !.pending = IF IsPending(a, env.seq) THEN @
                                  ELSE Append(@, [seq |-> env.seq, env |-> env,
                                                  sent |-> FALSE])]
       [] OTHER -> IF Len(a.user) < MessageQueue
                   THEN [a EXCEPT !.user = Append(@, e)] ELSE a

Enqueue(a, e) ==
  CASE a.state = "Active" -> EnqueueActive(a, e)
    [] a.state \in {"Handshaking", "Gated", "Idle"} -> EnqueueDeferred(a, e)
    [] a.state = "Quarantined" -> a

EnqueueAll(a, es) ==
  LET after[i \in 0 .. Len(es)] == IF i = 0 THEN a ELSE Enqueue(after[i - 1], es[i])
  IN  after[Len(es)]

\* handshake_accepted, and the SendEnvelopes effect it returns.
HandshakeAccepted(a) ==
  IF a.state = "Handshaking"
  THEN EnqueueAll([a EXCEPT !.state = "Active", !.deferred = <<>>], a.deferred)
  ELSE a

MarkSent(a, seqs) ==
  [a EXCEPT !.pending = [i \in DOMAIN @ |->
     IF @[i].seq \in seqs THEN [@[i] EXCEPT !.sent = TRUE] ELSE @[i]]]

Seqs(es) == {es[i].seq : i \in DOMAIN es}

\* Mutant: every number above the cumulative one is new.
AcceptsNewer(a, seq) == seq > a.cumulative

\* InboundSystemSequenceTracker::mark_received.
Accepts(a, seq) == seq = a.cumulative + 1

Observe(a, seq) ==
  [a EXCEPT !.cumulative = IF Accepts(a, seq) THEN seq ELSE @,
            !.highest = IF seq > @ THEN seq ELSE @]

\* Mutant: acknowledges the highest number seen.
AckPduHighest(a) == [t |-> "Ack", cumulative |-> a.highest, nack |-> a.highest]

\* The AckPdu: every number in cumulative+1 .. nack is asked for again.
AckPdu(a) ==
  [t |-> "Ack", cumulative |-> a.cumulative,
   nack |-> IF a.highest > a.cumulative + ReceiveWindow
            THEN a.cumulative + ReceiveWindow ELSE a.highest]

\* Mutant: drops what the peer asks for again.
RetainedAbove(a, pdu) ==
  [a EXCEPT !.pending = Only(@, {p \in Range(@) : p.seq > pdu.nack})]

Retained(a, pdu) ==
  [a EXCEPT !.pending = Only(@, {p \in Range(@) : p.seq > pdu.cumulative})]

PendingIn(a, seqs) ==
  LET due == Only(a.pending, {p \in Range(a.pending) : p.seq \in seqs})
  IN [i \in DOMAIN due |-> due[i].env]
-----------------------------------------------------------------------------
(* The transport (external): writer lanes with room for LaneCapacity       *)
(* frames; try_send on a full lane is Backpressure.  Handshakes and ACKs   *)
(* go out on lane 0, an envelope on the lane its recipient hashes to.      *)

HasRoom(w, l) == Len(w[l]) < LaneCapacity

\* send_ack and send_handshake: Backpressure drops the frame.  Any other error
\* ends the event loop: the actions that send have a disjunct for it.
SendOrDrop(w, f) == IF HasRoom(w, 0) THEN [w EXCEPT ![0] = Append(@, f)] ELSE w

OnLane(es, l) == Only(es, {e \in Range(es) : e.lane = l})

Fits(w, es) == \A l \in Lanes : Len(w[l]) + Len(OnLane(es, l)) <= LaneCapacity

Frame(e) == [t |-> "Envelope", env |-> e]

SendAll(w, es) ==
  [l \in Lanes |-> LET mine == OnLane(es, l)
                  IN w[l] \o [i \in DOMAIN mine |-> Frame(mine[i])]]

\* drain_outbound: system envelopes first, until the queue is empty, a lane
\* pushes back or the transport fails an envelope (the failed-th one, 0 for none).
\* The envelope is discarded (SendFailed) or goes through enqueue again.
Outbound(a) == a.system \o a.user

Sendable(a, w) ==
  Cardinality({k \in 1 .. Len(Outbound(a)) : Fits(w, SubSeq(Outbound(a), 1, k))})

Drain(a, w, failed, discards) ==
  LET q == Outbound(a)
      sent == IF failed > 0 THEN failed - 1 ELSE Sendable(a, w)
      taken == IF sent < Len(q) THEN sent + 1 ELSE sent
      rest == SubSeq(q, taken + 1, Len(q))
      left == MarkSent([a EXCEPT !.system = OfKind(rest, TRUE),
                                 !.user = OfKind(rest, FALSE)],
                       Seqs(SubSeq(q, 1, taken)))
  IN [assoc |-> IF taken > sent /\ ~discards THEN Enqueue(left, q[taken]) ELSE left,
      wire  |-> SendAll(w, SubSeq(q, 1, sent))]

\* The ResendEnvelopes effect: a resend that its lane refuses, or that the
\* transport returns (those of back), is queued; a failed one (those of failed)
\* is left to the window.
Resend(a, w, es, failed, back) ==
  LET after[i \in 0 .. Len(es)] ==
        IF i = 0 THEN [assoc |-> MarkSent(a, Seqs(es)), wire |-> w]
        ELSE IF i \in failed THEN after[i - 1]
        ELSE IF i \notin back /\ HasRoom(after[i - 1].wire, es[i].lane)
        THEN [after[i - 1] EXCEPT !.wire[es[i].lane] = Append(@, Frame(es[i]))]
        ELSE [after[i - 1] EXCEPT !.assoc = Enqueue(@, es[i])]
  IN  after[Len(es)]
-----------------------------------------------------------------------------
Init ==
  /\ assoc = [n \in Nodes |-> NewAssociation]
  /\ timers = [n \in Nodes |-> {}]
  /\ wire = [n \in Nodes |-> [l \in Lanes |-> <<>>]]
  /\ delivered = [n \in Nodes |-> <<>>]
  /\ discarded = [n \in Nodes |-> {}]
  /\ sends = [n \in Nodes |-> 0]
  /\ running = Nodes
  /\ faults = 0

\* Replaces the association of n.
Becomes(n, a) == assoc' = [assoc EXCEPT ![n] = a]

Fault == faults < MaxFaults /\ faults' = faults + 1
NoFault == UNCHANGED faults

\* run_remote_event_loop returns the error of a handler.
LoopEnds(n) == running' = running \ {n}
LoopGoesOn == UNCHANGED running

\* drain_outbound after the connections hold w, with or without a failure.
DrainInto(n, a, w) ==
  \E failed \in 0 .. Sendable(a, w[n]) : \E discards \in BOOLEAN :
    LET d == Drain(a, w[n], failed, discards)
    IN /\ IF failed = 0 THEN ~discards /\ NoFault ELSE Fault
       /\ Becomes(n, d.assoc)
       /\ wire' = [w EXCEPT ![n] = d.wire]

\* The StartHandshake effect connects, sends a request and schedules a timer...
Requested(w) == SendOrDrop(w, [t |-> "Req"])

TimerScheduled(n, a) == timers' = [timers EXCEPT ![n] = @ \cup {a.generation}]

\* ...and the error of one of the three ends the event loop without a timer.
StartHandshakeFails(n, a, w) ==
  /\ Becomes(n, a)
  /\ wire' \in {[wire EXCEPT ![n] = w], [wire EXCEPT ![n] = Requested(w)]}
  /\ LoopEnds(n)
  /\ UNCHANGED timers

\* handle_outbound_enqueued.
OutboundEnqueued(n) ==
  LET queued == Enqueue(assoc[n], Envelope(n, sends[n] + 1))
      starts == assoc[n].state \in {"Idle", "Gated"}
      started == StartsHandshake(queued)
  IN /\ n \in running /\ sends[n] < Len(Script[n])
     /\ sends' = [sends EXCEPT ![n] = @ + 1]
     /\ \/ /\ ~starts
           /\ DrainInto(n, queued, wire)
           /\ LoopGoesOn /\ UNCHANGED timers
        \/ /\ starts
           /\ DrainInto(n, started, [wire EXCEPT ![n] = Requested(@)])
           /\ LoopGoesOn /\ TimerScheduled(n, started)
        \/ /\ starts
           /\ Fault
           /\ StartHandshakeFails(n, started, wire[n])
     /\ UNCHANGED <<delivered, discarded>>

\* handle_outbound_control and handle_outbound_deployment: only their errors
\* matter here.
OutboundControlFails(n) ==
  /\ n \in running
  /\ Fault
  /\ LoopEnds(n)
  /\ UNCHANGED <<assoc, timers, wire, delivered, discarded, sends>>

\* The connections once n has read the next frame of a lane.
Taken(n, l) == [wire EXCEPT ![Peer(n)][l] = Tail(@)]

Discards(n, e) == discarded' = [discarded EXCEPT ![n] = @ \cup {e.id}]

\* The end of handle_inbound_envelope_pdu: the payload does not deserialize, the
\* buffer is full (both drop the envelope), or the actor system is given it.
HandOver(n, e) ==
  \/ /\ delivered' = [delivered EXCEPT ![n] = Append(@, e)]
     /\ NoFault /\ UNCHANGED discarded
  \/ /\ Fault
     /\ Discards(n, e)
     /\ UNCHANGED delivered

\* handle_inbound_envelope_pdu: dropped without an ACK unless Active, an error
\* for a path or a number that does not decode, otherwise observed and
\* acknowledged before it is looked at any further.
InboundEnvelope(n, l, f) ==
  LET a == assoc[n]  e == f.env  seen == Observe(a, e.seq)
  IN /\ f.t = "Envelope"
     /\ \/ /\ a.state # "Active"
           /\ wire' = Taken(n, l)
           /\ NoFault /\ LoopGoesOn /\ UNCHANGED <<assoc, delivered, discarded>>
        \/ /\ a.state = "Active"
           /\ wire' = Taken(n, l)
           /\ Fault /\ LoopEnds(n) /\ UNCHANGED <<assoc, delivered, discarded>>
        \/ /\ a.state = "Active" /\ e.sys
           /\ Becomes(n, seen)
           /\ wire' = [Taken(n, l) EXCEPT ![n] = SendOrDrop(@, AckPdu(seen))]
           /\ \/ Accepts(a, e.seq) /\ HandOver(n, e)
              \/ ~Accepts(a, e.seq) /\ NoFault /\ UNCHANGED <<delivered, discarded>>
           /\ LoopGoesOn
        \/ /\ a.state = "Active" /\ e.sys
           /\ Becomes(n, seen)
           /\ wire' = Taken(n, l)
           /\ \/ Accepts(a, e.seq) /\ Discards(n, e)
              \/ ~Accepts(a, e.seq) /\ UNCHANGED discarded
           /\ Fault /\ LoopEnds(n) /\ UNCHANGED delivered
        \/ /\ a.state = "Active" /\ ~e.sys
           /\ wire' = Taken(n, l)
           /\ HandOver(n, e)
           /\ LoopGoesOn /\ UNCHANGED assoc
     /\ UNCHANGED <<timers, sends>>

\* Resends es after the connections hold w, with or without failures.
ResendInto(n, a, w, es) ==
  \E failed \in SUBSET DOMAIN es : \E back \in SUBSET DOMAIN es :
    LET r == Resend(a, w[n], es, failed, back)
    IN /\ IF failed \cup back = {} THEN NoFault ELSE Fault
       /\ Becomes(n, r.assoc)
       /\ wire' = [w EXCEPT ![n] = r.wire]

\* handle_inbound_ack_pdu, in every state.
InboundAck(n, l, f) ==
  LET kept == Retained(assoc[n], f)
  IN /\ f.t = "Ack"
     /\ ResendInto(n, kept, Taken(n, l), PendingIn(kept, (f.cumulative + 1) .. f.nack))
     /\ UNCHANGED <<timers, delivered, discarded, sends, running>>

\* handle_inbound_handshake_request: the answer is sent before the request is
\* accepted; when it meets Backpressure or a closed connection, or there is no
\* handshake or connection to answer for, nothing happens.
InboundHandshakeRequest(n, l, f) ==
  LET answers == assoc[n].state \in {"Handshaking", "Active"} /\ HasRoom(wire[n], 0)
  IN /\ f.t = "Req"
     /\ UNCHANGED <<timers, delivered, discarded, sends>>
     /\ \/ /\ answers
           /\ DrainInto(n, HandshakeAccepted(assoc[n]),
                [Taken(n, l) EXCEPT ![n] = SendOrDrop(@, [t |-> "Rsp"])])
           /\ LoopGoesOn
        \/ /\ answers
           /\ wire' = Taken(n, l)
           /\ Fault
           /\ LoopGoesOn \/ LoopEnds(n)
           /\ UNCHANGED assoc
        \/ /\ ~answers
           /\ wire' = Taken(n, l)
           /\ NoFault /\ LoopGoesOn /\ UNCHANGED assoc

\* handle_inbound_handshake_response.
InboundHandshakeResponse(n, l, f) ==
  /\ f.t = "Rsp"
  /\ UNCHANGED <<timers, delivered, discarded, sends, running>>
  /\ \/ /\ assoc[n].state \in {"Handshaking", "Active"}
        /\ DrainInto(n, HandshakeAccepted(assoc[n]), Taken(n, l))
     \/ /\ assoc[n].state \notin {"Handshaking", "Active"}
        /\ wire' = Taken(n, l)
        /\ UNCHANGED <<assoc, faults>>

\* handle_handshake_timer_fired: only the timer of the current generation counts.
HandshakeTimerFired(n) ==
  \E g \in timers[n] :
    LET current == assoc[n].generation = g
    IN /\ n \in running
       /\ timers' = [timers EXCEPT ![n] = @ \ {g}]
       /\ Becomes(n, IF current THEN HandshakeTimedOut(assoc[n]) ELSE assoc[n])
       /\ UNCHANGED <<wire, delivered, discarded, sends, running, faults>>

\* handle_redelivery_timer_fired; due is what resend_due finds old enough.
RedeliveryTimerFired(n, due) ==
  /\ n \in running /\ assoc[n].state = "Active"
  /\ due # {}
  /\ ResendInto(n, assoc[n], wire, PendingIn(assoc[n], due))
  /\ UNCHANGED <<timers, delivered, discarded, sends, running>>

\* handle_connection_lost: gate, then recover(Some); the frames under way are
\* lost or were read before.
ConnectionLost(n) ==
  LET gated == Gate(assoc[n])
      recovers == gated.state \in {"Gated", "Quarantined"}
      started == StartsHandshake(gated)
  IN /\ n \in running /\ Fault
     /\ \E w \in {wire[n], [l \in Lanes |-> <<>>]} :
          \/ /\ ~recovers
             /\ Becomes(n, gated)
             /\ wire' = [wire EXCEPT ![n] = w]
             /\ LoopGoesOn /\ UNCHANGED timers
          \/ /\ recovers
             /\ Becomes(n, started)
             /\ wire' = [wire EXCEPT ![n] = Requested(w)]
             /\ LoopGoesOn /\ TimerScheduled(n, started)
          \/ recovers /\ StartHandshakeFails(n, started, w)
     /\ UNCHANGED <<delivered, discarded, sends>>

\* handle_inbound_shutdown_control: gate and recover(None).
InboundShutdown(n) ==
  /\ n \in running /\ Fault
  /\ LET gated == Gate(assoc[n])
     IN Becomes(n, IF gated.state = "Gated" THEN [gated EXCEPT !.state = "Idle"] ELSE gated)
  /\ UNCHANGED <<timers, wire, delivered, discarded, sends, running>>

\* Remote::quarantine and handle_inbound_quarantine_control.
QuarantinePeer(n) ==
  /\ n \in running /\ Fault
  /\ Becomes(n, Quarantine(assoc[n]))
  /\ UNCHANGED <<timers, wire, delivered, discarded, sends, running>>

Lose(n) ==
  /\ Fault
  /\ \E l \in Lanes : \E i \in DOMAIN wire[n][l] :
       wire' = [wire EXCEPT ![n][l] = RemoveAt(@, i)]
  /\ UNCHANGED <<assoc, timers, delivered, discarded, sends, running>>

\* InboundFrameReceived: the reader of a lane hands over its next frame.
InboundFrameReceived(n, l) ==
  /\ n \in running /\ wire[Peer(n)][l] # <<>>
  /\ LET f == Head(wire[Peer(n)][l])
     IN \/ InboundEnvelope(n, l, f) \/ InboundAck(n, l, f)
        \/ InboundHandshakeRequest(n, l, f) \/ InboundHandshakeResponse(n, l, f)

Sent(a) == {p.seq : p \in {q \in Range(a.pending) : q.sent}}

RedeliveryTick(n) == \E due \in SUBSET Sent(assoc[n]) : RedeliveryTimerFired(n, due)

Next ==
  \E n \in Nodes :
    \/ OutboundEnqueued(n) \/ OutboundControlFails(n)
    \/ \E l \in Lanes : InboundFrameReceived(n, l)
    \/ HandshakeTimerFired(n) \/ RedeliveryTick(n)
    \/ ConnectionLost(n) \/ InboundShutdown(n) \/ QuarantinePeer(n) \/ Lose(n)

Spec == Init /\ [][Next]_vars

\* While the event loop of a node runs, the reader of a lane hands over every
\* frame that is not lost and a handshake timer that was scheduled fires.  The
\* redelivery tick comes with the heartbeats of the watcher, hence only to the
\* nodes that watch an actor of the peer: there it comes round again when all
\* that waits for its ACK is old enough.  Weak fairness of the three, written
\* with what enables them.
Fairness ==
  \A n \in Nodes :
    LET ended == n \notin running
    IN /\ \A l \in Lanes : \/ []<>(ended \/ wire[Peer(n)][l] = <<>>)
                          \/ []<><<InboundFrameReceived(n, l)>>_vars
       /\ []<>(ended \/ timers[n] = {}) \/ []<><<HandshakeTimerFired(n)>>_vars
       /\ n \in Watching =>
            \/ []<>(ended \/ assoc[n].state # "Active" \/ Sent(assoc[n]) = {})
            \/ []<><<RedeliveryTimerFired(n, Sent(assoc[n]))>>_vars

FairSpec == Spec /\ Fairness
-----------------------------------------------------------------------------
Ids(q) == [i \in DOMAIN q |-> q[i].id]
System(n) == Ids(OfKind(delivered[n], TRUE))

Entries == [seq : Nat, env : Envelopes, sent : BOOLEAN]

Associations ==
  [state : {"Idle", "Handshaking", "Active", "Gated", "Quarantined"},
   system : Seq(Envelopes), user : Seq(Envelopes), deferred : Seq(Envelopes),
   pending : Seq(Entries), next : Nat, cumulative : Nat, highest : Nat,
   generation : Nat, numbered : Seq(Nat), reset : BOOLEAN]

Frames ==
  [t : {"Envelope"}, env : Envelopes] \cup [t : {"Ack"}, cumulative : Nat, nack : Nat]
    \cup [t : {"Req", "Rsp"}]

\* Type correctness.
TypeOK ==
  /\ assoc \in [Nodes -> Associations]
  /\ timers \in [Nodes -> SUBSET Nat]
  /\ wire \in [Nodes -> [Lanes -> Seq(Frames)]]
  /\ delivered \in [Nodes -> Seq(Envelopes)]
  /\ discarded \in [Nodes -> SUBSET Nat]
  /\ sends \in [Nodes -> Nat]
  /\ running \subseteq Nodes
  /\ faults \in Nat

\* Neither side has reset its redelivery state.
Unreset == \A n \in Nodes : ~assoc[n].reset

Increasing(q) == \A i, j \in DOMAIN q : i < j => q[i] < q[j]

\* n has taken the envelope with this id: it has handed it to its actor system,
\* or dropped it after the tracker had advanced.
Handled(n, id) == id \in Range(System(n)) \cup discarded[n]

\* System envelopes reach the actor system of the peer in the order in which
\* they were sent, each once, whatever is lost, delayed, reordered or sent again
\* (mark_received), and no envelope reaches it before the ones numbered before it
\* did, or were dropped by the peer itself after it had taken them, as long as
\* neither side has reset its redelivery state.
InOrderOnce ==
  Unreset => \A n \in Nodes :
    LET numbered == assoc[Peer(n)].numbered
    IN /\ Increasing(System(n))
       /\ \A i, k \in DOMAIN numbered :
            i < k /\ numbered[k] \in Range(System(n)) => Handled(n, numbered[i])

\* An envelope that has left the redelivery window has been handled by the peer
\* (apply_ack), under the same condition: it was handed to the actor system, or
\* dropped after its number was taken, and never because it was not received.
AckedWasHandled ==
  Unreset => \A n \in Nodes : \A id \in Range(assoc[n].numbered) :
    \/ \E p \in Range(assoc[n].pending) : p.env.id = id
    \/ Handled(Peer(n), id)

\* Every handshake ends, in Active, Gated or Quarantined, or with the event loop.
HandshakeEnds ==
  \A n \in Nodes : assoc[n].state = "Handshaking"
    ~> assoc[n].state # "Handshaking" \/ n \notin running

\* A system envelope that n has given to the transport once is handled by the
\* peer, unless a side resets its redelivery state, is told that the other shuts
\* down or loses its event loop.
Redelivers(n) ==
  \A k \in DOMAIN Script[n] :
    (\E p \in Range(assoc[n].pending) : p.env.id = k /\ p.sent)
      ~> \/ Handled(Peer(n), k)
         \/ ~Unreset
         \/ \E m \in Nodes : assoc[m].state = "Idle" \/ m \notin running

\* Redelivery gets the system envelopes of a node that watches an actor of the
\* peer through: its heartbeats bring the redelivery tick.
SentIsHandled == \A n \in Watching : Redelivers(n)

\* The same of every node, which fails where nothing is watched (a notification
\* of a death to a watcher, an Unwatch of the last actor).
EverySentIsHandled == \A n \in Nodes : Redelivers(n)

\* A system envelope is handed to the actor system once, resets or not.
DeliveredOnce == \A n \in Nodes : IsInjective(System(n))
=============================================================================
