------------------------- MODULE PersistenceContext -------------------------
(***************************************************************************)
(* The context of a persistent actor (persistence_context.rs), together    *)
(* with the parts of the adapter that call it (persistent_actor.rs): the   *)
(* recovery state, the batch, the handlers that wait for the journal, and  *)
(* the answers of the stores.                                              *)
(***************************************************************************)
EXTENDS Integers, Sequences, SequencesExt, Subsequence

VARIABLE actor  \* PersistenceContext, recovery timer and state of the current instance

\* What a command handler may call.
HandlerCalls ==
  {"persist", "persist_unfenced", "defer", "defer_async", "flush_batch", "save_snapshot",
   "delete_messages", "fail"}

\* The fields f of the records of r.
Column(r, f) == [i \in DOMAIN r |-> r[i][f]]
NoTick == [waitingSnapshot |-> FALSE, epoch |-> 0]
Persisted(entries) == SelectSeq(entries, LAMBDA e : ~e.deferred)

(* A fresh instance after pre_start: bound, recovery started, timer set.   *)
(* calls and ran number and record handler calls across instances.         *)
(* refusing: the stores' mailboxes refuse what the step under way sends.   *)
NewActor(i, calls, ran) ==
  [instance |-> i, state |-> "RecoveryStarted", pending |-> <<>>, until |-> FALSE,
   batch |-> <<>>, current |-> 0, last |-> 0, applied |-> <<>>, saved |-> 0,
   epoch |-> 1, timer |-> [waitingSnapshot |-> TRUE, epoch |-> 1],
   calls |-> calls, ran |-> ran, sends |-> <<>>, failed |-> FALSE, refusing |-> FALSE]

-----------------------------------------------------------------------------
(* PersistenceContext.  Each operator takes the actor a before and returns *)
(* it after; a.sends collects requests, a.failed an error that is returned.*)

RecoveryRunning(a) == a.state \in {"RecoveryStarted", "Recovering"}

ShouldStash(a) ==
  LET Waits(deferred) == \E i \in DOMAIN a.pending :
                           a.pending[i].fence /\ a.pending[i].deferred = deferred
  IN  (a.state = "PersistingEvents" /\ (Waits(FALSE) \/ a.until)) \/ Waits(TRUE)

HasInFlight(a) == a.state = "PersistingEvents" \/ a.batch # <<>> \/ a.pending # <<>>

AddToEventBatch(a, fence) ==
  [a EXCEPT !.current = @ + 1, !.calls = @ + 1,
            !.batch = Append(@, [id |-> a.calls + 1, nr |-> a.current + 1,
                                 fence |-> fence, deferred |-> FALSE])]

\* Mutant: a deferred handler never waits for the events of its own batch.
AddDeferredHandlerAhead(a, fence) ==
  [a EXCEPT !.calls = @ + 1,
            !.pending = Append(@, [id |-> a.calls + 1, nr |-> a.current, fence |-> fence,
                                   deferred |-> TRUE])]

AddDeferredHandler(a, fence) ==
  LET call == [id |-> a.calls + 1, nr |-> a.current, fence |-> fence, deferred |-> TRUE]
  IN  IF a.batch = <<>> THEN [a EXCEPT !.calls = @ + 1, !.pending = Append(@, call)]
                        ELSE [a EXCEPT !.calls = @ + 1, !.batch = Append(@, call)]

Defer(a, fence) ==
  IF HasInFlight(a) THEN AddDeferredHandler(a, fence)
                    ELSE [a EXCEPT !.calls = @ + 1, !.ran = Append(@, a.calls + 1)]

\* send_write_messages, send_snapshot_message: sent, or the error is returned
Send(a, op) ==
  IF a.refusing THEN [a EXCEPT !.failed = TRUE] ELSE [a EXCEPT !.sends = Append(@, op)]

(* A refused write rolls the state back and drops every waiting handler;   *)
(* current_sequence_nr keeps the numbers it gave out.                      *)
FlushBatch(a) ==
  IF a.batch = <<>> THEN a
  ELSE IF a.state # "ProcessingCommands" THEN [a EXCEPT !.failed = TRUE]
  ELSE IF a.refusing
  THEN [a EXCEPT !.pending = <<>>, !.batch = <<>>, !.until = FALSE, !.failed = TRUE]
  ELSE [a EXCEPT !.state = "PersistingEvents", !.pending = @ \o a.batch, !.batch = <<>>,
                 !.until = \E i \in DOMAIN a.batch : a.batch[i].fence,
                 !.sends = Append(@, [op |-> "Write", messages |-> Persisted(a.batch),
                                      instance |-> a.instance, retry |-> 0])]

SaveSnapshot(a) ==
  Send(a, [op |-> "Save", nr |-> a.current, state |-> a.applied,
           instance |-> a.instance, retry |-> 0])

(* The handler deletes what the last snapshot it knows of covers.          *)
DeleteMessages(a) ==
  Send(a, [op |-> "Delete", to |-> a.saved, instance |-> a.instance, retry |-> 0])

(* One call of a command handler, which returns the first error it gets.   *)
Call(a, call) ==
  IF a.failed THEN a
  ELSE CASE call = "persist"          -> AddToEventBatch(a, TRUE)
         [] call = "persist_unfenced" -> AddToEventBatch(a, FALSE)
         [] call = "defer"            -> Defer(a, TRUE)
         [] call = "defer_async"      -> Defer(a, FALSE)
         [] call = "flush_batch"      -> FlushBatch(a)
         [] call = "save_snapshot"    -> SaveSnapshot(a)
         [] call = "delete_messages"  -> DeleteMessages(a)
         [] call = "fail"             -> [a EXCEPT !.failed = TRUE]

ReceiveCommand(a, script) ==
  LET after[n \in 0 .. Len(script)] ==
        IF n = 0 THEN a ELSE Call(after[n - 1], script[n])
  IN  after[Len(script)]

(* Runs the first n pending handlers.                                      *)
Invoke(a, n) ==
  LET taken == SubSeq(a.pending, 1, n)
  IN  [a EXCEPT !.pending = SubSeq(@, n + 1, Len(@)), !.ran = @ \o Column(taken, "id"),
                !.applied = @ \o Column(Persisted(taken), "id")]

LeadingDeferred(a) ==
  LET first == SelectInSeq(a.pending, LAMBDA e : ~e.deferred)
  IN  IF first = 0 THEN Len(a.pending) ELSE first - 1

ProcessingIfNoPending(a) ==
  IF a.pending = <<>> /\ ~a.until THEN [a EXCEPT !.state = "ProcessingCommands"] ELSE a

ScheduleTimeout(a, waitingSnapshot) ==
  [a EXCEPT !.epoch = @ + 1,
            !.timer = [waitingSnapshot |-> waitingSnapshot, epoch |-> a.epoch + 1]]

\* Mutant: the instance id of a write's answer is not compared.
OfAnyWrite(a, m) == a.state = "PersistingEvents"

OfThisWrite(a, m) == a.state = "PersistingEvents" /\ m.instance = a.instance

MaxOf(s) == CHOOSE x \in s : \A y \in s : y <= x

(* handle_journal_response and what the adapter does after it.             *)
HandleJournalResponse(a, m) ==
  CASE m.kind = "WriteMessageSuccess" ->
         IF ~OfThisWrite(a, m) THEN a
         ELSE LET n == LeadingDeferred(a) + 1
              IN  ProcessingIfNoPending(
                    Invoke([a EXCEPT !.last = m.nr],
                           IF n > Len(a.pending) THEN Len(a.pending) ELSE n))
    [] m.kind = "WriteMessagesSuccessful" ->
         IF ~OfThisWrite(a, m) THEN a
         ELSE LET b == [a EXCEPT !.until = FALSE]
              IN  ProcessingIfNoPending(Invoke(b, LeadingDeferred(b)))
    [] m.kind = "WriteMessageFailure" ->
         IF m.instance # a.instance THEN a
         ELSE [a EXCEPT !.failed = TRUE,
                        !.pending = Only(@, {e \in Range(@) : e.deferred \/ e.nr # m.nr})]
    [] m.kind = "WriteMessagesFailed" ->
         IF ~OfThisWrite(a, m) THEN a
         ELSE ProcessingIfNoPending([a EXCEPT !.until = FALSE, !.pending = <<>>,
                                              !.current = a.last])
    [] m.kind = "ReplayedMessage" ->
         LET b == [a EXCEPT !.current = m.nr, !.applied = Append(@, m.id)]
         IN  IF a.state = "Recovering" THEN ScheduleTimeout(b, FALSE) ELSE b
    [] m.kind = "RecoverySuccess" ->
         LET highest == MaxOf({m.nr, a.current, a.last})
         IN  [a EXCEPT !.last = highest, !.current = highest, !.timer = NoTick,
                       !.state = "ProcessingCommands"]
    [] m.kind = "ReplayMessagesFailure" ->
         [a EXCEPT !.timer = NoTick, !.failed = RecoveryRunning(a)]
    [] m.kind \in {"DeleteMessagesSuccess", "DeleteMessagesFailure"} -> a

\* Mutant: a failed write does not release the stash.
UnstashAfterSuccess(a, m) ==
  /\ m.kind \in {"WriteMessagesSuccessful", "RecoverySuccess", "DeleteMessagesSuccess"}
  /\ a.state = "ProcessingCommands" /\ ~a.failed

UnstashAfterJournal(a, m) ==
  /\ m.kind \in {"WriteMessagesSuccessful", "WriteMessagesFailed", "RecoverySuccess",
                 "DeleteMessagesSuccess", "DeleteMessagesFailure"}
  /\ m.kind \in {"WriteMessagesSuccessful", "WriteMessagesFailed"} => m.instance = a.instance
  /\ a.state = "ProcessingCommands" /\ ~a.failed

(* handle_snapshot_response and what the adapter does after it.            *)
\* Mutant: replay starts one event too late.
StartReplayLate(a, from) ==
  ScheduleTimeout([a EXCEPT !.state = "Recovering",
                            !.sends = Append(@, [op |-> "Replay", from |-> from + 1,
                                                 instance |-> a.instance, retry |-> 0])], FALSE)

\* A refused replay leaves the actor recovering, with the timer to end it.
StartReplay(a, from) ==
  ScheduleTimeout([a EXCEPT !.state = "Recovering",
                            !.sends = IF a.refusing THEN @
                                      ELSE Append(@, [op |-> "Replay", from |-> from,
                                                      instance |-> a.instance, retry |-> 0])],
                  FALSE)

\* The snapshot numbers the context, and is given to the actor once the replay is sent.
FromSnapshot(a, s) ==
  LET b == [a EXCEPT !.current = s.nr, !.last = s.nr]
  IN  IF a.refusing THEN b ELSE [b EXCEPT !.saved = s.nr, !.applied = s.state]

HandleSnapshotResponse(a, m) ==
  CASE m.kind = "SaveSnapshotSuccess" -> [a EXCEPT !.saved = m.nr]
    [] m.kind = "SaveSnapshotFailure" -> a
    [] m.kind = "LoadSnapshotResult" ->
         IF a.state # "RecoveryStarted"
         THEN IF a.state = "Recovering" THEN ScheduleTimeout(a, FALSE) ELSE a
         ELSE IF m.snapshot = <<>> THEN StartReplay(a, 0)
         ELSE StartReplay(FromSnapshot(a, m.snapshot[1]), m.snapshot[1].nr + 1)
    [] m.kind = "LoadSnapshotFailed" ->
         IF a.state = "RecoveryStarted" THEN StartReplay(a, 0)
         ELSE IF a.state = "Recovering" THEN ScheduleTimeout(a, FALSE) ELSE a

UnstashAfterSnapshot(a, m) ==
  /\ m.kind \in {"SaveSnapshotSuccess", "SaveSnapshotFailure"}
  /\ ~RecoveryRunning(a) /\ ~ShouldStash(a)

HandleRecoveryTick(a, tick) ==
  LET due == IF tick.waitingSnapshot THEN "RecoveryStarted" ELSE "Recovering"
  IN  IF tick.epoch = a.epoch /\ a.state = due
      THEN [a EXCEPT !.timer = NoTick, !.failed = TRUE] ELSE a

(* Handlers of persist and defer calls run in the order of the calls,       *)
(* whatever batches they end up in (add_deferred_handler, flush_batch,      *)
(* take_leading_deferred_invocations).                                      *)
HandlersInOrder ==
  \A i, j \in DOMAIN actor.ran : i < j => actor.ran[i] < actor.ran[j]
=============================================================================
