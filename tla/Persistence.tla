----------------------------- MODULE Persistence -----------------------------
(***************************************************************************)
(* A persistent actor with its journal and its snapshot store              *)
(* (persistence-core-kernel).  The actor recovers (snapshot, then replayed *)
(* events), stashes commands while it may not handle them, batches events, *)
(* has them written, and runs their handlers as the journal answers.  The  *)
(* journal and snapshot actors keep requests in flight, retry and answer   *)
(* in any order; answers travel to the mailbox the commands travel to.  A  *)
(* failure is answered by the supervisor with any directive.  An event is  *)
(* the number of the persist call that made it, and the actor's state is   *)
(* the sequence of events it has applied.                                  *)
(***************************************************************************)
EXTENDS PersistenceContext

CONSTANTS
  Scripts,       \* what a command handler may call, in order (sequences of calls)
  StashCapacity, \* stash_capacity
  Overflow,      \* stash_overflow_strategy: "Fail" or "Drop"
  Directives,    \* what the supervisor answers a failure with
  RetryMax,      \* retry_max of the journal and snapshot actors
  MaxCommands,   \* bound: commands sent
  MaxErrors,     \* bound: errors of the stores other than a refused sequence number,
                 \* and steps whose requests their mailboxes refuse
  MaxRestarts,   \* bound: restarts
  MaxTicks       \* bound: recovery timeouts that fire

ASSUME PersistenceAssumption ==
  /\ {StashCapacity, RetryMax, MaxCommands, MaxErrors, MaxRestarts, MaxTicks} \subseteq Nat
  /\ Overflow \in {"Fail", "Drop"}
  /\ Directives \subseteq {"Restart", "Resume", "Stop"} /\ Directives # {}
  /\ Scripts \subseteq Seq(HandlerCalls)

VARIABLES
  run,     \* "up", "failed" (mailbox suspended) or "stopped"
  mailbox, \* user messages: commands, answers and recovery ticks
  stash,   \* stashed_messages of the cell
  ops,     \* requests in flight in the journal and snapshot actors
  wire,    \* answers on their way to the mailbox, by sender
  store,   \* the journal's entries and highest number, the stored snapshots
  sent, errors, restarts, ticks, \* counters
  written, \* history: every event made durable, by sequence number
  handled, \* history: commands handled, in order
  lost,    \* history: commands dropped with a stash or by a failure
  marks    \* history: what makes recovery incomplete, see the properties

stores == <<ops, wire, store, written, errors>>
vars == <<actor, run, mailbox, stash, stores, sent, restarts, ticks, handled, lost, marks>>

LoadOp(i) == [op |-> "Load", instance |-> i, retry |-> 0]

Init ==
  /\ actor = NewActor(1, 0, <<>>) /\ run = "up" /\ mailbox = <<>> /\ stash = <<>>
  /\ ops = <<LoadOp(1)>> /\ wire = [journal |-> <<>>, snapshot |-> <<>>]
  /\ store = [entries |-> <<>>, highest |-> 0, snapshots |-> <<>>]
  /\ sent = 0 /\ errors = 0 /\ restarts = 0 /\ ticks = 0
  /\ written = <<>> /\ handled = <<>> /\ lost = {} /\ marks = {}

-----------------------------------------------------------------------------
(* The actor's steps.  Finish stores what a handler left behind: requests  *)
(* go out, an error suspends the mailbox, unstashing prepends the stash.   *)

\* Mutant: the stash goes back behind what waits in the mailbox.
FinishBehind(a, unstash) ==
  /\ actor' = [a EXCEPT !.sends = <<>>, !.failed = FALSE, !.refusing = FALSE]
  /\ ops' = ops \o a.sends
  /\ run' = IF a.failed THEN "failed" ELSE run
  /\ mailbox' = IF unstash THEN Tail(mailbox) \o stash ELSE Tail(mailbox)
  /\ stash' = IF unstash THEN <<>> ELSE stash

Finish(a, unstash) ==
  /\ actor' = [a EXCEPT !.sends = <<>>, !.failed = FALSE, !.refusing = FALSE]
  /\ ops' = ops \o a.sends
  /\ run' = IF a.failed THEN "failed" ELSE run
  /\ mailbox' = IF unstash THEN stash \o Tail(mailbox) ELSE Tail(mailbox)
  /\ stash' = IF unstash THEN <<>> ELSE stash

\* The actor in a step whose requests the stores' mailboxes take or refuse (try_tell).
Sending ==
  {[actor EXCEPT !.refusing = refusing] :
     refusing \in IF errors < MaxErrors THEN BOOLEAN ELSE {FALSE}}

RefusalCounted(a) == errors' = IF a.refusing THEN errors + 1 ELSE errors

Receiving(kinds) == run = "up" /\ mailbox # <<>> /\ Head(mailbox).kind \in kinds
JournalResponses ==
  {"WriteMessageSuccess", "WriteMessagesSuccessful", "WriteMessageFailure",
   "WriteMessagesFailed", "ReplayedMessage", "RecoverySuccess", "ReplayMessagesFailure",
   "DeleteMessagesSuccess", "DeleteMessagesFailure"}
SnapshotResponses ==
  {"SaveSnapshotSuccess", "SaveSnapshotFailure", "LoadSnapshotResult", "LoadSnapshotFailed"}

(* Replay answers carry no instance id: those of an earlier instance count.*)
(* The last answer to a write names no write: when the handlers of one were *)
(* done without it, it lifts the fence of the next.                        *)
ReceiveJournalResponse ==
  /\ Receiving(JournalResponses)
  /\ LET m == Head(mailbox)
         a == HandleJournalResponse(actor, m)
     IN  /\ Finish(a, UnstashAfterJournal(a, m))
         /\ marks' = marks
              \cup (IF /\ m.kind \in {"ReplayedMessage", "RecoverySuccess", "ReplayMessagesFailure"}
                       /\ m.instance # actor.instance
                    THEN {"stale"} ELSE {})
              \cup (IF m.kind = "ReplayMessagesFailure" /\ a.failed THEN {"unreplayed"} ELSE {})
              \cup (IF /\ m.kind = "WriteMessagesSuccessful" /\ actor.until /\ ~a.until
                       /\ \E i \in DOMAIN actor.pending : ~actor.pending[i].deferred
                    THEN {"lifted"} ELSE {})
  /\ UNCHANGED <<wire, store, written, errors, sent, restarts, ticks, handled, lost>>

ReceiveSnapshotResponse ==
  /\ Receiving(SnapshotResponses)
  /\ \E b \in Sending :
       LET m == Head(mailbox)
           a == HandleSnapshotResponse(b, m)
       IN  /\ Finish(a, UnstashAfterSnapshot(a, m)) /\ RefusalCounted(b)
           /\ marks' = IF b.refusing /\ a.state # b.state THEN marks \cup {"unreplayed"} ELSE marks
  /\ UNCHANGED <<wire, store, written, sent, restarts, ticks, handled, lost>>

ReceiveRecoveryTick ==
  /\ Receiving({"RecoveryTick"})
  /\ Finish(HandleRecoveryTick(actor, Head(mailbox).tick), FALSE)
  /\ UNCHANGED <<wire, store, written, errors, sent, restarts, ticks, handled, lost, marks>>

(* receive_user_command: stash, or run the handler.                        *)
StashCommand ==
  /\ Receiving({"Command"}) /\ (RecoveryRunning(actor) \/ ShouldStash(actor))
  /\ LET full == Len(stash) >= StashCapacity
     IN  /\ stash' = IF full THEN stash ELSE Append(stash, Head(mailbox))
         /\ lost' = IF full THEN lost \cup {Head(mailbox).c} ELSE lost
         /\ run' = IF full /\ Overflow = "Fail" THEN "failed" ELSE run
  /\ mailbox' = Tail(mailbox)
  /\ UNCHANGED <<actor, stores, sent, restarts, ticks, handled, marks>>

HandleCommand ==
  /\ Receiving({"Command"}) /\ ~RecoveryRunning(actor) /\ ~ShouldStash(actor)
  /\ \E script \in Scripts, b \in Sending :
       LET a == ReceiveCommand(b, script)
       IN  /\ Finish(a, FALSE) /\ RefusalCounted(b)
           /\ marks' = marks
                \cup (IF \E op \in Range(a.sends) : op.op = "Save" /\ op.nr # actor.last
                      THEN {"snapshotAhead"} ELSE {})
                \cup (IF b.refusing /\ a.current # a.last /\ ~HasInFlight(a)
                      THEN {"numbersKept"} ELSE {})
  /\ handled' = Append(handled, Head(mailbox).c)
  /\ UNCHANGED <<wire, store, written, sent, restarts, ticks, lost>>

(* The supervisor's directive.  A restart drops the stash and the timer    *)
(* and recovers into a new instance behind the same mailbox.               *)
Restart ==
  /\ run = "failed" /\ "Restart" \in Directives /\ restarts < MaxRestarts
  /\ actor' = NewActor(actor.instance + 1, actor.calls, actor.ran)
  /\ ops' = Append(ops, LoadOp(actor.instance + 1))
  /\ run' = "up" /\ restarts' = restarts + 1
  /\ stash' = <<>> /\ lost' = lost \cup Range(Column(stash, "c"))
  /\ UNCHANGED <<mailbox, wire, store, written, errors, sent, ticks, handled, marks>>

Resume ==
  /\ run = "failed" /\ "Resume" \in Directives /\ run' = "up"
  /\ UNCHANGED <<actor, mailbox, stash, stores, sent, restarts, ticks, handled, lost, marks>>

Stop ==
  /\ run = "failed" /\ "Stop" \in Directives /\ run' = "stopped"
  /\ mailbox' = <<>> /\ stash' = <<>> /\ actor' = [actor EXCEPT !.timer = NoTick]
  /\ UNCHANGED <<stores, sent, restarts, ticks, handled, lost, marks>>

-----------------------------------------------------------------------------
(* The journal and snapshot actors.                                        *)

SenderOf(op) == IF op.op \in {"Load", "Save"} THEN "snapshot" ELSE "journal"

(* The journal takes a write only if its numbers follow the highest one.   *)
Accepts(op) ==
  op.op = "Write" =>
    \A i \in DOMAIN op.messages : op.messages[i].nr = store.highest + i

SelectLatest(snapshots) ==
  IF snapshots = <<>> THEN <<>>
  ELSE LET top == MaxOf(Range(Column(snapshots, "nr")))
       IN  <<snapshots[SelectLastInSeq(snapshots, LAMBDA s : s.nr = top)]>>

Effect(op) ==
  CASE op.op = "Write" ->
         [store EXCEPT !.entries = @ \o op.messages, !.highest = @ + Len(op.messages)]
    [] op.op = "Delete" -> [store EXCEPT !.entries = SelectSeq(@, LAMBDA e : e.nr > op.to)]
    [] op.op = "Save" ->
         [store EXCEPT !.snapshots = Append(@, [nr |-> op.nr, state |-> op.state])]
    [] OTHER -> store

Answer(kind, op) == [kind |-> kind, instance |-> op.instance]
AnswerNr(kind, op, nr) == [kind |-> kind, instance |-> op.instance, nr |-> nr]

WriteSuccess(op) ==
  [i \in DOMAIN op.messages |-> AnswerNr("WriteMessageSuccess", op, op.messages[i].nr)]
    \o <<Answer("WriteMessagesSuccessful", op)>>

ReplaySuccess(op) ==
  LET found == SelectSeq(store.entries, LAMBDA e : e.nr >= op.from)
  IN  [i \in DOMAIN found |->
         [kind |-> "ReplayedMessage", instance |-> op.instance,
          nr |-> found[i].nr, id |-> found[i].id]]
        \o <<AnswerNr("RecoverySuccess", op, IF found = <<>> THEN 0 ELSE Last(found).nr)>>

LoadSuccess(op) ==
  <<[kind |-> "LoadSnapshotResult", instance |-> op.instance,
     snapshot |-> SelectLatest(store.snapshots)]>>

Success(op) ==
  CASE op.op = "Write"  -> WriteSuccess(op)
    [] op.op = "Replay" -> ReplaySuccess(op)
    [] op.op = "Delete" -> <<Answer("DeleteMessagesSuccess", op)>>
    [] op.op = "Save"   -> <<AnswerNr("SaveSnapshotSuccess", op, op.nr)>>
    [] op.op = "Load"   -> LoadSuccess(op)

WriteFailure(op) ==
  [i \in DOMAIN op.messages |-> AnswerNr("WriteMessageFailure", op, op.messages[i].nr)]
    \o <<Answer("WriteMessagesFailed", op)>>

Failure(op) ==
  CASE op.op = "Write"  -> WriteFailure(op)
    [] op.op = "Replay" -> <<Answer("ReplayMessagesFailure", op)>>
    [] op.op = "Delete" -> <<Answer("DeleteMessagesFailure", op)>>
    [] op.op = "Save"   -> <<Answer("SaveSnapshotFailure", op)>>
    [] op.op = "Load"   -> <<Answer("LoadSnapshotFailed", op)>>

TellResponse(op, answers) == wire' = [wire EXCEPT ![SenderOf(op)] = @ \o answers]

Recorded(op) ==
  written' = IF op.op = "Write" THEN written \o Column(op.messages, "id") ELSE written

(* The events a replay is to begin with are deleted.                       *)
Unreplayable(op) ==
  /\ op.op = "Replay" /\ op.instance = actor.instance
  /\ Len(written) - Len(store.entries) > MaxOf({0, op.from - 1})

SendSuccess(op, i) ==
  /\ Accepts(op) /\ store' = Effect(op) /\ Recorded(op)
  /\ TellResponse(op, Success(op)) /\ ops' = RemoveAt(ops, i)
  /\ marks' = IF Unreplayable(op) THEN marks \cup {"deletedAhead"} ELSE marks
  /\ UNCHANGED errors

(* An error, of a refused number or of the store; one of the store may     *)
(* come after the request took effect.  The request is retried or given up.*)
RetryOrFail(op, i) ==
  /\ \/ ~Accepts(op) /\ UNCHANGED <<store, written, errors>>
     \/ /\ Accepts(op) /\ errors < MaxErrors /\ errors' = errors + 1
        /\ \/ store' = Effect(op) /\ Recorded(op)
           \/ UNCHANGED <<store, written>>
  /\ IF op.retry < RetryMax
     THEN ops' = [ops EXCEPT ![i].retry = @ + 1] /\ UNCHANGED wire
     ELSE ops' = RemoveAt(ops, i) /\ TellResponse(op, Failure(op))
  /\ UNCHANGED marks

PollInFlight ==
  /\ \E i \in DOMAIN ops : SendSuccess(ops[i], i) \/ RetryOrFail(ops[i], i)
  /\ UNCHANGED <<actor, run, mailbox, stash, sent, restarts, ticks, handled, lost>>

(* Enqueueing into the mailbox: an answer, a command, a recovery tick.     *)
Enqueue(m) == mailbox' = IF run = "stopped" THEN mailbox ELSE Append(mailbox, m)

Arrive ==
  /\ \E from \in DOMAIN wire :
       /\ wire[from] # <<>> /\ Enqueue(Head(wire[from]))
       /\ wire' = [wire EXCEPT ![from] = Tail(@)]
  /\ UNCHANGED <<actor, run, stash, ops, store, written, errors, sent, restarts, ticks,
                 handled, lost, marks>>

SendCommand ==
  /\ sent < MaxCommands /\ run # "stopped" /\ sent' = sent + 1
  /\ Enqueue([kind |-> "Command", c |-> sent'])
  /\ UNCHANGED <<actor, run, stash, stores, restarts, ticks, handled, lost, marks>>

FireTimer ==
  /\ actor.timer # NoTick /\ ticks < MaxTicks /\ ticks' = ticks + 1
  /\ Enqueue([kind |-> "RecoveryTick", tick |-> actor.timer])
  /\ actor' = [actor EXCEPT !.timer = NoTick]
  /\ UNCHANGED <<run, stash, stores, sent, restarts, handled, lost, marks>>

-----------------------------------------------------------------------------
ActorStep ==
  \/ ReceiveJournalResponse \/ ReceiveSnapshotResponse \/ ReceiveRecoveryTick
  \/ StashCommand \/ HandleCommand
Supervise == Restart \/ Resume \/ Stop

Next ==
  ActorStep \/ Supervise \/ PollInFlight \/ Arrive \/ SendCommand \/ FireTimer

Spec == Init /\ [][Next]_vars

-----------------------------------------------------------------------------
(* Type correctness, with two facts about limits: the stash never holds     *)
(* more than its capacity (actor_cell_stash.rs) and the journal's highest   *)
(* number is the number of events it ever took (in_memory_journal.rs).      *)
TypeOK ==
  /\ actor.state \in {"RecoveryStarted", "Recovering", "ProcessingCommands", "PersistingEvents"}
  /\ run \in {"up", "failed", "stopped"}
  /\ actor.sends = <<>> /\ ~actor.failed /\ ~actor.refusing
  /\ Len(stash) <= StashCapacity
  /\ store.highest = Len(written)

(* Recovery was disturbed: answers of an earlier instance's replay were     *)
(* taken ("stale"), a snapshot was numbered past the events it holds        *)
(* ("snapshotAhead"), events were deleted that the snapshot recovery        *)
(* started from, if any, does not stand for ("deletedAhead"), or a write    *)
(* the journal's mailbox refused left its numbers given out, so that the    *)
(* next write may follow events the actor does not know of ("numbersKept"). *)
(* The code guards against none of them.                                    *)
Disturbed == marks \cap {"stale", "snapshotAhead", "deletedAhead", "numbersKept"} # {}

(* Event sourcing: outside recovery the actor's state is exactly the first  *)
(* last_sequence_nr events made durable, in order, none twice, through      *)
(* failed and retried writes, lost acknowledgements, writes of an earlier   *)
(* instance that land late, snapshots, deletions, restarts and resumes      *)
(* (handle_journal_response, handle_snapshot_response).                     *)
StateIsHistory ==
  (run # "stopped" /\ ~RecoveryRunning(actor) /\ ~Disturbed) =>
    actor.last <= Len(written) /\ actor.applied = SubSeq(written, 1, actor.last)

(* An event whose handler ran is never forgotten: every instance that has   *)
(* recovered has applied it (take_invocations_for_write_success runs a      *)
(* handler only for what the journal holds, and replay returns it).         *)
AckedSurvives ==
  (run # "stopped" /\ ~RecoveryRunning(actor) /\ ~Disturbed) =>
    Range(actor.ran) \cap Range(written) \subseteq Range(actor.applied)

(* Commands are handled in the order they arrived although some wait in the *)
(* stash while answers of the journal are taken (stash_current_message,     *)
(* unstash_messages puts them back in front).  Except when the last answer  *)
(* to an earlier write lifted the fence of a later one ("lifted").          *)
CommandsInOrder ==
  marks \cap {"stale", "lifted"} = {} =>
    \A i, j \in DOMAIN handled : i < j => handled[i] < handled[j]

(* The order without that exception: "should_stash_commands_until_          *)
(* write_messages_successful_for_stashing_batch" (a test of                 *)
(* persistence_context.rs).                                                 *)
FenceKeepsOrder ==
  "stale" \notin marks =>
    \A i, j \in DOMAIN handled : i < j => handled[i] < handled[j]

(* Nobody is left waiting: once nothing is in flight, an actor that is up   *)
(* has left recovery, runs no handler late and holds no stashed command     *)
(* (should_unstash_after_journal_response,                                  *)
(* transition_to_processing_commands_if_no_pending).  Except when a replay  *)
(* failed or was refused by the journal's mailbox, which nothing repeats    *)
(* but a restart ("unreplayed").                                            *)
NothingStranded ==
  (/\ run = "up" /\ mailbox = <<>> /\ ops = <<>> /\ \A s \in DOMAIN wire : wire[s] = <<>>
   /\ marks \cap {"stale", "unreplayed"} = {}) =>
    stash = <<>> /\ actor.pending = <<>> /\ actor.state = "ProcessingCommands"

=============================================================================
