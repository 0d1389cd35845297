--------------------------- MODULE ScheduleState ---------------------------
(***************************************************************************)
(* MailboxScheduleState (dispatch/mailbox/schedule_state.rs): the flags    *)
(* and the suspend count packed in one AtomicU32.  Each operator is what   *)
(* one successful compare-exchange of the method of that name stores, or   *)
(* the outcome the method computes from the word it replaced.              *)
(***************************************************************************)
EXTENDS Naturals

Flag == {"SCHEDULED", "RUNNING", "CLOSE_REQUESTED", "FINALIZER_OWNED", "CLEANUP_DONE"}

\* The suspend count has the 27 bits above the flags.
SuspendRange == 134217728

Word == [flags : SUBSET Flag, suspends : 0 .. SuspendRange - 1]

NewWord == [flags |-> {}, suspends |-> 0]

IsSuspended(w) == w.suspends > 0
IsCloseRequested(w) == "CLOSE_REQUESTED" \in w.flags
IsCleanupDone(w) == "CLEANUP_DONE" \in w.flags
IsClosed(w) == IsCloseRequested(w) \/ IsCleanupDone(w)

\* Mutant of IsBusy: a running mailbox may be scheduled a second time.
IsScheduledOnly(w) == "SCHEDULED" \in w.flags

IsBusy(w) == "SCHEDULED" \in w.flags \/ "RUNNING" \in w.flags

\* request_schedule, where the word is neither closed nor busy
Scheduled(w) == [w EXCEPT !.flags = @ \cup {"SCHEDULED"}]

\* set_running
Running(w) == [w EXCEPT !.flags = (@ \ {"SCHEDULED"}) \cup {"RUNNING"}]

\* set_idle, and the part finish_run shares with it
Idle(w) == [w EXCEPT !.flags = @ \ {"SCHEDULED", "RUNNING"}]

\* Mutant of Resumed: an unmatched resume wraps the suspend count.
ResumedWrapping(w) == [w EXCEPT !.suspends = @ - 1]

\* suspend wraps in its 27 bits, resume saturates
Suspended(w) == [w EXCEPT !.suspends = (@ + 1) % SuspendRange]
Resumed(w) == [w EXCEPT !.suspends = IF @ = 0 THEN 0 ELSE @ - 1]

\* Mutants of CallerOwnsFinalizer: every closer of an idle mailbox is elected;
\* a closer is elected although a runner is inside its drain loop.
EveryCallerOwns(w) == ~IsCleanupDone(w) /\ "RUNNING" \notin w.flags
CallerIgnoresRunner(w) ==
  /\ ~IsCleanupDone(w)
  /\ IsCloseRequested(w) => "FINALIZER_OWNED" \notin w.flags

\* request_close: the caller finalizes unless a runner is inside its drain
\* loop, or the finalizer has been elected already.
CallerOwnsFinalizer(w) ==
  /\ ~IsCleanupDone(w)
  /\ "RUNNING" \notin w.flags
  /\ IsCloseRequested(w) => "FINALIZER_OWNED" \notin w.flags
CloseRequested(w) ==
  IF IsCleanupDone(w) THEN w
  ELSE [w EXCEPT !.flags = @ \cup {"CLOSE_REQUESTED"}
                             \cup IF CallerOwnsFinalizer(w) THEN {"FINALIZER_OWNED"} ELSE {}]

\* Mutant of RunnerFinalizes: the runner never takes over the cleanup.
RunnerNeverFinalizes(w) == FALSE

\* finish_run: the runner finalizes if a close arrived while it ran.
RunnerFinalizes(w) ==
  /\ ~IsCleanupDone(w)
  /\ IsCloseRequested(w)
  /\ "FINALIZER_OWNED" \notin w.flags
RunFinished(w) ==
  [Idle(w) EXCEPT !.flags = @ \cup IF RunnerFinalizes(w) THEN {"FINALIZER_OWNED"} ELSE {}]

\* finish_cleanup
Cleaned(w) == [w EXCEPT !.flags = @ \cup {"CLEANUP_DONE"}]
=============================================================================
