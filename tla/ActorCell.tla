----------------------------- MODULE ActorCell -----------------------------
(***************************************************************************)
(* The life of the cells of an actor tree: creation, failure, supervision, *)
(* restart, termination and death watch, driven by the system messages     *)
(* the cells send each other.                                              *)
(*                                                                         *)
(* A cell handles one system message per step, as the single runner of its *)
(* mailbox does; the steps of different cells interleave.  A handler is    *)
(* one step except finish_terminate, which other cells can observe between *)
(* the notifications it sends (Terminate) and the removal of the cell from *)
(* the registry (Remove).  User code is what it may do to the tree: fail,  *)
(* stop, watch, unwatch, spawn, and fail again in pre_start, post_restart, *)
(* pre_restart and on_child_failed; each such event is counted.  The hooks *)
(* pre_restart and post_restart are the default ones of the Actor trait.   *)
(***************************************************************************)
EXTENDS Integers, Sequences, FiniteSets

CONSTANTS
    Cells,      \* pids; a pid is used by one cell only
    Root,       \* the guardian at the top of the tree
    Parent,     \* Parent[p] is the supervisor that spawns p
    Started,    \* the cells that exist, settled, at the beginning
    AllForOne,  \* the supervisors whose strategy is AllForOne
    Directives, \* what a supervisor's decider may answer
    MaxEvents   \* bound on the events user code causes

ASSUME TreeAssumption ==
    /\ Root \in Started /\ Started \subseteq Cells /\ AllForOne \subseteq Cells
    /\ Parent \in [Cells \ {Root} -> Cells]
    /\ \A p \in Started \ {Root} : Parent[p] \in Started
    /\ Directives \subseteq {"Resume", "Restart", "Stop", "Escalate"}
    /\ MaxEvents \in Nat

VARIABLES
    cell,   \* the cells' records
    events, \* events so far
    marks   \* history: what happened to a cell that the properties except

vars == <<cell, events, marks>>

Kinds == {"User", "Supervision"}

Message == [type : {"Stop", "Create", "Recreate", "Suspend", "Resume"}]
           \cup [type : {"Failure", "Watch", "Unwatch", "StopChild",
                         "DeathWatchNotification"}, of : Cells]

(***************************************************************************)
(* ChildrenContainer.  Empty is a normal container with no child.          *)
(***************************************************************************)
Container == [variant : {"normal", "terminating", "terminated"},
              c : SUBSET Cells, toDie : SUBSET Cells,
              reason : {"none", "UserRequest", "Recreation", "Termination"}]

NormalContainer(c) ==
    [variant |-> "normal", c |-> c, toDie |-> {}, reason |-> "none"]

AddChild(k, p) ==
    IF k.variant = "terminated" THEN k ELSE [k EXCEPT !.c = @ \cup {p}]

\* Mutant: a container that already waits takes no further child to wait for.
ShallDieOnce(k, S) ==
    IF k.variant = "normal" /\ k.c # {} /\ S # {}
    THEN [k EXCEPT !.variant = "terminating", !.toDie = S, !.reason = "UserRequest"] ELSE k

\* shall_die for every child of S.
ShallDie(k, S) ==
    IF S = {} \/ k.variant = "terminated" \/ (k.variant = "normal" /\ k.c = {}) THEN k
    ELSE [k EXCEPT !.variant = "terminating", !.toDie = @ \cup S,
                   !.reason = IF k.variant = "normal" THEN "UserRequest" ELSE @]

SetTerminationReason(k, reason) ==
    IF k.variant = "terminating" THEN [k EXCEPT !.reason = reason] ELSE k

\* remove_child_and_get_state_change: the container it leaves ...
RemoveChild(k, p) ==
    LET left == [k EXCEPT !.c = @ \ {p}, !.toDie = @ \ {p}] IN
    IF k.variant # "terminating" \/ left.toDie # {} THEN left
    ELSE IF k.reason = "Termination"
         THEN [NormalContainer({}) EXCEPT !.variant = "terminated"]
         ELSE NormalContainer(left.c)

\* ... and the state change it reports.
StateChange(k, p) ==
    IF k.variant = "terminating" /\ k.toDie \subseteq {p} THEN k.reason ELSE "none"

IsTerminating(k) == k.variant = "terminated" \/ k.reason = "Termination"

(***************************************************************************)
(* A cell: where it is in its life ("dead" is terminated but still in the  *)
(* registry), its system queue, its mailbox's suspend counter, and its     *)
(* ActorCellState.  boots counts the instances of its actor.               *)
(***************************************************************************)
CellType == [life : {"new", "up", "dead", "gone"}, sys : Seq(Message), suspends : Nat,
             kids : Container, failed : {"none", "Child", "Fatal"},
             watchers : SUBSET (Cells \X Kinds), watching : SUBSET (Cells \X Kinds),
             boots : Nat]

NewCell(life, kids, parents) ==
    [life |-> life, sys |-> <<>>, suspends |-> 0, kids |-> NormalContainer(kids),
     failed |-> "none", watchers |-> parents \X {"Supervision"},
     watching |-> kids \X {"Supervision"}, boots |-> 1]

ChildrenOf(p) == {q \in Cells \ {Root} : Parent[q] = p}
ParentOf(p) == IF p = Root THEN {} ELSE {Parent[p]}

\* Operators below map the cells w before a handler to the cells after it.
Registered(w, p) == w[p].life \in {"up", "dead"}

\* send_system_message of one message to every cell of S; the cells that are
\* not registered refuse it.
SendAll(w, S, type) ==
    [q \in Cells |-> IF q \in S /\ Registered(w, q)
                     THEN [w[q] EXCEPT !.sys = Append(@, [type |-> type])] ELSE w[q]]

Refusing(w, S) == {q \in S : ~Registered(w, q)}

\* Mutant: a Watch of a cell that is not registered is dropped like the rest.
SendOfUnanswered(w, p, type, of) ==
    IF Registered(w, p) THEN [w EXCEPT ![p].sys = Append(@, [type |-> type, of |-> of])] ELSE w

\* send_system_message of a message that names a cell.  A Watch of a cell that
\* is not registered is answered at once; the rest is dropped.
SendOf(w, p, type, of) ==
    CASE Registered(w, p) -> [w EXCEPT ![p].sys = Append(@, [type |-> type, of |-> of])]
      [] ~Registered(w, p) /\ type = "Watch" /\ Registered(w, of) ->
            [w EXCEPT ![of].sys = Append(@, [type |-> "DeathWatchNotification", of |-> p])]
      [] OTHER -> w

Suspend(w, p) == [w EXCEPT ![p].suspends = @ + 1]
Resume(w, p) == [w EXCEPT ![p].suspends = IF @ = 0 THEN 0 ELSE @ - 1]

SuspendChildren(w, p) == SendAll(w, w[p].kids.c, "Suspend")
ResumeChildren(w, p) == SendAll(w, w[p].kids.c, "Resume")

(***************************************************************************)
(* Fault handling.                                                         *)
(***************************************************************************)
\* Mutant: only the first of several failures suspends the mailbox.
ReportFailureOnce(w, p) ==
    LET held == IF w[p].failed = "none" THEN Suspend([w EXCEPT ![p].failed = "Child"], p) ELSE w
        quiet == SuspendChildren(held, p)
    IN IF \E s \in ParentOf(p) : Registered(quiet, s)
       THEN SendOf(quiet, Parent[p], "Failure", p)
       ELSE SendAll(quiet, {p}, "Stop")

ReportFailure(w, p) ==
    LET held == Suspend([w EXCEPT ![p].failed = IF @ = "none" THEN "Child" ELSE @], p)
        quiet == SuspendChildren(held, p)
    IN IF \E s \in ParentOf(p) : Registered(quiet, s)
       THEN SendOf(quiet, Parent[p], "Failure", p)
       ELSE SendAll(quiet, {p}, "Stop")

\* Mutant: a failing post_restart is reported without the resume before it.
FinishRecreateTwice(w, p, postRestartOk) ==
    LET fresh == [w EXCEPT ![p].failed = "none", ![p].boots = @ + 1] IN
    IF postRestartOk THEN Resume(fresh, p)
    ELSE ReportFailure([fresh EXCEPT ![p].failed = "Fatal"], p)

FinishRecreate(w, p, postRestartOk) ==
    LET fresh == Resume([w EXCEPT ![p].failed = "none", ![p].boots = @ + 1], p) IN
    IF postRestartOk THEN fresh
    ELSE ReportFailure([fresh EXCEPT ![p].failed = "Fatal"], p)

\* The default pre_restart: stop_all_children, then post_stop.
PreRestart(w, p) ==
    LET kids == w[p].kids.c IN
    SendAll([w EXCEPT ![p].kids = ShallDie(@, kids),
                      ![p].watching = @ \ (kids \X {"User"})], kids, "Stop")

PreRestartFails(w, p, postStopOk) == ~postStopOk \/ Refusing(w, w[p].kids.c) # {}

FaultRecreate(w, p, postStopOk, postRestartOk) ==
    LET stopped == PreRestart(w, p) IN
    CASE w[p].failed = "Fatal" -> w
      [] w[p].failed # "Fatal" /\ PreRestartFails(w, p, postStopOk) -> stopped
      [] OTHER ->
            IF stopped[p].kids.variant = "terminating"
            THEN [stopped EXCEPT ![p].kids = SetTerminationReason(@, "Recreation")]
            ELSE FinishRecreate(stopped, p, postRestartOk)

\* stats_for_mut registers a child the container does not hold.
Affected(w, p, child) ==
    IF p \in AllForOne THEN AddChild(w[p].kids, child).c ELSE {child}

\* clear_child_stats: a Stop directive forgets the children it stops.
ClearChildStats(k, S) ==
    IF k.variant = "normal" THEN [k EXCEPT !.c = @ \ S] ELSE k

\* What the supervisor's directive does to the affected children.
ApplyDirective(w, p, child, affected, directive) ==
    LET siblings == {q \in affected \ {child} : Registered(w, q)}
        held == [q \in Cells |-> IF q \in siblings
                                 THEN [w[q] EXCEPT !.suspends = @ + 1] ELSE w[q]]
        quiet == SendAll(held, UNION {w[q].kids.c : q \in siblings}, "Suspend")
        told == SendAll(quiet, affected, "Recreate")
        stopped == SendAll(w, affected, "Stop")
    IN CASE directive = "Restart" ->
              IF Refusing(w, affected) = {} THEN told ELSE ReportFailure(told, p)
         [] directive = "Stop" -> stopped
         [] directive = "Escalate" -> ReportFailure(stopped, p)
         [] directive = "Resume" -> SendAll(w, affected, "Resume")

\* The handler of Failure: decide, call on_child_failed, apply.
HandleFailure(w, p, child, directive, callbackOk) ==
    LET affected == Affected(w, p, child)
        known == [w EXCEPT ![p].kids = AddChild(@, child)]
        decided == IF directive = "Stop"
                   THEN [known EXCEPT ![p].kids = ClearChildStats(@, affected)] ELSE known
        called == IF callbackOk THEN decided ELSE ReportFailure(decided, p)
    IN ApplyDirective(called, p, child, affected, directive)

(***************************************************************************)
(* Termination and death watch.                                            *)
(***************************************************************************)
\* notify_watchers_on_stop: one notification for each entry of watchers.
NotifyWatchers(w, p) ==
    LET users == {q \in Cells : <<q, "User">> \in w[p].watchers}
        parents == {q \in Cells : <<q, "Supervision">> \in w[p].watchers}
        Notified(v, S) ==
            [q \in Cells |-> IF q \in S /\ Registered(v, q)
                THEN [v[q] EXCEPT !.sys = Append(@, [type |-> "DeathWatchNotification",
                                                     of |-> p])]
                ELSE v[q]]
    IN [Notified(Notified(w, users), parents) EXCEPT ![p].watchers = {}]

\* finish_terminate up to the notifications.
Terminate(w, p) == [NotifyWatchers(w, p) EXCEPT ![p].life = "dead"]

HandleStop(w, p) ==
    LET kids == w[p].kids.c IN
    CASE IsTerminating(w[p].kids) -> w
      [] ~IsTerminating(w[p].kids) /\ kids = {} -> Terminate(w, p)
      [] OTHER ->
            SendAll(Suspend([w EXCEPT ![p].kids =
                        SetTerminationReason(ShallDie(@, kids), "Termination")], p),
                    kids, "Stop")

HandleDeathWatchNotification(w, p, of, postRestartOk) ==
    LET change == StateChange(w[p].kids, of)
        unwatched == [w EXCEPT ![p].watching = @ \ ({of} \X Kinds),
                               ![p].kids = RemoveChild(@, of)]
    IN IF ({of} \X Kinds) \cap w[p].watching = {} THEN w
       ELSE CASE change = "Recreation" -> FinishRecreate(unwatched, p, postRestartOk)
              [] change = "Termination" -> Terminate(unwatched, p)
              [] OTHER -> unwatched

StopChild(w, p, child) ==
    IF child \notin w[p].kids.c \/ IsTerminating(w[p].kids) THEN w
    ELSE SendAll([w EXCEPT ![p].kids = ShallDie(@, {child})], {child}, "Stop")

(***************************************************************************)
(* The steps of a cell: the runner of its mailbox hands it the next system *)
(* message.  A terminated cell handles nothing more.                       *)
(***************************************************************************)
Init ==
    /\ cell = [p \in Cells |->
                 IF p \in Started THEN NewCell("up", ChildrenOf(p) \cap Started, ParentOf(p))
                 ELSE NewCell("new", {}, {})]
    /\ events = 0
    /\ marks = {}

Ready(p, type) == cell[p].life = "up" /\ cell[p].sys # <<>> /\ Head(cell[p].sys).type = type
Popped(p) == [cell EXCEPT ![p].sys = Tail(@)]
About(p) == Head(cell[p].sys).of

\* Events of user code are counted; a hook that fails is one.
Count(n) == events + n <= MaxEvents /\ events' = events + n
Hook(ok) == Count(IF ok THEN 0 ELSE 1)

Create(p) == \E ok \in BOOLEAN :
    /\ Ready(p, "Create")
    /\ Hook(ok)
    /\ cell' = IF ok THEN Popped(p) ELSE ReportFailure(Popped(p), p)
    /\ UNCHANGED marks

Stop(p) ==
    /\ Ready(p, "Stop")
    /\ cell' = HandleStop(Popped(p), p)
    /\ UNCHANGED <<events, marks>>

\* A restart that is ignored, that gives up, or that falls upon another wait
\* for children.
RestartMark(p, stopOk) ==
    IF cell[p].failed = "Fatal" THEN {<<p, "ignored">>}
    ELSE IF PreRestartFails(cell, p, stopOk) THEN {<<p, "aborted">>}
    ELSE {<<p, mark>> : mark \in CASE cell[p].kids.reason = "Termination" -> {"revived"}
                                   [] cell[p].kids.reason = "Recreation" -> {"merged"}
                                   [] OTHER -> {}}

Recreate(p) == \E stopOk, startOk \in BOOLEAN :
    /\ Ready(p, "Recreate")
    /\ Hook(stopOk /\ startOk)
    /\ cell' = FaultRecreate(Popped(p), p, stopOk, startOk)
    /\ marks' = marks \cup RestartMark(p, stopOk)

SuspendStep(p) ==
    /\ Ready(p, "Suspend")
    /\ cell' = SuspendChildren(Suspend(Popped(p), p), p)
    /\ UNCHANGED <<events, marks>>

ResumeStep(p) ==
    /\ Ready(p, "Resume")
    /\ cell' = ResumeChildren([Resume(Popped(p), p) EXCEPT ![p].failed = "none"], p)
    /\ UNCHANGED <<events, marks>>

\* A directive that takes children out of the container, that puts one back,
\* or that resumes children that did not fail.
FailureMark(p, directive) ==
    LET disowns == directive = "Stop" /\ cell[p].kids.variant = "normal" IN
    (CASE disowns -> Affected(cell, p, About(p)) \X {"disowned"}
       [] ~disowns /\ About(p) \notin cell[p].kids.c -> {<<p, "readopted">>}
       [] OTHER -> {})
    \cup IF directive = "Resume" /\ p \in AllForOne THEN {<<p, "resumedAll">>} ELSE {}

Failure(p) == \E directive \in Directives, ok \in BOOLEAN :
    /\ Ready(p, "Failure")
    /\ Hook(ok)
    /\ cell' = HandleFailure(Popped(p), p, About(p), directive, ok)
    /\ marks' = marks \cup FailureMark(p, directive)

Watch(p) ==
    /\ Ready(p, "Watch")
    /\ cell' = [Popped(p) EXCEPT ![p].watchers = @ \cup {<<About(p), "User">>}]
    /\ UNCHANGED <<events, marks>>

Unwatch(p) ==
    /\ Ready(p, "Unwatch")
    /\ cell' = [Popped(p) EXCEPT ![p].watchers = @ \ {<<About(p), "User">>}]
    /\ UNCHANGED <<events, marks>>

StopChildStep(p) ==
    /\ Ready(p, "StopChild")
    /\ cell' = StopChild(Popped(p), p, About(p))
    /\ UNCHANGED <<events, marks>>

DeathWatchNotification(p) == \E ok \in BOOLEAN :
    /\ Ready(p, "DeathWatchNotification")
    /\ Hook(ok)
    /\ cell' = HandleDeathWatchNotification(Popped(p), p, About(p), ok)
    /\ UNCHANGED marks

\* Mutant: the cell is removed only once its system queue is empty.
RemoveDrained(p) ==
    /\ cell[p].life = "dead" /\ cell[p].sys = <<>>
    /\ cell' = [q \in Cells |->
          CASE q = p -> [NewCell("gone", {}, {}) EXCEPT !.boots = cell[p].boots]
            [] q \in ParentOf(p) \ {p} /\ ({p} \X Kinds) \cap cell[q].watching = {} ->
                    [cell[q] EXCEPT !.kids = RemoveChild(@, p)]
            [] OTHER -> cell[q]]
    /\ UNCHANGED <<events, marks>>

\* The rest of finish_terminate: unregister_child, remove_cell.  Removal
\* closes the mailbox, whose cleanup drops what its system queue holds.
Remove(p) ==
    /\ cell[p].life = "dead"
    /\ cell' = [q \in Cells |->
          CASE q = p -> [NewCell("gone", {}, {}) EXCEPT !.boots = cell[p].boots]
            [] q \in ParentOf(p) \ {p} /\ ({p} \X Kinds) \cap cell[q].watching = {} ->
                    [cell[q] EXCEPT !.kids = RemoveChild(@, p)]
            [] OTHER -> cell[q]]
    /\ marks' = marks \cup {<<cell[p].sys[i].of, "unheard">> :
                    i \in {j \in DOMAIN cell[p].sys : cell[p].sys[j].type = "Watch"}}
    /\ UNCHANGED events

(***************************************************************************)
(* User code.  It runs when the mailbox is not suspended, after Create.    *)
(***************************************************************************)
Running(p) ==
    /\ cell[p].life = "up"
    /\ cell[p].suspends = 0
    /\ \A i \in DOMAIN cell[p].sys : cell[p].sys[i].type # "Create"

\* A message handler returns an error, or Kill arrives.
Fail(p) ==
    /\ Running(p)
    /\ Count(1)
    /\ cell' = ReportFailure(cell, p)
    /\ UNCHANGED marks

PoisonPill(p) ==
    /\ Running(p)
    /\ Count(1)
    /\ cell' = HandleStop(cell, p)
    /\ UNCHANGED marks

\* stop_actor, ChildRef::stop, stop_self: from anywhere.
StopActor(p) ==
    /\ Registered(cell, p)
    /\ Count(1)
    /\ cell' = SendAll(cell, {p}, "Stop")
    /\ UNCHANGED marks

\* ActorSystem::terminate stops the user guardian through the root.
TerminateSystem(p) ==
    /\ p \in ChildrenOf(Root) /\ Registered(cell, Root)
    /\ Count(1)
    /\ cell' = SendOf(cell, Root, "StopChild", p)
    /\ UNCHANGED marks

WatchActor(p) == \E q \in Cells \ {p} :
    /\ Running(p)
    /\ cell[q].life # "new" /\ <<q, "User">> \notin cell[p].watching
    /\ Count(1)
    /\ cell' = SendOf([cell EXCEPT ![p].watching = @ \cup {<<q, "User">>}], q, "Watch", p)
    /\ UNCHANGED marks

UnwatchActor(p) == \E q \in Cells \ {p} :
    /\ Running(p)
    /\ <<q, "User">> \in cell[p].watching
    /\ Count(1)
    /\ cell' = SendOf([cell EXCEPT ![p].watching = @ \ {<<q, "User">>}], q, "Unwatch", p)
    /\ UNCHANGED marks

\* A parent spawns from its own handlers; ActorSystem spawns top-level
\* children from any thread, whatever the guardian is doing.
Spawn(p) == \E s \in ParentOf(p) :
    /\ cell[p].life = "new"
    /\ Running(s) \/ (s = Root /\ Registered(cell, Root))
    /\ Count(1)
    /\ cell' = [cell EXCEPT
            ![p] = [NewCell("up", {}, {s}) EXCEPT !.sys = <<[type |-> "Create"]>>],
            ![s].kids = AddChild(@, p),
            ![s].watching = @ \cup {<<p, "Supervision">>}]
    /\ marks' = marks \cup
            IF cell[s].life = "dead" \/ cell[s].kids.reason \in {"Recreation", "Termination"}
            THEN {<<p, "late">>} ELSE {}

SystemStep(p) ==
    \/ Create(p) \/ Stop(p) \/ Recreate(p) \/ SuspendStep(p) \/ ResumeStep(p) \/ Failure(p)
    \/ Watch(p) \/ Unwatch(p) \/ StopChildStep(p) \/ DeathWatchNotification(p) \/ Remove(p)

UserStep(p) ==
    \/ Fail(p) \/ PoisonPill(p) \/ StopActor(p) \/ TerminateSystem(p)
    \/ WatchActor(p) \/ UnwatchActor(p) \/ Spawn(p)

Next == \E p \in Cells : SystemStep(p) \/ UserStep(p)

Spec == Init /\ [][Next]_vars

\* The dispatcher runs a mailbox that holds system messages, suspended or
\* not; which one it runs first is its own choice.
FairSpec == Spec /\ WF_vars(\E p \in Cells : SystemStep(p))

(***************************************************************************)
(* Properties.                                                             *)
(***************************************************************************)
Marked(p, kinds) == \E kind \in kinds : <<p, kind>> \in marks
Live(p) == cell[p].life = "up"

\* The records have their types; a container waits for children it holds.
TypeOK ==
    /\ cell \in [Cells -> CellType]
    /\ events \in 0 .. MaxEvents
    /\ marks \in SUBSET (Cells \X {"ignored", "aborted", "revived", "merged", "disowned", "unheard",
                                   "late", "readopted", "resumedAll"})
    /\ \A p \in Cells : (cell[p].kids.variant = "terminating") <=> (cell[p].kids.toDie # {})

\* finish_terminate and finish_recreate run only once every child is
\* terminated: a cell that terminates, or whose actor is replaced by a fresh
\* instance, has no live child, except one that a Stop directive took out of
\* the container or that was spawned into a container already waiting.
ChildrenFirst ==
    [][\A p \in Cells \ {Root} :
          /\ \/ cell'[Parent[p]].life \in {"dead", "gone"}
             \/ cell'[Parent[p]].boots # cell[Parent[p]].boots
          /\ Live(p)'
          => Marked(p, {"disowned", "late"})']_vars

\* A failed actor handles no user message before its supervisor decided,
\* unless an AllForOne supervisor resumed children that had not failed, or a
\* supervisor resumes a child that was not in its container, and so not
\* suspended with the others, when it was suspended itself.
HeldUntilDecided ==
    \A p \in Cells \ {Root} :
        /\ Live(p) /\ \A s \in Cells : ~Marked(s, {"readopted", "resumedAll"})
        /\ \E i \in DOMAIN cell[Parent[p]].sys :
                cell[Parent[p]].sys[i] = [type |-> "Failure", of |-> p]
        => cell[p].suspends > 0

Quiet == \A p \in Cells : cell[p].sys = <<>> /\ cell[p].life # "dead"

\* When no system message is left, no live actor is left suspended or
\* waiting for children: suspends and resumes balance, and every wait ends.
\* Excepted are the restarts that gave up or fell upon another wait, the
\* failure in post_restart that a later restart does not repair, and who
\* waits for such a cell or is suspended with its parent.
NobodyStuck ==
    Quiet => \A p \in Cells : Live(p) =>
        \/ Marked(p, {"ignored", "aborted", "merged", "revived", "late"})
        \/ p # Root /\ cell[Parent[p]].suspends > 0
        \/ \E q \in cell[p].kids.toDie :
                Live(q) /\ (Marked(q, {"revived"}) \/ cell[q].kids.toDie # {})
        \/ /\ cell[p].suspends = 0 /\ cell[p].failed = "none"
           /\ cell[p].kids = NormalContainer({q \in ChildrenOf(p) : Live(q)})

\* When no system message is left, no watcher waits for a cell that is gone.
WatchersTold ==
    Quiet => \A p, q \in Cells :
        Live(p) /\ <<q, "User">> \in cell[p].watching /\ cell[q].life = "gone"
            => Marked(p, {"unheard"})

\* The claim without its exception: who watches a cell that ends hears of it.
WatchersAlwaysTold ==
    Quiet => \A p, q \in Cells :
        Live(p) /\ <<q, "User">> \in cell[p].watching => cell[q].life # "gone"

\* The cells stop talking: failures, escalations and notifications set off
\* no endless exchange of system messages.  With NobodyStuck, every stop,
\* restart and watch under way then has its outcome.
SettlesDown == []<>Quiet
=============================================================================
