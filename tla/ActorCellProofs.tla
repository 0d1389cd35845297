-------------------------- MODULE ActorCellProofs --------------------------
(***************************************************************************)
(* Proofs about ActorCell, for every actor tree: type correctness, that a  *)
(* cell terminates or restarts after its children, that who watches a cell *)
(* that ends is told, and that a failed actor stays suspended until its    *)
(* supervisor has decided about it.                                        *)
(***************************************************************************)
EXTENDS ActorCell, TLAPS

\* The messages of death watch.
Told(q) == [type |-> "DeathWatchNotification", of |-> q]
Ask(p) == [type |-> "Watch", of |-> p]
Recall(p) == [type |-> "Unwatch", of |-> p]

\* A container waits while it has children to wait for, and a terminated one is
\* empty.
KidsOK(k) ==
  /\ k.variant = "terminating" <=> k.toDie # {}
  /\ k.variant # "terminating" => k.reason = "none"
  /\ k.variant = "terminated" => k.c = {}

\* A live child, unless disowned or late, is in its parent's container, and among
\* the children waited for when the parent ends or restarts.
TreeOK(w, M) ==
  \A p \in Cells \ {Root} :
    w[p].life = "up" /\ <<p, "disowned">> \notin M /\ <<p, "late">> \notin M =>
      /\ w[Parent[p]].life = "up"
      /\ p \in w[Parent[p]].kids.c
      /\ w[Parent[p]].kids.reason \in {"Recreation", "Termination"} =>
           p \in w[Parent[p]].kids.toDie

\* A supervisor watches its live children, the ones it waits for and the ones
\* whose failure it has not handled; it handles that before their end.
SupervisedOK(w) ==
  /\ \A r \in Cells \ {Root} : w[r].life = "up" => w[Parent[r]].life # "new"
  /\ \A q \in Cells : w[q].life = "up" =>
       /\ \A r \in w[q].kids.c \cup w[q].kids.toDie : <<r, "Supervision">> \in w[q].watching
       /\ \A r \in ChildrenOf(q) : w[r].life = "up" => <<r, "Supervision">> \in w[q].watching
       /\ \A i \in DOMAIN w[q].sys : w[q].sys[i].type = "Failure" =>
            /\ <<w[q].sys[i].of, "Supervision">> \in w[q].watching
            /\ \A j \in DOMAIN w[q].sys : j < i => w[q].sys[j] # Told(w[q].sys[i].of)

\* A notification on its way is about a cell that has terminated.
DeathOK(w) ==
  \A p \in Cells : \A i \in DOMAIN w[p].sys :
    w[p].sys[i].type = "DeathWatchNotification" => w[w[p].sys[i].of].life \in {"dead", "gone"}

\* What a watcher can count on: the notification is queued, or its Watch is, or
\* the target knows it; and no Unwatch is behind.
Heard(w, p, q) == \E i \in DOMAIN w[p].sys : w[p].sys[i] = Told(q)
Asked(w, p, q) ==
  /\ Registered(w, q)
  /\ \E i \in DOMAIN w[q].sys :
       w[q].sys[i] = Ask(p) /\ \A j \in DOMAIN w[q].sys : j > i => w[q].sys[j] # Recall(p)
Known(w, p, q) ==
  /\ w[q].life = "up" /\ <<p, "User">> \in w[q].watchers
  /\ \A j \in DOMAIN w[q].sys : w[q].sys[j] # Recall(p)
WatchOK(w, M) ==
  \A p, q \in Cells :
    w[p].life = "up" /\ <<q, "User">> \in w[p].watching /\ <<p, "unheard">> \notin M =>
      Heard(w, p, q) \/ Asked(w, p, q) \/ Known(w, p, q)

\* The cells w are in order, what the marks M except aside.
Good(w, M) ==
  /\ w \in [Cells -> CellType]
  /\ \A p \in Cells : KidsOK(w[p].kids)
  /\ TreeOK(w, M) /\ SupervisedOK(w) /\ DeathOK(w) /\ WatchOK(w, M)

\* A live cell still takes children.
Open(w) == \A q \in Cells : w[q].life = "up" => w[q].kids.variant # "terminated"

\* No child of q is live, but for the exceptions M.
Alone(w, M, q) ==
  \A r \in ChildrenOf(q) :
    w[r].life = "up" => <<r, "disowned">> \in M \/ <<r, "late">> \in M

\* The inductive invariant.
IInv == TypeOK /\ Good(cell, marks) /\ Open(cell)

-----------------------------------------------------------------------------
(* Handlers that only talk                                                 *)

\* The messages of supervision q may be sent: everything but death watch, and a
\* failure only by a live child.
Chatter(w, q) ==
  [type : {"Stop", "Create", "Recreate", "Suspend", "Resume"}]
  \cup [type : {"StopChild"}, of : Cells]
  \cup [type : {"Failure"}, of : {r \in ChildrenOf(q) : w[r].life = "up"}]

\* t is s with messages of T behind it.
Longer(s, t, T) ==
  /\ Len(s) <= Len(t)
  /\ \A i \in 1 .. Len(s) : t[i] = s[i]
  /\ \A i \in Len(s) + 1 .. Len(t) : t[i] \in T

\* From w to v cells are sent messages of supervision, and suspended, resumed and
\* marked as failed; the tree and the watches stay, and only the cells of R may
\* have got a fresh actor.
Talk(w, v, R) ==
  /\ v \in [Cells -> CellType]
  /\ \A q \in Cells \ R : v[q].boots = w[q].boots
  /\ \A q \in Cells :
       /\ v[q].life = w[q].life /\ v[q].kids = w[q].kids
       /\ v[q].watchers = w[q].watchers /\ v[q].watching = w[q].watching
  /\ \A q \in Cells : Longer(w[q].sys, v[q].sys, Chatter(w, q))

\* The messages of supervision are messages and not about death watch, and they
\* depend on who is live.
LEMMA ChatterKinds ==
  ASSUME NEW w, NEW q \in Cells
  PROVE  /\ Chatter(w, q) \subseteq Message
         /\ \A m \in Chatter(w, q) : m.type \notin {"Watch", "Unwatch", "DeathWatchNotification"}
         /\ \A m \in Chatter(w, q) :
              m.type = "Failure" => m.of \in ChildrenOf(q) /\ w[m.of].life = "up"
  BY DEF Chatter, Message, ChildrenOf
\* Who is live decides what may be said.
LEMMA ChatterLife ==
  ASSUME NEW w, NEW v, NEW q, \A r \in Cells : v[r].life = w[r].life
  PROVE  Chatter(v, q) = Chatter(w, q)
<1>1. {r \in ChildrenOf(q) : w[r].life = "up"} = {r \in ChildrenOf(q) : v[r].life = "up"}
  BY DEF ChildrenOf
<1> QED
  BY <1>1 DEF Chatter

\* A queue grows by the message that is appended.
LEMMA LongerAppend ==
  ASSUME NEW s \in Seq(Message), NEW T \in SUBSET Message, NEW m \in T
  PROVE  Append(s, m) \in Seq(Message) /\ Longer(s, Append(s, m), T)
<1>1. m \in Message
  OBVIOUS
<1>2. Append(s, m) \in Seq(Message) /\ Len(Append(s, m)) = Len(s) + 1
  BY <1>1
<1>3. \A i \in 1 .. Len(s) : Append(s, m)[i] = s[i]
  BY <1>1
<1>4. \A i \in Len(s) + 1 .. Len(s) + 1 : Append(s, m)[i] = m
  BY <1>1
<1> QED
  BY <1>2, <1>3, <1>4 DEF Longer

\* A queue that stays is no shorter.
LEMMA LongerRefl == ASSUME NEW s \in Seq(Message), NEW T PROVE Longer(s, s, T)
  BY DEF Longer

\* Talk can be continued.
LEMMA TalkTrans ==
  ASSUME NEW u \in [Cells -> CellType], NEW v \in [Cells -> CellType],
         NEW w \in [Cells -> CellType], NEW R,
         Talk(u, v, R), Talk(v, w, {})
  PROVE  Talk(u, w, R)
<1>1. ASSUME NEW q \in Cells PROVE Longer(u[q].sys, w[q].sys, Chatter(u, q))
  <2> DEFINE r == u[q].sys
             s == v[q].sys
             t == w[q].sys
             T == Chatter(u, q)
  <2>1. r \in Seq(Message) /\ s \in Seq(Message) /\ t \in Seq(Message)
    BY DEF CellType
  <2>0. T = Chatter(v, q)
    BY ChatterLife DEF Talk
  <2>2. Longer(r, s, T) /\ Longer(s, t, T)
    BY <2>0 DEF Talk
  <2> HIDE DEF r, s, t, T
  <2>3. Len(r) \in Nat /\ Len(s) \in Nat /\ Len(t) \in Nat
    BY <2>1
  <2> QED
    BY <2>2, <2>3 DEF Longer, r, s, t, T
<1> QED
  BY <1>1 DEF Talk

\* Sets of watches.
Entries == SUBSET (Cells \X Kinds)

\* The fields of a cell.
LEMMA CellFields ==
  ASSUME NEW c \in CellType
  PROVE  /\ c.sys \in Seq(Message) /\ c.suspends \in Nat /\ c.boots \in Nat
         /\ c.failed \in {"none", "Child", "Fatal"} /\ c.kids \in Container
         /\ c.life \in {"new", "up", "dead", "gone"}
         /\ c.watchers \in Entries /\ c.watching \in Entries
         /\ DOMAIN c = {"life", "sys", "suspends", "kids", "failed", "watchers", "watching",
                        "boots"}
<1>1. CellType = [life : {"new", "up", "dead", "gone"}, sys : Seq(Message), suspends : Nat,
             kids : Container, failed : {"none", "Child", "Fatal"},
             watchers : Entries, watching : Entries, boots : Nat]
  BY DEF CellType, Entries
<1> QED
  BY <1>1

\* A cell with another life.
LEMMA LifeSet ==
  ASSUME NEW c \in CellType, NEW x \in {"new", "up", "dead", "gone"}, NEW d, d = [c EXCEPT !.life = x]
  PROVE  /\ d \in CellType /\ d.life = x
         /\ d.sys = c.sys /\ d.suspends = c.suspends /\ d.kids = c.kids /\ d.failed = c.failed
         /\ d.watchers = c.watchers /\ d.watching = c.watching /\ d.boots = c.boots
<1>1. CellType = [life : {"new", "up", "dead", "gone"}, sys : Seq(Message), suspends : Nat,
             kids : Container, failed : {"none", "Child", "Fatal"},
             watchers : Entries, watching : Entries, boots : Nat]
  BY DEF CellType, Entries
<1> QED
  BY <1>1

\* A cell with another sys.
LEMMA SysSet ==
  ASSUME NEW c \in CellType, NEW x \in Seq(Message), NEW d, d = [c EXCEPT !.sys = x]
  PROVE  /\ d \in CellType /\ d.sys = x
         /\ d.life = c.life /\ d.suspends = c.suspends /\ d.kids = c.kids /\ d.failed = c.failed
         /\ d.watchers = c.watchers /\ d.watching = c.watching /\ d.boots = c.boots
<1>1. CellType = [life : {"new", "up", "dead", "gone"}, sys : Seq(Message), suspends : Nat,
             kids : Container, failed : {"none", "Child", "Fatal"},
             watchers : Entries, watching : Entries, boots : Nat]
  BY DEF CellType, Entries
<1> QED
  BY <1>1

\* A cell with another suspends.
LEMMA SuspendsSet ==
  ASSUME NEW c \in CellType, NEW x \in Nat, NEW d, d = [c EXCEPT !.suspends = x]
  PROVE  /\ d \in CellType /\ d.suspends = x
         /\ d.life = c.life /\ d.sys = c.sys /\ d.kids = c.kids /\ d.failed = c.failed
         /\ d.watchers = c.watchers /\ d.watching = c.watching /\ d.boots = c.boots
<1>1. CellType = [life : {"new", "up", "dead", "gone"}, sys : Seq(Message), suspends : Nat,
             kids : Container, failed : {"none", "Child", "Fatal"},
             watchers : Entries, watching : Entries, boots : Nat]
  BY DEF CellType, Entries
<1> QED
  BY <1>1

\* A cell with another kids.
LEMMA KidsSet ==
  ASSUME NEW c \in CellType, NEW x \in Container, NEW d, d = [c EXCEPT !.kids = x]
  PROVE  /\ d \in CellType /\ d.kids = x
         /\ d.life = c.life /\ d.sys = c.sys /\ d.suspends = c.suspends /\ d.failed = c.failed
         /\ d.watchers = c.watchers /\ d.watching = c.watching /\ d.boots = c.boots
<1>1. CellType = [life : {"new", "up", "dead", "gone"}, sys : Seq(Message), suspends : Nat,
             kids : Container, failed : {"none", "Child", "Fatal"},
             watchers : Entries, watching : Entries, boots : Nat]
  BY DEF CellType, Entries
<1> QED
  BY <1>1

\* A cell with another failed.
LEMMA FailedSet ==
  ASSUME NEW c \in CellType, NEW x \in {"none", "Child", "Fatal"}, NEW d, d = [c EXCEPT !.failed = x]
  PROVE  /\ d \in CellType /\ d.failed = x
         /\ d.life = c.life /\ d.sys = c.sys /\ d.suspends = c.suspends /\ d.kids = c.kids
         /\ d.watchers = c.watchers /\ d.watching = c.watching /\ d.boots = c.boots
<1>1. CellType = [life : {"new", "up", "dead", "gone"}, sys : Seq(Message), suspends : Nat,
             kids : Container, failed : {"none", "Child", "Fatal"},
             watchers : Entries, watching : Entries, boots : Nat]
  BY DEF CellType, Entries
<1> QED
  BY <1>1

\* A cell with another watchers.
LEMMA WatchersSet ==
  ASSUME NEW c \in CellType, NEW x \in Entries, NEW d, d = [c EXCEPT !.watchers = x]
  PROVE  /\ d \in CellType /\ d.watchers = x
         /\ d.life = c.life /\ d.sys = c.sys /\ d.suspends = c.suspends /\ d.kids = c.kids
         /\ d.failed = c.failed /\ d.watching = c.watching /\ d.boots = c.boots
<1>1. CellType = [life : {"new", "up", "dead", "gone"}, sys : Seq(Message), suspends : Nat,
             kids : Container, failed : {"none", "Child", "Fatal"},
             watchers : Entries, watching : Entries, boots : Nat]
  BY DEF CellType, Entries
<1> QED
  BY <1>1

\* A cell with another watching.
LEMMA WatchingSet ==
  ASSUME NEW c \in CellType, NEW x \in Entries, NEW d, d = [c EXCEPT !.watching = x]
  PROVE  /\ d \in CellType /\ d.watching = x
         /\ d.life = c.life /\ d.sys = c.sys /\ d.suspends = c.suspends /\ d.kids = c.kids
         /\ d.failed = c.failed /\ d.watchers = c.watchers /\ d.boots = c.boots
<1>1. CellType = [life : {"new", "up", "dead", "gone"}, sys : Seq(Message), suspends : Nat,
             kids : Container, failed : {"none", "Child", "Fatal"},
             watchers : Entries, watching : Entries, boots : Nat]
  BY DEF CellType, Entries
<1> QED
  BY <1>1

\* A cell with another boots.
LEMMA BootsSet ==
  ASSUME NEW c \in CellType, NEW x \in Nat, NEW d, d = [c EXCEPT !.boots = x]
  PROVE  /\ d \in CellType /\ d.boots = x
         /\ d.life = c.life /\ d.sys = c.sys /\ d.suspends = c.suspends /\ d.kids = c.kids
         /\ d.failed = c.failed /\ d.watchers = c.watchers /\ d.watching = c.watching
<1>1. CellType = [life : {"new", "up", "dead", "gone"}, sys : Seq(Message), suspends : Nat,
             kids : Container, failed : {"none", "Child", "Fatal"},
             watchers : Entries, watching : Entries, boots : Nat]
  BY DEF CellType, Entries
<1> QED
  BY <1>1

\* Suspending, resuming and failing a cell say nothing.
LEMMA AdjustTalk ==
  ASSUME NEW w \in [Cells -> CellType], NEW p \in Cells
  PROVE  /\ Suspend(w, p) \in [Cells -> CellType] /\ Talk(w, Suspend(w, p), {})
         /\ Resume(w, p) \in [Cells -> CellType] /\ Talk(w, Resume(w, p), {})
         /\ \A f \in {"none", "Child", "Fatal"} :
              /\ [w EXCEPT ![p].failed = f] \in [Cells -> CellType]
              /\ Talk(w, [w EXCEPT ![p].failed = f], {})
<1>0. \A q \in Cells : w[q] \in CellType /\ Longer(w[q].sys, w[q].sys, Chatter(w, q))
  BY LongerRefl, CellFields
<1>1. ASSUME NEW c \in CellType, NEW v, v = [w EXCEPT ![p] = c],
             c.life = w[p].life, c.kids = w[p].kids, c.boots = w[p].boots,
             c.watchers = w[p].watchers, c.watching = w[p].watching, c.sys = w[p].sys
      PROVE  v \in [Cells -> CellType] /\ Talk(w, v, {})
  <2>1. v \in [Cells -> CellType] /\ \A q \in Cells : v[q] = IF q = p THEN c ELSE w[q]
    BY <1>1
  <2> QED
    BY <1>0, <1>1, <2>1 DEF Talk
<1>3. w[p].suspends \in Nat
  BY <1>0, CellFields
<1>4. Suspend(w, p) \in [Cells -> CellType] /\ Talk(w, Suspend(w, p), {})
  <2> DEFINE n == w[p].suspends + 1
             c == [w[p] EXCEPT !.suspends = n]
  <2>1. Suspend(w, p) = [w EXCEPT ![p] = c]
    BY DEF Suspend
  <2>2. n \in Nat
    BY <1>3
  <2> HIDE DEF n
  <2>3. /\ c \in CellType
        /\ c.life = w[p].life /\ c.kids = w[p].kids /\ c.boots = w[p].boots
        /\ c.watchers = w[p].watchers /\ c.watching = w[p].watching /\ c.sys = w[p].sys
    BY <1>0, <2>2, SuspendsSet
  <2> HIDE DEF c
  <2> QED
    BY <1>1, <2>1, <2>3
<1>5. Resume(w, p) \in [Cells -> CellType] /\ Talk(w, Resume(w, p), {})
  <2> DEFINE n == IF w[p].suspends = 0 THEN 0 ELSE w[p].suspends - 1
             c == [w[p] EXCEPT !.suspends = n]
  <2>1. Resume(w, p) = [w EXCEPT ![p] = c]
    BY DEF Resume
  <2>2. n \in Nat
    BY <1>3
  <2> HIDE DEF n
  <2>3. /\ c \in CellType
        /\ c.life = w[p].life /\ c.kids = w[p].kids /\ c.boots = w[p].boots
        /\ c.watchers = w[p].watchers /\ c.watching = w[p].watching /\ c.sys = w[p].sys
    BY <1>0, <2>2, SuspendsSet
  <2> HIDE DEF c
  <2> QED
    BY <1>1, <2>1, <2>3
<1>6. ASSUME NEW f \in {"none", "Child", "Fatal"}
      PROVE  /\ [w EXCEPT ![p].failed = f] \in [Cells -> CellType]
             /\ Talk(w, [w EXCEPT ![p].failed = f], {})
  <2> DEFINE c == [w[p] EXCEPT !.failed = f]
  <2>1. /\ c \in CellType
        /\ c.life = w[p].life /\ c.kids = w[p].kids /\ c.boots = w[p].boots
        /\ c.watchers = w[p].watchers /\ c.watching = w[p].watching /\ c.sys = w[p].sys
    BY <1>0, FailedSet
  <2>3. [w EXCEPT ![p].failed = f] = [w EXCEPT ![p] = c]
    OBVIOUS
  <2> HIDE DEF c
  <2> QED
    BY <1>1, <2>1, <2>3
<1> QED
  BY <1>4, <1>5, <1>6

\* Sending supervision messages is talk.
LEMMA SendAllTalk ==
  ASSUME NEW w \in [Cells -> CellType], NEW S,
         NEW type \in {"Stop", "Create", "Recreate", "Suspend", "Resume"}
  PROVE  SendAll(w, S, type) \in [Cells -> CellType] /\ Talk(w, SendAll(w, S, type), {})
<1> DEFINE m == [type |-> type]
           v == SendAll(w, S, type)
<1>0. \A q \in Cells : m \in Chatter(w, q) /\ Chatter(w, q) \in SUBSET Message
  BY ChatterKinds DEF Chatter
<1>1. \A q \in Cells : /\ w[q] \in CellType /\ w[q].sys \in Seq(Message)
                       /\ Append(w[q].sys, m) \in Seq(Message)
                       /\ Longer(w[q].sys, Append(w[q].sys, m), Chatter(w, q))
                       /\ Longer(w[q].sys, w[q].sys, Chatter(w, q))
  BY <1>0, LongerAppend, LongerRefl, CellFields
<1>2. \A q \in Cells : v[q] = w[q] \/ v[q] = [w[q] EXCEPT !.sys = Append(w[q].sys, m)]
  BY DEF SendAll
<1>3. v \in [Cells -> CellType]
  <2>1. \A q \in Cells : [w[q] EXCEPT !.sys = Append(w[q].sys, m)] \in CellType
    <3> HIDE DEF m
    <3> QED
      BY <1>1 DEF CellType
  <2>2. v = [q \in Cells |-> v[q]]
    BY DEF SendAll
  <2> HIDE DEF v
  <2>3. \A q \in Cells : v[q] \in CellType
    BY <1>1, <1>2, <2>1
  <2> QED
    BY <2>2, <2>3
<1> HIDE DEF m, v
<1>4. \A q \in Cells : Longer(w[q].sys, v[q].sys, Chatter(w, q))
  BY <1>1, <1>2 DEF CellType
<1>5. \A q \in Cells :
       /\ v[q].life = w[q].life /\ v[q].kids = w[q].kids /\ v[q].boots = w[q].boots
       /\ v[q].watchers = w[q].watchers /\ v[q].watching = w[q].watching
  BY <1>1, <1>2 DEF CellType
<1> QED
  BY <1>3, <1>4, <1>5 DEF Talk, v

\* So is sending a message of supervision that names a cell.
LEMMA SendOfTalk ==
  ASSUME NEW w \in [Cells -> CellType], NEW q \in Cells, NEW p \in Cells,
         NEW type \in {"Failure", "StopChild"},
         type = "Failure" => p \in ChildrenOf(q) /\ w[p].life = "up"
  PROVE  SendOf(w, q, type, p) \in [Cells -> CellType] /\ Talk(w, SendOf(w, q, type, p), {})
<1> DEFINE m == [type |-> type, of |-> p]
           v == SendOf(w, q, type, p)
<1>0. m \in Chatter(w, q) /\ Chatter(w, q) \in SUBSET Message
  BY ChatterKinds DEF Chatter
<1>1. /\ \A r \in Cells : /\ w[r] \in CellType /\ w[r].sys \in Seq(Message)
                          /\ Longer(w[r].sys, w[r].sys, Chatter(w, r))
      /\ Append(w[q].sys, m) \in Seq(Message)
      /\ Longer(w[q].sys, Append(w[q].sys, m), Chatter(w, q))
  BY <1>0, LongerAppend, LongerRefl, CellFields
<1> DEFINE c == [w[q] EXCEPT !.sys = Append(w[q].sys, m)]
<1>2. v = w \/ v = [w EXCEPT ![q] = c]
  BY DEF SendOf
<1>3. /\ c \in CellType /\ c.sys = Append(w[q].sys, m) /\ c.life = w[q].life
      /\ c.kids = w[q].kids /\ c.boots = w[q].boots
      /\ c.watchers = w[q].watchers /\ c.watching = w[q].watching
  <2> DEFINE x == Append(w[q].sys, m)
  <2>1. x \in Seq(Message) /\ w[q] \in CellType
    BY <1>1
  <2>2. c = [w[q] EXCEPT !.sys = x]
    OBVIOUS
  <2>3. x = Append(w[q].sys, m)
    OBVIOUS
  <2> HIDE DEF m, c, x
  <2>4. /\ c \in CellType /\ c.sys = x /\ c.life = w[q].life
        /\ c.kids = w[q].kids /\ c.boots = w[q].boots
        /\ c.watchers = w[q].watchers /\ c.watching = w[q].watching
    BY <2>1, <2>2, SysSet
  <2> QED
    BY <2>3, <2>4
<1> HIDE DEF m, v, c
<1>4. v \in [Cells -> CellType] /\ \A r \in Cells : v[r] = w[r] \/ (r = q /\ v[r] = c)
  BY <1>2, <1>3
<1>5. \A r \in Cells :
       /\ v[r].life = w[r].life /\ v[r].kids = w[r].kids /\ v[r].boots = w[r].boots
       /\ v[r].watchers = w[r].watchers /\ v[r].watching = w[r].watching
       /\ Longer(w[r].sys, v[r].sys, Chatter(w, r))
  BY <1>1, <1>3, <1>4
<1> QED
  BY <1>4, <1>5 DEF Talk, v

\* A cell is replaced by another record.
LEMMA CellSet ==
  ASSUME NEW w \in [Cells -> CellType], NEW p \in Cells, NEW c \in CellType
  PROVE  /\ [w EXCEPT ![p] = c] \in [Cells -> CellType]
         /\ \A q \in Cells : [w EXCEPT ![p] = c][q] = IF q = p THEN c ELSE w[q]
  OBVIOUS

\* So is reporting a failure to the supervisor.
LEMMA ReportTalk ==
  ASSUME NEW w \in [Cells -> CellType], NEW p \in Cells, w[p].life = "up"
  PROVE  ReportFailure(w, p) \in [Cells -> CellType] /\ Talk(w, ReportFailure(w, p), {})
<1> DEFINE f == IF w[p].failed = "none" THEN "Child" ELSE w[p].failed
           u == [w EXCEPT ![p].failed = f]
           held == Suspend(u, p)
           quiet == SuspendChildren(held, p)
<1>0. f \in {"none", "Child", "Fatal"}
  BY CellFields
<1>1. u \in [Cells -> CellType] /\ Talk(w, u, {})
  <2> HIDE DEF f
  <2> QED
    BY <1>0, AdjustTalk
<1> HIDE DEF u
<1>2. held \in [Cells -> CellType] /\ Talk(u, held, {})
  BY <1>1, AdjustTalk
<1> HIDE DEF held
<1>3. quiet \in [Cells -> CellType] /\ Talk(held, quiet, {})
  BY <1>2, SendAllTalk DEF SuspendChildren
<1> HIDE DEF quiet
<1>4. Talk(w, quiet, {})
  <2>1. Talk(w, held, {})
    BY <1>1, <1>2, TalkTrans
  <2> QED
    BY <1>2, <1>3, <2>1, TalkTrans
<1>5. ASSUME NEW v \in [Cells -> CellType], Talk(quiet, v, {})
      PROVE  Talk(w, v, {})
  BY <1>3, <1>4, <1>5, TalkTrans
<1>6. CASE \E s \in ParentOf(p) : Registered(quiet, s)
  <2>1. p # Root /\ Parent[p] \in Cells
    BY <1>6, TreeAssumption DEF ParentOf
  <2>2. ReportFailure(w, p) = SendOf(quiet, Parent[p], "Failure", p)
    BY <1>6 DEF ReportFailure, quiet, held, u, f
  <2>3. p \in ChildrenOf(Parent[p]) /\ quiet[p].life = "up"
    BY <1>4, <2>1 DEF ChildrenOf, Talk
  <2> QED
    BY <1>3, <1>5, <2>1, <2>2, <2>3, SendOfTalk
<1>7. CASE ~\E s \in ParentOf(p) : Registered(quiet, s)
  <2>1. ReportFailure(w, p) = SendAll(quiet, {p}, "Stop")
    BY <1>7 DEF ReportFailure, quiet, held, u, f
  <2> QED
    BY <1>3, <1>5, <2>1, SendAllTalk
<1> QED
  BY <1>6, <1>7

\* So is what a directive does to the affected children.
LEMMA DirectiveTalk ==
  ASSUME NEW w \in [Cells -> CellType], NEW p \in Cells, w[p].life = "up",
         NEW child, NEW affected,
         NEW directive \in {"Resume", "Restart", "Stop", "Escalate"}
  PROVE  /\ ApplyDirective(w, p, child, affected, directive) \in [Cells -> CellType]
         /\ Talk(w, ApplyDirective(w, p, child, affected, directive), {})
<1> DEFINE siblings == {q \in affected \ {child} : Registered(w, q)}
           held == [q \in Cells |-> IF q \in siblings
                                    THEN [w[q] EXCEPT !.suspends = @ + 1] ELSE w[q]]
           quiet == SendAll(held, UNION {w[q].kids.c : q \in siblings}, "Suspend")
           told == SendAll(quiet, affected, "Recreate")
           stopped == SendAll(w, affected, "Stop")
           v == ApplyDirective(w, p, child, affected, directive)
<1>1. held \in [Cells -> CellType] /\ Talk(w, held, {})
  <2>1. ASSUME NEW q \in Cells
        PROVE  /\ held[q] \in CellType /\ held[q].life = w[q].life /\ held[q].kids = w[q].kids
               /\ held[q].boots = w[q].boots /\ held[q].watchers = w[q].watchers
               /\ held[q].watching = w[q].watching /\ held[q].sys = w[q].sys
               /\ Longer(w[q].sys, w[q].sys, Chatter(w, q))
    <3> DEFINE n == w[q].suspends + 1
               c == [w[q] EXCEPT !.suspends = n]
    <3>1. held[q] = w[q] \/ held[q] = c
      OBVIOUS
    <3>2. w[q] \in CellType /\ n \in Nat /\ Longer(w[q].sys, w[q].sys, Chatter(w, q))
      BY CellFields, LongerRefl
    <3> HIDE DEF n
    <3>3. /\ c \in CellType /\ c.life = w[q].life /\ c.kids = w[q].kids /\ c.boots = w[q].boots
          /\ c.watchers = w[q].watchers /\ c.watching = w[q].watching /\ c.sys = w[q].sys
      BY <3>2, SuspendsSet
    <3> HIDE DEF c, held
    <3> QED
      BY <3>1, <3>2, <3>3
  <2>2. held = [q \in Cells |-> held[q]]
    OBVIOUS
  <2> HIDE DEF held
  <2>3. held \in [Cells -> CellType]
    BY <2>1, <2>2
  <2> QED
    BY <2>1, <2>3 DEF Talk
<1> HIDE DEF siblings, held
<1>2. quiet \in [Cells -> CellType] /\ Talk(held, quiet, {})
  BY <1>1, SendAllTalk
<1> HIDE DEF quiet
<1>3. told \in [Cells -> CellType] /\ Talk(quiet, told, {})
  BY <1>2, SendAllTalk
<1>4. Talk(w, told, {})
  <2> HIDE DEF told
  <2>1. Talk(w, quiet, {})
    BY <1>1, <1>2, TalkTrans
  <2> QED
    BY <1>2, <1>3, <2>1, TalkTrans
<1>5. stopped \in [Cells -> CellType] /\ Talk(w, stopped, {})
  BY SendAllTalk
<1> HIDE DEF told, stopped
<1>6. CASE directive = "Restart"
  <2>1. v = told \/ v = ReportFailure(told, p)
    BY <1>6 DEF ApplyDirective, told, quiet, held, siblings
  <2>2. ReportFailure(told, p) \in [Cells -> CellType] /\ Talk(w, ReportFailure(told, p), {})
    <3>1. told[p].life = "up"
      BY <1>4 DEF Talk
    <3> QED
      BY <1>3, <1>4, <3>1, ReportTalk, TalkTrans
  <2> QED
    BY <1>3, <1>4, <2>1, <2>2
<1>7. CASE directive = "Stop"
  <2>1. v = stopped
    BY <1>7 DEF ApplyDirective, stopped
  <2> QED
    BY <1>5, <2>1
<1>8. CASE directive = "Escalate"
  <2>1. v = ReportFailure(stopped, p)
    BY <1>8 DEF ApplyDirective, stopped
  <2>2. stopped[p].life = "up"
    BY <1>5 DEF Talk
  <2> QED
    BY <1>5, <2>1, <2>2, ReportTalk, TalkTrans
<1>9. CASE directive = "Resume"
  <2>1. v = SendAll(w, affected, "Resume")
    BY <1>9 DEF ApplyDirective
  <2> QED
    BY <2>1, SendAllTalk
<1> QED
  BY <1>6, <1>7, <1>8, <1>9

\* A fresh actor is talk that renews one cell.
LEMMA FinishTalk ==
  ASSUME NEW w \in [Cells -> CellType], NEW p \in Cells, w[p].life = "up", NEW ok \in BOOLEAN
  PROVE  /\ FinishRecreate(w, p, ok) \in [Cells -> CellType]
         /\ Talk(w, FinishRecreate(w, p, ok), {p})
<1> DEFINE n == w[p].boots + 1
           c == [w[p] EXCEPT !.failed = "none", !.boots = n]
           u == [w EXCEPT ![p] = c]
           fresh == Resume(u, p)
           fatal == [fresh EXCEPT ![p].failed = "Fatal"]
<1>1. /\ w[p] \in CellType /\ n \in Nat
      /\ \A q \in Cells : Longer(w[q].sys, w[q].sys, Chatter(w, q))
  BY CellFields, LongerRefl
<1>2. /\ c \in CellType /\ c.life = w[p].life /\ c.kids = w[p].kids /\ c.sys = w[p].sys
      /\ c.watchers = w[p].watchers /\ c.watching = w[p].watching
  <2> HIDE DEF n
  <2> DEFINE d == [w[p] EXCEPT !.failed = "none"]
  <2>1. /\ d \in CellType /\ d.life = w[p].life /\ d.kids = w[p].kids /\ d.sys = w[p].sys
        /\ d.watchers = w[p].watchers /\ d.watching = w[p].watching
    BY <1>1, FailedSet
  <2>2. c = [d EXCEPT !.boots = n]
    OBVIOUS
  <2> HIDE DEF d, c
  <2> QED
    BY <1>1, <2>1, <2>2, BootsSet
<1>3. u = [w EXCEPT ![p].failed = "none", ![p].boots = @ + 1]
  OBVIOUS
<1> HIDE DEF c
<1>4. u \in [Cells -> CellType] /\ \A q \in Cells : u[q] = IF q = p THEN c ELSE w[q]
  BY <1>2, CellSet
<1> HIDE DEF u
<1>5. Talk(w, u, {p})
  BY <1>1, <1>2, <1>4 DEF Talk
<1>6. fresh \in [Cells -> CellType] /\ Talk(w, fresh, {p})
  BY <1>4, <1>5, AdjustTalk, TalkTrans
<1>7. FinishRecreate(w, p, ok) = IF ok THEN fresh ELSE ReportFailure(fatal, p)
  BY <1>3 DEF FinishRecreate
<1> HIDE DEF fresh
<1>8. fatal \in [Cells -> CellType] /\ Talk(fresh, fatal, {})
  BY <1>6, AdjustTalk
<1> HIDE DEF fatal
<1>9. Talk(w, fatal, {p})
  BY <1>6, <1>8, TalkTrans
<1>10. ReportFailure(fatal, p) \in [Cells -> CellType] /\ Talk(w, ReportFailure(fatal, p), {p})
  <2>1. fatal[p].life = "up"
    BY <1>9 DEF Talk
  <2> QED
    BY <1>8, <1>9, <2>1, ReportTalk, TalkTrans
<1> QED
  BY <1>6, <1>7, <1>10

-----------------------------------------------------------------------------
(* What talk leaves true                                                   *)

\* Talk keeps the tree, the notifications and the watches as they are.
LEMMA TalkKeeps ==
  ASSUME NEW w \in [Cells -> CellType], NEW v \in [Cells -> CellType], NEW R, Talk(w, v, R)
  PROVE  /\ (\A p \in Cells : KidsOK(w[p].kids)) => \A p \in Cells : KidsOK(v[p].kids)
         /\ \A M : TreeOK(w, M) => TreeOK(v, M)
         /\ DeathOK(w) => DeathOK(v)
         /\ DeathOK(w) /\ SupervisedOK(w) => SupervisedOK(v)
         /\ \A M : WatchOK(w, M) => WatchOK(v, M)
<1>0. \A q \in Cells :
        /\ v[q].life = w[q].life /\ v[q].kids = w[q].kids
        /\ v[q].watchers = w[q].watchers /\ v[q].watching = w[q].watching
  BY DEF Talk
<1>1. \A q \in Cells :
        /\ DOMAIN w[q].sys \subseteq DOMAIN v[q].sys
        /\ \A i \in DOMAIN w[q].sys : v[q].sys[i] = w[q].sys[i]
        /\ \A i \in DOMAIN v[q].sys : i \in DOMAIN w[q].sys \/ v[q].sys[i] \in Chatter(w, q)
  <2> SUFFICES ASSUME NEW q \in Cells
               PROVE  /\ DOMAIN w[q].sys \subseteq DOMAIN v[q].sys
                      /\ \A i \in DOMAIN w[q].sys : v[q].sys[i] = w[q].sys[i]
                      /\ \A i \in DOMAIN v[q].sys : i \in DOMAIN w[q].sys \/ v[q].sys[i] \in Chatter(w, q)
    OBVIOUS
  <2>1. w[q].sys \in Seq(Message) /\ v[q].sys \in Seq(Message) /\ Longer(w[q].sys, v[q].sys, Chatter(w, q))
    BY CellFields DEF Talk
  <2>2. DOMAIN w[q].sys = 1 .. Len(w[q].sys) /\ DOMAIN v[q].sys = 1 .. Len(v[q].sys)
        /\ Len(w[q].sys) \in Nat /\ Len(v[q].sys) \in Nat
    BY <2>1
  <2>3. \A i \in 1 .. Len(v[q].sys) :
          i \in 1 .. Len(w[q].sys) \/ i \in Len(w[q].sys) + 1 .. Len(v[q].sys)
    BY <2>2
  <2> QED
    BY <2>1, <2>2, <2>3 DEF Longer
<1>2. (\A p \in Cells : KidsOK(w[p].kids)) => \A p \in Cells : KidsOK(v[p].kids)
  BY <1>0
<1>3. ASSUME NEW M, TreeOK(w, M) PROVE TreeOK(v, M)
  <2>1. \A p \in Cells \ {Root} : Parent[p] \in Cells
    BY TreeAssumption
  <2> QED
    BY <1>0, <1>3, <2>1 DEF TreeOK
<1>4. ASSUME DeathOK(w) PROVE DeathOK(v)
  <2> SUFFICES ASSUME NEW p \in Cells, NEW i \in DOMAIN v[p].sys,
                      v[p].sys[i].type = "DeathWatchNotification"
               PROVE  v[v[p].sys[i].of].life \in {"dead", "gone"}
    BY DEF DeathOK
  <2>1. i \in DOMAIN w[p].sys /\ v[p].sys[i] = w[p].sys[i]
    BY <1>1, ChatterKinds
  <2>2. w[p].sys[i] \in Message
    BY <2>1, CellFields
  <2>3. w[p].sys[i].of \in Cells
    BY <2>1, <2>2 DEF Message
  <2> QED
    BY <1>0, <1>4, <2>1, <2>3 DEF DeathOK
<1>5. ASSUME NEW M, WatchOK(w, M) PROVE WatchOK(v, M)
  <2> SUFFICES ASSUME NEW p \in Cells, NEW q \in Cells, v[p].life = "up",
                      <<q, "User">> \in v[p].watching, <<p, "unheard">> \notin M
               PROVE  Heard(v, p, q) \/ Asked(v, p, q) \/ Known(v, p, q)
    BY DEF WatchOK
  <2>0. \A i \in DOMAIN v[q].sys : v[q].sys[i] = Recall(p) => i \in DOMAIN w[q].sys
    BY <1>1, ChatterKinds DEF Recall
  <2>1. CASE Heard(w, p, q)
    BY <1>1, <2>1 DEF Heard
  <2>2. CASE Asked(w, p, q)
    <3>1. PICK i \in DOMAIN w[q].sys :
             w[q].sys[i] = Ask(p) /\ \A j \in DOMAIN w[q].sys : j > i => w[q].sys[j] # Recall(p)
      BY <2>2 DEF Asked
    <3>2. Registered(v, q)
      BY <1>0, <2>2 DEF Asked, Registered
    <3>3. \A j \in DOMAIN v[q].sys : j > i => v[q].sys[j] # Recall(p)
      BY <1>1, <2>0, <3>1
    <3> QED
      BY <1>1, <3>1, <3>2, <3>3 DEF Asked
  <2>3. CASE Known(w, p, q)
    BY <1>0, <1>1, <2>0, <2>3 DEF Known
  <2> QED
    BY <1>0, <1>5, <2>1, <2>2, <2>3 DEF WatchOK
<1>6. ASSUME DeathOK(w), SupervisedOK(w) PROVE SupervisedOK(v)
  <2>1. \A r \in Cells \ {Root} : v[r].life = "up" => v[Parent[r]].life # "new"
    BY <1>0, <1>6, TreeAssumption DEF SupervisedOK
  <2>2. ASSUME NEW q \in Cells, v[q].life = "up"
        PROVE  /\ \A r \in v[q].kids.c \cup v[q].kids.toDie : <<r, "Supervision">> \in v[q].watching
               /\ \A r \in ChildrenOf(q) : v[r].life = "up" => <<r, "Supervision">> \in v[q].watching
    BY <1>0, <1>6, <2>2 DEF SupervisedOK, ChildrenOf
  <2>3. ASSUME NEW q \in Cells, v[q].life = "up", NEW i \in DOMAIN v[q].sys,
               v[q].sys[i].type = "Failure"
        PROVE  /\ <<v[q].sys[i].of, "Supervision">> \in v[q].watching
               /\ \A j \in DOMAIN v[q].sys : j < i => v[q].sys[j] # Told(v[q].sys[i].of)
    <3>1. \A j \in DOMAIN v[q].sys : \A r : v[q].sys[j] = Told(r) => j \in DOMAIN w[q].sys
      BY <1>1, ChatterKinds DEF Told
    <3>2. CASE i \in DOMAIN w[q].sys
      <4>1. /\ v[q].sys[i] = w[q].sys[i] /\ w[q].life = "up" /\ w[q].watching = v[q].watching
        BY <1>0, <1>1, <2>3, <3>2
      <4>2. /\ <<w[q].sys[i].of, "Supervision">> \in w[q].watching
            /\ \A j \in DOMAIN w[q].sys : j < i => w[q].sys[j] # Told(w[q].sys[i].of)
        BY <1>6, <2>3, <3>2, <4>1 DEF SupervisedOK
      <4> QED
        BY <1>1, <3>1, <4>1, <4>2
    <3>3. CASE i \notin DOMAIN w[q].sys
      <4> DEFINE r == v[q].sys[i].of
      <4>1. r \in ChildrenOf(q) /\ w[r].life = "up"
        BY <1>1, <2>3, <3>3, ChatterKinds
      <4>2. <<r, "Supervision">> \in v[q].watching
        BY <1>0, <1>6, <2>3, <4>1 DEF SupervisedOK
      <4> HIDE DEF r
      <4>3. \A j \in DOMAIN w[q].sys : w[q].sys[j] # Told(r)
        BY <1>6, <4>1 DEF DeathOK, Told
      <4> QED
        BY <1>1, <3>1, <4>2, <4>3 DEF r
    <3> QED
      BY <3>2, <3>3
  <2> QED
    BY <2>1, <2>2, <2>3 DEF SupervisedOK
<1> QED
  BY <1>2, <1>3, <1>4, <1>5, <1>6

\* Talk leaves the cells in order.
LEMMA GoodTalk ==
  ASSUME NEW w, NEW M, Good(w, M), NEW v, NEW R, Talk(w, v, R)
  PROVE  Good(v, M)
<1>1. w \in [Cells -> CellType] /\ v \in [Cells -> CellType]
  BY DEF Good, Talk
<1> QED
  BY <1>1, TalkKeeps DEF Good

\* More exceptions do no harm.
LEMMA GoodMore ==
  ASSUME NEW w, NEW M, Good(w, M), NEW N, M \subseteq N
  PROVE  Good(w, N)
  BY DEF Good, TreeOK, WatchOK

-----------------------------------------------------------------------------
(* Containers                                                              *)

Ending == {"Recreation", "Termination"}

\* The fields of a container.
LEMMA ContainerUpdate ==
  ASSUME NEW k \in Container
  PROVE  /\ k.variant \in {"normal", "terminating", "terminated"}
         /\ k.c \in SUBSET Cells /\ k.toDie \in SUBSET Cells
         /\ k.reason \in {"none", "UserRequest", "Recreation", "Termination"}
  BY DEF Container

\* A record with the fields of a container is one.
LEMMA ContainerMade ==
  ASSUME NEW c \in SUBSET Cells, NEW d \in SUBSET Cells,
         NEW v \in {"normal", "terminating", "terminated"},
         NEW r \in {"none", "UserRequest", "Recreation", "Termination"},
         NEW k, k = [variant |-> v, c |-> c, toDie |-> d, reason |-> r]
  PROVE  k \in Container
  BY DEF Container

\* add_child
LEMMA AddChildOK ==
  ASSUME NEW k \in Container, KidsOK(k), NEW p \in Cells
  PROVE  /\ AddChild(k, p) \in Container /\ KidsOK(AddChild(k, p))
         /\ AddChild(k, p).toDie = k.toDie /\ AddChild(k, p).reason = k.reason
         /\ AddChild(k, p).variant = k.variant
         /\ k.variant # "terminated" => AddChild(k, p).c = k.c \cup {p}
         /\ k.variant = "terminated" => AddChild(k, p) = k
<1>1. CASE k.variant = "terminated"
  BY <1>1 DEF AddChild
<1>2. CASE k.variant # "terminated"
  <2>1. AddChild(k, p) =
          [variant |-> k.variant, c |-> k.c \cup {p}, toDie |-> k.toDie, reason |-> k.reason]
    BY <1>2 DEF AddChild, Container
  <2>2. k.c \cup {p} \in SUBSET Cells
    BY ContainerUpdate
  <2>3. AddChild(k, p) \in Container
    BY <2>1, <2>2, ContainerUpdate, ContainerMade
  <2> QED
    BY <1>2, <2>1, <2>3 DEF KidsOK
<1> QED
  BY <1>1, <1>2

\* shall_die, of children the container holds
LEMMA ShallDieOK ==
  ASSUME NEW k \in Container, KidsOK(k), NEW S \in SUBSET k.c
  PROVE  /\ ShallDie(k, S) \in Container /\ KidsOK(ShallDie(k, S))
         /\ ShallDie(k, S).c = k.c
         /\ ShallDie(k, S).toDie = k.toDie \cup (IF k.variant = "terminated" THEN {} ELSE S)
         /\ ShallDie(k, S).reason \in Ending => k.reason \in Ending
         /\ ShallDie(k, S).variant = "terminated" <=> k.variant = "terminated"
         /\ S # {} /\ k.variant # "terminated" => ShallDie(k, S).variant = "terminating"
<1>0. k.c \in SUBSET Cells /\ S \subseteq Cells
  BY ContainerUpdate
<1>1. CASE S = {} \/ k.variant = "terminated"
  <2>1. ShallDie(k, S) = k
    BY <1>1 DEF ShallDie
  <2> QED
    BY <1>1, <2>1
<1>2. CASE S # {} /\ k.variant # "terminated"
  <2> DEFINE r == IF k.variant = "normal" THEN "UserRequest" ELSE k.reason
  <2>1. ShallDie(k, S) = [variant |-> "terminating", c |-> k.c, toDie |-> k.toDie \cup S, reason |-> r]
    BY <1>2 DEF ShallDie, Container
  <2>2. k.toDie \cup S \in SUBSET Cells /\ r \in {"none", "UserRequest", "Recreation", "Termination"}
    BY <1>0, ContainerUpdate
  <2>3. r \in Ending => k.reason \in Ending
    BY DEF Ending
  <2> HIDE DEF r
  <2>4. ShallDie(k, S) \in Container
    BY <2>1, <2>2, ContainerUpdate, ContainerMade
  <2> QED
    BY <1>2, <2>1, <2>3, <2>4 DEF KidsOK
<1> QED
  BY <1>1, <1>2

\* set_termination_reason
LEMMA SetReasonOK ==
  ASSUME NEW k \in Container, KidsOK(k), NEW r \in Ending
  PROVE  /\ SetTerminationReason(k, r) \in Container /\ KidsOK(SetTerminationReason(k, r))
         /\ SetTerminationReason(k, r).c = k.c /\ SetTerminationReason(k, r).toDie = k.toDie
         /\ SetTerminationReason(k, r).variant = k.variant
<1>1. CASE k.variant # "terminating"
  BY <1>1 DEF SetTerminationReason
<1>2. CASE k.variant = "terminating"
  <2>1. SetTerminationReason(k, r) =
          [variant |-> k.variant, c |-> k.c, toDie |-> k.toDie, reason |-> r]
    BY <1>2 DEF SetTerminationReason, Container
  <2>2. SetTerminationReason(k, r) \in Container
    BY <2>1, ContainerUpdate, ContainerMade DEF Ending
  <2> QED
    BY <1>2, <2>1, <2>2 DEF KidsOK
<1> QED
  BY <1>1, <1>2

\* remove_child_and_get_state_change: the wait goes on, or it ended.
LEMMA RemoveChildOK ==
  ASSUME NEW k \in Container, KidsOK(k), NEW p \in Cells
  PROVE  /\ RemoveChild(k, p) \in Container /\ KidsOK(RemoveChild(k, p))
         /\ RemoveChild(k, p).c \subseteq k.c \ {p} /\ RemoveChild(k, p).toDie = k.toDie \ {p}
         /\ k.toDie \ {p} # {} \/ k.toDie = {} =>
              /\ RemoveChild(k, p).c = k.c \ {p} /\ RemoveChild(k, p).reason = k.reason
              /\ RemoveChild(k, p).variant = k.variant
              /\ StateChange(k, p) = "none"
         /\ k.toDie \ {p} = {} /\ k.toDie # {} =>
              /\ RemoveChild(k, p).reason = "none"
              /\ StateChange(k, p) = k.reason
              /\ k.reason # "Termination" =>
                   RemoveChild(k, p).c = k.c \ {p} /\ RemoveChild(k, p).variant = "normal"
<1> DEFINE left == [variant |-> k.variant, c |-> k.c \ {p}, toDie |-> k.toDie \ {p},
                    reason |-> k.reason]
<1>0. [k EXCEPT !.c = @ \ {p}, !.toDie = @ \ {p}] = left
  <2> DEFINE x == k.c \ {p}
             y == k.toDie \ {p}
  <2>1. [k EXCEPT !.c = @ \ {p}, !.toDie = @ \ {p}] = [k EXCEPT !.c = x, !.toDie = y]
    OBVIOUS
  <2>2. left = [variant |-> k.variant, c |-> x, toDie |-> y, reason |-> k.reason]
    OBVIOUS
  <2> HIDE DEF x, y, left
  <2>3. [k EXCEPT !.c = x, !.toDie = y] =
          [variant |-> k.variant, c |-> x, toDie |-> y, reason |-> k.reason]
    <3> DEFINE j == [k EXCEPT !.c = x]
    <3>1. j = [variant |-> k.variant, c |-> x, toDie |-> k.toDie, reason |-> k.reason]
      BY DEF Container
    <3>2. [k EXCEPT !.c = x, !.toDie = y] = [j EXCEPT !.toDie = y]
      OBVIOUS
    <3> HIDE DEF j
    <3> QED
      BY <3>1, <3>2
  <2> QED
    BY <2>1, <2>2, <2>3
<1>1. left \in Container
  <2>1. k.c \ {p} \in SUBSET Cells /\ k.toDie \ {p} \in SUBSET Cells
    BY ContainerUpdate
  <2> QED
    BY <2>1, ContainerUpdate, ContainerMade
<1>2. CASE k.toDie \ {p} # {} \/ k.toDie = {}
  <2>1. k.variant # "terminating" \/ left.toDie # {}
    BY <1>2 DEF KidsOK
  <2>2. RemoveChild(k, p) = left
    BY <1>0, <2>1 DEF RemoveChild
  <2>3. ~(k.variant = "terminating" /\ k.toDie \subseteq {p})
    BY <1>2 DEF KidsOK
  <2>4. StateChange(k, p) = "none"
    BY <2>3 DEF StateChange
  <2>5. KidsOK(left)
    BY <1>2 DEF KidsOK
  <2> QED
    BY <1>1, <1>2, <2>2, <2>4, <2>5
<1>3. CASE k.toDie \ {p} = {} /\ k.toDie # {}
  <2>1. k.variant = "terminating" /\ left.toDie = {}
    BY <1>3 DEF KidsOK
  <2>2. StateChange(k, p) = k.reason
    BY <1>3, <2>1 DEF StateChange
  <2>3. CASE k.reason = "Termination"
    <3>1. RemoveChild(k, p) = [variant |-> "terminated", c |-> {}, toDie |-> {}, reason |-> "none"]
      BY <1>0, <2>1, <2>3 DEF RemoveChild, NormalContainer
    <3>2. RemoveChild(k, p) \in Container
      BY <3>1, ContainerMade
    <3> QED
      BY <1>3, <2>2, <2>3, <3>1, <3>2 DEF KidsOK
  <2>4. CASE k.reason # "Termination"
    <3>1. RemoveChild(k, p) = [variant |-> "normal", c |-> k.c \ {p}, toDie |-> {}, reason |-> "none"]
      BY <1>0, <2>1, <2>4 DEF RemoveChild, NormalContainer
    <3>2. RemoveChild(k, p) \in Container
      BY <3>1, ContainerUpdate, ContainerMade
    <3> QED
      BY <1>3, <2>2, <2>4, <3>1, <3>2 DEF KidsOK
  <2> QED
    BY <2>3, <2>4
<1> QED
  BY <1>2, <1>3

\* clear_child_stats
LEMMA ClearOK ==
  ASSUME NEW k \in Container, KidsOK(k), NEW S
  PROVE  /\ ClearChildStats(k, S) \in Container /\ KidsOK(ClearChildStats(k, S))
         /\ ClearChildStats(k, S).c \subseteq k.c /\ ClearChildStats(k, S).toDie = k.toDie
         /\ ClearChildStats(k, S).reason = k.reason /\ ClearChildStats(k, S).variant = k.variant
         /\ k.variant = "normal" => ClearChildStats(k, S).c = k.c \ S
         /\ k.variant # "normal" => ClearChildStats(k, S).c = k.c
<1>1. CASE k.variant # "normal"
  BY <1>1 DEF ClearChildStats
<1>2. CASE k.variant = "normal"
  <2>1. ClearChildStats(k, S) =
          [variant |-> k.variant, c |-> k.c \ S, toDie |-> k.toDie, reason |-> k.reason]
    BY <1>2 DEF ClearChildStats, Container
  <2>2. k.c \ S \in SUBSET Cells
    BY ContainerUpdate
  <2>3. ClearChildStats(k, S) \in Container
    BY <2>1, <2>2, ContainerUpdate, ContainerMade
  <2> QED
    BY <1>2, <2>1, <2>3 DEF KidsOK
<1> QED
  BY <1>1, <1>2

-----------------------------------------------------------------------------
(* One cell changes                                                        *)

\* t is s without its first d messages.
Cut(s, t, d) ==
  /\ d \in {0, 1} /\ Len(s) = Len(t) + d
  /\ \A i \in 1 .. Len(t) : t[i] = s[i + d]

\* The first message of s is taken, and it is m.
Taken(s, d, m) == d = 1 /\ s[1] = m

\* Indices of a shortened queue.
LEMMA CutIndices ==
  ASSUME NEW s \in Seq(Message), NEW t \in Seq(Message), NEW d, Cut(s, t, d)
  PROVE  /\ d \in Nat
         /\ \A i \in DOMAIN t : i \in Nat /\ i + d \in DOMAIN s /\ t[i] = s[i + d]
         /\ \A i \in DOMAIN s : i \in Nat /\ (i - d \in DOMAIN t \/ (i = 1 /\ d = 1))
         /\ d = 1 => 1 \in DOMAIN s
<1>1. /\ DOMAIN s = 1 .. Len(s) /\ DOMAIN t = 1 .. Len(t) /\ Len(s) \in Nat /\ Len(t) \in Nat
  OBVIOUS
<1> QED
  BY <1>1 DEF Cut

\* A queue can be left alone or lose its first message.
LEMMA CutMade ==
  ASSUME NEW s \in Seq(Message)
  PROVE  /\ Cut(s, s, 0)
         /\ s # <<>> => Tail(s) \in Seq(Message) /\ Cut(s, Tail(s), 1) /\ s[1] = Head(s)
                        /\ Head(s) \in Message
<1>1. Cut(s, s, 0)
  BY DEF Cut
<1>2. ASSUME s # <<>>
      PROVE  Tail(s) \in Seq(Message) /\ Cut(s, Tail(s), 1) /\ s[1] = Head(s) /\ Head(s) \in Message
  BY <1>2 DEF Cut
<1> QED
  BY <1>1, <1>2

\* The life of who is named in a notification that waits.
LEMMA ToldDead ==
  ASSUME NEW w, DeathOK(w), NEW p \in Cells, NEW i \in DOMAIN w[p].sys, NEW q,
         w[p].sys[i] = Told(q)
  PROVE  w[q].life \in {"dead", "gone"}
<1>1. w[p].sys[i].type = "DeathWatchNotification" /\ w[p].sys[i].of = q
  BY DEF Told
<1> QED
  BY <1>1 DEF DeathOK

\* The live children of p, but for the exceptions, are in the container k.
Holds(w, N, p, k) ==
  \A r \in ChildrenOf(p) :
    w[r].life = "up" /\ <<r, "disowned">> \notin N /\ <<r, "late">> \notin N =>
      r \in k.c /\ (k.reason \in Ending => r \in k.toDie)

\* The live cell p becomes c: it takes d messages, and changes its children and
\* its watches.
Update(w, N, p, c, d) ==
  /\ c \in CellType /\ c.life = "up" /\ Cut(w[p].sys, c.sys, d)
  /\ KidsOK(c.kids) /\ Holds(w, N, p, c.kids)
  /\ \A r \in c.kids.c \cup c.kids.toDie : <<r, "Supervision">> \in c.watching
  /\ \A r \in Cells : <<r, "Supervision">> \in w[p].watching =>
       <<r, "Supervision">> \in c.watching \/ Taken(w[p].sys, d, Told(r))
  /\ \A q \in Cells : <<q, "User">> \in c.watching =>
       <<q, "User">> \in w[p].watching /\ ~Taken(w[p].sys, d, Told(q))
  /\ \A q \in Cells :
       \/ <<q, "User">> \in w[p].watchers /\ ~Taken(w[p].sys, d, Recall(q))
       \/ Taken(w[p].sys, d, Ask(q))
       => <<q, "User">> \in c.watchers

\* Such an update leaves the cells in order.
LEMMA CellGood ==
  ASSUME NEW w, NEW M, Good(w, M), NEW N, M \subseteq N, NEW p \in Cells, w[p].life = "up",
         NEW c, NEW d, Update(w, N, p, c, d), NEW v, v = [w EXCEPT ![p] = c]
  PROVE  Good(v, N)
<1> USE DEF Update
<1>0. w \in [Cells -> CellType] /\ TreeOK(w, M) /\ SupervisedOK(w) /\ DeathOK(w) /\ WatchOK(w, M)
      /\ \A q \in Cells : KidsOK(w[q].kids)
  BY DEF Good
<1>1. v \in [Cells -> CellType] /\ \A q \in Cells : v[q] = IF q = p THEN c ELSE w[q]
  BY <1>0, CellSet
<1>2. \A q \in Cells : v[q].life = w[q].life
  BY <1>1
<1>3. w[p].sys \in Seq(Message) /\ c.sys \in Seq(Message)
  BY <1>0, CellFields
<1>4. /\ d \in Nat
      /\ \A i \in DOMAIN c.sys : i \in Nat /\ i + d \in DOMAIN w[p].sys /\ c.sys[i] = w[p].sys[i + d]
      /\ \A i \in DOMAIN w[p].sys : i \in Nat /\ (i - d \in DOMAIN c.sys \/ (i = 1 /\ d = 1))
      /\ d = 1 => 1 \in DOMAIN w[p].sys
  BY <1>3, CutIndices
<1>5. \A q \in Cells : KidsOK(v[q].kids)
  BY <1>0, <1>1
<1>6. TreeOK(v, N)
  <2> SUFFICES ASSUME NEW r \in Cells \ {Root}, v[r].life = "up", <<r, "disowned">> \notin N,
                      <<r, "late">> \notin N
               PROVE  /\ v[Parent[r]].life = "up"
                      /\ r \in v[Parent[r]].kids.c
                      /\ v[Parent[r]].kids.reason \in {"Recreation", "Termination"} =>
                           r \in v[Parent[r]].kids.toDie
    BY DEF TreeOK
  <2>1. Parent[r] \in Cells
    BY TreeAssumption
  <2>2. /\ w[Parent[r]].life = "up" /\ r \in w[Parent[r]].kids.c
        /\ w[Parent[r]].kids.reason \in {"Recreation", "Termination"} =>
             r \in w[Parent[r]].kids.toDie
    BY <1>0, <1>2 DEF TreeOK
  <2>3. CASE Parent[r] = p
    BY <1>1, <1>2, <2>3 DEF ChildrenOf, Ending, Holds
  <2>4. CASE Parent[r] # p
    BY <1>1, <2>1, <2>2, <2>4
  <2> QED
    BY <2>3, <2>4
<1>7. SupervisedOK(v)
  <2>1. \A r \in Cells \ {Root} : v[r].life = "up" => v[Parent[r]].life # "new"
    BY <1>0, <1>2, TreeAssumption DEF SupervisedOK
  <2>2. ASSUME NEW q \in Cells, v[q].life = "up"
        PROVE  /\ \A r \in v[q].kids.c \cup v[q].kids.toDie : <<r, "Supervision">> \in v[q].watching
               /\ \A r \in ChildrenOf(q) : v[r].life = "up" => <<r, "Supervision">> \in v[q].watching
               /\ \A i \in DOMAIN v[q].sys : v[q].sys[i].type = "Failure" =>
                    /\ <<v[q].sys[i].of, "Supervision">> \in v[q].watching
                    /\ \A j \in DOMAIN v[q].sys : j < i => v[q].sys[j] # Told(v[q].sys[i].of)
    <3>0. /\ \A r \in w[q].kids.c \cup w[q].kids.toDie : <<r, "Supervision">> \in w[q].watching
          /\ \A r \in ChildrenOf(q) : w[r].life = "up" => <<r, "Supervision">> \in w[q].watching
          /\ \A i \in DOMAIN w[q].sys : w[q].sys[i].type = "Failure" =>
                    /\ <<w[q].sys[i].of, "Supervision">> \in w[q].watching
                    /\ \A j \in DOMAIN w[q].sys : j < i => w[q].sys[j] # Told(w[q].sys[i].of)
      BY <1>0, <1>2, <2>2 DEF SupervisedOK
    <3>1. CASE q # p
      BY <1>1, <3>0, <3>1 DEF ChildrenOf
    <3>2. CASE q = p
      <4>1. v[q] = c
        BY <1>1, <3>2
      <4>2. ASSUME NEW r \in ChildrenOf(q), v[r].life = "up"
            PROVE  <<r, "Supervision">> \in c.watching
        <5>1. r \in Cells /\ w[r].life = "up"
          BY <1>2, <4>2 DEF ChildrenOf
        <5>2. ~Taken(w[p].sys, d, Told(r))
          BY <1>0, <1>4, <5>1, ToldDead DEF Taken
        <5> QED
          BY <3>0, <3>2, <4>2, <5>1, <5>2
      <4>3. ASSUME NEW i \in DOMAIN c.sys, c.sys[i].type = "Failure"
            PROVE  /\ <<c.sys[i].of, "Supervision">> \in c.watching
                   /\ \A j \in DOMAIN c.sys : j < i => c.sys[j] # Told(c.sys[i].of)
        <5> DEFINE r == c.sys[i].of
        <5>1. i \in Nat /\ i + d \in DOMAIN w[p].sys /\ c.sys[i] = w[p].sys[i + d] /\ i + d > d
              /\ i > 0
          <6>1. i \in 1 .. Len(c.sys)
            BY <1>3
          <6> QED
            BY <1>4, <6>1
        <5>2. r \in Cells
          <6>1. c.sys[i] \in Message
            BY <1>3
          <6> QED
            BY <4>3, <6>1 DEF Message
        <5>3. /\ <<r, "Supervision">> \in w[p].watching
              /\ \A j \in DOMAIN w[p].sys : j < i + d => w[p].sys[j] # Told(r)
          BY <3>0, <3>2, <4>3, <5>1
        <5> HIDE DEF r
        <5>4. ~Taken(w[p].sys, d, Told(r))
          BY <1>4, <5>1, <5>3 DEF Taken
        <5>5. <<r, "Supervision">> \in c.watching
          BY <5>2, <5>3, <5>4
        <5>6. ASSUME NEW j \in DOMAIN c.sys, j < i
              PROVE  c.sys[j] # Told(r)
          BY <1>4, <5>1, <5>3, <5>6
        <5> QED
          BY <5>5, <5>6 DEF r
      <4> QED
        BY <4>1, <4>2, <4>3
    <3> QED
      BY <3>1, <3>2
  <2> QED
    BY <2>1, <2>2 DEF SupervisedOK
<1>8. DeathOK(v)
  <2> SUFFICES ASSUME NEW q \in Cells, NEW i \in DOMAIN v[q].sys,
                      v[q].sys[i].type = "DeathWatchNotification"
               PROVE  v[v[q].sys[i].of].life \in {"dead", "gone"}
    BY DEF DeathOK
  <2>1. \E j \in DOMAIN w[q].sys : v[q].sys[i] = w[q].sys[j]
    BY <1>1, <1>4
  <2>2. PICK j \in DOMAIN w[q].sys : v[q].sys[i] = w[q].sys[j]
    BY <2>1
  <2>3. w[q].sys[j] \in Message
    BY <1>0, CellFields
  <2>4. w[q].sys[j].of \in Cells
    BY <2>2, <2>3 DEF Message
  <2> QED
    BY <1>0, <1>2, <2>2, <2>4 DEF DeathOK
<1>9. WatchOK(v, N)
  <2> SUFFICES ASSUME NEW x \in Cells, NEW y \in Cells, v[x].life = "up",
                      <<y, "User">> \in v[x].watching, <<x, "unheard">> \notin N
               PROVE  Heard(v, x, y) \/ Asked(v, x, y) \/ Known(v, x, y)
    BY DEF WatchOK
  <2>1. <<y, "User">> \in w[x].watching
    BY <1>1
  <2>2. Heard(w, x, y) \/ Asked(w, x, y) \/ Known(w, x, y)
    BY <1>0, <1>2, <2>1 DEF WatchOK
  <2>3. CASE Heard(w, x, y)
    <3>1. PICK i \in DOMAIN w[x].sys : w[x].sys[i] = Told(y)
      BY <2>3 DEF Heard
    <3>2. CASE x # p
      BY <1>1, <3>1, <3>2 DEF Heard
    <3>3. CASE x = p
      <4>1. ~Taken(w[p].sys, d, Told(y))
        BY <1>1, <3>3
      <4>2. i - d \in DOMAIN c.sys
        BY <1>4, <3>1, <3>3, <4>1 DEF Taken
      <4>3. c.sys[i - d] = w[p].sys[i]
        <5>1. i \in Nat /\ d \in Nat /\ (i - d) + d = i
          BY <1>4, <3>3
        <5> QED
          BY <1>4, <4>2, <5>1
      <4> QED
        BY <1>1, <3>1, <3>3, <4>2, <4>3 DEF Heard
    <3> QED
      BY <3>2, <3>3
  <2>4. CASE Asked(w, x, y)
    <3>1. PICK i \in DOMAIN w[y].sys :
             w[y].sys[i] = Ask(x) /\ \A j \in DOMAIN w[y].sys : j > i => w[y].sys[j] # Recall(x)
      BY <2>4 DEF Asked
    <3>2. CASE y # p
      BY <1>1, <2>4, <3>2 DEF Asked, Registered
    <3>3. CASE y = p
      <4>0. i \in Nat /\ d \in Nat /\ v[y] = c
        BY <1>1, <1>4, <3>1, <3>3
      <4>1. \A j \in DOMAIN c.sys : j + d > i => c.sys[j] # Recall(x)
        BY <1>4, <3>1, <3>3
      <4>2. CASE i - d \in DOMAIN c.sys
        <5>1. (i - d) + d = i
          BY <4>0
        <5>2. c.sys[i - d] = Ask(x)
          BY <1>4, <3>1, <3>3, <4>2, <5>1
        <5>3. \A j \in DOMAIN c.sys : j > i - d => c.sys[j] # Recall(x)
          BY <1>4, <4>0, <4>1
        <5>4. Registered(v, y)
          BY <4>0 DEF Registered
        <5> QED
          BY <4>0, <4>2, <5>2, <5>3, <5>4 DEF Asked
      <4>3. CASE i - d \notin DOMAIN c.sys
        <5>1. i = 1 /\ d = 1
          BY <1>4, <3>3, <4>3
        <5>2. Taken(w[p].sys, d, Ask(x))
          BY <3>1, <3>3, <5>1 DEF Taken
        <5>3. \A j \in DOMAIN c.sys : c.sys[j] # Recall(x)
          <6>1. \A j \in DOMAIN c.sys : j \in 1 .. Len(c.sys)
            BY <1>3
          <6> QED
            BY <4>1, <5>1, <6>1, <1>3
        <5> QED
          BY <4>0, <5>2, <5>3 DEF Known
      <4> QED
        BY <4>2, <4>3
    <3> QED
      BY <3>2, <3>3
  <2>5. CASE Known(w, x, y)
    <3>1. CASE y # p
      BY <1>1, <2>5, <3>1 DEF Known
    <3>2. CASE y = p
      <4>1. ~Taken(w[p].sys, d, Recall(x))
        BY <1>4, <2>5, <3>2 DEF Known, Taken
      <4>2. <<x, "User">> \in c.watchers
        BY <2>5, <3>2, <4>1 DEF Known
      <4>3. \A j \in DOMAIN c.sys : c.sys[j] # Recall(x)
        BY <1>4, <2>5, <3>2 DEF Known
      <4> QED
        BY <1>1, <3>2, <4>2, <4>3 DEF Known
    <3> QED
      BY <3>1, <3>2
  <2> QED
    BY <2>2, <2>3, <2>4, <2>5
<1> QED
  BY <1>1, <1>5, <1>6, <1>7, <1>8, <1>9 DEF Good

-----------------------------------------------------------------------------
(* Messages of death watch                                                 *)

\* From w to v the cells of D end and messages of T are sent; who supervises whom
\* and the containers stay.
Later(w, v, D, T) ==
  /\ v \in [Cells -> CellType]
  /\ \A q \in Cells : v[q].kids = w[q].kids /\ v[q].boots = w[q].boots
  /\ \A q \in Cells : v[q].life = IF q \in D THEN "dead" ELSE w[q].life
  /\ \A q, r \in Cells :
       <<r, "Supervision">> \in v[q].watching <=> <<r, "Supervision">> \in w[q].watching
  /\ \A q \in Cells : Longer(w[q].sys, v[q].sys, T)

\* Indices of a queue that grew.
LEMMA LongerIndices ==
  ASSUME NEW s \in Seq(Message), NEW t \in Seq(Message), NEW T, Longer(s, t, T)
  PROVE  /\ \A i \in DOMAIN s : i \in Nat /\ i \in DOMAIN t /\ t[i] = s[i]
         /\ \A i \in DOMAIN t : i \in Nat
         /\ \A i \in DOMAIN t : i \in DOMAIN s \/ (t[i] \in T /\ \A j \in DOMAIN s : j < i)
<1>1. /\ DOMAIN s = 1 .. Len(s) /\ DOMAIN t = 1 .. Len(t) /\ Len(s) \in Nat /\ Len(t) \in Nat
  OBVIOUS
<1>2. \A i \in 1 .. Len(t) : i \in 1 .. Len(s) \/ i \in Len(s) + 1 .. Len(t)
  BY <1>1
<1>3. \A i \in DOMAIN t : i \in DOMAIN s \/ (t[i] \in T /\ \A j \in DOMAIN s : j < i)
  BY <1>1, <1>2 DEF Longer
<1> QED
  BY <1>1, <1>3 DEF Longer

\* What such a step keeps, but for the watches.
LEMMA LaterGood ==
  ASSUME NEW w, NEW M, Good(w, M), NEW v, NEW D \in SUBSET Cells, NEW T \in SUBSET Message,
         Later(w, v, D, T),
         \A r \in D : w[r].life = "up" /\ Alone(w, M, r),
         \A m \in T : m.type # "Failure" /\
            (m.type = "DeathWatchNotification" => v[m.of].life \in {"dead", "gone"}),
         WatchOK(v, M)
  PROVE  Good(v, M)
<1>0. w \in [Cells -> CellType] /\ TreeOK(w, M) /\ SupervisedOK(w) /\ DeathOK(w) /\ WatchOK(w, M)
      /\ v \in [Cells -> CellType] /\ \A q \in Cells : KidsOK(w[q].kids)
  BY DEF Good, Later
<1>1. \A q \in Cells : v[q].kids = w[q].kids
  BY DEF Later
<1>2. \A q \in Cells : v[q].life = IF q \in D THEN "dead" ELSE w[q].life
  BY DEF Later
<1>3. \A q \in Cells : v[q].life = "up" => w[q].life = "up" /\ q \notin D
  BY <1>2
<1>4. ASSUME NEW q \in Cells
      PROVE  /\ \A i \in DOMAIN w[q].sys : i \in Nat /\ i \in DOMAIN v[q].sys /\ v[q].sys[i] = w[q].sys[i]
             /\ \A i \in DOMAIN v[q].sys : i \in Nat
             /\ \A i \in DOMAIN v[q].sys : i \in DOMAIN w[q].sys
                    \/ (v[q].sys[i] \in T /\ \A j \in DOMAIN w[q].sys : j < i)
  <2>1. w[q].sys \in Seq(Message) /\ v[q].sys \in Seq(Message) /\ Longer(w[q].sys, v[q].sys, T)
    BY <1>0, CellFields DEF Later
  <2> HIDE <1>0
  <2> QED
    BY <2>1, LongerIndices
<1>5. \A q \in Cells : KidsOK(v[q].kids)
  BY <1>0, <1>1
<1>6. TreeOK(v, M)
  <2> SUFFICES ASSUME NEW r \in Cells \ {Root}, v[r].life = "up", <<r, "disowned">> \notin M,
                      <<r, "late">> \notin M
               PROVE  /\ v[Parent[r]].life = "up"
                      /\ r \in v[Parent[r]].kids.c
                      /\ v[Parent[r]].kids.reason \in {"Recreation", "Termination"} =>
                           r \in v[Parent[r]].kids.toDie
    BY DEF TreeOK
  <2>1. Parent[r] \in Cells /\ w[r].life = "up"
    BY <1>3, TreeAssumption
  <2>2. /\ w[Parent[r]].life = "up" /\ r \in w[Parent[r]].kids.c
        /\ w[Parent[r]].kids.reason \in {"Recreation", "Termination"} =>
             r \in w[Parent[r]].kids.toDie
    BY <1>0, <2>1 DEF TreeOK
  <2>3. Parent[r] \notin D
    BY <2>1 DEF Alone, ChildrenOf
  <2> QED
    BY <1>1, <1>2, <2>1, <2>2, <2>3
<1>7. SupervisedOK(v)
  <2>1. ASSUME NEW r \in Cells \ {Root}, v[r].life = "up" PROVE v[Parent[r]].life # "new"
    <3>1. Parent[r] \in Cells /\ w[Parent[r]].life # "new"
      BY <1>0, <1>3, <2>1, TreeAssumption DEF SupervisedOK
    <3> QED
      BY <1>2, <3>1
  <2>2. ASSUME NEW q \in Cells, v[q].life = "up"
        PROVE  /\ \A r \in v[q].kids.c \cup v[q].kids.toDie : <<r, "Supervision">> \in v[q].watching
               /\ \A r \in ChildrenOf(q) : v[r].life = "up" => <<r, "Supervision">> \in v[q].watching
               /\ \A i \in DOMAIN v[q].sys : v[q].sys[i].type = "Failure" =>
                    /\ <<v[q].sys[i].of, "Supervision">> \in v[q].watching
                    /\ \A j \in DOMAIN v[q].sys : j < i => v[q].sys[j] # Told(v[q].sys[i].of)
    <3>0. /\ \A r \in w[q].kids.c \cup w[q].kids.toDie : <<r, "Supervision">> \in w[q].watching
          /\ \A r \in ChildrenOf(q) : w[r].life = "up" => <<r, "Supervision">> \in w[q].watching
          /\ \A i \in DOMAIN w[q].sys : w[q].sys[i].type = "Failure" =>
                    /\ <<w[q].sys[i].of, "Supervision">> \in w[q].watching
                    /\ \A j \in DOMAIN w[q].sys : j < i => w[q].sys[j] # Told(w[q].sys[i].of)
      BY <1>0, <1>3, <2>2 DEF SupervisedOK
    <3>1. \A r \in Cells : <<r, "Supervision">> \in w[q].watching => <<r, "Supervision">> \in v[q].watching
      BY DEF Later
    <3>2. w[q].kids.c \cup w[q].kids.toDie \subseteq Cells
      BY <1>0, CellFields, ContainerUpdate
    <3>3. ASSUME NEW i \in DOMAIN v[q].sys, v[q].sys[i].type = "Failure"
          PROVE  /\ <<v[q].sys[i].of, "Supervision">> \in v[q].watching
                 /\ \A j \in DOMAIN v[q].sys : j < i => v[q].sys[j] # Told(v[q].sys[i].of)
      <4>1. i \in DOMAIN w[q].sys /\ v[q].sys[i] = w[q].sys[i]
        BY <1>4, <3>3
      <4>2. w[q].sys[i].of \in Cells
        <5>1. w[q].sys[i] \in Message
          BY <1>0, <4>1, CellFields
        <5> QED
          BY <3>3, <4>1, <5>1 DEF Message
      <4>3. /\ <<w[q].sys[i].of, "Supervision">> \in w[q].watching
            /\ \A j \in DOMAIN w[q].sys : j < i => w[q].sys[j] # Told(w[q].sys[i].of)
        BY <3>0, <3>3, <4>1
      <4>4. \A j \in DOMAIN v[q].sys : j < i => j \in DOMAIN w[q].sys /\ v[q].sys[j] = w[q].sys[j]
        BY <1>4, <4>1
      <4> QED
        BY <3>1, <4>1, <4>2, <4>3, <4>4
    <3> QED
      BY <1>1, <1>3, <3>0, <3>1, <3>2, <3>3 DEF ChildrenOf
  <2> QED
    BY <2>1, <2>2 DEF SupervisedOK
<1>8. DeathOK(v)
  <2> SUFFICES ASSUME NEW q \in Cells, NEW i \in DOMAIN v[q].sys,
                      v[q].sys[i].type = "DeathWatchNotification"
               PROVE  v[v[q].sys[i].of].life \in {"dead", "gone"}
    BY DEF DeathOK
  <2>1. CASE i \in DOMAIN w[q].sys
    <3>1. v[q].sys[i] = w[q].sys[i]
      BY <1>4, <2>1
    <3>2. w[q].sys[i] \in Message
      BY <1>0, <2>1, CellFields
    <3>3. w[q].sys[i].of \in Cells /\ w[w[q].sys[i].of].life \in {"dead", "gone"}
      BY <1>0, <2>1, <3>1, <3>2 DEF Message, DeathOK
    <3> QED
      BY <1>2, <3>1, <3>3
  <2>2. CASE i \notin DOMAIN w[q].sys
    BY <1>4, <2>2
  <2> QED
    BY <2>1, <2>2
<1> QED
  BY <1>0, <1>5, <1>6, <1>7, <1>8 DEF Good

\* The notification of p goes to the cells of S.
Notify(w, S, p) ==
  [q \in Cells |-> IF q \in S /\ Registered(w, q)
                   THEN [w[q] EXCEPT !.sys = Append(@, [type |-> "DeathWatchNotification",
                                                        of |-> p])]
                   ELSE w[q]]

\* Notifications only lengthen queues, and the cells of S get theirs.
LEMMA NotifyLater ==
  ASSUME NEW w \in [Cells -> CellType], NEW S, NEW p \in Cells, NEW v, v = Notify(w, S, p)
  PROVE  /\ Later(w, v, {}, {Told(p)})
         /\ \A q \in Cells : v[q].watchers = w[q].watchers /\ v[q].watching = w[q].watching
         /\ \A q \in Cells : q \in S /\ Registered(w, q) => Heard(v, q, p)
<1> DEFINE m == Told(p)
<1>0. m \in {m} /\ {m} \in SUBSET Message
  BY DEF Told, Message
<1>1. ASSUME NEW q \in Cells
      PROVE  /\ v[q] \in CellType /\ v[q].life = w[q].life /\ v[q].kids = w[q].kids
             /\ v[q].boots = w[q].boots /\ v[q].watchers = w[q].watchers
             /\ v[q].watching = w[q].watching
             /\ Longer(w[q].sys, v[q].sys, {m})
             /\ q \in S /\ Registered(w, q) => Heard(v, q, p)
  <2> DEFINE x == Append(w[q].sys, m)
             c == [w[q] EXCEPT !.sys = x]
  <2>1. w[q] \in CellType /\ w[q].sys \in Seq(Message)
    BY CellFields
  <2>2. /\ x \in Seq(Message) /\ Longer(w[q].sys, x, {m}) /\ Longer(w[q].sys, w[q].sys, {m})
        /\ \E i \in DOMAIN x : x[i] = m
    <3>0. m \in Message
      BY <1>0
    <3> HIDE DEF m
    <3>1. x \in Seq(Message) /\ Longer(w[q].sys, x, {m}) /\ Longer(w[q].sys, w[q].sys, {m})
      BY <1>0, <2>1, LongerAppend, LongerRefl
    <3>2. DOMAIN x = 1 .. Len(w[q].sys) + 1 /\ Len(w[q].sys) \in Nat
          /\ x[Len(w[q].sys) + 1] = m
      BY <2>1, <3>0
    <3> QED
      BY <3>1, <3>2
  <2>3. v[q] = IF q \in S /\ Registered(w, q) THEN c ELSE w[q]
    BY DEF Notify, Told
  <2> HIDE DEF m, x
  <2>4. /\ c \in CellType /\ c.life = w[q].life /\ c.kids = w[q].kids /\ c.boots = w[q].boots
        /\ c.watchers = w[q].watchers /\ c.watching = w[q].watching /\ c.sys = x
    BY <2>1, <2>2, SysSet
  <2> HIDE DEF c
  <2>5. CASE q \in S /\ Registered(w, q)
    <3>1. v[q] = c
      BY <2>3, <2>5
    <3>2. Heard(v, q, p)
      BY <2>2, <2>4, <3>1 DEF Heard, m
    <3> QED
      BY <2>2, <2>4, <3>1, <3>2
  <2>6. CASE ~(q \in S /\ Registered(w, q))
    BY <2>1, <2>2, <2>3, <2>6
  <2> QED
    BY <2>5, <2>6
<1>2. v \in [Cells -> CellType]
  <2>1. v = [q \in Cells |-> v[q]]
    BY DEF Notify
  <2> QED
    BY <1>1, <2>1
<1>3. Later(w, v, {}, {Told(p)})
  BY <1>1, <1>2 DEF Later
<1> QED
  BY <1>1, <1>3

\* A cell without live children ends in order: its watchers are told.
LEMMA TerminateGood ==
  ASSUME NEW w, NEW M, Good(w, M), NEW p \in Cells, w[p].life = "up", Alone(w, M, p),
         NEW z, z = Terminate(w, p)
  PROVE  /\ Good(z, M) /\ z[p].life = "dead"
         /\ \A q \in Cells : z[q].boots = w[q].boots /\ z[q].kids = w[q].kids
         /\ \A q \in Cells \ {p} : z[q].life = w[q].life
<1> DEFINE users == {q \in Cells : <<q, "User">> \in w[p].watchers}
           parents == {q \in Cells : <<q, "Supervision">> \in w[p].watchers}
           u == Notify(w, users, p)
           v == Notify(u, parents, p)
           b == [v[p] EXCEPT !.watchers = {}]
           c == [b EXCEPT !.life = "dead"]
<1>0. w \in [Cells -> CellType] /\ WatchOK(w, M)
  BY DEF Good
<1>1. z = [v EXCEPT ![p] = c]
  <2>1. NotifyWatchers(w, p) = [v EXCEPT ![p].watchers = {}]
    BY DEF NotifyWatchers, Notify
  <2>2. v \in [Cells -> {v[q] : q \in Cells}]
    BY DEF Notify
  <2> HIDE DEF v
  <2> QED
    BY <2>1, <2>2 DEF Terminate
<1>2. /\ Later(w, u, {}, {Told(p)})
      /\ \A q \in Cells : u[q].watchers = w[q].watchers /\ u[q].watching = w[q].watching
      /\ \A q \in Cells : q \in users /\ Registered(w, q) => Heard(u, q, p)
  <2> HIDE DEF users
  <2> QED
    BY <1>0, NotifyLater
<1> HIDE DEF users, u
<1>3. u \in [Cells -> CellType]
  BY <1>2 DEF Later
<1>4. /\ Later(u, v, {}, {Told(p)})
      /\ \A q \in Cells : v[q].watchers = u[q].watchers /\ v[q].watching = u[q].watching
  <2>1. v = Notify(u, parents, p)
    OBVIOUS
  <2> HIDE DEF parents, v
  <2> QED
    BY <1>3, <2>1, NotifyLater
<1> HIDE DEF parents, v
<1>5. v \in [Cells -> CellType]
  BY <1>4 DEF Later
<1>6. /\ c \in CellType /\ c.life = "dead" /\ c.sys = v[p].sys /\ c.kids = v[p].kids
      /\ c.boots = v[p].boots /\ c.watching = v[p].watching
  <2>0. {} \in Entries /\ v[p] \in CellType
    BY <1>5 DEF Entries
  <2>1. /\ b \in CellType /\ b.sys = v[p].sys /\ b.kids = v[p].kids
        /\ b.boots = v[p].boots /\ b.watching = v[p].watching
    BY <2>0, WatchersSet
  <2> HIDE DEF b
  <2> QED
    BY <2>1, LifeSet
<1> HIDE DEF c
<1>7. z \in [Cells -> CellType] /\ \A q \in Cells : z[q] = IF q = p THEN c ELSE v[q]
  BY <1>1, <1>5, <1>6, CellSet
<1>8. \A q \in Cells : /\ z[q].kids = w[q].kids /\ z[q].boots = w[q].boots
                       /\ z[q].watching = w[q].watching
                       /\ z[q].life = IF q = p THEN "dead" ELSE w[q].life
                       /\ q # p => z[q].watchers = w[q].watchers
  BY <1>2, <1>4, <1>6, <1>7 DEF Later
<1>9. ASSUME NEW q \in Cells
      PROVE  Longer(w[q].sys, z[q].sys, {Told(p)}) /\ (Heard(u, q, p) => Heard(z, q, p))
  <2> DEFINE r == w[q].sys
             s == u[q].sys
             t == z[q].sys
  <2>1. r \in Seq(Message) /\ s \in Seq(Message) /\ t \in Seq(Message)
    BY <1>0, <1>3, <1>7, CellFields
  <2>2. Longer(r, s, {Told(p)}) /\ Longer(s, t, {Told(p)})
    <3>1. z[q].sys = v[q].sys
      BY <1>6, <1>7
    <3> QED
      BY <1>2, <1>4, <3>1 DEF Later
  <2>3. Heard(u, q, p) => Heard(z, q, p)
    BY <2>1, <2>2, LongerIndices DEF Heard
  <2>4. Longer(r, t, {Told(p)})
    <3> DEFINE T == {Told(p)}
    <3>1. Len(r) \in Nat /\ Len(s) \in Nat /\ Len(t) \in Nat
      BY <2>1
    <3>2. Longer(r, s, T) /\ Longer(s, t, T)
      BY <2>2
    <3> HIDE DEF r, s, t, T
    <3>3. Longer(r, t, T)
      BY <3>1, <3>2 DEF Longer
    <3> QED
      BY <3>3 DEF T
  <2> QED
    BY <2>3, <2>4
<1>10. Later(w, z, {p}, {Told(p)})
  BY <1>7, <1>8, <1>9 DEF Later
<1>11. /\ {p} \in SUBSET Cells /\ {Told(p)} \in SUBSET Message
       /\ \A m \in {Told(p)} : m.type # "Failure" /\
             (m.type = "DeathWatchNotification" => z[m.of].life \in {"dead", "gone"})
  BY <1>8 DEF Told, Message
<1>12. WatchOK(z, M)
  <2> SUFFICES ASSUME NEW x \in Cells, NEW y \in Cells, z[x].life = "up",
                      <<y, "User">> \in z[x].watching, <<x, "unheard">> \notin M
               PROVE  Heard(z, x, y) \/ Asked(z, x, y) \/ Known(z, x, y)
    BY DEF WatchOK
  <2>1. w[x].life = "up" /\ <<y, "User">> \in w[x].watching
    BY <1>8
  <2>2. ASSUME NEW q \in Cells
        PROVE  /\ \A i \in DOMAIN w[q].sys : i \in Nat /\ i \in DOMAIN z[q].sys /\ z[q].sys[i] = w[q].sys[i]
               /\ \A i \in DOMAIN z[q].sys : i \in DOMAIN w[q].sys \/ z[q].sys[i] = Told(p)
    <3>1. w[q].sys \in Seq(Message) /\ z[q].sys \in Seq(Message)
      BY <1>0, <1>7, CellFields
    <3> QED
      BY <1>9, <3>1, LongerIndices
  <2>3. \A i \in DOMAIN z[y].sys : z[y].sys[i] = Recall(x) =>
          i \in DOMAIN w[y].sys /\ w[y].sys[i] = Recall(x)
    BY <2>2 DEF Told, Recall
  <2>4. CASE Heard(w, x, y)
    BY <2>2, <2>4 DEF Heard
  <2>5. CASE Asked(w, x, y)
    <3>1. Registered(z, y)
      BY <1>8, <2>5 DEF Asked, Registered
    <3> QED
      BY <2>2, <2>3, <2>5, <3>1 DEF Asked
  <2>6. CASE Known(w, x, y) /\ y # p
    BY <1>8, <2>3, <2>6 DEF Known
  <2>7. CASE Known(w, x, y) /\ y = p
    <3>1. x \in users /\ Registered(w, x)
      BY <2>1, <2>7 DEF Known, users, Registered
    <3> QED
      BY <1>2, <1>9, <2>7, <3>1
  <2> QED
    BY <1>0, <2>1, <2>4, <2>5, <2>6, <2>7 DEF WatchOK
<1>13. \A r \in {p} : w[r].life = "up" /\ Alone(w, M, r)
  OBVIOUS
<1> QED
  BY <1>8, <1>10, <1>11, <1>12, <1>13, LaterGood

-----------------------------------------------------------------------------
(* Handlers                                                                *)

\* A step from w to v is in order when v is, and the cells whose actor is fresh
\* have no live child.
Fine(w, v, N) ==
  Good(v, N) /\ Open(v) /\ \A q \in Cells : v[q].boots = w[q].boots \/ Alone(v, N, q)

\* Talk is in order.
LEMMA TalkFine ==
  ASSUME NEW w, NEW M, Good(w, M), Open(w), NEW v, Talk(w, v, {})
  PROVE  Fine(w, v, M)
<1>1. Good(v, M)
  BY GoodTalk
<1> QED
  BY <1>1 DEF Fine, Talk, Open

\* So is talk after a step in order.
LEMMA FineTalk ==
  ASSUME NEW w, NEW M, NEW u, Fine(w, u, M), NEW v, Talk(u, v, {})
  PROVE  Fine(w, v, M)
<1>1. Good(v, M) /\ Open(v)
  BY GoodTalk DEF Fine, Talk, Open
<1>2. \A q \in Cells : v[q].boots = u[q].boots /\ v[q].life = u[q].life
  BY DEF Talk
<1>3. \A q \in Cells : Alone(u, M, q) => Alone(v, M, q)
  BY <1>2 DEF Alone, ChildrenOf
<1> QED
  BY <1>1, <1>2, <1>3 DEF Fine

\* So is a fresh actor without live children.
LEMMA FinishFine ==
  ASSUME NEW w, NEW M, Good(w, M), Open(w), NEW p \in Cells, w[p].life = "up", Alone(w, M, p),
         NEW ok \in BOOLEAN
  PROVE  Fine(w, FinishRecreate(w, p, ok), M)
<1> DEFINE v == FinishRecreate(w, p, ok)
<1>1. Talk(w, v, {p})
  BY FinishTalk DEF Good
<1> HIDE DEF v
<1>2. Good(v, M)
  BY <1>1, GoodTalk
<1>3. Open(v) /\ \A q \in Cells : v[q].life = w[q].life /\ (q # p => v[q].boots = w[q].boots)
  BY <1>1 DEF Talk, Open
<1>4. Alone(v, M, p)
  BY <1>3 DEF Alone, ChildrenOf
<1>5. Fine(w, v, M)
  BY <1>2, <1>3, <1>4 DEF Fine
<1> QED
  BY <1>5 DEF v

\* A cell without children in its container has no live child.
LEMMA EmptyAlone ==
  ASSUME NEW w, NEW M, Good(w, M), NEW p \in Cells, w[p].kids.c = {}
  PROVE  Alone(w, M, p)
<1>1. TreeOK(w, M)
  BY DEF Good
<1> QED
  BY <1>1 DEF Alone, TreeOK, ChildrenOf

\* The live children are in the container.
LEMMA LiveHeld ==
  ASSUME NEW w, NEW M, Good(w, M), NEW p \in Cells, NEW r \in ChildrenOf(p), w[r].life = "up",
         <<r, "disowned">> \notin M, <<r, "late">> \notin M
  PROVE  /\ r \in w[p].kids.c
         /\ w[p].kids.reason \in Ending => r \in w[p].kids.toDie
<1>1. TreeOK(w, M)
  BY DEF Good
<1> QED
  BY <1>1 DEF TreeOK, ChildrenOf, Ending

\* The cells once p takes its next message, and once it has the watchers W too.
Took(w, p) == [w EXCEPT ![p].sys = Tail(@)]
Enlisted(w, p, W) == [Took(w, p) EXCEPT ![p].watchers = W]

\* A message that is not of death watch is taken.
LEMMA PopGood ==
  ASSUME NEW w, NEW M, Good(w, M), NEW p \in Cells, w[p].life = "up", w[p].sys # <<>>,
         Head(w[p].sys).type \notin {"Watch", "Unwatch", "DeathWatchNotification"},
         NEW v, v = Took(w, p)
  PROVE  /\ Good(v, M) /\ (Open(w) => Open(v))
         /\ \A q \in Cells : /\ v[q].life = w[q].life /\ v[q].kids = w[q].kids
                              /\ v[q].watching = w[q].watching /\ v[q].boots = w[q].boots
                              /\ v[q].failed = w[q].failed
<1> DEFINE s == Tail(w[p].sys)
           c == [w[p] EXCEPT !.sys = s]
<1>0. w \in [Cells -> CellType] /\ SupervisedOK(w) /\ \A q \in Cells : KidsOK(w[q].kids)
  BY DEF Good
<1>1. s \in Seq(Message) /\ Cut(w[p].sys, s, 1) /\ w[p].sys[1] = Head(w[p].sys)
  BY <1>0, CellFields, CutMade
<1>2. v = [w EXCEPT ![p] = c]
  BY <1>0 DEF Took
<1> HIDE DEF s
<1>3. /\ c \in CellType /\ c.sys = s /\ c.life = w[p].life /\ c.kids = w[p].kids
      /\ c.watchers = w[p].watchers /\ c.watching = w[p].watching /\ c.boots = w[p].boots
      /\ c.failed = w[p].failed
  BY <1>0, <1>1, SysSet
<1> HIDE DEF c
<1>4. \A q : /\ ~Taken(w[p].sys, 1, Told(q)) /\ ~Taken(w[p].sys, 1, Ask(q))
             /\ ~Taken(w[p].sys, 1, Recall(q))
  BY <1>1 DEF Taken, Told, Ask, Recall
<1>5. \A r \in c.kids.c \cup c.kids.toDie : <<r, "Supervision">> \in c.watching
  BY <1>0, <1>3 DEF SupervisedOK
<1>6. Holds(w, M, p, c.kids)
  BY <1>3, LiveHeld DEF Holds
<1>7. Good(v, M)
  <2>1. Update(w, M, p, c, 1)
    BY <1>0, <1>1, <1>3, <1>4, <1>5, <1>6 DEF Update
  <2> QED
    BY <1>2, <2>1, CellGood
<1>8. \A q \in Cells : v[q] = IF q = p THEN c ELSE w[q]
  BY <1>0, <1>2, <1>3, CellSet
<1> QED
  BY <1>3, <1>7, <1>8 DEF Open

\* The children of the container k are watched by p.
Watched(w, p, k) == \A r \in k.c \cup k.toDie : <<r, "Supervision">> \in w[p].watching

\* X is W without some watches of user code.
Fewer(W, X) ==
  X \subseteq W /\ \A r \in Cells : <<r, "Supervision">> \in W => <<r, "Supervision">> \in X

\* The cell c is b with the container k and the watches X.
Renewed(b, c, k, X) ==
  /\ c \in CellType /\ c.life = b.life /\ c.sys = b.sys /\ c.kids = k /\ c.failed = b.failed
  /\ c.watchers = b.watchers /\ c.watching = X /\ c.boots = b.boots

\* A cell with another container keeps the rest.
LEMMA RenewKids ==
  ASSUME NEW b \in CellType, NEW k \in Container, NEW c, c = [b EXCEPT !.kids = k]
  PROVE  Renewed(b, c, k, b.watching)
  BY KidsSet DEF Renewed

\* The live cell p gets the container k, and may stop watching as a user.
KidsStep(w, M, N, p, k, X, v) ==
  /\ Good(w, M) /\ M \subseteq N /\ p \in Cells /\ w[p].life = "up"
  /\ k \in Container /\ KidsOK(k) /\ Holds(w, N, p, k) /\ Watched(w, p, k)
  /\ Fewer(w[p].watching, X)
  /\ \E c : Renewed(w[p], c, k, X) /\ v = [w EXCEPT ![p] = c]

\* That leaves the cells in order.
LEMMA KidsGood ==
  ASSUME NEW w, NEW M, NEW N, NEW p, NEW k, NEW X, NEW v, KidsStep(w, M, N, p, k, X, v)
  PROVE  /\ Good(v, N) /\ (Open(w) /\ k.variant # "terminated" => Open(v)) /\ v[p].kids = k
         /\ v[p].failed = w[p].failed /\ v[p].watching = X
         /\ \A q \in Cells : v[q].life = w[q].life /\ v[q].boots = w[q].boots
<1> USE DEF KidsStep
<1>0. w \in [Cells -> CellType] /\ w[p] \in CellType /\ w[p].sys \in Seq(Message)
  BY CellFields DEF Good
<1>1. PICK c : Renewed(w[p], c, k, X) /\ v = [w EXCEPT ![p] = c]
  OBVIOUS
<1>4. /\ c \in CellType /\ c.sys = w[p].sys /\ c.life = w[p].life /\ c.kids = k
      /\ c.watchers = w[p].watchers /\ c.watching = X /\ c.boots = w[p].boots
      /\ c.failed = w[p].failed
  BY <1>1 DEF Renewed
<1>5. Cut(w[p].sys, w[p].sys, 0)
  BY <1>0, CutMade
<1>6. \A m : ~Taken(w[p].sys, 0, m)
  BY DEF Taken
<1>7. \A r \in c.kids.c \cup c.kids.toDie : <<r, "Supervision">> \in c.watching
  <2>1. k.c \cup k.toDie \subseteq Cells
    BY ContainerUpdate
  <2> QED
    BY <1>4, <2>1 DEF Watched, Fewer
<1>8. Good(v, N)
  <2>1. Update(w, N, p, c, 0)
    BY <1>4, <1>5, <1>6, <1>7 DEF Update, Fewer
  <2> QED
    BY <1>1, <2>1, CellGood
<1>9. \A q \in Cells : v[q] = IF q = p THEN c ELSE w[q]
  BY <1>0, <1>1, <1>4, CellSet
<1> QED
  BY <1>4, <1>8, <1>9 DEF Open


\* What a container's children are to their parent.
LEMMA KidsFacts ==
  ASSUME NEW w, NEW M, Good(w, M), NEW p \in Cells
  PROVE  /\ w \in [Cells -> CellType] /\ w[p] \in CellType
         /\ w[p].kids \in Container /\ KidsOK(w[p].kids) /\ Holds(w, M, p, w[p].kids)
         /\ w[p].life = "up" => Watched(w, p, w[p].kids)
         /\ Fewer(w[p].watching, w[p].watching)
<1>1. w \in [Cells -> CellType] /\ SupervisedOK(w) /\ KidsOK(w[p].kids)
  BY DEF Good
<1>2. w[p].kids \in Container
  BY <1>1, CellFields
<1>3. Holds(w, M, p, w[p].kids)
  BY LiveHeld DEF Holds
<1> QED
  BY <1>1, <1>2, <1>3 DEF SupervisedOK, Watched, Fewer

\* All the children are to die, for the reason given.
LEMMA DoomKids ==
  ASSUME NEW w, NEW M, Good(w, M), NEW p \in Cells, w[p].life = "up",
         NEW reason \in Ending, NEW k, k = SetTerminationReason(ShallDie(w[p].kids, w[p].kids.c), reason)
  PROVE  /\ k \in Container /\ KidsOK(k) /\ Holds(w, M, p, k) /\ Watched(w, p, k)
         /\ k.c = w[p].kids.c /\ (Open(w) => k.variant # "terminated")
         /\ k.c # {} => k.variant = "terminating"
<1> DEFINE a == w[p].kids
           b == ShallDie(a, a.c)
<1>0. a \in Container /\ KidsOK(a) /\ Holds(w, M, p, a) /\ Watched(w, p, a)
  BY KidsFacts
<1> HIDE DEF a
<1>1. a.variant = "terminated" => a.c = {}
  BY <1>0 DEF KidsOK
<1>2. /\ b \in Container /\ KidsOK(b) /\ b.c = a.c
      /\ b.toDie = a.toDie \cup (IF a.variant = "terminated" THEN {} ELSE a.c)
      /\ b.variant = "terminated" <=> a.variant = "terminated"
      /\ a.c # {} /\ a.variant # "terminated" => b.variant = "terminating"
  BY <1>0, ShallDieOK
<1> HIDE DEF b
<1>3. a.c \subseteq b.toDie /\ b.toDie \subseteq a.c \cup a.toDie
  BY <1>1, <1>2
<1>4. /\ k \in Container /\ KidsOK(k) /\ k.c = b.c /\ k.toDie = b.toDie /\ k.variant = b.variant
  <2>1. k = SetTerminationReason(b, reason)
    BY DEF a, b
  <2> QED
    BY <1>2, <2>1, SetReasonOK
<1>5. Holds(w, M, p, k)
  BY <1>0, <1>2, <1>3, <1>4 DEF Holds
<1>6. Watched(w, p, k)
  BY <1>0, <1>2, <1>3, <1>4 DEF Watched
<1>7. Open(w) => a.variant # "terminated"
  BY DEF Open, a
<1>8. k.c = w[p].kids.c
  BY <1>2, <1>4 DEF a
<1>9. k.c # {} => k.variant = "terminating"
  BY <1>1, <1>2, <1>4
<1> QED
  BY <1>2, <1>4, <1>5, <1>6, <1>7, <1>8, <1>9

\* Stop: the cell ends, or asks its children to.
LEMMA StopFine ==
  ASSUME NEW w, NEW M, Good(w, M), Open(w), NEW p \in Cells, w[p].life = "up"
  PROVE  Fine(w, HandleStop(w, p), M)
<1> DEFINE a == w[p].kids
<1>1. CASE IsTerminating(a)
  <2>1. HandleStop(w, p) = w
    BY <1>1 DEF HandleStop
  <2> QED
    BY <2>1 DEF Fine
<1>2. CASE ~IsTerminating(a) /\ a.c = {}
  <2> DEFINE z == Terminate(w, p)
  <2>1. HandleStop(w, p) = z
    BY <1>2 DEF HandleStop
  <2>2. Alone(w, M, p)
    BY <1>2, EmptyAlone
  <2>3. /\ Good(z, M) /\ z[p].life = "dead"
        /\ \A q \in Cells : z[q].boots = w[q].boots /\ z[q].kids = w[q].kids
        /\ \A q \in Cells \ {p} : z[q].life = w[q].life
    BY <2>2, TerminateGood
  <2> HIDE DEF z
  <2>4. Open(z)
    BY <2>3 DEF Open
  <2> QED
    BY <2>1, <2>3, <2>4 DEF Fine
<1>3. CASE ~IsTerminating(a) /\ a.c # {}
  <2> DEFINE k == SetTerminationReason(ShallDie(a, a.c), "Termination")
             c == [w[p] EXCEPT !.kids = k]
             u == [w EXCEPT ![p] = c]
             h == Suspend(u, p)
             v == SendAll(h, a.c, "Stop")
  <2>0. w \in [Cells -> CellType] /\ w[p] \in CellType /\ Fewer(w[p].watching, w[p].watching)
    BY KidsFacts
  <2>1. HandleStop(w, p) = v
    BY <1>3, <2>0 DEF HandleStop
  <2>2. /\ k \in Container /\ KidsOK(k) /\ Holds(w, M, p, k) /\ Watched(w, p, k)
        /\ k.variant # "terminated"
    BY DoomKids DEF Ending
  <2> HIDE DEF k
  <2>3. Renewed(w[p], c, k, w[p].watching)
    BY <2>0, <2>2, RenewKids
  <2> HIDE DEF c
  <2>4. KidsStep(w, M, M, p, k, w[p].watching, u)
    BY <2>0, <2>2, <2>3 DEF KidsStep
  <2> HIDE DEF u
  <2>5. Fine(w, u, M)
    BY <2>2, <2>4, KidsGood DEF Fine
  <2>6. u \in [Cells -> CellType]
    BY <2>5 DEF Fine, Good
  <2>7. h \in [Cells -> CellType] /\ Talk(u, h, {})
    BY <2>6, AdjustTalk
  <2> HIDE DEF h
  <2>8. v \in [Cells -> CellType] /\ Talk(h, v, {})
    BY <2>7, SendAllTalk
  <2> HIDE DEF v
  <2>9. Fine(w, v, M)
    BY <2>5, <2>7, <2>8, FineTalk
  <2> QED
    BY <2>1, <2>9
<1> QED
  BY <1>1, <1>2, <1>3

\* The default pre_restart asks every child to stop.
LEMMA PreRestartFine ==
  ASSUME NEW w, NEW M, Good(w, M), Open(w), NEW p \in Cells, w[p].life = "up",
         NEW v, v = PreRestart(w, p)
  PROVE  /\ Fine(w, v, M) /\ v[p].life = "up" /\ v[p].kids.c \subseteq v[p].kids.toDie
         /\ \A q \in Cells : v[q].boots = w[q].boots
<1> DEFINE a == w[p].kids
           X == w[p].watching \ (a.c \X {"User"})
           k == ShallDie(a, a.c)
           b == [w[p] EXCEPT !.kids = k]
           c == [b EXCEPT !.watching = X]
           u == [w EXCEPT ![p] = c]
<1>0. /\ w \in [Cells -> CellType] /\ w[p] \in CellType
      /\ a \in Container /\ KidsOK(a) /\ Holds(w, M, p, a) /\ Watched(w, p, a)
  BY KidsFacts
<1>1. a.variant # "terminated"
  BY DEF Open
<1>2. v = SendAll(u, a.c, "Stop")
  BY <1>0 DEF PreRestart
<1>3. w[p].watching \in Entries
  BY <1>0, CellFields
<1>4. Fewer(w[p].watching, X) /\ X \in Entries
  BY <1>3 DEF Fewer, Entries, Kinds
<1> HIDE DEF X
<1>5. /\ k \in Container /\ KidsOK(k) /\ k.c = a.c /\ k.toDie = a.toDie \cup a.c
      /\ k.reason \in Ending => a.reason \in Ending
      /\ k.variant # "terminated"
  <2> HIDE DEF a
  <2> QED
    BY <1>0, <1>1, ShallDieOK
<1> HIDE DEF k
<1>6. Holds(w, M, p, k) /\ Watched(w, p, k)
  BY <1>0, <1>5 DEF Holds, Watched
<1>7. Renewed(w[p], c, k, X)
  <2>1. /\ b \in CellType /\ b.sys = w[p].sys /\ b.life = w[p].life /\ b.kids = k
        /\ b.watchers = w[p].watchers /\ b.boots = w[p].boots /\ b.failed = w[p].failed
    BY <1>0, <1>5, KidsSet
  <2> HIDE DEF b
  <2>2. /\ c \in CellType /\ c.sys = b.sys /\ c.life = b.life /\ c.kids = b.kids
        /\ c.watchers = b.watchers /\ c.watching = X /\ c.boots = b.boots
        /\ c.failed = b.failed
    BY <1>4, <2>1, WatchingSet
  <2> QED
    BY <2>1, <2>2 DEF Renewed
<1> HIDE DEF c
<1>8. KidsStep(w, M, M, p, k, X, u)
  BY <1>4, <1>5, <1>6, <1>7 DEF KidsStep
<1> HIDE DEF u
<1>9. Fine(w, u, M) /\ u[p].life = "up" /\ u[p].kids = k /\ \A q \in Cells : u[q].boots = w[q].boots
  BY <1>5, <1>8, KidsGood DEF Fine
<1>10. u \in [Cells -> CellType]
  BY <1>9 DEF Fine, Good
<1>11. Talk(u, v, {})
  BY <1>2, <1>10, SendAllTalk
<1>12. Fine(w, v, M)
  BY <1>9, <1>11, FineTalk
<1> QED
  BY <1>5, <1>9, <1>11, <1>12 DEF Talk

\* Recreate: the restart is ignored, gives up, waits, or is done at once.
LEMMA RecreateFine ==
  ASSUME NEW w, NEW M, Good(w, M), Open(w), NEW p \in Cells, w[p].life = "up",
         NEW stopOk \in BOOLEAN, NEW startOk \in BOOLEAN
  PROVE  Fine(w, FaultRecreate(w, p, stopOk, startOk), M)
<1> DEFINE s == PreRestart(w, p)
           v == FaultRecreate(w, p, stopOk, startOk)
<1>1. /\ Fine(w, s, M) /\ s[p].life = "up" /\ s[p].kids.c \subseteq s[p].kids.toDie
      /\ \A q \in Cells : s[q].boots = w[q].boots
  BY PreRestartFine
<1>2. v = w \/ v = s \/ (s[p].kids.variant = "terminating"
                       /\ v = [s EXCEPT ![p].kids = SetTerminationReason(@, "Recreation")])
      \/ (s[p].kids.variant # "terminating" /\ v = FinishRecreate(s, p, startOk))
  BY DEF FaultRecreate
<1> HIDE DEF s, v
<1>3. Fine(w, w, M)
  BY DEF Fine
<1>4. CASE s[p].kids.variant = "terminating"
           /\ v = [s EXCEPT ![p].kids = SetTerminationReason(@, "Recreation")]
  <2> DEFINE a == s[p].kids
             k == SetTerminationReason(a, "Recreation")
             c == [s[p] EXCEPT !.kids = k]
  <2>0. Good(s, M) /\ Open(s)
    BY <1>1 DEF Fine
  <2>1. /\ s \in [Cells -> CellType] /\ s[p] \in CellType /\ Fewer(s[p].watching, s[p].watching)
        /\ a \in Container /\ KidsOK(a) /\ Holds(s, M, p, a) /\ Watched(s, p, a)
    BY <1>1, <2>0, KidsFacts
  <2>2. v = [s EXCEPT ![p] = c]
    BY <1>4, <2>1
  <2>3. /\ k \in Container /\ KidsOK(k) /\ k.c = a.c /\ k.toDie = a.toDie /\ k.variant = a.variant
    <3>1. "Recreation" \in Ending
      BY DEF Ending
    <3> HIDE DEF a
    <3> QED
      BY <2>1, <3>1, SetReasonOK
  <2> HIDE DEF k
  <2>4. Holds(s, M, p, k) /\ Watched(s, p, k)
    BY <1>1, <2>1, <2>3 DEF Holds, Watched
  <2>5. Renewed(s[p], c, k, s[p].watching)
    BY <2>1, <2>3, RenewKids
  <2> HIDE DEF c
  <2>6. KidsStep(s, M, M, p, k, s[p].watching, v)
    BY <1>1, <2>0, <2>1, <2>2, <2>3, <2>4, <2>5 DEF KidsStep
  <2>7. k.variant # "terminated"
    BY <1>4, <2>3
  <2>8. Good(v, M) /\ Open(v) /\ \A q \in Cells : v[q].boots = s[q].boots
    BY <2>0, <2>6, <2>7, KidsGood
  <2> QED
    BY <1>1, <2>8 DEF Fine, v
<1>5. CASE s[p].kids.variant # "terminating" /\ v = FinishRecreate(s, p, startOk)
  <2>0. Good(s, M) /\ Open(s)
    BY <1>1 DEF Fine
  <2>1. s[p].kids.c = {}
    <3>1. KidsOK(s[p].kids)
      BY <2>0 DEF Good
    <3> QED
      BY <1>1, <1>5, <3>1 DEF KidsOK
  <2>2. Alone(s, M, p)
    BY <2>0, <2>1, EmptyAlone
  <2>3. Fine(s, v, M)
    BY <1>1, <1>5, <2>0, <2>2, FinishFine
  <2> QED
    BY <1>1, <2>3 DEF Fine, v
<1> QED
  BY <1>1, <1>2, <1>3, <1>4, <1>5 DEF v

\* Failure: the supervisor takes the child up, decides, and tells the affected
\* children; those it forgets are the exceptions.
LEMMA FailureFine ==
  ASSUME NEW w, NEW M, Good(w, M), Open(w), NEW p \in Cells, w[p].life = "up",
         NEW child \in Cells, <<child, "Supervision">> \in w[p].watching,
         NEW directive \in Directives, NEW ok \in BOOLEAN,
         NEW N, M \subseteq N,
         directive = "Stop" /\ w[p].kids.variant = "normal" =>
           \A r \in Affected(w, p, child) : <<r, "disowned">> \in N
  PROVE  Fine(w, HandleFailure(w, p, child, directive, ok), N)
<1> DEFINE a == w[p].kids
           affected == Affected(w, p, child)
           b == AddChild(a, child)
           k == IF directive = "Stop" THEN ClearChildStats(b, affected) ELSE b
           c == [w[p] EXCEPT !.kids = k]
           decided == [w EXCEPT ![p] = c]
           called == IF ok THEN decided ELSE ReportFailure(decided, p)
           v == ApplyDirective(called, p, child, affected, directive)
<1>0. /\ w \in [Cells -> CellType] /\ w[p] \in CellType /\ Fewer(w[p].watching, w[p].watching)
      /\ a \in Container /\ KidsOK(a) /\ Holds(w, M, p, a) /\ Watched(w, p, a)
  BY KidsFacts
<1>1. a.variant # "terminated" /\ directive \in {"Resume", "Restart", "Stop", "Escalate"}
  BY TreeAssumption DEF Open
<1>2. HandleFailure(w, p, child, directive, ok) = v
  <2>1. CASE directive = "Stop"
    <3>1. [[w EXCEPT ![p].kids = AddChild(@, child)] EXCEPT ![p].kids = ClearChildStats(@, affected)]
            = decided
      BY <1>0, <2>1
    <3> QED
      BY <2>1, <3>1 DEF HandleFailure
  <2>2. CASE directive # "Stop"
    <3>1. [w EXCEPT ![p].kids = AddChild(@, child)] = decided
      BY <1>0, <2>2
    <3> QED
      BY <2>2, <3>1 DEF HandleFailure
  <2> QED
    BY <2>1, <2>2
<1>3. directive = "Stop" /\ a.variant = "normal" => \A r \in affected : <<r, "disowned">> \in N
  OBVIOUS
<1> HIDE DEF affected
<1>4. /\ b \in Container /\ KidsOK(b) /\ b.toDie = a.toDie /\ b.reason = a.reason
      /\ b.variant = a.variant /\ b.c = a.c \cup {child}
  <2> HIDE DEF a
  <2> QED
    BY <1>0, <1>1, AddChildOK
<1> HIDE DEF b
<1>5. /\ k \in Container /\ KidsOK(k) /\ k.toDie = b.toDie /\ k.reason = b.reason
      /\ k.variant = b.variant /\ k.c \subseteq b.c
      /\ \A r \in b.c : r \in k.c \/ (directive = "Stop" /\ b.variant = "normal" /\ r \in affected)
  <2>1. /\ ClearChildStats(b, affected) \in Container /\ KidsOK(ClearChildStats(b, affected))
        /\ ClearChildStats(b, affected).c \subseteq b.c /\ ClearChildStats(b, affected).toDie = b.toDie
        /\ ClearChildStats(b, affected).reason = b.reason
        /\ ClearChildStats(b, affected).variant = b.variant
        /\ b.variant = "normal" => ClearChildStats(b, affected).c = b.c \ affected
        /\ b.variant # "normal" => ClearChildStats(b, affected).c = b.c
    BY <1>4, ClearOK
  <2>2. CASE directive = "Stop"
    <3>1. k = ClearChildStats(b, affected)
      BY <2>2
    <3> HIDE DEF k
    <3> QED
      BY <2>1, <2>2, <3>1
  <2>3. CASE directive # "Stop"
    <3>1. k = b
      BY <2>3
    <3> HIDE DEF k
    <3> QED
      BY <1>4, <3>1
  <2> QED
    BY <2>2, <2>3
<1> HIDE DEF k
<1>6. Holds(w, N, p, k)
  BY <1>0, <1>3, <1>4, <1>5 DEF Holds
<1>7. Watched(w, p, k)
  BY <1>0, <1>4, <1>5 DEF Watched
<1>8. Renewed(w[p], c, k, w[p].watching)
  BY <1>0, <1>5, RenewKids
<1> HIDE DEF c
<1>9. KidsStep(w, M, N, p, k, w[p].watching, decided)
  BY <1>0, <1>5, <1>6, <1>7, <1>8 DEF KidsStep
<1> HIDE DEF decided
<1>10. Fine(w, decided, N) /\ decided[p].life = "up"
  <2>1. k.variant # "terminated"
    BY <1>1, <1>4, <1>5
  <2> QED
    BY <1>9, <2>1, KidsGood DEF Fine
<1>11. decided \in [Cells -> CellType]
  BY <1>10 DEF Fine, Good
<1>12. Fine(w, called, N) /\ called[p].life = "up"
  <2>1. Talk(decided, ReportFailure(decided, p), {})
    BY <1>10, <1>11, ReportTalk
  <2>2. CASE ok
    BY <1>10, <2>2
  <2>3. CASE ~ok
    <3>1. called = ReportFailure(decided, p)
      BY <2>3
    <3> HIDE DEF called
    <3>2. Fine(w, called, N)
      BY <1>10, <2>1, <3>1, FineTalk
    <3> QED
      BY <1>10, <2>1, <3>1, <3>2 DEF Talk
  <2> QED
    BY <2>2, <2>3
<1> HIDE DEF called
<1>13. called \in [Cells -> CellType]
  BY <1>12 DEF Fine, Good
<1>14. Talk(called, v, {})
  BY <1>1, <1>12, <1>13, DirectiveTalk
<1> HIDE DEF v
<1> QED
  BY <1>2, <1>12, <1>14, FineTalk

\* StopChild: one child is to die.
LEMMA StopChildFine ==
  ASSUME NEW w, NEW M, Good(w, M), Open(w), NEW p \in Cells, w[p].life = "up", NEW child
  PROVE  Fine(w, StopChild(w, p, child), M)
<1> DEFINE a == w[p].kids
<1>1. CASE child \notin a.c \/ IsTerminating(a)
  <2>1. StopChild(w, p, child) = w
    BY <1>1 DEF StopChild
  <2> QED
    BY <2>1 DEF Fine
<1>2. CASE child \in a.c /\ ~IsTerminating(a)
  <2> DEFINE k == ShallDie(a, {child})
             c == [w[p] EXCEPT !.kids = k]
             u == [w EXCEPT ![p] = c]
             v == SendAll(u, {child}, "Stop")
  <2>0. /\ w \in [Cells -> CellType] /\ w[p] \in CellType /\ Fewer(w[p].watching, w[p].watching)
        /\ a \in Container /\ KidsOK(a) /\ Holds(w, M, p, a) /\ Watched(w, p, a)
    BY KidsFacts
  <2>1. StopChild(w, p, child) = v
    BY <1>2, <2>0 DEF StopChild
  <2>2. a.variant # "terminated" /\ {child} \in SUBSET a.c
    BY <1>2 DEF Open
  <2>3. /\ k \in Container /\ KidsOK(k) /\ k.c = a.c /\ k.toDie = a.toDie \cup {child}
        /\ k.reason \in Ending => a.reason \in Ending
        /\ k.variant # "terminated"
    <3> HIDE DEF a
    <3> QED
      BY <2>0, <2>2, ShallDieOK
  <2> HIDE DEF k
  <2>4. Holds(w, M, p, k) /\ Watched(w, p, k)
    BY <1>2, <2>0, <2>3 DEF Holds, Watched
  <2>5. Renewed(w[p], c, k, w[p].watching)
    BY <2>0, <2>3, RenewKids
  <2> HIDE DEF c
  <2>6. KidsStep(w, M, M, p, k, w[p].watching, u)
    BY <2>0, <2>3, <2>4, <2>5 DEF KidsStep
  <2> HIDE DEF u
  <2>7. Fine(w, u, M)
    BY <2>3, <2>6, KidsGood DEF Fine
  <2>8. u \in [Cells -> CellType]
    BY <2>7 DEF Fine, Good
  <2>9. Talk(u, v, {})
    BY <2>8, SendAllTalk
  <2> HIDE DEF v
  <2> QED
    BY <2>1, <2>7, <2>9, FineTalk
<1> QED
  BY <1>1, <1>2

\* A notification is taken, and the watches of its subject with it.
LEMMA NotifiedFine ==
  ASSUME NEW w, NEW M, Good(w, M), Open(w), NEW p \in Cells, w[p].life = "up", w[p].sys # <<>>,
         NEW of \in Cells, Head(w[p].sys) = Told(of), NEW ok \in BOOLEAN,
         NEW u, u = Took(w, p)
  PROVE  Fine(w, HandleDeathWatchNotification(u, p, of, ok), M)
<1> DEFINE a == w[p].kids
           s == Tail(w[p].sys)
           gone == {of} \X Kinds
           X == w[p].watching \ gone
           k == RemoveChild(a, of)
           b == [w[p] EXCEPT !.sys = s]
           d == [b EXCEPT !.watching = X]
           c == [d EXCEPT !.kids = k]
           z == [w EXCEPT ![p] = c]
           v == HandleDeathWatchNotification(u, p, of, ok)
<1>0. /\ w \in [Cells -> CellType] /\ w[p] \in CellType
      /\ a \in Container /\ KidsOK(a) /\ Holds(w, M, p, a) /\ Watched(w, p, a)
  BY KidsFacts
<1>1. /\ s \in Seq(Message) /\ Cut(w[p].sys, s, 1) /\ w[p].sys[1] = Told(of)
      /\ w[p].sys \in Seq(Message) /\ w[p].watching \in Entries
  BY <1>0, CellFields, CutMade
<1>2. w[of].life # "up"
  <2>1. 1 \in DOMAIN w[p].sys
    BY <1>1
  <2>2. DeathOK(w)
    BY DEF Good
  <2> QED
    BY <1>1, <2>1, <2>2, ToldDead
<1>3. \A q \in Cells : /\ Taken(w[p].sys, 1, Told(q)) <=> q = of
                       /\ ~Taken(w[p].sys, 1, Ask(q)) /\ ~Taken(w[p].sys, 1, Recall(q))
  BY <1>1 DEF Taken, Told, Ask, Recall
<1>4. u = [w EXCEPT ![p] = b]
  BY <1>0 DEF Took
<1>5. /\ b \in CellType /\ b.sys = s /\ b.life = w[p].life /\ b.kids = a /\ b.boots = w[p].boots
      /\ b.watchers = w[p].watchers /\ b.watching = w[p].watching
  <2> HIDE DEF s
  <2> QED
    BY <1>0, <1>1, SysSet
<1>6. z = [u EXCEPT ![p].watching = @ \ gone, ![p].kids = RemoveChild(@, of)]
  <2>1. u[p] = b
    BY <1>0, <1>4
  <2>2. u[p].watching = w[p].watching /\ u[p].kids = a
    BY <1>5, <2>1
  <2> HIDE DEF b, k, X, a
  <2>3. [u EXCEPT ![p].watching = X, ![p].kids = k] = z
    BY <1>0, <1>4
  <2>4. [u EXCEPT ![p].watching = @ \ gone, ![p].kids = RemoveChild(@, of)]
          = [u EXCEPT ![p].watching = u[p].watching \ gone, ![p].kids = RemoveChild(u[p].kids, of)]
    BY <1>0, <1>4
  <2> QED
    BY <2>2, <2>3, <2>4 DEF X, k
<1>7. /\ v = IF gone \cap w[p].watching = {} THEN u
             ELSE CASE StateChange(a, of) = "Recreation" -> FinishRecreate(z, p, ok)
                    [] StateChange(a, of) = "Termination" -> Terminate(z, p)
                    [] OTHER -> z
  <2>1. u[p].watching = w[p].watching /\ u[p].kids = a
    BY <1>0, <1>4, <1>5
  <2> HIDE DEF a, z
  <2> QED
    BY <1>6, <2>1 DEF HandleDeathWatchNotification
<1> HIDE DEF s, b, v, z
<1>8. CASE gone \cap w[p].watching = {}
  <2>1. \A r \in b.kids.c \cup b.kids.toDie : <<r, "Supervision">> \in b.watching
    BY <1>0, <1>5 DEF Watched
  <2>2. <<of, "User">> \notin b.watching
    BY <1>5, <1>8 DEF Kinds
  <2>3. Update(w, M, p, b, 1)
    <3>1. \A q \in Cells : <<q, "User">> \in b.watching =>
            <<q, "User">> \in w[p].watching /\ ~Taken(w[p].sys, 1, Told(q))
      BY <1>3, <1>5, <2>2
    <3> HIDE DEF a
    <3> QED
      BY <1>0, <1>1, <1>3, <1>5, <2>1, <3>1 DEF Update
  <2>4. Good(u, M)
    BY <1>4, <2>3, CellGood
  <2>5. \A q \in Cells : u[q] = IF q = p THEN b ELSE w[q]
    BY <1>0, <1>4, <1>5, CellSet
  <2>6. Open(u) /\ \A q \in Cells : u[q].boots = w[q].boots
    BY <1>5, <2>5 DEF Open
  <2> QED
    BY <1>7, <1>8, <2>4, <2>6 DEF Fine, v
<1>9. CASE gone \cap w[p].watching # {}
  <2>1. X \in Entries
    BY <1>1 DEF Entries
  <2>2. /\ \A r \in Cells : <<r, "Supervision">> \in w[p].watching => <<r, "Supervision">> \in X \/ r = of
        /\ \A q \in Cells : <<q, "User">> \in X => <<q, "User">> \in w[p].watching /\ q # of
    BY DEF Kinds
  <2> HIDE DEF X, gone
  <2>3. /\ k \in Container /\ KidsOK(k) /\ k.c \subseteq a.c \ {of} /\ k.toDie = a.toDie \ {of}
        /\ a.toDie \ {of} # {} \/ a.toDie = {} =>
              /\ k.c = a.c \ {of} /\ k.reason = a.reason /\ k.variant = a.variant
              /\ StateChange(a, of) = "none"
        /\ a.toDie \ {of} = {} /\ a.toDie # {} =>
              /\ k.reason = "none" /\ StateChange(a, of) = a.reason
              /\ a.reason # "Termination" => k.c = a.c \ {of} /\ k.variant = "normal"
    <3> HIDE DEF a
    <3> QED
      BY <1>0, RemoveChildOK
  <2> HIDE DEF k
  <2>4. a.toDie \ {of} = {} /\ a.reason \in Ending => Alone(w, M, p)
    <3> SUFFICES ASSUME a.toDie \ {of} = {}, a.reason \in Ending,
                        NEW r \in ChildrenOf(p), w[r].life = "up",
                        <<r, "disowned">> \notin M, <<r, "late">> \notin M
                 PROVE  FALSE
      BY DEF Alone
    <3>1. r \in a.toDie
      BY <1>0 DEF Holds
    <3> QED
      BY <1>2, <3>1
  <2>5. Holds(w, M, p, k)
    <3> SUFFICES ASSUME NEW r \in ChildrenOf(p), w[r].life = "up",
                        <<r, "disowned">> \notin M, <<r, "late">> \notin M
                 PROVE  r \in k.c /\ (k.reason \in Ending => r \in k.toDie)
      BY DEF Holds
    <3>1. r \in a.c /\ (a.reason \in Ending => r \in a.toDie) /\ r # of
      BY <1>0, <1>2 DEF Holds
    <3>2. CASE a.toDie \ {of} # {} \/ a.toDie = {}
      BY <2>3, <3>1, <3>2
    <3>3. CASE a.toDie \ {of} = {} /\ a.toDie # {}
      <4>1. a.reason # "Termination"
        BY <3>1, <3>3 DEF Ending
      <4> QED
        BY <2>3, <3>1, <3>3, <4>1 DEF Ending
    <3> QED
      BY <3>2, <3>3
  <2>6. /\ c \in CellType /\ c.sys = s /\ c.life = w[p].life /\ c.kids = k /\ c.boots = w[p].boots
        /\ c.watchers = w[p].watchers /\ c.watching = X
    <3>1. /\ d \in CellType /\ d.sys = s /\ d.life = w[p].life /\ d.boots = w[p].boots
          /\ d.watchers = w[p].watchers /\ d.watching = X
      BY <1>5, <2>1, WatchingSet
    <3> HIDE DEF d
    <3> QED
      BY <2>3, <3>1, KidsSet
  <2> HIDE DEF c
  <2>7. \A r \in k.c \cup k.toDie : <<r, "Supervision">> \in X
    <3>1. \A r \in k.c \cup k.toDie : r \in Cells /\ r # of /\ <<r, "Supervision">> \in w[p].watching
      <4>1. a.c \subseteq Cells /\ a.toDie \subseteq Cells
        BY <1>0, ContainerUpdate
      <4> QED
        BY <1>0, <2>3, <4>1 DEF Watched
    <3> QED
      BY <2>2, <3>1
  <2>8. Update(w, M, p, c, 1)
    <3> HIDE DEF a
    <3> QED
      BY <1>1, <1>3, <2>2, <2>3, <2>5, <2>6, <2>7 DEF Update
  <2>9. Good(z, M)
    BY <2>8, CellGood DEF z
  <2>10. \A q \in Cells : z[q] = IF q = p THEN c ELSE w[q]
    BY <1>0, <2>6, CellSet DEF z
  <2>11. /\ z[p].life = "up"
         /\ \A q \in Cells : z[q].life = w[q].life /\ z[q].boots = w[q].boots
         /\ \A q \in Cells : q # p => z[q].kids = w[q].kids
         /\ z[p].kids = k
    BY <2>6, <2>10
  <2>12. Alone(w, M, p) => Alone(z, M, p)
    BY <2>11 DEF Alone, ChildrenOf
  <2>13. k.variant # "terminated" => Open(z)
    BY <2>11 DEF Open
  <2>14. a.variant # "terminated"
    BY DEF Open
  <2>15. CASE StateChange(a, of) = "Recreation"
    <3>1. v = FinishRecreate(z, p, ok)
      BY <1>7, <1>9, <2>15
    <3>2. a.toDie \ {of} = {} /\ a.toDie # {} /\ a.reason = "Recreation"
      BY <2>3, <2>15
    <3>3. Alone(z, M, p) /\ Open(z)
      BY <2>3, <2>4, <2>12, <2>13, <3>2 DEF Ending
    <3>4. Fine(z, v, M)
      BY <2>9, <2>11, <3>1, <3>3, FinishFine
    <3> QED
      BY <2>11, <3>4 DEF Fine, v
  <2>16. CASE StateChange(a, of) = "Termination"
    <3>1. v = Terminate(z, p)
      BY <1>7, <1>9, <2>16
    <3>2. a.toDie \ {of} = {} /\ a.toDie # {} /\ a.reason = "Termination"
      BY <2>3, <2>16
    <3>3. Alone(z, M, p)
      BY <2>4, <2>12, <3>2 DEF Ending
    <3>4. /\ Good(v, M) /\ v[p].life = "dead"
          /\ \A q \in Cells : v[q].boots = z[q].boots /\ v[q].kids = z[q].kids
          /\ \A q \in Cells \ {p} : v[q].life = z[q].life
      BY <2>9, <2>11, <3>1, <3>3, TerminateGood
    <3>5. Open(v)
      BY <2>11, <3>4 DEF Open
    <3> QED
      BY <2>11, <3>4, <3>5 DEF Fine, v
  <2>17. CASE StateChange(a, of) \notin {"Recreation", "Termination"}
    <3>1. v = z
      BY <1>7, <1>9, <2>17
    <3>2. k.variant # "terminated"
      BY <2>3, <2>14, <2>17
    <3> QED
      BY <2>9, <2>11, <2>13, <3>1, <3>2 DEF Fine, v
  <2> QED
    BY <2>15, <2>16, <2>17
<1> QED
  BY <1>8, <1>9

\* Watch and Unwatch: the watchers are changed for the one who asks.
LEMMA WatchersFine ==
  ASSUME NEW w, NEW M, Good(w, M), Open(w), NEW p \in Cells, w[p].life = "up", w[p].sys # <<>>,
         NEW of \in Cells, NEW W,
         \/ Head(w[p].sys) = Ask(of) /\ W = w[p].watchers \cup {<<of, "User">>}
         \/ Head(w[p].sys) = Recall(of) /\ W = w[p].watchers \ {<<of, "User">>},
         NEW v, v = Enlisted(w, p, W)
  PROVE  Fine(w, v, M)
<1> DEFINE s == Tail(w[p].sys)
           b == [w[p] EXCEPT !.sys = s]
           c == [b EXCEPT !.watchers = W]
<1>0. /\ w \in [Cells -> CellType] /\ w[p] \in CellType
      /\ w[p].kids \in Container /\ KidsOK(w[p].kids) /\ Holds(w, M, p, w[p].kids)
      /\ Watched(w, p, w[p].kids)
  BY KidsFacts
<1>1. /\ s \in Seq(Message) /\ Cut(w[p].sys, s, 1) /\ w[p].sys[1] = Head(w[p].sys)
      /\ w[p].sys \in Seq(Message) /\ w[p].watchers \in Entries
  BY <1>0, CellFields, CutMade
<1>2. W \in Entries
  BY <1>1 DEF Entries, Kinds
<1>3. v = [w EXCEPT ![p] = c]
  BY <1>0 DEF Took, Enlisted
<1> HIDE DEF s
<1>4. /\ b \in CellType /\ b.sys = s /\ b.life = w[p].life /\ b.kids = w[p].kids
      /\ b.boots = w[p].boots /\ b.watching = w[p].watching
  BY <1>0, <1>1, SysSet
<1> HIDE DEF b
<1>5. /\ c \in CellType /\ c.sys = s /\ c.life = w[p].life /\ c.kids = w[p].kids
      /\ c.boots = w[p].boots /\ c.watching = w[p].watching /\ c.watchers = W
  BY <1>2, <1>4, WatchersSet
<1> HIDE DEF c
<1>6. \A q \in Cells : ~Taken(w[p].sys, 1, Told(q))
  BY <1>1 DEF Taken, Told, Ask, Recall
<1>7. \A q \in Cells :
        \/ <<q, "User">> \in w[p].watchers /\ ~Taken(w[p].sys, 1, Recall(q))
        \/ Taken(w[p].sys, 1, Ask(q))
        => <<q, "User">> \in W
  BY <1>1 DEF Taken, Ask, Recall
<1>8. Update(w, M, p, c, 1)
  BY <1>0, <1>1, <1>5, <1>6, <1>7 DEF Update, Watched
<1>9. Good(v, M)
  BY <1>3, <1>8, CellGood
<1>10. \A q \in Cells : v[q] = IF q = p THEN c ELSE w[q]
  BY <1>0, <1>3, <1>5, CellSet
<1> QED
  BY <1>5, <1>9, <1>10 DEF Fine, Open

\* A queue that got one more message.
LEMMA OneMore ==
  ASSUME NEW s \in Seq(Message), NEW m \in Message
  PROVE  /\ Append(s, m) \in Seq(Message) /\ Longer(s, Append(s, m), {m})
         /\ Longer(s, s, {m})
         /\ \E i \in DOMAIN Append(s, m) :
              Append(s, m)[i] = m /\ \A j \in DOMAIN Append(s, m) : ~(j > i)
<1>1. Append(s, m) \in Seq(Message) /\ Longer(s, Append(s, m), {m}) /\ Longer(s, s, {m})
  BY LongerAppend, LongerRefl
<1>2. DOMAIN Append(s, m) = 1 .. Len(s) + 1 /\ Len(s) \in Nat /\ Append(s, m)[Len(s) + 1] = m
  OBVIOUS
<1> QED
  BY <1>1, <1>2

\* The cell p watches X from now on, and the message m is sent to t.
Wrote(w, v, p, X, t, m) ==
  /\ v \in [Cells -> CellType]
  /\ \A r \in Cells : /\ v[r].kids = w[r].kids /\ v[r].boots = w[r].boots
                       /\ v[r].life = w[r].life /\ v[r].watchers = w[r].watchers
                       /\ v[r].watching = IF r = p THEN X ELSE w[r].watching
  /\ v[t].sys = Append(w[t].sys, m)
  /\ \A r \in Cells \ {t} : v[r].sys = w[r].sys

\* The cells after an entry of watching is changed and a message is sent.
LEMMA WroteMade ==
  ASSUME NEW w \in [Cells -> CellType], NEW p \in Cells, NEW X \in Entries, NEW t \in Cells,
         NEW m \in Message
  PROVE  Wrote(w, [[w EXCEPT ![p].watching = X] EXCEPT ![t].sys = Append(@, m)], p, X, t, m)
<1> DEFINE b == [w[p] EXCEPT !.watching = X]
           u == [w EXCEPT ![p].watching = X]
           x == Append(u[t].sys, m)
           c == [u[t] EXCEPT !.sys = x]
           v == [u EXCEPT ![t].sys = Append(@, m)]
<1>0. u = [w EXCEPT ![p] = b]
  OBVIOUS
<1>1. /\ b \in CellType /\ b.sys = w[p].sys /\ b.life = w[p].life /\ b.kids = w[p].kids
      /\ b.boots = w[p].boots /\ b.watchers = w[p].watchers /\ b.watching = X
  BY WatchingSet
<1> HIDE DEF b
<1>2. u \in [Cells -> CellType] /\ \A r \in Cells : u[r] = IF r = p THEN b ELSE w[r]
  <2> HIDE DEF u
  <2> QED
    BY <1>0, <1>1, CellSet
<1> HIDE DEF u
<1>3. u[t].sys \in Seq(Message) /\ u[t] \in CellType /\ u[t].sys = w[t].sys
  BY <1>1, <1>2, CellFields
<1>4. x \in Seq(Message)
  BY <1>3
<1>10. x = Append(w[t].sys, m)
  BY <1>3
<1>5. v = [u EXCEPT ![t] = c]
  BY <1>2
<1> HIDE DEF x
<1>6. /\ c \in CellType /\ c.sys = x /\ c.life = u[t].life /\ c.kids = u[t].kids
      /\ c.boots = u[t].boots /\ c.watchers = u[t].watchers /\ c.watching = u[t].watching
  BY <1>3, <1>4, SysSet
<1> HIDE DEF c
<1>7. v \in [Cells -> CellType] /\ \A r \in Cells : v[r] = IF r = t THEN c ELSE u[r]
  <2> HIDE DEF v
  <2> QED
    BY <1>2, <1>5, <1>6, CellSet
<1>8. v = [[w EXCEPT ![p].watching = X] EXCEPT ![t].sys = Append(@, m)]
  BY DEF u
<1> HIDE DEF v
<1>9. Wrote(w, v, p, X, t, m)
  <2>1. \A r \in Cells : /\ v[r].kids = w[r].kids /\ v[r].boots = w[r].boots
                         /\ v[r].life = w[r].life /\ v[r].watchers = w[r].watchers
                         /\ v[r].watching = IF r = p THEN X ELSE w[r].watching
    BY <1>1, <1>2, <1>6, <1>7
  <2>2. v[t].sys = Append(w[t].sys, m)
    BY <1>10, <1>6, <1>7
  <2>3. \A r \in Cells \ {t} : v[r].sys = w[r].sys
    BY <1>1, <1>2, <1>7
  <2> QED
    BY <1>7, <2>1, <2>2, <2>3 DEF Wrote
<1> QED
  BY <1>8, <1>9

\* User code of p watches or unwatches q: it notes that, and the message m goes
\* to t, which is q or p itself.
LEMMA UserWatchFine ==
  ASSUME NEW w, NEW M, Good(w, M), Open(w), NEW p \in Cells, w[p].life = "up", NEW q \in Cells,
         NEW X \in Entries, NEW t \in Cells, NEW m \in Message, NEW v, Wrote(w, v, p, X, t, m),
         \A r \in Cells : <<r, "Supervision">> \in X <=> <<r, "Supervision">> \in w[p].watching,
         \A r \in Cells \ {q} : <<r, "User">> \in X => <<r, "User">> \in w[p].watching,
         \/ t = q /\ m = Ask(p) /\ Registered(w, q)
         \/ t = p /\ m = Told(q) /\ w[q].life = "gone"
         \/ m = Recall(p) /\ <<q, "User">> \notin X /\ t = q
  PROVE  Fine(w, v, M)
<1>0. w \in [Cells -> CellType] /\ WatchOK(w, M)
  BY DEF Good
<1> DEFINE x == v[t].sys
<1>4. /\ x \in Seq(Message) /\ Longer(w[t].sys, x, {m})
      /\ \E i \in DOMAIN x : x[i] = m /\ \A j \in DOMAIN x : ~(j > i)
  <2>1. w[t].sys \in Seq(Message) /\ x = Append(w[t].sys, m)
    BY <1>0, CellFields DEF Wrote
  <2> HIDE DEF x
  <2> QED
    BY <2>1, OneMore
<1> HIDE DEF x
<1>7. v \in [Cells -> CellType]
  BY DEF Wrote
<1>8. \A r \in Cells : /\ v[r].kids = w[r].kids /\ v[r].boots = w[r].boots
                       /\ v[r].life = w[r].life /\ v[r].watchers = w[r].watchers
                       /\ v[r].watching = IF r = p THEN X ELSE w[r].watching
  BY DEF Wrote
<1>9. \A r \in Cells : Longer(w[r].sys, v[r].sys, {m})
  <2>1. \A r \in Cells \ {t} : v[r].sys = w[r].sys /\ w[r].sys \in Seq(Message)
    BY <1>0, CellFields DEF Wrote
  <2> QED
    BY <1>4, <2>1, LongerRefl DEF x
<1>10. Later(w, v, {}, {m})
  <2>1. \A r, y \in Cells :
          <<y, "Supervision">> \in v[r].watching <=> <<y, "Supervision">> \in w[r].watching
    BY <1>8
  <2> QED
    BY <1>7, <1>8, <1>9, <2>1 DEF Later
<1>11. \A n \in {m} : n.type # "Failure" /\
          (n.type = "DeathWatchNotification" => v[n.of].life \in {"dead", "gone"})
  BY <1>8 DEF Ask, Told, Recall
<1>12. WatchOK(v, M)
  <2> SUFFICES ASSUME NEW y \in Cells, NEW z \in Cells, v[y].life = "up",
                      <<z, "User">> \in v[y].watching, <<y, "unheard">> \notin M
               PROVE  Heard(v, y, z) \/ Asked(v, y, z) \/ Known(v, y, z)
    BY DEF WatchOK
  <2>1. ASSUME NEW r \in Cells
        PROVE  /\ \A i \in DOMAIN w[r].sys : i \in Nat /\ i \in DOMAIN v[r].sys /\ v[r].sys[i] = w[r].sys[i]
               /\ \A i \in DOMAIN v[r].sys : i \in DOMAIN w[r].sys \/ v[r].sys[i] = m
    <3>1. w[r].sys \in Seq(Message) /\ v[r].sys \in Seq(Message)
      BY <1>0, <1>7, CellFields
    <3> QED
      BY <1>9, <3>1, LongerIndices
  <2>2. CASE y = p /\ z = q
    <3>1. <<q, "User">> \in X
      BY <1>8, <2>2
    <3>2. v[t].sys = x
      BY DEF x
    <3>3. PICK i \in DOMAIN x : x[i] = m /\ \A j \in DOMAIN x : ~(j > i)
      BY <1>4
    <3>4. CASE t = q /\ m = Ask(p) /\ Registered(w, q)
      <4>1. Registered(v, q)
        BY <1>8, <3>4 DEF Registered
      <4>2. Asked(v, p, q)
        BY <3>2, <3>3, <3>4, <4>1 DEF Asked
      <4> QED
        BY <2>2, <4>2
    <3>5. CASE t = p /\ m = Told(q)
      <4>1. Heard(v, p, q)
        BY <3>2, <3>3, <3>5 DEF Heard
      <4> QED
        BY <2>2, <4>1
    <3> QED
      BY <3>1, <3>4, <3>5
  <2>3. CASE ~(y = p /\ z = q)
    <3>1. w[y].life = "up" /\ <<z, "User">> \in w[y].watching
      BY <1>8, <2>3
    <3>2. \A i \in DOMAIN v[z].sys : v[z].sys[i] = Recall(y) =>
            i \in DOMAIN w[z].sys /\ w[z].sys[i] = Recall(y)
      <4>1. CASE m # Recall(y)
        BY <2>1, <4>1
      <4>2. CASE m = Recall(y)
        <5>1. y = p /\ t = q
          BY <4>2 DEF Recall, Ask, Told
        <5>2. z # t
          BY <2>3, <5>1
        <5>3. v[z].sys = w[z].sys
          BY <5>2 DEF Wrote
        <5> QED
          BY <5>3
      <4> QED
        BY <4>1, <4>2
    <3>4. CASE Heard(w, y, z)
      BY <2>1, <3>4 DEF Heard
    <3>5. CASE Asked(w, y, z)
      <4>1. Registered(v, z)
        BY <1>8, <3>5 DEF Asked, Registered
      <4> QED
        BY <2>1, <3>2, <3>5, <4>1 DEF Asked
    <3>6. CASE Known(w, y, z)
      BY <1>8, <3>2, <3>6 DEF Known
    <3> QED
      BY <1>0, <3>1, <3>4, <3>5, <3>6 DEF WatchOK
  <2> QED
    BY <2>2, <2>3
<1>13. Good(v, M)
  <2>1. {} \in SUBSET Cells /\ {m} \in SUBSET Message /\ \A r \in {} : w[r].life = "up" /\ Alone(w, M, r)
    OBVIOUS
  <2> QED
    BY <1>10, <1>11, <1>12, <2>1, LaterGood
<1> QED
  BY <1>8, <1>13 DEF Fine, Open

\* What a new cell may be made of.
Parts(life, kids, parents) ==
  life \in {"new", "up", "dead", "gone"} /\ kids \in SUBSET Cells /\ parents \in SUBSET Cells

\* A supervisor's watches of the cells of S.
Supervised(S) == S \X {"Supervision"}

\* A new cell is one.
LEMMA NewCellOK ==
  ASSUME NEW life, NEW kids, NEW parents, Parts(life, kids, parents),
         NEW c, c = NewCell(life, kids, parents)
  PROVE  /\ c \in CellType /\ c.life = life /\ DOMAIN c.sys = {} /\ KidsOK(c.kids)
         /\ c.kids \in Container /\ c.kids.variant = "normal"
         /\ c.kids.c = kids /\ c.kids.toDie = {} /\ c.kids.reason = "none"
         /\ c.watching = Supervised(kids) /\ c.boots = 1
         /\ c.sys = <<>> /\ c.suspends = 0
<1>0. life \in {"new", "up", "dead", "gone"} /\ kids \in SUBSET Cells /\ parents \in SUBSET Cells
  BY DEF Parts
<1> DEFINE k == NormalContainer(kids)
           a == parents \X {"Supervision"}
           b == Supervised(kids)
<1>1. /\ k \in Container /\ KidsOK(k) /\ k.variant = "normal" /\ k.c = kids /\ k.toDie = {}
      /\ k.reason = "none"
  BY <1>0 DEF NormalContainer, Container, KidsOK
<1>2. a \in Entries /\ b \in Entries
  BY <1>0 DEF Entries, Kinds, Supervised
<1>3. c = [life |-> life, sys |-> <<>>, suspends |-> 0, kids |-> k, failed |-> "none",
           watchers |-> a, watching |-> b, boots |-> 1]
  BY DEF NewCell, Supervised
<1>4. <<>> \in Seq(Message)
  OBVIOUS
<1> HIDE DEF k, a, b
<1>5. c \in CellType
  <2>1. CellType = [life : {"new", "up", "dead", "gone"}, sys : Seq(Message), suspends : Nat,
               kids : Container, failed : {"none", "Child", "Fatal"},
               watchers : Entries, watching : Entries, boots : Nat]
    BY DEF CellType, Entries
  <2> QED
    BY <1>0, <1>1, <1>2, <1>3, <1>4, <2>1
<1>6. /\ c.kids = k /\ c.watching = b /\ c.watchers = a /\ c.life = life /\ DOMAIN c.sys = {}
      /\ c.boots = 1 /\ c.sys = <<>> /\ c.suspends = 0
  <2>1. c.sys = <<>> /\ DOMAIN <<>> = {}
    BY <1>3
  <2> QED
    BY <1>3, <2>1
<1> QED
  BY <1>1, <1>5, <1>6 DEF b

\* The cell p is gone and no other cell has changed, but for the container of one
\* that does not watch p.
Removed(w, v, p) ==
  /\ v \in [Cells -> CellType]
  /\ v[p].life = "gone" /\ DOMAIN v[p].sys = {} /\ KidsOK(v[p].kids) /\ v[p].boots = w[p].boots
  /\ v[p].sys = <<>> /\ v[p].kids.c = {}
  /\ \A q \in Cells \ {p} :
       /\ v[q].life = w[q].life /\ v[q].sys = w[q].sys /\ v[q].boots = w[q].boots
       /\ v[q].suspends = w[q].suspends
       /\ v[q].watchers = w[q].watchers /\ v[q].watching = w[q].watching
       /\ \/ v[q].kids = w[q].kids
          \/ v[q].kids = RemoveChild(w[q].kids, p) /\ <<p, "Supervision">> \notin w[q].watching

\* The record of a removed cell.
LEMMA GoneCell ==
  ASSUME NEW n \in Nat
  PROVE  LET g == [NewCell("gone", {}, {}) EXCEPT !.boots = n]
         IN  /\ g \in CellType /\ g.life = "gone" /\ DOMAIN g.sys = {} /\ KidsOK(g.kids)
             /\ g.boots = n /\ g.sys = <<>> /\ g.kids.c = {}
<1> DEFINE e == NewCell("gone", {}, {})
           g == [e EXCEPT !.boots = n]
<1>1. /\ e \in CellType /\ e.life = "gone" /\ DOMAIN e.sys = {} /\ KidsOK(e.kids)
      /\ e.sys = <<>> /\ e.kids.c = {}
  <2>1. Parts("gone", {}, {}) /\ e = NewCell("gone", {}, {})
    BY DEF Parts
  <2> HIDE DEF e
  <2>2. e \in CellType /\ e.life = "gone"
    BY <2>1, NewCellOK
  <2>3. DOMAIN e.sys = {}
    BY <2>1, NewCellOK
  <2>4. KidsOK(e.kids)
    BY <2>1, NewCellOK
  <2>5. e.sys = <<>> /\ e.kids.c = {}
    BY <2>1, NewCellOK
  <2> QED
    BY <2>2, <2>3, <2>4, <2>5
<1> HIDE DEF e
<1>2. /\ g \in CellType /\ g.life = "gone" /\ DOMAIN g.sys = {} /\ KidsOK(g.kids) /\ g.boots = n
      /\ g.sys = <<>> /\ g.kids.c = {}
  BY <1>1, BootsSet
<1> QED
  BY <1>2 DEF e

\* The cells after Remove.
LEMMA RemovedMade ==
  ASSUME NEW w \in [Cells -> CellType], \A q \in Cells : KidsOK(w[q].kids), NEW p \in Cells,
         NEW v, v = [q \in Cells |->
          CASE q = p -> [NewCell("gone", {}, {}) EXCEPT !.boots = w[p].boots]
            [] q \in ParentOf(p) \ {p} /\ ({p} \X Kinds) \cap w[q].watching = {} ->
                    [w[q] EXCEPT !.kids = RemoveChild(@, p)]
            [] OTHER -> w[q]]
  PROVE  Removed(w, v, p)
<1> DEFINE e == NewCell("gone", {}, {})
           g == [e EXCEPT !.boots = w[p].boots]
<1>1. v[p] = g
  OBVIOUS
<1>2. ASSUME NEW q \in Cells \ {p}
      PROVE  \/ v[q] = w[q]
             \/ /\ v[q] = [w[q] EXCEPT !.kids = RemoveChild(w[q].kids, p)]
                /\ ({p} \X Kinds) \cap w[q].watching = {}
  <2> DEFINE d == [w[q] EXCEPT !.kids = RemoveChild(w[q].kids, p)]
             P == q \in ParentOf(p) \ {p} /\ ({p} \X Kinds) \cap w[q].watching = {}
  <2>1. v[q] = CASE q = p -> [NewCell("gone", {}, {}) EXCEPT !.boots = w[p].boots]
                 [] P -> d
                 [] OTHER -> w[q]
    OBVIOUS
  <2>2. P => ({p} \X Kinds) \cap w[q].watching = {}
    OBVIOUS
  <2> HIDE DEF d, P
  <2>3. (P /\ v[q] = d) \/ v[q] = w[q]
    BY <2>1
  <2> QED
    BY <2>2, <2>3 DEF d
<1>3. v = [q \in Cells |-> v[q]]
  OBVIOUS
<1>4. /\ g \in CellType /\ g.life = "gone" /\ DOMAIN g.sys = {} /\ KidsOK(g.kids)
      /\ g.boots = w[p].boots /\ g.sys = <<>> /\ g.kids.c = {}
  <2>1. w[p].boots \in Nat
    BY CellFields
  <2> QED
    BY <2>1, GoneCell
<1> HIDE DEF g
<1>6. ASSUME NEW q \in Cells \ {p}
      PROVE  /\ v[q] \in CellType /\ v[q].life = w[q].life /\ v[q].sys = w[q].sys
             /\ v[q].boots = w[q].boots /\ v[q].suspends = w[q].suspends
             /\ v[q].watchers = w[q].watchers /\ v[q].watching = w[q].watching
             /\ \/ v[q].kids = w[q].kids
                \/ /\ v[q].kids = RemoveChild(w[q].kids, p)
                   /\ <<p, "Supervision">> \notin w[q].watching
  <2>1. CASE v[q] = w[q]
    BY <2>1
  <2>2. CASE v[q] # w[q]
    <3> DEFINE k == RemoveChild(w[q].kids, p)
               c == [w[q] EXCEPT !.kids = k]
    <3>1. v[q] = c /\ <<p, "Supervision">> \notin w[q].watching
      BY <1>2, <2>2 DEF Kinds
    <3>2. k \in Container
      BY CellFields, RemoveChildOK
    <3> HIDE DEF k
    <3>3. /\ c \in CellType /\ c.life = w[q].life /\ c.sys = w[q].sys /\ c.boots = w[q].boots
          /\ c.watchers = w[q].watchers /\ c.watching = w[q].watching /\ c.kids = k
          /\ c.suspends = w[q].suspends
      BY <3>2, KidsSet
    <3> HIDE DEF c
    <3> QED
      BY <3>1, <3>3 DEF k
  <2> QED
    BY <2>1, <2>2
<1>7. v \in [Cells -> CellType]
  <2>1. \A q \in Cells : v[q] \in CellType
    BY <1>1, <1>4, <1>6
  <2> QED
    BY <1>3, <2>1
<1> QED
  BY <1>1, <1>4, <1>6, <1>7 DEF Removed

\* A dead cell is removed: its queue goes with it, and the Watches in it are the
\* exceptions.
LEMMA RemoveFine ==
  ASSUME NEW w, NEW M, Good(w, M), Open(w), NEW p \in Cells, w[p].life = "dead",
         NEW N, M \subseteq N,
         \A i \in DOMAIN w[p].sys : w[p].sys[i].type = "Watch" => <<w[p].sys[i].of, "unheard">> \in N,
         NEW v, Removed(w, v, p)
  PROVE  Fine(w, v, N)
<1>0. /\ w \in [Cells -> CellType] /\ TreeOK(w, M) /\ SupervisedOK(w) /\ DeathOK(w) /\ WatchOK(w, M)
      /\ \A q \in Cells : KidsOK(w[q].kids)
  BY DEF Good
<1>1. v \in [Cells -> CellType] /\ v[p].life = "gone" /\ DOMAIN v[p].sys = {} /\ KidsOK(v[p].kids)
      /\ v[p].boots = w[p].boots
  BY DEF Removed
<1>2. \A q \in Cells \ {p} :
        /\ v[q].life = w[q].life /\ v[q].sys = w[q].sys /\ v[q].boots = w[q].boots
        /\ v[q].watchers = w[q].watchers /\ v[q].watching = w[q].watching
  BY DEF Removed
<1>3. ASSUME NEW q \in Cells \ {p}
      PROVE  /\ KidsOK(v[q].kids)
             /\ w[q].life = "up" =>
                  /\ v[q].kids.c = w[q].kids.c /\ v[q].kids.toDie = w[q].kids.toDie
                  /\ v[q].kids.reason = w[q].kids.reason
                  /\ v[q].kids.variant = w[q].kids.variant
  <2>1. CASE v[q].kids = w[q].kids
    BY <1>0, <2>1
  <2>2. CASE v[q].kids = RemoveChild(w[q].kids, p) /\ <<p, "Supervision">> \notin w[q].watching
    <3> DEFINE a == w[q].kids
               k == RemoveChild(a, p)
    <3>1. a \in Container /\ KidsOK(a)
      BY <1>0, CellFields
    <3>2. w[q].life = "up" => p \notin a.c \cup a.toDie
      BY <1>0, <2>2 DEF SupervisedOK
    <3> HIDE DEF a
    <3>3. /\ KidsOK(k) /\ k.toDie = a.toDie \ {p}
          /\ a.toDie \ {p} # {} \/ a.toDie = {} =>
              k.c = a.c \ {p} /\ k.reason = a.reason /\ k.variant = a.variant
      BY <3>1, RemoveChildOK
    <3>4. v[q].kids = k
      BY <2>2 DEF a
    <3> HIDE DEF k
    <3>5. w[q].life = "up" => a.toDie \ {p} = a.toDie /\ a.c \ {p} = a.c
      BY <3>2
    <3> QED
      BY <3>3, <3>4, <3>5 DEF a
  <2> QED
    BY <2>1, <2>2 DEF Removed
<1>4. \A q \in Cells : KidsOK(v[q].kids)
  BY <1>1, <1>3
<1>5. \A q \in Cells : v[q].life = "up" => w[q].life = "up" /\ q # p
  BY <1>1, <1>2
<1>6. TreeOK(v, N)
  <2> SUFFICES ASSUME NEW r \in Cells \ {Root}, v[r].life = "up", <<r, "disowned">> \notin N,
                      <<r, "late">> \notin N
               PROVE  /\ v[Parent[r]].life = "up"
                      /\ r \in v[Parent[r]].kids.c
                      /\ v[Parent[r]].kids.reason \in {"Recreation", "Termination"} =>
                           r \in v[Parent[r]].kids.toDie
    BY DEF TreeOK
  <2>1. Parent[r] \in Cells
    BY TreeAssumption
  <2>2. /\ w[Parent[r]].life = "up" /\ r \in w[Parent[r]].kids.c
        /\ w[Parent[r]].kids.reason \in {"Recreation", "Termination"} =>
             r \in w[Parent[r]].kids.toDie
    BY <1>0, <1>5 DEF TreeOK
  <2>3. Parent[r] # p
    BY <2>2
  <2> QED
    BY <1>2, <1>3, <2>1, <2>2, <2>3
<1>7. SupervisedOK(v)
  <2>1. ASSUME NEW r \in Cells \ {Root}, v[r].life = "up" PROVE v[Parent[r]].life # "new"
    <3>1. Parent[r] \in Cells /\ w[Parent[r]].life # "new"
      BY <1>0, <1>5, <2>1, TreeAssumption DEF SupervisedOK
    <3> QED
      BY <1>1, <1>2, <3>1
  <2>2. ASSUME NEW q \in Cells, v[q].life = "up"
        PROVE  /\ \A r \in v[q].kids.c \cup v[q].kids.toDie : <<r, "Supervision">> \in v[q].watching
               /\ \A r \in ChildrenOf(q) : v[r].life = "up" => <<r, "Supervision">> \in v[q].watching
               /\ \A i \in DOMAIN v[q].sys : v[q].sys[i].type = "Failure" =>
                    /\ <<v[q].sys[i].of, "Supervision">> \in v[q].watching
                    /\ \A j \in DOMAIN v[q].sys : j < i => v[q].sys[j] # Told(v[q].sys[i].of)
    <3>1. q # p /\ w[q].life = "up"
      BY <1>5, <2>2
    <3>2. /\ \A r \in w[q].kids.c \cup w[q].kids.toDie : <<r, "Supervision">> \in w[q].watching
          /\ \A r \in ChildrenOf(q) : w[r].life = "up" => <<r, "Supervision">> \in w[q].watching
          /\ \A i \in DOMAIN w[q].sys : w[q].sys[i].type = "Failure" =>
                    /\ <<w[q].sys[i].of, "Supervision">> \in w[q].watching
                    /\ \A j \in DOMAIN w[q].sys : j < i => w[q].sys[j] # Told(w[q].sys[i].of)
      BY <1>0, <3>1 DEF SupervisedOK
    <3> QED
      BY <1>2, <1>3, <1>5, <3>1, <3>2 DEF ChildrenOf
  <2> QED
    BY <2>1, <2>2 DEF SupervisedOK
<1>8. DeathOK(v)
  <2> SUFFICES ASSUME NEW q \in Cells, NEW i \in DOMAIN v[q].sys,
                      v[q].sys[i].type = "DeathWatchNotification"
               PROVE  v[v[q].sys[i].of].life \in {"dead", "gone"}
    BY DEF DeathOK
  <2>1. q # p
    BY <1>1
  <2>2. v[q].sys = w[q].sys
    BY <1>2, <2>1
  <2>3. w[q].sys[i] \in Message
    BY <1>0, <2>2, CellFields
  <2>4. w[q].sys[i].of \in Cells /\ w[w[q].sys[i].of].life \in {"dead", "gone"}
    BY <1>0, <2>2, <2>3 DEF Message, DeathOK
  <2> QED
    BY <1>1, <1>2, <2>2, <2>4
<1>9. WatchOK(v, N)
  <2> SUFFICES ASSUME NEW x \in Cells, NEW y \in Cells, v[x].life = "up",
                      <<y, "User">> \in v[x].watching, <<x, "unheard">> \notin N
               PROVE  Heard(v, x, y) \/ Asked(v, x, y) \/ Known(v, x, y)
    BY DEF WatchOK
  <2>1. x # p /\ w[x].life = "up" /\ <<y, "User">> \in w[x].watching
    BY <1>2, <1>5
  <2>2. CASE Heard(w, x, y)
    BY <1>2, <2>1, <2>2 DEF Heard
  <2>3. CASE Asked(w, x, y) /\ y # p
    BY <1>2, <2>3 DEF Asked, Registered
  <2>4. CASE Asked(w, x, y) /\ y = p
    BY <2>4 DEF Asked, Ask
  <2>5. CASE Known(w, x, y)
    <3>1. y # p
      BY <2>5 DEF Known
    <3> QED
      BY <1>2, <2>5, <3>1 DEF Known
  <2> QED
    BY <1>0, <2>1, <2>2, <2>3, <2>4, <2>5 DEF WatchOK
<1>10. Good(v, N)
  BY <1>1, <1>4, <1>6, <1>7, <1>8, <1>9 DEF Good
<1>11. Open(v) /\ \A q \in Cells : v[q].boots = w[q].boots
  BY <1>1, <1>2, <1>3, <1>5 DEF Open
<1> QED
  BY <1>10, <1>11 DEF Fine

\* The cell p is live, with nothing but its Create, and s has it as a child.
Spawned(w, v, p, s) ==
  /\ v \in [Cells -> CellType] /\ v[p].life = "up" /\ KidsOK(v[p].kids)
  /\ v[p].kids.variant = "normal" /\ v[p].kids.c = {} /\ v[p].kids.toDie = {}
  /\ \A r \in Cells : <<r, "User">> \notin v[p].watching
  /\ \A i \in DOMAIN v[p].sys : v[p].sys[i].type = "Create"
  /\ \A q \in Cells \ {p} :
       /\ v[q].life = w[q].life /\ v[q].sys = w[q].sys /\ v[q].boots = w[q].boots
       /\ v[q].watchers = w[q].watchers /\ v[q].suspends = w[q].suspends
  /\ \A q \in Cells \ {p, s} : v[q].watching = w[q].watching /\ v[q].kids = w[q].kids
  /\ v[s].watching = w[s].watching \cup {<<p, "Supervision">>}
  /\ v[s].kids = AddChild(w[s].kids, p)

\* The record of a spawned cell, before its first message.
LEMMA FreshCell ==
  ASSUME NEW S \in SUBSET Cells
  PROVE  LET e == NewCell("up", {}, S)
         IN  /\ e \in CellType /\ e.life = "up" /\ KidsOK(e.kids)
             /\ e.kids.variant = "normal" /\ e.kids.c = {} /\ e.kids.toDie = {}
             /\ \A r \in Cells : <<r, "User">> \notin e.watching
<1> DEFINE T == {}
           e == NewCell("up", T, S)
<1>1. Parts("up", T, S) /\ e = NewCell("up", T, S)
  BY DEF Parts
<1> HIDE DEF e, T
<1>2. e \in CellType /\ e.life = "up" /\ KidsOK(e.kids)
  BY <1>1, NewCellOK
<1>3. e.kids.variant = "normal" /\ e.kids.c = T
  BY <1>1, NewCellOK
<1>5. e.kids.toDie = {}
  BY <1>1, NewCellOK
<1>4. \A r \in Cells : <<r, "User">> \notin e.watching
  <2>1. e.watching = Supervised(T)
    BY <1>1, NewCellOK
  <2> QED
    BY <2>1 DEF Supervised
<1> QED
  BY <1>2, <1>3, <1>4, <1>5 DEF e, T

\* The cells after Spawn.
LEMMA SpawnedMade ==
  ASSUME NEW w \in [Cells -> CellType], \A q \in Cells : KidsOK(w[q].kids), NEW p \in Cells,
         NEW s \in Cells, s # p
  PROVE  Spawned(w, [w EXCEPT
            ![p] = [NewCell("up", {}, {s}) EXCEPT !.sys = <<[type |-> "Create"]>>],
            ![s].kids = AddChild(@, p),
            ![s].watching = @ \cup {<<p, "Supervision">>}], p, s)
<1> DEFINE x == <<[type |-> "Create"]>>
           e == NewCell("up", {}, {s})
           g == [e EXCEPT !.sys = x]
           k == AddChild(w[s].kids, p)
           X == w[s].watching \cup {<<p, "Supervision">>}
           b == [w[s] EXCEPT !.kids = k]
           c == [b EXCEPT !.watching = X]
           u == [w EXCEPT ![p] = g]
           v == [u EXCEPT ![s] = c]
<1>1. v = [w EXCEPT
            ![p] = [NewCell("up", {}, {s}) EXCEPT !.sys = <<[type |-> "Create"]>>],
            ![s].kids = AddChild(@, p),
            ![s].watching = @ \cup {<<p, "Supervision">>}]
  <2> HIDE DEF g, e, x
  <2>1. [w EXCEPT ![p] = g, ![s].kids = AddChild(@, p), ![s].watching = @ \cup {<<p, "Supervision">>}]
          = [u EXCEPT ![s].kids = AddChild(@, p), ![s].watching = @ \cup {<<p, "Supervision">>}]
    OBVIOUS
  <2>2. u \in [Cells -> {u[q] : q \in Cells}] /\ u[s] = w[s]
    OBVIOUS
  <2> HIDE DEF u
  <2>3. [u EXCEPT ![s].kids = AddChild(@, p), ![s].watching = @ \cup {<<p, "Supervision">>}] = v
    BY <2>2
  <2> QED
    BY <2>1, <2>3 DEF g, e, x
<1>2. x \in Seq(Message) /\ \A i \in DOMAIN x : x[i].type = "Create"
  BY DEF Message
<1>3. /\ e \in CellType /\ e.life = "up" /\ KidsOK(e.kids)
      /\ e.kids.variant = "normal" /\ e.kids.c = {} /\ e.kids.toDie = {}
      /\ \A r \in Cells : <<r, "User">> \notin e.watching
  <2>1. {s} \in SUBSET Cells
    OBVIOUS
  <2> QED
    BY <2>1, FreshCell
<1> HIDE DEF e
<1>4. /\ g \in CellType /\ g.life = e.life /\ g.kids = e.kids /\ g.watching = e.watching /\ g.sys = x
  <2> HIDE DEF x
  <2> QED
    BY <1>2, <1>3, SysSet
<1> HIDE DEF x, g
<1>5. k \in Container
  BY CellFields, AddChildOK
<1>6. X \in Entries
  <2>1. w[s].watching \in Entries
    BY CellFields
  <2> QED
    BY <2>1 DEF Entries, Kinds
<1> HIDE DEF k, X
<1>7. /\ c \in CellType /\ c.life = w[s].life /\ c.sys = w[s].sys /\ c.boots = w[s].boots
      /\ c.watchers = w[s].watchers /\ c.watching = X /\ c.kids = k
      /\ c.suspends = w[s].suspends
  <2>1. /\ b \in CellType /\ b.life = w[s].life /\ b.sys = w[s].sys /\ b.boots = w[s].boots
        /\ b.watchers = w[s].watchers /\ b.kids = k /\ b.suspends = w[s].suspends
    BY <1>5, KidsSet
  <2> HIDE DEF b
  <2> QED
    BY <1>6, <2>1, WatchingSet
<1> HIDE DEF c
<1>8. u \in [Cells -> CellType] /\ \A q \in Cells : u[q] = IF q = p THEN g ELSE w[q]
  BY <1>4, CellSet
<1> HIDE DEF u
<1>9. v \in [Cells -> CellType] /\ \A q \in Cells : v[q] = IF q = s THEN c ELSE u[q]
  BY <1>7, <1>8, CellSet
<1> HIDE DEF v
<1>10. Spawned(w, v, p, s)
  <2>1. v[p] = g /\ v[s] = c /\ \A q \in Cells \ {p, s} : v[q] = w[q]
    BY <1>8, <1>9
  <2>2. /\ v[s].watching = w[s].watching \cup {<<p, "Supervision">>}
        /\ v[s].kids = AddChild(w[s].kids, p)
    BY <1>7, <2>1 DEF k, X
  <2>3. \A i \in DOMAIN v[p].sys : v[p].sys[i].type = "Create"
    BY <1>2, <1>4, <2>1
  <2>4. /\ v[p].life = "up" /\ KidsOK(v[p].kids)
        /\ v[p].kids.variant = "normal" /\ v[p].kids.c = {} /\ v[p].kids.toDie = {}
        /\ \A r \in Cells : <<r, "User">> \notin v[p].watching
    BY <1>3, <1>4, <2>1
  <2>5. \A q \in Cells \ {p} :
          /\ v[q].life = w[q].life /\ v[q].sys = w[q].sys /\ v[q].boots = w[q].boots
          /\ v[q].watchers = w[q].watchers /\ v[q].suspends = w[q].suspends
    BY <1>7, <2>1
  <2> QED
    BY <1>9, <2>1, <2>2, <2>3, <2>4, <2>5 DEF Spawned
<1> QED
  BY <1>1, <1>10

\* A cell is spawned; below a parent that ends or waits, it is an exception.
LEMMA SpawnFine ==
  ASSUME NEW w, NEW M, Good(w, M), Open(w), NEW p \in Cells \ {Root}, w[p].life = "new",
         NEW s, s = Parent[p], w[s].life \in {"up", "dead"}, NEW N, M \subseteq N,
         w[s].life = "dead" \/ w[s].kids.reason \in Ending => <<p, "late">> \in N,
         NEW v, Spawned(w, v, p, s)
  PROVE  Fine(w, v, N)
<1>0. /\ w \in [Cells -> CellType] /\ TreeOK(w, M) /\ SupervisedOK(w) /\ DeathOK(w) /\ WatchOK(w, M)
      /\ \A q \in Cells : KidsOK(w[q].kids)
  BY DEF Good
<1>1. s \in Cells /\ s # p /\ \A r \in Cells \ {Root} : Parent[r] \in Cells
  BY TreeAssumption
<1>2. /\ v \in [Cells -> CellType] /\ v[p].life = "up" /\ KidsOK(v[p].kids)
      /\ v[p].kids.variant = "normal" /\ v[p].kids.c = {} /\ v[p].kids.toDie = {}
      /\ \A r \in Cells : <<r, "User">> \notin v[p].watching
      /\ \A i \in DOMAIN v[p].sys : v[p].sys[i].type = "Create"
  BY DEF Spawned
<1>3. \A q \in Cells \ {p} :
        /\ v[q].life = w[q].life /\ v[q].sys = w[q].sys /\ v[q].boots = w[q].boots
        /\ v[q].watchers = w[q].watchers
  BY DEF Spawned
<1>4. /\ KidsOK(v[s].kids) /\ v[s].kids.toDie = w[s].kids.toDie
      /\ v[s].kids.reason = w[s].kids.reason /\ v[s].kids.variant = w[s].kids.variant
      /\ w[s].life = "up" => v[s].kids.c = w[s].kids.c \cup {p}
  <2> DEFINE a == w[s].kids
  <2>1. a \in Container /\ KidsOK(a) /\ v[s].kids = AddChild(a, p)
    BY <1>0, <1>1, CellFields DEF Spawned
  <2>2. w[s].life = "up" => a.variant # "terminated"
    BY <1>1 DEF Open
  <2> HIDE DEF a
  <2>3. /\ KidsOK(v[s].kids) /\ v[s].kids.toDie = a.toDie
        /\ v[s].kids.reason = a.reason /\ v[s].kids.variant = a.variant
        /\ a.variant # "terminated" => v[s].kids.c = a.c \cup {p}
    BY <2>1, AddChildOK
  <2> QED
    BY <2>2, <2>3 DEF a
<1>5. /\ \A q \in Cells \ {p, s} : v[q].watching = w[q].watching /\ v[q].kids = w[q].kids
      /\ v[s].watching = w[s].watching \cup {<<p, "Supervision">>}
  BY DEF Spawned
<1>6. \A r \in Cells \ {Root} : w[r].life = "up" => Parent[r] # p
  BY <1>0 DEF SupervisedOK
<1>7. TreeOK(v, N)
  <2> SUFFICES ASSUME NEW r \in Cells \ {Root}, v[r].life = "up", <<r, "disowned">> \notin N,
                      <<r, "late">> \notin N
               PROVE  /\ v[Parent[r]].life = "up"
                      /\ r \in v[Parent[r]].kids.c
                      /\ v[Parent[r]].kids.reason \in {"Recreation", "Termination"} =>
                           r \in v[Parent[r]].kids.toDie
    BY DEF TreeOK
  <2>1. CASE r = p
    <3>1. w[s].life = "up" /\ w[s].kids.reason \notin Ending
      BY <2>1
    <3> QED
      BY <1>1, <1>3, <1>4, <2>1, <3>1 DEF Ending
  <2>2. CASE r # p
    <3>1. w[r].life = "up" /\ Parent[r] \in Cells /\ Parent[r] # p
      BY <1>1, <1>3, <1>6, <2>2
    <3>2. /\ w[Parent[r]].life = "up" /\ r \in w[Parent[r]].kids.c
          /\ w[Parent[r]].kids.reason \in {"Recreation", "Termination"} =>
               r \in w[Parent[r]].kids.toDie
      BY <1>0, <3>1 DEF TreeOK
    <3>3. CASE Parent[r] = s
      BY <1>3, <1>4, <3>1, <3>2, <3>3
    <3>4. CASE Parent[r] # s
      BY <1>3, <1>5, <3>1, <3>2, <3>4
    <3> QED
      BY <3>3, <3>4
  <2> QED
    BY <2>1, <2>2
<1>8. SupervisedOK(v)
  <2>1. ASSUME NEW r \in Cells \ {Root}, v[r].life = "up" PROVE v[Parent[r]].life # "new"
    <3>1. CASE r = p
      BY <1>1, <1>3, <3>1
    <3>2. CASE r # p
      <4>1. w[Parent[r]].life # "new" /\ Parent[r] \in Cells
        BY <1>0, <1>1, <1>3, <2>1, <3>2 DEF SupervisedOK
      <4> QED
        BY <1>2, <1>3, <4>1
    <3> QED
      BY <3>1, <3>2
  <2>2. ASSUME NEW q \in Cells, v[q].life = "up"
        PROVE  /\ \A r \in v[q].kids.c \cup v[q].kids.toDie : <<r, "Supervision">> \in v[q].watching
               /\ \A r \in ChildrenOf(q) : v[r].life = "up" => <<r, "Supervision">> \in v[q].watching
               /\ \A i \in DOMAIN v[q].sys : v[q].sys[i].type = "Failure" =>
                    /\ <<v[q].sys[i].of, "Supervision">> \in v[q].watching
                    /\ \A j \in DOMAIN v[q].sys : j < i => v[q].sys[j] # Told(v[q].sys[i].of)
    <3>1. CASE q = p
      <4>1. ASSUME NEW r \in ChildrenOf(q), v[r].life = "up" PROVE FALSE
        <5>1. r \in Cells \ {Root} /\ Parent[r] = p /\ r # p
          BY <1>1, <3>1, <4>1 DEF ChildrenOf
        <5> QED
          BY <1>3, <1>6, <4>1, <5>1
      <4> QED
        BY <1>2, <3>1, <4>1
    <3>2. CASE q # p
      <4>0. w[q].life = "up"
        BY <1>3, <2>2, <3>2
      <4>1. /\ \A r \in w[q].kids.c \cup w[q].kids.toDie : <<r, "Supervision">> \in w[q].watching
            /\ \A r \in ChildrenOf(q) : w[r].life = "up" => <<r, "Supervision">> \in w[q].watching
            /\ \A i \in DOMAIN w[q].sys : w[q].sys[i].type = "Failure" =>
                    /\ <<w[q].sys[i].of, "Supervision">> \in w[q].watching
                    /\ \A j \in DOMAIN w[q].sys : j < i => w[q].sys[j] # Told(w[q].sys[i].of)
        BY <1>0, <4>0 DEF SupervisedOK
      <4>2. w[q].watching \subseteq v[q].watching /\ v[q].sys = w[q].sys
            /\ (q = s => <<p, "Supervision">> \in v[q].watching)
        BY <1>3, <1>5, <3>2
      <4>3. \A r \in v[q].kids.c \cup v[q].kids.toDie :
              r \in w[q].kids.c \cup w[q].kids.toDie \/ (q = s /\ r = p)
        BY <1>4, <1>5, <3>2, <4>0
      <4>4. \A r \in ChildrenOf(q) : v[r].life = "up" => w[r].life = "up" \/ (q = s /\ r = p)
        BY <1>3 DEF ChildrenOf
      <4> QED
        BY <4>1, <4>2, <4>3, <4>4
    <3> QED
      BY <3>1, <3>2
  <2> QED
    BY <2>1, <2>2 DEF SupervisedOK
<1>9. DeathOK(v)
  <2> SUFFICES ASSUME NEW q \in Cells, NEW i \in DOMAIN v[q].sys,
                      v[q].sys[i].type = "DeathWatchNotification"
               PROVE  v[v[q].sys[i].of].life \in {"dead", "gone"}
    BY DEF DeathOK
  <2>1. q # p
    BY <1>2
  <2>2. v[q].sys = w[q].sys
    BY <1>3, <2>1
  <2>3. w[q].sys[i] \in Message
    BY <1>0, <2>2, CellFields
  <2>4. w[q].sys[i].of \in Cells /\ w[w[q].sys[i].of].life \in {"dead", "gone"}
    BY <1>0, <2>2, <2>3 DEF Message, DeathOK
  <2> QED
    BY <1>3, <2>2, <2>4
<1>10. WatchOK(v, N)
  <2> SUFFICES ASSUME NEW x \in Cells, NEW y \in Cells, v[x].life = "up",
                      <<y, "User">> \in v[x].watching, <<x, "unheard">> \notin N
               PROVE  Heard(v, x, y) \/ Asked(v, x, y) \/ Known(v, x, y)
    BY DEF WatchOK
  <2>1. x # p
    BY <1>2
  <2>2. w[x].life = "up" /\ <<y, "User">> \in w[x].watching
    BY <1>3, <1>5, <2>1
  <2>3. CASE Heard(w, x, y)
    BY <1>3, <2>1, <2>3 DEF Heard
  <2>4. CASE Asked(w, x, y)
    <3>1. y # p
      BY <2>4 DEF Asked, Registered
    <3> QED
      BY <1>3, <2>4, <3>1 DEF Asked, Registered
  <2>5. CASE Known(w, x, y)
    <3>1. y # p
      BY <2>5 DEF Known
    <3> QED
      BY <1>3, <2>5, <3>1 DEF Known
  <2> QED
    BY <1>0, <2>2, <2>3, <2>4, <2>5 DEF WatchOK
<1>11. \A q \in Cells : KidsOK(v[q].kids)
  BY <1>0, <1>2, <1>4, <1>5
<1>12. Good(v, N)
  BY <1>2, <1>7, <1>8, <1>9, <1>10, <1>11 DEF Good
<1>13. Open(v)
  <2> SUFFICES ASSUME NEW q \in Cells, v[q].life = "up" PROVE v[q].kids.variant # "terminated"
    BY DEF Open
  <2>1. CASE q = p
    BY <1>2, <2>1
  <2>2. CASE q # p
    BY <1>3, <1>4, <1>5, <2>2 DEF Open
  <2> QED
    BY <2>1, <2>2
<1>14. Alone(v, N, p)
  BY <1>3, <1>6, <1>1 DEF Alone, ChildrenOf
<1> QED
  BY <1>3, <1>12, <1>13, <1>14 DEF Fine

-----------------------------------------------------------------------------
(* The steps                                                               *)

\* The message a cell is about to handle.
LEMMA HeadFacts ==
  ASSUME IInv, NEW p \in Cells, NEW type, Ready(p, type)
  PROVE  /\ cell[p].life = "up" /\ cell[p].sys # <<>> /\ cell[p].sys \in Seq(Message)
         /\ Head(cell[p].sys) \in Message /\ Head(cell[p].sys).type = type
         /\ 1 \in DOMAIN cell[p].sys /\ cell[p].sys[1] = Head(cell[p].sys)
         /\ type \in {"Failure", "Watch", "Unwatch", "StopChild", "DeathWatchNotification"} =>
              About(p) \in Cells /\ Head(cell[p].sys) = [type |-> type, of |-> About(p)]
<1>1. cell[p].life = "up" /\ cell[p].sys # <<>> /\ Head(cell[p].sys).type = type
  BY DEF Ready
<1>2. cell[p].sys \in Seq(Message)
  BY CellFields DEF IInv, TypeOK
<1>3. Head(cell[p].sys) \in Message /\ 1 \in DOMAIN cell[p].sys /\ cell[p].sys[1] = Head(cell[p].sys)
  BY <1>1, <1>2
<1>4. ASSUME type \in {"Failure", "Watch", "Unwatch", "StopChild", "DeathWatchNotification"}
      PROVE  About(p) \in Cells /\ Head(cell[p].sys) = [type |-> type, of |-> About(p)]
  <2> DEFINE m == Head(cell[p].sys)
  <2>1. m \in Message /\ m.type = type
    BY <1>1, <1>3
  <2> HIDE DEF m
  <2>2. m.of \in Cells /\ m = [type |-> type, of |-> m.of]
    BY <1>4, <2>1 DEF Message
  <2> QED
    BY <2>2 DEF m, About
<1> QED
  BY <1>1, <1>2, <1>3, <1>4

\* The cells once the message is taken.
LEMMA PoppedFacts ==
  ASSUME IInv, NEW p \in Cells, NEW type, Ready(p, type),
         type \notin {"Watch", "Unwatch", "DeathWatchNotification"}
  PROVE  /\ Good(Popped(p), marks) /\ Open(Popped(p)) /\ Popped(p) \in [Cells -> CellType]
         /\ Popped(p)[p].life = "up"
         /\ \A q \in Cells : /\ Popped(p)[q].life = cell[q].life
                              /\ Popped(p)[q].kids = cell[q].kids
                              /\ Popped(p)[q].watching = cell[q].watching
                              /\ Popped(p)[q].boots = cell[q].boots
                              /\ Popped(p)[q].failed = cell[q].failed
<1> DEFINE u == Popped(p)
<1>1. u = Took(cell, p)
  BY DEF Popped, Took
<1>2. /\ cell[p].life = "up" /\ cell[p].sys # <<>>
      /\ Head(cell[p].sys).type \notin {"Watch", "Unwatch", "DeathWatchNotification"}
  BY HeadFacts
<1>3. Good(cell, marks) /\ Open(cell)
  BY DEF IInv
<1> HIDE DEF u
<1>4. /\ Good(u, marks) /\ Open(u)
      /\ \A q \in Cells : /\ u[q].life = cell[q].life /\ u[q].kids = cell[q].kids
                           /\ u[q].watching = cell[q].watching /\ u[q].boots = cell[q].boots
                           /\ u[q].failed = cell[q].failed
  BY <1>1, <1>2, <1>3, PopGood
<1>5. u \in [Cells -> CellType]
  BY <1>4 DEF Good
<1> QED
  BY <1>2, <1>4, <1>5 DEF u

\* A step after the message is taken is a step.
LEMMA PoppedFine ==
  ASSUME IInv, NEW p \in Cells, NEW type, Ready(p, type),
         type \notin {"Watch", "Unwatch", "DeathWatchNotification"},
         NEW v, NEW N, Fine(Popped(p), v, N)
  PROVE  Fine(cell, v, N)
  BY PoppedFacts DEF Fine

\* Create, Suspend and Resume only talk.
LEMMA TalkSteps ==
  ASSUME IInv, NEW p \in Cells, Create(p) \/ SuspendStep(p) \/ ResumeStep(p)
  PROVE  Fine(cell, cell', marks')
<1> DEFINE u == Popped(p)
<1>1. CASE Create(p)
  <2>1. PICK ok \in BOOLEAN :
          Ready(p, "Create") /\ cell' = (IF ok THEN u ELSE ReportFailure(u, p)) /\ marks' = marks
    BY <1>1 DEF Create
  <2>2. Good(u, marks) /\ Open(u) /\ u \in [Cells -> CellType] /\ u[p].life = "up"
    BY <2>1, PoppedFacts
  <2>3. Fine(u, u, marks)
    BY <2>2 DEF Fine
  <2>4. Fine(u, ReportFailure(u, p), marks)
    BY <2>2, ReportTalk, TalkFine
  <2>5. Fine(u, cell', marks')
    BY <2>1, <2>3, <2>4
  <2> QED
    BY <2>1, <2>5, PoppedFine
<1>2. CASE SuspendStep(p)
  <2> DEFINE h == Suspend(u, p)
             v == SendAll(h, h[p].kids.c, "Suspend")
  <2>1. Ready(p, "Suspend") /\ cell' = v /\ marks' = marks
    BY <1>2 DEF SuspendStep, SuspendChildren
  <2>2. Good(u, marks) /\ Open(u) /\ u \in [Cells -> CellType]
    BY <2>1, PoppedFacts
  <2> HIDE DEF u
  <2>3. h \in [Cells -> CellType] /\ Talk(u, h, {})
    BY <2>2, AdjustTalk
  <2> HIDE DEF h
  <2>4. v \in [Cells -> CellType] /\ Talk(h, v, {})
    BY <2>3, SendAllTalk
  <2> HIDE DEF v
  <2>5. Fine(u, v, marks)
    BY <2>2, <2>3, <2>4, TalkFine, FineTalk
  <2> QED
    BY <2>1, <2>5, PoppedFine DEF u
<1>3. CASE ResumeStep(p)
  <2> DEFINE h == Resume(u, p)
             f == [h EXCEPT ![p].failed = "none"]
             v == SendAll(f, f[p].kids.c, "Resume")
  <2>1. Ready(p, "Resume") /\ cell' = v /\ marks' = marks
    BY <1>3 DEF ResumeStep, ResumeChildren
  <2>2. Good(u, marks) /\ Open(u) /\ u \in [Cells -> CellType]
    BY <2>1, PoppedFacts
  <2> HIDE DEF u
  <2>3. h \in [Cells -> CellType] /\ Talk(u, h, {})
    BY <2>2, AdjustTalk
  <2> HIDE DEF h
  <2>4. f \in [Cells -> CellType] /\ Talk(h, f, {})
    BY <2>3, AdjustTalk
  <2> HIDE DEF f
  <2>5. v \in [Cells -> CellType] /\ Talk(f, v, {})
    BY <2>4, SendAllTalk
  <2> HIDE DEF v
  <2>6. Fine(u, f, marks)
    BY <2>2, <2>3, <2>4, TalkFine, FineTalk
  <2>7. Fine(u, v, marks)
    BY <2>5, <2>6, FineTalk
  <2> QED
    BY <2>1, <2>7, PoppedFine DEF u
<1> QED
  BY <1>1, <1>2, <1>3

\* The other messages of supervision.
LEMMA SupervisionSteps ==
  ASSUME IInv, NEW p \in Cells, Stop(p) \/ Recreate(p) \/ Failure(p) \/ StopChildStep(p)
  PROVE  Fine(cell, cell', marks')
<1> DEFINE u == Popped(p)
<1>1. CASE Stop(p)
  <2>1. Ready(p, "Stop") /\ cell' = HandleStop(u, p) /\ marks' = marks
    BY <1>1 DEF Stop
  <2>2. Good(u, marks) /\ Open(u) /\ u[p].life = "up"
    BY <2>1, PoppedFacts
  <2>3. Fine(u, cell', marks)
    BY <2>1, <2>2, StopFine
  <2> QED
    BY <2>1, <2>3, PoppedFine
<1>2. CASE Recreate(p)
  <2>1. PICK stopOk \in BOOLEAN, startOk \in BOOLEAN :
          /\ Ready(p, "Recreate") /\ cell' = FaultRecreate(u, p, stopOk, startOk)
          /\ marks' = marks \cup RestartMark(p, stopOk)
    BY <1>2 DEF Recreate
  <2>2. Good(u, marks) /\ Open(u) /\ u[p].life = "up"
    BY <2>1, PoppedFacts
  <2>3. marks \subseteq marks'
    BY <2>1
  <2>4. Good(u, marks')
    BY <2>2, <2>3, GoodMore
  <2>5. Fine(u, cell', marks')
    BY <2>1, <2>2, <2>4, RecreateFine
  <2> QED
    BY <2>1, <2>5, PoppedFine
<1>3. CASE StopChildStep(p)
  <2>1. Ready(p, "StopChild") /\ cell' = StopChild(u, p, About(p)) /\ marks' = marks
    BY <1>3 DEF StopChildStep
  <2>2. Good(u, marks) /\ Open(u) /\ u[p].life = "up"
    BY <2>1, PoppedFacts
  <2>3. Fine(u, cell', marks)
    BY <2>1, <2>2, StopChildFine
  <2> QED
    BY <2>1, <2>3, PoppedFine
<1>4. CASE Failure(p)
  <2>1. PICK directive \in Directives, ok \in BOOLEAN :
          /\ Ready(p, "Failure") /\ cell' = HandleFailure(u, p, About(p), directive, ok)
          /\ marks' = marks \cup FailureMark(p, directive)
    BY <1>4 DEF Failure
  <2>2. /\ Good(u, marks) /\ Open(u) /\ u[p].life = "up" /\ u[p].kids = cell[p].kids
        /\ u[p].watching = cell[p].watching
    BY <2>1, PoppedFacts
  <2>3. /\ About(p) \in Cells /\ 1 \in DOMAIN cell[p].sys /\ cell[p].sys[1].type = "Failure"
        /\ cell[p].sys[1].of = About(p) /\ cell[p].life = "up"
    BY <2>1, HeadFacts DEF About
  <2>4. <<About(p), "Supervision">> \in u[p].watching
    <3>1. SupervisedOK(cell)
      BY DEF IInv, Good
    <3> QED
      BY <2>2, <2>3, <3>1 DEF SupervisedOK
  <2>5. Affected(u, p, About(p)) = Affected(cell, p, About(p))
    BY <2>2 DEF Affected
  <2>6. marks \subseteq marks'
    BY <2>1
  <2>7. directive = "Stop" /\ u[p].kids.variant = "normal" =>
          \A r \in Affected(u, p, About(p)) : <<r, "disowned">> \in marks'
    <3>1. SUFFICES ASSUME directive = "Stop", u[p].kids.variant = "normal",
                          NEW r \in Affected(u, p, About(p))
                   PROVE  <<r, "disowned">> \in marks'
      OBVIOUS
    <3>2. Affected(cell, p, About(p)) \X {"disowned"} \subseteq marks'
      BY <2>1, <2>2, <3>1 DEF FailureMark
    <3> QED
      BY <2>5, <3>1, <3>2
  <2>8. Fine(u, cell', marks')
    BY <2>1, <2>2, <2>3, <2>4, <2>6, <2>7, FailureFine
  <2> QED
    BY <2>1, <2>8, PoppedFine
<1> QED
  BY <1>1, <1>2, <1>3, <1>4

\* The messages of death watch.
LEMMA WatchSteps ==
  ASSUME IInv, NEW p \in Cells, Watch(p) \/ Unwatch(p) \/ DeathWatchNotification(p)
  PROVE  Fine(cell, cell', marks')
<1>0. Good(cell, marks) /\ Open(cell) /\ cell \in [Cells -> CellType]
  BY DEF IInv, Good
<1>1. ASSUME NEW type, Ready(p, type), type \in {"Watch", "Unwatch", "DeathWatchNotification"}
      PROVE  /\ cell[p].life = "up" /\ cell[p].sys # <<>> /\ About(p) \in Cells
             /\ Head(cell[p].sys) = [type |-> type, of |-> About(p)]
             /\ Popped(p) = Took(cell, p) /\ Popped(p)[p].watchers = cell[p].watchers
  <2>1. /\ cell[p].life = "up" /\ cell[p].sys # <<>> /\ About(p) \in Cells
        /\ Head(cell[p].sys) = [type |-> type, of |-> About(p)]
    BY <1>1, HeadFacts
  <2>2. Popped(p) = Took(cell, p)
    BY DEF Popped, Took
  <2> DEFINE s == Tail(cell[p].sys)
             c == [cell[p] EXCEPT !.sys = s]
  <2>3. s \in Seq(Message) /\ cell[p] \in CellType
    BY <1>0, <2>1, CellFields
  <2>4. Popped(p) = [cell EXCEPT ![p] = c]
    BY <1>0 DEF Popped
  <2> HIDE DEF s
  <2>5. c.watchers = cell[p].watchers
    BY <2>3, SysSet
  <2> HIDE DEF c
  <2>6. Popped(p)[p].watchers = cell[p].watchers
    BY <1>0, <2>4, <2>5
  <2> QED
    BY <2>1, <2>2, <2>6
<1>2. CASE Watch(p)
  <2> DEFINE W == cell[p].watchers \cup {<<About(p), "User">>}
  <2>1. /\ Ready(p, "Watch") /\ marks' = marks
        /\ cell' = [Popped(p) EXCEPT ![p].watchers = Popped(p)[p].watchers \cup {<<About(p), "User">>}]
    BY <1>2 DEF Watch
  <2>2. /\ cell[p].life = "up" /\ cell[p].sys # <<>> /\ About(p) \in Cells
        /\ Head(cell[p].sys) = Ask(About(p))
        /\ Popped(p) = Took(cell, p) /\ Popped(p)[p].watchers = cell[p].watchers
    BY <1>1, <2>1 DEF Ask
  <2>3. cell' = Enlisted(cell, p, W)
    BY <2>1, <2>2 DEF Enlisted
  <2>4. \/ Head(cell[p].sys) = Ask(About(p)) /\ W = cell[p].watchers \cup {<<About(p), "User">>}
        \/ Head(cell[p].sys) = Recall(About(p)) /\ W = cell[p].watchers \ {<<About(p), "User">>}
    BY <2>2
  <2> HIDE DEF W
  <2> QED
    BY <1>0, <2>1, <2>2, <2>3, <2>4, WatchersFine
<1>3. CASE Unwatch(p)
  <2> DEFINE W == cell[p].watchers \ {<<About(p), "User">>}
  <2>1. /\ Ready(p, "Unwatch") /\ marks' = marks
        /\ cell' = [Popped(p) EXCEPT ![p].watchers = Popped(p)[p].watchers \ {<<About(p), "User">>}]
    BY <1>3 DEF Unwatch
  <2>2. /\ cell[p].life = "up" /\ cell[p].sys # <<>> /\ About(p) \in Cells
        /\ Head(cell[p].sys) = Recall(About(p))
        /\ Popped(p) = Took(cell, p) /\ Popped(p)[p].watchers = cell[p].watchers
    BY <1>1, <2>1 DEF Recall
  <2>3. cell' = Enlisted(cell, p, W)
    BY <2>1, <2>2 DEF Enlisted
  <2>4. \/ Head(cell[p].sys) = Ask(About(p)) /\ W = cell[p].watchers \cup {<<About(p), "User">>}
        \/ Head(cell[p].sys) = Recall(About(p)) /\ W = cell[p].watchers \ {<<About(p), "User">>}
    BY <2>2
  <2> HIDE DEF W
  <2> QED
    BY <1>0, <2>1, <2>2, <2>3, <2>4, WatchersFine
<1>4. CASE DeathWatchNotification(p)
  <2>1. PICK ok \in BOOLEAN :
          /\ Ready(p, "DeathWatchNotification") /\ marks' = marks
          /\ cell' = HandleDeathWatchNotification(Popped(p), p, About(p), ok)
    BY <1>4 DEF DeathWatchNotification
  <2>2. /\ cell[p].life = "up" /\ cell[p].sys # <<>> /\ About(p) \in Cells
        /\ Head(cell[p].sys) = Told(About(p)) /\ Popped(p) = Took(cell, p)
    BY <1>1, <2>1 DEF Told
  <2> QED
    BY <1>0, <2>1, <2>2, NotifiedFine
<1> QED
  BY <1>2, <1>3, <1>4

\* A cell is removed.
LEMMA RemoveStep ==
  ASSUME IInv, NEW p \in Cells, Remove(p)
  PROVE  Fine(cell, cell', marks')
<1>0. Good(cell, marks) /\ Open(cell) /\ cell \in [Cells -> CellType]
  BY DEF IInv, Good
<1>1. \A q \in Cells : KidsOK(cell[q].kids)
  BY <1>0 DEF Good
<1>2. /\ cell[p].life = "dead"
      /\ marks' = marks \cup {<<cell[p].sys[i].of, "unheard">> :
                    i \in {j \in DOMAIN cell[p].sys : cell[p].sys[j].type = "Watch"}}
  BY DEF Remove
<1>3. cell' = [q \in Cells |->
          CASE q = p -> [NewCell("gone", {}, {}) EXCEPT !.boots = cell[p].boots]
            [] q \in ParentOf(p) \ {p} /\ ({p} \X Kinds) \cap cell[q].watching = {} ->
                    [cell[q] EXCEPT !.kids = RemoveChild(@, p)]
            [] OTHER -> cell[q]]
  BY DEF Remove
<1>4. Removed(cell, cell', p)
  BY <1>0, <1>1, <1>3, RemovedMade
<1>5. /\ marks \subseteq marks'
      /\ \A i \in DOMAIN cell[p].sys :
           cell[p].sys[i].type = "Watch" => <<cell[p].sys[i].of, "unheard">> \in marks'
  BY <1>2
<1> QED
  BY <1>0, <1>2, <1>4, <1>5, RemoveFine

\* User code fails, and stops actors.
LEMMA UserSteps ==
  ASSUME IInv, NEW p \in Cells, Fail(p) \/ PoisonPill(p) \/ StopActor(p) \/ TerminateSystem(p)
  PROVE  Fine(cell, cell', marks')
<1>0. Good(cell, marks) /\ Open(cell) /\ cell \in [Cells -> CellType]
  BY DEF IInv, Good
<1>1. CASE Fail(p)
  <2>1. cell[p].life = "up" /\ cell' = ReportFailure(cell, p) /\ marks' = marks
    BY <1>1 DEF Fail, Running
  <2> QED
    BY <1>0, <2>1, ReportTalk, TalkFine
<1>2. CASE PoisonPill(p)
  <2>1. cell[p].life = "up" /\ cell' = HandleStop(cell, p) /\ marks' = marks
    BY <1>2 DEF PoisonPill, Running
  <2> QED
    BY <1>0, <2>1, StopFine
<1>3. CASE StopActor(p)
  <2>1. cell' = SendAll(cell, {p}, "Stop") /\ marks' = marks
    BY <1>3 DEF StopActor
  <2> QED
    BY <1>0, <2>1, SendAllTalk, TalkFine
<1>4. CASE TerminateSystem(p)
  <2>1. /\ cell' = SendOf(cell, Root, "StopChild", p) /\ marks' = marks /\ Registered(cell, Root)
        /\ Root \in Cells
    BY <1>4, TreeAssumption DEF TerminateSystem
  <2> QED
    BY <1>0, <2>1, SendOfTalk, TalkFine
<1> QED
  BY <1>1, <1>2, <1>3, <1>4

\* User code watches and unwatches.
LEMMA WatcherSteps ==
  ASSUME IInv, NEW p \in Cells, WatchActor(p) \/ UnwatchActor(p)
  PROVE  Fine(cell, cell', marks')
<1>0. Good(cell, marks) /\ Open(cell) /\ cell \in [Cells -> CellType]
  BY DEF IInv, Good
<1>1. ASSUME NEW X \in Entries, NEW h, h = [cell EXCEPT ![p].watching = X]
      PROVE  /\ h \in [Cells -> CellType] /\ \A r \in Cells : Registered(h, r) <=> Registered(cell, r)
             /\ Renewed(cell[p], [cell[p] EXCEPT !.watching = X], cell[p].kids, X)
             /\ h = [cell EXCEPT ![p] = [cell[p] EXCEPT !.watching = X]]
  <2> DEFINE c == [cell[p] EXCEPT !.watching = X]
  <2>1. cell[p] \in CellType
    BY <1>0
  <2>2. h = [cell EXCEPT ![p] = c]
    BY <1>0, <1>1
  <2>3. c \in CellType /\ c.life = cell[p].life /\ Renewed(cell[p], c, cell[p].kids, X)
    BY <1>1, <2>1, WatchingSet DEF Renewed
  <2> HIDE DEF c
  <2>4. h \in [Cells -> CellType] /\ \A r \in Cells : h[r].life = cell[r].life
    BY <1>0, <2>2, <2>3
  <2>5. \A r \in Cells : Registered(h, r) <=> Registered(cell, r)
    BY <2>4 DEF Registered
  <2> QED
    BY <2>2, <2>3, <2>4, <2>5 DEF c
<1>2. cell[p].watching \in Entries
  BY <1>0, CellFields
<1>3. CASE WatchActor(p)
  <2>1. PICK q \in Cells \ {p} :
          /\ cell[p].life = "up" /\ cell[q].life # "new" /\ marks' = marks
          /\ cell' = SendOf([cell EXCEPT ![p].watching = @ \cup {<<q, "User">>}], q, "Watch", p)
    BY <1>3 DEF WatchActor, Running
  <2>2. PICK X : X = cell[p].watching \cup {<<q, "User">>}
    OBVIOUS
  <2>3. /\ X \in Entries
        /\ \A r \in Cells : <<r, "Supervision">> \in X <=> <<r, "Supervision">> \in cell[p].watching
        /\ \A r \in Cells \ {q} : <<r, "User">> \in X => <<r, "User">> \in cell[p].watching
    BY <1>2, <2>2 DEF Entries, Kinds
  <2>4. PICK h : h = [cell EXCEPT ![p].watching = X]
    OBVIOUS
  <2>5. cell' = SendOf(h, q, "Watch", p)
    BY <2>1, <2>2, <2>4
  <2>6. \A r \in Cells : Registered(h, r) <=> Registered(cell, r)
    BY <1>1, <2>3, <2>4
  <2>7. CASE Registered(cell, q)
    <3>1. cell' = [h EXCEPT ![q].sys = Append(@, Ask(p))]
      BY <2>5, <2>6, <2>7 DEF SendOf, Ask
    <3>2. Ask(p) \in Message
      BY DEF Ask, Message
    <3>3. Wrote(cell, cell', p, X, q, Ask(p))
      BY <1>0, <2>3, <2>4, <3>1, <3>2, WroteMade
    <3> QED
      BY <1>0, <2>1, <2>3, <2>7, <3>2, <3>3, UserWatchFine
  <2>8. CASE ~Registered(cell, q)
    <3>0. Registered(cell, p)
      BY <2>1 DEF Registered
    <3>1. cell' = [h EXCEPT ![p].sys = Append(@, Told(q))]
      BY <2>5, <2>6, <2>8, <3>0 DEF SendOf, Told
    <3>2. Told(q) \in Message
      BY DEF Told, Message
    <3>3. Wrote(cell, cell', p, X, p, Told(q))
      BY <1>0, <2>3, <2>4, <3>1, <3>2, WroteMade
    <3>4. cell[q].life = "gone"
      BY <1>0, <2>1, <2>8, CellFields DEF Registered
    <3> QED
      BY <1>0, <2>1, <2>3, <3>2, <3>3, <3>4, UserWatchFine
  <2> QED
    BY <2>7, <2>8
<1>4. CASE UnwatchActor(p)
  <2>1. PICK q \in Cells \ {p} :
          /\ cell[p].life = "up" /\ marks' = marks
          /\ cell' = SendOf([cell EXCEPT ![p].watching = @ \ {<<q, "User">>}], q, "Unwatch", p)
    BY <1>4 DEF UnwatchActor, Running
  <2>2. PICK X : X = cell[p].watching \ {<<q, "User">>}
    OBVIOUS
  <2>3. /\ X \in Entries /\ <<q, "User">> \notin X
        /\ \A r \in Cells : <<r, "Supervision">> \in X <=> <<r, "Supervision">> \in cell[p].watching
        /\ \A r \in Cells \ {q} : <<r, "User">> \in X => <<r, "User">> \in cell[p].watching
        /\ Fewer(cell[p].watching, X)
    BY <1>2, <2>2 DEF Entries, Kinds, Fewer
  <2>4. PICK h : h = [cell EXCEPT ![p].watching = X]
    OBVIOUS
  <2>5. cell' = SendOf(h, q, "Unwatch", p)
    BY <2>1, <2>2, <2>4
  <2>6. \A r \in Cells : Registered(h, r) <=> Registered(cell, r)
    BY <1>1, <2>3, <2>4
  <2>7. CASE Registered(cell, q)
    <3>1. cell' = [h EXCEPT ![q].sys = Append(@, Recall(p))]
      BY <2>5, <2>6, <2>7 DEF SendOf, Recall
    <3>2. Recall(p) \in Message
      BY DEF Recall, Message
    <3>3. Wrote(cell, cell', p, X, q, Recall(p))
      BY <1>0, <2>3, <2>4, <3>1, <3>2, WroteMade
    <3> QED
      BY <1>0, <2>1, <2>3, <3>2, <3>3, UserWatchFine
  <2>8. CASE ~Registered(cell, q)
    <3>1. cell' = h
      BY <2>5, <2>6, <2>8 DEF SendOf
    <3>2. \E c : Renewed(cell[p], c, cell[p].kids, X) /\ h = [cell EXCEPT ![p] = c]
      BY <1>1, <2>3, <2>4
    <3>3. KidsStep(cell, marks, marks, p, cell[p].kids, X, h)
      BY <1>0, <2>1, <2>3, <3>2, KidsFacts DEF KidsStep
    <3>4. cell[p].kids.variant # "terminated"
      BY <1>0, <2>1 DEF Open
    <3>5. /\ Good(h, marks) /\ (Open(cell) /\ cell[p].kids.variant # "terminated" => Open(h))
          /\ \A r \in Cells : h[r].boots = cell[r].boots
      BY <3>3, KidsGood
    <3>6. Good(h, marks) /\ Open(h) /\ \A r \in Cells : h[r].boots = cell[r].boots
      BY <1>0, <3>4, <3>5
    <3> QED
      BY <2>1, <3>1, <3>6 DEF Fine
  <2> QED
    BY <2>7, <2>8
<1> QED
  BY <1>3, <1>4

\* A cell is spawned.
LEMMA SpawnStep ==
  ASSUME IInv, NEW p \in Cells, Spawn(p)
  PROVE  Fine(cell, cell', marks')
<1>0. Good(cell, marks) /\ Open(cell) /\ cell \in [Cells -> CellType]
  BY DEF IInv, Good
<1>1. \A q \in Cells : KidsOK(cell[q].kids)
  BY <1>0 DEF Good
<1>2. PICK s \in ParentOf(p) :
        /\ cell[p].life = "new" /\ (Running(s) \/ (s = Root /\ Registered(cell, Root)))
        /\ cell' = [cell EXCEPT
              ![p] = [NewCell("up", {}, {s}) EXCEPT !.sys = <<[type |-> "Create"]>>],
              ![s].kids = AddChild(@, p),
              ![s].watching = @ \cup {<<p, "Supervision">>}]
        /\ marks' = marks \cup
              IF cell[s].life = "dead" \/ cell[s].kids.reason \in {"Recreation", "Termination"}
              THEN {<<p, "late">>} ELSE {}
  BY DEF Spawn
<1>3. p # Root /\ s = Parent[p] /\ s \in Cells
  BY TreeAssumption DEF ParentOf
<1>4. cell[s].life \in {"up", "dead"}
  BY <1>2 DEF Running, Registered
<1>5. s # p
  BY <1>2, <1>4
<1>6. Spawned(cell, cell', p, s)
  BY <1>0, <1>1, <1>2, <1>3, <1>5, SpawnedMade
<1>7. marks \subseteq marks'
  BY <1>2
<1>8. cell[s].life = "dead" \/ cell[s].kids.reason \in Ending => <<p, "late">> \in marks'
  BY <1>2 DEF Ending
<1> QED
  BY <1>0, <1>2, <1>3, <1>4, <1>6, <1>7, <1>8, SpawnFine

-----------------------------------------------------------------------------
(* The theorems                                                            *)

\* Every step leaves the cells in order, and gives a fresh actor only to a cell
\* whose children have ended.
LEMMA NextFine ==
  ASSUME IInv, Next
  PROVE  Fine(cell, cell', marks')
<1>1. PICK p \in Cells : SystemStep(p) \/ UserStep(p)
  BY DEF Next
<1>2. CASE SystemStep(p)
  BY <1>2, TalkSteps, SupervisionSteps, WatchSteps, RemoveStep DEF SystemStep
<1>3. CASE UserStep(p)
  BY <1>3, UserSteps, WatcherSteps, SpawnStep DEF UserStep
<1> QED
  BY <1>1, <1>2, <1>3

\* The kinds of marks.
Labels == {"ignored", "aborted", "revived", "merged", "disowned", "unheard", "late", "readopted",
           "resumedAll"}

\* The count of events stays within its bound.
LEMMA NextEvents ==
  ASSUME IInv, Next
  PROVE  events' \in 0 .. MaxEvents
<1>0. events \in 0 .. MaxEvents /\ MaxEvents \in Nat
  BY TreeAssumption DEF IInv, TypeOK
<1>1. \A n \in {0, 1} : Count(n) => events' \in 0 .. MaxEvents
  BY <1>0 DEF Count
<1>2. \A ok \in BOOLEAN : Hook(ok) => events' \in 0 .. MaxEvents
  BY <1>1 DEF Hook
<1>3. PICK p \in Cells : SystemStep(p) \/ UserStep(p)
  BY DEF Next
<1>4. CASE SystemStep(p)
  <2>1. CASE Create(p)
    BY <1>2, <2>1 DEF Create
  <2>2. CASE Recreate(p)
    <3>1. PICK stopOk \in BOOLEAN, startOk \in BOOLEAN : Hook(stopOk /\ startOk)
      BY <2>2 DEF Recreate
    <3>2. (stopOk /\ startOk) \in BOOLEAN
      OBVIOUS
    <3> QED
      BY <1>2, <3>1, <3>2
  <2>3. CASE Failure(p)
    BY <1>2, <2>3 DEF Failure
  <2>4. CASE DeathWatchNotification(p)
    BY <1>2, <2>4 DEF DeathWatchNotification
  <2>5. CASE \/ Stop(p) \/ SuspendStep(p) \/ ResumeStep(p) \/ Watch(p) \/ Unwatch(p)
             \/ StopChildStep(p) \/ Remove(p)
    BY <1>0, <2>5 DEF Stop, SuspendStep, ResumeStep, Watch, Unwatch, StopChildStep, Remove
  <2> QED
    BY <1>4, <2>1, <2>2, <2>3, <2>4, <2>5 DEF SystemStep
<1>5. CASE UserStep(p)
  <2>1. Count(1)
    BY <1>5 DEF UserStep, Fail, PoisonPill, StopActor, TerminateSystem, WatchActor, UnwatchActor,
                Spawn
  <2> QED
    BY <1>1, <2>1
<1> QED
  BY <1>3, <1>4, <1>5

\* The marks name cells.
LEMMA NextMarks ==
  ASSUME IInv, Next
  PROVE  marks' \in SUBSET (Cells \X Labels)
<1>0. marks \in SUBSET (Cells \X Labels) /\ cell \in [Cells -> CellType]
  BY DEF IInv, TypeOK, Labels
<1>1. PICK p \in Cells : SystemStep(p) \/ UserStep(p)
  BY DEF Next
<1>2. CASE Recreate(p)
  <2>1. PICK stopOk \in BOOLEAN : marks' = marks \cup RestartMark(p, stopOk)
    BY <1>2 DEF Recreate
  <2>2. RestartMark(p, stopOk) \subseteq Cells \X Labels
    BY DEF RestartMark, Labels
  <2> QED
    BY <1>0, <2>1, <2>2
<1>3. CASE Failure(p)
  <2>1. PICK directive \in Directives :
          /\ Ready(p, "Failure")
          /\ marks' = marks \cup FailureMark(p, directive)
    BY <1>3 DEF Failure
  <2>2. About(p) \in Cells
    BY <2>1, HeadFacts
  <2>3. cell[p].kids \in Container
    BY <1>0, CellFields
  <2>4. Affected(cell, p, About(p)) \in SUBSET Cells
    BY <2>2, <2>3 DEF Affected, AddChild, Container
  <2>5. Affected(cell, p, About(p)) \X {"disowned"} \subseteq Cells \X Labels
    BY <2>4 DEF Labels
  <2>6. {<<p, "resumedAll">>, <<p, "readopted">>} \subseteq Cells \X Labels
    BY DEF Labels
  <2>7. FailureMark(p, directive) \subseteq Cells \X Labels
    BY <2>5, <2>6 DEF FailureMark
  <2> QED
    BY <1>0, <2>1, <2>7
<1>4. CASE Remove(p)
  <2> DEFINE late == {<<cell[p].sys[i].of, "unheard">> :
                    i \in {j \in DOMAIN cell[p].sys : cell[p].sys[j].type = "Watch"}}
  <2>1. marks' = marks \cup late
    BY <1>4 DEF Remove
  <2>2. ASSUME NEW i \in DOMAIN cell[p].sys, cell[p].sys[i].type = "Watch"
        PROVE  cell[p].sys[i].of \in Cells
    <3>1. cell[p].sys[i] \in Message
      BY <1>0, CellFields
    <3> QED
      BY <2>2, <3>1 DEF Message
  <2>3. late \subseteq Cells \X Labels
    BY <2>2 DEF Labels
  <2> QED
    BY <1>0, <2>1, <2>3
<1>5. CASE Spawn(p)
  BY <1>0, <1>5 DEF Spawn, Labels
<1>6. CASE \/ Create(p) \/ Stop(p) \/ SuspendStep(p) \/ ResumeStep(p) \/ Watch(p) \/ Unwatch(p)
           \/ StopChildStep(p) \/ DeathWatchNotification(p)
  BY <1>0, <1>6 DEF Create, Stop, SuspendStep, ResumeStep, Watch, Unwatch, StopChildStep,
                    DeathWatchNotification
<1>7. CASE \/ Fail(p) \/ PoisonPill(p) \/ StopActor(p) \/ TerminateSystem(p) \/ WatchActor(p)
           \/ UnwatchActor(p)
  BY <1>0, <1>7 DEF Fail, PoisonPill, StopActor, TerminateSystem, WatchActor, UnwatchActor
<1> QED
  BY <1>1, <1>2, <1>3, <1>4, <1>5, <1>6, <1>7 DEF SystemStep, UserStep

\* The settled tree is in order.
LEMMA InitInv == Init => IInv
<1> SUFFICES ASSUME Init PROVE IInv
  OBVIOUS
<1> DEFINE kids(p) == ChildrenOf(p) \cap Started
<1>0. /\ cell = [p \in Cells |-> IF p \in Started THEN NewCell("up", kids(p), ParentOf(p))
                                 ELSE NewCell("new", {}, {})]
      /\ events = 0 /\ marks = {}
  BY DEF Init
<1>1. ASSUME NEW p \in Cells
      PROVE  /\ cell[p] \in CellType /\ DOMAIN cell[p].sys = {} /\ KidsOK(cell[p].kids)
             /\ cell[p].kids.variant = "normal" /\ cell[p].kids.toDie = {}
             /\ cell[p].kids.reason = "none"
             /\ cell[p].kids.c = (IF p \in Started THEN kids(p) ELSE {})
             /\ cell[p].watching = Supervised(cell[p].kids.c)
             /\ cell[p].life = (IF p \in Started THEN "up" ELSE "new")
  <2>1. CASE p \in Started
    <3>1. cell[p] = NewCell("up", kids(p), ParentOf(p))
      BY <1>0, <2>1
    <3>2. Parts("up", kids(p), ParentOf(p))
      BY TreeAssumption DEF Parts, ChildrenOf, ParentOf
    <3> HIDE DEF kids
    <3> QED
      BY <2>1, <3>1, <3>2, NewCellOK
  <2>2. CASE p \notin Started
    <3>1. cell[p] = NewCell("new", {}, {})
      BY <1>0, <2>2
    <3>2. Parts("new", {}, {})
      BY DEF Parts
    <3> QED
      BY <2>2, <3>1, <3>2, NewCellOK
  <2> QED
    BY <2>1, <2>2
<1>2. \A S, r : <<r, "Supervision">> \in Supervised(S) <=> r \in S
  BY DEF Supervised
<1>3. \A S, r : <<r, "User">> \notin Supervised(S)
  BY DEF Supervised
<1>4. cell \in [Cells -> CellType]
  <2>1. cell = [p \in Cells |-> cell[p]]
    BY <1>0
  <2> QED
    BY <1>1, <2>1
<1>5. \A p \in Cells \ {Root} : p \in ChildrenOf(Parent[p]) /\ Parent[p] \in Cells
  BY TreeAssumption DEF ChildrenOf
<1>6. TreeOK(cell, marks)
  <2> SUFFICES ASSUME NEW p \in Cells \ {Root}, cell[p].life = "up"
               PROVE  /\ cell[Parent[p]].life = "up" /\ p \in cell[Parent[p]].kids.c
                      /\ cell[Parent[p]].kids.reason = "none"
    BY DEF TreeOK
  <2>1. p \in Started
    BY <1>1
  <2>2. Parent[p] \in Started /\ p \in kids(Parent[p])
    BY <1>5, <2>1, TreeAssumption
  <2> QED
    BY <1>1, <1>5, <2>2
<1>7. SupervisedOK(cell)
  <2>1. ASSUME NEW r \in Cells \ {Root}, cell[r].life = "up"
        PROVE  cell[Parent[r]].life # "new"
    <3>1. r \in Started
      BY <1>1, <2>1
    <3> QED
      BY <1>1, <1>5, <3>1, TreeAssumption
  <2>2. ASSUME NEW q \in Cells, cell[q].life = "up"
        PROVE  /\ \A r \in cell[q].kids.c \cup cell[q].kids.toDie :
                    <<r, "Supervision">> \in cell[q].watching
               /\ \A r \in ChildrenOf(q) : cell[r].life = "up" =>
                    <<r, "Supervision">> \in cell[q].watching
    <3>1. \A r \in cell[q].kids.c \cup cell[q].kids.toDie : <<r, "Supervision">> \in cell[q].watching
      BY <1>1, <1>2
    <3>2. ASSUME NEW r \in ChildrenOf(q), cell[r].life = "up"
          PROVE  <<r, "Supervision">> \in cell[q].watching
      <4>1. r \in Cells
        BY DEF ChildrenOf
      <4>2. r \in Started /\ q \in Started
        BY <1>1, <2>2, <3>2, <4>1
      <4>3. r \in cell[q].kids.c
        BY <1>1, <4>2
      <4> QED
        BY <1>1, <1>2, <4>3
    <3> QED
      BY <3>1, <3>2
  <2> QED
    BY <1>1, <2>1, <2>2 DEF SupervisedOK
<1>8. DeathOK(cell)
  BY <1>1 DEF DeathOK
<1>9. WatchOK(cell, marks)
  <2>1. \A p, q \in Cells : <<q, "User">> \notin cell[p].watching
    <3> TAKE p, q \in Cells
    <3>1. cell[p].watching = Supervised(cell[p].kids.c)
      BY <1>1
    <3> QED
      BY <1>3, <3>1
  <2> QED
    BY <2>1 DEF WatchOK
<1>10. Good(cell, marks)
  BY <1>1, <1>4, <1>6, <1>7, <1>8, <1>9 DEF Good
<1>11. Open(cell)
  BY <1>1 DEF Open
<1>12. TypeOK
  <2>1. events \in 0 .. MaxEvents
    BY <1>0, TreeAssumption
  <2> QED
    BY <1>0, <1>1, <1>4, <2>1 DEF TypeOK
<1> QED
  BY <1>10, <1>11, <1>12 DEF IInv

\* A step preserves the invariant.
LEMMA NextInv == IInv /\ [Next]_vars => IInv'
<1> SUFFICES ASSUME IInv, [Next]_vars PROVE IInv'
  OBVIOUS
<1>1. CASE Next
  <2>1. Good(cell', marks') /\ Open(cell')
    BY <1>1, NextFine DEF Fine
  <2>2. cell' \in [Cells -> CellType] /\ \A p \in Cells : KidsOK(cell'[p].kids)
    BY <2>1 DEF Good
  <2>3. TypeOK'
    <3>1. events' \in 0 .. MaxEvents /\ marks' \in SUBSET (Cells \X Labels)
      BY <1>1, NextEvents, NextMarks
    <3>2. \A p \in Cells : (cell'[p].kids.variant = "terminating") <=> (cell'[p].kids.toDie # {})
      BY <2>2 DEF KidsOK
    <3> QED
      BY <2>2, <3>1, <3>2 DEF TypeOK, Labels
  <2>4. Good(cell, marks)' /\ Open(cell)'
    BY <2>1 DEF Good, Open, TreeOK, SupervisedOK, DeathOK, WatchOK, Heard, Asked, Known, Registered
  <2> QED
    BY <2>3, <2>4 DEF IInv
<1>2. CASE UNCHANGED vars
  BY <1>2 DEF vars, IInv, TypeOK, Good, Open, TreeOK, SupervisedOK, DeathOK, WatchOK, Heard, Asked,
              Known, Registered
<1> QED
  BY <1>1, <1>2

\* The inductive invariant holds of every behaviour of every actor tree.
THEOREM Invariance == Spec => []IInv
  BY InitInv, NextInv, PTL DEF Spec

\* Every cell keeps a well-formed record, and its container of children waits
\* exactly while it names children to wait for.
THEOREM TypeCorrect == Spec => []TypeOK
<1>1. IInv => TypeOK
  BY DEF IInv
<1> QED
  BY <1>1, Invariance, PTL

\* A cell that terminates, or whose actor is replaced by finish_recreate, has no
\* live child but those a Stop directive took out of its container or that were
\* spawned into a container already waiting.
THEOREM ChildrenEndFirst == Spec => ChildrenFirst
<1>1. ASSUME IInv, Next
      PROVE  \A p \in Cells \ {Root} :
               /\ \/ cell'[Parent[p]].life \in {"dead", "gone"}
                  \/ cell'[Parent[p]].boots # cell[Parent[p]].boots
               /\ Live(p)'
               => Marked(p, {"disowned", "late"})'
  <2> SUFFICES ASSUME NEW p \in Cells \ {Root}, cell'[p].life = "up",
                      \/ cell'[Parent[p]].life \in {"dead", "gone"}
                      \/ cell'[Parent[p]].boots # cell[Parent[p]].boots
               PROVE  <<p, "disowned">> \in marks' \/ <<p, "late">> \in marks'
    BY DEF Live, Marked
  <2>1. Fine(cell, cell', marks')
    BY <1>1, NextFine
  <2>2. Parent[p] \in Cells /\ p \in ChildrenOf(Parent[p])
    BY TreeAssumption DEF ChildrenOf
  <2>3. CASE cell'[Parent[p]].life \in {"dead", "gone"}
    BY <2>1, <2>3 DEF Fine, Good, TreeOK
  <2>4. CASE cell'[Parent[p]].boots # cell[Parent[p]].boots
    BY <2>1, <2>2, <2>4 DEF Fine, Alone
  <2> QED
    BY <2>3, <2>4
<1>2. IInv /\ [Next]_vars => [\A p \in Cells \ {Root} :
          /\ \/ cell'[Parent[p]].life \in {"dead", "gone"}
             \/ cell'[Parent[p]].boots # cell[Parent[p]].boots
          /\ Live(p)'
          => Marked(p, {"disowned", "late"})']_vars
  BY <1>1
<1> QED
  BY <1>2, Invariance, PTL DEF Spec, ChildrenFirst

\* When no system message is left, no live watcher waits for a cell that is gone,
\* except one whose Watch was dropped with the queue of the cell it watched.
THEOREM EveryWatcherTold == Spec => []WatchersTold
<1>1. IInv => WatchersTold
  <2> SUFFICES ASSUME IInv, Quiet, NEW p \in Cells, NEW q \in Cells, cell[p].life = "up",
                      <<q, "User">> \in cell[p].watching, cell[q].life = "gone",
                      <<p, "unheard">> \notin marks
               PROVE  FALSE
    BY DEF WatchersTold, Live, Marked
  <2>1. Heard(cell, p, q) \/ Asked(cell, p, q) \/ Known(cell, p, q)
    BY DEF IInv, Good, WatchOK
  <2>2. cell[p].sys = <<>>
    BY DEF Quiet
  <2>3. ~Heard(cell, p, q)
    BY <2>2 DEF Heard
  <2>4. ~Asked(cell, p, q) /\ ~Known(cell, p, q)
    BY DEF Asked, Known, Registered
  <2> QED
    BY <2>1, <2>3, <2>4
<1> QED
  BY <1>1, Invariance, PTL

-----------------------------------------------------------------------------
(* Suspensions and what they are owed to                                   *)

\* The failure of q, as its supervisor hears of it.
Blame(q) == [type |-> "Failure", of |-> q]

\* What handling a message does to the suspensions of a cell.
Wt(m) == IF m.type = "Suspend" THEN 1 ELSE IF m.type \in {"Resume", "Recreate"} THEN -1 ELSE 0

\* With z suspensions now, handling the messages of s one after the other leaves
\* at least c at any time, and c + e in the end.
Line(s, z, c, e) ==
  \E g \in [0 .. Len(s) -> Int] :
    /\ g[0] <= z
    /\ \A i \in 1 .. Len(s) : g[i] <= g[i - 1] + Wt(s[i])
    /\ \A i \in 0 .. Len(s) : c <= g[i]
    /\ c + e <= g[Len(s)]

\* At most c failures of q wait in s.
Calls(s, q, c) ==
  \E h \in [DOMAIN s -> Int] : \A i \in DOMAIN s : s[i] = Blame(q) =>
    /\ 1 <= h[i] /\ h[i] <= c
    /\ \A j \in DOMAIN s : j < i /\ s[j] = Blame(q) => h[j] < h[i]

\* Whoever starts with k more has k more all along.
LEMMA LineShift ==
  ASSUME NEW s \in Seq(Message), NEW z \in Int, NEW c \in Int, NEW e \in Int, Line(s, z, c, e),
         NEW k \in Int, NEW y \in Int, NEW d \in Int, NEW f \in Int,
         z + k <= y, d <= c + k, d + f <= c + e + k
  PROVE  Line(s, y, d, f)
<1>0. Len(s) \in Nat
  OBVIOUS
<1>1. PICK g \in [0 .. Len(s) -> Int] :
        /\ g[0] <= z
        /\ \A i \in 1 .. Len(s) : g[i] <= g[i - 1] + Wt(s[i])
        /\ \A i \in 0 .. Len(s) : c <= g[i]
        /\ c + e <= g[Len(s)]
  BY DEF Line
<1> DEFINE h == [i \in 0 .. Len(s) |-> g[i] + k]
<1>2. h \in [0 .. Len(s) -> Int]
  BY <1>1
<1>3. h[0] <= y /\ d + f <= h[Len(s)]
  <2>1. g[0] \in Int /\ g[Len(s)] \in Int /\ h[0] = g[0] + k /\ h[Len(s)] = g[Len(s)] + k
    BY <1>0, <1>1
  <2> HIDE DEF h
  <2> QED
    BY <1>1, <2>1
<1>4. \A i \in 0 .. Len(s) : g[i] \in Int /\ h[i] = g[i] + k
  BY <1>1
<1> HIDE DEF h
<1>5. ASSUME NEW i \in 1 .. Len(s) PROVE h[i] <= h[i - 1] + Wt(s[i])
  <2>1. i \in 0 .. Len(s) /\ i - 1 \in 0 .. Len(s) /\ Wt(s[i]) \in Int
    BY <1>0 DEF Wt
  <2>2. g[i] <= g[i - 1] + Wt(s[i])
    BY <1>1
  <2>3. /\ g[i] \in Int /\ g[i - 1] \in Int
        /\ h[i] = g[i] + k /\ h[i - 1] = g[i - 1] + k
    BY <1>4, <2>1
  <2>4. PICK x \in Int, y1 \in Int, u \in Int : x = g[i] /\ y1 = g[i - 1] /\ u = Wt(s[i])
    BY <2>1, <2>3
  <2>5. x <= y1 + u => x + k <= y1 + k + u
    BY <2>4
  <2> QED
    BY <2>2, <2>3, <2>4, <2>5
<1>6. ASSUME NEW i \in 0 .. Len(s) PROVE d <= h[i]
  <2>1. c <= g[i]
    BY <1>1
  <2> QED
    BY <1>4, <2>1
<1> QED
  BY <1>2, <1>3, <1>5, <1>6 DEF Line

\* One message is handled.
LEMMA LineTail ==
  ASSUME NEW s \in Seq(Message), s # <<>>, NEW z \in Int, NEW c \in Int, NEW e \in Int,
         Line(s, z, c, e)
  PROVE  /\ Line(Tail(s), z + Wt(Head(s)), c, e)
         /\ c <= z + Wt(Head(s)) /\ c <= z
<1>0. /\ Len(s) \in Nat /\ Len(s) >= 1 /\ Len(Tail(s)) = Len(s) - 1 /\ Head(s) = s[1]
      /\ \A i \in 1 .. Len(s) - 1 : Tail(s)[i] = s[i + 1]
  OBVIOUS
<1>1. PICK g \in [0 .. Len(s) -> Int] :
        /\ g[0] <= z
        /\ \A i \in 1 .. Len(s) : g[i] <= g[i - 1] + Wt(s[i])
        /\ \A i \in 0 .. Len(s) : c <= g[i]
        /\ c + e <= g[Len(s)]
  BY DEF Line
<1>2. \A i \in 1 .. Len(s) : Wt(s[i]) \in Int
  BY DEF Wt
<1>3. g[1] <= z + Wt(Head(s)) /\ c <= g[1] /\ g[1] \in Int /\ g[0] \in Int /\ c <= g[0]
  <2>1. 1 \in 1 .. Len(s) /\ 1 \in 0 .. Len(s) /\ 0 \in 0 .. Len(s)
    BY <1>0
  <2>2. g[1] <= g[1 - 1] + Wt(s[1])
    BY <1>1, <2>1
  <2>3. g[1] \in Int /\ g[0] \in Int /\ c <= g[0] /\ c <= g[1] /\ Wt(s[1]) \in Int
    BY <1>1, <1>2, <2>1
  <2> QED
    BY <1>0, <1>1, <2>2, <2>3
<1>4. c <= z + Wt(Head(s)) /\ c <= z
  BY <1>0, <1>1, <1>2, <1>3
<1> DEFINE h == [i \in 0 .. Len(s) - 1 |-> g[i + 1]]
<1>5. h \in [0 .. Len(s) - 1 -> Int] /\ \A i \in 0 .. Len(s) - 1 : h[i] = g[i + 1] /\ c <= h[i]
  BY <1>0, <1>1
<1>6. h[0] <= z + Wt(Head(s)) /\ c + e <= h[Len(s) - 1]
  BY <1>0, <1>1, <1>3
<1> HIDE DEF h
<1>7. ASSUME NEW i \in 1 .. Len(s) - 1 PROVE h[i] <= h[i - 1] + Wt(Tail(s)[i])
  <2>1. i + 1 \in 1 .. Len(s) /\ i \in 0 .. Len(s) - 1 /\ i - 1 \in 0 .. Len(s) - 1
    BY <1>0
  <2>2. g[i + 1] <= g[i + 1 - 1] + Wt(s[i + 1])
    BY <1>1, <2>1
  <2>3. i + 1 - 1 = i /\ i - 1 + 1 = i /\ Tail(s)[i] = s[i + 1]
    BY <1>0
  <2>4. h[i] = g[i + 1] /\ h[i - 1] = g[i]
    BY <1>5, <2>1, <2>3
  <2> QED
    BY <2>2, <2>3, <2>4
<1>8. Line(Tail(s), z + Wt(Head(s)), c, e)
  <2>1. PICK t, n : t = Tail(s) /\ n = Len(s) - 1 /\ Len(t) = n
    BY <1>0
  <2>2. h \in [0 .. n -> Int] /\ h[0] <= z + Wt(Head(s)) /\ c + e <= h[n]
        /\ (\A i \in 0 .. n : c <= h[i]) /\ \A i \in 1 .. n : h[i] <= h[i - 1] + Wt(t[i])
    BY <1>5, <1>6, <1>7, <2>1
  <2> QED
    BY <2>1, <2>2 DEF Line
<1> QED
  BY <1>4, <1>8

\* One message is sent.
LEMMA LineAppend ==
  ASSUME NEW s \in Seq(Message), NEW m \in Message, NEW z \in Int, NEW c \in Int, NEW e \in Int,
         Line(s, z, c, e), 0 <= e + Wt(m)
  PROVE  Line(Append(s, m), z, c, e + Wt(m))
<1> DEFINE t == Append(s, m)
           n == Len(s)
<1>0. /\ n \in Nat /\ Len(t) = n + 1 /\ t[n + 1] = m /\ \A i \in 1 .. n : t[i] = s[i]
      /\ Wt(m) \in Int
  BY DEF Wt
<1>1. PICK g \in [0 .. n -> Int] :
        /\ g[0] <= z
        /\ \A i \in 1 .. n : g[i] <= g[i - 1] + Wt(s[i])
        /\ \A i \in 0 .. n : c <= g[i]
        /\ c + e <= g[n]
  BY DEF Line
<1> DEFINE h == [i \in 0 .. n + 1 |-> IF i <= n THEN g[i] ELSE g[n] + Wt(m)]
<1> HIDE DEF t, n
<1>2. /\ h \in [0 .. n + 1 -> Int] /\ h[n + 1] = g[n] + Wt(m) /\ g[n] \in Int
      /\ \A i \in 0 .. n : h[i] = g[i]
  BY <1>0, <1>1
<1> HIDE DEF h
<1>3. c + (e + Wt(m)) <= h[n + 1] /\ c <= h[n + 1]
  BY <1>0, <1>1, <1>2
<1>4. h[0] <= z /\ \A i \in 0 .. n + 1 : c <= h[i]
  <2>1. 0 \in 0 .. n /\ \A i \in 0 .. n + 1 : i \in 0 .. n \/ i = n + 1
    BY <1>0
  <2>2. h[0] <= z
    BY <1>1, <1>2, <2>1
  <2>3. \A i \in 0 .. n : c <= h[i]
    BY <1>1, <1>2
  <2> QED
    BY <1>3, <2>1, <2>2, <2>3
<1>5. ASSUME NEW i \in 1 .. n + 1 PROVE h[i] <= h[i - 1] + Wt(t[i])
  <2>1. CASE i \in 1 .. n
    <3>1. i \in 0 .. n /\ i - 1 \in 0 .. n
      BY <1>0, <2>1
    <3> QED
      BY <1>0, <1>1, <1>2, <2>1, <3>1
  <2>2. CASE i = n + 1
    <3>1. i - 1 = n /\ n \in 0 .. n
      BY <1>0, <2>2
    <3> QED
      BY <1>0, <1>2, <2>2, <3>1
  <2> QED
    BY <1>0, <2>1, <2>2
<1>6. Line(t, z, c, e + Wt(m))
  BY <1>0, <1>2, <1>3, <1>4, <1>5 DEF Line
<1> QED
  BY <1>6 DEF t

\* Messages about other things change nothing.
LEMMA LineLonger ==
  ASSUME NEW s \in Seq(Message), NEW t \in Seq(Message), NEW T, Longer(s, t, T),
         \A m \in T : Wt(m) = 0, NEW z \in Int, NEW c \in Int, NEW e \in Int, Line(s, z, c, e)
  PROVE  Line(t, z, c, e)
<1>0. PICK n \in Nat, k \in Nat : n = Len(s) /\ k = Len(t) /\ n <= k
  BY DEF Longer
<1>1. /\ \A i \in 1 .. n : t[i] = s[i]
      /\ \A i \in n + 1 .. k : Wt(t[i]) = 0
  BY <1>0 DEF Longer
<1>2. PICK g \in [0 .. n -> Int] :
        /\ g[0] <= z
        /\ \A i \in 1 .. n : g[i] <= g[i - 1] + Wt(s[i])
        /\ \A i \in 0 .. n : c <= g[i]
        /\ c + e <= g[n]
  BY <1>0 DEF Line
<1> DEFINE h == [i \in 0 .. k |-> IF i <= n THEN g[i] ELSE g[n]]
<1>3. /\ h \in [0 .. k -> Int] /\ (\A i \in 0 .. n : h[i] = g[i])
      /\ (\A i \in n .. k : h[i] = g[n]) /\ g[n] \in Int
  BY <1>0, <1>2
<1> HIDE DEF h
<1>4. h[0] <= z /\ c + e <= h[k] /\ \A i \in 0 .. k : c <= h[i]
  <2>1. 0 \in 0 .. n /\ n \in 0 .. n /\ k \in n .. k /\ \A i \in 0 .. k : i \in 0 .. n \/ i \in n .. k
    BY <1>0
  <2>2. h[0] <= z /\ c + e <= h[k]
    BY <1>2, <1>3, <2>1
  <2>3. \A i \in 0 .. n : c <= h[i]
    BY <1>2, <1>3
  <2>4. \A i \in n .. k : c <= h[i]
    BY <1>2, <1>3, <2>1
  <2> QED
    BY <2>1, <2>2, <2>3, <2>4
<1>5. \A i \in 1 .. k : h[i] <= h[i - 1] + Wt(t[i])
  <2>1. ASSUME NEW i \in 1 .. n PROVE h[i] <= h[i - 1] + Wt(t[i])
    <3>1. i \in 0 .. n /\ i - 1 \in 0 .. n
      BY <1>0
    <3> QED
      BY <1>1, <1>2, <1>3, <3>1
  <2>2. ASSUME NEW i \in n + 1 .. k PROVE h[i] <= h[i - 1] + Wt(t[i])
    <3>1. i \in n .. k /\ i - 1 \in n .. k
      BY <1>0
    <3> QED
      BY <1>1, <1>3, <3>1
  <2> QED
    BY <1>0, <2>1, <2>2
<1> QED
  BY <1>0, <1>3, <1>4, <1>5 DEF Line

\* A longer count is a count.
LEMMA CallsMore ==
  ASSUME NEW s, NEW q, NEW c \in Int, NEW d \in Int, c <= d, Calls(s, q, c)
  PROVE  Calls(s, q, d)
<1>1. PICK h \in [DOMAIN s -> Int] : \A i \in DOMAIN s : s[i] = Blame(q) =>
        /\ 1 <= h[i] /\ h[i] <= c
        /\ \A j \in DOMAIN s : j < i /\ s[j] = Blame(q) => h[j] < h[i]
  BY DEF Calls
<1>2. \A i \in DOMAIN s : h[i] \in Int /\ (h[i] <= c => h[i] <= d)
  BY <1>1
<1> QED
  BY <1>1, <1>2 DEF Calls

\* No failure of q is sent.
LEMMA CallsLonger ==
  ASSUME NEW s \in Seq(Message), NEW t \in Seq(Message), NEW T, Longer(s, t, T),
         NEW q, Blame(q) \notin T, NEW c \in Int, Calls(s, q, c)
  PROVE  Calls(t, q, c)
<1>0. PICK n \in Nat, k \in Nat : n = Len(s) /\ k = Len(t) /\ n <= k
                               /\ DOMAIN s = 1 .. n /\ DOMAIN t = 1 .. k
  BY DEF Longer
<1>1. PICK h \in [1 .. n -> Int] : \A i \in 1 .. n : s[i] = Blame(q) =>
        /\ 1 <= h[i] /\ h[i] <= c
        /\ \A j \in 1 .. n : j < i /\ s[j] = Blame(q) => h[j] < h[i]
  BY <1>0 DEF Calls
<1>2. \A i \in 1 .. k : t[i] = Blame(q) => i \in 1 .. n /\ s[i] = Blame(q)
  BY <1>0 DEF Longer
<1> DEFINE f == [i \in 1 .. k |-> IF i \in 1 .. n THEN h[i] ELSE 0]
<1>3. f \in [1 .. k -> Int] /\ \A i \in 1 .. n : f[i] = h[i]
  BY <1>0, <1>1
<1> HIDE DEF f
<1> QED
  BY <1>0, <1>1, <1>2, <1>3 DEF Calls

\* A failure of q is sent.
LEMMA CallsAppend ==
  ASSUME NEW s \in Seq(Message), NEW q \in Cells, NEW c \in Int, 0 <= c, Calls(s, q, c)
  PROVE  Calls(Append(s, Blame(q)), q, c + 1)
<1>0. Blame(q) \in Message
  BY DEF Blame, Message
<1>1. PICK n, t, m : /\ n \in Nat /\ n = Len(s) /\ m = Blame(q) /\ t = Append(s, m) /\ DOMAIN s = 1 .. n
                     /\ DOMAIN t = 1 .. n + 1 /\ (\A i \in 1 .. n : t[i] = s[i])
  <2>1. PICK m \in Message : m = Blame(q)
    BY <1>0
  <2>2. PICK t : t = Append(s, m)
    OBVIOUS
  <2>3. /\ Len(s) \in Nat /\ DOMAIN s = 1 .. Len(s) /\ DOMAIN t = 1 .. Len(s) + 1
        /\ \A i \in 1 .. Len(s) : t[i] = s[i]
    BY <2>2
  <2> QED
    BY <2>1, <2>2, <2>3
<1>a. n \in Nat
  BY <1>1
<1>2. PICK h \in [1 .. n -> Int] : \A i \in 1 .. n : s[i] = Blame(q) =>
        /\ 1 <= h[i] /\ h[i] <= c
        /\ \A j \in 1 .. n : j < i /\ s[j] = Blame(q) => h[j] < h[i]
  BY <1>1 DEF Calls
<1> DEFINE f == [i \in 1 .. n + 1 |-> IF i \in 1 .. n THEN h[i] ELSE c + 1]
<1>3. f \in [1 .. n + 1 -> Int] /\ (\A i \in 1 .. n : f[i] = h[i]) /\ f[n + 1] = c + 1
  BY <1>1, <1>2
<1> HIDE DEF f
<1>4. ASSUME NEW i \in 1 .. n + 1, t[i] = Blame(q)
      PROVE  /\ 1 <= f[i] /\ f[i] <= c + 1
             /\ \A j \in 1 .. n + 1 : j < i /\ t[j] = Blame(q) => f[j] < f[i]
  <2>1. CASE i \in 1 .. n
    <3>1. 1 <= h[i] /\ h[i] <= c /\ h[i] \in Int /\ f[i] = h[i]
      BY <1>1, <1>2, <1>3, <1>4, <2>1
    <3>2. \A j \in 1 .. n + 1 : j < i => j \in 1 .. n
      BY <1>a, <2>1
    <3> QED
      BY <1>1, <1>2, <1>3, <1>4, <2>1, <3>1, <3>2
  <2>2. CASE i = n + 1
    <3>1. \A j \in 1 .. n + 1 : j < i => j \in 1 .. n
      BY <1>a, <2>2
    <3>2. \A j \in 1 .. n : h[j] \in Int
      BY <1>2
    <3> QED
      BY <1>1, <1>2, <1>3, <2>2, <3>1, <3>2
  <2> QED
    BY <1>a, <2>1, <2>2
<1>5. Calls(t, q, c + 1)
  BY <1>1, <1>3, <1>4 DEF Calls
<1> QED
  BY <1>1, <1>5

\* The first message is taken.
LEMMA CallsTail ==
  ASSUME NEW s \in Seq(Message), s # <<>>, NEW q, NEW c \in Int, Calls(s, q, c)
  PROVE  /\ Calls(Tail(s), q, c)
         /\ Head(s) = Blame(q) => Calls(Tail(s), q, c - 1) /\ 1 <= c
<1>1. PICK n, t : /\ n \in Nat /\ n = Len(s) /\ n >= 1 /\ t = Tail(s) /\ DOMAIN s = 1 .. n
                  /\ DOMAIN t = 1 .. n - 1 /\ (\A i \in 1 .. n - 1 : t[i] = s[i + 1])
                  /\ Head(s) = s[1]
  <2>1. PICK t : t = Tail(s)
    OBVIOUS
  <2>2. /\ Len(s) \in Nat /\ Len(s) >= 1 /\ DOMAIN s = 1 .. Len(s) /\ Head(s) = s[1]
    OBVIOUS
  <2>3. DOMAIN t = 1 .. Len(s) - 1 /\ \A i \in 1 .. Len(s) - 1 : t[i] = s[i + 1]
    BY <2>1
  <2> QED
    BY <2>1, <2>2, <2>3
<1>2. PICK h \in [1 .. n -> Int] : \A i \in 1 .. n : s[i] = Blame(q) =>
        /\ 1 <= h[i] /\ h[i] <= c
        /\ \A j \in 1 .. n : j < i /\ s[j] = Blame(q) => h[j] < h[i]
  BY <1>1 DEF Calls
<1>3. ASSUME NEW k \in {0, 1}, k = 1 => s[1] = Blame(q)
      PROVE  Calls(t, q, c - k)
  <2> DEFINE f == [i \in 1 .. n - 1 |-> h[i + 1] - k]
  <2>1. /\ f \in [1 .. n - 1 -> Int]
        /\ \A i \in 1 .. n - 1 : f[i] = h[i + 1] - k /\ i + 1 \in 1 .. n /\ h[i + 1] \in Int
    BY <1>1, <1>2
  <2> HIDE DEF f
  <2>2. ASSUME NEW i \in 1 .. n - 1, t[i] = Blame(q)
        PROVE  /\ 1 <= f[i] /\ f[i] <= c - k
               /\ \A j \in 1 .. n - 1 : j < i /\ t[j] = Blame(q) => f[j] < f[i]
    <3>1. /\ s[i + 1] = Blame(q) /\ i + 1 \in 1 .. n /\ h[i + 1] \in Int /\ f[i] = h[i + 1] - k
      BY <1>1, <2>1, <2>2
    <3>2. /\ 1 <= h[i + 1] /\ h[i + 1] <= c
          /\ \A j \in 1 .. n : j < i + 1 /\ s[j] = Blame(q) => h[j] < h[i + 1]
      BY <1>2, <3>1
    <3>3. k = 1 => 1 < h[i + 1]
      <4>1. 1 \in 1 .. n /\ 1 < i + 1
        BY <1>1
      <4>2. k = 1 => h[1] < h[i + 1] /\ 1 <= h[1] /\ h[1] \in Int
        BY <1>2, <1>3, <3>2, <4>1
      <4> QED
        BY <3>1, <4>2
    <3>4. ASSUME NEW j \in 1 .. n - 1, j < i, t[j] = Blame(q) PROVE f[j] < f[i]
      <4>1. s[j + 1] = Blame(q) /\ j + 1 \in 1 .. n /\ j + 1 < i + 1 /\ f[j] = h[j + 1] - k
            /\ h[j + 1] \in Int
        BY <1>1, <2>1, <3>4
      <4>2. h[j + 1] < h[i + 1]
        BY <3>2, <4>1
      <4> QED
        BY <3>1, <4>1, <4>2
    <3>5. 1 <= f[i] /\ f[i] <= c - k
      BY <3>1, <3>2, <3>3
    <3> QED
      BY <3>4, <3>5
  <2> QED
    BY <1>1, <2>1, <2>2 DEF Calls
<1>4. Calls(t, q, c - 0)
  BY <1>3
<1>5. s[1] = Blame(q) => Calls(t, q, c - 1)
  BY <1>3
<1>6. s[1] = Blame(q) => 1 <= c
  BY <1>1, <1>2
<1> QED
  BY <1>1, <1>4, <1>5, <1>6

\* One suspension is set aside for the restart a container waits for.
Rec(k) == IF k.reason = "Recreation" THEN 1 ELSE 0

\* The books on q: t suspensions it surely has, z of them before its queue is
\* handled, never fewer than c, d more in the end, and a failures its supervisor
\* has not handled.
Fit(w, q, t, z, c, d, a) ==
  /\ w[q].life = "up" => t <= w[q].suspends /\ Line(w[q].sys, z, c, d)
  /\ w[q].life \in {"new", "up"} => Calls(w[Parent[q]].sys, q, a)

\* A cell holds its own children only and hears of their failures only, and
\* nobody resumes the guardian.
Own(w, q) ==
  /\ w[q].kids.c \subseteq ChildrenOf(q)
  /\ \A i \in DOMAIN w[q].sys :
       /\ w[q].sys[i].type = "Failure" => w[q].sys[i].of \in ChildrenOf(q)
       /\ w[q].sys[i].type = "Resume" => q # Root

\* Messages that suspend nobody, resume nobody and report no failure.
Plain == [type : {"Stop", "Create"}]
         \cup [type : {"Watch", "Unwatch", "StopChild", "DeathWatchNotification"}, of : Cells]

\* From w to v nothing happens to who is suspended for what.
Calm(w, v) ==
  /\ v \in [Cells -> CellType]
  /\ \A q \in Cells :
       /\ v[q].life \in {"new", "up"} => w[q].life = v[q].life
       /\ v[q].life = "up" => w[q].suspends <= v[q].suspends
       /\ \/ Longer(w[q].sys, v[q].sys, Plain)
          \/ v[q].sys = <<>> /\ v[q].life \notin {"new", "up"}
       /\ v[q].kids.c \subseteq w[q].kids.c

\* What plain messages are.
LEMMA PlainKinds ==
  /\ Plain \subseteq Message
  /\ \A m \in Plain : Wt(m) = 0 /\ m.type # "Failure" /\ m.type # "Resume" /\ \A q : m # Blame(q)
<1>1. \A m \in Plain : m \in Message /\ m.type \notin {"Suspend", "Resume", "Recreate", "Failure"}
  BY DEF Plain, Message
<1>2. \A q : Blame(q).type = "Failure"
  BY DEF Blame
<1> QED
  BY <1>1, <1>2 DEF Wt

\* The parent of a cell is a cell.
LEMMA ParentCell == ASSUME NEW q \in Cells \ {Root} PROVE Parent[q] \in Cells
  BY TreeAssumption

\* An empty queue holds no failure.
LEMMA CallsNone ==
  ASSUME NEW s, NEW q, NEW a \in Int, \A i \in DOMAIN s : s[i] # Blame(q)
  PROVE  Calls(s, q, a)
<1> DEFINE h == [i \in DOMAIN s |-> 0]
<1>1. h \in [DOMAIN s -> Int]
  OBVIOUS
<1> QED
  BY <1>1 DEF Calls

\* The books stay as they are.
LEMMA CalmFit ==
  ASSUME NEW w \in [Cells -> CellType], NEW v, Calm(w, v), NEW q \in Cells \ {Root},
         NEW t \in Int, NEW z \in Int, NEW c \in Int, NEW d \in Int, NEW a \in Int,
         Fit(w, q, t, z, c, d, a)
  PROVE  Fit(v, q, t, z, c, d, a)
<1>0. /\ w[q] \in CellType /\ v[q] \in CellType /\ w[Parent[q]] \in CellType
      /\ v[Parent[q]] \in CellType /\ Parent[q] \in Cells
  BY ParentCell DEF Calm
<1>1. /\ w[q].sys \in Seq(Message) /\ v[q].sys \in Seq(Message) /\ w[q].suspends \in Nat
      /\ v[q].suspends \in Nat /\ w[Parent[q]].sys \in Seq(Message)
      /\ v[Parent[q]].sys \in Seq(Message)
  BY <1>0, CellFields
<1>2. ASSUME v[q].life = "up" PROVE t <= v[q].suspends /\ Line(v[q].sys, z, c, d)
  <2>1. /\ w[q].life = "up" /\ w[q].suspends <= v[q].suspends /\ Longer(w[q].sys, v[q].sys, Plain)
    BY <1>2 DEF Calm
  <2>2. t <= w[q].suspends /\ Line(w[q].sys, z, c, d)
    BY <2>1 DEF Fit
  <2>3. Line(v[q].sys, z, c, d)
    BY <1>1, <2>1, <2>2, PlainKinds, LineLonger
  <2> QED
    BY <1>1, <2>1, <2>2, <2>3
<1>3. ASSUME v[q].life \in {"new", "up"} PROVE Calls(v[Parent[q]].sys, q, a)
  <2>1. Calls(w[Parent[q]].sys, q, a)
    BY <1>3 DEF Calm, Fit
  <2>2. CASE Longer(w[Parent[q]].sys, v[Parent[q]].sys, Plain)
    <3>1. Blame(q) \notin Plain
      BY PlainKinds
    <3> QED
      BY <1>1, <2>1, <2>2, <3>1, CallsLonger
  <2>3. CASE v[Parent[q]].sys = <<>>
    <3>1. DOMAIN v[Parent[q]].sys = {}
      BY <2>3
    <3> QED
      BY <3>1, CallsNone
  <2> QED
    BY <1>0, <2>2, <2>3 DEF Calm
<1> QED
  BY <1>2, <1>3 DEF Fit

\* The messages of a queue that got longer.
LEMMA LongerHas ==
  ASSUME NEW s \in Seq(Message), NEW t \in Seq(Message), NEW T, Longer(s, t, T)
  PROVE  \A i \in DOMAIN t : (i \in DOMAIN s /\ t[i] = s[i]) \/ t[i] \in T
<1>1. PICK n \in Nat, k \in Nat : n = Len(s) /\ k = Len(t) /\ DOMAIN s = 1 .. n /\ DOMAIN t = 1 .. k
  OBVIOUS
<1>2. \A i \in 1 .. k : i \in 1 .. n \/ i \in n + 1 .. k
  BY <1>1
<1> QED
  BY <1>1, <1>2 DEF Longer

\* So does what a cell holds and hears.
LEMMA CalmOwn ==
  ASSUME NEW w \in [Cells -> CellType], NEW v, Calm(w, v), NEW q \in Cells, Own(w, q)
  PROVE  Own(v, q)
<1>1. w[q].sys \in Seq(Message) /\ v[q].sys \in Seq(Message)
  BY CellFields DEF Calm
<1>2. v[q].kids.c \subseteq ChildrenOf(q)
  BY DEF Calm, Own
<1>3. CASE Longer(w[q].sys, v[q].sys, Plain)
  <2>1. \A i \in DOMAIN v[q].sys :
          (i \in DOMAIN w[q].sys /\ v[q].sys[i] = w[q].sys[i]) \/ v[q].sys[i] \in Plain
    BY <1>1, <1>3, LongerHas
  <2> QED
    BY <1>2, <2>1, PlainKinds DEF Own
<1>4. CASE v[q].sys = <<>>
  <2>1. DOMAIN v[q].sys = {}
    BY <1>4
  <2> QED
    BY <1>2, <2>1 DEF Own
<1> QED
  BY <1>3, <1>4 DEF Calm

\* The books can be read more loosely.
LEMMA FitShift ==
  ASSUME NEW w \in [Cells -> CellType], NEW q \in Cells \ {Root},
         NEW t \in Int, NEW z \in Int, NEW c \in Int, NEW d \in Int, NEW a \in Int,
         Fit(w, q, t, z, c, d, a), NEW k \in Int,
         NEW tt \in Int, NEW zz \in Int, NEW cc \in Int, NEW dd \in Int, NEW aa \in Int,
         tt <= t, z + k <= zz, cc <= c + k, cc + dd <= c + d + k, a <= aa
  PROVE  Fit(w, q, tt, zz, cc, dd, aa)
<1>1. w[q].sys \in Seq(Message) /\ w[q].suspends \in Nat
  BY CellFields
<1>2. ASSUME w[q].life = "up" PROVE tt <= w[q].suspends /\ Line(w[q].sys, zz, cc, dd)
  <2>1. t <= w[q].suspends /\ Line(w[q].sys, z, c, d)
    BY <1>2 DEF Fit
  <2>2. Line(w[q].sys, zz, cc, dd)
    BY <1>1, <2>1, LineShift
  <2> QED
    BY <1>1, <2>1, <2>2
<1>3. ASSUME w[q].life \in {"new", "up"} PROVE Calls(w[Parent[q]].sys, q, aa)
  <2>1. Calls(w[Parent[q]].sys, q, a)
    BY <1>3 DEF Fit
  <2> QED
    BY <2>1, CallsMore
<1> QED
  BY <1>2, <1>3 DEF Fit

\* So they can with what is lent at hand.
LEMMA FitLoose ==
  ASSUME NEW w \in [Cells -> CellType], NEW q \in Cells \ {Root},
         NEW t \in Int, NEW z \in Int, NEW c \in Int, NEW d \in Int, NEW a \in Int,
         Fit(w, q, t, z, c, d, a),
         NEW tt \in Int, NEW zz \in Int, NEW cc \in Int, NEW dd \in Int, NEW aa \in Int,
         tt <= t, z <= zz, cc <= c, cc + dd <= c + d, a <= aa
  PROVE  Fit(w, q, tt, zz, cc, dd, aa)
<1>1. PICK k \in Int : z + k <= zz /\ cc <= c + k /\ cc + dd <= c + d + k
  <2>1. z + 0 <= zz /\ cc <= c + 0 /\ cc + dd <= c + d + 0
    OBVIOUS
  <2> QED
    BY <2>1
<1> QED
  BY <1>1, FitShift

\* What a cell is suspended for is not less than what its queue leaves it.
LEMMA FitLeast ==
  ASSUME NEW w \in [Cells -> CellType], NEW q \in Cells \ {Root},
         NEW t \in Int, NEW z \in Int, NEW c \in Int, NEW d \in Int, NEW a \in Int,
         Fit(w, q, t, z, c, d, a), w[q].life = "up"
  PROVE  c <= z
<1>1. w[q].sys \in Seq(Message) /\ Line(w[q].sys, z, c, d)
  BY CellFields DEF Fit
<1>2. PICK g \in [0 .. Len(w[q].sys) -> Int] :
        g[0] <= z /\ \A i \in 0 .. Len(w[q].sys) : c <= g[i]
  BY <1>1 DEF Line
<1>3. 0 \in 0 .. Len(w[q].sys) /\ g[0] \in Int
  BY <1>1, <1>2
<1>4. PICK n \in Int : n = g[0]
  BY <1>3
<1>5. c <= n /\ n <= z
  BY <1>2, <1>3, <1>4
<1> QED
  BY <1>4, <1>5

\* From w to v only the suspensions and failures change.
Same(w, v) ==
  /\ v \in [Cells -> CellType]
  /\ \A q \in Cells : v[q].life = w[q].life /\ v[q].sys = w[q].sys /\ v[q].kids = w[q].kids

\* Suspend and resume, by number.
LEMMA CountIs ==
  ASSUME NEW w \in [Cells -> CellType], NEW p \in Cells
  PROVE  /\ Same(w, Suspend(w, p)) /\ Same(w, Resume(w, p))
         /\ \A q \in Cells : Suspend(w, p)[q].suspends =
              IF q = p THEN w[q].suspends + 1 ELSE w[q].suspends
         /\ \A q \in Cells : Resume(w, p)[q].suspends >=
              IF q = p THEN w[q].suspends - 1 ELSE w[q].suspends
<1>1. ASSUME NEW n \in Nat, NEW v, v = [w EXCEPT ![p].suspends = n]
      PROVE  /\ Same(w, v)
             /\ \A q \in Cells : v[q].suspends = IF q = p THEN n ELSE w[q].suspends
  <2> DEFINE c == [w[p] EXCEPT !.suspends = n]
  <2>1. /\ c \in CellType /\ c.life = w[p].life /\ c.kids = w[p].kids /\ c.sys = w[p].sys
        /\ c.suspends = n
    BY SuspendsSet
  <2>2. v = [w EXCEPT ![p] = c]
    BY <1>1
  <2> HIDE DEF c
  <2>3. v \in [Cells -> CellType] /\ \A q \in Cells : v[q] = IF q = p THEN c ELSE w[q]
    BY <2>1, <2>2, CellSet
  <2> QED
    BY <2>1, <2>3 DEF Same
<1>2. \A q \in Cells : w[q].suspends \in Nat
  BY CellFields
<1>3. PICK n \in Nat, m \in Nat : /\ n = w[p].suspends + 1
                                  /\ m = (IF w[p].suspends = 0 THEN 0 ELSE w[p].suspends - 1)
  BY <1>2
<1>4. m >= w[p].suspends - 1
  BY <1>2, <1>3
<1>5. /\ Suspend(w, p) = [w EXCEPT ![p].suspends = n]
      /\ Resume(w, p) = [w EXCEPT ![p].suspends = m]
  BY <1>3 DEF Suspend, Resume
<1>6. /\ Same(w, Suspend(w, p))
      /\ \A q \in Cells : Suspend(w, p)[q].suspends = IF q = p THEN n ELSE w[q].suspends
  BY <1>1, <1>5
<1>7. /\ Same(w, Resume(w, p))
      /\ \A q \in Cells : Resume(w, p)[q].suspends = IF q = p THEN m ELSE w[q].suspends
  BY <1>1, <1>5
<1> QED
  BY <1>2, <1>3, <1>4, <1>6, <1>7

\* From w to v not even the suspensions change.
Noted(w, v) == Same(w, v) /\ \A q \in Cells : v[q].suspends = w[q].suspends

\* A failure is noted.
LEMMA FailedIs ==
  ASSUME NEW w \in [Cells -> CellType], NEW p \in Cells
  PROVE  \A f \in {"none", "Child", "Fatal"} : Noted(w, [w EXCEPT ![p].failed = f])
<1> SUFFICES ASSUME NEW f \in {"none", "Child", "Fatal"}
             PROVE  Noted(w, [w EXCEPT ![p].failed = f])
  OBVIOUS
<1> DEFINE v == [w EXCEPT ![p].failed = f]
<1> DEFINE c == [w[p] EXCEPT !.failed = f]
<1>1. /\ c \in CellType /\ c.life = w[p].life /\ c.kids = w[p].kids /\ c.sys = w[p].sys
      /\ c.suspends = w[p].suspends
  BY FailedSet
<1>2. v = [w EXCEPT ![p] = c]
  OBVIOUS
<1> HIDE DEF c, v
<1>3. v \in [Cells -> CellType] /\ \A q \in Cells : v[q] = IF q = p THEN c ELSE w[q]
  BY <1>1, <1>2, CellSet
<1>4. Noted(w, v)
  BY <1>1, <1>3 DEF Noted, Same
<1> QED
  BY <1>4 DEF v

\* A container is replaced.
LEMMA KidsIs ==
  ASSUME NEW w \in [Cells -> CellType], NEW p \in Cells, NEW k \in Container
  PROVE  /\ [w EXCEPT ![p].kids = k] \in [Cells -> CellType]
         /\ \A q \in Cells :
              LET v == [w EXCEPT ![p].kids = k]
              IN  /\ v[q].life = w[q].life /\ v[q].sys = w[q].sys
                  /\ v[q].suspends = w[q].suspends /\ v[q].failed = w[q].failed
                  /\ v[q].kids = IF q = p THEN k ELSE w[q].kids
<1> DEFINE v == [w EXCEPT ![p].kids = k]
<1> DEFINE c == [w[p] EXCEPT !.kids = k]
<1>1. /\ c \in CellType /\ c.life = w[p].life /\ c.kids = k /\ c.sys = w[p].sys
      /\ c.suspends = w[p].suspends /\ c.failed = w[p].failed
  BY KidsSet
<1>2. v = [w EXCEPT ![p] = c]
  OBVIOUS
<1> HIDE DEF c, v
<1>3. v \in [Cells -> CellType] /\ \A q \in Cells : v[q] = IF q = p THEN c ELSE w[q]
  BY <1>1, <1>2, CellSet
<1>4. /\ v \in [Cells -> CellType]
      /\ \A q \in Cells : /\ v[q].life = w[q].life /\ v[q].sys = w[q].sys
                           /\ v[q].suspends = w[q].suspends /\ v[q].failed = w[q].failed
                           /\ v[q].kids = IF q = p THEN k ELSE w[q].kids
  BY <1>1, <1>3
<1> QED
  BY <1>4 DEF v

\* A cell that is sent a message.
LEMMA SentCell ==
  ASSUME NEW b \in CellType, NEW m \in Message
  PROVE  \E c \in CellType :
           /\ c = [b EXCEPT !.sys = Append(b.sys, m)]
           /\ c.life = b.life /\ c.suspends = b.suspends /\ c.kids = b.kids
           /\ c.failed = b.failed /\ c.sys = Append(b.sys, m)
<1>2. b.sys \in Seq(Message)
  BY CellFields
<1>5. Append(b.sys, m) \in Seq(Message)
  BY <1>2
<1>1. PICK x \in Seq(Message) : x = Append(b.sys, m)
  BY <1>5
<1>3. PICK c : c = [b EXCEPT !.sys = x]
  OBVIOUS
<1>4. /\ c \in CellType /\ c.life = b.life /\ c.suspends = b.suspends /\ c.kids = b.kids
      /\ c.failed = b.failed /\ c.sys = x
  BY <1>3, SysSet
<1> QED
  BY <1>1, <1>3, <1>4

\* A message to every registered cell of S.
LEMMA SendAllIs ==
  ASSUME NEW w \in [Cells -> CellType], NEW S,
         NEW type \in {"Stop", "Create", "Recreate", "Suspend", "Resume"},
         NEW v, v = SendAll(w, S, type)
  PROVE  /\ v \in [Cells -> CellType] /\ [type |-> type] \in Message
         /\ \A q \in Cells :
              /\ v[q].life = w[q].life /\ v[q].suspends = w[q].suspends /\ v[q].kids = w[q].kids
              /\ v[q].failed = w[q].failed
              /\ v[q].sys = IF q \in S /\ Registered(w, q) THEN Append(w[q].sys, [type |-> type])
                            ELSE w[q].sys
<1> DEFINE m == [type |-> type]
<1>0. m \in Message
  BY DEF Message
<1>1. v \in [Cells -> CellType]
  BY SendAllTalk
<1>2. ASSUME NEW q \in Cells
      PROVE  /\ v[q].life = w[q].life /\ v[q].suspends = w[q].suspends /\ v[q].kids = w[q].kids
             /\ v[q].failed = w[q].failed
             /\ v[q].sys = IF q \in S /\ Registered(w, q) THEN Append(w[q].sys, m) ELSE w[q].sys
  <2>0. PICK b \in CellType : b = w[q]
    OBVIOUS
  <2>1. PICK c \in CellType :
          /\ c = [b EXCEPT !.sys = Append(b.sys, m)]
          /\ c.life = b.life /\ c.suspends = b.suspends /\ c.kids = b.kids
          /\ c.failed = b.failed /\ c.sys = Append(b.sys, m)
    <3> HIDE DEF m
    <3> QED
      BY <1>0, SentCell
  <2>2. v[q] = IF q \in S /\ Registered(w, q) THEN c ELSE b
    BY <2>0, <2>1 DEF SendAll
  <2> HIDE DEF m
  <2> QED
    BY <2>0, <2>1, <2>2
<1> QED
  BY <1>0, <1>1, <1>2

\* Suspensions change: nothing else in the books does.
LEMMA SameFit ==
  ASSUME NEW w \in [Cells -> CellType], NEW v, Same(w, v), NEW q \in Cells \ {Root},
         NEW t \in Int, NEW z \in Int, NEW c \in Int, NEW d \in Int, NEW a \in Int,
         Fit(w, q, t, z, c, d, a), NEW k \in Int, w[q].suspends + k <= v[q].suspends
  PROVE  Fit(v, q, t + k, z, c, d, a)
<1>1. w[q].suspends \in Nat /\ v[q].suspends \in Nat
  BY CellFields DEF Same
<1>2. v[q].life = w[q].life /\ v[q].sys = w[q].sys /\ v[Parent[q]].sys = w[Parent[q]].sys
  BY ParentCell DEF Same
<1>3. t <= w[q].suspends => t + k <= v[q].suspends
  BY <1>1
<1> QED
  BY <1>2, <1>3 DEF Fit

\* And what a cell holds and hears stays.
LEMMA SameOwn ==
  ASSUME NEW w, NEW v, Same(w, v), NEW q \in Cells, Own(w, q)
  PROVE  Own(v, q)
  BY DEF Same, Own

\* A message of supervision is sent.
LEMMA SendAllFit ==
  ASSUME NEW w \in [Cells -> CellType], NEW S,
         NEW type \in {"Stop", "Create", "Recreate", "Suspend", "Resume"},
         NEW v, v = SendAll(w, S, type), NEW q \in Cells \ {Root},
         NEW t \in Int, NEW z \in Int, NEW c \in Int, NEW d \in Int, NEW a \in Int,
         Fit(w, q, t, z, c, d, a), NEW k \in Int,
         k = (IF q \in S THEN Wt([type |-> type]) ELSE 0),
         w[q].life = "up" => 0 <= d + k
  PROVE  Fit(v, q, t, z, c, d + k, a)
<1>0. PICK m \in Message : m = [type |-> type] /\ m.type = type
  BY SendAllIs
<1>1. /\ v[q].life = w[q].life /\ v[q].suspends = w[q].suspends /\ Parent[q] \in Cells
      /\ \A r \in Cells : v[r].sys = IF r \in S /\ Registered(w, r) THEN Append(w[r].sys, m)
                                      ELSE w[r].sys
  BY <1>0, SendAllIs, ParentCell
<1>2. \A r \in Cells : w[r].sys \in Seq(Message)
  BY CellFields
<1>3. ASSUME w[q].life = "up" PROVE Line(v[q].sys, z, c, d + k)
  <2>1. Line(w[q].sys, z, c, d) /\ Registered(w, q)
    BY <1>3 DEF Fit, Registered
  <2>2. CASE q \in S
    <3>1. k = Wt(m) /\ v[q].sys = Append(w[q].sys, m)
      BY <1>0, <1>1, <2>1, <2>2
    <3>2. 0 <= d + Wt(m)
      BY <1>3, <3>1
    <3>3. Line(Append(w[q].sys, m), z, c, d + Wt(m))
      BY <1>2, <2>1, <3>2, LineAppend
    <3> QED
      BY <3>1, <3>3
  <2>3. CASE q \notin S
    <3>1. d + k = d /\ v[q].sys = w[q].sys
      BY <1>1, <2>3
    <3> QED
      BY <2>1, <3>1
  <2> QED
    BY <2>2, <2>3
<1>4. ASSUME w[q].life \in {"new", "up"} PROVE Calls(v[Parent[q]].sys, q, a)
  <2>1. Calls(w[Parent[q]].sys, q, a)
    BY <1>4 DEF Fit
  <2> DEFINE s == w[Parent[q]].sys
  <2>2. s \in Seq(Message) /\ (v[Parent[q]].sys = s \/ v[Parent[q]].sys = Append(s, m))
    BY <1>1, <1>2
  <2>3. Append(s, m) \in Seq(Message) /\ Longer(s, Append(s, m), {m})
    <3>1. m \in {m} /\ {m} \in SUBSET Message
      OBVIOUS
    <3> QED
      BY <2>2, <3>1, LongerAppend
  <2>4. Blame(q) \notin {m}
    <3>1. Blame(q).type = "Failure"
      BY DEF Blame
    <3> QED
      BY <1>0, <3>1
  <2> HIDE DEF s
  <2>5. Calls(s, q, a)
    BY <2>1 DEF s
  <2>6. Calls(Append(s, m), q, a)
    BY <2>2, <2>3, <2>4, <2>5, CallsLonger
  <2> QED
    BY <2>2, <2>5, <2>6
<1> QED
  BY <1>1, <1>3, <1>4 DEF Fit

\* A message of supervision is heard.
LEMMA SendAllOwn ==
  ASSUME NEW w \in [Cells -> CellType], NEW S,
         NEW type \in {"Stop", "Create", "Recreate", "Suspend", "Resume"},
         NEW v, v = SendAll(w, S, type), NEW q \in Cells, Own(w, q),
         type = "Resume" /\ q = Root => q \notin S
  PROVE  Own(v, q)
<1>0. PICK m \in Message : m = [type |-> type] /\ m.type = type
  BY SendAllIs
<1>1. /\ v[q].kids = w[q].kids
      /\ v[q].sys = IF q \in S /\ Registered(w, q) THEN Append(w[q].sys, m) ELSE w[q].sys
  BY <1>0, SendAllIs
<1>2. w[q].sys \in Seq(Message)
  BY CellFields
<1>3. CASE v[q].sys = w[q].sys
  BY <1>1, <1>3 DEF Own
<1>4. CASE q \in S /\ v[q].sys = Append(w[q].sys, m)
  <2>1. \A i \in DOMAIN v[q].sys : (i \in DOMAIN w[q].sys /\ v[q].sys[i] = w[q].sys[i])
                                   \/ v[q].sys[i] \in {m}
    <3>1. m \in {m} /\ {m} \in SUBSET Message
      OBVIOUS
    <3>2. Append(w[q].sys, m) \in Seq(Message) /\ Longer(w[q].sys, Append(w[q].sys, m), {m})
      BY <1>2, <3>1, LongerAppend
    <3> QED
      BY <1>2, <1>4, <3>2, LongerHas
  <2> QED
    BY <1>0, <1>1, <1>4, <2>1 DEF Own
<1> QED
  BY <1>1, <1>3, <1>4

\* What is 1 for p alone, and for the cells of S.
At(q, p) == IF q = p THEN 1 ELSE 0
In(q, S) == IF q \in S THEN 1 ELSE 0

\* Those numbers.
LEMMA Ticks == \A q, p, S : At(q, p) \in {0, 1} /\ In(q, S) \in {0, 1}
  BY DEF At, In

\* A failure is sent to the supervisor: one more is not handled.
LEMMA BlameIs ==
  ASSUME NEW w \in [Cells -> CellType], NEW p \in Cells \ {Root}, w[p].life = "up",
         Registered(w, Parent[p]), NEW v, v = SendOf(w, Parent[p], "Failure", p)
  PROVE  /\ v \in [Cells -> CellType] /\ Blame(p) \in Message /\ Parent[p] \in Cells
         /\ \A q \in Cells :
              /\ v[q].life = w[q].life /\ v[q].suspends = w[q].suspends /\ v[q].kids = w[q].kids
              /\ v[q].sys = IF q = Parent[p] THEN Append(w[q].sys, Blame(p)) ELSE w[q].sys
<1>0. Blame(p) \in Message /\ Parent[p] \in Cells
  BY ParentCell DEF Message, Blame
<1>1. PICK s \in Cells, m \in Message, b \in CellType : s = Parent[p] /\ m = Blame(p) /\ b = w[s]
  BY <1>0
<1>3. PICK c \in CellType :
        /\ c = [b EXCEPT !.sys = Append(b.sys, m)]
        /\ c.life = b.life /\ c.suspends = b.suspends /\ c.kids = b.kids
        /\ c.failed = b.failed /\ c.sys = Append(b.sys, m)
  BY SentCell
<1>2. v = [w EXCEPT ![s] = c]
  <2>1. v = [w EXCEPT ![s].sys = Append(@, m)]
    BY <1>1 DEF SendOf, Blame
  <2> QED
    BY <1>1, <1>3, <2>1
<1>4. v \in [Cells -> CellType] /\ \A q \in Cells : v[q] = IF q = s THEN c ELSE w[q]
  BY <1>2, <1>3, CellSet
<1>5. \A q \in Cells :
        /\ v[q].life = w[q].life /\ v[q].suspends = w[q].suspends /\ v[q].kids = w[q].kids
        /\ v[q].sys = IF q = s THEN Append(w[q].sys, m) ELSE w[q].sys
  BY <1>1, <1>3, <1>4
<1> QED
  BY <1>0, <1>1, <1>4, <1>5

\* What a failure says.
LEMMA BlameKind ==
  ASSUME NEW p \in Cells
  PROVE  /\ Blame(p) \in Message /\ Blame(p).type = "Failure" /\ Blame(p).of = p
         /\ Wt(Blame(p)) = 0
<1>1. Blame(p) \in Message /\ Blame(p).type = "Failure" /\ Blame(p).of = p
  BY DEF Message, Blame
<1> QED
  BY <1>1 DEF Wt

\* What that does to the books.
LEMMA BlameFit ==
  ASSUME NEW w \in [Cells -> CellType], NEW p \in Cells \ {Root}, w[p].life = "up",
         Registered(w, Parent[p]), NEW v, v = SendOf(w, Parent[p], "Failure", p),
         NEW q \in Cells \ {Root},
         NEW t \in Int, NEW z \in Int, NEW c \in Int, NEW d \in Int, NEW a \in Int,
         Fit(w, q, t, z, c, d, a), w[q].life \in {"new", "up"} => 0 <= a
  PROVE  Fit(v, q, t, z, c, d, a + At(q, p))
<1>0. PICK m \in Message : m = Blame(p) /\ m.type = "Failure" /\ Wt(m) = 0
  BY BlameKind
<1>1. /\ Parent[q] \in Cells /\ v[q].life = w[q].life /\ v[q].suspends = w[q].suspends
      /\ v \in [Cells -> CellType]
      /\ \A r \in Cells : v[r].sys = IF r = Parent[p] THEN Append(w[r].sys, m) ELSE w[r].sys
  BY <1>0, BlameIs, ParentCell
<1>2. /\ \A r \in Cells : w[r].sys \in Seq(Message)
      /\ \A r \in Cells : v[r].sys \in Seq(Message) /\ Longer(w[r].sys, v[r].sys, {m})
  <2>1. \A r \in Cells : w[r].sys \in Seq(Message)
    BY CellFields
  <2>2. ASSUME NEW r \in Cells PROVE v[r].sys \in Seq(Message) /\ Longer(w[r].sys, v[r].sys, {m})
    <3>1. m \in {m} /\ {m} \in SUBSET Message
      OBVIOUS
    <3>2. /\ Append(w[r].sys, m) \in Seq(Message) /\ Longer(w[r].sys, Append(w[r].sys, m), {m})
          /\ Longer(w[r].sys, w[r].sys, {m})
      BY <2>1, <3>1, LongerAppend, LongerRefl
    <3> QED
      BY <1>1, <2>1, <3>2
  <2> QED
    BY <2>1, <2>2
<1>3. ASSUME w[q].life = "up" PROVE Line(v[q].sys, z, c, d)
  <2>1. Line(w[q].sys, z, c, d)
    BY <1>3 DEF Fit
  <2>2. \A x \in {m} : Wt(x) = 0
    BY <1>0
  <2> QED
    BY <1>2, <2>1, <2>2, LineLonger
<1>4. ASSUME w[q].life \in {"new", "up"} PROVE Calls(v[Parent[q]].sys, q, a + At(q, p))
  <2>1. Calls(w[Parent[q]].sys, q, a) /\ 0 <= a
    BY <1>4 DEF Fit
  <2>2. CASE q = p
    <3>1. v[Parent[q]].sys = Append(w[Parent[q]].sys, Blame(q)) /\ a + At(q, p) = a + 1
      BY <1>0, <1>1, <2>2 DEF At
    <3>2. Calls(Append(w[Parent[q]].sys, Blame(q)), q, a + 1)
      BY <1>1, <1>2, <2>1, CallsAppend
    <3> QED
      BY <3>1, <3>2
  <2>3. CASE q # p
    <3>1. a + At(q, p) = a
      BY <2>3 DEF At
    <3>2. Blame(q) \notin {m}
      BY <1>0, <2>3 DEF Blame
    <3>3. Calls(v[Parent[q]].sys, q, a)
      BY <1>1, <1>2, <2>1, <3>2, CallsLonger
    <3> QED
      BY <3>1, <3>3
  <2> QED
    BY <2>2, <2>3
<1> QED
  BY <1>1, <1>3, <1>4 DEF Fit

\* The supervisor hears of its own child.
LEMMA BlameOwn ==
  ASSUME NEW w \in [Cells -> CellType], NEW p \in Cells \ {Root}, w[p].life = "up",
         Registered(w, Parent[p]), NEW v, v = SendOf(w, Parent[p], "Failure", p),
         NEW q \in Cells, Own(w, q)
  PROVE  Own(v, q)
<1>0. PICK m \in Message : m = Blame(p) /\ m.type = "Failure" /\ m.of = p
  BY BlameKind
<1>1. /\ v[q].kids = w[q].kids
      /\ v[q].sys = IF q = Parent[p] THEN Append(w[q].sys, m) ELSE w[q].sys
  BY <1>0, BlameIs
<1>2. w[q].sys \in Seq(Message)
  BY CellFields
<1>3. CASE v[q].sys = w[q].sys
  BY <1>1, <1>3 DEF Own
<1>4. CASE q = Parent[p] /\ v[q].sys = Append(w[q].sys, m)
  <2>1. \A i \in DOMAIN v[q].sys : (i \in DOMAIN w[q].sys /\ v[q].sys[i] = w[q].sys[i])
                                   \/ v[q].sys[i] \in {m}
    <3>1. m \in {m} /\ {m} \in SUBSET Message
      OBVIOUS
    <3>2. Append(w[q].sys, m) \in Seq(Message) /\ Longer(w[q].sys, Append(w[q].sys, m), {m})
      BY <1>2, <3>1, LongerAppend
    <3> QED
      <4>1. PICK x \in Seq(Message), y \in Seq(Message) : x = w[q].sys /\ y = Append(w[q].sys, m)
        BY <1>2, <3>2
      <4>2. \A i \in DOMAIN y : (i \in DOMAIN x /\ y[i] = x[i]) \/ y[i] \in {m}
        BY <3>2, <4>1, LongerHas
      <4> QED
        BY <1>4, <4>1, <4>2
  <2>2. p \in ChildrenOf(q)
    BY <1>4 DEF ChildrenOf
  <2> QED
    BY <1>0, <1>1, <2>1, <2>2 DEF Own
<1> QED
  BY <1>1, <1>3, <1>4

\* Reporting a failure: p is suspended for it, and so are its children.
LEMMA ReportFit ==
  ASSUME NEW w \in [Cells -> CellType], NEW p \in Cells, w[p].life = "up",
         NEW v, v = ReportFailure(w, p), NEW q \in Cells \ {Root},
         NEW t \in Int, NEW z \in Int, NEW c \in Int, NEW d \in Int, NEW a \in Int,
         Fit(w, q, t, z, c, d, a), w[q].life \in {"new", "up"} => 0 <= a,
         w[q].life = "up" => 0 <= d
  PROVE  Fit(v, q, t + At(q, p), z + At(q, p), c + At(q, p), d + In(q, w[p].kids.c), a + At(q, p))
<1> DEFINE f == IF w[p].failed = "none" THEN "Child" ELSE w[p].failed
           u == [w EXCEPT ![p].failed = f]
           held == Suspend(u, p)
           quiet == SuspendChildren(held, p)
<1>0. f \in {"none", "Child", "Fatal"}
  BY CellFields
<1>a. PICK e \in Int, k \in Int : e = At(q, p) /\ k = In(q, w[p].kids.c) /\ e >= 0 /\ k >= 0
  BY Ticks
<1>1. Same(w, u) /\ (\A r \in Cells : u[r].suspends = w[r].suspends) /\ u \in [Cells -> CellType]
  <2> HIDE DEF f
  <2>2. Noted(w, u)
    BY <1>0, FailedIs
  <2> HIDE DEF u
  <2> QED
    BY <2>2 DEF Noted, Same
<1>2. v = IF \E s \in ParentOf(p) : Registered(quiet, s)
          THEN SendOf(quiet, Parent[p], "Failure", p) ELSE SendAll(quiet, {p}, "Stop")
  BY DEF ReportFailure
<1> HIDE DEF u, f
<1>3. Fit(u, q, t + 0, z, c, d, a)
  <2>1. w[q].suspends \in Nat /\ u[q].suspends = w[q].suspends
    BY <1>1, CellFields
  <2>2. w[q].suspends + 0 <= u[q].suspends
    BY <2>1
  <2> QED
    BY <1>1, <2>2, SameFit
<1>4. Same(u, held) /\ held \in [Cells -> CellType] /\ u[q].suspends + e <= held[q].suspends
  <2>1. u[q].suspends \in Nat
    BY <1>1, CellFields
  <2> QED
    BY <1>1, <1>a, <2>1, CountIs DEF Same, At
<1> HIDE DEF held
<1>5. Fit(held, q, t + e, z, c, d, a)
  <2>1. t + 0 = t
    OBVIOUS
  <2> QED
    BY <1>1, <1>3, <1>4, <1>a, <2>1, SameFit
<1>6. held[p].kids = w[p].kids /\ held[p].life = "up" /\ \A r \in Cells : held[r].life = w[r].life
  BY <1>1, <1>4 DEF Same
<1>7. quiet = SendAll(held, w[p].kids.c, "Suspend")
  BY <1>6 DEF SuspendChildren
<1> HIDE DEF quiet
<1>8. quiet \in [Cells -> CellType] /\ \A r \in Cells : quiet[r].life = w[r].life
  BY <1>4, <1>6, <1>7, SendAllIs
<1>9. Fit(quiet, q, t + e, z, c, d + k, a)
  <2>1. t + e \in Int /\ k = (IF q \in w[p].kids.c THEN Wt([type |-> "Suspend"]) ELSE 0)
    BY <1>a DEF Wt, In
  <2>2. held[q].life = "up" => 0 <= d + k
    BY <1>6, <1>a
  <2> QED
    BY <1>4, <1>5, <1>7, <1>a, <2>1, <2>2, SendAllFit
<1>10. Fit(v, q, t + e, z, c, d + k, a + e)
  <2>0. t + e \in Int /\ d + k \in Int /\ a + e \in Int /\ a <= a + e
    BY <1>a
  <2>1. CASE \E s \in ParentOf(p) : Registered(quiet, s)
    <3>1. p \in Cells \ {Root} /\ Registered(quiet, Parent[p])
      BY <2>1 DEF ParentOf
    <3>2. v = SendOf(quiet, Parent[p], "Failure", p) /\ quiet[p].life = "up"
      BY <1>2, <1>6, <1>8, <2>1
    <3>3. quiet[q].life \in {"new", "up"} => 0 <= a
      BY <1>8
    <3>4. Fit(v, q, t + e, z, c, d + k, a + At(q, p))
      BY <1>8, <1>9, <2>0, <3>1, <3>2, <3>3, BlameFit
    <3> QED
      BY <1>a, <3>4
  <2>2. CASE ~\E s \in ParentOf(p) : Registered(quiet, s)
    <3>1. v = SendAll(quiet, {p}, "Stop")
      BY <1>2, <2>2
    <3>2. v \in [Cells -> CellType]
      BY <1>8, <3>1, SendAllIs
    <3>3. PICK n \in Int : n = 0 /\ n = (IF q \in {p} THEN Wt([type |-> "Stop"]) ELSE 0)
      BY DEF Wt
    <3>4. PICK x \in Int, y \in Int, b \in Int : x = t + e /\ y = d + k /\ b = a + e
      BY <2>0
    <3>5. (quiet[q].life = "up" => 0 <= y + n) /\ Fit(quiet, q, x, z, c, y, a)
      BY <1>8, <1>9, <1>a, <3>3, <3>4
    <3>6. Fit(v, q, x, z, c, y + n, a)
      BY <1>8, <3>1, <3>3, <3>5, SendAllFit
    <3>7. y + n = y /\ z <= z /\ c <= c /\ c + y <= c + y /\ x <= x /\ a <= b
      BY <2>0, <3>3, <3>4
    <3>8. Fit(v, q, x, z, c, y, a)
      BY <3>6, <3>7
    <3>9. Fit(v, q, x, z, c, y, b)
      BY <3>2, <3>7, <3>8, FitLoose
    <3> QED
      BY <3>4, <3>9
  <2> QED
    BY <2>1, <2>2
<1>11. v \in [Cells -> CellType]
  BY ReportTalk
<1>12. Fit(v, q, t + e, z + e, c + e, d + k, a + e)
  <2>1. /\ t + e \in Int /\ d + k \in Int /\ a + e \in Int /\ z + e \in Int /\ c + e \in Int
        /\ t + e <= t + e /\ z + e <= z + e /\ c + e <= c + e
        /\ c + e + (d + k) <= c + (d + k) + e /\ a + e <= a + e
    BY <1>a
  <2> QED
    BY <1>10, <1>11, <1>a, <2>1, FitShift
<1> QED
  BY <1>12, <1>a

\* And what the cells hold and hear.
LEMMA ReportOwn ==
  ASSUME NEW w \in [Cells -> CellType], NEW p \in Cells, w[p].life = "up",
         NEW v, v = ReportFailure(w, p), NEW q \in Cells, Own(w, q)
  PROVE  Own(v, q)
<1> DEFINE f == IF w[p].failed = "none" THEN "Child" ELSE w[p].failed
           u == [w EXCEPT ![p].failed = f]
           held == Suspend(u, p)
           quiet == SuspendChildren(held, p)
<1>0. f \in {"none", "Child", "Fatal"}
  BY CellFields
<1>1. Same(w, u) /\ u \in [Cells -> CellType]
  <2> HIDE DEF f
  <2>2. Noted(w, u)
    BY <1>0, FailedIs
  <2> HIDE DEF u
  <2> QED
    BY <2>2 DEF Noted, Same
<1>2. v = IF \E s \in ParentOf(p) : Registered(quiet, s)
          THEN SendOf(quiet, Parent[p], "Failure", p) ELSE SendAll(quiet, {p}, "Stop")
  BY DEF ReportFailure
<1> HIDE DEF u, f
<1>3. Same(u, held) /\ held \in [Cells -> CellType]
  BY <1>1, CountIs DEF Same
<1> HIDE DEF held
<1>4. Own(held, q) /\ held[p].life = "up"
  <2>1. Own(u, q) /\ u[p].life = "up"
    BY <1>1, SameOwn DEF Same
  <2> QED
    BY <1>3, <2>1, SameOwn DEF Same
<1>5. quiet = SendAll(held, held[p].kids.c, "Suspend")
  BY DEF SuspendChildren
<1> HIDE DEF quiet
<1>6. quiet \in [Cells -> CellType] /\ Own(quiet, q) /\ quiet[p].life = "up"
  BY <1>3, <1>4, <1>5, SendAllIs, SendAllOwn
<1>7. CASE \E s \in ParentOf(p) : Registered(quiet, s)
  <2>1. p \in Cells \ {Root} /\ Registered(quiet, Parent[p])
    BY <1>7 DEF ParentOf
  <2> QED
    BY <1>2, <1>6, <1>7, <2>1, BlameOwn
<1>8. CASE ~\E s \in ParentOf(p) : Registered(quiet, s)
  BY <1>2, <1>6, <1>8, SendAllOwn
<1> QED
  BY <1>7, <1>8

\* Nothing in the books changes.
LEMMA NotedFit ==
  ASSUME NEW w \in [Cells -> CellType], NEW v, Noted(w, v), NEW q \in Cells \ {Root},
         NEW t \in Int, NEW z \in Int, NEW c \in Int, NEW d \in Int, NEW a \in Int,
         Fit(w, q, t, z, c, d, a)
  PROVE  Fit(v, q, t, z, c, d, a)
<1>1. v[q].life = w[q].life /\ v[q].sys = w[q].sys /\ v[Parent[q]].sys = w[Parent[q]].sys
      /\ v[q].suspends = w[q].suspends
  BY ParentCell DEF Noted, Same
<1> QED
  BY <1>1 DEF Fit

\* A fresh actor is noted.
LEMMA FreshIs ==
  ASSUME NEW w \in [Cells -> CellType], NEW p \in Cells
  PROVE  Noted(w, [w EXCEPT ![p].failed = "none", ![p].boots = @ + 1])
<1>1. PICK n \in Nat, b \in CellType : n = w[p].boots + 1 /\ b = [w[p] EXCEPT !.failed = "none"]
           /\ b.life = w[p].life /\ b.kids = w[p].kids /\ b.sys = w[p].sys
           /\ b.suspends = w[p].suspends
  <2> DEFINE e == [w[p] EXCEPT !.failed = "none"]
  <2>1. /\ e \in CellType /\ e.life = w[p].life /\ e.kids = w[p].kids /\ e.sys = w[p].sys
        /\ e.suspends = w[p].suspends
    BY FailedSet
  <2>2. w[p].boots + 1 \in Nat
    BY CellFields
  <2> HIDE DEF e
  <2>3. e = [w[p] EXCEPT !.failed = "none"]
    BY DEF e
  <2> QED
    BY <2>1, <2>2, <2>3
<1> DEFINE c == [b EXCEPT !.boots = n]
           v == [w EXCEPT ![p] = c]
<1>2. /\ c \in CellType /\ c.life = b.life /\ c.kids = b.kids /\ c.sys = b.sys
      /\ c.suspends = b.suspends
  BY BootsSet
<1>3. v = [w EXCEPT ![p].failed = "none", ![p].boots = @ + 1]
  BY <1>1
<1> HIDE DEF c
<1>4. v \in [Cells -> CellType] /\ \A q \in Cells : v[q] = IF q = p THEN c ELSE w[q]
  BY <1>2, CellSet
<1> HIDE DEF v
<1>5. Noted(w, v)
  BY <1>1, <1>2, <1>4 DEF Noted, Same
<1> QED
  BY <1>3, <1>5

\* A resume after which the actor is fresh.
LEMMA FreshFit ==
  ASSUME NEW w \in [Cells -> CellType], NEW p \in Cells,
         NEW v, v = Resume([w EXCEPT ![p].failed = "none", ![p].boots = @ + 1], p)
  PROVE  /\ Same(w, v)
         /\ \A q \in Cells : v[q].suspends >= IF q = p THEN w[q].suspends - 1 ELSE w[q].suspends
<1> DEFINE u == [w EXCEPT ![p].failed = "none", ![p].boots = @ + 1]
<1>1. Noted(w, u) /\ v = Resume(u, p)
  BY FreshIs
<1> HIDE DEF u
<1>2. u \in [Cells -> CellType]
  BY <1>1 DEF Noted, Same
<1>3. /\ Same(u, v)
      /\ \A q \in Cells : v[q].suspends >= IF q = p THEN u[q].suspends - 1 ELSE u[q].suspends
  <2>1. /\ Same(u, Resume(u, p))
        /\ \A q \in Cells : Resume(u, p)[q].suspends >=
              IF q = p THEN u[q].suspends - 1 ELSE u[q].suspends
    BY <1>2, CountIs
  <2>2. v = Resume(u, p)
    BY <1>1
  <2> QED
    BY <2>1, <2>2
<1> QED
  BY <1>1, <1>3 DEF Noted, Same

\* The next message is taken.
LEMMA PopIs ==
  ASSUME NEW w \in [Cells -> CellType], NEW p \in Cells, w[p].sys # <<>>,
         NEW v, v = Took(w, p)
  PROVE  /\ v \in [Cells -> CellType]
         /\ \A q \in Cells :
              /\ v[q].life = w[q].life /\ v[q].suspends = w[q].suspends /\ v[q].kids = w[q].kids
              /\ v[q].failed = w[q].failed
              /\ v[q].sys = IF q = p THEN Tail(w[q].sys) ELSE w[q].sys
<1>0. w[p].sys \in Seq(Message)
  BY CellFields
<1>1. Tail(w[p].sys) \in Seq(Message)
  BY <1>0
<1>2. PICK x \in Seq(Message), b \in CellType : x = Tail(w[p].sys) /\ b = w[p]
  BY <1>1
<1>3. PICK c : c = [b EXCEPT !.sys = x]
  OBVIOUS
<1>4. /\ c \in CellType /\ c.life = b.life /\ c.suspends = b.suspends /\ c.kids = b.kids
      /\ c.failed = b.failed /\ c.sys = x
  BY <1>3, SysSet
<1>5. v = [w EXCEPT ![p] = c]
  BY <1>2, <1>3 DEF Took
<1>6. v \in [Cells -> CellType] /\ \A q \in Cells : v[q] = IF q = p THEN c ELSE w[q]
  BY <1>4, <1>5, CellSet
<1> QED
  BY <1>2, <1>4, <1>6

\* What that does to the books: p is closer to its last suspension, and the
\* failure of q is being handled.
LEMMA PopFit ==
  ASSUME NEW w \in [Cells -> CellType], NEW p \in Cells, w[p].sys # <<>>, Own(w, p),
         NEW v, v = Took(w, p), NEW q \in Cells \ {Root},
         NEW t \in Int, NEW z \in Int, NEW c \in Int, NEW d \in Int, NEW a \in Int,
         Fit(w, q, t, z, c, d, a), NEW k \in Int, NEW e \in Int,
         k = (IF q = p THEN Wt(Head(w[p].sys)) ELSE 0),
         e = (IF Head(w[p].sys) = Blame(q) THEN 1 ELSE 0)
  PROVE  /\ Fit(v, q, t, z + k, c, d, a - e)
         /\ w[q].life \in {"new", "up"} /\ 0 <= a => 0 <= a - e
<1>0. PICK s \in Seq(Message) : s = w[p].sys /\ s # <<>>
  BY CellFields
<1>1. /\ Parent[q] \in Cells /\ v[q].life = w[q].life /\ v[q].suspends = w[q].suspends
      /\ \A r \in Cells : v[r].sys = IF r = p THEN Tail(s) ELSE w[r].sys
  BY <1>0, PopIs, ParentCell
<1>2. ASSUME w[q].life = "up" PROVE Line(v[q].sys, z + k, c, d)
  <2>1. Line(w[q].sys, z, c, d)
    BY <1>2 DEF Fit
  <2>2. CASE q = p
    <3>1. Line(Tail(s), z + Wt(Head(s)), c, d)
      BY <1>0, <2>1, <2>2, LineTail
    <3> QED
      BY <1>0, <1>1, <2>2, <3>1
  <2>3. CASE q # p
    <3>1. z + k = z
      BY <2>3
    <3> QED
      BY <1>1, <2>1, <2>3, <3>1
  <2> QED
    BY <2>2, <2>3
<1>3. ASSUME w[q].life \in {"new", "up"}
      PROVE  Calls(v[Parent[q]].sys, q, a - e) /\ (0 <= a => 0 <= a - e)
  <2>1. Calls(w[Parent[q]].sys, q, a)
    BY <1>3 DEF Fit
  <2>2. CASE Head(s) = Blame(q)
    <3>1. Parent[q] = p
      <4>1. 1 \in DOMAIN s /\ s[1] = Head(s)
        BY <1>0
      <4>2. s[1].type = "Failure" /\ s[1].of = q
        BY <2>2, <4>1, BlameKind
      <4> QED
        BY <1>0, <4>1, <4>2 DEF Own, ChildrenOf
    <3>2. Calls(Tail(s), q, a - 1) /\ 1 <= a
      BY <1>0, <2>1, <2>2, <3>1, CallsTail
    <3>3. e = 1
      BY <1>0, <2>2
    <3> QED
      BY <1>1, <3>1, <3>2, <3>3
  <2>3. CASE Head(s) # Blame(q)
    <3>1. a - e = a
      BY <1>0, <2>3
    <3>2. CASE Parent[q] = p
      <4>1. Calls(Tail(s), q, a)
        BY <1>0, <2>1, <3>2, CallsTail
      <4> QED
        BY <1>1, <3>1, <3>2, <4>1
    <3>3. CASE Parent[q] # p
      BY <1>1, <2>1, <3>1, <3>3
    <3> QED
      BY <3>2, <3>3
  <2> QED
    BY <2>2, <2>3
<1> QED
  BY <1>1, <1>2, <1>3 DEF Fit

\* A cell hears no more than before.
LEMMA PopOwn ==
  ASSUME NEW w \in [Cells -> CellType], NEW p \in Cells, w[p].sys # <<>>,
         NEW v, v = Took(w, p), NEW q \in Cells, Own(w, q)
  PROVE  Own(v, q)
<1>0. PICK s \in Seq(Message) : s = w[p].sys /\ s # <<>>
  BY CellFields
<1>1. v[q].kids = w[q].kids /\ v[q].sys = IF q = p THEN Tail(s) ELSE w[q].sys
  BY <1>0, PopIs
<1>2. \A i \in DOMAIN Tail(s) : i + 1 \in DOMAIN s /\ Tail(s)[i] = s[i + 1]
  BY <1>0
<1>3. CASE q = p
  <2>1. ASSUME NEW i \in DOMAIN v[q].sys
        PROVE  /\ v[q].sys[i].type = "Failure" => v[q].sys[i].of \in ChildrenOf(q)
               /\ v[q].sys[i].type = "Resume" => q # Root
    <3>1. PICK j \in DOMAIN w[q].sys : v[q].sys[i] = w[q].sys[j]
      BY <1>0, <1>1, <1>2, <1>3
    <3> QED
      BY <3>1 DEF Own
  <2> QED
    BY <1>1, <2>1 DEF Own
<1>4. CASE q # p
  BY <1>1, <1>4 DEF Own
<1> QED
  BY <1>3, <1>4

\* The siblings that have not failed are suspended.
HeldBy(w, S) == [q \in Cells |-> IF q \in S THEN [w[q] EXCEPT !.suspends = @ + 1] ELSE w[q]]

\* That, by number.
LEMMA HeldIs ==
  ASSUME NEW w \in [Cells -> CellType], NEW S, NEW v, v = HeldBy(w, S)
  PROVE  /\ Same(w, v)
         /\ \A q \in Cells : v[q].suspends = w[q].suspends + In(q, S)
<1>1. ASSUME NEW q \in Cells
      PROVE  /\ v[q] \in CellType /\ v[q].life = w[q].life /\ v[q].sys = w[q].sys
             /\ v[q].kids = w[q].kids /\ v[q].suspends = w[q].suspends + In(q, S)
  <2>1. w[q].suspends \in Nat
    BY CellFields
  <2>2. PICK n \in Nat, b \in CellType : n = w[q].suspends + 1 /\ b = w[q]
    BY <2>1
  <2>3. PICK c : c = [b EXCEPT !.suspends = n]
    OBVIOUS
  <2>4. /\ c \in CellType /\ c.life = b.life /\ c.kids = b.kids /\ c.sys = b.sys /\ c.suspends = n
    BY <2>3, SuspendsSet
  <2>5. v[q] = IF q \in S THEN c ELSE b
    BY <2>2, <2>3 DEF HeldBy
  <2> QED
    BY <2>1, <2>2, <2>4, <2>5 DEF In
<1>2. v = [q \in Cells |-> v[q]]
  BY DEF HeldBy
<1>3. v \in [Cells -> CellType]
  BY <1>1, <1>2
<1> QED
  BY <1>1, <1>3 DEF Same

\* The cells once the affected children are told to restart.
RestartTold(w, child, affected) ==
  LET siblings == {q \in affected \ {child} : Registered(w, q)}
      quiet == SendAll(HeldBy(w, siblings), UNION {w[q].kids.c : q \in siblings}, "Suspend")
  IN  SendAll(quiet, affected, "Recreate")

\* The suspension that restarts a child is the one of its failure, or a new one.
LEMMA RestartFit ==
  ASSUME NEW w \in [Cells -> CellType], NEW child, NEW affected, child \in affected,
         NEW v, v = RestartTold(w, child, affected), NEW q \in Cells \ {Root},
         NEW t \in Int, NEW z \in Int, NEW c \in Int, NEW d \in Int, NEW a \in Int,
         Fit(w, q, t, z, c, d, a),
         w[q].life = "up" => 0 <= d - At(q, child),
         NEW siblings, siblings = {r \in affected \ {child} : Registered(w, r)},
         NEW e \in Int, e = In(q, siblings),
         NEW n \in Int, n = In(q, UNION {w[r].kids.c : r \in siblings}),
         NEW f \in Int, f = d - At(q, child) + n
  PROVE  Fit(v, q, t + e, z + e, c, f, a)
<1> DEFINE held == HeldBy(w, siblings)
           quiet == SendAll(held, UNION {w[r].kids.c : r \in siblings}, "Suspend")
<1>0. v = SendAll(quiet, affected, "Recreate")
  BY DEF RestartTold
<1>a. e \in {0, 1} /\ n \in {0, 1} /\ At(q, child) \in {0, 1}
  BY Ticks
<1>1. Same(w, held) /\ held \in [Cells -> CellType] /\ w[q].suspends + e <= held[q].suspends
  <2>1. w[q].suspends \in Nat
    BY CellFields
  <2> QED
    BY <1>a, <2>1, HeldIs DEF Same
<1> HIDE DEF held
<1>b. t + e \in Int /\ z + e \in Int /\ d + e \in Int
  OBVIOUS
<1>2. PICK x \in Int, y \in Int, b \in Int : x = t + e /\ y = z + e /\ b = d + e
  BY <1>b
<1>3. Fit(held, q, x, z, c, d, a)
  BY <1>1, <1>2, SameFit
<1>4. Fit(held, q, x, y, c, b, a)
  <2>1. x <= x /\ z + e <= y /\ c <= c + e /\ c + b <= c + d + e /\ a <= a
    BY <1>a, <1>2
  <2> QED
    BY <1>1, <1>3, <2>1, FitShift
<1>5. quiet \in [Cells -> CellType] /\ quiet[q].life = w[q].life
  BY <1>1, SendAllIs DEF Same
<1>6. n = (IF q \in UNION {w[r].kids.c : r \in siblings} THEN Wt([type |-> "Suspend"]) ELSE 0)
  BY DEF In, Wt
<1>7. held[q].life = "up" => 0 <= b + n
  BY <1>1, <1>2, <1>a DEF Same
<1>8. Fit(quiet, q, x, y, c, b + n, a)
  BY <1>1, <1>4, <1>6, <1>7, SendAllFit
<1> HIDE DEF quiet
<1>c. b + n \in Int /\ (IF q \in affected THEN -1 ELSE 0) \in Int
  OBVIOUS
<1>9. PICK m \in Int, k \in Int : m = b + n /\ k = (IF q \in affected THEN -1 ELSE 0)
  BY <1>c
<1>10. k = (IF q \in affected THEN Wt([type |-> "Recreate"]) ELSE 0)
  BY <1>9 DEF Wt
<1>11. w[q].life = "up" => m + k = f
  <2>1. w[q].life = "up" /\ q \in affected /\ q # child => e = 1
    BY DEF In, Registered
  <2>2. q = child => e = 0 /\ q \in affected
    BY DEF In
  <2>3. q \notin affected => e = 0
    BY DEF In
  <2>4. At(q, child) = IF q = child THEN 1 ELSE 0
    BY DEF At
  <2> QED
    BY <1>2, <1>9, <1>a, <2>1, <2>2, <2>3, <2>4
<1>12. quiet[q].life = "up" => 0 <= m + k
  BY <1>5, <1>11, <1>a
<1>13. Fit(quiet, q, x, y, c, m, a)
  BY <1>8, <1>9
<1>14. Fit(v, q, x, y, c, m + k, a)
  BY <1>0, <1>5, <1>10, <1>12, <1>13, SendAllFit
<1>15. v[q].life = w[q].life
  BY <1>0, <1>5, SendAllIs
<1> QED
  BY <1>2, <1>11, <1>14, <1>15 DEF Fit

\* And what the cells hold and hear.
LEMMA RestartOwn ==
  ASSUME NEW w \in [Cells -> CellType], NEW child, NEW affected,
         NEW v, v = RestartTold(w, child, affected), NEW q \in Cells, Own(w, q)
  PROVE  /\ Own(v, q) /\ v \in [Cells -> CellType]
         /\ v[q].life = w[q].life /\ v[q].kids = w[q].kids
<1> DEFINE siblings == {r \in affected \ {child} : Registered(w, r)}
           held == HeldBy(w, siblings)
           quiet == SendAll(held, UNION {w[r].kids.c : r \in siblings}, "Suspend")
<1>0. v = SendAll(quiet, affected, "Recreate")
  BY DEF RestartTold
<1> HIDE DEF siblings
<1>1. Same(w, held) /\ held \in [Cells -> CellType]
  BY HeldIs DEF Same
<1> HIDE DEF held
<1>2. Own(held, q)
  BY <1>1, SameOwn
<1>3. /\ quiet \in [Cells -> CellType] /\ Own(quiet, q)
      /\ quiet[q].life = held[q].life /\ quiet[q].kids = held[q].kids
  BY <1>1, <1>2, SendAllIs, SendAllOwn
<1> HIDE DEF quiet
<1>4. /\ v \in [Cells -> CellType] /\ Own(v, q)
      /\ v[q].life = quiet[q].life /\ v[q].kids = quiet[q].kids
  BY <1>0, <1>3, SendAllIs, SendAllOwn
<1> QED
  BY <1>1, <1>3, <1>4 DEF Same

-----------------------------------------------------------------------------
(* The books of all cells                                                  *)

\* The books of all cells, k more for the cells of S, and one less.
Books == [Cells -> Int]
More(f, S, k) == [q \in Cells |-> IF q \in S THEN f[q] + k ELSE f[q]]
Less(f, S) == [q \in Cells |-> IF q \in S THEN f[q] - 1 ELSE f[q]]

\* What q is suspended for because its supervisor is.
Owed(w, t, q) ==
  IF Parent[q] # Root /\ w[Parent[q]].life = "up" /\ q \in w[Parent[q]].kids.c
  THEN t[Parent[q]] ELSE 0

\* What the books promise about q.
Settled(w, t, c, d, a, q) ==
  /\ w[q].life = "up" => 0 <= t[q] /\ 0 <= c[q] /\ Owed(w, t, q) <= d[q]
  /\ w[q].life \in {"new", "up"} => 0 <= a[q]
  /\ w[q].life = "new" => a[q] = 0

\* The books t, z, c, d and a are true of the cells w.
Ledger(w, t, z, c, d, a) ==
  /\ w \in [Cells -> CellType]
  /\ t \in Books /\ z \in Books /\ c \in Books /\ d \in Books /\ a \in Books
  /\ \A q \in Cells : Own(w, q)
  /\ \A q \in Cells \ {Root} : Fit(w, q, t[q], z[q], c[q], d[q], a[q])
  /\ \A q \in Cells \ {Root} : Settled(w, t, c, d, a, q)

\* Their entries.
LEMMA MoreIs ==
  ASSUME NEW f \in Books, NEW S, NEW k \in Int
  PROVE  /\ More(f, S, k) \in Books
         /\ \A q \in Cells : /\ f[q] \in Int
                             /\ q \in S => More(f, S, k)[q] = f[q] + k
                             /\ q \notin S => More(f, S, k)[q] = f[q]
  BY DEF Books, More

\* So.
LEMMA LessIs ==
  ASSUME NEW f \in Books, NEW S
  PROVE  /\ Less(f, S) \in Books
         /\ \A q \in Cells : f[q] \in Int /\ Less(f, S)[q] = IF q \in S THEN f[q] - 1 ELSE f[q]
  BY DEF Books, Less

\* The entries of q.
LEMMA Entry ==
  ASSUME NEW w, NEW t, NEW z, NEW c, NEW d, NEW a, Ledger(w, t, z, c, d, a),
         NEW q \in Cells \ {Root}
  PROVE  /\ t[q] \in Int /\ z[q] \in Int /\ c[q] \in Int /\ d[q] \in Int /\ a[q] \in Int
         /\ Fit(w, q, t[q], z[q], c[q], d[q], a[q]) /\ Settled(w, t, c, d, a, q)
         /\ w[q].life = "up" => Owed(w, t, q) \in Int /\ 0 <= Owed(w, t, q) /\ 0 <= d[q]
         /\ w[q].life = "up" => c[q] <= z[q]
<1>1. /\ t[q] \in Int /\ z[q] \in Int /\ c[q] \in Int /\ d[q] \in Int /\ a[q] \in Int
      /\ Fit(w, q, t[q], z[q], c[q], d[q], a[q]) /\ Settled(w, t, c, d, a, q)
      /\ w \in [Cells -> CellType]
  BY DEF Ledger, Books
<1>2. w[q].life = "up" => c[q] <= z[q]
  BY <1>1, FitLeast
<1>3. ASSUME w[q].life = "up" PROVE Owed(w, t, q) \in Int /\ 0 <= Owed(w, t, q) /\ 0 <= d[q]
  <2>1. Owed(w, t, q) \in Int /\ 0 <= Owed(w, t, q)
    <3>1. CASE Parent[q] # Root /\ w[Parent[q]].life = "up"
      <4>1. Parent[q] \in Cells \ {Root}
        BY <3>1, ParentCell
      <4>2. t[Parent[q]] \in Int /\ 0 <= t[Parent[q]]
        BY <3>1, <4>1 DEF Ledger, Books, Settled
      <4> QED
        BY <4>2 DEF Owed
    <3>2. CASE ~(Parent[q] # Root /\ w[Parent[q]].life = "up")
      BY <3>2 DEF Owed
    <3> QED
      BY <3>1, <3>2
  <2>2. Owed(w, t, q) <= d[q]
    BY <1>1, <1>3 DEF Settled
  <2> QED
    BY <1>1, <2>1, <2>2
<1> QED
  BY <1>1, <1>2, <1>3

\* Where nothing happens to suspensions, the books stay true.
LEMMA CalmLedger ==
  ASSUME NEW w, NEW t, NEW z, NEW c, NEW d, NEW a, Ledger(w, t, z, c, d, a), NEW v, Calm(w, v)
  PROVE  Ledger(v, t, z, c, d, a)
<1>0. w \in [Cells -> CellType] /\ v \in [Cells -> CellType]
  BY DEF Ledger, Calm
<1>1. \A q \in Cells : Own(v, q)
  BY <1>0, CalmOwn DEF Ledger
<1>2. ASSUME NEW q \in Cells \ {Root} PROVE Fit(v, q, t[q], z[q], c[q], d[q], a[q])
  BY <1>0, Entry, CalmFit
<1>3. ASSUME NEW q \in Cells \ {Root} PROVE Settled(v, t, c, d, a, q)
  <2>1. /\ Settled(w, t, c, d, a, q) /\ d[q] \in Int
        /\ w[q].life = "up" => Owed(w, t, q) \in Int /\ 0 <= Owed(w, t, q) /\ 0 <= d[q]
    BY Entry
  <2>2. v[q].life \in {"new", "up"} => w[q].life = v[q].life
    BY DEF Calm
  <2>3. Parent[q] \in Cells
    BY ParentCell
  <2>4. /\ v[Parent[q]].life = "up" => w[Parent[q]].life = "up"
        /\ v[Parent[q]].kids.c \subseteq w[Parent[q]].kids.c
    BY <2>3 DEF Calm
  <2>5. Owed(v, t, q) = 0 \/ Owed(v, t, q) = Owed(w, t, q)
    BY <2>4 DEF Owed
  <2>6. ASSUME v[q].life = "up" PROVE Owed(v, t, q) <= d[q]
    BY <2>1, <2>2, <2>5, <2>6 DEF Settled
  <2> QED
    BY <2>1, <2>2, <2>6 DEF Settled
<1> QED
  BY <1>0, <1>1, <1>2, <1>3 DEF Ledger

\* Nothing but suspensions and failures changes, and p may be resumed once.
LEMMA DropLedger ==
  ASSUME NEW w, NEW t, NEW z, NEW c, NEW d, NEW a, Ledger(w, t, z, c, d, a), NEW p \in Cells,
         p # Root /\ w[p].life = "up" => 1 <= t[p], NEW v, Same(w, v),
         \A q \in Cells : v[q].suspends >= IF q = p THEN w[q].suspends - 1 ELSE w[q].suspends
  PROVE  Ledger(v, Less(t, {p}), z, c, d, a)
<1> DEFINE s == Less(t, {p})
<1>0. w \in [Cells -> CellType] /\ v \in [Cells -> CellType] /\ t \in Books
  BY DEF Ledger, Same
<1>b. s = Less(t, {p})
  OBVIOUS
<1> HIDE DEF s
<1>c. s \in Books /\ \A q \in Cells : t[q] \in Int /\ s[q] = IF q \in {p} THEN t[q] - 1 ELSE t[q]
  BY <1>0, <1>b, LessIs
<1>a. s \in Books /\ \A q \in Cells : t[q] \in Int /\ s[q] = IF q = p THEN t[q] - 1 ELSE t[q]
  BY <1>c
<1>1. \A q \in Cells : Own(v, q)
  BY SameOwn DEF Ledger
<1>2. ASSUME NEW q \in Cells \ {Root} PROVE Fit(v, q, s[q], z[q], c[q], d[q], a[q])
  <2>1. PICK t0 \in Int, z0 \in Int, c0 \in Int, d0 \in Int, a0 \in Int :
          /\ t0 = t[q] /\ z0 = z[q] /\ c0 = c[q] /\ d0 = d[q] /\ a0 = a[q]
          /\ Fit(w, q, t0, z0, c0, d0, a0)
    BY Entry
  <2>2. w[q].suspends \in Nat /\ v[q].suspends \in Nat
    BY <1>0, CellFields
  <2>3. PICK k \in Int : k = (IF q = p THEN -1 ELSE 0)
    OBVIOUS
  <2>4. w[q].suspends + k <= v[q].suspends /\ t0 + k = s[q]
    BY <1>a, <2>1, <2>2, <2>3
  <2>5. Fit(v, q, t0 + k, z0, c0, d0, a0)
    BY <1>0, <2>1, <2>4, SameFit
  <2> QED
    BY <2>1, <2>4, <2>5
<1>3. ASSUME NEW q \in Cells \ {Root} PROVE Settled(v, s, c, d, a, q)
  <2>1. /\ Settled(w, t, c, d, a, q) /\ d[q] \in Int /\ t[q] \in Int
        /\ w[q].life = "up" => Owed(w, t, q) \in Int /\ 0 <= Owed(w, t, q) /\ 0 <= d[q]
    BY Entry
  <2>2. v[q].life = w[q].life /\ Parent[q] \in Cells
    BY ParentCell DEF Same
  <2>3. v[Parent[q]].life = w[Parent[q]].life /\ v[Parent[q]].kids = w[Parent[q]].kids
    BY <2>2 DEF Same
  <2>4. t[Parent[q]] \in Int /\ (s[Parent[q]] = t[Parent[q]] \/ s[Parent[q]] = t[Parent[q]] - 1)
    BY <1>a, <2>2
  <2>5. ASSUME w[q].life = "up" PROVE Owed(v, s, q) <= d[q]
    <3>1. Owed(w, t, q) <= d[q] /\ 0 <= d[q]
      BY <2>1, <2>5 DEF Settled
    <3>2. CASE Parent[q] # Root /\ w[Parent[q]].life = "up" /\ q \in w[Parent[q]].kids.c
      <4>1. Owed(v, s, q) = s[Parent[q]] /\ Owed(w, t, q) = t[Parent[q]]
        BY <2>3, <3>2 DEF Owed
      <4> QED
        BY <2>1, <2>4, <3>1, <4>1
    <3>3. CASE ~(Parent[q] # Root /\ w[Parent[q]].life = "up" /\ q \in w[Parent[q]].kids.c)
      <4>1. Owed(v, s, q) = 0
        BY <2>3, <3>3 DEF Owed
      <4> QED
        BY <3>1, <4>1
    <3> QED
      BY <3>2, <3>3
  <2>6. w[q].life = "up" => 0 <= s[q]
    BY <1>a, <2>1 DEF Settled
  <2> QED
    BY <2>1, <2>2, <2>5, <2>6 DEF Settled
<1> QED
  BY <1>0, <1>1, <1>2, <1>3, <1>a DEF Ledger, s

\* The books after a report.
LEMMA ReportLedger ==
  ASSUME NEW w, NEW t, NEW z, NEW c, NEW d, NEW a, Ledger(w, t, z, c, d, a), NEW p \in Cells,
         w[p].life = "up", NEW v, v = ReportFailure(w, p)
  PROVE  Ledger(v, More(t, {p}, 1), More(z, {p}, 1), More(c, {p}, 1),
                More(d, w[p].kids.c, 1), More(a, {p}, 1))
<1> DEFINE tt == More(t, {p}, 1)
           zz == More(z, {p}, 1)
           cc == More(c, {p}, 1)
           dd == More(d, w[p].kids.c, 1)
           aa == More(a, {p}, 1)
<1>0. /\ w \in [Cells -> CellType] /\ t \in Books /\ z \in Books /\ c \in Books /\ d \in Books
      /\ a \in Books
  BY DEF Ledger
<1>a. /\ tt \in Books /\ zz \in Books /\ cc \in Books /\ dd \in Books /\ aa \in Books
      /\ \A q \in Cells : /\ tt[q] = t[q] + At(q, p) /\ zz[q] = z[q] + At(q, p)
                          /\ cc[q] = c[q] + At(q, p) /\ aa[q] = a[q] + At(q, p)
                          /\ dd[q] = d[q] + In(q, w[p].kids.c) /\ t[q] \in Int
  <2>1. \A x \in Int : x + 0 = x
    OBVIOUS
  <2>2. tt \in Books /\ \A q \in Cells : tt[q] = t[q] + At(q, p) /\ t[q] \in Int
    BY <1>0, <2>1, MoreIs DEF At
  <2>3. zz \in Books /\ \A q \in Cells : zz[q] = z[q] + At(q, p)
    BY <1>0, <2>1, MoreIs DEF At
  <2>4. cc \in Books /\ \A q \in Cells : cc[q] = c[q] + At(q, p)
    BY <1>0, <2>1, MoreIs DEF At
  <2>5. aa \in Books /\ \A q \in Cells : aa[q] = a[q] + At(q, p)
    BY <1>0, <2>1, MoreIs DEF At
  <2>6. dd \in Books /\ \A q \in Cells : dd[q] = d[q] + In(q, w[p].kids.c)
    BY <1>0, <2>1, MoreIs DEF In
  <2> QED
    BY <2>2, <2>3, <2>4, <2>5, <2>6
<1> HIDE DEF tt, zz, cc, dd, aa
<1>1. /\ v \in [Cells -> CellType]
      /\ \A q \in Cells : v[q].life = w[q].life /\ v[q].kids = w[q].kids
  BY <1>0, ReportTalk DEF Talk
<1>2. \A q \in Cells : Own(v, q)
  BY <1>0, ReportOwn DEF Ledger
<1>3. ASSUME NEW q \in Cells \ {Root} PROVE Fit(v, q, tt[q], zz[q], cc[q], dd[q], aa[q])
  <2>1. PICK t0 \in Int, z0 \in Int, c0 \in Int, d0 \in Int, a0 \in Int :
          /\ t0 = t[q] /\ z0 = z[q] /\ c0 = c[q] /\ d0 = d[q] /\ a0 = a[q]
          /\ Fit(w, q, t0, z0, c0, d0, a0)
          /\ w[q].life = "up" => 0 <= d0
          /\ w[q].life \in {"new", "up"} => 0 <= a0
    BY Entry DEF Settled
  <2>2. Fit(v, q, t0 + At(q, p), z0 + At(q, p), c0 + At(q, p), d0 + In(q, w[p].kids.c),
            a0 + At(q, p))
    BY <1>0, <2>1, ReportFit
  <2> QED
    BY <1>a, <2>1, <2>2
<1>4. ASSUME NEW q \in Cells \ {Root} PROVE Settled(v, tt, cc, dd, aa, q)
  <2>1. /\ Settled(w, t, c, d, a, q) /\ d[q] \in Int /\ t[q] \in Int /\ c[q] \in Int /\ a[q] \in Int
        /\ w[q].life = "up" => Owed(w, t, q) \in Int /\ 0 <= Owed(w, t, q) /\ 0 <= d[q]
    BY Entry
  <2>2. /\ v[q].life = w[q].life /\ Parent[q] \in Cells
        /\ v[Parent[q]].life = w[Parent[q]].life /\ v[Parent[q]].kids = w[Parent[q]].kids
    BY <1>1, ParentCell
  <2>3. At(q, p) \in {0, 1} /\ In(q, w[p].kids.c) \in {0, 1} /\ (q # p => At(q, p) = 0)
    BY Ticks DEF At
  <2>4. ASSUME w[q].life = "up" PROVE Owed(v, tt, q) <= dd[q]
    <3>1. Owed(w, t, q) <= d[q] /\ 0 <= d[q]
      BY <2>1, <2>4 DEF Settled
    <3>2. CASE Parent[q] # Root /\ w[Parent[q]].life = "up" /\ q \in w[Parent[q]].kids.c
      <4>1. /\ Owed(v, tt, q) = tt[Parent[q]] /\ Owed(w, t, q) = t[Parent[q]]
            /\ t[Parent[q]] \in Int
        BY <1>a, <2>2, <3>2 DEF Owed
      <4>2. CASE Parent[q] = p
        <5>1. tt[Parent[q]] = t[Parent[q]] + 1 /\ dd[q] = d[q] + 1
          BY <1>a, <2>2, <3>2, <4>2 DEF At, In
        <5> QED
          BY <2>1, <3>1, <4>1, <5>1
      <4>3. CASE Parent[q] # p
        <5>1. tt[Parent[q]] = t[Parent[q]] + 0 /\ dd[q] >= d[q]
          BY <1>a, <2>1, <2>2, <2>3, <4>3 DEF At
        <5>2. dd[q] \in Int
          BY <1>a DEF Books
        <5> QED
          BY <2>1, <3>1, <4>1, <5>1, <5>2
      <4> QED
        BY <4>2, <4>3
    <3>3. CASE ~(Parent[q] # Root /\ w[Parent[q]].life = "up" /\ q \in w[Parent[q]].kids.c)
      <4>1. Owed(v, tt, q) = 0
        BY <2>2, <3>3 DEF Owed
      <4> QED
        BY <1>a, <2>1, <2>3, <3>1, <4>1
    <3> QED
      BY <3>2, <3>3
  <2>5. w[q].life = "up" => 0 <= tt[q] /\ 0 <= cc[q]
    BY <1>a, <2>1, <2>3 DEF Settled
  <2>6. w[q].life \in {"new", "up"} => 0 <= aa[q]
    BY <1>a, <2>1, <2>3 DEF Settled
  <2>7. w[q].life = "new" => aa[q] = 0
    BY <1>a, <2>1, <2>3 DEF Settled
  <2> QED
    BY <2>2, <2>4, <2>5, <2>6, <2>7 DEF Settled
<1> QED
  BY <1>1, <1>2, <1>3, <1>4, <1>a DEF Ledger, tt, zz, cc, dd, aa

\* Whose failure is handled next.
Blamed(w, p) == {q \in Cells : Head(w[p].sys) = Blame(q)}

\* The books once the next message is taken.
LEMMA PopLedger ==
  ASSUME NEW w, NEW t, NEW z, NEW c, NEW d, NEW a, Ledger(w, t, z, c, d, a), NEW p \in Cells,
         w[p].sys # <<>>, NEW v, v = Took(w, p), NEW k \in Int, k = Wt(Head(w[p].sys))
  PROVE  Ledger(v, t, More(z, {p}, k), c, d, Less(a, Blamed(w, p)))
<1> DEFINE zz == More(z, {p}, k)
           aa == Less(a, Blamed(w, p))
<1>0. /\ w \in [Cells -> CellType] /\ t \in Books /\ z \in Books /\ c \in Books /\ d \in Books
      /\ a \in Books /\ Own(w, p)
  BY DEF Ledger
<1>1. zz \in Books /\ \A q \in Cells : zz[q] = IF q = p THEN z[q] + k ELSE z[q]
  <2>1. zz = More(z, {p}, k)
    OBVIOUS
  <2> HIDE DEF zz
  <2>2. zz \in Books /\ \A q \in Cells : /\ q \in {p} => zz[q] = z[q] + k
                                         /\ q \notin {p} => zz[q] = z[q]
    BY <1>0, <2>1, MoreIs
  <2> QED
    BY <2>2
<1>2. aa \in Books /\ \A q \in Cells : aa[q] = IF Head(w[p].sys) = Blame(q) THEN a[q] - 1 ELSE a[q]
  <2>1. aa = Less(a, Blamed(w, p))
    OBVIOUS
  <2> HIDE DEF aa
  <2>2. aa \in Books /\ \A q \in Cells : aa[q] = IF q \in Blamed(w, p) THEN a[q] - 1 ELSE a[q]
    BY <1>0, <2>1, LessIs
  <2> QED
    BY <2>2 DEF Blamed
<1> HIDE DEF zz, aa
<1>3. /\ v \in [Cells -> CellType]
      /\ \A q \in Cells : v[q].life = w[q].life /\ v[q].kids = w[q].kids
  BY <1>0, PopIs
<1>4. \A q \in Cells : Own(v, q)
  BY <1>0, PopOwn DEF Ledger
<1>5. ASSUME NEW q \in Cells \ {Root}
      PROVE  Fit(v, q, t[q], zz[q], c[q], d[q], aa[q]) /\ Settled(v, t, c, d, aa, q)
  <2>1. PICK t0 \in Int, z0 \in Int, c0 \in Int, d0 \in Int, a0 \in Int :
          /\ t0 = t[q] /\ z0 = z[q] /\ c0 = c[q] /\ d0 = d[q] /\ a0 = a[q]
          /\ Fit(w, q, t0, z0, c0, d0, a0) /\ Settled(w, t, c, d, a, q)
    BY Entry
  <2>2. PICK n \in Int, e \in Int : /\ n = (IF q = p THEN k ELSE 0)
                                    /\ e = (IF Head(w[p].sys) = Blame(q) THEN 1 ELSE 0)
    OBVIOUS
  <2>3. /\ n = (IF q = p THEN Wt(Head(w[p].sys)) ELSE 0)
        /\ e = (IF Head(w[p].sys) = Blame(q) THEN 1 ELSE 0)
    BY <2>2
  <2>a. Fit(w, q, t0, z0, c0, d0, a0)
    BY <2>1
  <2>4. /\ Fit(v, q, t0, z0 + n, c0, d0, a0 - e)
        /\ w[q].life \in {"new", "up"} /\ 0 <= a0 => 0 <= a0 - e
    BY <1>0, <2>3, <2>a, PopFit
  <2>5. zz[q] = z0 + n /\ aa[q] = a0 - e
    <3>1. zz[q] = (IF q = p THEN z0 + k ELSE z0)
          /\ aa[q] = (IF Head(w[p].sys) = Blame(q) THEN a0 - 1 ELSE a0)
      BY <1>1, <1>2, <2>1
    <3>2. zz[q] = z0 + n
      BY <2>2, <3>1
    <3>3. aa[q] = a0 - e
      BY <2>2, <3>1
    <3> QED
      BY <3>2, <3>3
  <2>6. Fit(v, q, t[q], zz[q], c[q], d[q], aa[q])
    BY <2>1, <2>4, <2>5
  <2>7. /\ w[q].life \in {"new", "up"} => 0 <= a0
        /\ w[q].life = "new" => a0 = 0
        /\ w[q].life = "up" => 0 <= t[q] /\ 0 <= c[q] /\ Owed(w, t, q) <= d[q]
    BY <2>1 DEF Settled
  <2>8. /\ w[q].life \in {"new", "up"} => 0 <= aa[q]
        /\ w[q].life = "new" => aa[q] = 0
    BY <2>2, <2>4, <2>5, <2>7
  <2>9. Owed(v, t, q) = Owed(w, t, q) /\ v[q].life = w[q].life
    BY <1>3, ParentCell DEF Owed
  <2> QED
    BY <2>6, <2>7, <2>8, <2>9 DEF Settled
<1> QED
  BY <1>0, <1>1, <1>2, <1>3, <1>4, <1>5 DEF Ledger, zz, aa

\* What a cell surely keeps can be lent to its queue.
LEMMA LendLedger ==
  ASSUME NEW w, NEW t, NEW z, NEW c, NEW d, NEW a, Ledger(w, t, z, c, d, a), NEW child \in Cells,
         child # Root /\ w[child].life = "up" => 1 <= c[child]
  PROVE  Ledger(w, t, z, Less(c, {child}), More(d, {child}, 1), a)
<1> DEFINE cc == Less(c, {child})
           dd == More(d, {child}, 1)
<1>0. /\ w \in [Cells -> CellType] /\ t \in Books /\ z \in Books /\ c \in Books /\ d \in Books
      /\ a \in Books
  BY DEF Ledger
<1>1. cc \in Books /\ \A q \in Cells : cc[q] = c[q] - At(q, child) /\ c[q] \in Int
  <2>1. cc = Less(c, {child}) /\ \A x \in Int : x - 0 = x
    OBVIOUS
  <2> HIDE DEF cc
  <2>2. cc \in Books /\ \A q \in Cells : cc[q] = (IF q \in {child} THEN c[q] - 1 ELSE c[q]) /\ c[q] \in Int
    BY <1>0, <2>1, LessIs
  <2> QED
    BY <2>1, <2>2 DEF At
<1>2. dd \in Books /\ \A q \in Cells : dd[q] = d[q] + At(q, child) /\ d[q] \in Int
  <2>1. dd = More(d, {child}, 1) /\ \A x \in Int : x + 0 = x
    OBVIOUS
  <2> HIDE DEF dd
  <2>2. dd \in Books /\ \A q \in Cells : /\ d[q] \in Int /\ (q \in {child} => dd[q] = d[q] + 1)
                                         /\ (q \notin {child} => dd[q] = d[q])
    BY <1>0, <2>1, MoreIs
  <2> QED
    BY <2>1, <2>2 DEF At
<1> HIDE DEF cc, dd
<1>3. ASSUME NEW q \in Cells \ {Root}
      PROVE  Fit(w, q, t[q], z[q], cc[q], dd[q], a[q]) /\ Settled(w, t, cc, dd, a, q)
  <2>1. PICK t0 \in Int, z0 \in Int, c0 \in Int, d0 \in Int, a0 \in Int :
          /\ t0 = t[q] /\ z0 = z[q] /\ c0 = c[q] /\ d0 = d[q] /\ a0 = a[q]
          /\ Fit(w, q, t0, z0, c0, d0, a0) /\ Settled(w, t, c, d, a, q)
          /\ w[q].life = "up" => Owed(w, t, q) \in Int
    BY Entry
  <2>2. PICK c1 \in Int, d1 \in Int, e \in {0, 1} :
          c1 = cc[q] /\ d1 = dd[q] /\ e = At(q, child) /\ c1 = c0 - e /\ d1 = d0 + e
    BY <1>1, <1>2, <2>1, Ticks DEF Books
  <2>3. t0 <= t0 /\ z0 <= z0 /\ c1 <= c0 /\ c1 + d1 <= c0 + d0 /\ a0 <= a0
    BY <2>2
  <2>4. Fit(w, q, t0, z0, c1, d1, a0)
    BY <1>0, <2>1, <2>3, FitLoose
  <2>5. w[q].life = "up" => 0 <= c1
    <3>1. w[q].life = "up" => 0 <= c0 /\ (q = child => 1 <= c0)
      BY <2>1 DEF Settled
    <3> QED
      BY <2>2, <3>1 DEF At
  <2>6. w[q].life = "up" => Owed(w, t, q) <= d1
    <3>1. w[q].life = "up" => Owed(w, t, q) <= d0
      BY <2>1 DEF Settled
    <3> QED
      BY <2>1, <2>2, <3>1
  <2> QED
    BY <2>1, <2>2, <2>4, <2>5, <2>6 DEF Settled
<1> QED
  BY <1>0, <1>1, <1>2, <1>3 DEF Ledger, cc, dd

\* Suspensions change, and then a message of supervision is sent.
LEMMA TurnFit ==
  ASSUME NEW w \in [Cells -> CellType], NEW h, Same(w, h), NEW S,
         NEW type \in {"Stop", "Create", "Recreate", "Suspend", "Resume"},
         NEW v, v = SendAll(h, S, type), NEW q \in Cells \ {Root},
         NEW t \in Int, NEW z \in Int, NEW c \in Int, NEW d \in Int, NEW a \in Int,
         Fit(w, q, t, z, c, d, a), NEW n \in Int, w[q].suspends + n <= h[q].suspends, NEW e \in Int,
         e = (IF q \in S THEN Wt([type |-> type]) ELSE 0), w[q].life = "up" => 0 <= d + e
  PROVE  Fit(v, q, t + n, z, c, d + e, a)
<1>1. h \in [Cells -> CellType] /\ h[q].life = w[q].life /\ t + n \in Int
  BY DEF Same
<1>2. PICK x \in Int : x = t + n
  BY <1>1
<1>3. Fit(h, q, x, z, c, d, a)
  BY <1>2, SameFit
<1>4. h[q].life = "up" => 0 <= d + e
  BY <1>1
<1>5. Fit(v, q, x, z, c, d + e, a)
  BY <1>1, <1>3, <1>4, SendAllFit
<1> QED
  BY <1>2, <1>5

\* So it is when children are suspended.
LEMMA QuietFit ==
  ASSUME NEW w \in [Cells -> CellType], NEW h, Same(w, h), NEW S,
         NEW v, v = SendAll(h, S, "Suspend"), NEW q \in Cells \ {Root},
         NEW t \in Int, NEW z \in Int, NEW c \in Int, NEW d \in Int, NEW a \in Int,
         Fit(w, q, t, z, c, d, a), NEW n \in Int, w[q].suspends + n <= h[q].suspends, NEW e \in Int,
         e = In(q, S), w[q].life = "up" => 0 <= d + e
  PROVE  Fit(v, q, t + n, z, c, d + e, a)
<1>1. e = (IF q \in S THEN Wt([type |-> "Suspend"]) ELSE 0)
  BY DEF In, Wt
<1> QED
  BY <1>1, TurnFit

\* And then resumes are sent.
LEMMA RouseFit ==
  ASSUME NEW w \in [Cells -> CellType], NEW h, Same(w, h), NEW S,
         NEW v, v = SendAll(h, S, "Resume"), NEW q \in Cells \ {Root},
         NEW t \in Int, NEW z \in Int, NEW c \in Int, NEW d \in Int, NEW a \in Int,
         Fit(w, q, t, z, c, d, a), NEW n \in Int, w[q].suspends + n <= h[q].suspends, NEW e \in Int,
         e = (IF q \in S THEN -1 ELSE 0), w[q].life = "up" => 0 <= d + e
  PROVE  Fit(v, q, t + n, z, c, d + e, a)
<1>1. e = (IF q \in S THEN Wt([type |-> "Resume"]) ELSE 0)
  BY DEF Wt
<1> QED
  BY <1>1, TurnFit

\* A cell is suspended or resumed, and its children with it.
LEMMA TurnLedger ==
  ASSUME NEW w, NEW t, NEW z, NEW c, NEW d, NEW a, Ledger(w, t, z, c, d, a), NEW p \in Cells,
         w[p].life = "up", NEW type \in {"Suspend", "Resume"}, NEW k \in Int,
         k = Wt([type |-> type]), type = "Resume" => p # Root /\ 1 <= t[p],
         NEW h, Same(w, h),
         \A q \in Cells : h[q].suspends >= IF q = p THEN w[q].suspends + k ELSE w[q].suspends,
         NEW S, S = w[p].kids.c, NEW v, v = SendAll(h, S, type)
  PROVE  Ledger(v, More(t, {p}, k), z, c, More(d, S, k), a)
<1> DEFINE tt == More(t, {p}, k)
           dd == More(d, S, k)
<1>0. /\ w \in [Cells -> CellType] /\ t \in Books /\ z \in Books /\ c \in Books /\ d \in Books
      /\ a \in Books /\ Own(w, p) /\ h \in [Cells -> CellType] /\ k \in Int
  BY DEF Ledger, Same
<1>a. (type = "Resume" <=> k = -1) /\ (k = -1 \/ k = 1)
  BY DEF Wt
<1>1. tt \in Books /\ \A q \in Cells : tt[q] = (IF q = p THEN t[q] + k ELSE t[q]) /\ t[q] \in Int
  <2>1. tt = More(t, {p}, k)
    OBVIOUS
  <2> HIDE DEF tt
  <2>2. tt \in Books /\ \A q \in Cells : /\ q \in {p} => tt[q] = t[q] + k
                                         /\ q \notin {p} => tt[q] = t[q]
                                         /\ t[q] \in Int
    BY <1>0, <2>1, MoreIs
  <2> QED
    BY <2>2
<1>2. dd \in Books /\ \A q \in Cells : dd[q] = (IF q \in S THEN d[q] + k ELSE d[q]) /\ d[q] \in Int
  <2>1. dd = More(d, S, k)
    OBVIOUS
  <2> HIDE DEF dd
  <2>2. dd \in Books /\ \A q \in Cells : /\ q \in S => dd[q] = d[q] + k
                                         /\ q \notin S => dd[q] = d[q]
                                         /\ d[q] \in Int
    BY <1>0, <2>1, MoreIs
  <2> QED
    BY <2>2
<1> HIDE DEF tt, dd
<1>3. /\ v \in [Cells -> CellType]
      /\ \A q \in Cells : v[q].life = w[q].life /\ v[q].kids = w[q].kids
  BY <1>0, SendAllIs DEF Same
<1>4. ASSUME NEW q \in Cells PROVE Own(v, q)
  <2>1. Own(h, q)
    BY SameOwn DEF Ledger
  <2>2. Root \notin S
    BY <1>0 DEF Own, ChildrenOf
  <2> QED
    BY <1>0, <2>1, <2>2, SendAllOwn
<1>5. ASSUME NEW q \in Cells \ {Root}
      PROVE  Fit(v, q, tt[q], z[q], c[q], dd[q], a[q]) /\ Settled(v, tt, c, dd, a, q)
  <2>b. /\ t[q] \in Int /\ z[q] \in Int /\ c[q] \in Int /\ d[q] \in Int /\ a[q] \in Int
        /\ Fit(w, q, t[q], z[q], c[q], d[q], a[q]) /\ Settled(w, t, c, d, a, q)
        /\ w[q].life = "up" => Owed(w, t, q) \in Int /\ 0 <= Owed(w, t, q) /\ 0 <= d[q]
    BY Entry
  <2>1. PICK t0 \in Int, z0 \in Int, c0 \in Int, d0 \in Int, a0 \in Int :
          /\ t0 = t[q] /\ z0 = z[q] /\ c0 = c[q] /\ d0 = d[q] /\ a0 = a[q]
          /\ Fit(w, q, t0, z0, c0, d0, a0) /\ Settled(w, t, c, d, a, q)
          /\ w[q].life = "up" => Owed(w, t, q) \in Int /\ 0 <= Owed(w, t, q) /\ 0 <= d0
    BY <2>b
  <2>a. (IF q = p THEN k ELSE 0) \in Int /\ (IF q \in S THEN k ELSE 0) \in Int
    BY <1>0
  <2>2. PICK n \in Int, e \in Int : /\ n = (IF q = p THEN k ELSE 0)
                                    /\ e = (IF q \in S THEN k ELSE 0)
    BY <2>a
  <2>3. tt[q] = t0 + n /\ dd[q] = d0 + e
    <3>1. tt[q] = (IF q = p THEN t0 + k ELSE t0) /\ dd[q] = (IF q \in S THEN d0 + k ELSE d0)
      BY <1>1, <1>2, <2>1
    <3>2. tt[q] = t0 + n
      BY <2>2, <3>1
    <3>3. dd[q] = d0 + e
      <4> QED
        BY <2>2, <3>1
    <3> QED
      BY <3>2, <3>3
  <2>4. /\ v[q].life = w[q].life /\ v[Parent[q]].life = w[Parent[q]].life
        /\ v[Parent[q]].kids = w[Parent[q]].kids /\ Parent[q] \in Cells /\ h[q].life = w[q].life
    BY <1>3, ParentCell DEF Same
  <2>5. q \in S => Parent[q] = p
    BY <1>0 DEF Own, ChildrenOf
  <2>6. ASSUME w[q].life = "up" PROVE 0 <= d0 + e /\ Owed(v, tt, q) <= d0 + e
    <3>0. Owed(w, t, q) <= d0 /\ 0 <= d0
      BY <2>1, <2>6 DEF Settled
    <3>1. CASE q \in S /\ p # Root
      <4>1. Owed(w, t, q) = t[p] /\ Owed(v, tt, q) = tt[p] /\ t[p] \in Int /\ tt[p] = t[p] + k
        BY <1>1, <2>4, <2>5, <3>1 DEF Owed
      <4>2. k = 1 \/ (k = -1 /\ 1 <= t[p])
        BY <1>a
      <4> QED
        BY <2>2, <3>0, <3>1, <4>1, <4>2
    <3>2. CASE q \in S /\ p = Root
      <4>1. Owed(v, tt, q) = 0
        BY <2>5, <3>2 DEF Owed
      <4>2. k = 1 /\ e = 1
        BY <1>a, <2>2, <3>2
      <4> QED
        BY <3>0, <4>1, <4>2
    <3>3. CASE q \notin S
      <4>1. e = 0
        BY <2>2, <3>3
      <4>2. CASE Parent[q] = p
        <5>1. Owed(v, tt, q) = 0
          BY <2>4, <3>3, <4>2 DEF Owed
        <5> QED
          BY <3>0, <4>1, <5>1
      <4>3. CASE Parent[q] # p
        <5>1. Owed(v, tt, q) = Owed(w, t, q)
          BY <1>1, <2>4, <4>3 DEF Owed
        <5> QED
          BY <2>1, <2>6, <3>0, <4>1, <5>1
      <4> QED
        BY <4>2, <4>3
    <3> QED
      BY <3>1, <3>2, <3>3
  <2>7. w[q].suspends + n <= h[q].suspends
    <3>1. w[q].suspends \in Nat /\ h[q].suspends \in Nat
      BY <1>0, CellFields
    <3> QED
      BY <2>2, <3>1
  <2>9. Fit(v, q, tt[q], z[q], c[q], dd[q], a[q])
    <3>1. e = (IF q \in S THEN Wt([type |-> type]) ELSE 0)
      BY <2>2
    <3>2. w[q].life = "up" => 0 <= d0 + e
      BY <2>6
    <3>3. type \in {"Stop", "Create", "Recreate", "Suspend", "Resume"} /\ v = SendAll(h, S, type)
      OBVIOUS
    <3>4. Fit(w, q, t0, z0, c0, d0, a0)
      BY <2>1
    <3>5. Fit(v, q, t0 + n, z0, c0, d0 + e, a0)
      <4>1. CASE type = "Suspend"
        <5>1. v = SendAll(h, S, "Suspend")
          BY <3>3, <4>1
        <5>2. Wt([type |-> type]) = 1
          BY <4>1 DEF Wt
        <5>3. e = In(q, S)
          BY <3>1, <5>2 DEF In
        <5> QED
          BY <1>0, <2>7, <3>2, <3>4, <5>1, <5>3, QuietFit
      <4>2. CASE type = "Resume"
        <5>1. v = SendAll(h, S, "Resume")
          BY <3>3, <4>2
        <5>2. Wt([type |-> type]) = -1
          BY <4>2 DEF Wt
        <5>3. e = (IF q \in S THEN -1 ELSE 0)
          BY <3>1, <5>2
        <5> QED
          BY <1>0, <2>7, <3>2, <3>4, <5>1, <5>3, RouseFit
      <4> QED
        BY <4>1, <4>2
    <3> QED
      BY <2>1, <2>3, <3>5
  <2>10. w[q].life = "up" => 0 <= tt[q]
    <3>1. w[q].life = "up" => 0 <= t0
      BY <2>1 DEF Settled
    <3>2. q = p /\ k = -1 => 1 <= t0
      BY <1>a, <2>1
    <3> QED
      BY <1>a, <2>2, <2>3, <3>1, <3>2
  <2> QED
    BY <2>1, <2>3, <2>4, <2>6, <2>9, <2>10 DEF Settled
<1> QED
  BY <1>0, <1>1, <1>2, <1>3, <1>4, <1>5 DEF Ledger, tt, dd

\* A child is resumed by its supervisor.
LEMMA ForgiveLedger ==
  ASSUME NEW w, NEW t, NEW z, NEW c, NEW d, NEW a, Ledger(w, t, z, c, d, a), NEW child \in Cells,
         child # Root, w[child].life = "up" => 1 <= c[child],
         NEW v, v = SendAll(w, {child}, "Resume")
  PROVE  Ledger(v, t, z, Less(c, {child}), d, a)
<1> DEFINE cc == Less(c, {child})
           dd == More(d, {child}, 1)
<1>a. d \in Books
  BY DEF Ledger
<1>1. Ledger(w, t, z, cc, dd, a) /\ d \in Books
  BY <1>a, LendLedger
<1>2. dd = More(d, {child}, 1) /\ \A x \in Int : x + 0 = x
  OBVIOUS
<1> HIDE DEF cc, dd
<1>3. dd \in Books /\ \A q \in Cells : /\ d[q] \in Int /\ (q \in {child} => dd[q] = d[q] + 1)
                                       /\ (q \notin {child} => dd[q] = d[q])
  BY <1>1, <1>2, MoreIs
<1>0. /\ w \in [Cells -> CellType] /\ t \in Books /\ z \in Books /\ cc \in Books /\ a \in Books
  BY <1>1 DEF Ledger
<1>4. /\ v \in [Cells -> CellType]
      /\ \A q \in Cells : v[q].life = w[q].life /\ v[q].kids = w[q].kids
  BY <1>0, SendAllIs
<1>5. \A q \in Cells : Own(v, q)
  BY <1>0, SendAllOwn DEF Ledger
<1>6. ASSUME NEW q \in Cells \ {Root}
      PROVE  Fit(v, q, t[q], z[q], cc[q], d[q], a[q]) /\ Settled(v, t, cc, d, a, q)
  <2>1. PICK t0 \in Int, z0 \in Int, c0 \in Int, d0 \in Int, a0 \in Int :
          /\ t0 = t[q] /\ z0 = z[q] /\ c0 = cc[q] /\ d0 = dd[q] /\ a0 = a[q]
          /\ Fit(w, q, t0, z0, c0, d0, a0) /\ Settled(w, t, cc, dd, a, q)
    BY <1>1, Entry
  <2>2. PICK e \in Int : e = (IF q = child THEN -1 ELSE 0)
    OBVIOUS
  <2>3. d[q] = d0 + e
    BY <1>3, <2>1, <2>2
  <2>4. /\ Settled(w, t, c, d, a, q) /\ (w[q].life = "up" => 0 <= d[q]) /\ d[q] \in Int
    BY Entry
  <2>5. Owed(v, t, q) = Owed(w, t, q) /\ v[q].life = w[q].life
    BY <1>4, ParentCell DEF Owed
  <2>6. e = (IF q \in {child} THEN Wt([type |-> "Resume"]) ELSE 0)
    BY <2>2 DEF Wt
  <2>7. w[q].life = "up" => 0 <= d0 + e
    BY <2>3, <2>4
  <2>8. Fit(v, q, t0, z0, c0, d0 + e, a0)
    BY <1>0, <2>1, <2>6, <2>7, SendAllFit
  <2> QED
    BY <2>1, <2>3, <2>4, <2>5, <2>8 DEF Settled
<1> QED
  BY <1>0, <1>1, <1>4, <1>5, <1>6 DEF Ledger, cc

\* What is added to the books.
LEMMA MoreIn ==
  ASSUME NEW f \in Books, NEW S
  PROVE  More(f, S, 1) \in Books /\ \A q \in Cells : f[q] \in Int /\ More(f, S, 1)[q] = f[q] + In(q, S)
<1>1. PICK g : g = More(f, S, 1)
  OBVIOUS
<1>2. g \in Books /\ \A q \in Cells : /\ f[q] \in Int
                                      /\ q \in S => g[q] = f[q] + 1
                                      /\ q \notin S => g[q] = f[q]
  BY <1>1, MoreIs
<1>3. \A x \in Int : x + 0 = x
  OBVIOUS
<1>4. \A q \in Cells : g[q] = f[q] + In(q, S)
  BY <1>2, <1>3 DEF In
<1> QED
  BY <1>1, <1>2, <1>4

\* The books once the affected children are told to restart.
LEMMA RestartLedger ==
  ASSUME NEW w, NEW t, NEW z, NEW c, NEW d, NEW a, Ledger(w, t, z, c, d, a), NEW child \in Cells,
         NEW affected, child \in affected, child # Root, w[child].life = "up" => 1 <= c[child],
         NEW siblings, siblings = {r \in affected \ {child} : Registered(w, r)},
         NEW nephews, nephews = UNION {w[r].kids.c : r \in siblings},
         NEW v, v = RestartTold(w, child, affected)
  PROVE  Ledger(v, More(t, siblings, 1), More(z, siblings, 1), Less(c, {child}),
                More(d, nephews, 1), a)
<1> DEFINE tt == More(t, siblings, 1)
           zz == More(z, siblings, 1)
           cc == Less(c, {child})
           lent == More(d, {child}, 1)
           dd == More(d, nephews, 1)
<1>0. /\ w \in [Cells -> CellType] /\ t \in Books /\ z \in Books /\ c \in Books /\ d \in Books
      /\ a \in Books
  BY DEF Ledger
<1>1. /\ tt \in Books /\ zz \in Books /\ dd \in Books
      /\ \A q \in Cells : tt[q] = t[q] + In(q, siblings) /\ t[q] \in Int
      /\ \A q \in Cells : zz[q] = z[q] + In(q, siblings)
      /\ \A q \in Cells : dd[q] = d[q] + In(q, nephews)
      /\ \A q \in Cells : lent[q] = d[q] + In(q, {child})
  BY <1>0, MoreIn
<1>2. Ledger(w, t, z, cc, lent, a)
  BY LendLedger
<1> HIDE DEF tt, zz, cc, lent, dd
<1>a. cc \in Books
  BY <1>2 DEF Ledger
<1>3. \A q \in Cells : /\ Own(v, q) /\ v \in [Cells -> CellType]
                       /\ v[q].life = w[q].life /\ v[q].kids = w[q].kids
  BY <1>0, RestartOwn DEF Ledger
<1>4. ASSUME NEW q \in Cells \ {Root}
      PROVE  Fit(v, q, tt[q], zz[q], cc[q], dd[q], a[q]) /\ Settled(v, tt, cc, dd, a, q)
  <2>0. /\ t[q] \in Int /\ z[q] \in Int /\ cc[q] \in Int /\ lent[q] \in Int /\ a[q] \in Int
        /\ Fit(w, q, t[q], z[q], cc[q], lent[q], a[q]) /\ Settled(w, t, cc, lent, a, q)
    BY <1>2, Entry
  <2>1. PICK t0 \in Int, z0 \in Int, c0 \in Int, l0 \in Int, a0 \in Int :
          /\ t0 = t[q] /\ z0 = z[q] /\ c0 = cc[q] /\ l0 = lent[q] /\ a0 = a[q]
          /\ Fit(w, q, t0, z0, c0, l0, a0) /\ Settled(w, t, cc, lent, a, q)
    BY <2>0
  <2>2. /\ Settled(w, t, c, d, a, q) /\ d[q] \in Int
        /\ w[q].life = "up" => Owed(w, t, q) \in Int /\ 0 <= Owed(w, t, q) /\ 0 <= d[q]
    BY Entry
  <2>3. PICK d0 \in Int, e \in {0, 1}, n \in {0, 1} :
          d0 = d[q] /\ e = In(q, siblings) /\ n = In(q, nephews)
    BY <2>2, Ticks
  <2>4. l0 - At(q, child) = d0 /\ At(q, child) \in {0, 1}
    <3>1. l0 = d0 + In(q, {child})
      BY <1>1, <2>1, <2>3
    <3>2. In(q, {child}) = At(q, child) /\ At(q, child) \in {0, 1}
      BY Ticks DEF In, At
    <3>3. PICK x \in {0, 1} : x = At(q, child)
      BY <3>2
    <3>4. l0 - x = d0
      BY <3>1, <3>2, <3>3
    <3> QED
      BY <3>2, <3>3, <3>4
  <2>a. d0 + n \in Int
    BY <2>3
  <2>5. PICK f \in Int : f = d0 + n
    BY <2>a
  <2>6. (w[q].life = "up" => 0 <= l0 - At(q, child)) /\ f = l0 - At(q, child) + n
    BY <2>2, <2>3, <2>4, <2>5
  <2>7. n = In(q, UNION {w[r].kids.c : r \in siblings}) /\ e \in Int /\ n \in Int
    BY <2>3
  <2>8. Fit(w, q, t0, z0, c0, l0, a0)
    BY <2>1
  <2>9. Fit(v, q, t0 + e, z0 + e, c0, f, a0)
    BY <1>0, <2>3, <2>6, <2>7, <2>8, RestartFit
  <2>10. tt[q] = t0 + e /\ zz[q] = z0 + e /\ dd[q] = f
    BY <1>1, <2>1, <2>3, <2>5
  <2>11. Fit(v, q, tt[q], zz[q], cc[q], dd[q], a[q])
    BY <2>1, <2>9, <2>10
  <2>12. /\ v[q].life = w[q].life /\ Parent[q] \in Cells
         /\ v[Parent[q]].life = w[Parent[q]].life /\ v[Parent[q]].kids = w[Parent[q]].kids
    BY <1>3, ParentCell
  <2>13. ASSUME w[q].life = "up" PROVE 0 <= tt[q] /\ Owed(v, tt, q) <= dd[q]
    <3>0. Owed(w, t, q) <= d0 /\ 0 <= d0 /\ 0 <= t0
      BY <2>1, <2>2, <2>3, <2>13 DEF Settled
    <3>1. 0 <= tt[q]
      BY <2>3, <2>10, <3>0
    <3>2. CASE Parent[q] # Root /\ w[Parent[q]].life = "up" /\ q \in w[Parent[q]].kids.c
      <4>1. PICK g \in Int, m \in {0, 1} : g = t[Parent[q]] /\ m = In(Parent[q], siblings)
        BY <1>1, <2>12, Ticks
      <4>2. Owed(v, tt, q) = g + m /\ Owed(w, t, q) = g
        BY <1>1, <2>12, <3>2, <4>1 DEF Owed
      <4>3. m = 1 => n = 1
        <5>1. Parent[q] \in siblings => q \in nephews
          BY <3>2
        <5> QED
          BY <2>3, <4>1, <5>1 DEF In
      <4> QED
        BY <2>3, <2>5, <2>10, <3>0, <3>1, <4>1, <4>2, <4>3
    <3>3. CASE ~(Parent[q] # Root /\ w[Parent[q]].life = "up" /\ q \in w[Parent[q]].kids.c)
      <4>1. Owed(v, tt, q) = 0
        BY <2>12, <3>3 DEF Owed
      <4> QED
        BY <2>3, <2>5, <2>10, <3>0, <3>1, <4>1
    <3> QED
      BY <3>2, <3>3
  <2> QED
    BY <2>1, <2>11, <2>12, <2>13 DEF Settled
<1>5. v \in [Cells -> CellType]
  BY <1>3
<1> QED
  BY <1>0, <1>1, <1>3, <1>4, <1>5, <1>a DEF Ledger, tt, zz, cc, dd

-----------------------------------------------------------------------------
(* Who has a suspension to spare                                           *)

\* What is k for p alone.
Due(q, p, k) == IF q = p THEN k ELSE 0

\* Every cell has the suspensions its queue and its restart use, p has k of them
\* to spare, and each failure not handled has one of its own, as have the cells
\* of S.
Even(w, t, z, c, a, p, k, S) ==
  \A q \in Cells \ {Root} : w[q].life = "up" =>
    z[q] + Rec(w[q].kids) + Due(q, p, k) <= t[q] /\ a[q] + In(q, S) <= c[q]

\* There are such books.
Spare(w, p, k, S) ==
  \E t, z, c, d, a \in Books : Ledger(w, t, z, c, d, a) /\ Even(w, t, z, c, a, p, k, S)

\* Nobody owes anything.
Held(w) == Spare(w, Root, 0, {})

\* The numbers in it.
LEMMA DueIs ==
  ASSUME NEW q, NEW p, NEW k \in Int, NEW S, NEW w \in [Cells -> CellType]
  PROVE  Due(q, p, k) \in Int /\ In(q, S) \in {0, 1} /\ Rec(w[q].kids) \in {0, 1}
  BY DEF Due, In, Rec

\* What is spare need not be used.
LEMMA SpareLess ==
  ASSUME NEW w, NEW p, NEW k \in Int, NEW S, Spare(w, p, k, S), NEW r, NEW j \in Int, NEW T,
         T \subseteq S, \A q \in Cells : Due(q, r, j) <= Due(q, p, k)
  PROVE  Spare(w, r, j, T)
<1>1. PICK t \in Books, z \in Books, c \in Books, d \in Books, a \in Books :
        Ledger(w, t, z, c, d, a) /\ Even(w, t, z, c, a, p, k, S)
  BY DEF Spare
<1>2. Even(w, t, z, c, a, r, j, T)
  <2> SUFFICES ASSUME NEW q \in Cells \ {Root}, w[q].life = "up"
               PROVE  z[q] + Rec(w[q].kids) + Due(q, r, j) <= t[q] /\ a[q] + In(q, T) <= c[q]
    BY DEF Even
  <2>1. PICK t0 \in Int, z0 \in Int, c0 \in Int, a0 \in Int :
          t0 = t[q] /\ z0 = z[q] /\ c0 = c[q] /\ a0 = a[q]
    BY DEF Books
  <2>2. PICK n \in Int, e \in Int, f \in Int, x \in Int, y \in Int :
          /\ n = Rec(w[q].kids) /\ e = Due(q, p, k) /\ f = Due(q, r, j) /\ x = In(q, S)
          /\ y = In(q, T)
    BY DEF Due, In, Rec
  <2>3. z0 + n + e <= t0 /\ a0 + x <= c0
    BY <1>1, <2>1, <2>2 DEF Even
  <2>4. f <= e /\ y <= x
    BY <2>2 DEF In
  <2>5. z0 + n + f <= t0 /\ a0 + y <= c0
    BY <2>3, <2>4
  <2> QED
    BY <2>1, <2>2, <2>5
<1> QED
  BY <1>1, <1>2 DEF Spare

\* What is spare covers the rest.
LEMMA SpareHeld ==
  ASSUME NEW w, NEW p, NEW k \in Int, 0 <= k, NEW S, Spare(w, p, k, S)
  PROVE  Held(w)
<1>1. \A q \in Cells : Due(q, Root, 0) <= Due(q, p, k)
  BY DEF Due
<1> QED
  BY <1>1, SpareLess DEF Held

\* Calm steps need nothing, but for a restart that begins to wait.
LEMMA SpareCalm ==
  ASSUME NEW w, NEW p, NEW k \in Int, NEW S, Spare(w, p, k, S), NEW v, Calm(w, v), NEW j \in Int,
         \A q \in Cells \ {Root} : v[q].life = "up" =>
           Rec(v[q].kids) + Due(q, p, j) <= Rec(w[q].kids) + Due(q, p, k)
  PROVE  Spare(v, p, j, S)
<1>1. PICK t \in Books, z \in Books, c \in Books, d \in Books, a \in Books :
        Ledger(w, t, z, c, d, a) /\ Even(w, t, z, c, a, p, k, S)
  BY DEF Spare
<1>2. Ledger(v, t, z, c, d, a)
  BY <1>1, CalmLedger
<1>3. Even(v, t, z, c, a, p, j, S)
  <2> SUFFICES ASSUME NEW q \in Cells \ {Root}, v[q].life = "up"
               PROVE  z[q] + Rec(v[q].kids) + Due(q, p, j) <= t[q] /\ a[q] + In(q, S) <= c[q]
    BY DEF Even
  <2>0. w[q].life = "up"
    BY DEF Calm
  <2>1. PICK t0 \in Int, z0 \in Int : t0 = t[q] /\ z0 = z[q]
    BY DEF Books
  <2>2. PICK n \in Int, m \in Int, e \in Int, f \in Int :
          /\ n = Rec(w[q].kids) /\ m = Rec(v[q].kids) /\ e = Due(q, p, k) /\ f = Due(q, p, j)
    BY DEF Due, Rec
  <2>3. z0 + n + e <= t0 /\ a[q] + In(q, S) <= c[q]
    BY <1>1, <2>0, <2>1, <2>2 DEF Even
  <2>4. m + f <= n + e
    BY <2>2
  <2>5. z0 + m + f <= t0
    BY <2>3, <2>4
  <2> QED
    BY <2>1, <2>2, <2>3, <2>5
<1> QED
  BY <1>1, <1>2, <1>3 DEF Spare

\* A report brings the suspension it needs.
LEMMA SpareReport ==
  ASSUME NEW w, NEW p, NEW k \in Int, NEW S, Spare(w, p, k, S), NEW r \in Cells, w[r].life = "up",
         NEW v, v = ReportFailure(w, r)
  PROVE  Spare(v, p, k, S)
<1>1. PICK t \in Books, z \in Books, c \in Books, d \in Books, a \in Books :
        Ledger(w, t, z, c, d, a) /\ Even(w, t, z, c, a, p, k, S)
  BY DEF Spare
<1>2. PICK tt, zz, cc, dd, aa :
        /\ tt = More(t, {r}, 1) /\ zz = More(z, {r}, 1) /\ cc = More(c, {r}, 1)
        /\ dd = More(d, w[r].kids.c, 1) /\ aa = More(a, {r}, 1)
  OBVIOUS
<1>3. Ledger(v, tt, zz, cc, dd, aa)
  BY <1>1, <1>2, ReportLedger
<1>4. \A q \in Cells : /\ tt[q] = t[q] + In(q, {r}) /\ zz[q] = z[q] + In(q, {r})
                       /\ cc[q] = c[q] + In(q, {r}) /\ aa[q] = a[q] + In(q, {r})
  BY <1>1, <1>2, MoreIn
<1>5. \A q \in Cells : v[q].life = w[q].life /\ v[q].kids = w[q].kids
  <2>1. w \in [Cells -> CellType]
    BY <1>1 DEF Ledger
  <2> QED
    BY <2>1, ReportTalk DEF Talk
<1>6. Even(v, tt, zz, cc, aa, p, k, S)
  <2> SUFFICES ASSUME NEW q \in Cells \ {Root}, v[q].life = "up"
               PROVE  /\ zz[q] + Rec(v[q].kids) + Due(q, p, k) <= tt[q]
                      /\ aa[q] + In(q, S) <= cc[q]
    BY DEF Even
  <2>1. PICK t0 \in Int, z0 \in Int, c0 \in Int, a0 \in Int :
          t0 = t[q] /\ z0 = z[q] /\ c0 = c[q] /\ a0 = a[q]
    BY DEF Books
  <2>2. PICK n \in Int, e \in Int, x \in Int, y \in Int :
          n = Rec(w[q].kids) /\ e = Due(q, p, k) /\ x = In(q, S) /\ y = In(q, {r})
    BY DEF Due, In, Rec
  <2>3. z0 + n + e <= t0 /\ a0 + x <= c0
    BY <1>1, <1>5, <2>1, <2>2 DEF Even
  <2>4. (z0 + y) + n + e <= t0 + y /\ (a0 + y) + x <= c0 + y
    BY <2>3
  <2>5. tt[q] = t0 + y /\ zz[q] = z0 + y /\ cc[q] = c0 + y /\ aa[q] = a0 + y
    BY <1>4, <2>1, <2>2
  <2>6. Rec(v[q].kids) = n
    BY <1>5, <2>2
  <2> QED
    BY <2>2, <2>4, <2>5, <2>6
<1>7. tt \in Books /\ zz \in Books /\ cc \in Books /\ dd \in Books /\ aa \in Books
  BY <1>3 DEF Ledger
<1> QED
  BY <1>3, <1>6, <1>7 DEF Spare

\* What handling the next message frees or needs.
LEMMA SparePop ==
  ASSUME NEW w, Held(w), NEW p \in Cells, w[p].sys # <<>>, NEW v, v = Took(w, p), NEW k \in Int,
         k = Wt(Head(w[p].sys)), NEW j \in Int, j + k = 0
  PROVE  Spare(v, p, j, Blamed(w, p))
<1>1. PICK t \in Books, z \in Books, c \in Books, d \in Books, a \in Books :
        Ledger(w, t, z, c, d, a) /\ Even(w, t, z, c, a, Root, 0, {})
  BY DEF Held, Spare
<1>2. PICK zz, aa : zz = More(z, {p}, k) /\ aa = Less(a, Blamed(w, p))
  OBVIOUS
<1>3. Ledger(v, t, zz, c, d, aa)
  BY <1>1, <1>2, PopLedger
<1>4. /\ \A q \in Cells : z[q] \in Int /\ (q \in {p} => zz[q] = z[q] + k)
                          /\ (q \notin {p} => zz[q] = z[q])
      /\ \A q \in Cells : a[q] \in Int /\ aa[q] = IF q \in Blamed(w, p) THEN a[q] - 1 ELSE a[q]
  BY <1>1, <1>2, MoreIs, LessIs
<1>5. \A q \in Cells : v[q].life = w[q].life /\ v[q].kids = w[q].kids
  <2>1. w \in [Cells -> CellType]
    BY <1>1 DEF Ledger
  <2> QED
    BY <2>1, PopIs
<1>6. Even(v, t, zz, c, aa, p, j, Blamed(w, p))
  <2> SUFFICES ASSUME NEW q \in Cells \ {Root}, v[q].life = "up"
               PROVE  /\ zz[q] + Rec(v[q].kids) + Due(q, p, j) <= t[q]
                      /\ aa[q] + In(q, Blamed(w, p)) <= c[q]
    BY DEF Even
  <2>1. PICK t0 \in Int, z0 \in Int, c0 \in Int, a0 \in Int :
          t0 = t[q] /\ z0 = z[q] /\ c0 = c[q] /\ a0 = a[q]
    BY DEF Books
  <2>2. PICK n \in Int, e \in Int, x \in Int :
          n = Rec(w[q].kids) /\ e = Due(q, p, j) /\ x = In(q, Blamed(w, p))
    BY DEF Due, In, Rec
  <2>3. z0 + n <= t0 /\ a0 <= c0
    <3>1. z0 + n + Due(q, Root, 0) <= t0 /\ a0 + In(q, {}) <= c0
      BY <1>1, <1>5, <2>1, <2>2 DEF Even
    <3>2. Due(q, Root, 0) = 0 /\ In(q, {}) = 0
      BY DEF Due, In
    <3> QED
      BY <3>1, <3>2
  <2>4. zz[q] + n + e <= t0
    <3>1. CASE q = p
      <4>1. zz[q] = z0 + k /\ e = j
        BY <1>4, <2>1, <2>2, <3>1 DEF Due
      <4> QED
        BY <2>3, <4>1
    <3>2. CASE q # p
      <4>1. zz[q] = z0 /\ e = 0
        BY <1>4, <2>1, <2>2, <3>2 DEF Due
      <4> QED
        BY <2>3, <4>1
    <3> QED
      BY <3>1, <3>2
  <2>5. aa[q] + x <= c0
    <3>1. CASE q \in Blamed(w, p)
      <4>1. aa[q] = a0 - 1 /\ x = 1
        BY <1>4, <2>1, <2>2, <3>1 DEF In
      <4> QED
        BY <2>3, <4>1
    <3>2. CASE q \notin Blamed(w, p)
      <4>1. aa[q] = a0 /\ x = 0
        BY <1>4, <2>1, <2>2, <3>2 DEF In
      <4> QED
        BY <2>3, <4>1
    <3> QED
      BY <3>1, <3>2
  <2>6. Rec(v[q].kids) = n
    BY <1>5, <2>2
  <2> QED
    BY <2>1, <2>2, <2>4, <2>5, <2>6
<1>7. zz \in Books /\ aa \in Books
  BY <1>3 DEF Ledger
<1> QED
  BY <1>1, <1>3, <1>6, <1>7 DEF Spare

\* A suspension to spare is a suspension.
LEMMA SpareTop ==
  ASSUME NEW w, NEW t, NEW z, NEW c, NEW d, NEW a, Ledger(w, t, z, c, d, a), NEW p \in Cells,
         NEW S, Even(w, t, z, c, a, p, 1, S)
  PROVE  p # Root /\ w[p].life = "up" => 1 <= t[p]
<1> SUFFICES ASSUME p # Root, w[p].life = "up" PROVE 1 <= t[p]
  OBVIOUS
<1>1. PICK t0 \in Int, z0 \in Int, c0 \in Int :
        t0 = t[p] /\ z0 = z[p] /\ c0 = c[p] /\ c0 <= z0 /\ 0 <= c0
  BY Entry DEF Settled
<1>2. PICK n \in {0, 1} : n = Rec(w[p].kids) /\ Due(p, p, 1) = 1
  BY DEF Rec, Due
<1>3. z0 + n + 1 <= t0
  BY <1>1, <1>2 DEF Even
<1> QED
  BY <1>1, <1>3

\* It can be given back with a fresh actor.
LEMMA SpareDrop ==
  ASSUME NEW w, NEW p \in Cells, NEW S, Spare(w, p, 1, S), NEW v, Same(w, v),
         \A q \in Cells : v[q].suspends >= IF q = p THEN w[q].suspends - 1 ELSE w[q].suspends
  PROVE  Spare(v, p, 0, S)
<1>1. PICK t \in Books, z \in Books, c \in Books, d \in Books, a \in Books :
        Ledger(w, t, z, c, d, a) /\ Even(w, t, z, c, a, p, 1, S)
  BY DEF Spare
<1>2. p # Root /\ w[p].life = "up" => 1 <= t[p]
  BY <1>1, SpareTop
<1>3. PICK tt : tt = Less(t, {p})
  OBVIOUS
<1>4. Ledger(v, tt, z, c, d, a)
  BY <1>1, <1>2, <1>3, DropLedger
<1>5. tt \in Books /\ \A q \in Cells : tt[q] = IF q \in {p} THEN t[q] - 1 ELSE t[q]
  BY <1>1, <1>3, LessIs
<1>6. Even(v, tt, z, c, a, p, 0, S)
  <2> SUFFICES ASSUME NEW q \in Cells \ {Root}, v[q].life = "up"
               PROVE  z[q] + Rec(v[q].kids) + Due(q, p, 0) <= tt[q] /\ a[q] + In(q, S) <= c[q]
    BY DEF Even
  <2>0. w[q].life = "up" /\ Rec(v[q].kids) = Rec(w[q].kids)
    BY DEF Same
  <2>1. PICK t0 \in Int, z0 \in Int, n \in Int : t0 = t[q] /\ z0 = z[q] /\ n = Rec(w[q].kids)
    BY DEF Books, Rec
  <2>2. PICK e \in {0, 1} : e = Due(q, p, 1) /\ tt[q] = t0 - e /\ Due(q, p, 0) = 0
    <3>1. CASE q = p
      <4>1. Due(q, p, 1) = 1 /\ Due(q, p, 0) = 0 /\ tt[q] = t0 - 1
        BY <1>5, <2>1, <3>1 DEF Due
      <4> QED
        BY <4>1
    <3>2. CASE q # p
      <4>1. Due(q, p, 1) = 0 /\ Due(q, p, 0) = 0 /\ tt[q] = t0 /\ t0 = t0 - 0
        BY <1>5, <2>1, <3>2 DEF Due
      <4> QED
        BY <4>1
    <3> QED
      BY <3>1, <3>2
  <2>3. z0 + n + e <= t0 /\ a[q] + In(q, S) <= c[q]
    BY <1>1, <2>0, <2>1, <2>2 DEF Even
  <2>4. z0 + n + 0 <= t0 - e
    BY <2>3
  <2> QED
    BY <2>0, <2>1, <2>2, <2>3, <2>4
<1> QED
  BY <1>1, <1>4, <1>5, <1>6 DEF Spare

\* It can be given back with the children, and taken with them.
LEMMA SpareTurn ==
  ASSUME NEW w, NEW p \in Cells, w[p].life = "up", NEW type \in {"Suspend", "Resume"},
         NEW k \in Int, k = Wt([type |-> type]), type = "Resume" => p # Root,
         NEW j \in Int, j + k = 0, Spare(w, p, j, {}), NEW h, Same(w, h),
         \A q \in Cells : h[q].suspends >= IF q = p THEN w[q].suspends + k ELSE w[q].suspends,
         NEW S, S = w[p].kids.c, NEW v, v = SendAll(h, S, type)
  PROVE  Held(v)
<1>1. PICK t \in Books, z \in Books, c \in Books, d \in Books, a \in Books :
        Ledger(w, t, z, c, d, a) /\ Even(w, t, z, c, a, p, j, {})
  BY DEF Spare
<1>2. type = "Resume" => p # Root /\ 1 <= t[p]
  <2>1. ASSUME type = "Resume" PROVE 1 <= t[p] /\ p # Root
    <3>0. k = -1
      BY <2>1 DEF Wt
    <3>1. j = 1
      BY <3>0
    <3>2. Even(w, t, z, c, a, p, 1, {})
      BY <1>1, <3>1
    <3> QED
      BY <1>1, <2>1, <3>2, SpareTop
  <2> QED
    BY <2>1
<1>3. PICK tt, dd : tt = More(t, {p}, k) /\ dd = More(d, S, k)
  OBVIOUS
<1>4. Ledger(v, tt, z, c, dd, a)
  BY <1>1, <1>2, <1>3, TurnLedger
<1>5. \A q \in Cells : (q \in {p} => tt[q] = t[q] + k) /\ (q \notin {p} => tt[q] = t[q])
  BY <1>1, <1>3, MoreIs
<1>6. \A q \in Cells : v[q].life = w[q].life /\ v[q].kids = w[q].kids
  <2>1. h \in [Cells -> CellType] /\ type \in {"Stop", "Create", "Recreate", "Suspend", "Resume"}
    BY DEF Same
  <2> QED
    BY <2>1, SendAllIs DEF Same
<1>7. Even(v, tt, z, c, a, Root, 0, {})
  <2> SUFFICES ASSUME NEW q \in Cells \ {Root}, v[q].life = "up"
               PROVE  z[q] + Rec(v[q].kids) + Due(q, Root, 0) <= tt[q] /\ a[q] + In(q, {}) <= c[q]
    BY DEF Even
  <2>0. w[q].life = "up" /\ Rec(v[q].kids) = Rec(w[q].kids)
    BY <1>6
  <2>1. PICK t0 \in Int, z0 \in Int, n \in Int : t0 = t[q] /\ z0 = z[q] /\ n = Rec(w[q].kids)
    BY DEF Books, Rec
  <2>2. PICK e \in Int : e = Due(q, p, j) /\ tt[q] = t0 - e /\ Due(q, Root, 0) = 0
    <3>1. Due(q, Root, 0) = 0
      BY DEF Due
    <3>2. CASE q = p
      <4>1. Due(q, p, j) = j /\ tt[q] = t0 + k /\ t0 + k = t0 - j
        BY <1>5, <2>1, <3>2 DEF Due
      <4> QED
        BY <3>1, <4>1
    <3>3. CASE q # p
      <4>1. Due(q, p, j) = 0 /\ tt[q] = t0 /\ t0 = t0 - 0
        BY <1>5, <2>1, <3>3 DEF Due
      <4> QED
        BY <3>1, <4>1
    <3> QED
      BY <3>2, <3>3
  <2>3. z0 + n + e <= t0 /\ a[q] + In(q, {}) <= c[q]
    BY <1>1, <2>0, <2>1, <2>2 DEF Even
  <2>4. z0 + n + 0 <= t0 - e
    BY <2>3
  <2> QED
    BY <2>0, <2>1, <2>2, <2>3, <2>4
<1>8. tt \in Books /\ dd \in Books
  BY <1>4 DEF Ledger
<1> QED
  BY <1>1, <1>4, <1>7, <1>8 DEF Held, Spare

\* The suspension of a failure that is being handled.
LEMMA SpareOf ==
  ASSUME NEW w, NEW t, NEW z, NEW c, NEW d, NEW a, Ledger(w, t, z, c, d, a), NEW p, NEW k,
         NEW child \in Cells, child # Root, Even(w, t, z, c, a, p, k, {child}),
         w[child].life = "up"
  PROVE  1 <= c[child]
<1>1. PICK c0 \in Int, a0 \in Int : c0 = c[child] /\ a0 = a[child] /\ 0 <= a0
  BY Entry DEF Settled
<1>2. a0 + In(child, {child}) <= c0 /\ In(child, {child}) = 1
  BY <1>1 DEF Even, In
<1> QED
  BY <1>1, <1>2

\* The numbers once it is used.
LEMMA SpareUsed ==
  ASSUME NEW c \in Books, NEW a \in Books, NEW child, NEW q \in Cells,
         a[q] + In(q, {child}) <= c[q], NEW cc, cc = Less(c, {child})
  PROVE  a[q] + In(q, {}) <= cc[q] /\ cc \in Books
<1>1. PICK c0 \in Int, a0 \in Int, x \in {0, 1} : c0 = c[q] /\ a0 = a[q] /\ x = In(q, {child})
  BY DEF Books, In
<1>2. cc \in Books /\ cc[q] = IF q \in {child} THEN c[q] - 1 ELSE c[q]
  BY LessIs
<1>3. cc[q] = c0 - x
  <2>1. CASE q = child
    <3>1. x = 1 /\ cc[q] = c0 - 1
      BY <1>1, <1>2, <2>1 DEF In
    <3> QED
      BY <3>1
  <2>2. CASE q # child
    <3>1. x = 0 /\ cc[q] = c0
      BY <1>1, <1>2, <2>2 DEF In
    <3> QED
      BY <3>1
  <2> QED
    BY <2>1, <2>2
<1>4. In(q, {}) = 0
  BY DEF In
<1>5. a0 + x <= c0
  BY <1>1
<1>6. a0 + 0 <= c0 - x
  BY <1>5
<1> QED
  BY <1>1, <1>2, <1>3, <1>4, <1>6

\* It is given back when the supervisor resumes the child.
LEMMA SpareForgive ==
  ASSUME NEW w, NEW p, NEW k \in Int, NEW child \in Cells, child # Root, Spare(w, p, k, {child}),
         NEW v, v = SendAll(w, {child}, "Resume")
  PROVE  Spare(v, p, k, {})
<1>1. PICK t \in Books, z \in Books, c \in Books, d \in Books, a \in Books :
        Ledger(w, t, z, c, d, a) /\ Even(w, t, z, c, a, p, k, {child})
  BY DEF Spare
<1>2. w[child].life = "up" => 1 <= c[child]
  BY <1>1, SpareOf
<1>3. PICK cc : cc = Less(c, {child})
  OBVIOUS
<1>4. Ledger(v, t, z, cc, d, a)
  BY <1>1, <1>2, <1>3, ForgiveLedger
<1>5. \A q \in Cells : v[q].life = w[q].life /\ v[q].kids = w[q].kids
  <2>1. w \in [Cells -> CellType]
    BY <1>1 DEF Ledger
  <2> QED
    BY <2>1, SendAllIs
<1>6. Even(v, t, z, cc, a, p, k, {})
  <2> SUFFICES ASSUME NEW q \in Cells \ {Root}, v[q].life = "up"
               PROVE  z[q] + Rec(v[q].kids) + Due(q, p, k) <= t[q] /\ a[q] + In(q, {}) <= cc[q]
    BY DEF Even
  <2>1. /\ z[q] + Rec(w[q].kids) + Due(q, p, k) <= t[q] /\ a[q] + In(q, {child}) <= c[q]
        /\ w[q].kids = v[q].kids
    BY <1>1, <1>5 DEF Even
  <2>2. a[q] + In(q, {}) <= cc[q]
    BY <1>1, <1>3, <2>1, SpareUsed
  <2> QED
    BY <2>1, <2>2
<1>7. cc \in Books
  BY <1>4 DEF Ledger
<1> QED
  BY <1>1, <1>4, <1>6, <1>7 DEF Spare

\* It is what the restart of the child uses.
LEMMA SpareRestart ==
  ASSUME NEW w, NEW p, NEW k \in Int, NEW child \in Cells, child # Root, Spare(w, p, k, {child}),
         NEW affected, child \in affected, NEW v, v = RestartTold(w, child, affected)
  PROVE  Spare(v, p, k, {})
<1>1. PICK t \in Books, z \in Books, c \in Books, d \in Books, a \in Books :
        Ledger(w, t, z, c, d, a) /\ Even(w, t, z, c, a, p, k, {child})
  BY DEF Spare
<1>2. w[child].life = "up" => 1 <= c[child]
  BY <1>1, SpareOf
<1>a. PICK siblings, nephews :
        /\ siblings = {r \in affected \ {child} : Registered(w, r)}
        /\ nephews = UNION {w[r].kids.c : r \in siblings}
  OBVIOUS
<1>3. PICK tt, zz, cc, dd :
        /\ tt = More(t, siblings, 1) /\ zz = More(z, siblings, 1) /\ cc = Less(c, {child})
        /\ dd = More(d, nephews, 1)
  OBVIOUS
<1>4. Ledger(v, tt, zz, cc, dd, a)
  BY <1>1, <1>2, <1>3, <1>a, RestartLedger
<1>5. \A q \in Cells : v[q].life = w[q].life /\ v[q].kids = w[q].kids
  <2>1. w \in [Cells -> CellType] /\ \A q \in Cells : Own(w, q)
    BY <1>1 DEF Ledger
  <2> QED
    BY <2>1, RestartOwn
<1>b. \A q \in Cells : tt[q] = t[q] + In(q, siblings) /\ zz[q] = z[q] + In(q, siblings)
  BY <1>1, <1>3, MoreIn
<1>6. Even(v, tt, zz, cc, a, p, k, {})
  <2> SUFFICES ASSUME NEW q \in Cells \ {Root}, v[q].life = "up"
               PROVE  zz[q] + Rec(v[q].kids) + Due(q, p, k) <= tt[q] /\ a[q] + In(q, {}) <= cc[q]
    BY DEF Even
  <2>1. /\ z[q] + Rec(w[q].kids) + Due(q, p, k) <= t[q] /\ a[q] + In(q, {child}) <= c[q]
        /\ w[q].kids = v[q].kids
    BY <1>1, <1>5 DEF Even
  <2>2. a[q] + In(q, {}) <= cc[q]
    BY <1>1, <1>3, <2>1, SpareUsed
  <2>3. PICK t0 \in Int, z0 \in Int, n \in Int, e \in Int, x \in Int :
          t0 = t[q] /\ z0 = z[q] /\ n = Rec(w[q].kids) /\ e = Due(q, p, k) /\ x = In(q, siblings)
    BY DEF Books, Rec, Due, In
  <2>4. z0 + n + e <= t0
    BY <2>1, <2>3
  <2>5. (z0 + x) + n + e <= t0 + x
    BY <2>4
  <2>6. tt[q] = t0 + x /\ zz[q] = z0 + x
    BY <1>b, <2>3
  <2> QED
    BY <2>1, <2>2, <2>3, <2>5, <2>6
<1>7. tt \in Books /\ zz \in Books /\ cc \in Books /\ dd \in Books
  BY <1>4 DEF Ledger
<1> QED
  BY <1>1, <1>4, <1>6, <1>7 DEF Spare

-----------------------------------------------------------------------------
(* Steps that suspend nobody                                               *)

\* From w to v nothing happens to suspensions, and no restart begins to wait.
Mild(w, v) ==
  /\ Calm(w, v)
  /\ \A q \in Cells : v[q].life = "up" => Rec(v[q].kids) <= Rec(w[q].kids)

\* That needs nothing.
LEMMA SpareMild ==
  ASSUME NEW w, NEW p, NEW k \in Int, NEW S, Spare(w, p, k, S), NEW v, Mild(w, v)
  PROVE  Spare(v, p, k, S)
<1>1. ASSUME NEW q \in Cells \ {Root}, v[q].life = "up"
      PROVE  Rec(v[q].kids) + Due(q, p, k) <= Rec(w[q].kids) + Due(q, p, k)
  <2>1. PICK m \in Int, n \in Int, e \in Int :
          m = Rec(v[q].kids) /\ n = Rec(w[q].kids) /\ e = Due(q, p, k)
    BY DEF Rec, Due
  <2>2. m <= n
    BY <1>1, <2>1 DEF Mild
  <2>3. m + e <= n + e
    BY <2>2
  <2> QED
    BY <2>1, <2>3
<1> QED
  BY <1>1, SpareCalm DEF Mild

\* A queue that is as long as before.
LEMMA SameQueue ==
  ASSUME NEW w \in [Cells -> CellType], NEW q \in Cells
  PROVE  Longer(w[q].sys, w[q].sys, Plain)
  BY CellFields, LongerRefl

\* One cell changes, and not its queue.
LEMMA ChangeMild ==
  ASSUME NEW w \in [Cells -> CellType], NEW p \in Cells, NEW c \in CellType,
         c.life \in {w[p].life, "dead"}, c.sys = w[p].sys, w[p].suspends <= c.suspends,
         c.kids.c \subseteq w[p].kids.c, NEW v, v = [w EXCEPT ![p] = c]
  PROVE  /\ Calm(w, v) /\ \A q \in Cells : v[q] = IF q = p THEN c ELSE w[q]
         /\ (c.life = "up" => Rec(c.kids) <= Rec(w[p].kids)) => Mild(w, v)
<1>1. v \in [Cells -> CellType] /\ \A q \in Cells : v[q] = IF q = p THEN c ELSE w[q]
  BY CellSet
<1>2. \A q \in Cells : w[q].suspends \in Nat /\ Rec(w[q].kids) \in {0, 1}
  BY CellFields DEF Rec
<1>3. ASSUME NEW q \in Cells
      PROVE  /\ v[q].life \in {"new", "up"} => w[q].life = v[q].life
             /\ v[q].life = "up" => w[q].suspends <= v[q].suspends
             /\ Longer(w[q].sys, v[q].sys, Plain)
             /\ v[q].kids.c \subseteq w[q].kids.c
  <2>1. Longer(w[q].sys, w[q].sys, Plain)
    BY SameQueue
  <2>2. CASE q = p
    BY <1>1, <2>1, <2>2
  <2>3. CASE q # p
    BY <1>1, <1>2, <2>1, <2>3
  <2> QED
    BY <2>2, <2>3
<1>4. Calm(w, v)
  BY <1>1, <1>3 DEF Calm
<1>5. ASSUME c.life = "up" => Rec(c.kids) <= Rec(w[p].kids) PROVE Mild(w, v)
  <2>1. \A q \in Cells : v[q].life = "up" => Rec(v[q].kids) <= Rec(w[q].kids)
    BY <1>1, <1>2, <1>5
  <2> QED
    BY <1>4, <2>1 DEF Mild
<1> QED
  BY <1>1, <1>4, <1>5

\* A plain message is sent.
LEMMA SentMild ==
  ASSUME NEW w \in [Cells -> CellType], NEW v \in [Cells -> CellType], NEW m \in Plain,
         \A q \in Cells : /\ v[q].life = w[q].life /\ v[q].suspends = w[q].suspends
                           /\ v[q].kids = w[q].kids
                           /\ (v[q].sys = w[q].sys \/ v[q].sys = Append(w[q].sys, m))
  PROVE  Mild(w, v)
<1>1. \A q \in Cells : w[q].suspends \in Nat /\ Rec(w[q].kids) \in {0, 1}
  BY CellFields DEF Rec
<1>2. ASSUME NEW q \in Cells PROVE Longer(w[q].sys, v[q].sys, Plain)
  <2>1. w[q].sys \in Seq(Message) /\ Plain \in SUBSET Message
    BY CellFields, PlainKinds
  <2>2. Longer(w[q].sys, Append(w[q].sys, m), Plain)
    BY <2>1, LongerAppend
  <2> QED
    BY <2>2, SameQueue
<1>3. ASSUME NEW q \in Cells
      PROVE  /\ v[q].life \in {"new", "up"} => w[q].life = v[q].life
             /\ v[q].life = "up" => w[q].suspends <= v[q].suspends
             /\ Longer(w[q].sys, v[q].sys, Plain)
             /\ v[q].kids.c \subseteq w[q].kids.c
             /\ Rec(v[q].kids) <= Rec(w[q].kids)
  <2>1. v[q].life = w[q].life /\ v[q].suspends = w[q].suspends /\ v[q].kids = w[q].kids
    OBVIOUS
  <2>2. w[q].suspends <= v[q].suspends /\ Rec(v[q].kids) <= Rec(w[q].kids)
    BY <1>1, <2>1
  <2> QED
    BY <1>2, <2>1, <2>2
<1>4. Calm(w, v)
  BY <1>3 DEF Calm
<1> QED
  BY <1>3, <1>4 DEF Mild

\* Stops are plain.
LEMMA StopsMild ==
  ASSUME NEW w \in [Cells -> CellType], NEW S, NEW v, v = SendAll(w, S, "Stop")
  PROVE  /\ Mild(w, v)
         /\ v \in [Cells -> CellType]
         /\ \A q \in Cells : v[q].life = w[q].life /\ v[q].kids = w[q].kids /\ v[q].failed = w[q].failed
<1>1. PICK m : m = [type |-> "Stop"]
  OBVIOUS
<1>2. m \in Plain
  BY <1>1 DEF Plain
<1>3. /\ v \in [Cells -> CellType]
      /\ \A q \in Cells : /\ v[q].life = w[q].life /\ v[q].suspends = w[q].suspends
                           /\ v[q].kids = w[q].kids /\ v[q].failed = w[q].failed
                           /\ v[q].sys = IF q \in S /\ Registered(w, q)
                                         THEN Append(w[q].sys, [type |-> "Stop"]) ELSE w[q].sys
  BY SendAllIs
<1>4. \A q \in Cells : v[q].sys = w[q].sys \/ v[q].sys = Append(w[q].sys, m)
  BY <1>1, <1>3
<1>5. Mild(w, v)
  BY <1>2, <1>3, <1>4, SentMild
<1> QED
  BY <1>3, <1>5

\* So are notifications.
LEMMA NotifyMild ==
  ASSUME NEW w \in [Cells -> CellType], NEW S, NEW p \in Cells, NEW v, v = Notify(w, S, p)
  PROVE  Mild(w, v) /\ v \in [Cells -> CellType]
<1>1. PICK m : m = [type |-> "DeathWatchNotification", of |-> p]
  OBVIOUS
<1>2. m \in Plain /\ m \in Message
  BY <1>1 DEF Plain, Message
<1>3. v \in [Cells -> CellType]
  BY NotifyLater DEF Later
<1>4. ASSUME NEW q \in Cells
      PROVE  /\ v[q].life = w[q].life /\ v[q].suspends = w[q].suspends /\ v[q].kids = w[q].kids
             /\ (v[q].sys = w[q].sys \/ v[q].sys = Append(w[q].sys, m))
  <2>1. PICK b \in CellType : b = w[q]
    OBVIOUS
  <2>2. PICK c \in CellType :
          /\ c = [b EXCEPT !.sys = Append(b.sys, m)]
          /\ c.life = b.life /\ c.suspends = b.suspends /\ c.kids = b.kids
          /\ c.failed = b.failed /\ c.sys = Append(b.sys, m)
    BY <1>2, SentCell
  <2>3. v[q] = IF q \in S /\ Registered(w, q) THEN c ELSE b
    BY <1>1, <2>1, <2>2 DEF Notify
  <2> QED
    BY <2>1, <2>2, <2>3
<1> QED
  BY <1>2, <1>3, <1>4, SentMild

\* The end of a cell needs nothing.
LEMMA SpareTerminate ==
  ASSUME NEW w, NEW r, NEW k \in Int, NEW S, Spare(w, r, k, S), NEW p \in Cells,
         NEW z, z = Terminate(w, p)
  PROVE  Spare(z, r, k, S)
<1> DEFINE users == {q \in Cells : <<q, "User">> \in w[p].watchers}
           parents == {q \in Cells : <<q, "Supervision">> \in w[p].watchers}
           u == Notify(w, users, p)
           v == Notify(u, parents, p)
           b == [v[p] EXCEPT !.watchers = {}]
           c == [b EXCEPT !.life = "dead"]
<1>0. w \in [Cells -> CellType]
  BY DEF Spare, Ledger
<1>1. z = [v EXCEPT ![p] = c]
  <2>1. NotifyWatchers(w, p) = [v EXCEPT ![p].watchers = {}]
    BY DEF NotifyWatchers, Notify
  <2>2. v \in [Cells -> {v[q] : q \in Cells}]
    BY DEF Notify
  <2> HIDE DEF v
  <2> QED
    BY <2>1, <2>2 DEF Terminate
<1> HIDE DEF users, parents
<1>2. Mild(w, u) /\ u \in [Cells -> CellType]
  BY <1>0, NotifyMild
<1> HIDE DEF u
<1>3. Mild(u, v) /\ v \in [Cells -> CellType]
  BY <1>2, NotifyMild
<1> HIDE DEF v
<1>4. Spare(v, r, k, S)
  <2>1. Spare(u, r, k, S)
    BY <1>2, SpareMild
  <2> QED
    BY <1>3, <2>1, SpareMild
<1>5. /\ c \in CellType /\ c.life = "dead" /\ c.sys = v[p].sys /\ c.suspends = v[p].suspends
      /\ c.kids = v[p].kids
  <2>1. {} \in Entries /\ v[p] \in CellType
    BY <1>3 DEF Entries
  <2>2. /\ b \in CellType /\ b.sys = v[p].sys /\ b.suspends = v[p].suspends /\ b.kids = v[p].kids
    BY <2>1, WatchersSet
  <2> HIDE DEF b
  <2> QED
    BY <2>2, LifeSet
<1> HIDE DEF c
<1>6. v[p].suspends \in Nat
  BY <1>3, CellFields
<1>7. Mild(v, z)
  <2>1. c.life \in {v[p].life, "dead"} /\ v[p].suspends <= c.suspends
        /\ c.kids.c \subseteq v[p].kids.c
    BY <1>5, <1>6
  <2>2. ~(c.life = "up")
    BY <1>5
  <2> QED
    BY <1>1, <1>3, <1>5, <2>1, <2>2, ChangeMild
<1> QED
  BY <1>4, <1>7, SpareMild

\* From w to v the container of p becomes k, and nothing is sent or suspended.
Reformed(w, v, p, k) ==
  /\ v \in [Cells -> CellType]
  /\ \A q \in Cells :
       /\ v[q].life = w[q].life /\ v[q].sys = w[q].sys /\ v[q].suspends = w[q].suspends
       /\ v[q].failed = w[q].failed /\ v[q].kids = IF q = p THEN k ELSE w[q].kids

\* A cell with another container.
LEMMA ReformOne ==
  ASSUME NEW w \in [Cells -> CellType], NEW p \in Cells, NEW c \in CellType, NEW k,
         c.life = w[p].life, c.sys = w[p].sys, c.suspends = w[p].suspends,
         c.failed = w[p].failed, c.kids = k, NEW v, v = [w EXCEPT ![p] = c]
  PROVE  Reformed(w, v, p, k)
<1>1. v \in [Cells -> CellType] /\ \A q \in Cells : v[q] = IF q = p THEN c ELSE w[q]
  BY CellSet
<1> QED
  BY <1>1 DEF Reformed

\* Another container and other watches.
LEMMA ReformMade ==
  ASSUME NEW w \in [Cells -> CellType], NEW p \in Cells, NEW k \in Container, NEW X \in Entries
  PROVE  /\ Reformed(w, [w EXCEPT ![p].kids = k], p, k)
         /\ Reformed(w, [w EXCEPT ![p].kids = k, ![p].watching = X], p, k)
         /\ Reformed(w, [w EXCEPT ![p].watching = X, ![p].kids = k], p, k)
         /\ Reformed(w, [w EXCEPT ![p].watching = X], p, w[p].kids)
         /\ Reformed(w, [w EXCEPT ![p].watchers = X], p, w[p].kids)
<1> DEFINE b == [w[p] EXCEPT !.kids = k]
           c == [b EXCEPT !.watching = X]
           e == [w[p] EXCEPT !.watching = X]
           f == [e EXCEPT !.kids = k]
           g == [w[p] EXCEPT !.watchers = X]
<1>1. /\ [w EXCEPT ![p].kids = k] = [w EXCEPT ![p] = b]
      /\ [w EXCEPT ![p].kids = k, ![p].watching = X] = [w EXCEPT ![p] = c]
      /\ [w EXCEPT ![p].watching = X, ![p].kids = k] = [w EXCEPT ![p] = f]
      /\ [w EXCEPT ![p].watching = X] = [w EXCEPT ![p] = e]
      /\ [w EXCEPT ![p].watchers = X] = [w EXCEPT ![p] = g]
  OBVIOUS
<1>2. /\ b \in CellType /\ b.life = w[p].life /\ b.sys = w[p].sys /\ b.suspends = w[p].suspends
      /\ b.failed = w[p].failed /\ b.kids = k
  BY KidsSet
<1>3. /\ e \in CellType /\ e.life = w[p].life /\ e.sys = w[p].sys /\ e.suspends = w[p].suspends
      /\ e.failed = w[p].failed /\ e.kids = w[p].kids
  BY WatchingSet
<1>4. /\ g \in CellType /\ g.life = w[p].life /\ g.sys = w[p].sys /\ g.suspends = w[p].suspends
      /\ g.failed = w[p].failed /\ g.kids = w[p].kids
  BY WatchersSet
<1> HIDE DEF b, e, g
<1>5. /\ c \in CellType /\ c.life = b.life /\ c.sys = b.sys /\ c.suspends = b.suspends
      /\ c.failed = b.failed /\ c.kids = b.kids
  BY <1>2, WatchingSet
<1>6. /\ f \in CellType /\ f.life = e.life /\ f.sys = e.sys /\ f.suspends = e.suspends
      /\ f.failed = e.failed /\ f.kids = k
  BY <1>3, KidsSet
<1> HIDE DEF c, f
<1>7. Reformed(w, [w EXCEPT ![p] = b], p, k) /\ Reformed(w, [w EXCEPT ![p] = c], p, k)
  BY <1>2, <1>5, ReformOne
<1>8. Reformed(w, [w EXCEPT ![p] = f], p, k)
  BY <1>3, <1>6, ReformOne
<1>9. Reformed(w, [w EXCEPT ![p] = e], p, w[p].kids) /\ Reformed(w, [w EXCEPT ![p] = g], p, w[p].kids)
  BY <1>3, <1>4, ReformOne
<1> QED
  BY <1>1, <1>7, <1>8, <1>9

\* A container that loses children suspends nobody.
LEMMA ReformMild ==
  ASSUME NEW w \in [Cells -> CellType], NEW p \in Cells, NEW k \in Container, NEW v,
         Reformed(w, v, p, k), k.c \subseteq w[p].kids.c
  PROVE  /\ Calm(w, v)
         /\ Rec(k) <= Rec(w[p].kids) => Mild(w, v)
<1>1. \A q \in Cells : w[q].suspends \in Nat /\ Rec(w[q].kids) \in {0, 1}
  BY CellFields DEF Rec
<1>2. ASSUME NEW q \in Cells
      PROVE  /\ v[q].life \in {"new", "up"} => w[q].life = v[q].life
             /\ v[q].life = "up" => w[q].suspends <= v[q].suspends
             /\ Longer(w[q].sys, v[q].sys, Plain)
             /\ v[q].kids.c \subseteq w[q].kids.c
             /\ Rec(k) <= Rec(w[p].kids) => Rec(v[q].kids) <= Rec(w[q].kids)
  <2>1. /\ v[q].life = w[q].life /\ v[q].sys = w[q].sys /\ v[q].suspends = w[q].suspends
        /\ v[q].kids = IF q = p THEN k ELSE w[q].kids
    BY DEF Reformed
  <2>2. Longer(w[q].sys, w[q].sys, Plain)
    BY SameQueue
  <2>3. w[q].suspends <= v[q].suspends
    BY <1>1, <2>1
  <2>4. v[q].kids.c \subseteq w[q].kids.c
    BY <2>1
  <2>5. Rec(k) <= Rec(w[p].kids) => Rec(v[q].kids) <= Rec(w[q].kids)
    BY <1>1, <2>1
  <2> QED
    BY <2>1, <2>2, <2>3, <2>4, <2>5
<1>3. Calm(w, v)
  BY <1>2 DEF Calm, Reformed
<1>4. ASSUME Rec(k) <= Rec(w[p].kids) PROVE Mild(w, v)
  BY <1>2, <1>3, <1>4 DEF Mild
<1> QED
  BY <1>3, <1>4

\* Nor does a change of failures and suspensions that resumes nobody.
LEMMA SameMild ==
  ASSUME NEW w \in [Cells -> CellType], NEW v, Same(w, v),
         \A q \in Cells : w[q].suspends <= v[q].suspends
  PROVE  Mild(w, v)
<1>1. \A q \in Cells : Rec(w[q].kids) \in {0, 1}
  BY DEF Rec
<1>2. ASSUME NEW q \in Cells
      PROVE  /\ v[q].life \in {"new", "up"} => w[q].life = v[q].life
             /\ v[q].life = "up" => w[q].suspends <= v[q].suspends
             /\ Longer(w[q].sys, v[q].sys, Plain)
             /\ v[q].kids.c \subseteq w[q].kids.c
             /\ Rec(v[q].kids) <= Rec(w[q].kids)
  <2>1. v[q].life = w[q].life /\ v[q].sys = w[q].sys /\ v[q].kids = w[q].kids
    BY DEF Same
  <2>2. Rec(v[q].kids) <= Rec(w[q].kids)
    BY <1>1, <2>1
  <2> QED
    BY <2>1, <2>2, SameQueue
<1>3. Calm(w, v)
  BY <1>2 DEF Calm, Same
<1> QED
  BY <1>2, <1>3 DEF Mild

\* What waits for children is kept: a restart stays one, and none begins.
LEMMA ShallDieRec ==
  ASSUME NEW k \in Container, KidsOK(k), NEW S
  PROVE  Rec(ShallDie(k, S)) <= Rec(k)
<1>1. CASE ShallDie(k, S) = k
  BY <1>1 DEF Rec
<1>2. CASE S # {} /\ k.variant # "terminated"
  <2> DEFINE r == IF k.variant = "normal" THEN "UserRequest" ELSE k.reason
  <2>1. CASE k.variant = "normal" /\ k.c = {}
    <3>1. ShallDie(k, S) = k
      BY <2>1 DEF ShallDie
    <3> QED
      BY <1>1, <3>1
  <2>2. CASE ~(k.variant = "normal" /\ k.c = {})
    <3>1. ShallDie(k, S) = [variant |-> "terminating", c |-> k.c, toDie |-> k.toDie \cup S, reason |-> r]
      BY <1>2, <2>2 DEF ShallDie, Container
    <3>2. ShallDie(k, S).reason = r
      BY <3>1
    <3> QED
      BY <3>2 DEF Rec
  <2> QED
    BY <2>1, <2>2
<1>3. S = {} \/ k.variant = "terminated" => ShallDie(k, S) = k
  BY DEF ShallDie
<1> QED
  BY <1>1, <1>2, <1>3

-----------------------------------------------------------------------------
(* Handlers that end restarts, cells and failures                          *)

\* A restart that is done uses the suspension it began with.
LEMMA SpareFinish ==
  ASSUME NEW w, NEW p \in Cells, NEW S, Spare(w, p, 1, S), w[p].life = "up", NEW ok \in BOOLEAN,
         NEW v, v = FinishRecreate(w, p, ok)
  PROVE  Spare(v, p, 0, S)
<1> DEFINE u == Resume([w EXCEPT ![p].failed = "none", ![p].boots = @ + 1], p)
           g == [u EXCEPT ![p].failed = "Fatal"]
<1>0. w \in [Cells -> CellType]
  BY DEF Spare, Ledger
<1>1. v = IF ok THEN u ELSE ReportFailure(g, p)
  BY DEF FinishRecreate
<1>2. /\ Same(w, u)
      /\ \A q \in Cells : u[q].suspends >= IF q = p THEN w[q].suspends - 1 ELSE w[q].suspends
  BY <1>0, FreshFit
<1> HIDE DEF u
<1>3. Spare(u, p, 0, S)
  BY <1>2, SpareDrop
<1>4. u \in [Cells -> CellType] /\ u[p].life = "up"
  BY <1>2 DEF Same
<1>5. Noted(u, g)
  BY <1>4, FailedIs
<1> HIDE DEF g
<1>6. Mild(u, g) /\ g[p].life = "up"
  <2>1. \A q \in Cells : u[q].suspends \in Nat
    BY <1>4, CellFields
  <2>2. \A q \in Cells : u[q].suspends <= g[q].suspends
    BY <1>5, <2>1 DEF Noted
  <2>3. Same(u, g) /\ g[p].life = "up"
    BY <1>4, <1>5 DEF Noted, Same
  <2> QED
    BY <1>4, <2>2, <2>3, SameMild
<1>7. PICK n \in Int : n = 0
  OBVIOUS
<1>8. Spare(g, p, n, S)
  BY <1>3, <1>6, <1>7, SpareMild
<1>9. Spare(ReportFailure(g, p), p, n, S)
  BY <1>6, <1>8, SpareReport
<1> QED
  BY <1>1, <1>3, <1>7, <1>9

\* A cell that stops suspends itself, and its children stop.
LEMMA SpareStop ==
  ASSUME NEW w, NEW r, NEW n \in Int, NEW S, Spare(w, r, n, S), NEW p \in Cells,
         KidsOK(w[p].kids), NEW v, v = HandleStop(w, p)
  PROVE  Spare(v, r, n, S)
<1> DEFINE a == w[p].kids
<1>0. w \in [Cells -> CellType] /\ a \in Container
  <2>1. w \in [Cells -> CellType]
    BY DEF Spare, Ledger
  <2> QED
    BY <2>1, CellFields
<1>1. CASE IsTerminating(a)
  BY <1>1 DEF HandleStop
<1>2. CASE ~IsTerminating(a) /\ a.c = {}
  <2>1. v = Terminate(w, p)
    BY <1>2 DEF HandleStop
  <2> QED
    BY <2>1, SpareTerminate
<1>3. CASE ~IsTerminating(a) /\ a.c # {}
  <2> DEFINE b == ShallDie(a, a.c)
             k == SetTerminationReason(b, "Termination")
             u == [w EXCEPT ![p].kids = k]
             h == Suspend(u, p)
  <2>1. v = SendAll(h, a.c, "Stop")
    BY <1>3 DEF HandleStop
  <2>2. b \in Container /\ KidsOK(b) /\ b.c = a.c /\ Rec(b) <= Rec(a)
    BY <1>0, ShallDieOK, ShallDieRec
  <2>3. k \in Container /\ k.c = a.c /\ Rec(k) <= Rec(a)
    <3>1. k \in Container /\ k.c = b.c
      <4>1. "Termination" \in Ending
        BY DEF Ending
      <4> HIDE DEF b
      <4> QED
        BY <2>2, <4>1, SetReasonOK
    <3>2. Rec(a) \in {0, 1} /\ (k = b \/ k = [b EXCEPT !.reason = "Termination"])
      BY DEF Rec, SetTerminationReason
    <3> HIDE DEF k, b, a
    <3>3. CASE k = b
      BY <2>2, <3>1, <3>3
    <3>4. CASE k = [b EXCEPT !.reason = "Termination"]
      <4>1. k.reason = "Termination"
        BY <2>2, <3>4 DEF Container
      <4>2. Rec(k) = 0
        BY <4>1 DEF Rec
      <4> QED
        BY <2>2, <3>1, <3>2, <4>2
    <3> QED
      BY <3>2, <3>3, <3>4
  <2> HIDE DEF k
  <2>4. {} \in Entries
    BY DEF Entries
  <2>5. Reformed(w, u, p, k)
    BY <1>0, <2>3, <2>4, ReformMade
  <2> HIDE DEF u
  <2>6. Mild(w, u) /\ u \in [Cells -> CellType]
    BY <1>0, <2>3, <2>5, ReformMild DEF Reformed
  <2>7. Mild(u, h) /\ h \in [Cells -> CellType]
    <3>1. /\ Same(u, h)
          /\ \A q \in Cells : h[q].suspends = IF q = p THEN u[q].suspends + 1 ELSE u[q].suspends
      BY <2>6, CountIs
    <3> HIDE DEF h
    <3>2. \A q \in Cells : u[q].suspends \in Nat
      BY <2>6, CellFields
    <3>3. \A q \in Cells : u[q].suspends <= h[q].suspends
      BY <3>1, <3>2
    <3> QED
      BY <2>6, <3>1, <3>3, SameMild DEF Same
  <2> HIDE DEF h
  <2>8. Mild(h, v)
    BY <2>1, <2>7, StopsMild
  <2>9. Spare(u, r, n, S)
    BY <2>6, SpareMild
  <2>10. Spare(h, r, n, S)
    BY <2>7, <2>9, SpareMild
  <2> QED
    BY <2>8, <2>10, SpareMild
<1> QED
  BY <1>1, <1>2, <1>3

\* So do the children of a cell that restarts.
LEMMA PreRestartMild ==
  ASSUME NEW w, NEW r, NEW n \in Int, NEW S, Spare(w, r, n, S), NEW p \in Cells,
         KidsOK(w[p].kids), NEW v, v = PreRestart(w, p)
  PROVE  Spare(v, r, n, S) /\ v[p].life = w[p].life
<1> DEFINE a == w[p].kids
           k == ShallDie(a, a.c)
           X == w[p].watching \ (a.c \X {"User"})
           u == [w EXCEPT ![p].kids = k, ![p].watching = X]
<1>0. w \in [Cells -> CellType]
  BY DEF Spare, Ledger
<1>1. a \in Container /\ X \in Entries
  BY <1>0, CellFields DEF Entries
<1>2. v = SendAll(u, a.c, "Stop")
  BY DEF PreRestart
<1>3. k \in Container /\ k.c = a.c /\ Rec(k) <= Rec(a)
  BY <1>1, ShallDieOK, ShallDieRec
<1> HIDE DEF k, X
<1>4. Reformed(w, u, p, k)
  BY <1>0, <1>1, <1>3, ReformMade
<1> HIDE DEF u
<1>5. Mild(w, u) /\ u \in [Cells -> CellType] /\ u[p].life = w[p].life
  BY <1>0, <1>3, <1>4, ReformMild DEF Reformed
<1>6. Mild(u, v) /\ v[p].life = w[p].life
  BY <1>2, <1>5, StopsMild
<1>7. Spare(u, r, n, S)
  BY <1>5, SpareMild
<1> QED
  BY <1>6, <1>7, SpareMild

\* Recreate: the suspension it lifts is kept while it waits.
LEMMA SpareRecreate ==
  ASSUME NEW w, NEW p \in Cells, NEW S, Spare(w, p, 1, S), w[p].life = "up",
         KidsOK(w[p].kids), NEW stopOk \in BOOLEAN, NEW ok \in BOOLEAN,
         NEW v, v = FaultRecreate(w, p, stopOk, ok)
  PROVE  Held(v)
<1> DEFINE s == PreRestart(w, p)
<1>1. PICK n \in Int, z \in Int : n = 1 /\ z = 0
  OBVIOUS
<1>2. Spare(s, p, n, S) /\ s[p].life = "up"
  BY <1>1, PreRestartMild
<1>3. v = w \/ v = s \/ (s[p].kids.variant = "terminating"
                       /\ v = [s EXCEPT ![p].kids = SetTerminationReason(@, "Recreation")])
      \/ v = FinishRecreate(s, p, ok)
  BY DEF FaultRecreate
<1> HIDE DEF s
<1>4. Held(w) /\ Held(s)
  BY <1>1, <1>2, SpareHeld
<1>5. CASE s[p].kids.variant = "terminating"
           /\ v = [s EXCEPT ![p].kids = SetTerminationReason(@, "Recreation")]
  <2> DEFINE a == s[p].kids
             k == [a EXCEPT !.reason = "Recreation"]
  <2>0. s \in [Cells -> CellType]
    BY <1>2 DEF Spare, Ledger
  <2>1. v = [s EXCEPT ![p].kids = k] /\ a \in Container
    BY <1>5, <2>0, CellFields DEF SetTerminationReason
  <2>2. k \in Container /\ k.c = a.c
    <3> HIDE DEF a
    <3> QED
      BY <2>1 DEF Container
  <2> HIDE DEF k
  <2>3. {} \in Entries
    BY DEF Entries
  <2>4. Reformed(s, v, p, k)
    BY <2>0, <2>1, <2>2, <2>3, ReformMade
  <2>5. Calm(s, v)
    BY <2>0, <2>2, <2>4, ReformMild
  <2>6. ASSUME NEW q \in Cells \ {Root}
        PROVE  Rec(v[q].kids) + Due(q, p, z) <= Rec(s[q].kids) + Due(q, p, n)
    <3>1. v[q].kids = IF q = p THEN k ELSE s[q].kids
      BY <2>4 DEF Reformed
    <3>2. Rec(v[q].kids) \in {0, 1} /\ Rec(s[q].kids) \in {0, 1}
      BY DEF Rec
    <3>3. CASE q = p
      BY <1>1, <3>2, <3>3 DEF Due
    <3>4. CASE q # p
      BY <1>1, <3>1, <3>2, <3>4 DEF Due
    <3> QED
      BY <3>3, <3>4
  <2>7. Spare(v, p, z, S)
    BY <1>2, <2>5, <2>6, SpareCalm
  <2> QED
    BY <1>1, <2>7, SpareHeld
<1>6. CASE v = FinishRecreate(s, p, ok)
  <2>1. Spare(v, p, z, S)
    BY <1>1, <1>2, <1>6, SpareFinish
  <2> QED
    BY <1>1, <2>1, SpareHeld
<1> QED
  BY <1>3, <1>4, <1>5, <1>6

\* StopChild asks one child to stop.
LEMMA SpareStopChild ==
  ASSUME NEW w, NEW r, NEW n \in Int, NEW S, Spare(w, r, n, S), NEW p \in Cells,
         KidsOK(w[p].kids), NEW child, NEW v, v = StopChild(w, p, child)
  PROVE  Spare(v, r, n, S)
<1> DEFINE a == w[p].kids
           k == ShallDie(a, {child})
           u == [w EXCEPT ![p].kids = k]
<1>0. w \in [Cells -> CellType]
  BY DEF Spare, Ledger
<1>1. CASE child \notin a.c \/ IsTerminating(a)
  BY <1>1 DEF StopChild
<1>2. CASE ~(child \notin a.c \/ IsTerminating(a))
  <2>1. v = SendAll(u, {child}, "Stop") /\ {child} \in SUBSET a.c
    BY <1>2 DEF StopChild
  <2>2. a \in Container /\ {} \in Entries
    BY <1>0, CellFields DEF Entries
  <2>3. k \in Container /\ k.c = a.c /\ Rec(k) <= Rec(a)
    BY <2>1, <2>2, ShallDieOK, ShallDieRec
  <2> HIDE DEF k
  <2>4. Reformed(w, u, p, k)
    BY <1>0, <2>2, <2>3, ReformMade
  <2> HIDE DEF u
  <2>5. Mild(w, u) /\ u \in [Cells -> CellType]
    BY <1>0, <2>3, <2>4, ReformMild DEF Reformed
  <2>6. Mild(u, v)
    BY <2>1, <2>5, StopsMild
  <2>7. Spare(u, r, n, S)
    BY <2>5, SpareMild
  <2> QED
    BY <2>6, <2>7, SpareMild
<1> QED
  BY <1>1, <1>2

\* The end of a child: a restart that waited for it is done.
LEMMA SpareNotified ==
  ASSUME NEW w, NEW p \in Cells, NEW S, Spare(w, p, 0, S), w[p].life = "up",
         KidsOK(w[p].kids), NEW of \in Cells, NEW ok \in BOOLEAN,
         NEW v, v = HandleDeathWatchNotification(w, p, of, ok)
  PROVE  Held(v)
<1> DEFINE a == w[p].kids
           k == RemoveChild(a, of)
           X == w[p].watching \ ({of} \X Kinds)
           u == [w EXCEPT ![p].watching = X, ![p].kids = k]
<1>0. w \in [Cells -> CellType]
  BY DEF Spare, Ledger
<1>1. PICK n \in Int, z \in Int : n = 1 /\ z = 0
  OBVIOUS
<1>2. a \in Container /\ X \in Entries
  BY <1>0, CellFields DEF Entries
<1>3. /\ v = w \/ (StateChange(a, of) = "Recreation" /\ v = FinishRecreate(u, p, ok))
         \/ v = Terminate(u, p) \/ v = u
  BY DEF HandleDeathWatchNotification
<1>4. /\ k \in Container /\ k.c \subseteq a.c /\ (k.reason = a.reason \/ k.reason = "none")
      /\ StateChange(a, of) = "Recreation" => a.reason = "Recreation" /\ k.reason = "none"
  <2>1. KidsOK(a)
    OBVIOUS
  <2> HIDE DEF a
  <2> QED
    BY <1>2, <2>1, RemoveChildOK
<1>5. Rec(k) <= Rec(a)
  BY <1>4 DEF Rec
<1> HIDE DEF k, X
<1>6. Reformed(w, u, p, k)
  BY <1>0, <1>2, <1>4, ReformMade
<1> HIDE DEF u
<1>7. Mild(w, u) /\ Calm(w, u) /\ u[p].life = "up"
  BY <1>0, <1>4, <1>5, <1>6, ReformMild DEF Reformed
<1>8. Spare(u, p, z, S)
  BY <1>1, <1>7, SpareMild
<1>9. CASE v = w \/ v = u
  BY <1>1, <1>8, <1>9, SpareHeld
<1>10. CASE v = Terminate(u, p)
  <2>1. Spare(v, p, z, S)
    BY <1>8, <1>10, SpareTerminate
  <2> QED
    BY <1>1, <2>1, SpareHeld
<1>11. CASE StateChange(a, of) = "Recreation" /\ v = FinishRecreate(u, p, ok)
  <2>1. ASSUME NEW q \in Cells \ {Root}
        PROVE  Rec(u[q].kids) + Due(q, p, n) <= Rec(w[q].kids) + Due(q, p, z)
    <3>1. u[q].kids = IF q = p THEN k ELSE w[q].kids
      BY <1>6 DEF Reformed
    <3>2. Rec(k) = 0 /\ Rec(w[p].kids) = 1 /\ Rec(w[q].kids) \in {0, 1}
      BY <1>4, <1>11 DEF Rec
    <3>3. CASE q = p
      BY <1>1, <3>1, <3>2, <3>3 DEF Due
    <3>4. CASE q # p
      BY <1>1, <3>1, <3>2, <3>4 DEF Due
    <3> QED
      BY <3>3, <3>4
  <2>2. Spare(u, p, n, S)
    BY <1>1, <1>7, <2>1, SpareCalm
  <2>3. Spare(v, p, z, S)
    BY <1>1, <1>7, <1>11, <2>2, SpareFinish
  <2> QED
    BY <1>1, <2>3, SpareHeld
<1> QED
  BY <1>3, <1>9, <1>10, <1>11

\* The directive takes the suspension of the failure, or leaves it.
LEMMA SpareDirective ==
  ASSUME NEW w, NEW p \in Cells, NEW k \in Int, 0 <= k, NEW child \in Cells, child # Root,
         Spare(w, p, k, {child}), w[p].life = "up", NEW affected, child \in affected,
         NEW directive \in {"Resume", "Restart", "Stop", "Escalate"},
         directive = "Resume" => affected = {child},
         NEW v, v = ApplyDirective(w, p, child, affected, directive)
  PROVE  Held(v)
<1> DEFINE told == RestartTold(w, child, affected)
           stopped == SendAll(w, affected, "Stop")
<1>0. w \in [Cells -> CellType] /\ \A q \in Cells : Own(w, q)
  BY DEF Spare, Ledger
<1>1. CASE directive = "Restart"
  <2>1. v = told \/ v = ReportFailure(told, p)
    BY <1>1 DEF ApplyDirective, RestartTold, HeldBy
  <2>2. Spare(told, p, k, {}) /\ told[p].life = "up"
    BY <1>0, SpareRestart, RestartOwn
  <2> HIDE DEF told
  <2>3. Spare(ReportFailure(told, p), p, k, {})
    BY <2>2, SpareReport
  <2> QED
    BY <2>1, <2>2, <2>3, SpareHeld
<1>2. Spare(stopped, p, k, {child}) /\ stopped[p].life = "up"
  BY <1>0, StopsMild, SpareMild
<1> HIDE DEF stopped
<1>3. CASE directive = "Stop"
  <2>1. v = stopped
    BY <1>3 DEF ApplyDirective, stopped
  <2> QED
    BY <1>2, <2>1, SpareHeld
<1>4. CASE directive = "Escalate"
  <2>1. v = ReportFailure(stopped, p)
    BY <1>4 DEF ApplyDirective, stopped
  <2>2. Spare(v, p, k, {child})
    BY <1>2, <2>1, SpareReport
  <2> QED
    BY <2>2, SpareHeld
<1>5. CASE directive = "Resume"
  <2>1. v = SendAll(w, {child}, "Resume")
    BY <1>5 DEF ApplyDirective
  <2>2. Spare(v, p, k, {})
    BY <2>1, SpareForgive
  <2> QED
    BY <2>2, SpareHeld
<1> QED
  BY <1>1, <1>3, <1>4, <1>5

\* What the decision leaves of the container.
LEMMA DecidedKids ==
  ASSUME NEW a \in Container, KidsOK(a), NEW child \in Cells, NEW affected, NEW directive,
         affected = AddChild(a, child).c \/ affected = {child},
         child \in a.c \/ (directive = "Stop" /\ a.variant = "normal"),
         NEW k, k = (IF directive = "Stop" THEN ClearChildStats(AddChild(a, child), affected)
                     ELSE AddChild(a, child))
  PROVE  k \in Container /\ k.c \subseteq a.c /\ Rec(k) <= Rec(a) /\ child \in affected
<1> DEFINE b == AddChild(a, child)
<1>1. a.variant # "terminated"
  BY DEF KidsOK
<1>2. b \in Container /\ KidsOK(b) /\ b.reason = a.reason /\ b.variant = a.variant /\ b.c = a.c \cup {child}
  BY <1>1, AddChildOK
<1>3. child \in affected
  BY <1>2
<1> HIDE DEF b
<1>4. CASE directive = "Stop"
  <2>1. k = ClearChildStats(b, affected)
    BY <1>4 DEF b
  <2>2. /\ k \in Container /\ k.reason = b.reason
        /\ b.variant = "normal" => k.c = b.c \ affected
        /\ b.variant # "normal" => k.c = b.c
    BY <1>2, <2>1, ClearOK
  <2>3. k.c \subseteq a.c
    BY <1>2, <1>3, <2>2
  <2> QED
    BY <1>2, <1>3, <2>2, <2>3 DEF Rec
<1>5. CASE directive # "Stop"
  <2>1. k = b
    BY <1>5 DEF b
  <2>2. k.c \subseteq a.c
    BY <1>2, <1>5, <2>1
  <2> QED
    BY <1>2, <1>3, <2>1, <2>2 DEF Rec
<1> QED
  BY <1>4, <1>5

\* Failure: the supervisor decides about a child it holds.
LEMMA SpareFailure ==
  ASSUME NEW w, NEW p \in Cells, NEW child \in Cells, child # Root, Spare(w, p, 0, {child}),
         w[p].life = "up", KidsOK(w[p].kids), NEW directive \in Directives, NEW ok \in BOOLEAN,
         child \in w[p].kids.c \/ (directive = "Stop" /\ w[p].kids.variant = "normal"),
         ~(directive = "Resume" /\ p \in AllForOne),
         NEW v, v = HandleFailure(w, p, child, directive, ok)
  PROVE  Held(v)
<1> DEFINE a == w[p].kids
           affected == Affected(w, p, child)
           k == IF directive = "Stop" THEN ClearChildStats(AddChild(a, child), affected)
                ELSE AddChild(a, child)
           decided == [w EXCEPT ![p].kids = k]
           called == IF ok THEN decided ELSE ReportFailure(decided, p)
<1>0. w \in [Cells -> CellType]
  BY DEF Spare, Ledger
<1>1. directive \in {"Resume", "Restart", "Stop", "Escalate"}
  BY TreeAssumption
<1>2. v = ApplyDirective(called, p, child, affected, directive)
  <2>1. CASE directive = "Stop"
    <3>1. [[w EXCEPT ![p].kids = AddChild(@, child)] EXCEPT ![p].kids = ClearChildStats(@, affected)]
            = decided
      BY <1>0, <2>1
    <3> QED
      BY <2>1, <3>1 DEF HandleFailure
  <2>2. CASE directive # "Stop"
    <3>1. [w EXCEPT ![p].kids = AddChild(@, child)] = decided
      BY <1>0, <2>2
    <3> QED
      BY <2>2, <3>1 DEF HandleFailure
  <2> QED
    BY <2>1, <2>2
<1>3. /\ affected = AddChild(a, child).c \/ affected = {child}
      /\ directive = "Resume" => affected = {child}
  BY DEF Affected
<1>4. a \in Container /\ {} \in Entries
  BY <1>0, CellFields DEF Entries
<1> HIDE DEF affected
<1>5. k \in Container /\ k.c \subseteq a.c /\ Rec(k) <= Rec(a) /\ child \in affected
  <2>1. child \in a.c \/ (directive = "Stop" /\ a.variant = "normal")
    OBVIOUS
  <2>2. KidsOK(a)
    OBVIOUS
  <2>3. PICK x : x = k
    OBVIOUS
  <2>4. x = (IF directive = "Stop" THEN ClearChildStats(AddChild(a, child), affected)
             ELSE AddChild(a, child))
    BY <2>3
  <2> HIDE DEF a, k
  <2>5. x \in Container /\ x.c \subseteq a.c /\ Rec(x) <= Rec(a) /\ child \in affected
    BY <1>3, <1>4, <2>1, <2>2, <2>4, DecidedKids
  <2> QED
    BY <2>3, <2>5
<1> HIDE DEF k
<1>6. Reformed(w, decided, p, k)
  BY <1>0, <1>4, <1>5, ReformMade
<1> HIDE DEF decided
<1>7. Mild(w, decided) /\ decided[p].life = "up" /\ decided \in [Cells -> CellType]
  BY <1>0, <1>5, <1>6, ReformMild DEF Reformed
<1>8. PICK z \in Int : z = 0 /\ 0 <= z
  OBVIOUS
<1>9. Spare(decided, p, z, {child})
  BY <1>7, <1>8, SpareMild
<1>10. Spare(called, p, z, {child}) /\ called[p].life = "up"
  <2>1. CASE ok
    BY <1>7, <1>9, <2>1
  <2>2. CASE ~ok
    <3>1. called = ReportFailure(decided, p)
      BY <2>2
    <3> HIDE DEF called
    <3>2. Talk(decided, called, {})
      BY <1>7, <3>1, ReportTalk
    <3> QED
      BY <1>7, <1>9, <3>1, <3>2, SpareReport DEF Talk
  <2> QED
    BY <2>1, <2>2
<1> HIDE DEF called
<1> QED
  BY <1>1, <1>2, <1>3, <1>5, <1>8, <1>10, SpareDirective

\* A cell that is removed is nobody's concern any more.
LEMMA RemoveMild ==
  ASSUME NEW w \in [Cells -> CellType], \A q \in Cells : KidsOK(w[q].kids), NEW p \in Cells,
         NEW v, Removed(w, v, p)
  PROVE  Mild(w, v)
<1>1. \A q \in Cells : w[q].suspends \in Nat /\ w[q].kids \in Container
  BY CellFields
<1>2. ASSUME NEW q \in Cells
      PROVE  /\ v[q].life \in {"new", "up"} => w[q].life = v[q].life
             /\ v[q].life = "up" => w[q].suspends <= v[q].suspends
             /\ \/ Longer(w[q].sys, v[q].sys, Plain)
                \/ v[q].sys = <<>> /\ v[q].life \notin {"new", "up"}
             /\ v[q].kids.c \subseteq w[q].kids.c
             /\ v[q].life = "up" => Rec(v[q].kids) <= Rec(w[q].kids)
  <2>1. CASE q = p
    <3>1. v[q].life = "gone" /\ v[q].sys = <<>> /\ v[q].kids.c = {}
      BY <2>1 DEF Removed
    <3> QED
      BY <3>1
  <2>2. CASE q # p
    <3>1. /\ v[q].life = w[q].life /\ v[q].sys = w[q].sys /\ v[q].suspends = w[q].suspends
          /\ v[q].kids = w[q].kids \/ v[q].kids = RemoveChild(w[q].kids, p)
      BY <2>2 DEF Removed
    <3>2. /\ RemoveChild(w[q].kids, p).c \subseteq w[q].kids.c
          /\ \/ RemoveChild(w[q].kids, p).reason = w[q].kids.reason
             \/ RemoveChild(w[q].kids, p).reason = "none"
      <4>1. PICK k \in Container : k = w[q].kids /\ KidsOK(k)
        BY <1>1
      <4>2. k.toDie \ {p} # {} \/ k.toDie = {} \/ (k.toDie \ {p} = {} /\ k.toDie # {})
        OBVIOUS
      <4>3. /\ RemoveChild(k, p).c \subseteq k.c
            /\ RemoveChild(k, p).reason = k.reason \/ RemoveChild(k, p).reason = "none"
        BY <4>1, <4>2, RemoveChildOK
      <4> QED
        BY <4>1, <4>3
    <3>3. Rec(v[q].kids) <= Rec(w[q].kids) /\ v[q].kids.c \subseteq w[q].kids.c
      BY <3>1, <3>2 DEF Rec
    <3>4. w[q].suspends <= v[q].suspends
      BY <1>1, <3>1
    <3> QED
      BY <3>1, <3>3, <3>4, SameQueue
  <2> QED
    BY <2>1, <2>2
<1>3. Calm(w, v)
  BY <1>2 DEF Calm, Removed
<1> QED
  BY <1>2, <1>3 DEF Mild

\* A queue that suspends and resumes nobody.
LEMMA LineNone ==
  ASSUME NEW s \in Seq(Message), \A i \in DOMAIN s : Wt(s[i]) = 0
  PROVE  Line(s, 0, 0, 0)
<1> DEFINE g == [i \in 0 .. Len(s) |-> 0]
<1>1. Len(s) \in Nat /\ DOMAIN s = 1 .. Len(s)
  OBVIOUS
<1>2. g \in [0 .. Len(s) -> Int] /\ \A i \in 0 .. Len(s) : g[i] = 0
  OBVIOUS
<1> HIDE DEF g
<1>3. g[0] = 0 /\ g[Len(s)] = 0
  BY <1>1, <1>2
<1>4. ASSUME NEW i \in 1 .. Len(s) PROVE g[i] <= g[i - 1] + Wt(s[i])
  <2>1. i \in 0 .. Len(s) /\ i - 1 \in 0 .. Len(s) /\ Wt(s[i]) = 0
    BY <1>1
  <2>2. g[i] = 0 /\ g[i - 1] = 0
    BY <1>2, <2>1
  <2> QED
    BY <2>1, <2>2
<1>5. \A i \in 0 .. Len(s) : 0 <= g[i]
  BY <1>2
<1> QED
  BY <1>2, <1>3, <1>4, <1>5 DEF Line

\* The books with nothing on p.
Blank(f, p) == [q \in Cells |-> IF q = p THEN 0 ELSE f[q]]

\* They are books.
LEMMA BlankIs ==
  ASSUME NEW f \in Books, NEW p \in Cells
  PROVE  Blank(f, p) \in Books /\ Blank(f, p)[p] = 0 /\ \A q \in Cells \ {p} : Blank(f, p)[q] = f[q]
  BY DEF Books, Blank

\* What a spawned cell is.
LEMMA SpawnIs ==
  ASSUME NEW w \in [Cells -> CellType], \A q \in Cells : KidsOK(w[q].kids),
         NEW p \in Cells \ {Root}, NEW s, s = Parent[p], s # p, NEW v, Spawned(w, v, p, s)
  PROVE  /\ s \in Cells /\ v \in [Cells -> CellType] /\ v[p].life = "up" /\ v[p].kids.c = {}
         /\ Rec(v[p].kids) = 0 /\ Line(v[p].sys, 0, 0, 0)
         /\ \A i \in DOMAIN v[p].sys : v[p].sys[i].type = "Create"
         /\ \A q \in Cells \ {p} :
              /\ v[q].life = w[q].life /\ v[q].sys = w[q].sys /\ v[q].suspends = w[q].suspends
              /\ Rec(v[q].kids) = Rec(w[q].kids)
              /\ v[q].kids.c \subseteq (IF q = s THEN w[q].kids.c \cup {p} ELSE w[q].kids.c)
              /\ \A r \in w[q].kids.c : r \in v[q].kids.c
<1>1. s \in Cells
  BY ParentCell
<1>2. /\ v \in [Cells -> CellType] /\ v[p].life = "up" /\ v[p].kids.c = {}
      /\ KidsOK(v[p].kids) /\ v[p].kids.variant = "normal"
      /\ \A i \in DOMAIN v[p].sys : v[p].sys[i].type = "Create"
  BY DEF Spawned
<1>3. Rec(v[p].kids) = 0
  BY <1>2 DEF KidsOK, Rec
<1>4. Line(v[p].sys, 0, 0, 0)
  <2>1. v[p].sys \in Seq(Message)
    BY <1>2, CellFields
  <2>2. \A i \in DOMAIN v[p].sys : Wt(v[p].sys[i]) = 0
    BY <1>2 DEF Wt
  <2> QED
    BY <2>1, <2>2, LineNone
<1>5. ASSUME NEW q \in Cells \ {p}
      PROVE  /\ v[q].life = w[q].life /\ v[q].sys = w[q].sys /\ v[q].suspends = w[q].suspends
             /\ Rec(v[q].kids) = Rec(w[q].kids)
             /\ v[q].kids.c \subseteq (IF q = s THEN w[q].kids.c \cup {p} ELSE w[q].kids.c)
             /\ \A r \in w[q].kids.c : r \in v[q].kids.c
  <2>1. v[q].life = w[q].life /\ v[q].sys = w[q].sys /\ v[q].suspends = w[q].suspends
    BY DEF Spawned
  <2>2. CASE q = s
    <3>1. PICK a, k : a \in Container /\ a = w[s].kids /\ KidsOK(a) /\ k = v[s].kids
      BY <1>1, CellFields
    <3>2. k = AddChild(a, p)
      BY <3>1 DEF Spawned
    <3>3. k.reason = a.reason /\ k.c \subseteq a.c \cup {p} /\ \A r \in a.c : r \in k.c
      BY <3>1, <3>2, AddChildOK
    <3> QED
      BY <2>1, <2>2, <3>1, <3>3 DEF Rec
  <2>3. CASE q # s
    <3>1. v[q].kids = w[q].kids
      BY <2>3 DEF Spawned
    <3> QED
      BY <2>1, <2>3, <3>1
  <2> QED
    BY <2>2, <2>3
<1> QED
  BY <1>1, <1>2, <1>3, <1>4, <1>5

\* A spawned cell owes nothing, and its supervisor, which runs, has nothing to pass on.
LEMMA SpawnFit ==
  ASSUME NEW w, NEW t, NEW z, NEW c, NEW d, NEW a, Ledger(w, t, z, c, d, a),
         \A q \in Cells : KidsOK(w[q].kids),
         NEW p \in Cells \ {Root}, w[p].life = "new", NEW s, s = Parent[p], s # p,
         NEW v, Spawned(w, v, p, s), NEW q \in Cells \ {Root}
  PROVE  Fit(v, q, Blank(t, p)[q], Blank(z, p)[q], Blank(c, p)[q], Blank(d, p)[q], a[q])
<1>0. /\ w \in [Cells -> CellType] /\ Fit(w, q, t[q], z[q], c[q], d[q], a[q])
      /\ t \in Books /\ z \in Books /\ c \in Books /\ d \in Books /\ a \in Books
  BY DEF Ledger
<1>1. /\ v \in [Cells -> CellType] /\ v[p].life = "up" /\ Line(v[p].sys, 0, 0, 0)
      /\ \A i \in DOMAIN v[p].sys : v[p].sys[i].type = "Create"
      /\ \A r \in Cells \ {p} :
           v[r].life = w[r].life /\ v[r].sys = w[r].sys /\ v[r].suspends = w[r].suspends
  BY <1>0, SpawnIs
<1>2. Parent[q] \in Cells /\ a[q] \in Int
  BY <1>0, ParentCell DEF Books
<1>3. CASE q = p
  <2>1. Blank(t, p)[q] = 0 /\ Blank(z, p)[q] = 0 /\ Blank(c, p)[q] = 0 /\ Blank(d, p)[q] = 0
    BY <1>0, <1>3, BlankIs
  <2>2. 0 <= v[p].suspends
    BY <1>1, CellFields
  <2>3. Calls(v[s].sys, p, a[p])
    <3>1. Calls(w[s].sys, p, a[p])
      BY <1>0, <1>3 DEF Fit
    <3> QED
      BY <1>1, <1>2, <1>3, <3>1
  <2> QED
    BY <1>1, <1>3, <2>1, <2>2, <2>3 DEF Fit
<1>4. CASE q # p
  <2>1. /\ Blank(t, p)[q] = t[q] /\ Blank(z, p)[q] = z[q] /\ Blank(c, p)[q] = c[q]
        /\ Blank(d, p)[q] = d[q]
    BY <1>0, <1>4, BlankIs
  <2>2. v[q].life = w[q].life /\ v[q].sys = w[q].sys /\ v[q].suspends = w[q].suspends
    BY <1>1, <1>4
  <2>3. v[q].life \in {"new", "up"} => Calls(v[Parent[q]].sys, q, a[q])
    <3>1. CASE Parent[q] = p
      <4>1. \A i \in DOMAIN v[p].sys : v[p].sys[i] # Blame(q)
        BY <1>1, BlameKind
      <4> QED
        BY <1>2, <3>1, <4>1, CallsNone
    <3>2. CASE Parent[q] # p
      BY <1>0, <1>1, <1>2, <2>2, <3>2 DEF Fit
    <3> QED
      BY <3>1, <3>2
  <2> QED
    BY <1>0, <2>1, <2>2, <2>3 DEF Fit
<1> QED
  BY <1>3, <1>4

\* It holds nobody, and its supervisor holds it.
LEMMA SpawnOwn ==
  ASSUME NEW w \in [Cells -> CellType], \A q \in Cells : KidsOK(w[q].kids),
         NEW p \in Cells \ {Root}, NEW s, s = Parent[p], s # p,
         NEW v, Spawned(w, v, p, s), NEW q \in Cells, Own(w, q)
  PROVE  Own(v, q)
<1>1. CASE q = p
  <2>1. v[p].kids.c = {} /\ \A i \in DOMAIN v[p].sys : v[p].sys[i].type = "Create"
    BY SpawnIs
  <2> QED
    BY <1>1, <2>1 DEF Own
<1>2. CASE q # p
  <2>1. /\ v[q].sys = w[q].sys
        /\ v[q].kids.c \subseteq (IF q = s THEN w[q].kids.c \cup {p} ELSE w[q].kids.c)
    BY <1>2, SpawnIs
  <2>2. p \in ChildrenOf(s)
    BY DEF ChildrenOf
  <2>3. v[q].kids.c \subseteq ChildrenOf(q)
    BY <2>1, <2>2 DEF Own
  <2> QED
    BY <2>1, <2>3 DEF Own
<1> QED
  BY <1>1, <1>2

\* Nobody owes it anything.
LEMMA SpawnSettled ==
  ASSUME NEW w, NEW t, NEW z, NEW c, NEW d, NEW a, Ledger(w, t, z, c, d, a),
         \A q \in Cells : KidsOK(w[q].kids),
         NEW p \in Cells \ {Root}, w[p].life = "new", NEW s, s = Parent[p], s # p,
         s = Root \/ (w[s].life = "up" /\ w[s].suspends = 0),
         NEW v, Spawned(w, v, p, s), NEW q \in Cells \ {Root}
  PROVE  Settled(v, Blank(t, p), Blank(c, p), Blank(d, p), a, q)
<1>0. /\ w \in [Cells -> CellType] /\ Settled(w, t, c, d, a, q)
      /\ t \in Books /\ z \in Books /\ c \in Books /\ d \in Books /\ a \in Books
      /\ \A r \in Cells \ {Root} : Fit(w, r, t[r], z[r], c[r], d[r], a[r])
  BY DEF Ledger
<1>1. /\ s \in Cells /\ v[p].life = "up" /\ v[p].kids.c = {}
      /\ \A r \in Cells \ {p} :
           /\ v[r].life = w[r].life
           /\ v[r].kids.c \subseteq (IF r = s THEN w[r].kids.c \cup {p} ELSE w[r].kids.c)
           /\ \A k \in w[r].kids.c : k \in v[r].kids.c
  BY <1>0, SpawnIs
<1>2. Parent[q] \in Cells /\ a[q] \in Int /\ t[q] \in Int /\ c[q] \in Int /\ d[q] \in Int
  BY <1>0, ParentCell DEF Books
<1>3. CASE q = p
  <2>1. Blank(t, p)[q] = 0 /\ Blank(c, p)[q] = 0 /\ Blank(d, p)[q] = 0 /\ Blank(t, p)[s] = t[s]
    BY <1>0, <1>1, <1>3, BlankIs
  <2>2. s # Root => t[s] <= 0
    BY <1>0, <1>1 DEF Fit
  <2>3. Owed(v, Blank(t, p), q) <= 0
    BY <1>3, <2>1, <2>2 DEF Owed
  <2>4. a[q] = 0
    BY <1>0, <1>3 DEF Settled
  <2> QED
    BY <1>1, <1>3, <2>1, <2>3, <2>4 DEF Settled
<1>4. CASE q # p
  <2>1. Blank(t, p)[q] = t[q] /\ Blank(c, p)[q] = c[q] /\ Blank(d, p)[q] = d[q] /\ v[q].life = w[q].life
    BY <1>0, <1>1, <1>4, BlankIs
  <2>2. Owed(v, Blank(t, p), q) = Owed(w, t, q)
    <3>1. CASE Parent[q] = p
      BY <1>1, <3>1 DEF Owed
    <3>2. CASE Parent[q] # p
      <4>1. /\ v[Parent[q]].life = w[Parent[q]].life /\ Blank(t, p)[Parent[q]] = t[Parent[q]]
            /\ q \in v[Parent[q]].kids.c <=> q \in w[Parent[q]].kids.c
        <5>1. v[Parent[q]].life = w[Parent[q]].life /\ Blank(t, p)[Parent[q]] = t[Parent[q]]
          <6>1. PICK r \in Cells \ {p} : r = Parent[q]
            BY <1>2, <3>2
          <6>2. v[r].life = w[r].life
            BY <1>1
          <6>3. Blank(t, p)[r] = t[r]
            BY <1>0, BlankIs
          <6> QED
            BY <6>1, <6>2, <6>3
        <5>2. q \in v[Parent[q]].kids.c <=> q \in w[Parent[q]].kids.c
          BY <1>1, <1>2, <1>4, <3>2
        <5> QED
          BY <5>1, <5>2
      <4> QED
        BY <4>1 DEF Owed
    <3> QED
      BY <3>1, <3>2
  <2> QED
    BY <1>0, <2>1, <2>2 DEF Settled
<1> QED
  BY <1>3, <1>4

\* So everybody is held as before.
LEMMA SpawnHeld ==
  ASSUME NEW w, Held(w), \A q \in Cells : KidsOK(w[q].kids),
         NEW p \in Cells \ {Root}, w[p].life = "new", NEW s, s = Parent[p], s # p,
         s = Root \/ (w[s].life = "up" /\ w[s].suspends = 0),
         NEW v, Spawned(w, v, p, s)
  PROVE  Held(v)
<1>1. PICK t \in Books, z \in Books, c \in Books, d \in Books, a \in Books :
        Ledger(w, t, z, c, d, a) /\ Even(w, t, z, c, a, Root, 0, {})
  BY DEF Held, Spare
<1>2. PICK t1 \in Books, z1 \in Books, c1 \in Books, d1 \in Books :
        t1 = Blank(t, p) /\ z1 = Blank(z, p) /\ c1 = Blank(c, p) /\ d1 = Blank(d, p)
  BY BlankIs
<1>3. w \in [Cells -> CellType] /\ \A q \in Cells : Own(w, q)
  BY <1>1 DEF Ledger
<1>4. v \in [Cells -> CellType]
  BY <1>3, SpawnIs
<1>5. \A q \in Cells : Own(v, q)
  BY <1>3, SpawnOwn
<1>6. \A q \in Cells \ {Root} : Fit(v, q, t1[q], z1[q], c1[q], d1[q], a[q])
  BY <1>1, <1>2, SpawnFit
<1>7. \A q \in Cells \ {Root} : Settled(v, t1, c1, d1, a, q)
  BY <1>1, <1>2, SpawnSettled
<1>8. Ledger(v, t1, z1, c1, d1, a)
  BY <1>4, <1>5, <1>6, <1>7 DEF Ledger
<1>9. Even(v, t1, z1, c1, a, Root, 0, {})
  <2> SUFFICES ASSUME NEW q \in Cells \ {Root}, v[q].life = "up"
               PROVE  z1[q] + Rec(v[q].kids) + Due(q, Root, 0) <= t1[q] /\ a[q] + In(q, {}) <= c1[q]
    BY DEF Even
  <2>1. CASE q = p
    <3>1. t1[q] = 0 /\ z1[q] = 0 /\ c1[q] = 0
      BY <1>2, <2>1, BlankIs
    <3>2. a[q] = 0 /\ Rec(v[q].kids) = 0 /\ Due(q, Root, 0) = 0 /\ In(q, {}) = 0
      <4>1. a[q] = 0
        BY <1>1, <2>1 DEF Ledger, Settled
      <4>2. Rec(v[q].kids) = 0
        BY <1>3, <2>1, SpawnIs
      <4> QED
        BY <4>1, <4>2 DEF Due, In
    <3> QED
      BY <3>1, <3>2
  <2>2. CASE q # p
    <3>1. t1[q] = t[q] /\ z1[q] = z[q] /\ c1[q] = c[q]
      BY <1>2, <2>2, BlankIs
    <3>2. w[q].life = "up" /\ Rec(v[q].kids) = Rec(w[q].kids)
      BY <1>3, <2>2, SpawnIs
    <3>3. z[q] + Rec(w[q].kids) + Due(q, Root, 0) <= t[q] /\ a[q] + In(q, {}) <= c[q]
      BY <1>1, <3>2 DEF Even
    <3> QED
      BY <3>1, <3>2, <3>3
  <2> QED
    BY <2>1, <2>2
<1> QED
  BY <1>8, <1>9 DEF Held, Spare

-----------------------------------------------------------------------------
(* The steps of Next                                                       *)

\* At the beginning nobody is suspended and nothing is queued.
LEMMA InitHeld == Init => Held(cell)
<1> SUFFICES ASSUME Init PROVE Held(cell)
  OBVIOUS
<1> DEFINE kids(p) == ChildrenOf(p) \cap Started
<1>0. cell = [p \in Cells |-> IF p \in Started THEN NewCell("up", kids(p), ParentOf(p))
                              ELSE NewCell("new", {}, {})]
  BY DEF Init
<1>1. ASSUME NEW p \in Cells
      PROVE  /\ cell[p] \in CellType /\ DOMAIN cell[p].sys = {} /\ cell[p].sys = <<>>
             /\ cell[p].kids.reason = "none" /\ cell[p].kids.c \subseteq ChildrenOf(p)
             /\ cell[p].suspends = 0
  <2>1. CASE p \in Started
    <3>1. cell[p] = NewCell("up", kids(p), ParentOf(p))
      BY <1>0, <2>1
    <3>2. Parts("up", kids(p), ParentOf(p)) /\ kids(p) \subseteq ChildrenOf(p)
      BY TreeAssumption DEF Parts, ChildrenOf, ParentOf
    <3> HIDE DEF kids
    <3> QED
      BY <3>1, <3>2, NewCellOK
  <2>2. CASE p \notin Started
    <3>1. cell[p] = NewCell("new", {}, {})
      BY <1>0, <2>2
    <3>2. Parts("new", {}, {})
      BY DEF Parts
    <3> QED
      BY <3>1, <3>2, NewCellOK
  <2> QED
    BY <2>1, <2>2
<1>2. cell \in [Cells -> CellType]
  <2>1. cell = [p \in Cells |-> cell[p]]
    BY <1>0
  <2> QED
    BY <1>1, <2>1
<1>3. PICK z \in Books : \A q \in Cells : z[q] = 0
  <2>1. [q \in Cells |-> 0] \in Books
    BY DEF Books
  <2> QED
    BY <2>1
<1>4. ASSUME NEW q \in Cells \ {Root} PROVE Fit(cell, q, z[q], z[q], z[q], z[q], z[q])
  <2>1. z[q] = 0 /\ Parent[q] \in Cells
    BY <1>3, ParentCell
  <2>2. DOMAIN cell[q].sys = {} /\ DOMAIN cell[Parent[q]].sys = {} /\ cell[q].suspends = 0
        /\ cell[q].sys \in Seq(Message)
    BY <1>1, <2>1, CellFields
  <2>3. Line(cell[q].sys, 0, 0, 0)
    BY <2>2, LineNone
  <2>4. Calls(cell[Parent[q]].sys, q, 0)
    <3>1. PICK n \in Int : n = 0
      OBVIOUS
    <3>2. Calls(cell[Parent[q]].sys, q, n)
      BY <2>2, CallsNone
    <3> QED
      BY <3>1, <3>2
  <2> QED
    BY <2>1, <2>2, <2>3, <2>4 DEF Fit
<1>5. \A q \in Cells : Own(cell, q)
  BY <1>1 DEF Own
<1>6. ASSUME NEW q \in Cells \ {Root} PROVE Settled(cell, z, z, z, z, q)
  <2>1. z[q] = 0 /\ z[Parent[q]] = 0
    BY <1>3, ParentCell
  <2>2. Owed(cell, z, q) = 0
    BY <2>1 DEF Owed
  <2> QED
    BY <2>1, <2>2 DEF Settled
<1>7. Ledger(cell, z, z, z, z, z)
  BY <1>2, <1>4, <1>5, <1>6 DEF Ledger
<1>8. Even(cell, z, z, z, z, Root, 0, {})
  <2> SUFFICES ASSUME NEW q \in Cells \ {Root}
               PROVE  z[q] + Rec(cell[q].kids) + Due(q, Root, 0) <= z[q] /\ z[q] + In(q, {}) <= z[q]
    BY DEF Even
  <2>1. z[q] = 0 /\ Rec(cell[q].kids) = 0 /\ Due(q, Root, 0) = 0 /\ In(q, {}) = 0
    BY <1>1, <1>3 DEF Rec, Due, In
  <2> QED
    BY <2>1
<1> QED
  BY <1>7, <1>8 DEF Held, Spare

\* The next message is taken; what it is about to suspend or resume is due.
LEMMA TakeSpare ==
  ASSUME IInv, Held(cell), NEW p \in Cells, NEW type, Ready(p, type), NEW u, u = Popped(p)
  PROVE  /\ u \in [Cells -> CellType] /\ u[p].life = "up" /\ KidsOK(u[p].kids)
         /\ u[p].kids = cell[p].kids
         /\ type = "Suspend" => \A j \in Int : j + 1 = 0 => Spare(u, p, j, {})
         /\ type \in {"Resume", "Recreate"} => Spare(u, p, 1, {})
         /\ type \notin {"Suspend", "Resume", "Recreate"} => Spare(u, p, 0, Blamed(cell, p))
<1>1. /\ cell[p].life = "up" /\ cell[p].sys # <<>> /\ Head(cell[p].sys).type = type
  BY HeadFacts
<1>2. u = Took(cell, p) /\ cell \in [Cells -> CellType] /\ KidsOK(cell[p].kids)
  BY DEF Popped, Took, IInv, Good
<1>3. u \in [Cells -> CellType] /\ u[p].life = "up" /\ u[p].kids = cell[p].kids
  BY <1>1, <1>2, PopIs
<1>4. ASSUME NEW j \in Int, NEW k \in Int, k = Wt(Head(cell[p].sys)), j + k = 0
      PROVE  Spare(u, p, j, Blamed(cell, p)) /\ Spare(u, p, j, {})
  <2>1. Spare(u, p, j, Blamed(cell, p))
    BY <1>1, <1>2, <1>4, SparePop
  <2>2. \A q \in Cells : Due(q, p, j) <= Due(q, p, j)
    BY DEF Due
  <2> QED
    BY <2>1, <2>2, SpareLess
<1>5. ASSUME type = "Suspend", NEW j \in Int, j + 1 = 0 PROVE Spare(u, p, j, {})
  <2>1. PICK k \in Int : k = Wt(Head(cell[p].sys)) /\ k = 1
    BY <1>1, <1>5 DEF Wt
  <2> QED
    BY <1>4, <1>5, <2>1
<1>6. ASSUME type \in {"Resume", "Recreate"} PROVE Spare(u, p, 1, {})
  <2>1. PICK k \in Int, j \in Int : k = Wt(Head(cell[p].sys)) /\ k = -1 /\ j = 1 /\ j + k = 0
    BY <1>1, <1>6 DEF Wt
  <2>2. Spare(u, p, j, {})
    BY <1>4, <2>1
  <2> QED
    BY <2>1, <2>2
<1>7. ASSUME type \notin {"Suspend", "Resume", "Recreate"} PROVE Spare(u, p, 0, Blamed(cell, p))
  <2>1. PICK k \in Int, j \in Int : k = Wt(Head(cell[p].sys)) /\ k = 0 /\ j = 0 /\ j + k = 0
    BY <1>1, <1>7 DEF Wt
  <2>2. Spare(u, p, j, Blamed(cell, p))
    BY <1>4, <2>1
  <2> QED
    BY <2>1, <2>2
<1> QED
  BY <1>2, <1>3, <1>5, <1>6, <1>7

\* Create, Stop, Recreate and StopChild.
LEMMA HeldLife ==
  ASSUME IInv, Held(cell), NEW p \in Cells,
         Create(p) \/ Stop(p) \/ Recreate(p) \/ StopChildStep(p)
  PROVE  Held(cell')
<1> DEFINE u == Popped(p)
           S == Blamed(cell, p)
<1>0. PICK z \in Int : z = 0 /\ 0 <= z
  OBVIOUS
<1>1. CASE Create(p)
  <2>1. PICK ok \in BOOLEAN : Ready(p, "Create") /\ cell' = (IF ok THEN u ELSE ReportFailure(u, p))
    BY <1>1 DEF Create
  <2>2. Spare(u, p, 0, S) /\ u[p].life = "up"
    BY <2>1, TakeSpare
  <2> HIDE DEF u, S
  <2>3. Spare(u, p, z, S)
    BY <1>0, <2>2
  <2>4. Spare(ReportFailure(u, p), p, z, S)
    BY <2>2, <2>3, SpareReport
  <2>5. Spare(cell', p, z, S)
    BY <2>1, <2>3, <2>4
  <2> QED
    BY <1>0, <2>5, SpareHeld
<1>2. CASE Stop(p)
  <2>1. Ready(p, "Stop") /\ cell' = HandleStop(u, p)
    BY <1>2 DEF Stop
  <2>2. Spare(u, p, 0, S) /\ KidsOK(u[p].kids)
    BY <2>1, TakeSpare
  <2> HIDE DEF u, S
  <2>3. Spare(u, p, z, S)
    BY <1>0, <2>2
  <2>5. Spare(cell', p, z, S)
    BY <2>1, <2>2, <2>3, SpareStop
  <2> QED
    BY <1>0, <2>5, SpareHeld
<1>3. CASE Recreate(p)
  <2>1. PICK stopOk \in BOOLEAN, ok \in BOOLEAN :
          Ready(p, "Recreate") /\ cell' = FaultRecreate(u, p, stopOk, ok)
    BY <1>3 DEF Recreate
  <2>2. Spare(u, p, 1, {}) /\ KidsOK(u[p].kids) /\ u[p].life = "up"
    BY <2>1, TakeSpare
  <2> HIDE DEF u
  <2> QED
    BY <2>1, <2>2, SpareRecreate
<1>4. CASE StopChildStep(p)
  <2>1. Ready(p, "StopChild") /\ cell' = StopChild(u, p, About(p))
    BY <1>4 DEF StopChildStep
  <2>2. Spare(u, p, 0, S) /\ KidsOK(u[p].kids)
    BY <2>1, TakeSpare
  <2> HIDE DEF u, S
  <2>3. Spare(u, p, z, S)
    BY <1>0, <2>2
  <2>5. Spare(cell', p, z, S)
    BY <2>1, <2>2, <2>3, SpareStopChild
  <2> QED
    BY <1>0, <2>5, SpareHeld
<1> QED
  BY <1>1, <1>2, <1>3, <1>4

\* Suspend and Resume.
LEMMA HeldTurn ==
  ASSUME IInv, Held(cell), NEW p \in Cells, SuspendStep(p) \/ ResumeStep(p)
  PROVE  Held(cell')
<1> DEFINE u == Popped(p)
<1>1. CASE SuspendStep(p)
  <2> DEFINE h == Suspend(u, p)
             S == u[p].kids.c
  <2>1. Ready(p, "Suspend") /\ cell' = SendAll(h, h[p].kids.c, "Suspend")
    BY <1>1 DEF SuspendStep, SuspendChildren
  <2>2. PICK j \in Int, k \in Int : j + 1 = 0 /\ k = 1 /\ j + k = 0 /\ k = Wt([type |-> "Suspend"])
    <3>1. Wt([type |-> "Suspend"]) = 1
      BY DEF Wt
    <3>2. -1 \in Int /\ (-1) + 1 = 0
      OBVIOUS
    <3> QED
      BY <3>1, <3>2
  <2>3. Spare(u, p, j, {}) /\ u \in [Cells -> CellType] /\ u[p].life = "up"
    BY <2>1, <2>2, TakeSpare
  <2> HIDE DEF u
  <2>4. /\ Same(u, h)
        /\ \A q \in Cells : h[q].suspends = IF q = p THEN u[q].suspends + 1 ELSE u[q].suspends
    BY <2>3, CountIs
  <2> HIDE DEF h
  <2>5. \A q \in Cells : u[q].suspends \in Nat
    BY <2>3, CellFields
  <2>6. \A q \in Cells : h[q].suspends >= IF q = p THEN u[q].suspends + k ELSE u[q].suspends
    BY <2>2, <2>4, <2>5
  <2>7. cell' = SendAll(h, S, "Suspend")
    BY <2>1, <2>4 DEF Same
  <2> QED
    BY <2>2, <2>3, <2>4, <2>6, <2>7, SpareTurn
<1>2. CASE ResumeStep(p)
  <2> DEFINE g == Resume(u, p)
             h == [g EXCEPT ![p].failed = "none"]
             S == u[p].kids.c
  <2>1. Ready(p, "Resume") /\ cell' = SendAll(h, h[p].kids.c, "Resume")
    BY <1>2 DEF ResumeStep, ResumeChildren
  <2>2. PICK j \in Int, k \in Int : j = 1 /\ k = -1 /\ j + k = 0 /\ k = Wt([type |-> "Resume"])
    <3>1. Wt([type |-> "Resume"]) = -1
      BY DEF Wt
    <3>2. -1 \in Int /\ 1 + (-1) = 0
      OBVIOUS
    <3> QED
      BY <3>1, <3>2
  <2>3. Spare(u, p, j, {}) /\ u \in [Cells -> CellType] /\ u[p].life = "up"
    BY <2>1, <2>2, TakeSpare
  <2>10. p # Root
    <3>1. cell[p].sys[1].type = "Resume" /\ 1 \in DOMAIN cell[p].sys
      BY <2>1, HeadFacts
    <3>2. Own(cell, p)
      BY DEF Held, Spare, Ledger
    <3> QED
      BY <3>1, <3>2 DEF Own
  <2> HIDE DEF u
  <2>4. /\ Same(u, g)
        /\ \A q \in Cells : g[q].suspends >= IF q = p THEN u[q].suspends - 1 ELSE u[q].suspends
    BY <2>3, CountIs
  <2> HIDE DEF g
  <2>5. Noted(g, h)
    BY <2>4, FailedIs DEF Same
  <2> HIDE DEF h
  <2>6. Same(u, h)
    BY <2>4, <2>5 DEF Same, Noted
  <2>7. \A q \in Cells : h[q].suspends >= IF q = p THEN u[q].suspends + k ELSE u[q].suspends
    <3> TAKE q \in Cells
    <3>1. u[q].suspends \in Nat /\ g[q].suspends \in Nat /\ h[q].suspends = g[q].suspends
      BY <2>3, <2>4, <2>5, CellFields DEF Same, Noted
    <3>2. g[q].suspends >= IF q = p THEN u[q].suspends - 1 ELSE u[q].suspends
      BY <2>4
    <3> QED
      BY <2>2, <3>1, <3>2
  <2>8. cell' = SendAll(h, S, "Resume")
    BY <2>1, <2>6 DEF Same
  <2> QED
    BY <2>2, <2>3, <2>6, <2>7, <2>8, <2>10, SpareTurn
<1> QED
  BY <1>1, <1>2

\* Failure, when the supervisor holds the child and resumes no other.
LEMMA HeldFailure ==
  ASSUME IInv, Held(cell), NEW p \in Cells, Failure(p),
         <<p, "readopted">> \notin marks', <<p, "resumedAll">> \notin marks'
  PROVE  Held(cell')
<1> DEFINE u == Popped(p)
           child == About(p)
<1>1. PICK directive \in Directives, ok \in BOOLEAN :
        /\ Ready(p, "Failure") /\ cell' = HandleFailure(u, p, child, directive, ok)
        /\ marks' = marks \cup FailureMark(p, directive)
  BY DEF Failure
<1>2. /\ u \in [Cells -> CellType] /\ u[p].life = "up" /\ KidsOK(u[p].kids)
      /\ u[p].kids = cell[p].kids /\ Spare(u, p, 0, Blamed(cell, p))
  BY <1>1, TakeSpare
<1>3. /\ child \in Cells /\ Head(cell[p].sys) = Blame(child)
      /\ cell[p].sys[1] = Blame(child) /\ 1 \in DOMAIN cell[p].sys
  BY <1>1, HeadFacts DEF Blame
<1>4. child # Root
  <2>1. Own(cell, p)
    BY DEF Held, Spare, Ledger
  <2>2. child \in ChildrenOf(p)
    BY <1>3, <2>1, BlameKind DEF Own
  <2> QED
    BY <2>2 DEF ChildrenOf
<1>5. child \in cell[p].kids.c \/ (directive = "Stop" /\ cell[p].kids.variant = "normal")
  BY <1>1 DEF FailureMark
<1>6. ~(directive = "Resume" /\ p \in AllForOne)
  BY <1>1 DEF FailureMark
<1> HIDE DEF u, child
<1>7. Spare(u, p, 0, {child})
  <2>1. {child} \subseteq Blamed(cell, p)
    BY <1>3 DEF Blamed
  <2>2. PICK z \in Int : z = 0
    OBVIOUS
  <2>3. \A q \in Cells : Due(q, p, z) <= Due(q, p, z)
    BY DEF Due
  <2> QED
    BY <1>2, <2>1, <2>2, <2>3, SpareLess
<1> QED
  BY <1>1, <1>2, <1>3, <1>4, <1>5, <1>6, <1>7, SpareFailure

\* The messages of death watch, and the removal of a cell.
LEMMA HeldWatch ==
  ASSUME IInv, Held(cell), NEW p \in Cells,
         Watch(p) \/ Unwatch(p) \/ DeathWatchNotification(p) \/ Remove(p)
  PROVE  Held(cell')
<1> DEFINE u == Popped(p)
           S == Blamed(cell, p)
<1>0. PICK z \in Int : z = 0 /\ 0 <= z
  OBVIOUS
<1>1. ASSUME NEW X \in Entries, u \in [Cells -> CellType], Spare(u, p, 0, S),
             cell' = [u EXCEPT ![p].watchers = X]
      PROVE  Held(cell')
  <2> HIDE DEF u, S
  <2>1. u[p].kids \in Container
    BY <1>1, CellFields
  <2>2. Reformed(u, cell', p, u[p].kids)
    BY <1>1, <2>1, ReformMade
  <2>3. Rec(u[p].kids) <= Rec(u[p].kids)
    BY DEF Rec
  <2>4. Mild(u, cell')
    BY <1>1, <2>1, <2>2, <2>3, ReformMild
  <2>5. Spare(cell', p, z, S)
    BY <1>0, <1>1, <2>4, SpareMild
  <2> QED
    BY <1>0, <2>5, SpareHeld
<1>2. CASE Watch(p)
  <2>1. Ready(p, "Watch") /\ cell' = [u EXCEPT ![p].watchers = u[p].watchers \cup {<<About(p), "User">>}]
    BY <1>2 DEF Watch
  <2>2. u \in [Cells -> CellType] /\ Spare(u, p, 0, S) /\ About(p) \in Cells
    BY <2>1, TakeSpare, HeadFacts
  <2> HIDE DEF u
  <2>3. u[p].watchers \in Entries
    BY <2>2, CellFields
  <2>4. u[p].watchers \cup {<<About(p), "User">>} \in Entries
    BY <2>2, <2>3 DEF Entries, Kinds
  <2> QED
    BY <1>1, <2>1, <2>2, <2>4
<1>3. CASE Unwatch(p)
  <2>1. Ready(p, "Unwatch") /\ cell' = [u EXCEPT ![p].watchers = u[p].watchers \ {<<About(p), "User">>}]
    BY <1>3 DEF Unwatch
  <2>2. u \in [Cells -> CellType] /\ Spare(u, p, 0, S)
    BY <2>1, TakeSpare
  <2> HIDE DEF u
  <2>3. u[p].watchers \in Entries
    BY <2>2, CellFields
  <2>4. u[p].watchers \ {<<About(p), "User">>} \in Entries
    BY <2>3 DEF Entries
  <2> QED
    BY <1>1, <2>1, <2>2, <2>4
<1>4. CASE DeathWatchNotification(p)
  <2>1. PICK ok \in BOOLEAN :
          /\ Ready(p, "DeathWatchNotification")
          /\ cell' = HandleDeathWatchNotification(u, p, About(p), ok)
    BY <1>4 DEF DeathWatchNotification
  <2>2. Spare(u, p, 0, S) /\ KidsOK(u[p].kids) /\ u[p].life = "up" /\ About(p) \in Cells
    BY <2>1, TakeSpare, HeadFacts
  <2> HIDE DEF u, S
  <2> QED
    BY <2>1, <2>2, SpareNotified
<1>5. CASE Remove(p)
  <2>0. cell \in [Cells -> CellType] /\ \A q \in Cells : KidsOK(cell[q].kids)
    BY DEF IInv, Good
  <2>1. cell' = [q \in Cells |->
            CASE q = p -> [NewCell("gone", {}, {}) EXCEPT !.boots = cell[p].boots]
              [] q \in ParentOf(p) \ {p} /\ ({p} \X Kinds) \cap cell[q].watching = {} ->
                      [cell[q] EXCEPT !.kids = RemoveChild(@, p)]
              [] OTHER -> cell[q]]
    BY <1>5 DEF Remove
  <2>2. Removed(cell, cell', p)
    BY <2>0, <2>1, RemovedMade
  <2>3. Mild(cell, cell')
    BY <2>0, <2>2, RemoveMild
  <2>4. Spare(cell, Root, z, {})
    BY <1>0 DEF Held
  <2>5. Spare(cell', Root, z, {})
    BY <2>3, <2>4, SpareMild
  <2> QED
    BY <1>0, <2>5, SpareHeld
<1> QED
  BY <1>2, <1>3, <1>4, <1>5

\* One plain message is sent.
LEMMA OneMild ==
  ASSUME NEW w \in [Cells -> CellType], NEW t \in Cells, NEW m \in Plain
  PROVE  Mild(w, [w EXCEPT ![t].sys = Append(@, m)])
<1> DEFINE v == [w EXCEPT ![t].sys = Append(@, m)]
<1>1. m \in Message
  BY PlainKinds
<1>2. PICK b \in CellType : b = w[t]
  OBVIOUS
<1>3. PICK c \in CellType :
        /\ c = [b EXCEPT !.sys = Append(b.sys, m)]
        /\ c.life = b.life /\ c.suspends = b.suspends /\ c.kids = b.kids
        /\ c.failed = b.failed /\ c.sys = Append(b.sys, m)
  BY <1>1, SentCell
<1>4. v = [w EXCEPT ![t] = c]
  BY <1>2, <1>3
<1> HIDE DEF v
<1>5. v \in [Cells -> CellType] /\ \A q \in Cells : v[q] = IF q = t THEN c ELSE w[q]
  BY <1>4, CellSet
<1>6. ASSUME NEW q \in Cells
      PROVE  /\ v[q].life = w[q].life /\ v[q].suspends = w[q].suspends /\ v[q].kids = w[q].kids
             /\ (v[q].sys = w[q].sys \/ v[q].sys = Append(w[q].sys, m))
  BY <1>2, <1>3, <1>5
<1>7. Mild(w, v)
  BY <1>5, <1>6, SentMild
<1> QED
  BY <1>7 DEF v

\* Or refused, or answered.
LEMMA SendOfMild ==
  ASSUME NEW w \in [Cells -> CellType], NEW p \in Cells, NEW of \in Cells,
         NEW type \in {"Watch", "Unwatch", "StopChild"}, NEW v, v = SendOf(w, p, type, of)
  PROVE  Mild(w, v)
<1>1. PICK m : m = [type |-> type, of |-> of]
  OBVIOUS
<1>2. PICK n : n = [type |-> "DeathWatchNotification", of |-> p]
  OBVIOUS
<1>3. m \in Plain /\ n \in Plain
  BY <1>1, <1>2 DEF Plain
<1>4. CASE Registered(w, p)
  <2>1. v = [w EXCEPT ![p].sys = Append(@, m)]
    BY <1>1, <1>4 DEF SendOf
  <2>2. Mild(w, [w EXCEPT ![p].sys = Append(@, m)])
    BY <1>3, OneMild
  <2> QED
    BY <2>1, <2>2
<1>5. CASE ~Registered(w, p) /\ type = "Watch" /\ Registered(w, of)
  <2>1. v = [w EXCEPT ![of].sys = Append(@, n)]
    BY <1>2, <1>5 DEF SendOf
  <2>2. Mild(w, [w EXCEPT ![of].sys = Append(@, n)])
    BY <1>3, OneMild
  <2> QED
    BY <2>1, <2>2
<1>6. CASE ~Registered(w, p) /\ ~(type = "Watch" /\ Registered(w, of))
  <2>1. v = w
    BY <1>6 DEF SendOf
  <2>2. \A q \in Cells : w[q].suspends \in Nat
    BY CellFields
  <2>3. Same(w, v) /\ \A q \in Cells : w[q].suspends <= v[q].suspends
    BY <2>1, <2>2 DEF Same
  <2> QED
    BY <2>3, SameMild
<1> QED
  BY <1>4, <1>5, <1>6

\* What user code does.
LEMMA HeldUser ==
  ASSUME IInv, Held(cell), NEW p \in Cells,
         Fail(p) \/ PoisonPill(p) \/ StopActor(p) \/ TerminateSystem(p)
  PROVE  Held(cell')
<1>0. PICK z \in Int : z = 0 /\ 0 <= z
  OBVIOUS
<1>1. Spare(cell, Root, z, {}) /\ cell \in [Cells -> CellType] /\ KidsOK(cell[p].kids)
  BY <1>0 DEF Held, IInv, Good
<1>2. CASE Fail(p)
  <2>1. cell[p].life = "up" /\ cell' = ReportFailure(cell, p)
    BY <1>2 DEF Fail, Running
  <2>2. Spare(cell', Root, z, {})
    BY <1>1, <2>1, SpareReport
  <2> QED
    BY <1>0, <2>2, SpareHeld
<1>3. CASE PoisonPill(p)
  <2>1. cell' = HandleStop(cell, p)
    BY <1>3 DEF PoisonPill
  <2>2. Spare(cell', Root, z, {})
    BY <1>1, <2>1, SpareStop
  <2> QED
    BY <1>0, <2>2, SpareHeld
<1>4. CASE StopActor(p)
  <2>1. cell' = SendAll(cell, {p}, "Stop")
    BY <1>4 DEF StopActor
  <2>2. Mild(cell, cell')
    BY <1>1, <2>1, StopsMild
  <2>3. Spare(cell', Root, z, {})
    BY <1>1, <2>2, SpareMild
  <2> QED
    BY <1>0, <2>3, SpareHeld
<1>5. CASE TerminateSystem(p)
  <2>1. cell' = SendOf(cell, Root, "StopChild", p) /\ Root \in Cells
    BY <1>5, TreeAssumption DEF TerminateSystem
  <2>2. Mild(cell, cell')
    BY <1>1, <2>1, SendOfMild
  <2>3. Spare(cell', Root, z, {})
    BY <1>1, <2>2, SpareMild
  <2> QED
    BY <1>0, <2>3, SpareHeld
<1> QED
  BY <1>2, <1>3, <1>4, <1>5

\* It watches, unwatches and spawns.
LEMMA HeldUserTree ==
  ASSUME IInv, Held(cell), NEW p \in Cells, WatchActor(p) \/ UnwatchActor(p) \/ Spawn(p)
  PROVE  Held(cell')
<1>0. PICK z \in Int : z = 0 /\ 0 <= z
  OBVIOUS
<1>1. Spare(cell, Root, z, {}) /\ cell \in [Cells -> CellType] /\ \A q \in Cells : KidsOK(cell[q].kids)
  BY <1>0 DEF Held, IInv, Good
<1>2. ASSUME NEW X \in Entries, NEW h, h = [cell EXCEPT ![p].watching = X], NEW q \in Cells,
             NEW type \in {"Watch", "Unwatch", "StopChild"}, cell' = SendOf(h, q, type, p)
      PROVE  Held(cell')
  <2>1. cell[p].kids \in Container
    BY <1>1, CellFields
  <2>2. Reformed(cell, h, p, cell[p].kids)
    BY <1>1, <1>2, <2>1, ReformMade
  <2>3. Rec(cell[p].kids) <= Rec(cell[p].kids)
    BY DEF Rec
  <2>4. Mild(cell, h) /\ h \in [Cells -> CellType]
    BY <1>1, <2>1, <2>2, <2>3, ReformMild DEF Reformed
  <2>5. Mild(h, cell')
    BY <1>2, <2>4, SendOfMild
  <2>6. Spare(h, Root, z, {})
    BY <1>1, <2>4, SpareMild
  <2>7. Spare(cell', Root, z, {})
    BY <2>5, <2>6, SpareMild
  <2> QED
    BY <1>0, <2>7, SpareHeld
<1>3. cell[p].watching \in Entries
  BY <1>1, CellFields
<1>4. CASE WatchActor(p)
  <2>1. PICK q \in Cells \ {p} :
          cell' = SendOf([cell EXCEPT ![p].watching = @ \cup {<<q, "User">>}], q, "Watch", p)
    BY <1>4 DEF WatchActor
  <2>5. cell[p].watching \cup {<<q, "User">>} \in Entries
    BY <1>3 DEF Entries, Kinds
  <2>2. PICK X \in Entries : X = cell[p].watching \cup {<<q, "User">>}
    BY <2>5
  <2>3. PICK h : h = [cell EXCEPT ![p].watching = X]
    OBVIOUS
  <2>4. cell' = SendOf(h, q, "Watch", p)
    BY <2>1, <2>2, <2>3
  <2> QED
    BY <1>2, <2>3, <2>4
<1>5. CASE UnwatchActor(p)
  <2>1. PICK q \in Cells \ {p} :
          cell' = SendOf([cell EXCEPT ![p].watching = @ \ {<<q, "User">>}], q, "Unwatch", p)
    BY <1>5 DEF UnwatchActor
  <2>2. PICK X \in Entries : X = cell[p].watching \ {<<q, "User">>}
    BY <1>3 DEF Entries
  <2>3. PICK h : h = [cell EXCEPT ![p].watching = X]
    OBVIOUS
  <2>4. cell' = SendOf(h, q, "Unwatch", p)
    BY <2>1, <2>2, <2>3
  <2> QED
    BY <1>2, <2>3, <2>4
<1>6. CASE Spawn(p)
  <2>1. PICK s \in ParentOf(p) :
          /\ cell[p].life = "new" /\ (Running(s) \/ (s = Root /\ Registered(cell, Root)))
          /\ cell' = [cell EXCEPT
                ![p] = [NewCell("up", {}, {s}) EXCEPT !.sys = <<[type |-> "Create"]>>],
                ![s].kids = AddChild(@, p),
                ![s].watching = @ \cup {<<p, "Supervision">>}]
    BY <1>6 DEF Spawn
  <2>2. p # Root /\ s = Parent[p] /\ s \in Cells
    BY TreeAssumption DEF ParentOf
  <2>3. s # p /\ (s = Root \/ (cell[s].life = "up" /\ cell[s].suspends = 0))
    BY <2>1 DEF Running, Registered
  <2>4. Spawned(cell, cell', p, s)
    BY <1>1, <2>1, <2>2, <2>3, SpawnedMade
  <2> QED
    BY <1>1, <2>1, <2>2, <2>3, <2>4, SpawnHeld
<1> QED
  BY <1>4, <1>5, <1>6

-----------------------------------------------------------------------------
(* A failed actor stays suspended until its supervisor has decided         *)

\* No supervisor took a child back to decide about it, or resumed children that
\* had not failed.
Clean(M) == \A s \in Cells : <<s, "readopted">> \notin M /\ <<s, "resumedAll">> \notin M

\* A mark stays.
LEMMA MarksGrow == ASSUME Next PROVE marks \subseteq marks'
<1>1. PICK p \in Cells : SystemStep(p) \/ UserStep(p)
  BY DEF Next
<1>2. CASE SystemStep(p)
  BY <1>2 DEF SystemStep, Create, Stop, Recreate, SuspendStep, ResumeStep, Failure, Watch, Unwatch,
              StopChildStep, DeathWatchNotification, Remove
<1>3. CASE UserStep(p)
  BY <1>3 DEF UserStep, Fail, PoisonPill, StopActor, TerminateSystem, WatchActor, UnwatchActor, Spawn
<1> QED
  BY <1>1, <1>2, <1>3

\* Every step keeps the cells held.
LEMMA NextHeld ==
  ASSUME IInv, Held(cell), Next, Clean(marks')
  PROVE  Held(cell')
<1>1. PICK p \in Cells : SystemStep(p) \/ UserStep(p)
  BY DEF Next
<1>2. <<p, "readopted">> \notin marks' /\ <<p, "resumedAll">> \notin marks'
  BY DEF Clean
<1> QED
  BY <1>1, <1>2, HeldLife, HeldTurn, HeldFailure, HeldWatch, HeldUser, HeldUserTree
  DEF SystemStep, UserStep

\* A failure that is queued has its suspension.
LEMMA HeldHas ==
  ASSUME NEW w, Held(w), NEW p \in Cells \ {Root}, w[p].life = "up",
         NEW i \in DOMAIN w[Parent[p]].sys, w[Parent[p]].sys[i] = Blame(p)
  PROVE  w[p].suspends > 0
<1>1. PICK t \in Books, z \in Books, c \in Books, d \in Books, a \in Books :
        Ledger(w, t, z, c, d, a) /\ Even(w, t, z, c, a, Root, 0, {})
  BY DEF Held, Spare
<1>2. w \in [Cells -> CellType] /\ Fit(w, p, t[p], z[p], c[p], d[p], a[p])
  BY <1>1 DEF Ledger
<1>3. PICK t0 \in Int, z0 \in Int, c0 \in Int, d0 \in Int, a0 \in Int :
        t0 = t[p] /\ z0 = z[p] /\ c0 = c[p] /\ d0 = d[p] /\ a0 = a[p]
  BY DEF Books
<1>4. 1 <= a0
  <2>1. Calls(w[Parent[p]].sys, p, a0)
    BY <1>2, <1>3 DEF Fit
  <2>2. PICK h \in [DOMAIN w[Parent[p]].sys -> Int] : 1 <= h[i] /\ h[i] <= a0
    BY <2>1 DEF Calls
  <2>3. PICK n \in Int : n = h[i]
    BY <2>2
  <2>4. 1 <= n /\ n <= a0
    BY <2>2, <2>3
  <2> QED
    BY <2>4
<1>5. c0 <= z0
  <2>1. Fit(w, p, t0, z0, c0, d0, a0)
    BY <1>2, <1>3
  <2> QED
    BY <1>2, <2>1, FitLeast
<1>6. z0 <= t0 /\ a0 <= c0
  <2>1. z[p] + Rec(w[p].kids) + Due(p, Root, 0) <= t[p] /\ a[p] + In(p, {}) <= c[p]
    BY <1>1 DEF Even
  <2>2. PICK n \in {0, 1} : n = Rec(w[p].kids)
    BY DEF Rec
  <2>3. Due(p, Root, 0) = 0 /\ In(p, {}) = 0
    BY DEF Due, In
  <2>4. z0 + n + 0 <= t0 /\ a0 + 0 <= c0
    BY <1>3, <2>1, <2>2, <2>3
  <2> QED
    BY <2>2, <2>4
<1>7. t0 <= w[p].suspends /\ w[p].suspends \in Nat
  BY <1>2, <1>3, CellFields DEF Fit
<1> QED
  BY <1>4, <1>5, <1>6, <1>7

\* The cells are in order, and held unless a mark excepts them.
HInv == IInv /\ (Clean(marks) => Held(cell))

\* A failed actor handles no user message before its supervisor has decided: the
\* suspension that its report took is not lifted by anything else, whatever else
\* suspends, resumes and restarts its mailbox meanwhile.
THEOREM FailedStayHeld == Spec => []HeldUntilDecided
<1>1. Init => HInv
  BY InitInv, InitHeld DEF HInv
<1>2. HInv /\ [Next]_vars => HInv'
  <2> SUFFICES ASSUME HInv, [Next]_vars PROVE HInv'
    OBVIOUS
  <2>1. IInv'
    BY NextInv DEF HInv
  <2>2. CASE Next
    <3>1. Clean(marks') => Held(cell')
      <4>1. Clean(marks') => Clean(marks)
        BY <2>2, MarksGrow DEF Clean
      <4> QED
        BY <2>2, <4>1, NextHeld DEF HInv
    <3> QED
      BY <2>1, <3>1 DEF HInv
  <2>3. CASE UNCHANGED vars
    <3>1. cell' = cell /\ marks' = marks
      BY <2>3 DEF vars
    <3>2. Clean(marks') => Held(cell')
      BY <3>1 DEF HInv
    <3> QED
      BY <2>1, <3>2 DEF HInv
  <2> QED
    BY <2>2, <2>3
<1>3. HInv => HeldUntilDecided
  <2> SUFFICES ASSUME HInv, NEW p \in Cells \ {Root}, cell[p].life = "up",
                      \A s \in Cells : ~Marked(s, {"readopted", "resumedAll"}),
                      NEW i \in DOMAIN cell[Parent[p]].sys,
                      cell[Parent[p]].sys[i] = [type |-> "Failure", of |-> p]
               PROVE  cell[p].suspends > 0
    BY DEF HeldUntilDecided, Live
  <2>1. Clean(marks)
    BY DEF Clean, Marked
  <2>2. Held(cell) /\ cell[Parent[p]].sys[i] = Blame(p)
    BY <2>1 DEF HInv, Blame
  <2> QED
    BY <2>2, HeldHas
<1> QED
  BY <1>1, <1>2, <1>3, PTL DEF Spec
=============================================================================
