---------------------------- MODULE SystemQueue ----------------------------
(***************************************************************************)
(* The lock-free queue of system messages of a mailbox                     *)
(* (dispatch/mailbox/system_queue.rs): pushers link nodes onto a Treiber   *)
(* stack, poppers take from a list in arrival order, and whoever finds     *)
(* that list empty moves the whole stack over, reversed, under the         *)
(* draining flag.  A step is one access to memory other threads see.  A    *)
(* node is its address; a popped node is freed and its address may be      *)
(* given to a later push, as the allocator is free to do.                  *)
(***************************************************************************)
EXTENDS Naturals, Sequences, FiniteSets, SequencesExt

CONSTANTS
  Nodes,      \* addresses the allocator can hand out
  Null,       \* the null pointer
  Pushers,    \* threads that call push
  Poppers,    \* threads that call pop
  Quota,      \* bound: how often each thread pushes
  LenModulus, \* 2^width of the usize counter, scaled down
  Reuse       \* whether the allocator gives a freed address out again

ASSUME QueueAssumption ==
  /\ IsFiniteSet(Nodes) /\ IsFiniteSet(Pushers) /\ IsFiniteSet(Poppers)
  /\ Null \notin Nodes \cup (Pushers \X Nat) /\ Reuse \in BOOLEAN
  /\ Pushers \cap Poppers = {}
  /\ Quota \in [Pushers -> Nat]
  /\ LenModulus \in Nat /\ LenModulus > Cardinality(Nodes)

VARIABLES
  head,      \* top of the writers' stack
  pending,   \* first node of the readers' list
  draining,  \* the flag around the move of the stack
  len,       \* the counter
  next,      \* next pointer of each node
  message,   \* message of each node
  live,      \* allocated nodes
  pc,        \* where each thread is
  node,      \* the node a thread holds a pointer to
  seen,      \* the pointer a thread read and will compare or store
  pushes,    \* pushes each thread began
  linked,    \* history: messages in the order their nodes were linked
  popped,    \* history: what pop returned, in order
  aba        \* history: a pop stored the next pointer of another life of its address

vars == <<head, pending, draining, len, next, message, live, pc, node, seen, pushes,
          linked, popped, aba>>

Pointers == Nodes \cup {Null}
Threads == Pushers \cup Poppers
\* a message is named by its pusher and how many that pusher sent before it
Messages == UNION {{p} \X (1..Quota[p]) : p \in Pushers}

Init ==
  /\ head = Null /\ pending = Null /\ draining = FALSE /\ len = 0
  /\ next = [n \in Nodes |-> Null]
  /\ message = [n \in Nodes |-> Null]
  /\ live = {}
  /\ pc = [t \in Threads |-> "idle"]
  /\ node = [t \in Threads |-> Null]
  /\ seen = [t \in Threads |-> Null]
  /\ pushes = [p \in Pushers |-> 0]
  /\ linked = <<>> /\ popped = <<>> /\ aba = FALSE

Goto(t, where) == pc' = [pc EXCEPT ![t] = where]

-----------------------------------------------------------------------------
\* addresses the allocator may choose; unused ones are interchangeable
Available ==
  LET unused == {n \in Nodes : message[n] = Null}
      freed == {n \in Nodes \ live : message[n] # Null}
  IN  (IF unused = {} THEN {} ELSE {CHOOSE n \in unused : TRUE})
        \cup (IF Reuse THEN freed ELSE {})

\* push: Box::into_raw
Allocate(p) ==
  /\ pc[p] = "idle" /\ pushes[p] < Quota[p]
  /\ pushes' = [pushes EXCEPT ![p] = @ + 1]
  /\ \E n \in Available :
       /\ live' = live \cup {n}
       /\ message' = [message EXCEPT ![n] = <<p, pushes[p] + 1>>]
       /\ node' = [node EXCEPT ![p] = n]
  /\ Goto(p, "load")
  /\ UNCHANGED <<head, pending, draining, len, next, seen, linked, popped, aba>>

\* load head, and point the node, which is still private, at it
LoadHead(p) ==
  /\ pc[p] = "load"
  /\ seen' = [seen EXCEPT ![p] = head]
  /\ next' = [next EXCEPT ![node[p]] = head]
  /\ Goto(p, "link")
  /\ UNCHANGED <<head, pending, draining, len, message, live, node, pushes, linked, popped, aba>>

\* Mutant of Link: the head is stored without comparing it.
LinkByStore(p) ==
  /\ pc[p] = "link"
  /\ head' = node[p]
  /\ linked' = Append(linked, message[node[p]])
  /\ Goto(p, "count")
  /\ UNCHANGED <<pending, draining, len, next, message, live, node, seen, pushes, popped, aba>>

\* compare_exchange on head; a lost race loads it again
Link(p) ==
  /\ pc[p] = "link"
  /\ \/ /\ head = seen[p]
        /\ head' = node[p]
        /\ linked' = Append(linked, message[node[p]])
        /\ Goto(p, "count")
     \/ head # seen[p] /\ Goto(p, "load") /\ UNCHANGED <<head, linked>>
  /\ UNCHANGED <<pending, draining, len, next, message, live, node, seen, pushes, popped, aba>>

\* the node is visible before it is counted
Count(p) ==
  /\ pc[p] = "count"
  /\ len' = (len + 1) % LenModulus
  /\ node' = [node EXCEPT ![p] = Null]
  /\ seen' = [seen EXCEPT ![p] = Null]
  /\ Goto(p, "idle")
  /\ UNCHANGED <<head, pending, draining, next, message, live, pushes, linked, popped, aba>>

-----------------------------------------------------------------------------
\* pop: look at the readers' list
LoadPending(c) ==
  /\ pc[c] = "idle"
  /\ node' = [node EXCEPT ![c] = pending]
  /\ Goto(c, IF pending = Null THEN "drain" ELSE "next")
  /\ UNCHANGED <<head, pending, draining, len, next, message, live, seen, pushes, linked, popped, aba>>

\* pop_from_pending reads next through the pointer: of a freed node, anything
ReadNext(c) ==
  /\ pc[c] = "next"
  /\ \E p \in IF node[c] \in live THEN {next[node[c]]} ELSE Pointers :
       seen' = [seen EXCEPT ![c] = p]
  /\ Goto(c, "take")
  /\ UNCHANGED <<head, pending, draining, len, next, message, live, node, pushes, linked, popped, aba>>

\* compare_exchange on pending: the winner owns the node.  Addresses are
\* compared: the node may have been freed and allocated again since next was read.
Take(c) ==
  /\ pc[c] = "take"
  /\ \/ /\ pending = node[c]
        /\ pending' = seen[c]
        /\ popped' = Append(popped, message[node[c]])
        /\ aba' = (seen[c] # next[node[c]])
        /\ Goto(c, "discount")
     \/ pending # node[c] /\ Goto(c, "idle") /\ UNCHANGED <<pending, popped, aba>>
  /\ UNCHANGED <<head, draining, len, next, message, live, node, seen, pushes, linked>>

\* Mutant of Discount: the counter stops at zero instead of wrapping.
DiscountSaturating(c) ==
  /\ pc[c] = "discount"
  /\ len' = IF len = 0 THEN 0 ELSE len - 1
  /\ live' = live \ {node[c]}
  /\ node' = [node EXCEPT ![c] = Null]
  /\ seen' = [seen EXCEPT ![c] = Null]
  /\ Goto(c, "idle")
  /\ UNCHANGED <<head, pending, draining, next, message, pushes, linked, popped, aba>>

\* fetch_sub, and the node goes back to the allocator
Discount(c) ==
  /\ pc[c] = "discount"
  /\ len' = (len + LenModulus - 1) % LenModulus
  /\ live' = live \ {node[c]}
  /\ node' = [node EXCEPT ![c] = Null]
  /\ seen' = [seen EXCEPT ![c] = Null]
  /\ Goto(c, "idle")
  /\ UNCHANGED <<head, pending, draining, next, message, pushes, linked, popped, aba>>

\* one thread moves the stack; the others start over
AcquireDraining(c) ==
  /\ pc[c] = "drain"
  /\ draining' = TRUE
  /\ Goto(c, IF draining THEN "idle" ELSE "recheck")
  /\ UNCHANGED <<head, pending, len, next, message, live, node, seen, pushes, linked, popped, aba>>

\* an earlier drainer may have filled the list
Recheck(c) ==
  /\ pc[c] = "recheck"
  /\ Goto(c, IF pending = Null THEN "swap" ELSE "release")
  /\ UNCHANGED <<head, pending, draining, len, next, message, live, node, seen, pushes, linked,
                 popped, aba>>

\* head.swap(null); an empty stack ends the pop with None
SwapHead(c) ==
  /\ pc[c] = "swap"
  /\ node' = [node EXCEPT ![c] = head]
  /\ head' = Null
  /\ Goto(c, IF head = Null THEN "none" ELSE "publish")
  /\ UNCHANGED <<pending, draining, len, next, message, live, seen, pushes, linked, popped, aba>>

\* the nodes reached from n, in order (at most every node once)
ChainFrom(n) ==
  LET link[k \in 1..Cardinality(Nodes)] ==
        IF k = 1 THEN n ELSE IF link[k - 1] = Null THEN Null ELSE next[link[k - 1]]
  IN  [k \in {j \in DOMAIN link : link[j] # Null} |-> link[k]]

\* reverse_list on the private chain, then the store that publishes it
Publish(c) ==
  LET chain == ChainFrom(node[c])
      before == [i \in DOMAIN chain |-> IF i = 1 THEN Null ELSE chain[i - 1]]
  IN
  /\ pc[c] = "publish"
  /\ next' = [n \in Nodes |-> IF \E i \in DOMAIN chain : chain[i] = n
                              THEN before[CHOOSE i \in DOMAIN chain : chain[i] = n]
                              ELSE next[n]]
  /\ pending' = Last(chain)
  /\ Goto(c, "release")
  /\ UNCHANGED <<head, draining, len, message, live, node, seen, pushes, linked, popped, aba>>

\* Mutant of ReleaseDraining: the path that returns None keeps the flag.
ReleaseDrainingLate(c) ==
  /\ pc[c] \in {"release", "none"}
  /\ draining' = (pc[c] = "none")
  /\ node' = [node EXCEPT ![c] = Null]
  /\ Goto(c, "idle")
  /\ UNCHANGED <<head, pending, len, next, message, live, seen, pushes, linked, popped, aba>>

\* the flag is cleared: the loop goes on, or None is returned
ReleaseDraining(c) ==
  /\ pc[c] \in {"release", "none"}
  /\ draining' = FALSE
  /\ node' = [node EXCEPT ![c] = Null]
  /\ Goto(c, "idle")
  /\ UNCHANGED <<head, pending, len, next, message, live, seen, pushes, linked, popped, aba>>

Push(p) == ~aba /\ (Allocate(p) \/ LoadHead(p) \/ Link(p) \/ Count(p))

Pop(c) ==
  /\ ~aba
  /\ \/ LoadPending(c) \/ ReadNext(c) \/ Take(c) \/ Discount(c)
     \/ AcquireDraining(c) \/ Recheck(c) \/ SwapHead(c) \/ Publish(c) \/ ReleaseDraining(c)

\* once the list runs through freed memory, what the program does is undefined
Undefined == aba /\ UNCHANGED vars

Next == (\E p \in Pushers : Push(p)) \/ (\E c \in Poppers : Pop(c)) \/ Undefined

Spec == Init /\ [][Next]_vars

\* every thread inside push or pop is scheduled
FairSpec ==
  /\ Spec
  /\ \A p \in Pushers : WF_vars(Push(p))
  /\ \A c \in Poppers : WF_vars(Pop(c))

-----------------------------------------------------------------------------
(* the type of every variable                                              *)
TypeOK ==
  /\ head \in Pointers /\ pending \in Pointers /\ draining \in BOOLEAN
  /\ len \in 0..(LenModulus - 1)
  /\ next \in [Nodes -> Pointers] /\ message \in [Nodes -> Messages \cup {Null}]
  /\ live \subseteq Nodes
  /\ pc \in [Threads -> {"idle", "load", "link", "count", "next", "take", "discount", "drain",
                         "recheck", "swap", "publish", "release", "none"}]
  /\ node \in [Threads -> Pointers] /\ seen \in [Threads -> Pointers]
  /\ pushes \in [Pushers -> Nat] /\ \A p \in Pushers : pushes[p] \in 0..Quota[p]
  /\ linked \in Seq(Messages) /\ popped \in Seq(Messages) /\ aba \in BOOLEAN

Drainer == {c \in Poppers : pc[c] = "publish"}

\* messages that are linked and not popped: the list, what a drainer moves, the stack
Waiting ==
  LET text(n) == [i \in 1..Len(ChainFrom(n)) |-> message[ChainFrom(n)[i]]]
      moved == IF Drainer = {} THEN <<>> ELSE Reverse(text(node[CHOOSE c \in Drainer : TRUE]))
  IN  text(pending) \o moved \o Reverse(text(head))

(* Every message is popped once and in the order its node was linked, and   *)
(* until then it is in exactly one of the list, a drainer's hands and the   *)
(* stack, whatever pushers and poppers interleave with the move of the      *)
(* stack and whatever addresses the allocator gives out again, until a pop  *)
(* takes an address that came back with another next pointer.               *)
SystemFifo == aba \/ popped \o Waiting = linked

(* The counter may run behind the queue, and wraps below zero when a pop    *)
(* overtakes the count of its push, but every difference is a thread still  *)
(* inside push or pop: it is never wrong for good.                          *)
LenBalanced ==
  LET uncounted == Cardinality({p \in Pushers : pc[p] = "count"})
      undiscounted == Cardinality({c \in Poppers : pc[c] = "discount"})
  IN  aba \/ (len + uncounted) % LenModulus = (Len(Waiting) + undiscounted) % LenModulus

(* Whatever is pushed is popped: no message is left behind in the stack or  *)
(* in a chain nobody owns, and no thread waits for the flag for ever, unless *)
(* a pop took an address that came back.                                    *)
EverythingPopped == <>[](aba \/ Range(popped) = Messages)

(* A pop never takes an address that came back with another next pointer:   *)
(* what the compare_exchange of pop_from_pending cannot see.                *)
NeverAba == ~aba
=============================================================================
