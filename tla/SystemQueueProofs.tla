------------------------- MODULE SystemQueueProofs -------------------------
(***************************************************************************)
(* Proofs about SystemQueue, for any number of threads, addresses and      *)
(* messages: the queue is first in, first out, and its counter is wrong    *)
(* only by the updates under way, if one thread pops at a time or no freed *)
(* address is given out again.                                             *)
(***************************************************************************)
EXTENDS SystemQueue, SequenceTheorems, FiniteSetTheorems, WellFoundedInduction, TLAPS

-----------------------------------------------------------------------------
(* Sequences                                                               *)

\* The elements of a sequence are those at its indices.
LEMMA RangeMember ==
  ASSUME NEW S, NEW s \in Seq(S), NEW x
  PROVE  x \in Range(s) <=> \E i \in 1 .. Len(s) : s[i] = x
  BY DEF Range

\* The empty sequence has no elements, and only it.
LEMMA RangeEmpty ==
  ASSUME NEW S, NEW s \in Seq(S)
  PROVE  /\ Range(s) = {} <=> s = <<>>
         /\ Range(s) \subseteq S
<1>1. s # <<>> => s[1] \in Range(s)
  BY DEF Range
<1>2. s = <<>> => Range(s) = {}
  BY DEF Range
<1>3. Range(s) \subseteq S
  BY DEF Range
<1> QED
  BY <1>1, <1>2, <1>3

\* Taking the head of a sequence without repetitions removes that element.
LEMMA RangeTail ==
  ASSUME NEW S, NEW s \in Seq(S), s # <<>>
  PROVE  /\ Tail(s) \in Seq(S)
         /\ Head(s) \in S /\ Head(s) \in Range(s)
         /\ Range(s) = Range(Tail(s)) \cup {Head(s)}
         /\ IsInjective(s) => /\ IsInjective(Tail(s))
                              /\ Head(s) \notin Range(Tail(s))
                              /\ Range(Tail(s)) = Range(s) \ {Head(s)}
<1> DEFINE r == Tail(s)
<1>1. /\ r \in Seq(S) /\ Len(s) \in Nat \ {0} /\ Len(r) = Len(s) - 1 /\ Len(r) \in Nat
      /\ \A i \in 1 .. Len(r) : r[i] = s[i + 1]
      /\ Head(s) = s[1] /\ s[1] \in S
  OBVIOUS
<1>2. DOMAIN r = 1 .. Len(r)
  BY <1>1
<1>3. \A y : y \in Range(r) <=> \E i \in 1 .. Len(r) : r[i] = y
  BY <1>1, RangeMember
<1>4. \A y : y \in Range(s) <=> \E i \in 1 .. Len(s) : s[i] = y
  BY RangeMember
<1> HIDE DEF r
<1>5. \A i \in 1 .. Len(s) : i = 1 \/ (i - 1 \in 1 .. Len(r) /\ s[i] = r[i - 1])
  BY <1>1
<1>6. Range(s) = Range(r) \cup {Head(s)}
  <2>1. Range(s) \subseteq Range(r) \cup {Head(s)}
    BY <1>1, <1>3, <1>4, <1>5
  <2>2. Range(r) \subseteq Range(s)
    <3> SUFFICES ASSUME NEW i \in 1 .. Len(r) PROVE r[i] \in Range(s)
      BY <1>3
    <3>1. i + 1 \in 1 .. Len(s) /\ s[i + 1] = r[i]
      BY <1>1
    <3> QED
      BY <3>1, <1>4
  <2>3. Head(s) \in Range(s)
    BY <1>1, <1>4
  <2> QED
    BY <2>1, <2>2, <2>3
<1>7. ASSUME IsInjective(s) PROVE IsInjective(r) /\ Head(s) \notin Range(r)
  <2>1. \A i, j \in 1 .. Len(s) : s[i] = s[j] => i = j
    BY <1>7 DEF IsInjective
  <2>2. \A i \in 1 .. Len(r) : i + 1 \in 1 .. Len(s)
    BY <1>1
  <2>3. IsInjective(r)
    <3> SUFFICES ASSUME NEW i \in 1 .. Len(r), NEW j \in 1 .. Len(r), r[i] = r[j]
                 PROVE  i = j
      BY <1>2 DEF IsInjective
    <3>1. i + 1 = j + 1
      BY <1>1, <2>1, <2>2
    <3> QED
      BY <3>1
  <2>4. Head(s) \notin Range(r)
    <3> SUFFICES ASSUME NEW i \in 1 .. Len(r), r[i] = s[1] PROVE FALSE
      BY <1>1, <1>3
    <3>1. i + 1 = 1
      BY <1>1, <2>1, <2>2
    <3> QED
      BY <3>1
  <2> QED
    BY <2>3, <2>4
<1> QED
  BY <1>1, <1>6, <1>7 DEF r

\* A set of numbers has a least member.
LEMMA NatMin ==
  ASSUME NEW T \in SUBSET Nat, T # {}
  PROVE  \E x \in T : \A y \in T : x <= y
<1> DEFINE R == {ss \in Nat \X Nat : ss[1] < ss[2]}
<1>1. IsWellFoundedOn(R, Nat)
  BY NatLessThanWellFounded DEF OpToRel
<1>2. \A x, y \in Nat : y < x => <<y, x>> \in R
  OBVIOUS
<1> HIDE DEF R
<1>3. PICK x \in T : \A y \in T : ~ (<<y, x>> \in R)
  BY <1>1, WFMin
<1>4. ASSUME NEW y \in T PROVE x <= y
  <2>1. ~(y < x)
    BY <1>2, <1>3, Zenon
  <2> QED
    BY <2>1
<1> QED
  BY <1>4

\* A set that holds 0, and with a number the next one, holds them all.
LEMMA NatSteps ==
  ASSUME NEW T, 0 \in T, \A n \in Nat : n \in T => n + 1 \in T
  PROVE  \A n \in Nat : n \in T
<1> SUFFICES ASSUME Nat \ T # {} PROVE FALSE
  OBVIOUS
<1>1. PICK x \in Nat \ T : \A y \in Nat \ T : x <= y
  BY NatMin
<1>2. x # 0 /\ x \in Nat
  OBVIOUS
<1>3. x - 1 \in Nat /\ x - 1 \in T
  BY <1>1, <1>2
<1> QED
  BY <1>2, <1>3, (x - 1) + 1 = x

-----------------------------------------------------------------------------
\* Addresses do not come back, or nobody else pops while one is held.
NoAba == ~Reuse \/ \A c, d \in Poppers : c = d

-----------------------------------------------------------------------------
(* The inductive invariant                                                 *)

\* s is the list of nodes that starts at n, with nx for the next pointers.
Chain(nx, n, s) ==
  /\ s \in Seq(Nodes) /\ IsInjective(s)
  /\ n = IF s = <<>> THEN Null ELSE s[1]
  /\ \A i \in 1 .. Len(s) : nx[s[i]] = IF i = Len(s) THEN Null ELSE s[i + 1]

Text(ms, s) == [i \in 1 .. Len(s) |-> ms[s[i]]]

\* A thread inside the flag is alone there, and finds the list empty until it
\* fills it.
Draining(c) == pc[c] \in {"recheck", "swap", "publish", "release", "none"}
GuardInv ==
  \A c \in Poppers : Draining(c) =>
    /\ draining
    /\ \A d \in Poppers : Draining(d) => d = c
    /\ pc[c] \in {"swap", "publish"} => pending = Null

\* The readers' list is P, the chain a drainer moves is D, the stack is S.
ListsInv(P, D, S) ==
  /\ Chain(next, pending, P) /\ Chain(next, head, S)
  /\ D \in Seq(Nodes)
  /\ \A c \in Drainer : Chain(next, node[c], D) /\ D # <<>>
  /\ Drainer = {} => D = <<>>
  /\ Range(P) \cap Range(D) = {} /\ Range(P) \cap Range(S) = {} /\ Range(D) \cap Range(S) = {}

\* What was linked is what was popped and what waits.
OrderInv(P, D, S) ==
  linked = popped \o ((Text(message, P) \o Reverse(Text(message, D))) \o Reverse(Text(message, S)))

Private(p) == pc[p] \in {"load", "link"}

\* Where the threads' pointers point, L being the nodes of the list and Q all
\* nodes of the queue.  A node of the queue is allocated and written.
NodesInv(Q) == \A n \in Q : n \in live /\ message[n] # Null

\* A pusher's node is its own until it is linked.
PushersInv(Q) ==
  \A p \in Pushers : Private(p) =>
    /\ node[p] \in live /\ node[p] \notin Q /\ message[node[p]] # Null
    /\ pc[p] = "link" => next[node[p]] = seen[p]
    /\ \A q \in Pushers : Private(q) /\ node[q] = node[p] => q = p

\* A popper between its load and its exchange holds a pointer.
HeldInv == \A c \in Poppers : pc[c] \in {"next", "take"} => node[c] \in Nodes

\* Where no address can come back, that node is in the list or has left the
\* queue; no pusher has it, and what was read through it holds while it is in
\* the list.
ReadersInv(L, Q) ==
  \A c \in Poppers : pc[c] \in {"next", "take"} =>
    /\ node[c] \in Nodes /\ message[node[c]] # Null
    /\ node[c] \in Q => node[c] \in L
    /\ \A p \in Pushers : Private(p) => node[p] # node[c]
    /\ Reuse => node[c] = pending
    /\ pc[c] = "take" /\ node[c] \in L => seen[c] = next[node[c]]

\* A node that was taken belongs to its taker, until it is freed.
TakersInv(Q) ==
  \A c \in Poppers : pc[c] = "discount" =>
    /\ node[c] \in Nodes /\ node[c] \notin Q /\ message[node[c]] # Null
    /\ \A p \in Pushers : Private(p) => node[p] # node[c]
    /\ node[c] \in live
    /\ \A e \in Poppers : pc[e] = "discount" /\ node[e] = node[c] => e = c

PointersInv(L, Q) == NodesInv(Q) /\ PushersInv(Q) /\ TakersInv(Q) /\ (NoAba => ReadersInv(L, Q))

Shape(P, D, S) ==
  /\ ListsInv(P, D, S) /\ OrderInv(P, D, S)
  /\ PointersInv(Range(P), Range(P) \cup Range(D) \cup Range(S))

IInv ==
  /\ TypeOK /\ HeldInv
  /\ NoAba => ~aba
  /\ aba \/ (GuardInv /\ \E P, D, S : Shape(P, D, S))

-----------------------------------------------------------------------------
(* Chains                                                                  *)

\* The indices of a chain.
LEMMA ChainFacts ==
  ASSUME NEW nx, NEW n, NEW s, Chain(nx, n, s)
  PROVE  /\ s \in Seq(Nodes) /\ Len(s) \in Nat /\ DOMAIN s = 1 .. Len(s)
         /\ \A i \in 1 .. Len(s) : s[i] \in Nodes
         /\ \A i, j \in 1 .. Len(s) : s[i] = s[j] => i = j
         /\ s = <<>> <=> n = Null
         /\ s # <<>> => Len(s) >= 1 /\ s[1] = n /\ n \in Nodes
<1>1. s \in Seq(Nodes) /\ IsInjective(s) /\ n = IF s = <<>> THEN Null ELSE s[1]
  BY DEF Chain
<1>2. Len(s) \in Nat /\ DOMAIN s = 1 .. Len(s) /\ \A i \in 1 .. Len(s) : s[i] \in Nodes
  BY <1>1
<1>3. \A i, j \in 1 .. Len(s) : s[i] = s[j] => i = j
  BY <1>1, <1>2 DEF IsInjective
<1>4. s # <<>> => Len(s) >= 1
  BY <1>1
<1>5. Null \notin Nodes
  BY QueueAssumption
<1> QED
  BY <1>1, <1>2, <1>3, <1>4, <1>5

\* A chain has no more nodes than there are.
LEMMA ChainShort ==
  ASSUME NEW nx, NEW n, NEW s, Chain(nx, n, s)
  PROVE  Len(s) <= Cardinality(Nodes) /\ Cardinality(Nodes) \in Nat
<1>1. /\ s \in Seq(Nodes) /\ Len(s) \in Nat /\ DOMAIN s = 1 .. Len(s)
      /\ \A i \in 1 .. Len(s) : s[i] \in Nodes
      /\ \A i, j \in 1 .. Len(s) : s[i] = s[j] => i = j
  BY ChainFacts
<1>2. IsFiniteSet(Nodes)
  BY QueueAssumption
<1>3. s \in [1 .. Len(s) -> Nodes]
  BY <1>1
<1>4. s \in Injection(1 .. Len(s), Nodes)
  BY <1>1, <1>3 DEF Injection, IsInjective
<1>5. IsFiniteSet(1 .. Len(s)) /\ Cardinality(1 .. Len(s)) = Len(s)
  <2>1. Cardinality(1 .. Len(s)) = IF 1 > Len(s) THEN 0 ELSE Len(s) - 1 + 1
    BY <1>1, FS_Interval
  <2> QED
    BY <1>1, <2>1, FS_Interval
<1>6. Cardinality(1 .. Len(s)) <= Cardinality(Nodes)
  BY <1>2, <1>4, FS_Injection
<1>7. Cardinality(Nodes) \in Nat
  BY <1>2, FS_CardinalityType
<1> QED
  BY <1>5, <1>6, <1>7

\* What the drainer walks is the chain.
LEMMA ChainIs ==
  ASSUME NEW n, NEW s, Chain(next, n, s)
  PROVE  ChainFrom(n) = s
<1> DEFINE N == Cardinality(Nodes)
           step(g) == [k \in 1 .. N |->
                         IF k = 1 THEN n ELSE IF g[k - 1] = Null THEN Null ELSE next[g[k - 1]]]
           l == [k \in 1 .. N |-> IF k <= Len(s) THEN s[k] ELSE Null]
           link == CHOOSE g : g = step(g)
<1>1. /\ s \in Seq(Nodes) /\ Len(s) \in Nat /\ DOMAIN s = 1 .. Len(s)
      /\ \A i \in 1 .. Len(s) : s[i] \in Nodes
      /\ s = <<>> <=> n = Null
      /\ s # <<>> => Len(s) >= 1 /\ s[1] = n /\ n \in Nodes
  BY ChainFacts
<1>2. N \in Nat /\ Len(s) <= N
  BY ChainShort
<1>3. \A i \in 1 .. Len(s) : next[s[i]] = IF i = Len(s) THEN Null ELSE s[i + 1]
  BY DEF Chain
<1>4. Null \notin Nodes
  BY QueueAssumption
<1> HIDE DEF N
<1>5. l = step(l)
  <2>1. ASSUME NEW k \in 1 .. N
        PROVE  l[k] = IF k = 1 THEN n ELSE IF l[k - 1] = Null THEN Null ELSE next[l[k - 1]]
    <3>1. CASE k = 1
      <4>1. Len(s) = 0 => s = <<>>
        BY <1>1
      <4> QED
        BY <1>1, <1>2, <3>1, <4>1
    <3>2. CASE k # 1
      <4>1. k - 1 \in 1 .. N
        BY <1>2, <3>2
      <4>2. CASE k - 1 <= Len(s)
        <5>1. l[k - 1] = s[k - 1] /\ s[k - 1] # Null /\ k - 1 \in 1 .. Len(s)
          BY <1>1, <1>2, <1>4, <4>1, <4>2
        <5>2. next[s[k - 1]] = IF k - 1 = Len(s) THEN Null ELSE s[(k - 1) + 1]
          BY <1>3, <5>1
        <5> QED
          BY <1>1, <1>2, <3>2, <5>1, <5>2
      <4>3. CASE ~(k - 1 <= Len(s))
        BY <1>1, <1>2, <3>2, <4>1, <4>3
      <4> QED
        BY <4>2, <4>3
    <3> QED
      BY <3>1, <3>2
  <2> QED
    BY <2>1
<1>6. link = step(link)
  BY <1>5
<1> HIDE DEF link
<1>7. \A k \in 1 .. N : link[k] = l[k]
  <2> DEFINE T == {j \in Nat : j + 1 \in 1 .. N => link[j + 1] = l[j + 1]}
  <2> HIDE DEF l
  <2>0. \A k \in 1 .. N :
          /\ link[k] = IF k = 1 THEN n ELSE IF link[k - 1] = Null THEN Null ELSE next[link[k - 1]]
          /\ l[k] = IF k = 1 THEN n ELSE IF l[k - 1] = Null THEN Null ELSE next[l[k - 1]]
    BY <1>5, <1>6
  <2>1. 0 \in T
    BY <1>2, <2>0
  <2>2. ASSUME NEW j \in Nat, j \in T PROVE j + 1 \in T
    <3> SUFFICES ASSUME (j + 1) + 1 \in 1 .. N PROVE link[(j + 1) + 1] = l[(j + 1) + 1]
      OBVIOUS
    <3>1. j + 1 \in 1 .. N /\ (j + 1) + 1 # 1 /\ ((j + 1) + 1) - 1 = j + 1
      BY <1>2
    <3>2. link[j + 1] = l[j + 1]
      BY <2>2, <3>1
    <3> QED
      BY <2>0, <3>1, <3>2
  <2> HIDE DEF T
  <2>3. \A j \in Nat : j \in T
    BY <2>1, <2>2, NatSteps
  <2>4. ASSUME NEW k \in 1 .. N PROVE link[k] = l[k]
    <3>1. k - 1 \in Nat /\ (k - 1) + 1 = k
      BY <1>2
    <3>2. k - 1 \in T
      BY <2>3, <3>1
    <3> QED
      BY <3>1, <3>2 DEF T
  <2> QED
    BY <2>4
<1>8. ChainFrom(n) = [k \in {j \in DOMAIN link : link[j] # Null} |-> link[k]]
  BY DEF ChainFrom, link, N
<1>9. DOMAIN link = 1 .. N
  BY <1>6
<1>10. {j \in DOMAIN link : link[j] # Null} = 1 .. Len(s)
  <2>1. \A j \in 1 .. N : link[j] # Null <=> j <= Len(s)
    BY <1>1, <1>4, <1>7
  <2> QED
    BY <1>1, <1>2, <1>9, <2>1
<1>11. \A k \in 1 .. Len(s) : link[k] = s[k]
  BY <1>1, <1>2, <1>7
<1> QED
  BY <1>1, <1>8, <1>10, <1>11

\* A chain whose pointers stay stays.
LEMMA ChainKeep ==
  ASSUME NEW nx, NEW n, NEW s, Chain(nx, n, s), NEW ny, \A m \in Range(s) : ny[m] = nx[m]
  PROVE  Chain(ny, n, s)
<1>1. DOMAIN s = 1 .. Len(s)
  BY ChainFacts
<1>2. \A i \in 1 .. Len(s) : ny[s[i]] = nx[s[i]]
  BY <1>1 DEF Range
<1> QED
  BY <1>2 DEF Chain

\* The empty chain.
LEMMA ChainNone == \A nx : Chain(nx, Null, <<>>)
  BY DEF Chain, IsInjective

\* A node pushed on a chain.
LEMMA ChainPush ==
  ASSUME NEW nx, NEW n, NEW s, Chain(nx, n, s), NEW m \in Nodes, m \notin Range(s), nx[m] = n
  PROVE  Chain(nx, m, <<m>> \o s) /\ Range(<<m>> \o s) = Range(s) \cup {m}
<1> DEFINE t == <<m>> \o s
<1>1. /\ s \in Seq(Nodes) /\ Len(s) \in Nat /\ DOMAIN s = 1 .. Len(s)
      /\ \A i \in 1 .. Len(s) : s[i] \in Nodes
      /\ \A i, j \in 1 .. Len(s) : s[i] = s[j] => i = j
      /\ s = <<>> <=> n = Null
      /\ s # <<>> => Len(s) >= 1 /\ s[1] = n /\ n \in Nodes
  BY ChainFacts
<1>2. /\ t \in Seq(Nodes) /\ Len(t) = Len(s) + 1 /\ t[1] = m
      /\ \A i \in 2 .. Len(s) + 1 : t[i] = s[i - 1]
  BY <1>1
<1>3. \A i \in 1 .. Len(s) : nx[s[i]] = IF i = Len(s) THEN Null ELSE s[i + 1]
  BY DEF Chain
<1>4. \A i \in 1 .. Len(s) : s[i] # m
  BY <1>1 DEF Range
<1> HIDE DEF t
<1>5. DOMAIN t = 1 .. Len(s) + 1
  BY <1>2
<1>6. IsInjective(t)
  <2> SUFFICES ASSUME NEW i \in 1 .. Len(s) + 1, NEW j \in 1 .. Len(s) + 1, t[i] = t[j]
               PROVE  i = j
    BY <1>5 DEF IsInjective
  <2>1. CASE i = 1 \/ j = 1
    BY <1>1, <1>2, <1>4, <2>1
  <2>2. CASE i # 1 /\ j # 1
    <3>1. i - 1 \in 1 .. Len(s) /\ j - 1 \in 1 .. Len(s) /\ s[i - 1] = s[j - 1]
      BY <1>1, <1>2, <2>2
    <3>2. i - 1 = j - 1
      BY <1>1, <3>1
    <3> QED
      BY <3>2
  <2> QED
    BY <2>1, <2>2
<1>7. ASSUME NEW i \in 1 .. Len(t)
      PROVE  nx[t[i]] = IF i = Len(t) THEN Null ELSE t[i + 1]
  <2>1. CASE i = 1 /\ Len(s) = 0
    BY <1>1, <1>2, <2>1
  <2>2. CASE i = 1 /\ Len(s) # 0
    <3>1. s # <<>> /\ 2 \in 2 .. Len(s) + 1
      BY <1>1, <2>2
    <3>2. t[2] = s[1]
      BY <1>2, <3>1
    <3> QED
      BY <1>1, <1>2, <2>2, <3>1, <3>2
  <2>3. CASE i # 1
    <3>1. i - 1 \in 1 .. Len(s) /\ t[i] = s[i - 1]
      BY <1>1, <1>2, <2>3
    <3>2. nx[s[i - 1]] = IF i - 1 = Len(s) THEN Null ELSE s[(i - 1) + 1]
      BY <1>3, <3>1
    <3>3. CASE i = Len(t)
      BY <1>1, <1>2, <3>1, <3>2, <3>3
    <3>4. CASE i # Len(t)
      <4>1. i + 1 \in 2 .. Len(s) + 1 /\ (i + 1) - 1 = (i - 1) + 1 /\ i - 1 # Len(s)
        BY <1>1, <1>2, <2>3, <3>4
      <4> QED
        BY <1>2, <3>1, <3>2, <3>4, <4>1
    <3> QED
      BY <3>3, <3>4
  <2> QED
    BY <1>1, <2>1, <2>2, <2>3
<1>8. t # <<>>
  BY <1>1, <1>2
<1>9. Chain(nx, m, t)
  BY <1>2, <1>6, <1>7, <1>8 DEF Chain
<1>10. Range(t) = Range(s) \cup {m}
  <2>1. ASSUME NEW x \in Range(t) PROVE x \in Range(s) \cup {m}
    <3>1. PICK i \in 1 .. Len(s) + 1 : x = t[i]
      BY <1>5, <2>1 DEF Range
    <3>2. CASE i = 1
      BY <1>2, <3>1, <3>2
    <3>3. CASE i # 1
      <4>1. i - 1 \in 1 .. Len(s) /\ x = s[i - 1]
        BY <1>1, <1>2, <3>1, <3>3
      <4> QED
        BY <1>1, <4>1 DEF Range
    <3> QED
      BY <3>2, <3>3
  <2>2. ASSUME NEW x \in Range(s) PROVE x \in Range(t)
    <3>1. PICK i \in 1 .. Len(s) : x = s[i]
      BY <1>1, <2>2 DEF Range
    <3>2. i + 1 \in 2 .. Len(s) + 1 /\ (i + 1) - 1 = i
      BY <1>1
    <3>3. t[i + 1] = x /\ i + 1 \in DOMAIN t
      BY <1>1, <1>2, <1>5, <3>1, <3>2
    <3> QED
      BY <3>3 DEF Range
  <2>3. m \in Range(t)
    <3>1. 1 \in DOMAIN t
      BY <1>1, <1>5
    <3> QED
      BY <1>2, <3>1 DEF Range
  <2> QED
    BY <2>1, <2>2, <2>3
<1> QED
  BY <1>9, <1>10 DEF t

\* The first node of a chain is taken off.
LEMMA ChainTail ==
  ASSUME NEW nx, NEW n, NEW s, Chain(nx, n, s), s # <<>>
  PROVE  /\ Chain(nx, nx[n], Tail(s)) /\ Head(s) = n /\ n \in Range(s)
         /\ Range(Tail(s)) = Range(s) \ {n}
<1>1. /\ s \in Seq(Nodes) /\ Len(s) \in Nat /\ DOMAIN s = 1 .. Len(s)
      /\ \A i \in 1 .. Len(s) : s[i] \in Nodes
      /\ Len(s) >= 1 /\ s[1] = n /\ n \in Nodes
  BY ChainFacts
<1>2. /\ Tail(s) \in Seq(Nodes) /\ Len(Tail(s)) = Len(s) - 1 /\ Head(s) = n
      /\ \A i \in 1 .. Len(s) - 1 : Tail(s)[i] = s[i + 1]
  BY <1>1
<1>3. \A i \in 1 .. Len(s) : nx[s[i]] = IF i = Len(s) THEN Null ELSE s[i + 1]
  BY DEF Chain
<1>4. IsInjective(s)
  BY DEF Chain
<1>5. IsInjective(Tail(s)) /\ Range(Tail(s)) = Range(s) \ {n} /\ n \in Range(s)
  BY <1>1, <1>2, <1>4, RangeTail
<1> DEFINE t == Tail(s)
<1> HIDE DEF t
<1>6. /\ t \in Seq(Nodes) /\ Len(t) = Len(s) - 1 /\ \A i \in 1 .. Len(s) - 1 : t[i] = s[i + 1]
  BY <1>2 DEF t
<1>7. ASSUME NEW i \in 1 .. Len(t) PROVE nx[t[i]] = IF i = Len(t) THEN Null ELSE t[i + 1]
  <2>1. i \in 1 .. Len(s) - 1 /\ i + 1 \in 1 .. Len(s)
    BY <1>1, <1>6
  <2>2. nx[s[i + 1]] = IF i + 1 = Len(s) THEN Null ELSE s[(i + 1) + 1]
    BY <1>3, <2>1
  <2>3. CASE i = Len(t)
    BY <1>1, <1>6, <2>1, <2>2, <2>3
  <2>4. CASE i # Len(t)
    <3>0. Len(s) \in Nat /\ Len(t) = Len(s) - 1
      BY <1>1, <1>6
    <3>1. i + 1 \in 1 .. Len(s) - 1 /\ i + 1 # Len(s)
      BY <2>4, <3>0
    <3> QED
      BY <1>6, <2>1, <2>2, <2>4, <3>1
  <2> QED
    BY <2>3, <2>4
<1>8. nx[n] = IF t = <<>> THEN Null ELSE t[1]
  <2>1. 1 \in 1 .. Len(s)
    BY <1>1
  <2>2. nx[s[1]] = IF 1 = Len(s) THEN Null ELSE s[1 + 1]
    BY <1>3, <2>1
  <2>3. CASE Len(s) = 1
    <3>1. t = <<>>
      BY <1>6, <2>3
    <3> QED
      BY <1>1, <2>2, <2>3, <3>1
  <2>4. CASE Len(s) # 1
    <3>1. Len(t) # 0 /\ 1 \in 1 .. Len(s) - 1
      BY <1>1, <1>6, <2>4
    <3>2. t # <<>>
      BY <3>1
    <3> QED
      BY <1>1, <1>6, <2>2, <2>4, <3>1, <3>2
  <2> QED
    BY <2>3, <2>4
<1>9. IsInjective(t)
  BY <1>5 DEF t
<1>10. Chain(nx, nx[n], t)
  BY <1>6, <1>7, <1>8, <1>9 DEF Chain
<1> QED
  BY <1>2, <1>5, <1>10 DEF t

\* A chain is turned around.
LEMMA ChainReverse ==
  ASSUME NEW nx, NEW n, NEW s, Chain(nx, n, s), s # <<>>, NEW ny,
         \A i \in 1 .. Len(s) : ny[s[i]] = IF i = 1 THEN Null ELSE s[i - 1]
  PROVE  Chain(ny, s[Len(s)], Reverse(s)) /\ Range(Reverse(s)) = Range(s)
<1> DEFINE t == Reverse(s)
<1>1. /\ s \in Seq(Nodes) /\ Len(s) \in Nat /\ DOMAIN s = 1 .. Len(s)
      /\ \A i \in 1 .. Len(s) : s[i] \in Nodes
      /\ \A i, j \in 1 .. Len(s) : s[i] = s[j] => i = j
      /\ Len(s) >= 1 /\ s[1] = n /\ n \in Nodes
  BY ChainFacts
<1>2. \A i \in 1 .. Len(s) : (Len(s) - i) + 1 \in 1 .. Len(s)
  BY <1>1
<1>3. /\ t \in Seq(Nodes) /\ Len(t) = Len(s)
      /\ \A i \in 1 .. Len(s) : t[i] = s[(Len(s) - i) + 1]
  BY <1>1, <1>2 DEF Reverse
<1> HIDE DEF t
<1>4. DOMAIN t = 1 .. Len(s)
  BY <1>3
<1>5. IsInjective(t)
  <2> SUFFICES ASSUME NEW i \in 1 .. Len(s), NEW j \in 1 .. Len(s), t[i] = t[j]
               PROVE  i = j
    BY <1>4 DEF IsInjective
  <2> DEFINE k == (Len(s) - i) + 1
             l == (Len(s) - j) + 1
  <2>0. k \in 1 .. Len(s) /\ l \in 1 .. Len(s) /\ t[i] = s[k] /\ t[j] = s[l]
    BY <1>2, <1>3
  <2> HIDE DEF k, l
  <2>1. k = l
    BY <1>1, <2>0
  <2> QED
    BY <1>1, <2>1 DEF k, l
<1>6. ASSUME NEW i \in 1 .. Len(t) PROVE ny[t[i]] = IF i = Len(t) THEN Null ELSE t[i + 1]
  <2>1. i \in 1 .. Len(s) /\ (Len(s) - i) + 1 \in 1 .. Len(s) /\ t[i] = s[(Len(s) - i) + 1]
    BY <1>2, <1>3
  <2>2. CASE i = Len(t)
    BY <1>1, <1>3, <2>1, <2>2
  <2>3. CASE i # Len(t)
    <3> DEFINE k == (Len(s) - i) + 1
    <3>0. Len(s) \in Nat /\ Len(t) = Len(s)
      BY <1>1, <1>3
    <3>1. i \in Nat /\ i < Len(s)
      BY <2>3, <3>0
    <3>2. i + 1 \in 1 .. Len(s) /\ k # 1 /\ k - 1 = (Len(s) - (i + 1)) + 1
      BY <1>1, <3>1
    <3>3. k \in 1 .. Len(s) /\ t[i] = s[k]
      BY <2>1
    <3>4. t[i + 1] = s[k - 1]
      BY <1>3, <3>2
    <3> HIDE DEF k
    <3>5. ny[s[k]] = s[k - 1]
      BY <3>2, <3>3
    <3> QED
      BY <2>3, <3>3, <3>4, <3>5
  <2> QED
    BY <2>2, <2>3
<1>7. t # <<>> /\ t[1] = s[Len(s)]
  BY <1>1, <1>3
<1>8. Range(t) = Range(s)
  <2>1. ASSUME NEW x \in Range(t) PROVE x \in Range(s)
    <3>1. PICK i \in 1 .. Len(s) : x = t[i]
      BY <1>4, <2>1 DEF Range
    <3> QED
      BY <1>1, <1>2, <1>3, <3>1 DEF Range
  <2>2. ASSUME NEW x \in Range(s) PROVE x \in Range(t)
    <3>1. PICK i \in 1 .. Len(s) : x = s[i]
      BY <1>1, <2>2 DEF Range
    <3>2. (Len(s) - i) + 1 \in 1 .. Len(s) /\ (Len(s) - ((Len(s) - i) + 1)) + 1 = i
      BY <1>1
    <3>3. t[(Len(s) - i) + 1] = x
      BY <1>3, <3>1, <3>2
    <3> QED
      BY <1>4, <3>2, <3>3 DEF Range
  <2> QED
    BY <2>1, <2>2
<1>9. Chain(ny, s[Len(s)], t)
  BY <1>3, <1>5, <1>6, <1>7 DEF Chain
<1> QED
  BY <1>8, <1>9 DEF t

-----------------------------------------------------------------------------
(* The messages of a chain, and how they follow each other                 *)

\* The messages of a list of nodes that all have one.
LEMMA TextFacts ==
  ASSUME NEW ms, NEW s \in Seq(Nodes), NEW M, \A m \in Range(s) : ms[m] \in M
  PROVE  /\ Text(ms, s) \in Seq(M) /\ Len(Text(ms, s)) = Len(s)
         /\ \A i \in 1 .. Len(s) : Text(ms, s)[i] = ms[s[i]]
<1>1. DOMAIN s = 1 .. Len(s) /\ Len(s) \in Nat
  OBVIOUS
<1>2. \A i \in 1 .. Len(s) : ms[s[i]] \in M
  BY <1>1 DEF Range
<1> QED
  BY <1>1, <1>2 DEF Text

\* No node, no message.
LEMMA TextNone == \A ms : Text(ms, <<>>) = <<>>
  BY DEF Text

\* Messages written elsewhere do not show.
LEMMA TextKeep ==
  ASSUME NEW ms, NEW s \in Seq(Nodes), NEW mt, \A m \in Range(s) : mt[m] = ms[m]
  PROVE  Text(mt, s) = Text(ms, s)
<1>1. DOMAIN s = 1 .. Len(s)
  OBVIOUS
<1>2. \A i \in 1 .. Len(s) : mt[s[i]] = ms[s[i]]
  BY <1>1 DEF Range
<1> QED
  BY <1>2 DEF Text

\* Reverse by its indices.
LEMMA ReverseFacts ==
  ASSUME NEW M, NEW s \in Seq(M)
  PROVE  /\ Reverse(s) \in Seq(M) /\ Len(Reverse(s)) = Len(s)
         /\ \A i \in 1 .. Len(s) : Reverse(s)[i] = s[(Len(s) - i) + 1]
<1>1. Len(s) \in Nat
  OBVIOUS
<1>2. \A i \in 1 .. Len(s) : (Len(s) - i) + 1 \in 1 .. Len(s)
  BY <1>1
<1> QED
  BY <1>1, <1>2 DEF Reverse

\* Nothing, turned around.
LEMMA ReverseNone == Reverse(<<>>) = <<>>
  BY DEF Reverse

\* What is put on top of the stack comes last.
LEMMA TextPush ==
  ASSUME NEW ms, NEW s \in Seq(Nodes), NEW n \in Nodes, NEW M,
         \A m \in Range(s) : ms[m] \in M, ms[n] \in M
  PROVE  Reverse(Text(ms, <<n>> \o s)) = Append(Reverse(Text(ms, s)), ms[n])
<1> DEFINE a == Text(ms, s)
           t == <<n>> \o s
           b == Text(ms, t)
<1>1. Len(s) \in Nat /\ DOMAIN s = 1 .. Len(s)
  OBVIOUS
<1>2. /\ t \in Seq(Nodes) /\ Len(t) = Len(s) + 1 /\ t[1] = n
      /\ \A i \in 2 .. Len(s) + 1 : t[i] = s[i - 1]
  OBVIOUS
<1>3. a \in Seq(M) /\ Len(a) = Len(s) /\ \A i \in 1 .. Len(s) : a[i] = ms[s[i]]
  BY TextFacts
<1> HIDE DEF t, a
<1>4. \A i \in 1 .. Len(s) : ms[s[i]] \in M
  BY <1>1 DEF Range
<1>5. ASSUME NEW i \in 1 .. Len(t) PROVE ms[t[i]] \in M
  <2>1. CASE i = 1
    BY <1>2, <2>1
  <2>2. CASE i # 1
    <3>1. i - 1 \in 1 .. Len(s) /\ i \in 2 .. Len(s) + 1
      BY <1>1, <1>2, <2>2
    <3> QED
      BY <1>2, <1>4, <3>1
  <2> QED
    BY <2>1, <2>2
<1>6. b \in Seq(M) /\ Len(b) = Len(s) + 1 /\ \A i \in 1 .. Len(s) + 1 : b[i] = ms[t[i]]
  <2>1. \A m \in Range(t) : ms[m] \in M
    <3>1. DOMAIN t = 1 .. Len(t)
      BY <1>2
    <3> QED
      BY <1>5, <3>1 DEF Range
  <2>2. b \in Seq(M) /\ Len(b) = Len(t) /\ \A i \in 1 .. Len(t) : b[i] = ms[t[i]]
    BY <1>2, <2>1, TextFacts
  <2> QED
    BY <1>2, <2>2
<1> HIDE DEF b
<1> DEFINE x == Reverse(a)
           y == Reverse(b)
           z == Append(x, ms[n])
<1>7. x \in Seq(M) /\ Len(x) = Len(s) /\ \A i \in 1 .. Len(s) : x[i] = a[(Len(s) - i) + 1]
  BY <1>3, ReverseFacts
<1>8. /\ y \in Seq(M) /\ Len(y) = Len(s) + 1
      /\ \A i \in 1 .. Len(s) + 1 : y[i] = b[((Len(s) + 1) - i) + 1]
  BY <1>6, ReverseFacts
<1> HIDE DEF x, y
<1>9. /\ z \in Seq(M) /\ Len(z) = Len(s) + 1 /\ z[Len(s) + 1] = ms[n]
      /\ \A i \in 1 .. Len(s) : z[i] = x[i]
  BY <1>1, <1>7
<1> HIDE DEF z
<1>10. ASSUME NEW i \in 1 .. Len(s) + 1 PROVE y[i] = z[i]
  <2>1. CASE i = Len(s) + 1
    <3>1. ((Len(s) + 1) - i) + 1 = 1 /\ 1 \in 1 .. Len(s) + 1
      BY <1>1, <2>1
    <3> QED
      BY <1>2, <1>6, <1>8, <1>9, <2>1, <3>1
  <2>2. CASE i # Len(s) + 1
    <3> DEFINE k == (Len(s) - i) + 1
    <3>1. /\ i \in 1 .. Len(s) /\ k \in 1 .. Len(s) /\ ((Len(s) + 1) - i) + 1 = k + 1
          /\ k + 1 \in 2 .. Len(s) + 1 /\ (k + 1) - 1 = k /\ k + 1 \in 1 .. Len(s) + 1
      BY <1>1, <2>2
    <3>2. z[i] = a[k] /\ y[i] = b[k + 1]
      BY <1>7, <1>8, <1>9, <3>1
    <3> HIDE DEF k
    <3> QED
      BY <1>2, <1>3, <1>6, <3>1, <3>2
  <2> QED
    BY <2>1, <2>2
<1>11. y = z
  BY <1>8, <1>9, <1>10
<1> QED
  BY <1>11 DEF a, b, t, x, y, z

\* The first message of a list, and the others.
LEMMA TextTail ==
  ASSUME NEW ms, NEW s \in Seq(Nodes), s # <<>>, NEW M, \A m \in Range(s) : ms[m] \in M
  PROVE  Text(ms, s) = <<ms[Head(s)]>> \o Text(ms, Tail(s)) /\ Text(ms, Tail(s)) \in Seq(M)
<1> DEFINE a == Text(ms, s)
           t == Tail(s)
           b == Text(ms, t)
           z == <<ms[Head(s)]>> \o b
<1>1. Len(s) \in Nat /\ DOMAIN s = 1 .. Len(s) /\ Len(s) >= 1 /\ Head(s) = s[1]
  OBVIOUS
<1>2. t \in Seq(Nodes) /\ Len(t) = Len(s) - 1 /\ \A i \in 1 .. Len(s) - 1 : t[i] = s[i + 1]
  BY <1>1
<1>3. a \in Seq(M) /\ Len(a) = Len(s) /\ \A i \in 1 .. Len(s) : a[i] = ms[s[i]]
  BY TextFacts
<1>4. Range(t) \subseteq Range(s)
  BY RangeTail
<1> HIDE DEF t, a
<1>5. b \in Seq(M) /\ Len(b) = Len(s) - 1 /\ \A i \in 1 .. Len(s) - 1 : b[i] = ms[t[i]]
  <2>1. b \in Seq(M) /\ Len(b) = Len(t) /\ \A i \in 1 .. Len(t) : b[i] = ms[t[i]]
    BY <1>2, <1>4, TextFacts
  <2> QED
    BY <1>2, <2>1
<1>6. ms[s[1]] \in M
  BY <1>1 DEF Range
<1> HIDE DEF b
<1>7. /\ z \in Seq(M) /\ Len(z) = Len(s) /\ z[1] = ms[s[1]]
      /\ \A i \in 2 .. Len(s) : z[i] = b[i - 1]
  <2> DEFINE x == ms[s[1]]
  <2>1. z = <<x>> \o b /\ x \in M
    BY <1>1, <1>6
  <2> HIDE DEF x, z
  <2>2. /\ z \in Seq(M) /\ Len(z) = Len(b) + 1 /\ z[1] = x
        /\ \A i \in 2 .. Len(b) + 1 : z[i] = b[i - 1]
    BY <1>5, <2>1
  <2>3. Len(b) + 1 = Len(s)
    BY <1>1, <1>5
  <2> QED
    BY <2>2, <2>3 DEF x
<1> HIDE DEF z
<1>8. ASSUME NEW i \in 1 .. Len(s) PROVE a[i] = z[i]
  <2>1. CASE i = 1
    BY <1>1, <1>3, <1>7, <2>1
  <2>2. CASE i # 1
    <3>1. i - 1 \in 1 .. Len(s) - 1 /\ (i - 1) + 1 = i /\ i \in 2 .. Len(s)
      BY <1>1, <2>2
    <3>2. z[i] = ms[t[i - 1]] /\ t[i - 1] = s[(i - 1) + 1]
      BY <1>2, <1>5, <1>7, <3>1
    <3> QED
      BY <1>3, <3>1, <3>2
  <2> QED
    BY <2>1, <2>2
<1>9. a = z
  BY <1>3, <1>7, <1>8
<1> QED
  BY <1>5, <1>9 DEF a, b, t, z

\* A list turned around has its messages turned around.
LEMMA TextReverse ==
  ASSUME NEW ms, NEW s \in Seq(Nodes), NEW M, \A m \in Range(s) : ms[m] \in M
  PROVE  Text(ms, Reverse(s)) = Reverse(Text(ms, s))
<1> DEFINE a == Text(ms, s)
           t == Reverse(s)
<1>1. Len(s) \in Nat /\ \A i \in 1 .. Len(s) : (Len(s) - i) + 1 \in 1 .. Len(s)
  OBVIOUS
<1>2. a \in Seq(M) /\ Len(a) = Len(s) /\ \A i \in 1 .. Len(s) : a[i] = ms[s[i]]
  BY TextFacts
<1>3. t \in Seq(Nodes) /\ Len(t) = Len(s) /\ \A i \in 1 .. Len(s) : t[i] = s[(Len(s) - i) + 1]
  BY ReverseFacts
<1> HIDE DEF a, t
<1>4. Text(ms, t) = [i \in 1 .. Len(s) |-> ms[t[i]]]
  BY <1>3 DEF Text
<1>5. Reverse(a) = [i \in 1 .. Len(s) |-> a[(Len(s) - i) + 1]]
  BY <1>2 DEF Reverse
<1>6. \A i \in 1 .. Len(s) : ms[t[i]] = a[(Len(s) - i) + 1]
  BY <1>1, <1>2, <1>3
<1> QED
  BY <1>4, <1>5, <1>6 DEF a, t

\* The messages of the queue are messages.
LEMMA ShapeText ==
  ASSUME TypeOK, NEW P, NEW D, NEW S, Shape(P, D, S)
  PROVE  /\ P \in Seq(Nodes) /\ D \in Seq(Nodes) /\ S \in Seq(Nodes)
         /\ \A m \in Range(P) \cup Range(D) \cup Range(S) : message[m] \in Messages
         /\ Text(message, P) \in Seq(Messages) /\ Reverse(Text(message, D)) \in Seq(Messages)
         /\ Reverse(Text(message, S)) \in Seq(Messages) /\ popped \in Seq(Messages)
<1>1. P \in Seq(Nodes) /\ D \in Seq(Nodes) /\ S \in Seq(Nodes)
  BY DEF Shape, ListsInv, Chain
<1>2. Range(P) \subseteq Nodes /\ Range(D) \subseteq Nodes /\ Range(S) \subseteq Nodes
  BY <1>1, RangeEmpty
<1>3. \A m \in Range(P) \cup Range(D) \cup Range(S) : message[m] # Null
  BY DEF Shape, PointersInv, NodesInv
<1>4. message \in [Nodes -> Messages \cup {Null}] /\ popped \in Seq(Messages)
  BY DEF TypeOK
<1>5. \A m \in Range(P) \cup Range(D) \cup Range(S) : message[m] \in Messages
  BY <1>2, <1>3, <1>4
<1>6. /\ \A m \in Range(P) : message[m] \in Messages
      /\ \A m \in Range(D) : message[m] \in Messages
      /\ \A m \in Range(S) : message[m] \in Messages
  BY <1>5
<1>7. Text(message, P) \in Seq(Messages)
  BY <1>1, <1>6, TextFacts
<1>8. Text(message, D) \in Seq(Messages)
  BY <1>1, <1>6, TextFacts
<1>9. Text(message, S) \in Seq(Messages)
  BY <1>1, <1>6, TextFacts
<1>10. Reverse(Text(message, D)) \in Seq(Messages) /\ Reverse(Text(message, S)) \in Seq(Messages)
  BY <1>8, <1>9, ReverseFacts
<1> QED
  BY <1>1, <1>4, <1>5, <1>7, <1>10

-----------------------------------------------------------------------------
(* What a step leaves alone                                                *)

\* Pushers and poppers are different threads.
LEMMA Apart == \A p \in Pushers, c \in Poppers : p # c /\ p \in Threads /\ c \in Threads
  BY QueueAssumption DEF Threads

\* The lists are as they were when no pointer of theirs moved.
LEMMA ListsFrame ==
  ASSUME NEW P, NEW D, NEW S, ListsInv(P, D, S), next' = next, pending' = pending, head' = head,
         Drainer' = Drainer, \A c \in Drainer : node'[c] = node[c]
  PROVE  ListsInv(P, D, S)'
  BY DEF ListsInv

\* Neither history nor message moved.
LEMMA OrderFrame ==
  ASSUME NEW P, NEW D, NEW S, OrderInv(P, D, S), linked' = linked, popped' = popped,
         message' = message
  PROVE  OrderInv(P, D, S)'
  BY DEF OrderInv

\* The nodes of the queue are nodes.
LEMMA ShapeNodes ==
  ASSUME NEW P, NEW D, NEW S, ListsInv(P, D, S)
  PROVE  /\ P \in Seq(Nodes) /\ D \in Seq(Nodes) /\ S \in Seq(Nodes)
         /\ Range(P) \subseteq Nodes /\ Range(D) \subseteq Nodes /\ Range(S) \subseteq Nodes
         /\ pending # Null => P # <<>> /\ pending \in Range(P) /\ P[1] = pending
         /\ pending = Null => P = <<>>
         /\ head = Null => S = <<>>
         /\ head # Null => S # <<>>
<1>1. P \in Seq(Nodes) /\ D \in Seq(Nodes) /\ S \in Seq(Nodes)
  BY DEF ListsInv, Chain
<1>2. Range(P) \subseteq Nodes /\ Range(D) \subseteq Nodes /\ Range(S) \subseteq Nodes
  BY <1>1, RangeEmpty
<1>3. Chain(next, pending, P) /\ Chain(next, head, S)
  BY DEF ListsInv
<1>4. (P = <<>> <=> pending = Null) /\ (P # <<>> => P[1] = pending)
  BY <1>3, ChainFacts
<1>5. S = <<>> <=> head = Null
  BY <1>3, ChainFacts
<1>6. P # <<>> => P[1] \in Range(P)
  BY <1>1 DEF Range
<1> QED
  BY <1>1, <1>2, <1>4, <1>5, <1>6

\* A message is not the null pointer.
LEMMA MessageType ==
  ASSUME NEW p \in Pushers, NEW k \in 1 .. Quota[p]
  PROVE  <<p, k>> \in Messages /\ <<p, k>> # Null
<1>1. <<p, k>> \in Messages
  BY DEF Messages
<1>2. Quota[p] \in Nat /\ Null \notin Pushers \X Nat
  BY QueueAssumption
<1>3. k \in Nat
  BY <1>2
<1>4. <<p, k>> \in Pushers \X Nat
  BY <1>3
<1> QED
  BY <1>1, <1>2, <1>4

\* A pusher's step shows to no popper.
LEMMA PusherFrame ==
  ASSUME TypeOK, GuardInv, NEW p \in Pushers, NEW w, Goto(p, w), draining' = draining,
         pending' = pending
  PROVE  /\ GuardInv' /\ Drainer' = Drainer
         /\ pc'[p] = w /\ \A c \in Poppers : pc'[c] = pc[c]
         /\ \A q \in Pushers : q # p => pc'[q] = pc[q]
<1>1. /\ pc'[p] = w /\ \A c \in Poppers : pc'[c] = pc[c]
      /\ \A q \in Pushers : q # p => pc'[q] = pc[q]
  BY Apart DEF Goto, TypeOK, Threads
<1>2. Drainer' = Drainer
  BY <1>1 DEF Drainer
<1>3. GuardInv'
  <2> SUFFICES ASSUME NEW c \in Poppers, Draining(c)'
               PROVE  /\ draining'
                      /\ \A d \in Poppers : Draining(d)' => d = c
                      /\ pc'[c] \in {"swap", "publish"} => pending' = Null
    BY DEF GuardInv
  <2>1. \A d \in Poppers : Draining(d)' <=> Draining(d)
    BY <1>1 DEF Draining
  <2>2. draining /\ (\A d \in Poppers : Draining(d) => d = c)
        /\ (pc[c] \in {"swap", "publish"} => pending = Null)
    BY <2>1 DEF GuardInv
  <2> QED
    BY <1>1, <2>1, <2>2
<1> QED
  BY <1>1, <1>2, <1>3

\* What the steps have to keep.
Kept == TypeOK' /\ GuardInv' /\ \E P, D, S : Shape(P, D, S)'

\* A fresh address is in no list and belongs to no pusher or taker.
LEMMA AllocateStep ==
  ASSUME TypeOK, GuardInv, NEW P, NEW D, NEW S, Shape(P, D, S), NEW p \in Pushers, Allocate(p)
  PROVE  Kept
<1> DEFINE Q == Range(P) \cup Range(D) \cup Range(S)
           m == <<p, pushes[p] + 1>>
<1>1. PICK n \in Available : /\ live' = live \cup {n}
                             /\ message' = [message EXCEPT ![n] = m]
                             /\ node' = [node EXCEPT ![p] = n]
  BY DEF Allocate
<1>2. /\ pc[p] = "idle" /\ pushes[p] < Quota[p] /\ pushes' = [pushes EXCEPT ![p] = @ + 1]
      /\ Goto(p, "load")
      /\ UNCHANGED <<head, pending, draining, len, next, seen, linked, popped, aba>>
  BY DEF Allocate
<1>3. n \in Nodes /\ (message[n] = Null \/ (Reuse /\ n \notin live))
  BY <1>1 DEF Available
<1>4. /\ GuardInv' /\ Drainer' = Drainer
      /\ pc'[p] = "load" /\ \A c \in Poppers : pc'[c] = pc[c]
      /\ \A q \in Pushers : q # p => pc'[q] = pc[q]
  BY <1>2, PusherFrame
<1>5. ListsInv(P, D, S) /\ OrderInv(P, D, S) /\ PointersInv(Range(P), Q)
  BY DEF Shape
<1>6. /\ P \in Seq(Nodes) /\ D \in Seq(Nodes) /\ S \in Seq(Nodes) /\ Q \subseteq Nodes
      /\ pending # Null => pending \in Q
  BY <1>5, ShapeNodes
<1>7. NodesInv(Q) /\ PushersInv(Q) /\ TakersInv(Q) /\ (NoAba => ReadersInv(Range(P), Q))
  BY <1>5 DEF PointersInv
<1>8. m \in Messages /\ m # Null
  <2>1. pushes[p] \in Nat /\ Quota[p] \in Nat
    BY QueueAssumption DEF TypeOK
  <2>2. pushes[p] + 1 \in 1 .. Quota[p]
    BY <1>2, <2>1
  <2> QED
    BY <2>2, MessageType
<1> HIDE DEF m
<1>9. /\ node'[p] = n /\ \A q \in Threads : q # p => node'[q] = node[q]
      /\ message'[n] = m /\ \A k \in Nodes : k # n => message'[k] = message[k]
  BY <1>1, <1>3, Apart DEF TypeOK, Threads
<1>10. TypeOK'
  <2>1. pc' \in [Threads -> {"idle", "load", "link", "count", "next", "take", "discount", "drain",
                             "recheck", "swap", "publish", "release", "none"}]
    BY <1>2 DEF TypeOK, Goto
  <2>2. message' \in [Nodes -> Messages \cup {Null}] /\ node' \in [Threads -> Pointers]
    BY <1>1, <1>3, <1>8 DEF TypeOK, Pointers
  <2>3. live' \subseteq Nodes
    BY <1>1, <1>3 DEF TypeOK
  <2>4. pushes' \in [Pushers -> Nat] /\ \A q \in Pushers : pushes'[q] \in 0..Quota[q]
    <3>1. pushes \in [Pushers -> Nat] /\ \A q \in Pushers : pushes[q] \in 0..Quota[q]
      BY DEF TypeOK
    <3>2. Quota[p] \in Nat
      BY QueueAssumption
    <3>3. pushes[p] + 1 \in 0..Quota[p] /\ pushes[p] + 1 \in Nat
      BY <1>2, <3>1, <3>2
    <3>4. pushes'[p] = pushes[p] + 1 /\ \A q \in Pushers : q # p => pushes'[q] = pushes[q]
      BY <1>2, <3>1
    <3>5. pushes' \in [Pushers -> Nat]
      BY <1>2, <3>1, <3>3
    <3> QED
      BY <3>1, <3>3, <3>4, <3>5
  <2> QED
    BY <1>2, <2>1, <2>2, <2>3, <2>4 DEF TypeOK
<1>11. n \notin Q
  BY <1>3, <1>7 DEF NodesInv
<1>12. \A k \in Q : message'[k] = message[k]
  BY <1>6, <1>9, <1>11
<1>13. ListsInv(P, D, S)'
  <2>1. \A c \in Drainer : node'[c] = node[c]
    BY <1>9, Apart DEF Drainer
  <2> QED
    BY <1>2, <1>4, <1>5, <2>1, ListsFrame
<1>14. OrderInv(P, D, S)'
  <2>1. Text(message', P) = Text(message, P)
    BY <1>6, <1>12, TextKeep
  <2>2. Text(message', D) = Text(message, D)
    BY <1>6, <1>12, TextKeep
  <2>3. Text(message', S) = Text(message, S)
    BY <1>6, <1>12, TextKeep
  <2> QED
    BY <1>2, <1>5, <2>1, <2>2, <2>3 DEF OrderInv
<1>15. NodesInv(Q)'
  BY <1>1, <1>7, <1>12 DEF NodesInv
<1>16. ASSUME NEW q \in Pushers, q # p, Private(q)
       PROVE  node[q] # n /\ node[q] \in Nodes
  BY <1>3, <1>7, <1>16 DEF PushersInv, TypeOK
<1>17. \A q \in Pushers : q # p => (Private(q)' <=> Private(q)) /\ node'[q] = node[q]
  BY <1>4, <1>9, Apart DEF Private, Threads
<1>18. PushersInv(Q)'
  <2> SUFFICES ASSUME NEW q \in Pushers, Private(q)'
               PROVE  /\ node'[q] \in live' /\ node'[q] \notin Q /\ message'[node'[q]] # Null
                      /\ pc'[q] = "link" => next'[node'[q]] = seen'[q]
                      /\ \A r \in Pushers : Private(r)' /\ node'[r] = node'[q] => r = q
    BY DEF PushersInv
  <2>1. CASE q = p
    BY <1>1, <1>4, <1>8, <1>9, <1>11, <1>16, <1>17, <2>1
  <2>2. CASE q # p
    <3>1. Private(q) /\ node'[q] = node[q] /\ node[q] # n /\ node[q] \in Nodes
      BY <1>16, <1>17, <2>2
    <3>2. /\ node[q] \in live /\ node[q] \notin Q /\ message[node[q]] # Null
          /\ pc[q] = "link" => next[node[q]] = seen[q]
          /\ \A r \in Pushers : Private(r) /\ node[r] = node[q] => r = q
      BY <1>7, <3>1 DEF PushersInv
    <3> QED
      BY <1>1, <1>2, <1>4, <1>9, <1>17, <2>2, <3>1, <3>2
  <2> QED
    BY <2>1, <2>2
<1>19. ASSUME NEW c \in Poppers, pc[c] = "discount"
       PROVE  node[c] # n
  <2>1. message[node[c]] # Null /\ node[c] \in live
    BY <1>7, <1>19 DEF TakersInv
  <2> QED
    BY <1>3, <2>1
<1>20. \A c \in Poppers : node'[c] = node[c]
  BY <1>9, Apart
<1>21. NoAba => ReadersInv(Range(P), Q)'
  <2> SUFFICES ASSUME NoAba, NEW c \in Poppers, pc'[c] \in {"next", "take"}
               PROVE  /\ node'[c] \in Nodes /\ message'[node'[c]] # Null
                      /\ node'[c] \in Q => node'[c] \in Range(P)
                      /\ \A r \in Pushers : Private(r)' => node'[r] # node'[c]
                      /\ Reuse => node'[c] = pending'
                      /\ pc'[c] = "take" /\ node'[c] \in Range(P) => seen'[c] = next'[node'[c]]
    BY DEF ReadersInv
  <2>1. /\ node[c] \in Nodes /\ message[node[c]] # Null
        /\ node[c] \in Q => node[c] \in Range(P)
        /\ \A r \in Pushers : Private(r) => node[r] # node[c]
        /\ Reuse => node[c] = pending
        /\ pc[c] = "take" /\ node[c] \in Range(P) => seen[c] = next[node[c]]
    BY <1>4, <1>7 DEF ReadersInv
  <2>2. node[c] # n /\ pc'[c] = pc[c] /\ node'[c] = node[c]
    <3>1. Null \notin Nodes
      BY QueueAssumption
    <3>2. Reuse => node[c] \in Q
      BY <1>6, <2>1, <3>1
    <3>3. Reuse => node[c] \in live
      BY <1>7, <3>2 DEF NodesInv
    <3> QED
      BY <1>3, <1>4, <1>20, <2>1, <3>3
  <2>3. \A r \in Pushers : Private(r)' => node'[r] # node'[c]
    BY <1>9, <1>17, <2>1, <2>2
  <2> QED
    BY <1>2, <1>9, <2>1, <2>2, <2>3
<1>22. TakersInv(Q)'
  <2> SUFFICES ASSUME NEW c \in Poppers, pc'[c] = "discount"
               PROVE  /\ node'[c] \in Nodes /\ node'[c] \notin Q /\ message'[node'[c]] # Null
                      /\ \A r \in Pushers : Private(r)' => node'[r] # node'[c]
                      /\ node'[c] \in live'
                      /\ \A e \in Poppers : pc'[e] = "discount" /\ node'[e] = node'[c] => e = c
    BY DEF TakersInv
  <2>1. /\ node[c] \in Nodes /\ node[c] \notin Q /\ message[node[c]] # Null
        /\ \A r \in Pushers : Private(r) => node[r] # node[c]
        /\ node[c] \in live
        /\ \A e \in Poppers : pc[e] = "discount" /\ node[e] = node[c] => e = c
    BY <1>4, <1>7 DEF TakersInv
  <2>2. node[c] # n /\ pc'[c] = pc[c] /\ node'[c] = node[c]
    BY <1>4, <1>19, <1>20
  <2>3. \A r \in Pushers : Private(r)' => node'[r] # node'[c]
    BY <1>9, <1>17, <2>1, <2>2
  <2>4. \A e \in Poppers : pc'[e] = pc[e] /\ node'[e] = node[e]
    BY <1>4, <1>20
  <2> QED
    BY <1>1, <1>9, <2>1, <2>2, <2>3, <2>4
<1>23. Shape(P, D, S)'
  BY <1>13, <1>14, <1>15, <1>18, <1>21, <1>22 DEF Shape, PointersInv
<1> QED
  BY <1>4, <1>10, <1>23 DEF Kept

\* The node is private while its next pointer is written.
LEMMA LoadHeadStep ==
  ASSUME TypeOK, GuardInv, NEW P, NEW D, NEW S, Shape(P, D, S), NEW p \in Pushers, LoadHead(p)
  PROVE  Kept
<1> DEFINE Q == Range(P) \cup Range(D) \cup Range(S)
           n == node[p]
<1>1. /\ pc[p] = "load" /\ Goto(p, "link")
      /\ seen' = [seen EXCEPT ![p] = head] /\ next' = [next EXCEPT ![n] = head]
      /\ UNCHANGED <<head, pending, draining, len, message, live, node, pushes, linked, popped, aba>>
  BY DEF LoadHead
<1>2. /\ GuardInv' /\ Drainer' = Drainer
      /\ pc'[p] = "link" /\ \A c \in Poppers : pc'[c] = pc[c]
      /\ \A q \in Pushers : q # p => pc'[q] = pc[q]
  BY <1>1, PusherFrame
<1>3. ListsInv(P, D, S) /\ OrderInv(P, D, S) /\ PointersInv(Range(P), Q)
  BY DEF Shape
<1>4. P \in Seq(Nodes) /\ D \in Seq(Nodes) /\ S \in Seq(Nodes) /\ Q \subseteq Nodes
  BY <1>3, ShapeNodes
<1>5. NodesInv(Q) /\ PushersInv(Q) /\ TakersInv(Q) /\ (NoAba => ReadersInv(Range(P), Q))
  BY <1>3 DEF PointersInv
<1>6. n \in Nodes /\ n \notin Q /\ (\A q \in Pushers : Private(q) /\ node[q] = n => q = p)
  <2>1. Private(p)
    BY <1>1 DEF Private
  <2> QED
    BY <1>5, <2>1 DEF PushersInv, TypeOK
<1>7. \A k \in Nodes : next'[k] = IF k = n THEN head ELSE next[k]
  BY <1>1 DEF TypeOK
<1>8. seen'[p] = head /\ \A q \in Threads : q # p => seen'[q] = seen[q]
  BY <1>1, Apart DEF TypeOK, Threads
<1>9. TypeOK'
  BY <1>1 DEF TypeOK, Goto
<1>10. ListsInv(P, D, S)'
  <2>1. \A k \in Q : next'[k] = next[k]
    BY <1>4, <1>6, <1>7
  <2>2. Chain(next', pending, P)
    BY <1>3, <2>1, ChainKeep DEF ListsInv
  <2>3. Chain(next', head, S)
    BY <1>3, <2>1, ChainKeep DEF ListsInv
  <2>4. \A c \in Drainer : Chain(next', node[c], D)
    BY <1>3, <2>1, ChainKeep DEF ListsInv
  <2> QED
    BY <1>1, <1>2, <1>3, <2>2, <2>3, <2>4 DEF ListsInv
<1>11. OrderInv(P, D, S)'
  BY <1>1, <1>3, OrderFrame
<1>12. NodesInv(Q)'
  BY <1>1, <1>5 DEF NodesInv
<1>13. \A q \in Pushers : Private(q)' <=> Private(q)
  BY <1>1, <1>2 DEF Private
<1>14. PushersInv(Q)'
  <2> SUFFICES ASSUME NEW q \in Pushers, Private(q)'
               PROVE  /\ node'[q] \in live' /\ node'[q] \notin Q /\ message'[node'[q]] # Null
                      /\ pc'[q] = "link" => next'[node'[q]] = seen'[q]
                      /\ \A r \in Pushers : Private(r)' /\ node'[r] = node'[q] => r = q
    BY DEF PushersInv
  <2>1. /\ node[q] \in live /\ node[q] \notin Q /\ message[node[q]] # Null
        /\ pc[q] = "link" => next[node[q]] = seen[q]
        /\ \A r \in Pushers : Private(r) /\ node[r] = node[q] => r = q
    BY <1>5, <1>13 DEF PushersInv
  <2>2. node[q] \in Nodes
    BY <2>1 DEF TypeOK
  <2>3. pc'[q] = "link" => next'[node[q]] = seen'[q]
    <3>1. CASE q = p
      BY <1>6, <1>7, <1>8, <3>1
    <3>2. CASE q # p
      <4>1. node[q] # n /\ q \in Threads
        BY <1>6, <1>13, <3>2 DEF Threads
      <4> QED
        BY <1>2, <1>7, <1>8, <2>1, <2>2, <3>2, <4>1
    <3> QED
      BY <3>1, <3>2
  <2> QED
    BY <1>1, <1>13, <2>1, <2>3
<1>15. NoAba => ReadersInv(Range(P), Q)'
  <2> SUFFICES ASSUME NoAba, NEW c \in Poppers, pc'[c] \in {"next", "take"}
               PROVE  /\ node'[c] \in Nodes /\ message'[node'[c]] # Null
                      /\ node'[c] \in Q => node'[c] \in Range(P)
                      /\ \A r \in Pushers : Private(r)' => node'[r] # node'[c]
                      /\ Reuse => node'[c] = pending'
                      /\ pc'[c] = "take" /\ node'[c] \in Range(P) => seen'[c] = next'[node'[c]]
    BY DEF ReadersInv
  <2>1. /\ node[c] \in Nodes /\ message[node[c]] # Null
        /\ node[c] \in Q => node[c] \in Range(P)
        /\ \A r \in Pushers : Private(r) => node[r] # node[c]
        /\ Reuse => node[c] = pending
        /\ pc[c] = "take" /\ node[c] \in Range(P) => seen[c] = next[node[c]]
    BY <1>2, <1>5 DEF ReadersInv
  <2>2. node[c] \in Range(P) => node[c] # n
    BY <1>6
  <2>3. pc'[c] = "take" /\ node[c] \in Range(P) => seen'[c] = next'[node[c]]
    BY <1>2, <1>7, <1>8, <2>1, <2>2, Apart
  <2> QED
    BY <1>1, <1>13, <2>1, <2>3
<1>16. TakersInv(Q)'
  BY <1>1, <1>2, <1>5, <1>13 DEF TakersInv
<1>17. Shape(P, D, S)'
  BY <1>10, <1>11, <1>12, <1>14, <1>15, <1>16 DEF Shape, PointersInv
<1> QED
  BY <1>2, <1>9, <1>17 DEF Kept

\* A pusher that gives up its node, or goes back to load, disturbs nothing.
LEMMA PusherQuiet ==
  ASSUME TypeOK, NEW P, NEW D, NEW S, Shape(P, D, S), NEW p \in Pushers,
         UNCHANGED <<head, pending, next, message, live, linked, popped>>,
         Drainer' = Drainer, pc'[p] # "link", Private(p)' => Private(p) /\ node'[p] = node[p],
         \A c \in Poppers : pc'[c] = pc[c], \A q \in Pushers : q # p => pc'[q] = pc[q],
         \A q \in Threads : q # p => node'[q] = node[q] /\ seen'[q] = seen[q]
  PROVE  Shape(P, D, S)'
<1> DEFINE Q == Range(P) \cup Range(D) \cup Range(S)
<1>1. ListsInv(P, D, S) /\ OrderInv(P, D, S) /\ PointersInv(Range(P), Q)
  BY DEF Shape
<1>2. NodesInv(Q) /\ PushersInv(Q) /\ TakersInv(Q) /\ (NoAba => ReadersInv(Range(P), Q))
  BY <1>1 DEF PointersInv
<1> HIDE DEF Q
<1>3. \A c \in Poppers : node'[c] = node[c] /\ seen'[c] = seen[c]
  BY Apart
<1>4. ListsInv(P, D, S)'
  <2>1. \A c \in Drainer : node'[c] = node[c]
    BY <1>3 DEF Drainer
  <2> QED
    BY <1>1, <2>1, ListsFrame
<1>5. OrderInv(P, D, S)'
  BY <1>1, OrderFrame
<1>6. NodesInv(Q)'
  BY <1>2 DEF NodesInv
<1>7. ASSUME NEW q \in Pushers, Private(q)'
      PROVE  /\ Private(q) /\ node'[q] = node[q]
             /\ pc'[q] = "link" => pc[q] = "link" /\ seen'[q] = seen[q]
  <2>1. CASE q = p
    BY <1>7, <2>1
  <2>2. CASE q # p
    BY <1>7, <2>2, Apart DEF Private, Threads
  <2> QED
    BY <2>1, <2>2
<1>8. PushersInv(Q)'
  <2> SUFFICES ASSUME NEW q \in Pushers, Private(q)'
               PROVE  /\ node'[q] \in live' /\ node'[q] \notin Q /\ message'[node'[q]] # Null
                      /\ pc'[q] = "link" => next'[node'[q]] = seen'[q]
                      /\ \A r \in Pushers : Private(r)' /\ node'[r] = node'[q] => r = q
    BY DEF PushersInv
  <2>1. /\ node[q] \in live /\ node[q] \notin Q /\ message[node[q]] # Null
        /\ pc[q] = "link" => next[node[q]] = seen[q]
        /\ \A r \in Pushers : Private(r) /\ node[r] = node[q] => r = q
    BY <1>2, <1>7 DEF PushersInv
  <2> QED
    BY <1>7, <2>1
<1>9. NoAba => ReadersInv(Range(P), Q)'
  <2> SUFFICES ASSUME NoAba, NEW c \in Poppers, pc'[c] \in {"next", "take"}
               PROVE  /\ node'[c] \in Nodes /\ message'[node'[c]] # Null
                      /\ node'[c] \in Q => node'[c] \in Range(P)
                      /\ \A r \in Pushers : Private(r)' => node'[r] # node'[c]
                      /\ Reuse => node'[c] = pending'
                      /\ pc'[c] = "take" /\ node'[c] \in Range(P) => seen'[c] = next'[node'[c]]
    BY DEF ReadersInv
  <2>1. /\ node[c] \in Nodes /\ message[node[c]] # Null
        /\ node[c] \in Q => node[c] \in Range(P)
        /\ \A r \in Pushers : Private(r) => node[r] # node[c]
        /\ Reuse => node[c] = pending
        /\ pc[c] = "take" /\ node[c] \in Range(P) => seen[c] = next[node[c]]
    BY <1>2 DEF ReadersInv
  <2> QED
    BY <1>3, <1>7, <2>1
<1>10. TakersInv(Q)'
  <2> SUFFICES ASSUME NEW c \in Poppers, pc'[c] = "discount"
               PROVE  /\ node'[c] \in Nodes /\ node'[c] \notin Q /\ message'[node'[c]] # Null
                      /\ \A r \in Pushers : Private(r)' => node'[r] # node'[c]
                      /\ node'[c] \in live'
                      /\ \A e \in Poppers : pc'[e] = "discount" /\ node'[e] = node'[c] => e = c
    BY DEF TakersInv
  <2>1. /\ node[c] \in Nodes /\ node[c] \notin Q /\ message[node[c]] # Null
        /\ \A r \in Pushers : Private(r) => node[r] # node[c]
        /\ node[c] \in live
        /\ \A e \in Poppers : pc[e] = "discount" /\ node[e] = node[c] => e = c
    BY <1>2 DEF TakersInv
  <2> QED
    BY <1>3, <1>7, <2>1
<1> QED
  BY <1>4, <1>5, <1>6, <1>8, <1>9, <1>10 DEF Shape, PointersInv, Q

\* The exchange that succeeds puts the node on top of the stack it points to.
LEMMA LinkStep ==
  ASSUME TypeOK, GuardInv, NEW P, NEW D, NEW S, Shape(P, D, S), NEW p \in Pushers, Link(p)
  PROVE  Kept
<1> DEFINE Q == Range(P) \cup Range(D) \cup Range(S)
<1>0. PICK n : n = node[p]
  OBVIOUS
<1>1. /\ pc[p] = "link" /\ UNCHANGED <<pending, draining, len, next, message, live, node, seen, pushes, popped, aba>>
  BY DEF Link
<1>2. CASE head # seen[p] /\ Goto(p, "load") /\ UNCHANGED <<head, linked>>
  <2>1. /\ GuardInv' /\ Drainer' = Drainer
        /\ pc'[p] = "load" /\ \A c \in Poppers : pc'[c] = pc[c]
        /\ \A q \in Pushers : q # p => pc'[q] = pc[q]
    BY <1>1, <1>2, PusherFrame
  <2>2. TypeOK'
    BY <1>1, <1>2 DEF TypeOK, Goto
  <2>3. Private(p) /\ pc'[p] # "link"
    BY <1>1, <2>1 DEF Private
  <2>4. Shape(P, D, S)'
    BY <1>1, <1>2, <2>1, <2>3, PusherQuiet
  <2> QED
    BY <2>1, <2>2, <2>4 DEF Kept
<1>3. CASE head = seen[p] /\ head' = n /\ linked' = Append(linked, message[n]) /\ Goto(p, "count")
  <2>1. /\ GuardInv' /\ Drainer' = Drainer
        /\ pc'[p] = "count" /\ \A c \in Poppers : pc'[c] = pc[c]
        /\ \A q \in Pushers : q # p => pc'[q] = pc[q]
    BY <1>1, <1>3, PusherFrame
  <2>2. ListsInv(P, D, S) /\ OrderInv(P, D, S) /\ PointersInv(Range(P), Q)
    BY DEF Shape
  <2>3. P \in Seq(Nodes) /\ D \in Seq(Nodes) /\ S \in Seq(Nodes) /\ Q \subseteq Nodes
    BY <2>2, ShapeNodes
  <2>4. NodesInv(Q) /\ PushersInv(Q) /\ TakersInv(Q) /\ (NoAba => ReadersInv(Range(P), Q))
    BY <2>2 DEF PointersInv
  <2>5. /\ Private(p) /\ n \in Nodes /\ n \in live /\ n \notin Q /\ message[n] # Null /\ next[n] = head
        /\ \A q \in Pushers : Private(q) /\ node[q] = n => q = p
    <3>1. Private(p)
      BY <1>1 DEF Private
    <3> QED
      BY <1>0, <1>1, <1>3, <2>4, <3>1 DEF PushersInv, TypeOK
  <2>6. message[n] \in Messages
    BY <2>5 DEF TypeOK
  <2>7. TypeOK'
    <3>1. linked' \in Seq(Messages)
      BY <1>3, <2>6 DEF TypeOK
    <3>2. pc' \in [Threads -> {"idle", "load", "link", "count", "next", "take", "discount", "drain",
                               "recheck", "swap", "publish", "release", "none"}]
      BY <1>3 DEF TypeOK, Goto
    <3> QED
      BY <1>1, <1>3, <2>5, <3>1, <3>2 DEF TypeOK, Pointers
  <2>0. PICK T : T = <<n>> \o S
    OBVIOUS
  <2> DEFINE R == Range(P) \cup Range(D) \cup Range(T)
  <2>8. Chain(next, n, T) /\ Range(T) = Range(S) \cup {n}
    <3>1. Chain(next, head, S) /\ n \notin Range(S)
      BY <2>2, <2>5 DEF ListsInv
    <3> QED
      BY <2>0, <2>5, <3>1, ChainPush
  <2>9. OrderInv(P, D, T)'
    <3>1. /\ Text(message, P) \in Seq(Messages) /\ Reverse(Text(message, D)) \in Seq(Messages)
          /\ Reverse(Text(message, S)) \in Seq(Messages) /\ popped \in Seq(Messages)
          /\ \A m \in Range(P) \cup Range(D) \cup Range(S) : message[m] \in Messages
      BY ShapeText
    <3>2. Reverse(Text(message, T)) = Append(Reverse(Text(message, S)), message[n])
      BY <2>0, <2>3, <2>5, <2>6, <3>1, TextPush
    <3> DEFINE a == Text(message, P)
               b == Reverse(Text(message, D))
               c == Reverse(Text(message, S))
               e == Reverse(Text(message, T))
    <3>3. linked = popped \o ((a \o b) \o c)
      BY <2>2 DEF OrderInv
    <3>4. OrderInv(P, D, T)' <=> linked' = popped \o ((a \o b) \o e)
      BY <1>1 DEF OrderInv
    <3>5. a \in Seq(Messages) /\ b \in Seq(Messages) /\ c \in Seq(Messages) /\ e = Append(c, message[n])
      BY <3>1, <3>2
    <3> HIDE DEF a, b, c, e
    <3>6. a \o b \in Seq(Messages)
      BY <3>5
    <3>7. Append(popped \o ((a \o b) \o c), message[n])
          = popped \o ((a \o b) \o Append(c, message[n]))
      <4>1. PICK x, y : x = a \o b /\ y = message[n]
        OBVIOUS
      <4>2. /\ popped \in Seq(Messages) /\ x \in Seq(Messages) /\ c \in Seq(Messages)
            /\ y \in Messages /\ <<y>> \in Seq(Messages)
        BY <2>6, <3>1, <3>5, <3>6, <4>1
      <4>0. PICK z : z = <<y>>
        OBVIOUS
      <4>3. (popped \o (x \o c)) \o <<y>> = popped \o (x \o (c \o <<y>>))
        <5>1. z \in Seq(Messages)
          BY <4>0, <4>2
        <5>2. (popped \o (x \o c)) \o z = popped \o (x \o (c \o z))
          <6>1. x \o c \in Seq(Messages)
            BY <4>2
          <6>2. (popped \o (x \o c)) \o z = popped \o ((x \o c) \o z)
            BY <4>2, <5>1, <6>1, ConcatAssociative
          <6>3. (x \o c) \o z = x \o (c \o z)
            BY <4>2, <5>1, ConcatAssociative
          <6> QED
            BY <6>2, <6>3
        <5> QED
          BY <4>0, <5>2
      <4>4. Append(c, y) = c \o <<y>>
        BY <4>2, AppendIsConcat
      <4>5. popped \o (x \o c) \in Seq(Messages)
        BY <4>2
      <4>6. Append(popped \o (x \o c), y) = (popped \o (x \o c)) \o <<y>>
        BY <4>2, <4>5, AppendIsConcat
      <4> QED
        BY <4>1, <4>3, <4>4, <4>6
    <3> QED
      BY <1>3, <3>3, <3>4, <3>5, <3>7
  <2>10. R = Q \cup {n}
    BY <2>8
  <2>11. ListsInv(P, D, T)'
    <3>1. /\ Chain(next, pending, P) /\ D \in Seq(Nodes)
          /\ \A c \in Drainer : Chain(next, node[c], D) /\ D # <<>>
          /\ Drainer = {} => D = <<>>
          /\ Range(P) \cap Range(D) = {} /\ Range(P) \cap Range(S) = {}
          /\ Range(D) \cap Range(S) = {}
      BY <2>2 DEF ListsInv
    <3>2. Range(P) \cap Range(T) = {} /\ Range(D) \cap Range(T) = {}
      BY <2>5, <2>8, <3>1
    <3> QED
      BY <1>1, <1>3, <2>1, <2>8, <3>1, <3>2 DEF ListsInv
  <2> HIDE DEF Q, R
  <2>12. NodesInv(R)'
    BY <1>1, <2>4, <2>5, <2>10 DEF NodesInv
  <2>13. \A q \in Pushers : Private(q)' => Private(q) /\ q # p
    BY <2>1 DEF Private
  <2>14. PushersInv(R)'
    <3> SUFFICES ASSUME NEW q \in Pushers, Private(q)'
                 PROVE  /\ node'[q] \in live' /\ node'[q] \notin R /\ message'[node'[q]] # Null
                        /\ pc'[q] = "link" => next'[node'[q]] = seen'[q]
                        /\ \A r \in Pushers : Private(r)' /\ node'[r] = node'[q] => r = q
      BY DEF PushersInv
    <3>1. /\ node[q] \in live /\ node[q] \notin Q /\ message[node[q]] # Null
          /\ pc[q] = "link" => next[node[q]] = seen[q]
          /\ \A r \in Pushers : Private(r) /\ node[r] = node[q] => r = q
      BY <2>4, <2>13 DEF PushersInv
    <3>2. node[q] # n /\ q # p
      BY <2>5, <2>13
    <3> QED
      BY <1>1, <2>1, <2>10, <2>13, <3>1, <3>2
  <2>15. NoAba => ReadersInv(Range(P), R)'
    <3> SUFFICES ASSUME NoAba, NEW c \in Poppers, pc'[c] \in {"next", "take"}
                 PROVE  /\ node'[c] \in Nodes /\ message'[node'[c]] # Null
                        /\ node'[c] \in R => node'[c] \in Range(P)
                        /\ \A r \in Pushers : Private(r)' => node'[r] # node'[c]
                        /\ Reuse => node'[c] = pending'
                        /\ pc'[c] = "take" /\ node'[c] \in Range(P) => seen'[c] = next'[node'[c]]
      BY DEF ReadersInv
    <3>1. /\ node[c] \in Nodes /\ message[node[c]] # Null
          /\ node[c] \in Q => node[c] \in Range(P)
          /\ \A r \in Pushers : Private(r) => node[r] # node[c]
          /\ Reuse => node[c] = pending
          /\ pc[c] = "take" /\ node[c] \in Range(P) => seen[c] = next[node[c]]
      BY <2>1, <2>4 DEF ReadersInv
    <3>2. node[c] # n
      BY <1>0, <2>5, <3>1
    <3> QED
      BY <1>1, <2>1, <2>10, <2>13, <3>1, <3>2
  <2>16. TakersInv(R)'
    <3> SUFFICES ASSUME NEW c \in Poppers, pc'[c] = "discount"
                 PROVE  /\ node'[c] \in Nodes /\ node'[c] \notin R /\ message'[node'[c]] # Null
                        /\ \A r \in Pushers : Private(r)' => node'[r] # node'[c]
                        /\ node'[c] \in live'
                        /\ \A e \in Poppers : pc'[e] = "discount" /\ node'[e] = node'[c] => e = c
      BY DEF TakersInv
    <3>1. /\ node[c] \in Nodes /\ node[c] \notin Q /\ message[node[c]] # Null
          /\ \A r \in Pushers : Private(r) => node[r] # node[c]
          /\ node[c] \in live
          /\ \A e \in Poppers : pc[e] = "discount" /\ node[e] = node[c] => e = c
      BY <2>1, <2>4 DEF TakersInv
    <3>2. node[c] # n
      BY <1>0, <2>5, <3>1
    <3>3. \A e \in Poppers : pc'[e] = pc[e]
      BY <2>1
    <3>4. \A e \in Poppers : pc'[e] = "discount" /\ node'[e] = node'[c] => e = c
      BY <1>1, <3>1, <3>3
    <3> QED
      BY <1>1, <2>10, <2>13, <3>1, <3>2, <3>4
  <2>17. Shape(P, D, T)'
    BY <2>9, <2>11, <2>12, <2>14, <2>15, <2>16 DEF Shape, PointersInv, R
  <2> QED
    BY <2>1, <2>7, <2>17 DEF Kept
<1> QED
  BY <1>0, <1>2, <1>3 DEF Link

\* Counting touches no node.
LEMMA CountStep ==
  ASSUME TypeOK, GuardInv, NEW P, NEW D, NEW S, Shape(P, D, S), NEW p \in Pushers, Count(p)
  PROVE  Kept
<1>1. /\ len' = (len + 1) % LenModulus /\ Goto(p, "idle")
      /\ node' = [node EXCEPT ![p] = Null] /\ seen' = [seen EXCEPT ![p] = Null]
      /\ UNCHANGED <<head, pending, draining, next, message, live, pushes, linked, popped, aba>>
  BY DEF Count
<1>2. /\ GuardInv' /\ Drainer' = Drainer
      /\ pc'[p] = "idle" /\ \A c \in Poppers : pc'[c] = pc[c]
      /\ \A q \in Pushers : q # p => pc'[q] = pc[q]
  BY <1>1, PusherFrame
<1>3. len' \in 0..(LenModulus - 1)
  <2>1. LenModulus \in Nat /\ LenModulus > 0
    BY QueueAssumption, FS_CardinalityType
  <2>2. len + 1 \in Nat
    BY <2>1 DEF TypeOK
  <2> QED
    BY <1>1, <2>1, <2>2
<1>4. TypeOK'
  BY <1>1, <1>3 DEF TypeOK, Goto, Pointers
<1>5. pc'[p] # "link" /\ ~Private(p)'
  BY <1>2 DEF Private
<1>6. \A q \in Threads : q # p => node'[q] = node[q] /\ seen'[q] = seen[q]
  BY <1>1 DEF TypeOK
<1>7. Shape(P, D, S)'
  BY <1>1, <1>2, <1>5, <1>6, PusherQuiet
<1> QED
  BY <1>2, <1>4, <1>7 DEF Kept

\* A popper's step that only moves its own pointers, and not into or out of
\* the moving of the stack.
LEMMA PopperQuiet ==
  ASSUME TypeOK, NEW P, NEW D, NEW S, Shape(P, D, S), NEW c \in Poppers, NEW w, Goto(c, w),
         UNCHANGED <<head, pending, next, message, live, linked, popped>>,
         pc[c] # "publish", w \notin {"publish", "discount"},
         \A q \in Threads : q # c => node'[q] = node[q] /\ seen'[q] = seen[q],
         w \in {"next", "take"} /\ NoAba =>
           /\ node'[c] \in Nodes /\ message[node'[c]] # Null
           /\ node'[c] \in Range(P) \cup Range(D) \cup Range(S) => node'[c] \in Range(P)
           /\ \A p \in Pushers : Private(p) => node[p] # node'[c]
           /\ Reuse => node'[c] = pending
           /\ w = "take" /\ node'[c] \in Range(P) => seen'[c] = next[node'[c]]
  PROVE  Shape(P, D, S)'
<1> DEFINE Q == Range(P) \cup Range(D) \cup Range(S)
<1>1. ListsInv(P, D, S) /\ OrderInv(P, D, S) /\ PointersInv(Range(P), Q)
  BY DEF Shape
<1>2. NodesInv(Q) /\ PushersInv(Q) /\ TakersInv(Q) /\ (NoAba => ReadersInv(Range(P), Q))
  BY <1>1 DEF PointersInv
<1>3. /\ pc'[c] = w /\ \A q \in Threads : q # c => pc'[q] = pc[q]
      /\ \A p \in Pushers : pc'[p] = pc[p] /\ node'[p] = node[p] /\ seen'[p] = seen[p]
  <2>1. pc' = [pc EXCEPT ![c] = w] /\ c \in Threads
    BY DEF Goto, Threads
  <2>2. pc'[c] = w /\ \A q \in Threads : q # c => pc'[q] = pc[q]
    BY <2>1 DEF TypeOK
  <2> QED
    BY <2>2, Apart
<1>4. Drainer' = Drainer /\ \A d \in Drainer : node'[d] = node[d]
  <2>1. \A d \in Poppers : pc'[d] = "publish" <=> pc[d] = "publish"
    BY <1>3, Apart DEF Threads
  <2>2. \A d \in Drainer : d # c /\ d \in Threads
    BY DEF Drainer, Threads
  <2> QED
    BY <2>1, <2>2 DEF Drainer
<1>5. ListsInv(P, D, S)'
  BY <1>1, <1>4, ListsFrame
<1>6. OrderInv(P, D, S)'
  BY <1>1, OrderFrame
<1>7. NodesInv(Q)'
  BY <1>2 DEF NodesInv
<1>8. \A p \in Pushers : Private(p)' <=> Private(p)
  BY <1>3 DEF Private
<1>9. PushersInv(Q)'
  BY <1>2, <1>3, <1>8 DEF PushersInv
<1>10. NoAba => ReadersInv(Range(P), Q)'
  <2> SUFFICES ASSUME NoAba, NEW d \in Poppers, pc'[d] \in {"next", "take"}
               PROVE  /\ node'[d] \in Nodes /\ message'[node'[d]] # Null
                      /\ node'[d] \in Q => node'[d] \in Range(P)
                      /\ \A r \in Pushers : Private(r)' => node'[r] # node'[d]
                      /\ Reuse => node'[d] = pending'
                      /\ pc'[d] = "take" /\ node'[d] \in Range(P) => seen'[d] = next'[node'[d]]
    BY DEF ReadersInv
  <2>1. CASE d = c
    BY <1>3, <1>8, <2>1
  <2>2. CASE d # c
    <3>1. pc'[d] = pc[d] /\ node'[d] = node[d] /\ seen'[d] = seen[d]
      BY <1>3, <2>2 DEF Threads
    <3>2. /\ node[d] \in Nodes /\ message[node[d]] # Null
          /\ node[d] \in Q => node[d] \in Range(P)
          /\ \A r \in Pushers : Private(r) => node[r] # node[d]
          /\ Reuse => node[d] = pending
          /\ pc[d] = "take" /\ node[d] \in Range(P) => seen[d] = next[node[d]]
      BY <1>2, <3>1 DEF ReadersInv
    <3> QED
      BY <1>3, <1>8, <3>1, <3>2
  <2> QED
    BY <2>1, <2>2
<1>11. TakersInv(Q)'
  <2> SUFFICES ASSUME NEW d \in Poppers, pc'[d] = "discount"
               PROVE  /\ node'[d] \in Nodes /\ node'[d] \notin Q /\ message'[node'[d]] # Null
                      /\ \A r \in Pushers : Private(r)' => node'[r] # node'[d]
                      /\ node'[d] \in live'
                      /\ \A e \in Poppers : pc'[e] = "discount" /\ node'[e] = node'[d] => e = d
    BY DEF TakersInv
  <2>1. d # c
    BY <1>3
  <2>2. pc'[d] = pc[d] /\ node'[d] = node[d]
    BY <1>3, <2>1 DEF Threads
  <2>3. /\ node[d] \in Nodes /\ node[d] \notin Q /\ message[node[d]] # Null
        /\ \A r \in Pushers : Private(r) => node[r] # node[d]
        /\ node[d] \in live
        /\ \A e \in Poppers : pc[e] = "discount" /\ node[e] = node[d] => e = d
    BY <1>2, <2>2 DEF TakersInv
  <2>4. \A e \in Poppers : pc'[e] = "discount" => pc[e] = "discount" /\ node'[e] = node[e]
    BY <1>3 DEF Threads
  <2> QED
    BY <1>3, <1>8, <2>2, <2>3, <2>4
<1> QED
  BY <1>5, <1>6, <1>7, <1>9, <1>10, <1>11 DEF Shape, PointersInv

\* A popper that stays outside the flag.
LEMMA OutsideFrame ==
  ASSUME TypeOK, GuardInv, NEW c \in Poppers, NEW w, Goto(c, w), draining' = draining,
         pending' = pending, w \notin {"recheck", "swap", "publish", "release", "none"}
  PROVE  GuardInv'
<1>1. \A d \in Poppers : Draining(d)' => Draining(d) /\ pc'[d] = pc[d]
  <2> SUFFICES ASSUME NEW d \in Poppers, Draining(d)' PROVE Draining(d) /\ pc'[d] = pc[d]
    OBVIOUS
  <2>1. pc' = [pc EXCEPT ![c] = w] /\ c \in Threads /\ d \in Threads
    BY DEF Goto, Threads
  <2>2. d # c
    BY <2>1 DEF Draining, TypeOK
  <2> QED
    BY <2>1, <2>2 DEF Draining, TypeOK
<1> SUFFICES ASSUME NEW d \in Poppers, Draining(d)'
             PROVE  /\ draining'
                    /\ \A e \in Poppers : Draining(e)' => e = d
                    /\ pc'[d] \in {"swap", "publish"} => pending' = Null
  BY DEF GuardInv
<1>2. /\ draining /\ \A e \in Poppers : Draining(e) => e = d
      /\ pc[d] \in {"swap", "publish"} => pending = Null
  BY <1>1 DEF GuardInv
<1> QED
  BY <1>1, <1>2

\* What a popper loads is the first node of the list.
LEMMA LoadPendingStep ==
  ASSUME TypeOK, GuardInv, NEW P, NEW D, NEW S, Shape(P, D, S), NEW c \in Poppers, LoadPending(c)
  PROVE  Kept
<1> DEFINE Q == Range(P) \cup Range(D) \cup Range(S)
<1>0. PICK w : w = IF pending = Null THEN "drain" ELSE "next"
  OBVIOUS
<1>1. /\ pc[c] = "idle" /\ node' = [node EXCEPT ![c] = pending] /\ Goto(c, w)
      /\ UNCHANGED <<head, pending, draining, len, next, message, live, seen, pushes, linked, popped, aba>>
  BY <1>0 DEF LoadPending
<1>2. w \in {"drain", "next"} /\ c \in Threads
  BY <1>0, Apart DEF Threads
<1>3. TypeOK'
  BY <1>1, <1>2 DEF TypeOK, Goto
<1>4. GuardInv'
  BY <1>1, <1>2, OutsideFrame
<1>5. node'[c] = pending /\ \A q \in Threads : q # c => node'[q] = node[q] /\ seen'[q] = seen[q]
  BY <1>1, <1>2 DEF TypeOK
<1>6. w \in {"next", "take"} =>
           /\ node'[c] \in Nodes /\ message[node'[c]] # Null
           /\ node'[c] \in Q => node'[c] \in Range(P)
           /\ \A p \in Pushers : Private(p) => node[p] # node'[c]
           /\ Reuse => node'[c] = pending
           /\ w = "take" /\ node'[c] \in Range(P) => seen'[c] = next[node'[c]]
  <2> SUFFICES ASSUME w = "next"
               PROVE  /\ pending \in Nodes /\ message[pending] # Null /\ pending \in Range(P)
                      /\ \A p \in Pushers : Private(p) => node[p] # pending
    BY <1>2, <1>5
  <2>1. ListsInv(P, D, S) /\ NodesInv(Q) /\ PushersInv(Q)
    BY DEF Shape, PointersInv
  <2>2. pending \in Range(P) /\ Range(P) \subseteq Nodes
    BY <1>0, <2>1, ShapeNodes
  <2> QED
    BY <2>1, <2>2 DEF NodesInv, PushersInv
<1>7. Shape(P, D, S)'
  BY <1>1, <1>2, <1>5, <1>6, PopperQuiet
<1> QED
  BY <1>3, <1>4, <1>7 DEF Kept

\* A node of the list is allocated, and its next pointer is what is read.
LEMMA ReadNextStep ==
  ASSUME TypeOK, HeldInv, GuardInv, NEW P, NEW D, NEW S, Shape(P, D, S), NEW c \in Poppers,
         ReadNext(c)
  PROVE  Kept
<1> DEFINE Q == Range(P) \cup Range(D) \cup Range(S)
<1>1. PICK x \in (IF node[c] \in live THEN {next[node[c]]} ELSE Pointers) :
        seen' = [seen EXCEPT ![c] = x]
  BY DEF ReadNext
<1>2. /\ pc[c] = "next" /\ Goto(c, "take")
      /\ UNCHANGED <<head, pending, draining, len, next, message, live, node, pushes, linked, popped, aba>>
  BY DEF ReadNext
<1>3. c \in Threads
  BY Apart DEF Threads
<1>4. NodesInv(Q) /\ (NoAba => ReadersInv(Range(P), Q))
  BY DEF Shape, PointersInv
<1>5. NoAba =>
        /\ node[c] \in Nodes /\ message[node[c]] # Null
        /\ node[c] \in Q => node[c] \in Range(P)
        /\ \A p \in Pushers : Private(p) => node[p] # node[c]
        /\ Reuse => node[c] = pending
  BY <1>2, <1>4 DEF ReadersInv
<1>6. x \in Pointers
  BY <1>1, <1>2 DEF TypeOK, HeldInv
<1>7. TypeOK'
  BY <1>1, <1>2, <1>6 DEF TypeOK, Goto
<1>8. GuardInv'
  BY <1>2, OutsideFrame
<1>9. seen'[c] = x /\ \A q \in Threads : q # c => node'[q] = node[q] /\ seen'[q] = seen[q]
  BY <1>1, <1>2, <1>3 DEF TypeOK
<1>10. node[c] \in Range(P) => x = next[node[c]]
  BY <1>1, <1>4 DEF NodesInv
<1>11. Shape(P, D, S)'
  BY <1>2, <1>5, <1>9, <1>10, PopperQuiet
<1> QED
  BY <1>7, <1>8, <1>11 DEF Kept

\* One thread sets the flag.
LEMMA AcquireDrainingStep ==
  ASSUME TypeOK, GuardInv, NEW P, NEW D, NEW S, Shape(P, D, S), NEW c \in Poppers,
         AcquireDraining(c)
  PROVE  Kept
<1>0. PICK w : w = IF draining THEN "idle" ELSE "recheck"
  OBVIOUS
<1>1. /\ pc[c] = "drain" /\ draining' = TRUE /\ Goto(c, w)
      /\ UNCHANGED <<head, pending, len, next, message, live, node, seen, pushes, linked, popped, aba>>
  BY <1>0 DEF AcquireDraining
<1>2. w \in {"idle", "recheck"} /\ c \in Threads
  BY <1>0, Apart DEF Threads
<1>3. TypeOK'
  BY <1>1, <1>2 DEF TypeOK, Goto
<1>4. GuardInv'
  <2>1. CASE draining
    <3>1. w = "idle" /\ draining' = draining
      BY <1>0, <1>1, <2>1 DEF TypeOK
    <3> QED
      BY <1>1, <3>1, OutsideFrame
  <2>2. CASE ~draining
    <3>1. \A d \in Poppers : ~Draining(d)
      BY <2>2 DEF GuardInv
    <3>2. w = "recheck" /\ pc' = [pc EXCEPT ![c] = w]
      BY <1>0, <1>1, <2>2 DEF Goto
    <3>3. \A d \in Poppers : d # c => pc'[d] = pc[d]
      BY <3>2 DEF TypeOK, Threads
    <3>4. \A d \in Poppers : Draining(d)' => d = c
      BY <3>1, <3>3 DEF Draining
    <3>5. pc'[c] = "recheck"
      BY <1>2, <3>2 DEF TypeOK
    <3> QED
      BY <1>1, <3>4, <3>5 DEF GuardInv
  <2> QED
    BY <2>1, <2>2
<1>5. Shape(P, D, S)'
  <2>1. pc[c] # "publish" /\ w \notin {"publish", "discount"} /\ ~(w \in {"next", "take"})
    BY <1>1, <1>2
  <2> QED
    BY <1>1, <2>1, PopperQuiet
<1> QED
  BY <1>3, <1>4, <1>5 DEF Kept

\* The flag's holder moves on inside the flag.
LEMMA InsideFrame ==
  ASSUME TypeOK, GuardInv, NEW c \in Poppers, NEW w, Goto(c, w), draining' = draining, Draining(c),
         w \in {"swap", "publish"} => pending' = Null
  PROVE  /\ GuardInv' /\ pc'[c] = w /\ \A q \in Threads : q # c => pc'[q] = pc[q]
         /\ \A d \in Poppers : Draining(d) \/ Draining(d)' => d = c
<1>1. pc' = [pc EXCEPT ![c] = w] /\ c \in Threads
  BY DEF Goto, Threads
<1>2. pc'[c] = w /\ \A q \in Threads : q # c => pc'[q] = pc[q]
  BY <1>1 DEF TypeOK
<1>3. draining /\ \A d \in Poppers : Draining(d) => d = c
  BY DEF GuardInv
<1>4. \A d \in Poppers : d # c => (Draining(d)' <=> Draining(d))
  BY <1>2, Apart DEF Draining, Threads
<1>5. \A d \in Poppers : Draining(d)' => d = c
  BY <1>3, <1>4
<1>6. GuardInv'
  BY <1>2, <1>3, <1>5 DEF GuardInv
<1> QED
  BY <1>2, <1>3, <1>5, <1>6

\* The list is looked at once more under the flag.
LEMMA RecheckStep ==
  ASSUME TypeOK, GuardInv, NEW P, NEW D, NEW S, Shape(P, D, S), NEW c \in Poppers, Recheck(c)
  PROVE  Kept
<1>0. PICK w : w = IF pending = Null THEN "swap" ELSE "release"
  OBVIOUS
<1>1. /\ pc[c] = "recheck" /\ Goto(c, w)
      /\ UNCHANGED <<head, pending, draining, len, next, message, live, node, seen, pushes, linked,
                     popped, aba>>
  BY <1>0 DEF Recheck
<1>2. w \in {"swap", "release"} /\ (w = "swap" => pending = Null)
  BY <1>0
<1>3. TypeOK'
  BY <1>1, <1>2 DEF TypeOK, Goto
<1>4. GuardInv'
  <2>1. Draining(c) /\ (w \in {"swap", "publish"} => pending' = Null)
    BY <1>1, <1>2 DEF Draining
  <2> QED
    BY <1>1, <2>1, InsideFrame
<1>5. Shape(P, D, S)'
  <2>1. pc[c] # "publish" /\ w \notin {"publish", "discount"} /\ ~(w \in {"next", "take"})
    BY <1>1, <1>2
  <2> QED
    BY <1>1, <2>1, PopperQuiet
<1> QED
  BY <1>3, <1>4, <1>5 DEF Kept

\* The flag is given back by its only holder.
LEMMA ReleaseDrainingStep ==
  ASSUME TypeOK, GuardInv, NEW P, NEW D, NEW S, Shape(P, D, S), NEW c \in Poppers,
         ReleaseDraining(c)
  PROVE  Kept
<1>1. /\ pc[c] \in {"release", "none"} /\ draining' = FALSE /\ Goto(c, "idle")
      /\ node' = [node EXCEPT ![c] = Null]
      /\ UNCHANGED <<head, pending, len, next, message, live, seen, pushes, linked, popped, aba>>
  BY DEF ReleaseDraining
<1>2. TypeOK'
  BY <1>1 DEF TypeOK, Goto, Pointers
<1>3. GuardInv'
  <2>1. \A d \in Poppers : Draining(d) => d = c
    BY <1>1 DEF GuardInv, Draining
  <2>2. pc' = [pc EXCEPT ![c] = "idle"] /\ c \in Threads
    BY <1>1 DEF Goto, Threads
  <2>3. pc'[c] = "idle" /\ \A d \in Poppers : d # c => pc'[d] = pc[d]
    BY <2>2 DEF TypeOK, Threads
  <2>4. \A d \in Poppers : ~Draining(d)'
    BY <2>1, <2>3 DEF Draining
  <2> QED
    BY <2>4 DEF GuardInv
<1>4. \A q \in Threads : q # c => node'[q] = node[q] /\ seen'[q] = seen[q]
  BY <1>1 DEF TypeOK
<1>5. Shape(P, D, S)'
  BY <1>1, <1>4, PopperQuiet
<1> QED
  BY <1>2, <1>3, <1>5 DEF Kept

\* The exchange that succeeds takes the first node off the list: what was read
\* through the pointer is still its successor, or the address came back.
LEMMA TakeStep ==
  ASSUME ~aba, TypeOK, HeldInv, GuardInv, NEW P, NEW D, NEW S, Shape(P, D, S), NEW c \in Poppers,
         Take(c)
  PROVE  TypeOK' /\ (NoAba => ~aba') /\ (aba' \/ Kept)
<1> DEFINE Q == Range(P) \cup Range(D) \cup Range(S)
<1>0. PICK n : n = node[c]
  OBVIOUS
<1>1. /\ pc[c] = "take"
      /\ UNCHANGED <<head, draining, len, next, message, live, node, seen, pushes, linked>>
  BY DEF Take
<1>2. CASE pending # n /\ Goto(c, "idle") /\ UNCHANGED <<pending, popped, aba>>
  <2>1. TypeOK'
    BY <1>1, <1>2 DEF TypeOK, Goto
  <2>2. GuardInv'
    BY <1>1, <1>2, OutsideFrame
  <2>3. Shape(P, D, S)'
    BY <1>1, <1>2, PopperQuiet
  <2>4. ~aba'
    BY <1>2
  <2> QED
    BY <2>1, <2>2, <2>3, <2>4 DEF Kept
<1>3. CASE /\ pending = n /\ pending' = seen[c] /\ popped' = Append(popped, message[n])
           /\ aba' = (seen[c] # next[n]) /\ Goto(c, "discount")
  <2>1. ListsInv(P, D, S) /\ OrderInv(P, D, S) /\ PointersInv(Range(P), Q)
    BY DEF Shape
  <2>2. NodesInv(Q) /\ PushersInv(Q) /\ TakersInv(Q) /\ (NoAba => ReadersInv(Range(P), Q))
    BY <2>1 DEF PointersInv
  <2>3. n \in Nodes
    BY <1>0, <1>1 DEF HeldInv
  <2>4. pending # Null
    BY <1>3, <2>3, QueueAssumption
  <2>5. /\ P \in Seq(Nodes) /\ D \in Seq(Nodes) /\ S \in Seq(Nodes) /\ Q \subseteq Nodes
        /\ P # <<>> /\ n \in Range(P)
    BY <1>3, <2>1, <2>4, ShapeNodes
  <2>6. /\ n \in live /\ message[n] # Null /\ message[n] \in Messages
        /\ \A p \in Pushers : Private(p) => node[p] # n
    BY <2>2, <2>3, <2>5 DEF NodesInv, PushersInv, TypeOK
  <2>23. NoAba => ~aba'
    BY <1>0, <1>1, <1>3, <2>2, <2>5 DEF ReadersInv
  <2>7. /\ pc'[c] = "discount" /\ \A q \in Threads : q # c => pc'[q] = pc[q]
        /\ \A p \in Pushers : pc'[p] = pc[p]
    <3>1. pc' = [pc EXCEPT ![c] = "discount"] /\ c \in Threads
      BY <1>3 DEF Goto, Threads
    <3>2. pc'[c] = "discount" /\ \A q \in Threads : q # c => pc'[q] = pc[q]
      BY <3>1 DEF TypeOK
    <3> QED
      BY <3>2, Apart
  <2>8. TypeOK'
    <3>1. popped' \in Seq(Messages) /\ pending' \in Pointers /\ aba' \in BOOLEAN
      BY <1>3, <2>6 DEF TypeOK, Threads
    <3>2. pc' \in [Threads -> {"idle", "load", "link", "count", "next", "take", "discount", "drain",
                               "recheck", "swap", "publish", "release", "none"}]
      BY <1>3 DEF TypeOK, Goto
    <3> QED
      BY <1>1, <3>1, <3>2 DEF TypeOK
  <2> SUFFICES ASSUME ~aba' PROVE Kept
    BY <2>8, <2>23
  <2>9. \A d \in Poppers : /\ Draining(d)' <=> Draining(d)
                           /\ Draining(d) => pc'[d] = pc[d]
    BY <1>1, <2>7 DEF Draining, Threads
  <2>10. GuardInv'
    <3> SUFFICES ASSUME NEW d \in Poppers, Draining(d)'
                 PROVE  /\ draining'
                        /\ \A e \in Poppers : Draining(e)' => e = d
                        /\ pc'[d] \in {"swap", "publish"} => pending' = Null
      BY DEF GuardInv
    <3>1. /\ draining /\ \A e \in Poppers : Draining(e) => e = d
          /\ pc[d] \in {"swap", "publish"} => pending = Null
      BY <2>9 DEF GuardInv
    <3> QED
      BY <1>1, <2>4, <2>9, <3>1
  <2>11. Drainer' = Drainer
    <3>1. \A d \in Poppers : pc'[d] = "publish" <=> pc[d] = "publish"
      BY <1>1, <2>7 DEF Threads
    <3> QED
      BY <3>1 DEF Drainer
  <2>12. PICK T : T = Tail(P)
    OBVIOUS
  <2> DEFINE R == Range(T) \cup Range(D) \cup Range(S)
  <2>13. Chain(next, next[n], T) /\ Head(P) = n /\ Range(T) = Range(P) \ {n}
    <3>1. Chain(next, n, P)
      BY <1>3, <2>1 DEF ListsInv
    <3> QED
      BY <2>5, <2>12, <3>1, ChainTail
  <2>14. ListsInv(T, D, S)'
    <3>1. /\ Chain(next, head, S) /\ D \in Seq(Nodes)
          /\ \A d \in Drainer : Chain(next, node[d], D) /\ D # <<>>
          /\ Drainer = {} => D = <<>>
          /\ Range(P) \cap Range(D) = {} /\ Range(P) \cap Range(S) = {}
          /\ Range(D) \cap Range(S) = {}
      BY <2>1 DEF ListsInv
    <3>2. Range(T) \cap Range(D) = {} /\ Range(T) \cap Range(S) = {}
      BY <2>13, <3>1
    <3>3. pending' = next[n]
      BY <1>3
    <3> QED
      BY <1>1, <2>11, <2>13, <3>1, <3>2, <3>3 DEF ListsInv
  <2>15. R = Q \ {n}
    <3>1. n \notin Range(D) /\ n \notin Range(S)
      BY <2>1, <2>5 DEF ListsInv
    <3> QED
      BY <2>13, <3>1
  <2>16. OrderInv(T, D, S)'
    <3>1. /\ Text(message, P) \in Seq(Messages) /\ Reverse(Text(message, D)) \in Seq(Messages)
          /\ Reverse(Text(message, S)) \in Seq(Messages) /\ popped \in Seq(Messages)
          /\ \A m \in Range(P) \cup Range(D) \cup Range(S) : message[m] \in Messages
      BY ShapeText
    <3>2. /\ Text(message, P) = <<message[Head(P)]>> \o Text(message, Tail(P))
          /\ Text(message, Tail(P)) \in Seq(Messages)
      BY <2>5, <3>1, TextTail
    <3>3. PICK a, b, e, x : /\ a = Text(message, T) /\ b = Reverse(Text(message, D))
                            /\ e = Reverse(Text(message, S)) /\ x = message[n]
      OBVIOUS
    <3>4. /\ a \in Seq(Messages) /\ b \in Seq(Messages) /\ e \in Seq(Messages) /\ x \in Messages
          /\ Text(message, P) = <<x>> \o a
      BY <2>6, <2>12, <2>13, <3>1, <3>2, <3>3
    <3>5. linked = popped \o (((<<x>> \o a) \o b) \o e)
      BY <2>1, <3>3, <3>4 DEF OrderInv
    <3>6. popped \o (((<<x>> \o a) \o b) \o e) = Append(popped, x) \o ((a \o b) \o e)
      <4>0. PICK z, y, w : z = <<x>> /\ y = a \o b /\ w = y \o e
        OBVIOUS
      <4>1. a \in Seq(Messages) /\ b \in Seq(Messages) /\ e \in Seq(Messages)
        BY <3>4
      <4>2. z \in Seq(Messages) /\ y \in Seq(Messages)
        BY <3>4, <4>0, <4>1
      <4>3. w \in Seq(Messages)
        BY <4>0, <4>1, <4>2
      <4>4. popped \in Seq(Messages)
        BY <3>1
      <4>5. (z \o a) \o b = z \o (a \o b)
        <5>1. z \in Seq(Messages) /\ a \in Seq(Messages) /\ b \in Seq(Messages)
          BY <4>1, <4>2
        <5> QED
          BY <5>1, ConcatAssociative
      <4>6. (z \o y) \o e = z \o (y \o e)
        <5>1. z \in Seq(Messages) /\ y \in Seq(Messages) /\ e \in Seq(Messages)
          BY <4>1, <4>2
        <5> QED
          BY <5>1, ConcatAssociative
      <4>7. (popped \o z) \o w = popped \o (z \o w)
        BY <4>2, <4>3, <4>4, ConcatAssociative
      <4>8. Append(popped, x) = popped \o <<x>>
        BY <3>4, <4>4, AppendIsConcat
      <4>9. (z \o a) \o b = z \o y
        BY <4>0, <4>5
      <4>10. (z \o y) \o e = z \o w
        BY <4>0, <4>6
      <4> QED
        BY <4>0, <4>7, <4>8, <4>9, <4>10
    <3>7. linked' = popped' \o ((a \o b) \o e)
      BY <1>1, <1>3, <3>3, <3>5, <3>6
    <3> QED
      BY <1>1, <3>3, <3>7 DEF OrderInv
  <2>17. NodesInv(R)'
    BY <1>1, <2>2, <2>15 DEF NodesInv
  <2>18. \A p \in Pushers : Private(p)' <=> Private(p)
    BY <2>7 DEF Private
  <2>24. n \in Q
    BY <2>5
  <2> HIDE DEF Q, R
  <2>19. PushersInv(R)'
    BY <1>1, <2>2, <2>7, <2>15, <2>18 DEF PushersInv
  <2>20. NoAba => ReadersInv(Range(T), R)'
    <3> SUFFICES ASSUME NoAba, NEW d \in Poppers, pc'[d] \in {"next", "take"}
                 PROVE  /\ node'[d] \in Nodes /\ message'[node'[d]] # Null
                        /\ node'[d] \in R => node'[d] \in Range(T)
                        /\ \A r \in Pushers : Private(r)' => node'[r] # node'[d]
                        /\ Reuse => node'[d] = pending'
                        /\ pc'[d] = "take" /\ node'[d] \in Range(T) => seen'[d] = next'[node'[d]]
      BY DEF ReadersInv
    <3>1. d # c /\ pc'[d] = pc[d]
      BY <2>7 DEF Threads
    <3>2. ~Reuse
      BY <3>1 DEF NoAba
    <3>3. /\ node[d] \in Nodes /\ message[node[d]] # Null
          /\ node[d] \in Q => node[d] \in Range(P)
          /\ \A r \in Pushers : Private(r) => node[r] # node[d]
          /\ pc[d] = "take" /\ node[d] \in Range(P) => seen[d] = next[node[d]]
      BY <2>2, <3>1 DEF ReadersInv
    <3> QED
      BY <1>1, <2>13, <2>15, <2>18, <3>1, <3>2, <3>3
  <2>21. TakersInv(R)'
    <3> SUFFICES ASSUME NEW d \in Poppers, pc'[d] = "discount"
                 PROVE  /\ node'[d] \in Nodes /\ node'[d] \notin R /\ message'[node'[d]] # Null
                        /\ \A r \in Pushers : Private(r)' => node'[r] # node'[d]
                        /\ node'[d] \in live'
                        /\ \A e \in Poppers : pc'[e] = "discount" /\ node'[e] = node'[d] => e = d
      BY DEF TakersInv
    <3>0. \A e \in Poppers : pc'[e] = "discount" /\ e # c =>
            pc[e] = "discount" /\ node[e] \notin Q /\ node[e] # n
      BY <2>2, <2>5, <2>7, <2>24 DEF TakersInv, Threads
    <3>1. CASE d = c
      BY <1>0, <1>1, <2>3, <2>6, <2>15, <2>18, <3>0, <3>1
    <3>2. CASE d # c
      <4>1. pc[d] = "discount"
        BY <2>7, <3>2 DEF Threads
      <4>2. /\ node[d] \in Nodes /\ node[d] \notin Q /\ message[node[d]] # Null
            /\ \A r \in Pushers : Private(r) => node[r] # node[d]
            /\ node[d] \in live
            /\ \A e \in Poppers : pc[e] = "discount" /\ node[e] = node[d] => e = d
        BY <2>2, <4>1 DEF TakersInv
      <4> QED
        BY <1>0, <1>1, <2>15, <2>18, <3>0, <3>2, <4>2
    <3> QED
      BY <3>1, <3>2
  <2>22. Shape(T, D, S)'
    BY <2>14, <2>16, <2>17, <2>19, <2>20, <2>21 DEF Shape, PointersInv, R
  <2> QED
    BY <2>8, <2>10, <2>22 DEF Kept
<1> QED
  BY <1>0, <1>2, <1>3 DEF Take

\* The node that is freed is in no list, and nobody else will take it.
LEMMA DiscountStep ==
  ASSUME TypeOK, GuardInv, NEW P, NEW D, NEW S, Shape(P, D, S), NEW c \in Poppers,
         Discount(c)
  PROVE  Kept
<1> DEFINE Q == Range(P) \cup Range(D) \cup Range(S)
<1>0. PICK n : n = node[c]
  OBVIOUS
<1>1. /\ pc[c] = "discount" /\ len' = (len + LenModulus - 1) % LenModulus /\ live' = live \ {n}
      /\ node' = [node EXCEPT ![c] = Null] /\ seen' = [seen EXCEPT ![c] = Null] /\ Goto(c, "idle")
      /\ UNCHANGED <<head, pending, draining, next, message, pushes, linked, popped, aba>>
  BY <1>0 DEF Discount
<1>2. ListsInv(P, D, S) /\ OrderInv(P, D, S) /\ PointersInv(Range(P), Q)
  BY DEF Shape
<1>3. NodesInv(Q) /\ PushersInv(Q) /\ TakersInv(Q) /\ (NoAba => ReadersInv(Range(P), Q))
  BY <1>2 DEF PointersInv
<1>4. n \notin Q /\ \A p \in Pushers : Private(p) => node[p] # n
  BY <1>0, <1>1, <1>3 DEF TakersInv
<1>5. len' \in 0..(LenModulus - 1)
  <2>1. LenModulus \in Nat /\ LenModulus > 0
    BY QueueAssumption, FS_CardinalityType
  <2>2. len + LenModulus - 1 \in Nat
    BY <2>1 DEF TypeOK
  <2> QED
    BY <1>1, <2>1, <2>2
<1>6. TypeOK'
  BY <1>1, <1>5 DEF TypeOK, Goto, Pointers
<1>7. GuardInv'
  BY <1>1, OutsideFrame
<1>8. /\ pc'[c] = "idle" /\ \A q \in Threads : q # c => pc'[q] = pc[q]
      /\ \A q \in Threads : q # c => node'[q] = node[q] /\ seen'[q] = seen[q]
  <2>1. pc' = [pc EXCEPT ![c] = "idle"] /\ c \in Threads
    BY <1>1 DEF Goto, Threads
  <2> QED
    BY <1>1, <2>1 DEF TypeOK
<1>9. /\ \A p \in Pushers : pc'[p] = pc[p] /\ node'[p] = node[p] /\ seen'[p] = seen[p]
      /\ \A p \in Pushers : Private(p)' <=> Private(p)
  <2>1. \A p \in Pushers : pc'[p] = pc[p] /\ node'[p] = node[p] /\ seen'[p] = seen[p]
    BY <1>8, Apart
  <2> QED
    BY <2>1 DEF Private
<1>10. ListsInv(P, D, S)'
  <2>1. \A d \in Poppers : pc'[d] = "publish" <=> pc[d] = "publish"
    BY <1>1, <1>8 DEF Threads
  <2>2. Drainer' = Drainer
    BY <2>1 DEF Drainer
  <2>3. \A d \in Drainer : node'[d] = node[d]
    BY <1>1, <1>8 DEF Drainer, Threads
  <2> QED
    BY <1>1, <1>2, <2>2, <2>3, ListsFrame
<1>11. OrderInv(P, D, S)'
  BY <1>1, <1>2, OrderFrame
<1> HIDE DEF Q
<1>12. NodesInv(Q)'
  BY <1>1, <1>3, <1>4 DEF NodesInv
<1>13. PushersInv(Q)'
  <2> SUFFICES ASSUME NEW q \in Pushers, Private(q)'
               PROVE  /\ node'[q] \in live' /\ node'[q] \notin Q /\ message'[node'[q]] # Null
                      /\ pc'[q] = "link" => next'[node'[q]] = seen'[q]
                      /\ \A r \in Pushers : Private(r)' /\ node'[r] = node'[q] => r = q
    BY DEF PushersInv
  <2>1. /\ node[q] \in live /\ node[q] \notin Q /\ message[node[q]] # Null
        /\ pc[q] = "link" => next[node[q]] = seen[q]
        /\ \A r \in Pushers : Private(r) /\ node[r] = node[q] => r = q
    BY <1>3, <1>9 DEF PushersInv
  <2> QED
    BY <1>1, <1>4, <1>9, <2>1
<1>14. NoAba => ReadersInv(Range(P), Q)'
  <2> SUFFICES ASSUME NoAba, NEW d \in Poppers, pc'[d] \in {"next", "take"}
               PROVE  /\ node'[d] \in Nodes /\ message'[node'[d]] # Null
                      /\ node'[d] \in Q => node'[d] \in Range(P)
                      /\ \A r \in Pushers : Private(r)' => node'[r] # node'[d]
                      /\ Reuse => node'[d] = pending'
                      /\ pc'[d] = "take" /\ node'[d] \in Range(P) => seen'[d] = next'[node'[d]]
    BY DEF ReadersInv
  <2>1. pc'[d] = pc[d] /\ node'[d] = node[d] /\ seen'[d] = seen[d]
    BY <1>8 DEF Threads
  <2>2. /\ node[d] \in Nodes /\ message[node[d]] # Null
        /\ node[d] \in Q => node[d] \in Range(P)
        /\ \A r \in Pushers : Private(r) => node[r] # node[d]
        /\ Reuse => node[d] = pending
        /\ pc[d] = "take" /\ node[d] \in Range(P) => seen[d] = next[node[d]]
    BY <1>3, <2>1 DEF ReadersInv
  <2> QED
    BY <1>1, <1>9, <2>1, <2>2
<1>15. TakersInv(Q)'
  <2> SUFFICES ASSUME NEW d \in Poppers, pc'[d] = "discount"
               PROVE  /\ node'[d] \in Nodes /\ node'[d] \notin Q /\ message'[node'[d]] # Null
                      /\ \A r \in Pushers : Private(r)' => node'[r] # node'[d]
                      /\ node'[d] \in live'
                      /\ \A e \in Poppers : pc'[e] = "discount" /\ node'[e] = node'[d] => e = d
    BY DEF TakersInv
  <2>1. d # c
    BY <1>8
  <2>2. /\ pc'[d] = pc[d] /\ node'[d] = node[d]
        /\ \A e \in Poppers : pc'[e] = "discount" => pc[e] = "discount" /\ node'[e] = node[e]
    BY <1>8, <2>1 DEF Threads
  <2>3. /\ node[d] \in Nodes /\ node[d] \notin Q /\ message[node[d]] # Null
        /\ \A r \in Pushers : Private(r) => node[r] # node[d]
        /\ node[d] \in live /\ node[d] # n
        /\ \A e \in Poppers : pc[e] = "discount" /\ node[e] = node[d] => e = d
    BY <1>0, <1>1, <1>3, <2>1, <2>2 DEF TakersInv
  <2> QED
    BY <1>1, <1>9, <2>2, <2>3
<1>16. Shape(P, D, S)'
  BY <1>10, <1>11, <1>12, <1>13, <1>14, <1>15 DEF Shape, PointersInv, Q
<1> QED
  BY <1>6, <1>7, <1>16 DEF Kept

\* The whole stack changes hands at once.
LEMMA SwapHeadStep ==
  ASSUME TypeOK, GuardInv, NEW P, NEW D, NEW S, Shape(P, D, S), NEW c \in Poppers, SwapHead(c)
  PROVE  Kept
<1> DEFINE Q == Range(P) \cup Range(D) \cup Range(S)
<1>0. PICK w : w = IF head = Null THEN "none" ELSE "publish"
  OBVIOUS
<1>1. /\ pc[c] = "swap" /\ node' = [node EXCEPT ![c] = head] /\ head' = Null /\ Goto(c, w)
      /\ UNCHANGED <<pending, draining, len, next, message, live, seen, pushes, linked, popped, aba>>
  BY <1>0 DEF SwapHead
<1>2. w \in {"none", "publish"} /\ c \in Threads
  BY <1>0, Apart DEF Threads
<1>3. ListsInv(P, D, S) /\ OrderInv(P, D, S) /\ PointersInv(Range(P), Q)
  BY DEF Shape
<1>4. NodesInv(Q) /\ PushersInv(Q) /\ TakersInv(Q) /\ (NoAba => ReadersInv(Range(P), Q))
  BY <1>3 DEF PointersInv
<1>5. TypeOK'
  BY <1>1, <1>2 DEF TypeOK, Goto, Pointers
<1>6. Draining(c) /\ pending = Null
  BY <1>1 DEF GuardInv, Draining
<1>7. /\ GuardInv' /\ pc'[c] = w /\ \A q \in Threads : q # c => pc'[q] = pc[q]
      /\ \A d \in Poppers : Draining(d) \/ Draining(d)' => d = c
  <2>1. w \in {"swap", "publish"} => pending' = Null
    BY <1>1, <1>6
  <2> QED
    BY <1>1, <1>6, <2>1, InsideFrame
<1>8. node'[c] = head /\ \A q \in Threads : q # c => node'[q] = node[q]
  BY <1>1, <1>2 DEF TypeOK
<1>9. /\ P \in Seq(Nodes) /\ D \in Seq(Nodes) /\ S \in Seq(Nodes) /\ Q \subseteq Nodes /\ P = <<>>
      /\ head = Null => S = <<>>
      /\ head # Null => S # <<>>
  BY <1>3, <1>6, ShapeNodes
<1>10. Drainer = {} /\ \A d \in Drainer' : d = c /\ pc'[c] = "publish"
  <2>1. \A d \in Poppers : pc[d] # "publish"
    BY <1>1, <1>7 DEF Draining
  <2>2. \A d \in Poppers : pc'[d] = "publish" => d = c
    BY <1>7 DEF Draining
  <2> QED
    BY <2>1, <2>2 DEF Drainer
<1>11. D = <<>>
  BY <1>3, <1>10 DEF ListsInv
<1>12. Range(<<>>) = {} /\ Range(P) = {} /\ Range(D) = {} /\ Q = Range(S)
  BY <1>9, <1>11 DEF Range
<1>13. ListsInv(P, S, <<>>)'
  <2>1. Chain(next, pending, P) /\ Chain(next, head, S)
    BY <1>3 DEF ListsInv
  <2>2. Chain(next, Null, <<>>)
    BY ChainNone
  <2>3. \A d \in Drainer' : Chain(next, node'[d], S) /\ S # <<>>
    BY <1>0, <1>7, <1>8, <1>9, <1>10, <2>1
  <2>4. Drainer' = {} => S = <<>>
    <3> SUFFICES ASSUME head # Null PROVE Drainer' # {}
      BY <1>9
    <3>1. pc'[c] = "publish"
      BY <1>0, <1>7
    <3> QED
      BY <3>1 DEF Drainer
  <2> QED
    BY <1>1, <1>9, <1>12, <2>1, <2>2, <2>3, <2>4 DEF ListsInv
<1>14. OrderInv(P, S, <<>>)'
  <2>1. /\ Text(message, P) \in Seq(Messages) /\ Reverse(Text(message, S)) \in Seq(Messages)
    BY ShapeText
  <2>2. PICK a, b : a = Text(message, P) /\ b = Reverse(Text(message, S))
    OBVIOUS
  <2>3. a \in Seq(Messages) /\ b \in Seq(Messages)
    BY <2>1, <2>2
  <2>4. Text(message, <<>>) = <<>> /\ Reverse(<<>>) = <<>>
    BY TextNone, ReverseNone
  <2>5. linked = popped \o ((a \o <<>>) \o b)
    BY <1>3, <1>11, <2>2, <2>4 DEF OrderInv
  <2>6. a \o <<>> = a
    BY <2>3, ConcatEmptySeq
  <2>7. PICK ab : ab = a \o b
    OBVIOUS
  <2>8. ab \in Seq(Messages)
    BY <2>3, <2>7
  <2>9. ab \o <<>> = ab
    BY <2>8, ConcatEmptySeq
  <2>10. linked = popped \o ((a \o b) \o <<>>)
    BY <2>5, <2>6, <2>7, <2>9
  <2> QED
    BY <1>1, <2>2, <2>4, <2>10 DEF OrderInv
<1> DEFINE R == Range(P) \cup Range(S) \cup Range(<<>>)
<1>15. R = Q
  BY <1>12
<1> HIDE DEF Q, R
<1>16. NodesInv(R)'
  BY <1>1, <1>4, <1>15 DEF NodesInv
<1>17. \A p \in Pushers : pc'[p] = pc[p] /\ node'[p] = node[p] /\ (Private(p)' <=> Private(p))
  BY <1>7, <1>8, Apart DEF Private
<1>18. PushersInv(R)'
  BY <1>1, <1>4, <1>15, <1>17 DEF PushersInv
<1>19. ASSUME NEW d \in Poppers, pc'[d] \in {"next", "take", "discount"}
       PROVE  pc'[d] = pc[d] /\ node'[d] = node[d]
  <2>1. d # c /\ d \in Threads
    BY <1>2, <1>7, <1>19 DEF Threads
  <2> QED
    BY <1>7, <1>8, <2>1
<1>20. NoAba => ReadersInv(Range(P), R)'
  <2> SUFFICES ASSUME NoAba, NEW d \in Poppers, pc'[d] \in {"next", "take"}
               PROVE  /\ node'[d] \in Nodes /\ message'[node'[d]] # Null
                      /\ node'[d] \in R => node'[d] \in Range(P)
                      /\ \A r \in Pushers : Private(r)' => node'[r] # node'[d]
                      /\ Reuse => node'[d] = pending'
                      /\ pc'[d] = "take" /\ node'[d] \in Range(P) => seen'[d] = next'[node'[d]]
    BY DEF ReadersInv
  <2>1. pc'[d] = pc[d] /\ node'[d] = node[d]
    BY <1>19
  <2>2. /\ node[d] \in Nodes /\ message[node[d]] # Null
        /\ node[d] \in Q => node[d] \in Range(P)
        /\ \A r \in Pushers : Private(r) => node[r] # node[d]
        /\ Reuse => node[d] = pending
        /\ pc[d] = "take" /\ node[d] \in Range(P) => seen[d] = next[node[d]]
    BY <1>4, <2>1 DEF ReadersInv
  <2> QED
    BY <1>1, <1>15, <1>17, <2>1, <2>2
<1>21. TakersInv(R)'
  <2> SUFFICES ASSUME NEW d \in Poppers, pc'[d] = "discount"
               PROVE  /\ node'[d] \in Nodes /\ node'[d] \notin R /\ message'[node'[d]] # Null
                      /\ \A r \in Pushers : Private(r)' => node'[r] # node'[d]
                      /\ node'[d] \in live'
                      /\ \A e \in Poppers : pc'[e] = "discount" /\ node'[e] = node'[d] => e = d
    BY DEF TakersInv
  <2>1. /\ pc'[d] = pc[d] /\ node'[d] = node[d]
        /\ \A e \in Poppers : pc'[e] = "discount" => pc[e] = "discount" /\ node'[e] = node[e]
    BY <1>19
  <2>2. /\ node[d] \in Nodes /\ node[d] \notin Q /\ message[node[d]] # Null
        /\ \A r \in Pushers : Private(r) => node[r] # node[d]
        /\ node[d] \in live
        /\ \A e \in Poppers : pc[e] = "discount" /\ node[e] = node[d] => e = d
    BY <1>4, <2>1 DEF TakersInv
  <2> QED
    BY <1>1, <1>15, <1>17, <2>1, <2>2
<1>22. Shape(P, S, <<>>)'
  BY <1>13, <1>14, <1>16, <1>18, <1>20, <1>21 DEF Shape, PointersInv, R
<1> QED
  BY <1>5, <1>7, <1>22 DEF Kept

\* The drainer alone walks the chain, and readers see it turned around.
LEMMA PublishStep ==
  ASSUME TypeOK, GuardInv, NEW P, NEW D, NEW S, Shape(P, D, S), NEW c \in Poppers,
         Publish(c)
  PROVE  Kept
<1> DEFINE Q == Range(P) \cup Range(D) \cup Range(S)
<1>1. ListsInv(P, D, S) /\ OrderInv(P, D, S) /\ PointersInv(Range(P), Q)
  BY DEF Shape
<1>2. NodesInv(Q) /\ PushersInv(Q) /\ TakersInv(Q) /\ (NoAba => ReadersInv(Range(P), Q))
  BY <1>1 DEF PointersInv
<1>3. pc[c] = "publish" /\ c \in Drainer /\ Draining(c) /\ pending = Null
  BY DEF Publish, Drainer, GuardInv, Draining
<1>4. Chain(next, node[c], D) /\ D # <<>>
  BY <1>1, <1>3 DEF ListsInv
<1>5. ChainFrom(node[c]) = D
  BY <1>4, ChainIs
<1>6. /\ D \in Seq(Nodes) /\ Len(D) \in Nat /\ DOMAIN D = 1 .. Len(D) /\ Len(D) >= 1
      /\ \A i \in 1 .. Len(D) : D[i] \in Nodes
      /\ \A i, j \in 1 .. Len(D) : D[i] = D[j] => i = j
  BY <1>4, ChainFacts
<1> DEFINE before == [i \in DOMAIN D |-> IF i = 1 THEN Null ELSE D[i - 1]]
<1>7. /\ next' = [n \in Nodes |-> IF \E i \in DOMAIN D : D[i] = n
                                  THEN before[CHOOSE i \in DOMAIN D : D[i] = n]
                                  ELSE next[n]]
      /\ pending' = Last(D) /\ Goto(c, "release")
      /\ UNCHANGED <<head, draining, len, message, live, node, seen, pushes, linked, popped, aba>>
  BY <1>5 DEF Publish
<1>8. pending' = D[Len(D)] /\ D[Len(D)] \in Nodes
  BY <1>6, <1>7 DEF Last
<1>9. ASSUME NEW i \in 1 .. Len(D)
      PROVE  next'[D[i]] = IF i = 1 THEN Null ELSE D[i - 1]
  <2>1. PICK k : k = CHOOSE j \in DOMAIN D : D[j] = D[i]
    OBVIOUS
  <2>2. k \in DOMAIN D /\ D[k] = D[i]
    BY <1>6, <2>1
  <2>3. k = i
    BY <1>6, <2>2
  <2>4. next'[D[i]] = before[CHOOSE j \in DOMAIN D : D[j] = D[i]]
    BY <1>6, <1>7
  <2>5. next'[D[i]] = before[i]
    BY <2>1, <2>3, <2>4
  <2> QED
    BY <1>6, <2>5
<1>10. \A n \in Nodes : n \notin Range(D) => next'[n] = next[n]
  BY <1>7 DEF Range
<1>11. next' \in [Nodes -> Pointers]
  <2>1. ASSUME NEW n \in Nodes PROVE next'[n] \in Pointers
    <3>1. CASE n \in Range(D)
      <4>1. PICK i \in 1 .. Len(D) : n = D[i]
        BY <1>6, <3>1 DEF Range
      <4>2. i # 1 => i - 1 \in 1 .. Len(D)
        BY <1>6
      <4> QED
        BY <1>6, <1>9, <4>1, <4>2 DEF Pointers
    <3>2. CASE n \notin Range(D)
      BY <1>10, <3>2 DEF TypeOK
    <3> QED
      BY <3>1, <3>2
  <2> QED
    BY <1>7, <2>1
<1> HIDE DEF before
<1>12. TypeOK'
  BY <1>7, <1>8, <1>11 DEF TypeOK, Goto, Pointers
<1>13. /\ GuardInv' /\ pc'[c] = "release" /\ \A q \in Threads : q # c => pc'[q] = pc[q]
       /\ \A d \in Poppers : Draining(d) \/ Draining(d)' => d = c
  BY <1>3, <1>7, InsideFrame
<1>14. Drainer' = {}
  <2>1. \A d \in Poppers : pc'[d] # "publish"
    BY <1>13 DEF Draining
  <2> QED
    BY <2>1 DEF Drainer
<1>15. /\ P \in Seq(Nodes) /\ S \in Seq(Nodes) /\ Q \subseteq Nodes /\ P = <<>>
  BY <1>1, <1>3, ShapeNodes
<1>16. PICK T : T = Reverse(D)
  OBVIOUS
<1>17. Chain(next', pending', T) /\ Range(T) = Range(D)
  <2>1. PICK ny : ny = next'
    OBVIOUS
  <2>2. \A i \in 1 .. Len(D) : ny[D[i]] = IF i = 1 THEN Null ELSE D[i - 1]
    BY <1>9, <2>1
  <2>3. Chain(ny, D[Len(D)], Reverse(D)) /\ Range(Reverse(D)) = Range(D)
    BY <1>4, <2>2, ChainReverse
  <2> QED
    BY <1>8, <1>16, <2>1, <2>3
<1>18. Range(<<>>) = {} /\ Range(P) = {}
  BY <1>15 DEF Range
<1> DEFINE R == Range(T) \cup Range(<<>>) \cup Range(S)
<1>19. R = Q
  BY <1>17, <1>18
<1>20. ListsInv(T, <<>>, S)'
  <2>1. Chain(next, head, S) /\ Range(D) \cap Range(S) = {}
    BY <1>1 DEF ListsInv
  <2>2. \A m \in Range(S) : next'[m] = next[m]
    BY <1>10, <1>15, <2>1
  <2>3. Chain(next', head, S)
    BY <2>1, <2>2, ChainKeep
  <2> QED
    BY <1>7, <1>14, <1>17, <1>18, <2>1, <2>3 DEF ListsInv
<1>21. OrderInv(T, <<>>, S)'
  <2>1. /\ Reverse(Text(message, D)) \in Seq(Messages) /\ Reverse(Text(message, S)) \in Seq(Messages)
        /\ \A m \in Range(P) \cup Range(D) \cup Range(S) : message[m] \in Messages
    BY ShapeText
  <2>2. PICK a, b : a = Reverse(Text(message, D)) /\ b = Reverse(Text(message, S))
    OBVIOUS
  <2>3. a \in Seq(Messages)
    BY <2>1, <2>2
  <2>4. Text(message, <<>>) = <<>> /\ Reverse(<<>>) = <<>>
    BY TextNone, ReverseNone
  <2>5. Text(message, T) = a
    <3>1. \A m \in Range(D) : message[m] \in Messages
      BY <2>1
    <3> QED
      BY <1>6, <1>16, <2>2, <3>1, TextReverse
  <2>6. linked = popped \o ((<<>> \o a) \o b)
    BY <1>1, <1>15, <2>2, <2>4 DEF OrderInv
  <2>7. <<>> \o a = a /\ a \o <<>> = a
    BY <2>3, ConcatEmptySeq
  <2>8. linked = popped \o ((a \o <<>>) \o b)
    BY <2>6, <2>7
  <2> QED
    BY <1>7, <2>2, <2>4, <2>5, <2>8 DEF OrderInv
<1> HIDE DEF Q, R
<1>22. NodesInv(R)'
  BY <1>2, <1>7, <1>19 DEF NodesInv
<1>23. \A p \in Pushers : pc'[p] = pc[p] /\ (Private(p)' <=> Private(p))
  BY <1>13, Apart DEF Private
<1>24. PushersInv(R)'
  <2> SUFFICES ASSUME NEW q \in Pushers, Private(q)'
               PROVE  /\ node'[q] \in live' /\ node'[q] \notin R /\ message'[node'[q]] # Null
                      /\ pc'[q] = "link" => next'[node'[q]] = seen'[q]
                      /\ \A r \in Pushers : Private(r)' /\ node'[r] = node'[q] => r = q
    BY DEF PushersInv
  <2>1. /\ node[q] \in live /\ node[q] \notin Q /\ message[node[q]] # Null
        /\ pc[q] = "link" => next[node[q]] = seen[q]
        /\ \A r \in Pushers : Private(r) /\ node[r] = node[q] => r = q
    BY <1>2, <1>23 DEF PushersInv
  <2>2. next'[node[q]] = next[node[q]]
    BY <1>10, <2>1 DEF Q, TypeOK
  <2> QED
    BY <1>7, <1>19, <1>23, <2>1, <2>2
<1>25. \A d \in Poppers : d # c => pc'[d] = pc[d]
  BY <1>13 DEF Threads
<1>26. NoAba => ReadersInv(Range(T), R)'
  <2> SUFFICES ASSUME NoAba, NEW d \in Poppers, pc'[d] \in {"next", "take"}
               PROVE  /\ node'[d] \in Nodes /\ message'[node'[d]] # Null
                      /\ node'[d] \in R => node'[d] \in Range(T)
                      /\ \A r \in Pushers : Private(r)' => node'[r] # node'[d]
                      /\ Reuse => node'[d] = pending'
                      /\ pc'[d] = "take" /\ node'[d] \in Range(T) => seen'[d] = next'[node'[d]]
    BY DEF ReadersInv
  <2>1. d # c /\ pc'[d] = pc[d] /\ ~Reuse
    BY <1>13, <1>25 DEF NoAba
  <2>2. /\ node[d] \in Nodes /\ message[node[d]] # Null /\ node[d] \notin Q
        /\ \A r \in Pushers : Private(r) => node[r] # node[d]
    BY <1>2, <1>18, <2>1 DEF ReadersInv
  <2>3. node[d] \notin Range(T)
    BY <1>19, <2>2 DEF R
  <2> QED
    BY <1>7, <1>19, <1>23, <2>1, <2>2, <2>3
<1>27. TakersInv(R)'
  <2> SUFFICES ASSUME NEW d \in Poppers, pc'[d] = "discount"
               PROVE  /\ node'[d] \in Nodes /\ node'[d] \notin R /\ message'[node'[d]] # Null
                      /\ \A r \in Pushers : Private(r)' => node'[r] # node'[d]
                      /\ node'[d] \in live'
                      /\ \A e \in Poppers : pc'[e] = "discount" /\ node'[e] = node'[d] => e = d
    BY DEF TakersInv
  <2>1. /\ d # c /\ pc'[d] = pc[d]
        /\ \A e \in Poppers : pc'[e] = "discount" => pc[e] = "discount"
    BY <1>13, <1>25
  <2>2. /\ node[d] \in Nodes /\ node[d] \notin Q /\ message[node[d]] # Null
        /\ \A r \in Pushers : Private(r) => node[r] # node[d]
        /\ node[d] \in live
        /\ \A e \in Poppers : pc[e] = "discount" /\ node[e] = node[d] => e = d
    BY <1>2, <2>1 DEF TakersInv
  <2> QED
    BY <1>7, <1>19, <1>23, <2>1, <2>2
<1>28. Shape(T, <<>>, S)'
  BY <1>20, <1>21, <1>22, <1>24, <1>26, <1>27 DEF Shape, PointersInv, R
<1> QED
  BY <1>12, <1>13, <1>28 DEF Kept

-----------------------------------------------------------------------------
(* The theorems                                                            *)

\* The queue starts empty.
LEMMA InitInv == ASSUME Init PROVE IInv
<1>1. TypeOK
  <2>1. LenModulus \in Nat /\ LenModulus > 0
    BY QueueAssumption, FS_CardinalityType
  <2>2. \A p \in Pushers : pushes[p] = 0 /\ Quota[p] \in Nat
    BY QueueAssumption DEF Init
  <2>3. \A p \in Pushers : pushes[p] \in 0..Quota[p]
    BY <2>2
  <2>4. len \in 0..(LenModulus - 1)
    BY <2>1 DEF Init
  <2>5. linked \in Seq(Messages) /\ popped \in Seq(Messages)
    BY DEF Init
  <2> QED
    BY <2>3, <2>4, <2>5 DEF Init, TypeOK, Pointers
<1>2. \A t \in Threads : pc[t] = "idle"
  BY DEF Init
<1>3. \A p \in Pushers : pc[p] = "idle"
  BY <1>2, Apart DEF Threads
<1>4. \A c \in Poppers : pc[c] = "idle"
  BY <1>2, Apart DEF Threads
<1>5. GuardInv
  BY <1>4 DEF GuardInv, Draining
<1>6. Drainer = {}
  BY <1>4 DEF Drainer
<1>7. Range(<<>>) = {}
  BY DEF Range
<1>8. ListsInv(<<>>, <<>>, <<>>)
  <2>1. Chain(next, Null, <<>>)
    BY ChainNone
  <2>2. head = Null /\ pending = Null
    BY DEF Init
  <2> QED
    BY <1>6, <1>7, <2>1, <2>2 DEF ListsInv
<1>9. OrderInv(<<>>, <<>>, <<>>)
  <2>1. Text(message, <<>>) = <<>> /\ Reverse(<<>>) = <<>>
    BY TextNone, ReverseNone
  <2>2. linked = <<>> /\ popped = <<>>
    BY DEF Init
  <2>3. <<>> \o <<>> = <<>>
    OBVIOUS
  <2> QED
    BY <2>1, <2>2, <2>3 DEF OrderInv
<1>10. PointersInv({}, {})
  BY <1>3, <1>4 DEF PointersInv, NodesInv, PushersInv, ReadersInv, TakersInv, Private
<1>11. Range(<<>>) \cup Range(<<>>) \cup Range(<<>>) = {}
  BY <1>7
<1>12. Shape(<<>>, <<>>, <<>>)
  BY <1>7, <1>8, <1>9, <1>10, <1>11 DEF Shape
<1> QED
  BY <1>1, <1>4, <1>5, <1>12 DEF IInv, HeldInv, Init

\* A popper's pointer is the one it loaded.
LEMMA HeldStep == ASSUME TypeOK, HeldInv, [Next]_vars PROVE HeldInv'
<1> SUFFICES ASSUME NEW d \in Poppers, pc'[d] \in {"next", "take"} PROVE node'[d] \in Nodes
  BY DEF HeldInv
<1>1. pc[d] \in {"next", "take"} => node[d] \in Nodes
  BY DEF HeldInv
<1>2. ASSUME NEW p \in Pushers, Push(p) PROVE node'[d] \in Nodes
  <2>1. PICK w : Goto(p, w)
    BY <1>2 DEF Push, Allocate, LoadHead, Link, Count
  <2>2. p # d /\ p \in Threads /\ d \in Threads
    BY Apart
  <2>3. pc'[d] = pc[d]
    BY <2>1, <2>2 DEF Goto, TypeOK
  <2>4. node'[d] = node[d]
    BY <1>2, <2>2 DEF Push, Allocate, LoadHead, Link, Count, TypeOK
  <2> QED
    BY <1>1, <2>3, <2>4
<1>3. ASSUME NEW c \in Poppers, Pop(c) PROVE node'[d] \in Nodes
  <2>0. c \in Threads /\ d \in Threads
    BY Apart DEF Threads
  <2>1. CASE d # c
    <3>1. PICK w : Goto(c, w)
      BY <1>3 DEF Pop, LoadPending, ReadNext, Take, Discount, AcquireDraining, Recheck, SwapHead,
         Publish, ReleaseDraining
    <3>2. pc'[d] = pc[d]
      BY <2>0, <2>1, <3>1 DEF Goto, TypeOK
    <3>3. node'[d] = node[d]
      BY <1>3, <2>0, <2>1 DEF Pop, LoadPending, ReadNext, Take, Discount, AcquireDraining, Recheck,
         SwapHead, Publish, ReleaseDraining, TypeOK
    <3> QED
      BY <1>1, <3>2, <3>3
  <2>2. CASE d = c
    <3>1. CASE LoadPending(c)
      <4>1. node'[c] = pending /\ pending \in Pointers
        BY <2>0, <3>1 DEF LoadPending, TypeOK
      <4>2. pc'[c] = IF pending = Null THEN "drain" ELSE "next"
        BY <2>0, <3>1 DEF LoadPending, Goto, TypeOK
      <4> QED
        BY <2>2, <4>1, <4>2 DEF Pointers
    <3>2. CASE ReadNext(c)
      BY <1>1, <2>2, <3>2 DEF ReadNext
    <3>3. CASE Take(c) \/ Discount(c) \/ AcquireDraining(c) \/ Recheck(c) \/ SwapHead(c)
               \/ Publish(c) \/ ReleaseDraining(c)
      <4>1. PICK w : Goto(c, w) /\ w \notin {"next", "take"}
        BY <3>3 DEF Take, Discount, AcquireDraining, Recheck, SwapHead, Publish, ReleaseDraining
      <4>2. pc'[c] = w
        BY <2>0, <4>1 DEF Goto, TypeOK
      <4> QED
        BY <2>2, <4>1, <4>2
    <3> QED
      BY <1>3, <3>1, <3>2, <3>3 DEF Pop
  <2> QED
    BY <2>1, <2>2
<1>4. CASE UNCHANGED vars
  BY <1>1, <1>4 DEF vars
<1> QED
  BY <1>2, <1>3, <1>4 DEF Next, Undefined

\* Every step from a sound queue keeps it sound, or takes an address that came back.
LEMMA SoundStep ==
  ASSUME ~aba, TypeOK, HeldInv, GuardInv, NEW P, NEW D, NEW S, Shape(P, D, S), [Next]_vars
  PROVE  TypeOK' /\ (NoAba => ~aba') /\ (aba' \/ Kept)
<1>1. ASSUME NEW p \in Pushers, Push(p) PROVE Kept /\ ~aba'
  <2>1. ~aba'
    BY <1>1 DEF Push, Allocate, LoadHead, Link, Count
  <2> QED
    BY <1>1, <2>1, AllocateStep, LoadHeadStep, LinkStep, CountStep DEF Push
<1>2. ASSUME NEW c \in Poppers, Pop(c)
      PROVE  TypeOK' /\ (NoAba => ~aba') /\ (aba' \/ Kept)
  <2>0. CASE Take(c)
    BY <2>0, TakeStep
  <2>1. CASE LoadPending(c) \/ ReadNext(c) \/ Discount(c)
    <3>1. Kept
      BY <2>1, LoadPendingStep, ReadNextStep, DiscountStep
    <3>2. ~aba'
      BY <2>1 DEF LoadPending, ReadNext, Discount
    <3> QED
      BY <3>1, <3>2 DEF Kept
  <2>2. CASE AcquireDraining(c) \/ Recheck(c) \/ SwapHead(c) \/ Publish(c) \/ ReleaseDraining(c)
    <3>1. Kept
      BY <2>2, AcquireDrainingStep, RecheckStep, SwapHeadStep, PublishStep, ReleaseDrainingStep
    <3>2. ~aba'
      BY <2>2 DEF AcquireDraining, Recheck, SwapHead, Publish, ReleaseDraining
    <3> QED
      BY <3>1, <3>2 DEF Kept
  <2> QED
    BY <1>2, <2>0, <2>1, <2>2 DEF Pop
<1>3. ASSUME UNCHANGED vars PROVE Kept /\ ~aba'
  <2>1. TypeOK'
    BY <1>3 DEF vars, TypeOK
  <2>2. GuardInv' /\ Drainer' = Drainer
    BY <1>3 DEF vars, GuardInv, Draining, Drainer
  <2>3. /\ next' = next /\ pending' = pending /\ head' = head /\ node' = node
        /\ linked' = linked /\ popped' = popped /\ message' = message
        /\ live' = live /\ pc' = pc /\ seen' = seen /\ aba' = aba
    BY <1>3 DEF vars
  <2>4. ListsInv(P, D, S) /\ OrderInv(P, D, S)
        /\ PointersInv(Range(P), Range(P) \cup Range(D) \cup Range(S))
    BY DEF Shape
  <2>5. ListsInv(P, D, S)'
    BY <2>2, <2>3, <2>4, ListsFrame
  <2>6. OrderInv(P, D, S)'
    BY <2>3, <2>4, OrderFrame
  <2>7. PICK L, Q : L = Range(P) /\ Q = Range(P) \cup Range(D) \cup Range(S)
    OBVIOUS
  <2>8. NodesInv(Q) /\ PushersInv(Q) /\ TakersInv(Q) /\ (NoAba => ReadersInv(L, Q))
    BY <2>4, <2>7 DEF PointersInv
  <2>9. NodesInv(Q)'
    BY <2>3, <2>8 DEF NodesInv
  <2>0. \A p \in Pushers : Private(p)' <=> Private(p)
    BY <2>3 DEF Private
  <2>10. PushersInv(Q)'
    <3> SUFFICES ASSUME NEW q \in Pushers, Private(q)'
                 PROVE  /\ node'[q] \in live' /\ node'[q] \notin Q /\ message'[node'[q]] # Null
                        /\ pc'[q] = "link" => next'[node'[q]] = seen'[q]
                        /\ \A r \in Pushers : Private(r)' /\ node'[r] = node'[q] => r = q
      BY DEF PushersInv
    <3>1. /\ node[q] \in live /\ node[q] \notin Q /\ message[node[q]] # Null
          /\ pc[q] = "link" => next[node[q]] = seen[q]
          /\ \A r \in Pushers : Private(r) /\ node[r] = node[q] => r = q
      BY <2>0, <2>8 DEF PushersInv
    <3> QED
      BY <2>0, <2>3, <3>1
  <2>11. NoAba => ReadersInv(L, Q)'
    <3> SUFFICES ASSUME NoAba, NEW d \in Poppers, pc'[d] \in {"next", "take"}
                 PROVE  /\ node'[d] \in Nodes /\ message'[node'[d]] # Null
                        /\ node'[d] \in Q => node'[d] \in L
                        /\ \A r \in Pushers : Private(r)' => node'[r] # node'[d]
                        /\ Reuse => node'[d] = pending'
                        /\ pc'[d] = "take" /\ node'[d] \in L => seen'[d] = next'[node'[d]]
      BY DEF ReadersInv
    <3>1. /\ node[d] \in Nodes /\ message[node[d]] # Null
          /\ node[d] \in Q => node[d] \in L
          /\ \A r \in Pushers : Private(r) => node[r] # node[d]
          /\ Reuse => node[d] = pending
          /\ pc[d] = "take" /\ node[d] \in L => seen[d] = next[node[d]]
      BY <2>3, <2>8 DEF ReadersInv
    <3> QED
      BY <2>0, <2>3, <3>1
  <2>12. TakersInv(Q)'
    BY <2>3, <2>8 DEF TakersInv, Private
  <2>13. Shape(P, D, S)'
    BY <2>5, <2>6, <2>7, <2>9, <2>10, <2>11, <2>12 DEF Shape, PointersInv
  <2> QED
    BY <2>1, <2>2, <2>3, <2>13 DEF Kept
<1> QED
  BY <1>1, <1>2, <1>3 DEF Next, Undefined, Kept

\* Every step keeps the invariant.
LEMMA NextInv == ASSUME IInv, [Next]_vars PROVE IInv'
<1>1. TypeOK /\ HeldInv
  BY DEF IInv
<1>2. HeldInv'
  BY <1>1, HeldStep
<1>3. CASE aba
  <2>1. UNCHANGED vars
    BY <1>3 DEF Next, Push, Pop, Undefined
  <2>2. TypeOK' /\ aba' /\ ~NoAba
    <3>1. ~NoAba
      BY <1>3 DEF IInv
    <3>2. aba'
      BY <1>3, <2>1 DEF vars
    <3>3. TypeOK'
      BY <1>1, <2>1 DEF vars, TypeOK
    <3> QED
      BY <3>1, <3>2, <3>3
  <2> QED
    BY <1>2, <2>2 DEF IInv
<1>4. CASE ~aba
  <2>1. PICK P, D, S : Shape(P, D, S)
    BY <1>4 DEF IInv
  <2>2. GuardInv
    BY <1>4 DEF IInv
  <2>3. TypeOK' /\ (NoAba => ~aba') /\ (aba' \/ Kept)
    BY <1>1, <1>4, <2>1, <2>2, SoundStep
  <2> QED
    BY <1>2, <2>3 DEF Kept, IInv
<1> QED
  BY <1>3, <1>4

\* The inductive invariant holds in every reachable state.
THEOREM Invariance == Spec => []IInv
<1>1. Init => IInv
  BY InitInv
<1>2. IInv /\ [Next]_vars => IInv'
  BY NextInv
<1> QED
  BY <1>1, <1>2, PTL DEF Spec

\* Every variable has its type in every reachable state.
THEOREM TypeCorrect == Spec => []TypeOK
<1>1. IInv => TypeOK
  BY DEF IInv
<1> QED
  BY <1>1, Invariance, PTL

\* With a single popper, or an allocator that gives no address out again, the
\* exchange of pop_from_pending is never fooled.
THEOREM SinglePopperIsSafe == ASSUME NoAba PROVE Spec => []NeverAba
<1>1. IInv => NeverAba
  BY DEF IInv, NeverAba
<1> QED
  BY <1>1, Invariance, PTL

\* What waits is the list, the chain a drainer moves and the stack.
LEMMA WaitingIs ==
  ASSUME TypeOK, NEW P, NEW D, NEW S, Shape(P, D, S)
  PROVE  /\ Waiting = (Text(message, P) \o Reverse(Text(message, D))) \o Reverse(Text(message, S))
         /\ Waiting \in Seq(Messages) /\ linked = popped \o Waiting
<1> DEFINE text(n) == [i \in 1..Len(ChainFrom(n)) |-> message[ChainFrom(n)[i]]]
           moved == IF Drainer = {} THEN <<>> ELSE Reverse(text(node[CHOOSE c \in Drainer : TRUE]))
<1>1. ListsInv(P, D, S) /\ OrderInv(P, D, S)
  BY DEF Shape
<1>2. ChainFrom(pending) = P /\ ChainFrom(head) = S
  BY <1>1, ChainIs DEF ListsInv
<1>3. text(pending) = Text(message, P) /\ text(head) = Text(message, S)
  BY <1>2 DEF Text
<1>4. moved = Reverse(Text(message, D))
  <2>1. CASE Drainer = {}
    <3>1. D = <<>>
      BY <1>1, <2>1 DEF ListsInv
    <3>2. Reverse(Text(message, <<>>)) = <<>>
      BY TextNone, ReverseNone
    <3> QED
      BY <2>1, <3>1, <3>2
  <2>2. CASE Drainer # {}
    <3>1. PICK c : c = CHOOSE d \in Drainer : TRUE
      OBVIOUS
    <3>2. c \in Drainer
      BY <2>2, <3>1
    <3>3. ChainFrom(node[c]) = D
      BY <1>1, <3>2, ChainIs DEF ListsInv
    <3>4. text(node[c]) = Text(message, D)
      BY <3>3 DEF Text
    <3> QED
      BY <2>2, <3>1, <3>4
  <2> QED
    BY <2>1, <2>2
<1>5. Waiting = (text(pending) \o moved) \o Reverse(text(head))
  BY DEF Waiting
<1> HIDE DEF text, moved
<1>6. Waiting = (Text(message, P) \o Reverse(Text(message, D))) \o Reverse(Text(message, S))
  BY <1>3, <1>4, <1>5
<1>7. linked = popped \o Waiting
  BY <1>1, <1>6 DEF OrderInv
<1>8. Waiting \in Seq(Messages)
  <2>1. PICK a, b, e : /\ a = Text(message, P) /\ b = Reverse(Text(message, D))
                       /\ e = Reverse(Text(message, S))
    OBVIOUS
  <2>2. a \in Seq(Messages) /\ b \in Seq(Messages) /\ e \in Seq(Messages)
    BY <2>1, ShapeText
  <2>3. (a \o b) \o e \in Seq(Messages)
    BY <2>2
  <2> QED
    BY <1>6, <2>1, <2>3
<1> QED
  BY <1>6, <1>7, <1>8

\* Until a pop takes an address that came back, every message is popped once, in
\* the order its node was linked, and until then waits in exactly one of the
\* list, a drainer's hands and the stack.
THEOREM FirstInFirstOut == Spec => []SystemFifo
<1>1. IInv => SystemFifo
  <2> SUFFICES ASSUME IInv, ~aba PROVE linked = popped \o Waiting
    BY DEF SystemFifo
  <2>1. PICK P, D, S : Shape(P, D, S)
    BY DEF IInv
  <2> QED
    BY <2>1, WaitingIs DEF IInv
<1> QED
  BY <1>1, Invariance, PTL

-----------------------------------------------------------------------------
(* The counter                                                             *)

\* The remainder of a division.
LEMMA ModOf ==
  ASSUME NEW L \in Nat, L > 0, NEW q \in Nat, NEW r \in 0 .. (L - 1)
  PROVE  (q * L + r) % L = r
  OBVIOUS

\* Division with remainder.
LEMMA ModSplit ==
  ASSUME NEW L \in Nat, L > 0
  PROVE  \A a \in Nat : \E q \in Nat : \E r \in 0 .. (L - 1) : a = q * L + r
<1> DEFINE T == {a \in Nat : \E q \in Nat : \E r \in 0 .. (L - 1) : a = q * L + r}
<1>1. 0 \in T
  <2>1. 0 = 0 * L + 0 /\ 0 \in 0 .. (L - 1)
    OBVIOUS
  <2> QED
    BY <2>1
<1>2. ASSUME NEW a \in Nat, a \in T PROVE a + 1 \in T
  <2>1. PICK q \in Nat : \E r \in 0 .. (L - 1) : a = q * L + r
    BY <1>2
  <2>2. PICK r \in 0 .. (L - 1) : a = q * L + r
    BY <2>1
  <2>3. CASE r = L - 1
    <3>1. PICK k \in Nat : k = q + 1
      OBVIOUS
    <3>2. (q + 1) * L = q * L + L /\ q * L \in Nat
      OBVIOUS
    <3>3. a + 1 = k * L + 0 /\ 0 \in 0 .. (L - 1)
      BY <2>2, <2>3, <3>1, <3>2
    <3> QED
      BY <3>3
  <2>4. CASE r # L - 1
    <3>1. a + 1 = q * L + (r + 1) /\ r + 1 \in 0 .. (L - 1)
      BY <2>2, <2>4
    <3> QED
      BY <3>1
  <2> QED
    BY <2>3, <2>4
<1>3. \A a \in Nat : a \in T
  <2> HIDE DEF T
  <2> QED
    BY <1>1, <1>2, NatSteps
<1> QED
  BY <1>3

\* The remainder of a sum counts the remainder of a part only.
LEMMA ModSum ==
  ASSUME NEW L \in Nat, L > 0, NEW a \in Nat, NEW b \in Nat
  PROVE  ((a % L) + b) % L = (a + b) % L
<1>1. PICK q \in Nat, r \in 0 .. (L - 1) : a = q * L + r
  BY ModSplit
<1>2. r + b \in Nat
  OBVIOUS
<1>3. PICK k \in Nat, s \in 0 .. (L - 1) : r + b = k * L + s
  BY <1>2, ModSplit
<1>4. a % L = r
  BY <1>1
<1>5. (r + b) % L = s
  BY <1>3, ModOf
<1>6. PICK h \in Nat : h = q + k
  OBVIOUS
<1>7. a + b = h * L + s
  BY <1>1, <1>3, <1>6
<1>8. (h * L + s) % L = s
  BY ModOf
<1> QED
  BY <1>4, <1>5, <1>7, <1>8

\* A whole turn of the counter leaves it where it was.
LEMMA ModTurn ==
  ASSUME NEW L \in Nat, L > 0, NEW a \in Nat
  PROVE  (a + L) % L = a % L
<1>1. PICK q \in Nat, r \in 0 .. (L - 1) : a = q * L + r
  BY ModSplit
<1>0. PICK h \in Nat : h = q + 1
  OBVIOUS
<1>2. a + L = h * L + r
  BY <1>0, <1>1
<1>3. (h * L + r) % L = r
  BY ModOf
<1>4. a % L = r
  BY <1>1
<1> QED
  BY <1>2, <1>3, <1>4

\* Threads between the exchange and the counter's update.
Uncounted == {p \in Pushers : pc[p] = "count"}
Undiscounted == {c \in Poppers : pc[c] = "discount"}

\* The counter and what was linked and not popped, up to the updates under way.
Balance ==
  (len + Cardinality(Uncounted)) % LenModulus
    = ((Len(linked) - Len(popped)) + Cardinality(Undiscounted)) % LenModulus

\* The numbers in it are natural numbers.
LEMMA BalanceTypes ==
  ASSUME IInv, ~aba
  PROVE  /\ LenModulus \in Nat /\ LenModulus > 0 /\ len \in Nat
         /\ IsFiniteSet(Uncounted) /\ Cardinality(Uncounted) \in Nat
         /\ IsFiniteSet(Undiscounted) /\ Cardinality(Undiscounted) \in Nat
         /\ Len(linked) - Len(popped) \in Nat /\ Len(linked) \in Nat /\ Len(popped) \in Nat
<1>1. LenModulus \in Nat /\ LenModulus > 0
  BY QueueAssumption, FS_CardinalityType
<1>2. len \in Nat
  BY <1>1 DEF IInv, TypeOK
<1>3. Uncounted \subseteq Pushers /\ Undiscounted \subseteq Poppers
  BY DEF Uncounted, Undiscounted
<1>4. IsFiniteSet(Uncounted) /\ IsFiniteSet(Undiscounted)
  BY <1>3, QueueAssumption, FS_Subset
<1>5. Cardinality(Uncounted) \in Nat /\ Cardinality(Undiscounted) \in Nat
  BY <1>4, FS_CardinalityType
<1>6. PICK P, D, S : Shape(P, D, S)
  BY DEF IInv
<1>7. Waiting \in Seq(Messages) /\ linked = popped \o Waiting
  BY <1>6, WaitingIs DEF IInv
<1>8. popped \in Seq(Messages)
  BY DEF IInv, TypeOK
<1>9. Len(linked) = Len(popped) + Len(Waiting) /\ Len(popped) \in Nat /\ Len(Waiting) \in Nat
  BY <1>7, <1>8, ConcatProperties
<1> QED
  BY <1>1, <1>2, <1>4, <1>5, <1>9

\* A step that touches neither counter nor history, nor those sets.
LEMMA BalanceFrame ==
  ASSUME Balance, len' = len, linked' = linked, popped' = popped, Uncounted' = Uncounted,
         Undiscounted' = Undiscounted
  PROVE  Balance'
  BY DEF Balance

\* Where one thread moves, the others stay.
LEMMA Moves ==
  ASSUME TypeOK, NEW t \in Threads, NEW w, Goto(t, w)
  PROVE  pc'[t] = w /\ \A q \in Threads : q # t => pc'[q] = pc[q]
  BY DEF Goto, TypeOK

\* A pusher neither in nor from its last step, or a popper likewise.
LEMMA BalanceQuiet ==
  ASSUME TypeOK, Balance, NEW t \in Threads, NEW w, Goto(t, w), len' = len, linked' = linked,
         popped' = popped, pc[t] \notin {"count", "discount"}, w \notin {"count", "discount"}
  PROVE  Balance'
<1>1. pc'[t] = w /\ \A q \in Threads : q # t => pc'[q] = pc[q]
  BY Moves
<1>2. \A q \in Threads : /\ pc'[q] = "count" <=> pc[q] = "count"
                         /\ pc'[q] = "discount" <=> pc[q] = "discount"
  BY <1>1
<1>3. Uncounted' = Uncounted /\ Undiscounted' = Undiscounted
  BY <1>2 DEF Uncounted, Undiscounted, Threads
<1> QED
  BY <1>3, BalanceFrame

\* Linking adds a message and a pusher that has not counted it.
LEMMA LinkBalance ==
  ASSUME IInv, ~aba, Balance, NEW p \in Pushers, Link(p)
  PROVE  Balance'
<1>0. TypeOK /\ p \in Threads
  BY DEF IInv, Threads
<1>1. pc[p] = "link" /\ len' = len /\ popped' = popped
  BY DEF Link
<1>2. CASE Goto(p, "load") /\ linked' = linked
  BY <1>0, <1>1, <1>2, BalanceQuiet
<1>3. CASE Goto(p, "count") /\ linked' = Append(linked, message[node[p]])
  <2>1. pc'[p] = "count" /\ \A q \in Threads : q # p => pc'[q] = pc[q]
    BY <1>0, <1>3, Moves
  <2>2. Uncounted' = Uncounted \cup {p} /\ p \notin Uncounted
    BY <1>1, <2>1 DEF Uncounted, Threads
  <2>3. Undiscounted' = Undiscounted
    BY <2>1, Apart DEF Undiscounted
  <2>4. /\ LenModulus \in Nat /\ LenModulus > 0 /\ len \in Nat
        /\ IsFiniteSet(Uncounted) /\ Cardinality(Uncounted) \in Nat
        /\ Cardinality(Undiscounted) \in Nat
        /\ Len(linked) - Len(popped) \in Nat /\ Len(linked) \in Nat /\ Len(popped) \in Nat
    BY BalanceTypes
  <2>5. Cardinality(Uncounted') = Cardinality(Uncounted) + 1
    BY <2>2, <2>4, FS_AddElement
  <2>6. Len(linked') = Len(linked) + 1
    BY <1>0, <1>3 DEF TypeOK
  <2>7. PICK u, v, w : /\ u = Cardinality(Uncounted) /\ v = Cardinality(Undiscounted)
                       /\ w = Len(linked) - Len(popped)
    OBVIOUS
  <2>8. (len + u) % LenModulus = (w + v) % LenModulus
    BY <2>7 DEF Balance
  <2>9. ((len + u) + 1) % LenModulus = ((w + v) + 1) % LenModulus
    <3>1. PICK x, y, L : x = len + u /\ y = w + v /\ L = LenModulus
      OBVIOUS
    <3>2. x \in Nat /\ y \in Nat /\ L \in Nat /\ L > 0 /\ x % L = y % L
      BY <2>4, <2>7, <2>8, <3>1
    <3>3. (x + 1) % L = (y + 1) % L
      <4>1. ((x % L) + 1) % L = (x + 1) % L
        BY <3>2, ModSum
      <4>2. ((y % L) + 1) % L = (y + 1) % L
        BY <3>2, ModSum
      <4> QED
        BY <3>2, <4>1, <4>2
    <3> QED
      BY <3>1, <3>3
  <2>10. len + (u + 1) = (len + u) + 1 /\ (w + 1) + v = (w + v) + 1
         /\ Len(linked') - Len(popped') = w + 1
    BY <1>1, <2>4, <2>6, <2>7
  <2> QED
    BY <1>1, <2>3, <2>5, <2>7, <2>9, <2>10 DEF Balance
<1> QED
  BY <1>2, <1>3 DEF Link

\* Counting settles what the linking left open.
LEMMA CountBalance ==
  ASSUME IInv, ~aba, Balance, NEW p \in Pushers, Count(p)
  PROVE  Balance'
<1>0. TypeOK /\ p \in Threads
  BY DEF IInv, Threads
<1>1. /\ pc[p] = "count" /\ len' = (len + 1) % LenModulus /\ popped' = popped /\ linked' = linked
      /\ Goto(p, "idle")
  BY DEF Count
<1>2. pc'[p] = "idle" /\ \A q \in Threads : q # p => pc'[q] = pc[q]
  BY <1>0, <1>1, Moves
<1>3. Uncounted' = Uncounted \ {p} /\ p \in Uncounted
  BY <1>1, <1>2 DEF Uncounted, Threads
<1>4. Undiscounted' = Undiscounted
  BY <1>2, Apart DEF Undiscounted
<1>5. /\ LenModulus \in Nat /\ LenModulus > 0 /\ len \in Nat
      /\ IsFiniteSet(Uncounted) /\ Cardinality(Uncounted) \in Nat
  BY BalanceTypes
<1>6. Cardinality(Uncounted') = Cardinality(Uncounted) - 1 /\ Cardinality(Uncounted') \in Nat
  <2>1. /\ IsFiniteSet(Uncounted \ {p})
        /\ Cardinality(Uncounted \ {p}) = Cardinality(Uncounted) - 1
    BY <1>3, <1>5, FS_RemoveElement
  <2>2. Cardinality(Uncounted \ {p}) \in Nat
    BY <2>1, FS_CardinalityType
  <2> QED
    BY <1>3, <2>1, <2>2
<1>7. PICK u : u = Cardinality(Uncounted')
  OBVIOUS
<1>8. (((len + 1) % LenModulus) + u) % LenModulus = ((len + 1) + u) % LenModulus
  <2>1. PICK x, L : x = len + 1 /\ L = LenModulus
    OBVIOUS
  <2>2. x \in Nat /\ u \in Nat /\ L \in Nat /\ L > 0
    BY <1>5, <1>6, <1>7, <2>1
  <2>3. ((x % L) + u) % L = (x + u) % L
    BY <2>2, ModSum
  <2> QED
    BY <2>1, <2>3
<1>9. (len + 1) + u = len + Cardinality(Uncounted)
  BY <1>5, <1>6, <1>7
<1> QED
  BY <1>1, <1>4, <1>7, <1>8, <1>9 DEF Balance

\* Taking removes a message and adds a popper that has not discounted it.
LEMMA TakeBalance ==
  ASSUME IInv, ~aba, Balance, NEW c \in Poppers, Take(c)
  PROVE  Balance'
<1>0. TypeOK /\ c \in Threads
  BY DEF IInv, Threads
<1>1. pc[c] = "take" /\ len' = len /\ linked' = linked
  BY DEF Take
<1>2. CASE Goto(c, "idle") /\ popped' = popped
  BY <1>0, <1>1, <1>2, BalanceQuiet
<1>3. CASE Goto(c, "discount") /\ popped' = Append(popped, message[node[c]])
  <2>1. pc'[c] = "discount" /\ \A q \in Threads : q # c => pc'[q] = pc[q]
    BY <1>0, <1>3, Moves
  <2>2. Undiscounted' = Undiscounted \cup {c} /\ c \notin Undiscounted
    BY <1>1, <2>1 DEF Undiscounted, Threads
  <2>3. Uncounted' = Uncounted
    BY <2>1, Apart DEF Uncounted
  <2>4. /\ IsFiniteSet(Undiscounted) /\ Cardinality(Undiscounted) \in Nat
        /\ Len(linked) - Len(popped) \in Nat /\ Len(linked) \in Nat /\ Len(popped) \in Nat
    BY BalanceTypes
  <2>5. Cardinality(Undiscounted') = Cardinality(Undiscounted) + 1
    BY <2>2, <2>4, FS_AddElement
  <2>6. Len(popped') = Len(popped) + 1
    BY <1>0, <1>3 DEF TypeOK
  <2>7. (Len(linked') - Len(popped')) + Cardinality(Undiscounted')
        = (Len(linked) - Len(popped)) + Cardinality(Undiscounted)
    BY <1>1, <2>4, <2>5, <2>6
  <2> QED
    BY <1>1, <2>3, <2>7 DEF Balance
<1> QED
  BY <1>2, <1>3 DEF Take

\* fetch_sub wraps, and settles what the taking left open.
LEMMA DiscountBalance ==
  ASSUME IInv, ~aba, Balance, NEW c \in Poppers, Discount(c)
  PROVE  Balance'
<1>0. TypeOK /\ c \in Threads
  BY DEF IInv, Threads
<1>1. /\ pc[c] = "discount" /\ len' = (len + LenModulus - 1) % LenModulus /\ popped' = popped
      /\ linked' = linked /\ Goto(c, "idle")
  BY DEF Discount
<1>2. pc'[c] = "idle" /\ \A q \in Threads : q # c => pc'[q] = pc[q]
  BY <1>0, <1>1, Moves
<1>3. Undiscounted' = Undiscounted \ {c} /\ c \in Undiscounted
  BY <1>1, <1>2 DEF Undiscounted, Threads
<1>4. Uncounted' = Uncounted
  BY <1>2, Apart DEF Uncounted
<1>5. /\ LenModulus \in Nat /\ LenModulus > 0 /\ len \in Nat
      /\ Cardinality(Uncounted) \in Nat
      /\ IsFiniteSet(Undiscounted) /\ Cardinality(Undiscounted) \in Nat
      /\ Len(linked) - Len(popped) \in Nat
  BY BalanceTypes
<1>6. Cardinality(Undiscounted') = Cardinality(Undiscounted) - 1 /\ Cardinality(Undiscounted') \in Nat
  <2>1. /\ IsFiniteSet(Undiscounted \ {c})
        /\ Cardinality(Undiscounted \ {c}) = Cardinality(Undiscounted) - 1
    BY <1>3, <1>5, FS_RemoveElement
  <2>2. Cardinality(Undiscounted \ {c}) \in Nat
    BY <2>1, FS_CardinalityType
  <2> QED
    BY <1>3, <2>1, <2>2
<1>7. PICK l, u, v, w, L : /\ l = len /\ u = Cardinality(Uncounted) /\ v = Cardinality(Undiscounted')
                           /\ w = Len(linked) - Len(popped) /\ L = LenModulus
  OBVIOUS
<1>8. l \in Nat /\ u \in Nat /\ v \in Nat /\ w \in Nat /\ L \in Nat /\ L > 0
  BY <1>5, <1>6, <1>7
<1>9. (l + u) % L = (w + (v + 1)) % L
  <2>1. Cardinality(Undiscounted) = v + 1
    BY <1>5, <1>6, <1>7
  <2> QED
    BY <1>7, <2>1 DEF Balance
<1>10. L - 1 \in Nat /\ (l + L) - 1 \in Nat /\ l + u \in Nat /\ w + (v + 1) \in Nat /\ w + v \in Nat
  BY <1>8
<1>11. ((((l + L) - 1) % L) + u) % L = (((l + L) - 1) + u) % L
  BY <1>8, <1>10, ModSum
<1>12. ((l + u) + (L - 1)) % L = ((w + (v + 1)) + (L - 1)) % L
  <2>1. PICK x, y, k : x = l + u /\ y = w + (v + 1) /\ k = L - 1
    OBVIOUS
  <2>2. x \in Nat /\ y \in Nat /\ k \in Nat /\ x % L = y % L
    BY <1>9, <1>10, <2>1
  <2>3. (x + k) % L = (y + k) % L
    <3>1. ((x % L) + k) % L = (x + k) % L
      BY <1>8, <2>2, ModSum
    <3>2. ((y % L) + k) % L = (y + k) % L
      BY <1>8, <2>2, ModSum
    <3> QED
      BY <2>2, <3>1, <3>2
  <2> QED
    BY <2>1, <2>3
<1>13. ((w + v) + L) % L = (w + v) % L
  BY <1>8, <1>10, ModTurn
<1>14. ((l + L) - 1) + u = (l + u) + (L - 1) /\ (w + (v + 1)) + (L - 1) = (w + v) + L
  BY <1>8
<1>15. ((((l + L) - 1) % L) + u) % L = (w + v) % L
  BY <1>11, <1>12, <1>13, <1>14
<1>16. len' = ((l + L) - 1) % L
  <2>1. len + LenModulus - 1 = (l + L) - 1
    BY <1>7, <1>8
  <2> QED
    BY <1>1, <1>7, <2>1
<1> QED
  BY <1>1, <1>4, <1>7, <1>15, <1>16 DEF Balance

\* Every step keeps the counter in balance.
LEMMA NextBalance == ASSUME IInv, ~aba, [Next]_vars, Balance PROVE Balance'
<1>2. TypeOK
  BY DEF IInv
<1>3. ASSUME NEW p \in Pushers, Push(p) PROVE Balance'
  <2>0. p \in Threads
    BY DEF Threads
  <2>1. CASE Allocate(p)
    BY <1>2, <2>0, <2>1, BalanceQuiet DEF Allocate
  <2>2. CASE LoadHead(p)
    BY <1>2, <2>0, <2>2, BalanceQuiet DEF LoadHead
  <2>3. CASE Link(p) \/ Count(p)
    BY <2>3, LinkBalance, CountBalance
  <2> QED
    BY <1>3, <2>1, <2>2, <2>3 DEF Push
<1>4. ASSUME NEW c \in Poppers, Pop(c) PROVE Balance'
  <2>0. c \in Threads
    BY DEF Threads
  <2>1. CASE LoadPending(c)
    <3>1. PICK w \in {"drain", "next"} : Goto(c, w)
      BY <2>1 DEF LoadPending
    <3> QED
      BY <1>2, <2>0, <2>1, <3>1, BalanceQuiet DEF LoadPending
  <2>2. CASE ReadNext(c)
    BY <1>2, <2>0, <2>2, BalanceQuiet DEF ReadNext
  <2>3. CASE Take(c) \/ Discount(c)
    BY <2>3, TakeBalance, DiscountBalance
  <2>4. CASE AcquireDraining(c)
    <3>1. PICK w \in {"idle", "recheck"} : Goto(c, w)
      BY <2>4 DEF AcquireDraining
    <3> QED
      BY <1>2, <2>0, <2>4, <3>1, BalanceQuiet DEF AcquireDraining
  <2>5. CASE Recheck(c)
    <3>1. PICK w \in {"swap", "release"} : Goto(c, w)
      BY <2>5 DEF Recheck
    <3> QED
      BY <1>2, <2>0, <2>5, <3>1, BalanceQuiet DEF Recheck
  <2>6. CASE SwapHead(c)
    <3>1. PICK w \in {"none", "publish"} : Goto(c, w)
      BY <2>6 DEF SwapHead
    <3> QED
      BY <1>2, <2>0, <2>6, <3>1, BalanceQuiet DEF SwapHead
  <2>7. CASE Publish(c)
    <3>1. /\ pc[c] = "publish" /\ Goto(c, "release")
          /\ len' = len /\ linked' = linked /\ popped' = popped
      BY <2>7 DEF Publish
    <3> QED
      BY <1>2, <2>0, <3>1, BalanceQuiet
  <2>8. CASE ReleaseDraining(c)
    BY <1>2, <2>0, <2>8, BalanceQuiet DEF ReleaseDraining
  <2> QED
    BY <1>4, <2>1, <2>2, <2>3, <2>4, <2>5, <2>6, <2>7, <2>8 DEF Pop
<1>5. CASE UNCHANGED vars
  BY <1>5 DEF vars, Balance, Uncounted, Undiscounted
<1> QED
  BY <1>3, <1>4, <1>5 DEF Next, Undefined

\* The counter differs from the number of waiting messages only by the updates
\* still under way, whatever wraps meanwhile, until a pop takes an address that
\* came back.
THEOREM CounterSettles == Spec => []LenBalanced
<1>1. Init => IInv /\ (aba \/ Balance)
  <2> SUFFICES ASSUME Init PROVE Balance
    BY InitInv
  <2>1. \A t \in Threads : pc[t] = "idle"
    BY DEF Init
  <2>2. Uncounted = {} /\ Undiscounted = {}
    BY <2>1 DEF Uncounted, Undiscounted, Threads
  <2>3. Cardinality({}) = 0
    BY FS_EmptySet
  <2>4. len = 0 /\ Len(linked) = 0 /\ Len(popped) = 0
    BY DEF Init
  <2> QED
    BY <2>2, <2>3, <2>4 DEF Balance
<1>2. IInv /\ (aba \/ Balance) /\ [Next]_vars => (IInv /\ (aba \/ Balance))'
  <2> SUFFICES ASSUME IInv, aba \/ Balance, [Next]_vars PROVE IInv' /\ (aba' \/ Balance')
    OBVIOUS
  <2>1. CASE aba
    <3>1. aba'
      BY <2>1 DEF Next, Push, Pop, Undefined, vars
    <3> QED
      BY <3>1, NextInv
  <2>2. CASE ~aba
    BY <2>2, NextInv, NextBalance
  <2> QED
    BY <2>1, <2>2
<1>3. IInv /\ (aba \/ Balance) => LenBalanced
  <2> SUFFICES ASSUME IInv, Balance, ~aba PROVE LenBalanced
    BY DEF LenBalanced
  <2>1. PICK P, D, S : Shape(P, D, S)
    BY DEF IInv
  <2>2. Waiting \in Seq(Messages) /\ linked = popped \o Waiting
    BY <2>1, WaitingIs DEF IInv
  <2>3. popped \in Seq(Messages)
    BY DEF IInv, TypeOK
  <2>4. Len(linked) = Len(popped) + Len(Waiting) /\ Len(popped) \in Nat /\ Len(Waiting) \in Nat
    BY <2>2, <2>3, ConcatProperties
  <2>5. Len(linked) - Len(popped) = Len(Waiting)
    BY <2>4
  <2> QED
    BY <2>5 DEF Balance, LenBalanced, Uncounted, Undiscounted
<1> QED
  BY <1>1, <1>2, <1>3, PTL DEF Spec
=============================================================================
